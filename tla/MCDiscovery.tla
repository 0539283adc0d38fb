---------------------------- MODULE MCDiscovery ----------------------------
(* A plan of two cells; the second one shows two functions. *)
EXTENDS Discovery

MCTwo == <<1, 2>>

=============================================================================
