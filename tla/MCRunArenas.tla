---------------------------- MODULE MCRunArenas -----------------------------
(* One run whose arena is kept when it fails, for RunArenas. *)
EXTENDS RunArenas, TLC

OneRun == {"r1"}
OnFailure == "r1" :> "on-failure"

=============================================================================
