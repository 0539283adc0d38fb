---------------------------- MODULE MCSupervisor ----------------------------
(* One command that may be tried twice, for Supervisor. *)
EXTENDS Supervisor, TLC

One == {"c1"}
OneAttempts == "c1" :> 2
OneLaunches == "c1" :> TRUE

=============================================================================
