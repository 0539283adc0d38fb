--------------------------- MODULE MCPublication ----------------------------
(* A verification with two targets and the two reports, for Publication. *)
EXTENDS Publication, TLC

OneRun == {"v1"}
OneKind == "v1" :> "verify"
TwoTargets == <<"exe", "dll">>
TwoReports == <<"html", "json">>

=============================================================================
