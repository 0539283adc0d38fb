--------------------------- MODULE MCWarmExecutor ---------------------------
(* A small graph for WarmExecutor: 1 and 2 are independent, 3 reads 1 and   *)
(* waits for 2.                                                             *)
EXTENDS WarmExecutor, TLC

ThreeNodes == 1 .. 3
ThreeDeps == 1 :> {} @@ 2 :> {} @@ 3 :> {1, 2}
ThreeOrderOnly == 1 :> {} @@ 2 :> {} @@ 3 :> {2}
ThreeRanks == 1 :> 0 @@ 2 :> 0 @@ 3 :> 1

=============================================================================
