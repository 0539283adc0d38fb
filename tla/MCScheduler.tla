---------------------------- MODULE MCScheduler -----------------------------
(* A small graph for Scheduler. *)
EXTENDS Scheduler, TLC

\* Four independent tasks, two of them of a class that admits one at a time,
\* and three that wait for others, two of these with a smaller identifier.
SevenTasks == 1 .. 7
Graph ==
  1 :> {3, 4} @@ 2 :> {} @@ 3 :> {} @@ 4 :> {} @@ 5 :> {1, 2} @@ 6 :> {7} @@ 7 :> {}
Depth == [t \in SevenTasks |-> CASE t \in {1, 6} -> 1 [] t = 5 -> 2 [] OTHER -> 0]
TwoClasses == {"default", "link"}
Mixed == [t \in SevenTasks |-> IF t \in {2, 4, 5, 6} THEN "link" ELSE "default"]
OneLink == "default" :> 3 @@ "link" :> 1

=============================================================================
