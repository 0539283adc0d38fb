-------------------------- MODULE MCProducerRun --------------------------
(* ProducerRun over a phase of five nodes: 1 and 2 are free, 3 needs 1, 4  *)
(* needs 2 and 3, and 5 needs 1.                                            *)
EXTENDS ProducerRun

MCNodes == 1..5
MCDeps == <<{}, {}, {1}, {2, 3}, {1}>>
=============================================================================
