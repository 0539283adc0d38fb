-------------------------- MODULE MCProjectRecords --------------------------
(* The imports of a run are interchangeable, and so are the texts. *)
EXTENDS ProjectRecords, TLC

Symmetry == Permutations(Imports) \cup Permutations(Texts)

=============================================================================
