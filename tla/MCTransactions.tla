--------------------------- MODULE MCTransactions ---------------------------
(***************************************************************************)
(* Small instances of Transactions for TLC: two paths, one of which exists *)
(* at the start, and six transactions over them: replace and create,       *)
(* create and delete, check and replace, delete twice (once of nothing),   *)
(* checks only, and the empty one.                                         *)
(***************************************************************************)
EXTENDS Transactions, TLC

CONSTANTS t1, t2, p1, p2, a, b

W(p, d) == [path |-> p, kind |-> "write", dg |-> d]
D(p)    == [path |-> p, kind |-> "delete", dg |-> a]
C(p)    == [path |-> p, kind |-> "check", dg |-> a]

MCInitially == p1 :> a @@ p2 :> None

MCPlans == {<<W(p1, b), W(p2, b)>>, <<W(p2, b), D(p1)>>, <<C(p2), W(p1, b)>>,
            <<D(p2), D(p1)>>, <<C(p1), C(p2)>>, <<>>}

=============================================================================
