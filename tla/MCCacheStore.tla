---------------------------- MODULE MCCacheStore ----------------------------
(* Two builds over two keys for CacheStore. *)
EXTENDS CacheStore, TLC

CONSTANTS b1, b2, k1, k2, d1, d2

TwoBuilders == {b1, b2}
TwoKeys == {k1, k2}
TwoDigests == {d1, d2}

\* Both keys may share a blob; k1's producer does not always give the same one.
SharedOutputs == k1 :> {{d1}, {d2}} @@ k2 :> {{d1}}

Interchangeable == Permutations(TwoBuilders)

=============================================================================
