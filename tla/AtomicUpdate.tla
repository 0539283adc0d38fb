---------------------------- MODULE AtomicUpdate ----------------------------
(***************************************************************************)
(* What CASTransaction promises its callers: a transaction compares the    *)
(* project with its expectations and changes every file it names in one    *)
(* step, or changes nothing.  There are no seats, journals or crashes      *)
(* here; Transactions is shown to implement this specification.            *)
(***************************************************************************)
EXTENDS Naturals, Sequences

CONSTANTS Txns, Paths, Digests, None, Initially

VARIABLES store,  \* the digest at each path, or None
          asked,  \* the operations a caller has put in its transaction
          done    \* transactions that took effect

Operations == [path : Paths, kind : {"write", "delete", "check"},
               expected : Digests \cup {None}, result : Digests \cup {None}]

Init ==
  /\ store = Initially
  /\ asked = [t \in Txns |-> <<>>]
  /\ done = {}

\* The caller adds an operation.  Its expectation is what the caller read, or
\* was told, at some time: nothing says that it is still true.
Ask(t) ==
  /\ t \notin done
  /\ \E o \in Operations : asked' = [asked EXCEPT ![t] = Append(@, o)]
  /\ UNCHANGED <<store, done>>

Drop(t) ==
  /\ t \notin done
  /\ asked' = [asked EXCEPT ![t] = <<>>]
  /\ UNCHANGED <<store, done>>

Updates(t, p) == {o \in {asked[t][i] : i \in DOMAIN asked[t]} :
                    o.path = p /\ o.kind # "check"}

Commit(t) ==
  /\ t \notin done
  /\ \A i \in DOMAIN asked[t] : store[asked[t][i].path] = asked[t][i].expected
  /\ store' = [p \in Paths |-> IF Updates(t, p) = {} THEN store[p]
                               ELSE (CHOOSE o \in Updates(t, p) : TRUE).result]
  /\ done' = done \cup {t}
  /\ UNCHANGED asked

Next == \E t \in Txns : Ask(t) \/ Drop(t) \/ Commit(t)

Spec == Init /\ [][Next]_<<store, asked, done>>
=============================================================================
