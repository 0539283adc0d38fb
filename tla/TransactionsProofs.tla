------------------------- MODULE TransactionsProofs -------------------------
(***************************************************************************)
(* Proofs about Transactions, for every set of transactions, paths,        *)
(* digests and plans and every bound.                                      *)
(***************************************************************************)
EXTENDS Transactions, TLAPS

VN == Versions \cup {None}

\* While the holder works at operation k, that operation and its slots exist.
LEMMA AtOperation ==
  ASSUME TypeOK, pc \in ClearingAt \cup ApplyingAt
  PROVE  /\ cur \in Txns /\ seat[cur] /\ k \in Slots(cur)
         /\ backup[cur] \in [Slots(cur) -> VN] /\ backup[cur][k] \in VN
         /\ staged[cur] \in [Slots(cur) -> VN] /\ staged[cur][k] \in VN
         /\ RecordOf(cur, rec) /\ rec.pre[k] \in VN /\ rec.stg[k] \in VN
         /\ ops[cur][k] \in Operations /\ Path(k) \in Paths
         /\ file[Path(k)] \in VN
<1>1. cur \in Txns /\ seat[cur] /\ k \in Slots(cur) /\ RecordOf(cur, rec)
  BY Zenon DEF TypeOK, MemoryOK, ClearingPc, SeatedPc, ClearingAt, ApplyingAt
<1>2. /\ backup[cur] \in [Slots(cur) -> VN] /\ backup[cur][k] \in VN
      /\ staged[cur] \in [Slots(cur) -> VN] /\ staged[cur][k] \in VN
  BY <1>1, Zenon DEF TypeOK, DiskOK, VN
<1>3. rec.pre[k] \in VN /\ rec.stg[k] \in VN
  BY <1>1, Zenon DEF RecordOf, VN
<1>4. ops[cur][k] \in Operations
  BY <1>1 DEF TypeOK, ObjectsOK, Slots
<1>5. Path(k) \in Paths
  BY <1>4, Zenon DEF Operations, Path
<1>6. file[Path(k)] \in VN
  BY <1>5, Zenon DEF TypeOK, DiskOK, VN
<1> QED
  BY <1>1, <1>2, <1>3, <1>4, <1>5, <1>6, Zenon

\* Control ties the lock holder's label to the seat it works on and to the
\* decision; OneSeat and OutcomeReported are not inductive without it.
IInv == TypeOK /\ Control /\ OneSeat /\ OutcomeReported

USE DEF Labels, ClearingPc, ClearingAt, SeatedPc, ApplyingAt, OwnPc

\* commit() or recover() ends: whoever releases the lock with a result that
\* agrees with the decision keeps the parts of the invariant about memory.
LEMMA FinishKeeps ==
  ASSUME IInv, NEW st \in {"ok", "raised", "crashed"}, Finish(st),
         holder # None,
         seat' \in [Txns -> BOOLEAN], \A s \in Txns : seat'[s] => seat[s],
         \/ decided' = decided
         \/ /\ decided' = decided \cup {holder}
            /\ st = "crashed" /\ holder \in Txns,
         \/ late' = late
         \/ late' = late \cup {holder} /\ st = "raised" /\ holder \in Txns,
         holder \in decided => st # "raised" \/ holder \in late',
         st = "ok" /\ holder \in Txns /\ (\E i \in Slots(holder) : IsUpdate(ops[holder][i]))
           => holder \in decided
  PROVE  MemoryOK' /\ PresenceOK' /\ ObjectsOK' /\ Control' /\ OneSeat' /\ OutcomeReported'
<1>1. MemoryOK'
  BY Zenon DEF Finish, MemoryOK
<1>2. ObjectsOK'
  BY Zenon DEF Finish, ObjectsOK, IInv, TypeOK
<1>3. Control'
  <2>1. \A t \in Txns : status'[t] = IF t = holder THEN st ELSE status[t]
    BY Zenon DEF Finish
  <2>2. holder' = None /\ pc' = "idle" /\ cont' = "idle"
    BY Zenon DEF Finish
  <2>3. \A t \in late : t \in Txns /\ t # holder /\ status[t] = "raised"
    BY Zenon DEF IInv, TypeOK, HistoryOK, Control
  <2>4. \A t \in late' : status'[t] = "raised"
    BY <2>1, <2>3, Zenon
  <2>5. ASSUME NEW t \in decided'
        PROVE  status'[t] \in {"running", "ok", "crashed"} \/ t \in late'
    <3>1. CASE t = holder
      <4>1. st = "crashed" \/ holder \in decided
        BY <3>1, Zenon
      <4>2. t \in Txns
        BY <3>1, Zenon DEF IInv, TypeOK, HistoryOK
      <4>3. status'[t] = st
        BY <2>1, <3>1, <4>2, Zenon
      <4> QED
        BY <3>1, <4>1, <4>3, SMT
    <3>2. CASE t # holder
      <4>1. t \in decided
        BY <3>2, Zenon
      <4>2. t \in Txns
        BY <4>1, Zenon DEF IInv, TypeOK, HistoryOK
      <4>3. status[t] \in {"running", "ok", "crashed"} \/ t \in late
        BY <4>1, Zenon DEF IInv, Control
      <4> QED
        BY <2>1, <3>2, <4>2, <4>3, Zenon
    <3> QED
      BY <3>1, <3>2, Zenon
  <2>6. \A t \in Txns : status'[t] # "running"
    BY <2>1, Zenon DEF IInv, Control
  <2> QED
    BY <2>2, <2>4, <2>5, <2>6, ConstantsAssumption, Zenon DEF Control
<1>4. OneSeat'
  BY Zenon DEF OneSeat, IInv
<1>5. OutcomeReported'
  BY DEF Finish, OutcomeReported, IInv, Control, TypeOK, ObjectsOK, Slots
<1>9. PresenceOK'
  BY Zenon DEF Finish, PresenceOK
<1> QED
  BY <1>1, <1>2, <1>3, <1>4, <1>5, <1>9, Zenon

\* The holder goes on to another label of the same seat.
LEMMA GotoKeeps ==
  ASSUME IInv, NEW label, NEW i \in Nat, Goto(label, i),
         UNCHANGED <<seat, decided, late>>,
         \/ pc \in ClearingPc \ {"rmSeat"} /\ label \in ClearingPc
         \/ pc \in SeatedPc /\ label \in SeatedPc,
         label \notin {"rmUnlink", "jcreate", "jhide", "jshow"},
         label = "rmSeat" => jnl'[cur] = NoRecord,
         label \in SeatedPc => jnl'[cur] # NoRecord,
         label = "bverify" => backup'[cur][i] # None,
         label \in ClearingAt \cup ApplyingAt => i \in Slots(cur),
         label = "rollback" => i <= Len(ops[cur]),
         label \in {"capture", "apply", "post"} => i >= 1
  PROVE  MemoryOK' /\ PresenceOK' /\ ObjectsOK' /\ Control' /\ OneSeat' /\ OutcomeReported'
<1>1. MemoryOK'
  BY DEF Goto, MemoryOK, IInv, TypeOK, RecordOf, Slots, txnVars
<1>2. ObjectsOK'
  BY Zenon DEF Goto, ObjectsOK, IInv, TypeOK, txnVars
<1>3. Control'
  BY Zenon DEF Goto, Control, IInv, txnVars, Slots
<1>4. OneSeat' /\ OutcomeReported'
  BY Zenon DEF Goto, OneSeat, OutcomeReported, IInv, txnVars, Slots
<1>9. PresenceOK'
  BY Zenon DEF Goto, PresenceOK
<1> QED
  BY <1>1, <1>2, <1>3, <1>4, <1>9, Zenon

\* commit() turns to the rollback of its own seat.
LEMMA RollBackKeeps ==
  ASSUME IInv, NEW r, NEW b \in BOOLEAN, RollBack(r, b),
         UNCHANGED <<seat, decided, late>>,
         pc \in SeatedPc, RecordOf(cur, r)
  PROVE  MemoryOK' /\ PresenceOK' /\ ObjectsOK' /\ Control' /\ OneSeat' /\ OutcomeReported'
<1>1. MemoryOK'
  BY DEF RollBack, MemoryOK, IInv, TypeOK, ObjectsOK, RecordOf, Slots, txnVars
<1>2. ObjectsOK'
  BY Zenon DEF RollBack, ObjectsOK, IInv, TypeOK, txnVars
<1>3. Control'
  BY Zenon DEF RollBack, Control, IInv, txnVars, Slots
<1>4. OneSeat' /\ OutcomeReported'
  BY Zenon DEF RollBack, OneSeat, OutcomeReported, IInv, txnVars, Slots
<1>9. PresenceOK'
  BY Zenon DEF RollBack, PresenceOK
<1> QED
  BY <1>1, <1>2, <1>3, <1>4, <1>9, Zenon

\* The holder starts to replace the journal of its seat.
LEMMA WriteJournalKeeps ==
  ASSUME IInv, NEW r, NEW label \in {"capture", "mark", "apply", "raise", "commit"},
         WriteJournal(r, label),
         UNCHANGED <<seat, jnl, decided, late>>,
         pc \in SeatedPc \ {"jcreate", "jshow"}, RecordOf(cur, r)
  PROVE  MemoryOK' /\ PresenceOK' /\ ObjectsOK' /\ Control' /\ OneSeat' /\ OutcomeReported'
<1>1. MemoryOK'
  BY Zenon DEF WriteJournal, MemoryOK, IInv, TypeOK, RecordOf, Slots, txnVars
<1>2. ObjectsOK'
  BY Zenon DEF WriteJournal, ObjectsOK, IInv, TypeOK, txnVars
<1>3. Control'
  BY Zenon DEF WriteJournal, Control, IInv, txnVars, Slots
<1>4. OneSeat' /\ OutcomeReported'
  BY Zenon DEF WriteJournal, OneSeat, OutcomeReported, IInv, txnVars, Slots
<1>9. PresenceOK'
  BY Zenon DEF WriteJournal, PresenceOK, IInv, TypeOK
<1> QED
  BY <1>1, <1>2, <1>3, <1>4, <1>9, Zenon

\* An error ends the clearing of a seat.
LEMMA RaiseKeeps ==
  ASSUME IInv, Raise, pc \in ClearingPc, UNCHANGED <<decided, late>>,
         seat' \in [Txns -> BOOLEAN], \A s \in Txns : seat'[s] => seat[s]
  PROVE  MemoryOK' /\ PresenceOK' /\ ObjectsOK' /\ Control' /\ OneSeat' /\ OutcomeReported'
<1>1. holder # None
  BY Zenon DEF IInv, Control
<1>2. holder \in decided => cont = "ok"
  BY Zenon DEF IInv, Control, TypeOK, HistoryOK
<1>3. cont = "ok" /\ holder \in Txns => holder \in decided
  BY Zenon DEF IInv, Control
<1>4. CASE cont = "ok"
  BY <1>1, <1>3, <1>4, FinishKeeps, Zenon DEF Raise
<1>5. CASE cont # "ok"
  BY <1>1, <1>2, <1>5, FinishKeeps, Zenon DEF Raise
<1> QED
  BY <1>4, <1>5, Zenon

\* Steps that leave the disk alone keep its types.
LEMMA SameDisk ==
  ASSUME IInv, UNCHANGED diskVars, UNCHANGED ops
  PROVE  DiskOK'
  BY Zenon DEF IInv, TypeOK, DiskOK, RecordOf, Slots, diskVars

\* Steps that move files between paths, slots and guard names keep them too.
LEMMA DiskKeeps ==
  ASSUME IInv, UNCHANGED <<seat, jnl, ops>>,
         file' \in [Paths -> VN], stash' \subseteq Versions,
         pushed' \in [Txns -> SUBSET Versions],
         DOMAIN staged' = Txns, DOMAIN backup' = Txns,
         \A s \in Txns : seat[s] => staged'[s] \in [Slots(s) -> VN],
         \A s \in Txns : seat[s] => backup'[s] \in [Slots(s) -> VN]
  PROVE  DiskOK'
  BY Zenon DEF IInv, TypeOK, DiskOK, RecordOf, Slots, VN

\* The same types, one by one, for use with DiskKeeps.
LEMMA DiskParts ==
  ASSUME IInv
  PROVE  /\ file \in [Paths -> VN] /\ stash \subseteq Versions
         /\ pushed \in [Txns -> SUBSET Versions]
         /\ DOMAIN staged = Txns /\ DOMAIN backup = Txns
         /\ \A s \in Txns : seat[s] => staged[s] \in [Slots(s) -> VN]
         /\ \A s \in Txns : seat[s] => backup[s] \in [Slots(s) -> VN]
  BY Zenon DEF IInv, TypeOK, DiskOK, VN

\* Steps that leave the history alone, or add a refusal, keep its types.
LEMMA SameHistory ==
  ASSUME IInv, UNCHANGED envVars,
         \/ UNCHANGED histVars
         \/ Refuse /\ cur \in Txns
  PROVE  HistoryOK'
  BY Zenon DEF IInv, TypeOK, HistoryOK, Refuse, envVars, histVars

-----------------------------------------------------------------------------
(* Building a transaction, and the lock *)

\* Every action keeps the invariant: from here on, one lemma per action.
LEMMA AddStep == ASSUME IInv, NEW t \in Txns, Add(t) PROVE IInv'
<1> DEFINE r == plan[t][Len(ops[t]) + 1]
           e == Digest(file[r.path])
           same == r.kind = "write" /\ r.dg = e
           o == [path |-> r.path,
                 kind |-> IF same THEN "check" ELSE r.kind,
                 expected |-> e,
                 result |-> IF r.kind = "write" /\ ~same THEN r.dg ELSE None]
<1>1. r \in Requests
  <2>1. plan[t] \in Seq(Requests) /\ Len(ops[t]) \in Nat
    BY ConstantsAssumption DEF IInv, TypeOK, ObjectsOK
  <2> QED
    BY <2>1 DEF Add
<1>2. e \in Digests \cup {None}
  <2>1. file[r.path] \in Versions \cup {None}
    BY <1>1, Zenon DEF IInv, TypeOK, DiskOK, Requests
  <2> QED
    BY <2>1, Zenon DEF Digest, Versions
<1>3. o \in Operations
  BY <1>1, <1>2, ConstantsAssumption, Zenon DEF Requests, Operations, Kinds
<1>4. ops' = [ops EXCEPT ![t] = Append(ops[t], o)]
  BY Zenon DEF Add
<1>5. ops' \in [Txns -> Seq(Operations)]
  BY <1>3, <1>4, SMTT(30) DEF IInv, TypeOK, ObjectsOK
<1> HIDE DEF o
<1>6. ~seat[t] /\ jnl[t] = NoRecord /\ t # holder
  BY Zenon DEF Add, IInv, TypeOK, DiskOK, ObjectsOK, Control
<1>7. \A s \in Txns \ {t} : ops'[s] = ops[s]
  BY <1>4, Zenon DEF IInv, TypeOK, ObjectsOK
<1>8. cur # t \/ pc \in {"idle", "scan"}
  BY <1>6, Zenon DEF IInv, TypeOK, MemoryOK, Control
<1>9. DiskOK' /\ HistoryOK'
  BY <1>6, <1>7, Zenon DEF Add, IInv, TypeOK, DiskOK, HistoryOK, RecordOf, Slots,
     diskVars, envVars, histVars
<1>10. ObjectsOK'
  BY <1>5, Zenon DEF Add, IInv, TypeOK, ObjectsOK, diskVars
<1>11. MemoryOK'
  <2>1. CASE pc \in {"idle", "scan"}
    BY <2>1, Zenon DEF Add, IInv, TypeOK, MemoryOK, diskVars, memVars
  <2>2. CASE cur # t
    BY <1>7, <2>2, SMTT(60) DEF Add, IInv, TypeOK, MemoryOK, RecordOf, Slots, diskVars, memVars
  <2> QED
    BY <1>8, <2>1, <2>2, Zenon
<1>20. PresenceOK'
  BY Zenon DEF Add, IInv, TypeOK, PresenceOK, diskVars, memVars
<1>12. Control'
  BY <1>7, <1>8, ZenonT(40) DEF Add, IInv, TypeOK, MemoryOK, Control, Slots, diskVars, memVars, histVars
<1>13. OneSeat' /\ OutcomeReported'
  BY <1>7, Zenon DEF Add, IInv, OneSeat, OutcomeReported, Slots, diskVars, histVars
<1> QED
  BY <1>9, <1>10, <1>11, <1>12, <1>13, <1>20, Zenon DEF IInv, TypeOK

LEMMA AbortStep == ASSUME IInv, NEW t \in Txns, Abort(t) PROVE IInv'
<1>1. ops' \in [Txns -> Seq(Operations)]
  BY DEF Abort, IInv, TypeOK, ObjectsOK
<1>2. ~seat[t] /\ jnl[t] = NoRecord /\ t # holder
  BY Zenon DEF Abort, IInv, TypeOK, DiskOK, ObjectsOK, Control
<1>3. \A s \in Txns \ {t} : ops'[s] = ops[s] /\ status'[s] = status[s]
  BY Zenon DEF Abort, IInv, TypeOK, ObjectsOK
<1>4. cur # t \/ pc \in {"idle", "scan"}
  BY <1>2, Zenon DEF IInv, TypeOK, MemoryOK, Control
<1>5. DiskOK' /\ HistoryOK'
  BY <1>2, <1>3, Zenon DEF Abort, IInv, TypeOK, DiskOK, HistoryOK, RecordOf, Slots,
     diskVars, envVars, histVars
<1>6. ObjectsOK'
  BY <1>1, Zenon DEF Abort, IInv, TypeOK, ObjectsOK, diskVars
<1>7. MemoryOK'
  BY <1>3, <1>4 DEF Abort, IInv, TypeOK, MemoryOK, RecordOf, Slots, diskVars, memVars
<1>20. PresenceOK'
  BY Zenon DEF Abort, IInv, TypeOK, PresenceOK, diskVars, memVars
<1>8. status'[t] = "aborted" /\ status[t] = "open"
  BY Zenon DEF Abort, IInv, TypeOK, ObjectsOK
<1>9. Control'
  BY <1>2, <1>3, <1>4, <1>8, ZenonT(40) DEF Abort, IInv, TypeOK, MemoryOK, Control, Slots, diskVars, memVars, histVars, HistoryOK
<1>10. OneSeat' /\ OutcomeReported'
  BY <1>3, <1>8, Zenon DEF Abort, IInv, OneSeat, OutcomeReported, Slots, diskVars, histVars
<1> QED
  BY <1>5, <1>6, <1>7, <1>9, <1>10, <1>20, Zenon DEF IInv, TypeOK

LEMMA CommitEmptyStep == ASSUME IInv, NEW t \in Txns, CommitEmpty(t) PROVE IInv'
<1>1. DiskOK' /\ HistoryOK'
  BY SameDisk, SameHistory, Zenon DEF CommitEmpty
<1>2. ObjectsOK' /\ MemoryOK'
  BY SMTT(30) DEF CommitEmpty, IInv, TypeOK, ObjectsOK, MemoryOK, RecordOf, Slots, diskVars, memVars
<1>20. PresenceOK'
  BY Zenon DEF CommitEmpty, IInv, TypeOK, PresenceOK, diskVars, memVars
<1>3. \A s \in Txns \ {t} : status'[s] = status[s]
  BY Zenon DEF CommitEmpty, IInv, TypeOK, ObjectsOK
<1>4. status'[t] = "ok" /\ status[t] = "open"
  BY Zenon DEF CommitEmpty, IInv, TypeOK, ObjectsOK
<1>5. Control'
  BY <1>3, <1>4, Zenon DEF CommitEmpty, IInv, TypeOK, HistoryOK, Control, Slots, diskVars, memVars, histVars
<1>6. OneSeat' /\ OutcomeReported'
  BY <1>3, <1>4, SMTT(30) DEF CommitEmpty, IInv, OneSeat, OutcomeReported, Slots, diskVars, histVars
<1> QED
  BY <1>1, <1>2, <1>5, <1>6, <1>20, Zenon DEF IInv, TypeOK

LEMMA AcquireStep == ASSUME IInv, NEW t \in Txns, Acquire(t) PROVE IInv'
<1>0. DiskOK'
  BY SameDisk, Zenon DEF Acquire
<1>1. HistoryOK'
  BY Zenon DEF Acquire, IInv, TypeOK, HistoryOK, envVars
<1>2. ObjectsOK' /\ MemoryOK'
  BY DEF Acquire, IInv, TypeOK, ObjectsOK, MemoryOK, diskVars
<1>20. PresenceOK'
  BY Zenon DEF Acquire, PresenceOK
<1>3. /\ \A s \in Txns \ {t} : status'[s] = status[s]
      /\ status'[t] = "running" /\ status[t] \in {"open", "raised"}
  BY Zenon DEF Acquire, IInv, TypeOK, ObjectsOK
<1>4. /\ decided' = decided \ {t} /\ late' = late \ {t}
      /\ pc = "idle" /\ cont = "idle"
  BY <1>3, Zenon DEF Acquire, IInv, Control
<1>5. Control'
  BY <1>3, <1>4, ConstantsAssumption, SMTT(30)
     DEF Acquire, IInv, TypeOK, MemoryOK, Control, Slots, diskVars, histVars
<1>6. OneSeat' /\ OutcomeReported'
  BY <1>3, <1>4, Zenon DEF Acquire, IInv, OneSeat, OutcomeReported, Slots, diskVars
<1> QED
  BY <1>0, <1>1, <1>2, <1>5, <1>6, <1>20, Zenon DEF IInv, TypeOK

LEMMA AcquireRecoverStep == ASSUME IInv, AcquireRecover PROVE IInv'
<1>1. DiskOK' /\ HistoryOK'
  BY SameDisk, SameHistory, Zenon DEF AcquireRecover, txnVars
<1>2. ObjectsOK' /\ MemoryOK'
  BY Zenon DEF AcquireRecover, IInv, TypeOK, ObjectsOK, MemoryOK, diskVars, txnVars
<1>20. PresenceOK'
  BY Zenon DEF AcquireRecover, PresenceOK
<1>3. Control'
  BY ConstantsAssumption, Zenon
     DEF AcquireRecover, IInv, TypeOK, MemoryOK, Control, Slots, diskVars, txnVars, histVars
<1>4. OneSeat' /\ OutcomeReported'
  BY Zenon DEF AcquireRecover, IInv, OneSeat, OutcomeReported, Slots, diskVars, txnVars, histVars
<1> QED
  BY <1>1, <1>2, <1>3, <1>4, <1>20, Zenon DEF IInv, TypeOK

-----------------------------------------------------------------------------
(* Recovery *)

LEMMA ScanSeatStep == ASSUME IInv, NEW s \in Txns, ScanSeat(s) PROVE IInv'
<1>1. DiskOK' /\ HistoryOK'
  BY SameDisk, SameHistory, Zenon DEF ScanSeat, ScanInto, Dispatch, txnVars
<1>2. pc' \in {"rmSeat", "rollback", "rmJournal"} /\ (pc' # "rmSeat" => jnl[s] # NoRecord)
  BY DEF ScanSeat, ScanInto, Dispatch, NoRecord
<1>9. jnl[s].state = "none" => jnl[s] = NoRecord
  BY Zenon DEF IInv, TypeOK, DiskOK, RecordOf
<1>3. ObjectsOK'
  BY Zenon DEF ScanSeat, ScanInto, Dispatch, IInv, TypeOK, ObjectsOK, diskVars, txnVars
<1>4. Len(ops[s]) \in Nat
  BY DEF IInv, TypeOK, ObjectsOK
<1>5. pc' # "rmSeat" => RecordOf(s, rec)'
  BY <1>2, Zenon DEF ScanSeat, ScanInto, Dispatch, IInv, TypeOK, DiskOK, RecordOf, Slots, diskVars, txnVars
<1>6. MemoryOK'
  BY <1>2, <1>4, <1>5 DEF ScanSeat, ScanInto, Dispatch, IInv, TypeOK, MemoryOK, diskVars, txnVars
<1>20. PresenceOK'
  BY <1>2, <1>9, Zenon DEF ScanSeat, ScanInto, Dispatch, PresenceOK, diskVars
<1>7. Control'
  BY <1>2, Zenon DEF ScanSeat, ScanInto, Dispatch, IInv, Control, diskVars, txnVars, histVars
<1>8. OneSeat' /\ OutcomeReported'
  BY Zenon DEF ScanSeat, ScanInto, Dispatch, IInv, OneSeat, OutcomeReported, Slots, diskVars, txnVars, histVars
<1> QED
  BY <1>1, <1>3, <1>6, <1>7, <1>8, <1>20, Zenon DEF IInv, TypeOK

LEMMA ScanDoneStep == ASSUME IInv, ScanDone PROVE IInv'
<1>1. DiskOK' /\ HistoryOK'
  BY SameDisk, SameHistory, Zenon DEF ScanDone, LeaveScan, Finish, txnVars
<1>2. CASE holder = Recoverer /\ Finish("ok")
  <2>1. holder \notin Txns /\ holder # None /\ holder \notin decided
    BY <1>2, ConstantsAssumption, Zenon DEF IInv, TypeOK, HistoryOK
  <2> QED
    BY <1>1, <1>2, <2>1, FinishKeeps, Zenon
       DEF ScanDone, LeaveScan, IInv, TypeOK, DiskOK, diskVars, histVars
<1>3. CASE holder # Recoverer /\ ~(holder = Recoverer /\ Finish("ok"))
  <2>1. holder \in Txns
    BY <1>3, Zenon DEF ScanDone, LeaveScan, IInv, TypeOK, MemoryOK, Control
  <2>2. ObjectsOK' /\ MemoryOK'
    BY <1>3, <2>1 DEF ScanDone, LeaveScan, IInv, TypeOK, ObjectsOK, MemoryOK, diskVars, txnVars
  <2>20. PresenceOK'
    BY <1>3, Zenon DEF ScanDone, LeaveScan, PresenceOK
  <2>3. Control'
    BY <1>3, <2>1, Zenon DEF ScanDone, LeaveScan, IInv, TypeOK, Control, Slots, IsUpdate, diskVars,
       txnVars, histVars
  <2>4. OneSeat' /\ OutcomeReported'
    BY <1>3, Zenon DEF ScanDone, LeaveScan, IInv, OneSeat, OutcomeReported, Slots, diskVars, txnVars, histVars
  <2> QED
    BY <1>1, <2>2, <2>3, <2>4, <2>20, Zenon DEF IInv, TypeOK
<1> QED
  BY <1>2, <1>3, Zenon DEF ScanDone, LeaveScan


LEMMA RollbackSkipStep == ASSUME IInv, RollbackSkip PROVE IInv'
<1>1. DiskOK' /\ HistoryOK'
  BY Zenon DEF RollbackSkip, Goto, IInv, TypeOK, DiskOK, HistoryOK, RecordOf, Slots,
         diskVars, txnVars, envVars, histVars
<1>2. cur \in Txns /\ ops[cur] \in Seq(Operations) /\ k \in Nat /\ k <= Len(ops[cur])
  BY Zenon DEF RollbackSkip, IInv, TypeOK, MemoryOK, ObjectsOK
<1>3. CASE k = 0 /\ Goto("rmJournal", 0)
  BY <1>1, <1>3, GotoKeeps, Zenon DEF RollbackSkip, IInv, TypeOK, diskVars, histVars
<1>4. CASE k > 0 /\ Goto("rollback", k - 1)
  <2>1. k - 1 \in Nat /\ k - 1 <= Len(ops[cur])
    BY <1>2, <1>4
  <2> QED
    BY <1>1, <1>4, <2>1, GotoKeeps, Zenon DEF RollbackSkip, IInv, TypeOK, diskVars, histVars
<1> QED
  BY <1>3, <1>4, Zenon DEF RollbackSkip

LEMMA RestoreBackupStep == ASSUME IInv, RestoreBackup PROVE IInv'
<1>1. file' \in [Paths -> Versions \cup {None}]
  BY AtOperation, Zenon DEF IInv, TypeOK, DiskOK, RestoreBackup, VN
<1>2. DiskOK' /\ HistoryOK'
  BY <1>1, AtOperation, SMTT(30)
     DEF IInv, TypeOK, DiskOK, HistoryOK, RestoreBackup, Goto, Refuse, Raise, Finish,
         RecordOf, Slots, VN, txnVars, envVars, histVars
<1>3. CASE Refuse
  BY <1>2, <1>3, RaiseKeeps, Zenon DEF RestoreBackup, Refuse, IInv, TypeOK, DiskOK
<1>4. CASE Goto("restored", k) /\ UNCHANGED histVars
  <2>1. k \in Nat /\ k \in Slots(cur)
    BY AtOperation, Zenon DEF RestoreBackup, IInv, TypeOK, MemoryOK
  <2> QED
  BY <1>2, <1>4, <2>1, GotoKeeps, Zenon DEF RestoreBackup, IInv, TypeOK, histVars
<1> QED
  BY <1>3, <1>4, Zenon DEF RestoreBackup

LEMMA RollbackUndoStep == ASSUME IInv, RollbackUndo PROVE IInv'
<1>1. DiskOK' /\ HistoryOK'
  BY SameDisk, SameHistory, Zenon DEF RollbackUndo, Goto, txnVars
<1>2. k \in Nat /\ k \in Slots(cur)
  <2>1. k \in Nat /\ k > 0 /\ k <= Len(ops[cur]) /\ cur \in Txns
    BY Zenon DEF RollbackUndo, IInv, TypeOK, MemoryOK
  <2>2. ops[cur] \in Seq(Operations)
    BY <2>1, Zenon DEF IInv, TypeOK, ObjectsOK
  <2> QED
    BY <2>1, <2>2 DEF Slots
<1>3. PICK label \in {"rmTarget", "restore"} : Goto(label, k)
  BY Zenon DEF RollbackUndo
<1> QED
  BY <1>1, <1>2, <1>3, GotoKeeps, Zenon DEF RollbackUndo, IInv, TypeOK, diskVars, histVars

LEMMA RollbackRefuseStep == ASSUME IInv, RollbackRefuse PROVE IInv'
<1>1. DiskOK' /\ HistoryOK'
  BY SameDisk, SameHistory, Zenon DEF RollbackRefuse, Refuse, Raise, Finish, IInv, TypeOK, MemoryOK
<1> QED
  BY <1>1, RaiseKeeps, Zenon DEF RollbackRefuse, Refuse, IInv, TypeOK, DiskOK, diskVars

LEMMA RemoveToGuardStep == ASSUME IInv, RemoveToGuard PROVE IInv'
<1>0. pc = "rmTarget"
  BY Zenon DEF RemoveToGuard
<1>1. file' \in [Paths -> Versions \cup {None}]
  BY <1>0, AtOperation, Zenon DEF IInv, TypeOK, DiskOK, RemoveToGuard, VN
<1>2. DiskOK' /\ HistoryOK'
  BY <1>0, <1>1, AtOperation, Zenon
     DEF IInv, TypeOK, DiskOK, HistoryOK, RemoveToGuard, Refuse, Raise, Finish,
         RecordOf, Slots, txnVars, envVars, histVars
<1>3. CASE Refuse
  BY <1>0, <1>2, <1>3, RaiseKeeps, Zenon DEF RemoveToGuard, Refuse, IInv, TypeOK, DiskOK
<1>4. CASE ~Refuse
  <2>1. guard' \in Versions /\ guard' # None
    BY <1>0, <1>4, AtOperation, Zenon DEF RemoveToGuard, IInv, VN
  <2>2. ObjectsOK' /\ MemoryOK'
    BY <1>0, <1>4, <2>1, Zenon
       DEF RemoveToGuard, IInv, TypeOK, ObjectsOK, MemoryOK, RecordOf, Slots, txnVars
  <2>20. PresenceOK'
    BY <1>0, <1>4, Zenon DEF RemoveToGuard, PresenceOK
  <2>3. Control'
    BY <1>0, <1>4, Zenon DEF RemoveToGuard, IInv, Control, Slots, txnVars, histVars
  <2>4. OneSeat' /\ OutcomeReported'
    BY <1>4, Zenon DEF RemoveToGuard, IInv, OneSeat, OutcomeReported, Slots, txnVars, histVars
  <2> QED
    BY <1>2, <2>2, <2>3, <2>4, <2>20, Zenon DEF IInv, TypeOK
<1> QED
  BY <1>3, <1>4, Zenon

\* A removal that took the wrong file puts it back or leaves it under its guard.
LEMMA PutBackTypes ==
  ASSUME IInv, pc = "rmUnlink", PutBack
  PROVE  file' \in [Paths -> Versions \cup {None}] /\ stash' \subseteq Versions
  BY AtOperation, ZenonT(40) DEF PutBack, IInv, TypeOK, DiskOK, MemoryOK

LEMMA RemoveGuardedStep == ASSUME IInv, RemoveGuarded PROVE IInv'
<1>0. pc = "rmUnlink"
  BY Zenon DEF RemoveGuarded
<1>1. CASE guard # rec.stg[k] /\ PutBack /\ Refuse
  <2>1. DiskOK' /\ HistoryOK'
    BY <1>0, <1>1, AtOperation, PutBackTypes, Zenon
       DEF IInv, TypeOK, DiskOK, HistoryOK, RemoveGuarded, Refuse, Raise, Finish,
           RecordOf, Slots, envVars
  <2> QED
    BY <1>0, <1>1, <2>1, RaiseKeeps, Zenon DEF RemoveGuarded, Refuse, IInv, TypeOK, DiskOK
<1>2. CASE ~(guard # rec.stg[k] /\ PutBack /\ Refuse)
  <2>1. k \in Nat /\ k \in Slots(cur) /\ ops[cur] \in Seq(Operations) /\ cur \in Txns
    BY <1>0, AtOperation, Zenon DEF IInv, TypeOK, MemoryOK, ObjectsOK
  <2>2. k - 1 \in Nat /\ k <= Len(ops[cur]) /\ k - 1 <= Len(ops[cur])
    BY <2>1, SMTT(60) DEF Slots
  <2>3. DiskOK' /\ HistoryOK'
    BY <1>2, Zenon DEF IInv, TypeOK, DiskOK, HistoryOK, RemoveGuarded, RecordOf, Slots,
       txnVars, envVars, histVars
  <2>4. ObjectsOK' /\ MemoryOK'
    BY <1>0, <1>2, <2>1, <2>2, Zenon
       DEF RemoveGuarded, IInv, TypeOK, ObjectsOK, MemoryOK, RecordOf, Slots, txnVars
  <2>20. PresenceOK'
    BY <1>0, <1>2, Zenon DEF RemoveGuarded, PresenceOK
  <2>5. Control'
    BY <1>0, <1>2, Zenon DEF RemoveGuarded, IInv, Control, Slots, txnVars, histVars
  <2>6. OneSeat' /\ OutcomeReported'
    BY <1>2, Zenon DEF RemoveGuarded, IInv, OneSeat, OutcomeReported, Slots, txnVars, histVars
  <2> QED
    BY <2>3, <2>4, <2>5, <2>6, <2>20, Zenon DEF IInv, TypeOK
<1> QED
  BY <1>1, <1>2, Zenon

\* A competing file is moved to a guard name.
LEMMA SetAsideTypes ==
  ASSUME IInv, NEW p \in Paths, SetAside(p)
  PROVE  file' \in [Paths -> Versions \cup {None}] /\ stash' \subseteq Versions
  BY Zenon DEF SetAside, IInv, TypeOK, DiskOK

LEMMA RestoreVerifyStep == ASSUME IInv, RestoreVerify PROVE IInv'
<1>0. pc = "restored"
  BY Zenon DEF RestoreVerify
<1>1. k \in Nat /\ k \in Slots(cur) /\ ops[cur] \in Seq(Operations) /\ cur \in Txns
      /\ Path(k) \in Paths
  BY <1>0, AtOperation, Zenon DEF IInv, TypeOK, MemoryOK, ObjectsOK
<1>2. k - 1 \in Nat /\ k - 1 <= Len(ops[cur])
  BY <1>1, SMTT(60) DEF Slots
<1>3. DiskOK' /\ HistoryOK'
  BY <1>1, SetAsideTypes, Zenon
     DEF IInv, TypeOK, DiskOK, HistoryOK, RestoreVerify, Goto, Refuse, Raise, Finish,
         RecordOf, Slots, txnVars, envVars, histVars
<1>4. CASE Refuse
  BY <1>0, <1>3, <1>4, RaiseKeeps, Zenon DEF RestoreVerify, Refuse, IInv, TypeOK, DiskOK
<1>5. CASE Goto("rollback", k - 1) /\ UNCHANGED histVars
  BY <1>0, <1>2, <1>3, <1>5, GotoKeeps, Zenon DEF RestoreVerify, IInv, TypeOK, histVars
<1> QED
  BY <1>4, <1>5, Zenon DEF RestoreVerify

LEMMA RemoveJournalStep == ASSUME IInv, RemoveJournal PROVE IInv'
<1>0. pc = "rmJournal" /\ cur \in Txns
  BY Zenon DEF RemoveJournal, IInv, TypeOK, MemoryOK
<1>1. DiskOK' /\ HistoryOK'
  BY <1>0, Zenon DEF IInv, TypeOK, DiskOK, HistoryOK, RemoveJournal, Goto, Raise, Finish,
     RecordOf, Slots, txnVars, envVars, histVars
<1>2. CASE Raise
  BY <1>0, <1>1, <1>2, RaiseKeeps, Zenon DEF RemoveJournal, IInv, TypeOK, DiskOK, histVars
<1>3. CASE ~Raise
  <2>1. jnl'[cur] = NoRecord /\ Goto("rmSeat", 0)
    BY <1>0, <1>3, Zenon DEF RemoveJournal, IInv, TypeOK, DiskOK
  <2> QED
    BY <1>0, <1>1, <2>1, GotoKeeps, Zenon DEF RemoveJournal, IInv, TypeOK, histVars
<1> QED
  BY <1>2, <1>3, Zenon

LEMMA RemoveSeatStep == ASSUME IInv, RemoveSeat PROVE IInv'
<1>0. pc = "rmSeat" /\ cur \in Txns
  BY Zenon DEF RemoveSeat, IInv, TypeOK, MemoryOK
<1>1. seat' \in [Txns -> BOOLEAN] /\ (\A s \in Txns : seat'[s] => seat[s] /\ s # cur)
  BY <1>0, Zenon DEF RemoveSeat, IInv, TypeOK, DiskOK
<1>2. ops' = ops
  BY Zenon DEF RemoveSeat, Raise, Finish, txnVars
<1>3. jnl[cur] = NoRecord
  BY <1>0, Zenon DEF IInv, TypeOK, PresenceOK
<1>4. DiskOK'
  BY <1>0, <1>1, <1>2, <1>3, Zenon DEF IInv, TypeOK, DiskOK, RemoveSeat, RecordOf, Slots
<1>7. dropped' \subseteq Versions
  <2>1. Backups(cur) \ {None} \subseteq Versions
    <3>1. backup[cur] \in [Slots(cur) -> VN]
      BY <1>0, DiskParts, Zenon DEF IInv, TypeOK, MemoryOK
    <3> QED
      BY <3>1, Zenon DEF Backups, VN
  <2>2. pushed[cur] \subseteq Versions
    BY <1>0, DiskParts, Zenon
  <2>3. Files \subseteq Versions
    BY DiskParts, Zenon DEF Files, VN
  <2> QED
    BY <2>1, <2>2, <2>3, Zenon DEF RemoveSeat, IInv, TypeOK, HistoryOK
<1>8. HistoryOK'
  BY <1>7, Zenon DEF RemoveSeat, IInv, TypeOK, HistoryOK, envVars
<1>5. CASE Raise
  BY <1>0, <1>1, <1>4, <1>5, <1>8, RaiseKeeps, Zenon DEF RemoveSeat, IInv, TypeOK
<1>6. CASE cont = "scan"
  <2>1. ObjectsOK' /\ MemoryOK'
    BY <1>0, <1>1, <1>6, SMTT(30) DEF RemoveSeat, IInv, TypeOK, ObjectsOK, MemoryOK, txnVars
  <2>20. PresenceOK'
    BY <1>0, <1>6, Zenon DEF RemoveSeat, PresenceOK
  <2>2. Control'
    BY <1>0, <1>6, SMTT(30) DEF RemoveSeat, IInv, Control, Slots, txnVars, histVars
  <2>3. OneSeat' /\ OutcomeReported'
    BY <1>1, <1>6, Zenon DEF RemoveSeat, IInv, OneSeat, OutcomeReported, Slots, txnVars, histVars
  <2> QED
    BY <1>4, <1>8, <2>1, <2>2, <2>3, <2>20, Zenon DEF IInv, TypeOK
<1> QED
  BY <1>5, <1>6, Zenon DEF RemoveSeat

-----------------------------------------------------------------------------
(* Publication *)

\* Inside commit() the seat is the holder's own, and it is not decided.
LEMMA AtSeat ==
  ASSUME IInv, pc \in SeatedPc
  PROVE  /\ cur \in Txns /\ seat[cur] /\ holder = cur /\ cur \notin decided
         /\ RecordOf(cur, rec) /\ ops[cur] \in Seq(Operations)
         /\ k \in Nat /\ Len(ops[cur]) \in Nat
  BY SMTT(30) DEF IInv, TypeOK, MemoryOK, ObjectsOK, Control

\* Inside commit() a journal exists, except while it is created or replaced.
LEMMA JournalKept ==
  ASSUME IInv, pc \in SeatedPc \ {"jcreate", "jshow"}, jnl' = jnl
  PROVE  jnl'[cur] # NoRecord
  BY Zenon DEF IInv, TypeOK, PresenceOK

LEMMA VerifyOnlyStep == ASSUME IInv, VerifyOnly PROVE IInv'
<1>1. DiskOK' /\ HistoryOK'
  BY SameDisk, SameHistory, Zenon DEF VerifyOnly, Goto, Finish, txnVars
<1>2. /\ pc = "verify" /\ cur = holder /\ holder \in Txns /\ holder # None
      /\ holder \notin decided /\ \A i \in Slots(holder) : ~IsUpdate(ops[holder][i])
  BY ConstantsAssumption, Zenon DEF VerifyOnly, IInv, Control
<1>3. CASE \E st \in {"ok", "raised"} : Finish(st)
  BY <1>1, <1>2, <1>3, FinishKeeps, Zenon DEF VerifyOnly, IInv, TypeOK, DiskOK, diskVars, histVars
<1>4. CASE Goto("verify", k + 1)
  <2>0. k + 1 \in Nat
    BY DEF IInv, TypeOK, MemoryOK
  <2>1. ObjectsOK' /\ MemoryOK'
    BY <1>2, <1>4, <2>0, Zenon
       DEF VerifyOnly, Goto, IInv, TypeOK, ObjectsOK, MemoryOK, diskVars, txnVars
  <2>20. PresenceOK'
    BY <1>2, <1>4, Zenon DEF Goto, PresenceOK
  <2>2. Control' /\ OneSeat' /\ OutcomeReported'
    BY <1>2, <1>4, Zenon DEF VerifyOnly, Goto, IInv, Control, OneSeat, OutcomeReported, Slots,
       diskVars, txnVars, histVars
  <2> QED
    BY <1>1, <2>1, <2>2, <2>20, Zenon DEF IInv, TypeOK
<1> QED
  BY <1>3, <1>4, Zenon DEF VerifyOnly

LEMMA CreateSeatStep == ASSUME IInv, CreateSeat PROVE IInv'
<1>1. /\ pc = "create" /\ cur = holder /\ cur \in Txns /\ cur \notin decided
      /\ status[cur] = "running" /\ \A s \in Txns : ~seat[s]
  BY Zenon DEF CreateSeat, IInv, Control
<1>2. /\ seat' \in [Txns -> BOOLEAN] /\ seat'[cur]
      /\ \A s \in Txns : seat'[s] => s = cur
  BY <1>1, Zenon DEF CreateSeat, IInv, TypeOK, DiskOK
<1>3. /\ staged'[cur] = Empty(cur) /\ backup'[cur] = Empty(cur)
      /\ DOMAIN staged' = Txns /\ DOMAIN backup' = Txns
      /\ Empty(cur) \in [Slots(cur) -> Versions \cup {None}]
  BY <1>1, Zenon DEF CreateSeat, IInv, TypeOK, DiskOK, Empty
<1>4. DiskOK' /\ HistoryOK'
  BY <1>1, <1>2, <1>3, Zenon DEF CreateSeat, IInv, TypeOK, DiskOK, HistoryOK, Slots, txnVars,
     envVars, histVars
<1>5. ObjectsOK'
  BY <1>1, <1>2, Zenon DEF CreateSeat, IInv, TypeOK, ObjectsOK, txnVars
<1>6. RecordOf(cur, NewRecord(cur))
  <2>1. \A i \in Slots(cur) : ops[cur][i] \in Operations
    BY <1>1 DEF IInv, TypeOK, ObjectsOK, Slots
  <2>2. [i \in Slots(cur) |-> ops[cur][i].kind] \in [Slots(cur) -> Kinds]
    BY <2>1, Zenon DEF Operations
  <2> QED
    BY <1>3, <2>2, Zenon DEF RecordOf, NewRecord
<1>7. RecordOf(cur, rec)'
  BY <1>6, Zenon DEF CreateSeat, RecordOf, Slots, txnVars
<1>8. jnl'[cur] = NoRecord
  BY <1>1, Zenon DEF CreateSeat, IInv, TypeOK, DiskOK
<1>9. MemoryOK'
  BY <1>1, <1>2, <1>7, <1>8, Zenon DEF CreateSeat, IInv, TypeOK, MemoryOK, txnVars
<1>20. PresenceOK'
  BY <1>8, Zenon DEF CreateSeat, PresenceOK
<1>10. Control'
  BY <1>1, Zenon DEF CreateSeat, IInv, Control, txnVars, histVars
<1>11. OneSeat' /\ OutcomeReported'
  BY <1>2, Zenon DEF CreateSeat, IInv, OneSeat, OutcomeReported, Slots, txnVars, histVars
<1> QED
  BY <1>4, <1>5, <1>9, <1>10, <1>11, <1>20, Zenon DEF IInv, TypeOK

LEMMA CreateJournalStep == ASSUME IInv, CreateJournal PROVE IInv'
<1>0. pc = "jcreate"
  BY Zenon DEF CreateJournal
<1>2. jnl'[cur] # NoRecord
  <2>1. rec # NoRecord
    BY <1>0, AtSeat DEF RecordOf, NoRecord
  <2>2. jnl'[cur] = rec
    BY <1>0, AtSeat, Zenon DEF CreateJournal, IInv, TypeOK, DiskOK
  <2> QED
    BY <2>1, <2>2, Zenon
<1>1. DiskOK' /\ HistoryOK'
  BY <1>0, AtSeat, Zenon DEF CreateJournal, Goto, IInv, TypeOK, DiskOK, HistoryOK, RecordOf,
     Slots, txnVars, envVars, histVars
<1> QED
  BY <1>0, <1>1, <1>2, GotoKeeps, Zenon DEF CreateJournal, IInv, TypeOK, histVars

LEMMA StageStep == ASSUME IInv, Stage PROVE IInv'
<1> DEFINE out == [i \in Slots(cur) |-> IF ops[cur][i].kind = "write"
                     THEN Output(cur, i, ops[cur][i].result) ELSE None]
<1>0. pc = "stage"
  BY Zenon DEF Stage
<1>1. out \in [Slots(cur) -> Versions \cup {None}]
  <2> SUFFICES ASSUME NEW i \in Slots(cur), ops[cur][i].kind = "write"
               PROVE  Output(cur, i, ops[cur][i].result) \in Versions
    BY Zenon
  <2>1. ops[cur][i].result \in Digests
    BY <1>0, AtSeat DEF Slots, Operations
  <2>2. attempt[cur] \in Nat /\ i \in Nat
    <3>1. attempt[cur] \in Nat
      BY <1>0, AtSeat, Zenon DEF IInv, TypeOK, ObjectsOK
    <3>2. i \in Nat
      BY <1>0, AtSeat DEF Slots
    <3> QED
      BY <3>1, <3>2, Zenon
  <2>3. <<attempt[cur], i>> \in Seq(Nat \cup Paths)
    BY <2>2
  <2> QED
    BY <1>0, <2>1, <2>3, AtSeat, Zenon DEF Output, Versions
<1>2. RecordOf(cur, [rec EXCEPT !.stg = out])
  BY <1>0, <1>1, AtSeat, Zenon DEF RecordOf
<1>3. staged' = [staged EXCEPT ![cur] = out] /\ WriteJournal([rec EXCEPT !.stg = out], "capture")
  BY Zenon DEF Stage
<1> HIDE DEF out
<1>4. DiskOK' /\ HistoryOK'
  BY <1>0, <1>1, <1>3, AtSeat, ZenonT(40) DEF Stage, WriteJournal, IInv, TypeOK, DiskOK, HistoryOK, RecordOf,
     Slots, txnVars, envVars, histVars
<1> QED
  BY <1>0, <1>2, <1>3, <1>4, WriteJournalKeeps, Zenon DEF Stage, IInv, TypeOK, histVars

LEMMA CaptureStep == ASSUME IInv, Capture PROVE IInv'
<1>0. pc = "capture"
  BY Zenon DEF Capture, CaptureIf
<1>1. DiskOK' /\ HistoryOK'
  BY SameDisk, SameHistory, Zenon DEF Capture, CaptureIf, WriteJournal, RollBack, txnVars
<1>2. CASE WriteJournal(rec, "mark")
  BY <1>0, <1>1, <1>2, AtSeat, WriteJournalKeeps, Zenon DEF Capture, CaptureIf, IInv, TypeOK, diskVars, histVars
<1>3. CASE RollBack(rec, TRUE)
  BY <1>0, <1>1, <1>3, AtSeat, RollBackKeeps, Zenon DEF Capture, CaptureIf, IInv, TypeOK, diskVars, histVars
<1>4. CASE ~WriteJournal(rec, "mark") /\ ~RollBack(rec, TRUE)
  <2>1. k \in Slots(cur)
    <3>1. k <= Len(ops[cur])
      BY <1>4, Zenon DEF Capture, CaptureIf
    <3>2. k >= 1 /\ k \in Nat
      BY <1>0, Zenon DEF IInv, TypeOK, MemoryOK
    <3> QED
      BY <1>0, <3>1, <3>2, AtSeat DEF Slots
  <2>2. RecordOf(cur, [rec EXCEPT !.pre[k] = file[Path(k)]])
    <3>1. file[Path(k)] \in Versions \cup {None}
      BY <1>0, <2>1, AtSeat, SMTT(60) DEF Path, Slots, Operations, IInv, TypeOK, DiskOK
    <3> QED
      BY <1>0, <2>1, <3>1, AtSeat, Zenon DEF RecordOf
  <2>3. RecordOf(cur, rec)'
    BY <1>4, <2>2, Zenon DEF Capture, CaptureIf, RecordOf, Slots, txnVars
  <2>4. ObjectsOK'
    BY <1>4, Zenon DEF Capture, CaptureIf, IInv, TypeOK, ObjectsOK, diskVars, txnVars
  <2>7. k + 1 \in Nat /\ k + 1 >= 1
    BY <1>0, AtSeat
  <2>8. MemoryOK'
    BY <1>0, <1>4, <2>3, <2>7, Zenon DEF Capture, CaptureIf, IInv, TypeOK, MemoryOK, diskVars, txnVars
  <2>20. PresenceOK'
    BY <1>0, <1>4, Zenon DEF Capture, CaptureIf, IInv, TypeOK, PresenceOK, diskVars
  <2>5. Control'
    BY <1>0, <1>4, Zenon DEF Capture, CaptureIf, IInv, Control, Slots, diskVars, txnVars, histVars
  <2>6. OneSeat' /\ OutcomeReported'
    BY <1>4, Zenon DEF Capture, CaptureIf, IInv, OneSeat, OutcomeReported, Slots, diskVars, txnVars, histVars
  <2> QED
    BY <1>1, <2>4, <2>5, <2>6, <2>8, <2>20, Zenon DEF IInv, TypeOK
<1> QED
  BY <1>2, <1>3, <1>4, Zenon

LEMMA MarkApplyingStep == ASSUME IInv, MarkApplying PROVE IInv'
<1>1. DiskOK' /\ HistoryOK'
  BY SameDisk, SameHistory, Zenon DEF MarkApplying, WriteJournal, txnVars
<1>2. pc \in SeatedPc /\ RecordOf(cur, [rec EXCEPT !.state = "applying"])
  BY AtSeat, Zenon DEF MarkApplying, RecordOf
<1> QED
  BY <1>1, <1>2, WriteJournalKeeps, Zenon DEF MarkApplying, IInv, TypeOK, diskVars, histVars

LEMMA HideJournalStep == ASSUME IInv, HideJournal PROVE IInv'
<1>0. pc = "jhide"
  BY Zenon DEF HideJournal
<1>8. jnl[cur] # NoRecord
  BY <1>0, Zenon DEF IInv, TypeOK, PresenceOK
<1>1. DiskOK' /\ HistoryOK'
  BY <1>0, AtSeat, Zenon DEF HideJournal, IInv, TypeOK, DiskOK, HistoryOK, RecordOf, Slots,
     txnVars, envVars, histVars
<1>2. ObjectsOK'
  BY Zenon DEF HideJournal, IInv, TypeOK, ObjectsOK, txnVars
<1>3. RecordOf(cur, hidden)' /\ RecordOf(cur, rec)'
  BY <1>0, <1>8, AtSeat, Zenon DEF HideJournal, IInv, TypeOK, DiskOK, RecordOf, Slots, txnVars
<1>4. jnl'[cur] = NoRecord
  BY <1>0, AtSeat, Zenon DEF HideJournal, IInv, TypeOK, DiskOK
<1>5. MemoryOK'
  BY <1>0, <1>3, <1>4, AtSeat, Zenon DEF HideJournal, IInv, TypeOK, MemoryOK
<1>20. PresenceOK'
  BY <1>4, Zenon DEF HideJournal, PresenceOK
<1>6. Control'
  BY <1>0, Zenon DEF HideJournal, IInv, Control, Slots, txnVars, histVars
<1>7. OneSeat' /\ OutcomeReported'
  BY Zenon DEF HideJournal, IInv, OneSeat, OutcomeReported, Slots, txnVars, histVars
<1> QED
  BY <1>1, <1>2, <1>5, <1>6, <1>7, <1>20, Zenon DEF IInv, TypeOK

\* The committed journal decides the transaction.
LEMMA DecideTypes ==
  ASSUME IInv, pc \in SeatedPc, Decide
  PROVE  decided' \subseteq Txns /\ born' \subseteq Versions /\ superseded' \subseteq Versions
<1>1. \A i \in Slots(cur) : rec.stg[i] \in VN /\ rec.pre[i] \in VN
  BY AtSeat, Zenon DEF RecordOf, VN
<1>2. decided' \subseteq Txns
  BY AtSeat, Zenon DEF Decide, IInv, TypeOK, HistoryOK
<1>3. born' \subseteq Versions
  BY <1>1, Zenon DEF Decide, IInv, TypeOK, HistoryOK, VN
<1>4. superseded' \subseteq Versions
  BY <1>1, Zenon DEF Decide, IInv, TypeOK, HistoryOK, VN
<1> QED
  BY <1>2, <1>3, <1>4, Zenon

LEMMA ShowJournalStep == ASSUME IInv, ShowJournal PROVE IInv'
<1>0. pc = "jshow"
  BY Zenon DEF ShowJournal
<1>1. ops' = ops
  BY Zenon DEF ShowJournal, RollBack, txnVars
<1>2. DiskOK'
  BY <1>0, <1>1, AtSeat, Zenon DEF ShowJournal, IInv, TypeOK, DiskOK, RecordOf, Slots
<1>3. HistoryOK'
  BY <1>0, DecideTypes, Zenon DEF ShowJournal, IInv, TypeOK, HistoryOK, envVars, histVars
<1>4. CASE RollBack(rec, TRUE) /\ UNCHANGED histVars
  BY <1>0, <1>2, <1>3, <1>4, AtSeat, RollBackKeeps, Zenon DEF ShowJournal, IInv, TypeOK, histVars
<1>5. CASE cont \notin {"raise", "commit"}
  <2>1. cont \in {"capture", "mark", "apply"}
    BY <1>0, <1>5, Zenon DEF IInv, TypeOK, MemoryOK, Control
  <2>2. ObjectsOK'
    BY <1>5, Zenon DEF ShowJournal, IInv, TypeOK, ObjectsOK, txnVars
  <2>6. /\ pc' = cont /\ k' = 1 /\ cont' = "idle" /\ jnl' = [jnl EXCEPT ![cur] = rec]
        /\ UNCHANGED <<seat, txnVars, holder, cur, rec, snapOk, guard>>
    BY <1>5, Zenon DEF ShowJournal
  <2>7. RecordOf(cur, rec)'
    BY <1>0, <2>6, AtSeat, Zenon DEF RecordOf, Slots, txnVars
  <2>3. MemoryOK'
    BY <1>0, <2>1, <2>6, <2>7, AtSeat, SMTT(60) DEF IInv, TypeOK, MemoryOK
  <2>8. jnl'[cur] # NoRecord
    <3>1. rec # NoRecord
      BY <1>0, AtSeat, SMTT(30) DEF RecordOf, NoRecord
    <3>2. jnl'[cur] = rec
      BY <1>0, <2>6, AtSeat, Zenon DEF IInv, TypeOK, DiskOK
    <3> QED
      BY <3>1, <3>2, Zenon
  <2>20. PresenceOK'
    BY <2>1, <2>6, <2>8, Zenon DEF PresenceOK
  <2>4. Control'
    BY <1>0, <1>5, <2>1, Zenon DEF ShowJournal, IInv, Control, Slots, txnVars, histVars
  <2>5. OneSeat' /\ OutcomeReported'
    BY <1>5, Zenon DEF ShowJournal, IInv, OneSeat, OutcomeReported, Slots, txnVars, histVars
  <2> QED
    BY <1>2, <1>3, <2>2, <2>3, <2>4, <2>5, <2>20, Zenon DEF IInv, TypeOK
<1>6. CASE cont = "commit"
  <2>1. /\ pc' = "rmJournal" /\ cont' = "ok" /\ decided' = decided \cup {cur}
        /\ UNCHANGED <<seat, txnVars, holder, k, cur, rec, snapOk, guard, late>>
    BY <1>6, Zenon DEF ShowJournal, Decide
  <2>2. ObjectsOK'
    BY <2>1, Zenon DEF IInv, TypeOK, ObjectsOK, txnVars
  <2>3. MemoryOK'
    BY <1>0, <2>1, AtSeat, Zenon DEF IInv, TypeOK, MemoryOK, RecordOf, Slots, txnVars
  <2>20. PresenceOK'
    BY <2>1, Zenon DEF PresenceOK
  <2>4. status[cur] = "running"
    BY <1>0, AtSeat, Zenon DEF IInv, Control
  <2>5. Control'
    BY <1>0, <2>1, <2>4, AtSeat, Zenon DEF IInv, Control, Slots, txnVars
  <2>6. OneSeat' /\ OutcomeReported'
    BY <2>1, <2>4, Zenon DEF IInv, OneSeat, OutcomeReported, Slots, txnVars
  <2> QED
    BY <1>2, <1>3, <2>2, <2>3, <2>5, <2>6, <2>20, Zenon DEF IInv, TypeOK
<1> QED
  BY <1>4, <1>5, <1>6, Zenon DEF ShowJournal

LEMMA ApplySkipStep == ASSUME IInv, ApplySkip PROVE IInv'
<1>1. DiskOK' /\ HistoryOK'
  BY SameDisk, SameHistory, Zenon DEF ApplySkip, Goto, txnVars
<1>2. pc = "apply" /\ k + 1 \in Nat /\ k + 1 >= 1
  BY AtSeat DEF ApplySkip
<1>5. jnl'[cur] # NoRecord
  BY <1>2, JournalKept, ZenonT(40) DEF ApplySkip, diskVars
<1>3. CASE Goto("post", 1)
  BY <1>1, <1>2, <1>3, <1>5, GotoKeeps, SMTT(30) DEF ApplySkip, IInv, TypeOK, diskVars, histVars
<1>4. CASE Goto("apply", k + 1)
  BY <1>1, <1>2, <1>4, <1>5, GotoKeeps, Zenon DEF ApplySkip, IInv, TypeOK, diskVars, histVars
<1> QED
  BY <1>3, <1>4, Zenon DEF ApplySkip

LEMMA BackupCheckStep == ASSUME IInv, BackupCheck PROVE IInv'
<1>1. DiskOK' /\ HistoryOK'
  BY SameDisk, SameHistory, Zenon DEF BackupCheck, Goto, RollBack, txnVars
<1>2. pc = "apply" /\ k \in Nat /\ k \in Slots(cur)
  <2>1. k >= 1 /\ k <= Len(ops[cur]) /\ pc = "apply"
    BY Zenon DEF BackupCheck, IInv, TypeOK, MemoryOK
  <2> QED
    BY <2>1, AtSeat DEF Slots
<1>5. jnl'[cur] # NoRecord
  BY <1>2, JournalKept, Zenon DEF BackupCheck, diskVars
<1>3. CASE \E l \in {"install", "bmove"} : Goto(l, k)
  BY <1>1, <1>2, <1>3, <1>5, GotoKeeps, Zenon DEF BackupCheck, IInv, TypeOK, diskVars, histVars
<1>4. CASE RollBack(rec, TRUE)
  BY <1>1, <1>2, <1>4, AtSeat, RollBackKeeps, Zenon DEF BackupCheck, IInv, TypeOK, diskVars, histVars
<1> QED
  BY <1>3, <1>4, Zenon DEF BackupCheck

\* Filling or emptying one slot of the seat keeps the types of all slots.
LEMMA SlotPut ==
  ASSUME IInv, pc \in ClearingAt \cup ApplyingAt,
         NEW f, DOMAIN f = Txns, \A s \in Txns : seat[s] => f[s] \in [Slots(s) -> VN],
         NEW v \in VN
  PROVE  LET g == [f EXCEPT ![cur][k] = v]
         IN /\ DOMAIN g = Txns /\ g[cur][k] = v
            /\ \A s \in Txns : seat[s] => g[s] \in [Slots(s) -> VN]
<1>1. cur \in Txns /\ seat[cur] /\ k \in Slots(cur)
  BY AtOperation, Zenon DEF IInv
<1>2. f[cur] \in [Slots(cur) -> VN]
  BY <1>1, Zenon
<1>3. [f[cur] EXCEPT ![k] = v] \in [Slots(cur) -> VN] /\ [f[cur] EXCEPT ![k] = v][k] = v
  BY <1>1, <1>2, Zenon
<1> QED
  BY <1>1, <1>3, Zenon

LEMMA BackupMoveStep == ASSUME IInv, BackupMove PROVE IInv'
<1>0. pc = "bmove"
  BY Zenon DEF BackupMove
<1>1. ops' = ops
  BY Zenon DEF BackupMove, Goto, RollBack, txnVars
<1>2. file' \in [Paths -> Versions \cup {None}]
  BY <1>0, AtOperation, Zenon DEF BackupMove, IInv, TypeOK, DiskOK
<1>3. /\ DOMAIN backup' = Txns
      /\ \A s \in Txns : seat[s] => backup'[s] \in [Slots(s) -> VN]
  <2>1. file[Path(k)] \in VN
    BY <1>0, AtOperation, Zenon DEF IInv
  <2>2. CASE backup' = [backup EXCEPT ![cur][k] = file[Path(k)]]
    BY <1>0, <2>1, <2>2, DiskParts, SlotPut, Zenon
  <2>3. CASE backup' = backup
    BY <2>3, DiskParts, Zenon
  <2> QED
    BY <2>2, <2>3, Zenon DEF BackupMove
<1>4. DiskOK' /\ HistoryOK'
  BY <1>1, <1>2, <1>3, DiskParts, DiskKeeps, SameHistory, Zenon DEF BackupMove, VN
<1>7. jnl'[cur] # NoRecord
  BY <1>0, JournalKept, Zenon DEF BackupMove
<1>5. CASE Goto("bverify", k)
  <2>1. backup'[cur][k] # None
    <3>1. backup' = [backup EXCEPT ![cur][k] = file[Path(k)]] /\ file[Path(k)] # None
      BY <1>0, <1>5, Zenon DEF BackupMove, Goto, RollBack
    <3> QED
      BY <1>0, <3>1, AtOperation, Zenon DEF IInv, TypeOK, DiskOK
  <2> QED
    BY <1>0, <1>4, <1>5, <1>7, <2>1, AtOperation, AtSeat, GotoKeeps, Zenon
       DEF BackupMove, IInv, TypeOK, histVars
<1>6. CASE RollBack(rec, TRUE)
  BY <1>0, <1>4, <1>6, AtSeat, RollBackKeeps, Zenon DEF BackupMove, IInv, TypeOK, histVars
<1> QED
  BY <1>5, <1>6, Zenon DEF BackupMove

LEMMA BackupVerifyStep == ASSUME IInv, BackupVerify PROVE IInv'
<1>0. pc = "bverify"
  BY Zenon DEF BackupVerify
<1>1. ops' = ops
  BY Zenon DEF BackupVerify, Goto, RollBack, txnVars
<1>2. CASE Goto("install", k) /\ UNCHANGED <<backup, pushed>>
  <2>1. DiskOK' /\ HistoryOK'
    BY <1>1, <1>2, SameDisk, SameHistory, Zenon DEF BackupVerify, diskVars
  <2>2. jnl'[cur] # NoRecord
    BY <1>0, JournalKept, Zenon DEF BackupVerify
  <2> QED
    BY <1>0, <1>2, <2>1, <2>2, AtOperation, AtSeat, GotoKeeps, Zenon
       DEF BackupVerify, IInv, TypeOK, histVars
<1>3. CASE ~(Goto("install", k) /\ UNCHANGED <<backup, pushed>>)
  <2>1. /\ backup' = [backup EXCEPT ![cur][k] = None]
        /\ pushed' = [pushed EXCEPT ![cur] = @ \cup {backup[cur][k]}]
        /\ RollBack(rec, TRUE)
    BY <1>3, Zenon DEF BackupVerify
  <2>2. backup[cur][k] # None
    BY <1>0, Zenon DEF IInv, TypeOK, PresenceOK
  <2>3. pushed' \in [Txns -> SUBSET Versions]
    BY <1>0, <2>1, <2>2, AtOperation, Zenon DEF IInv, TypeOK, DiskOK, VN
  <2>4. DiskOK' /\ HistoryOK'
    BY <1>0, <1>1, <2>1, <2>3, AtOperation, Zenon
       DEF BackupVerify, IInv, TypeOK, DiskOK, HistoryOK, RecordOf, Slots, VN, envVars, histVars
  <2> QED
    BY <1>0, <2>1, <2>4, AtSeat, RollBackKeeps, Zenon DEF BackupVerify, IInv, TypeOK, histVars
<1> QED
  BY <1>2, <1>3, Zenon

\* A failed installation rolls back at once, or first records that the output
\* of the operation is not there.
LEMMA InstallFailedKeeps ==
  ASSUME IInv, pc \in {"install", "iverify"}, InstallFailed,
         UNCHANGED <<seat, jnl, decided, late>>
  PROVE  MemoryOK' /\ PresenceOK' /\ ObjectsOK' /\ Control' /\ OneSeat' /\ OutcomeReported'
<1>1. RecordOf(cur, rec) /\ k \in Slots(cur)
  BY AtOperation, Zenon DEF IInv
<1>2. CASE RollBack(rec, TRUE)
  BY <1>1, <1>2, RollBackKeeps, Zenon
<1>3. CASE WriteJournal([rec EXCEPT !.kind[k] = "check", !.stg[k] = None], "raise")
  <2>1. RecordOf(cur, [rec EXCEPT !.kind[k] = "check", !.stg[k] = None])
    BY <1>1, Zenon DEF RecordOf, Kinds
  <2> QED
    BY <1>3, <2>1, WriteJournalKeeps, Zenon
<1> QED
  BY <1>2, <1>3, Zenon DEF InstallFailed

LEMMA InstallStep == ASSUME IInv, Install PROVE IInv'
<1>0. pc = "install" /\ k + 1 \in Nat /\ k + 1 >= 1 /\ k \in Nat
  BY AtSeat DEF Install
<1>1. UNCHANGED <<seat, jnl, ops, decided, late>>
  BY Zenon DEF Install, InstallFailed, WriteJournal, Goto, RollBack, txnVars, histVars
<1>2. file' \in [Paths -> VN]
  BY <1>0, AtOperation, DiskParts, Zenon DEF Install, IInv
<1>3. /\ DOMAIN staged' = Txns
      /\ \A s \in Txns : seat[s] => staged'[s] \in [Slots(s) -> VN]
  <2>1. None \in VN
    BY Zenon DEF VN
  <2>2. CASE staged' = [staged EXCEPT ![cur][k] = None]
    BY <1>0, <2>1, <2>2, DiskParts, SlotPut, Zenon
  <2>3. CASE staged' = staged
    BY <2>3, DiskParts, Zenon
  <2> QED
    BY <2>2, <2>3, Zenon DEF Install
<1>4. DiskOK' /\ HistoryOK'
  BY <1>1, <1>2, <1>3, DiskParts, DiskKeeps, SameHistory, Zenon DEF Install
<1>5. jnl'[cur] # NoRecord
  BY <1>0, <1>1, JournalKept, Zenon
<1>6. CASE RollBack(rec, TRUE)
  BY <1>0, <1>1, <1>4, <1>6, AtSeat, RollBackKeeps, Zenon DEF IInv, TypeOK
<1>7. CASE Goto("apply", k + 1)
  BY <1>0, <1>1, <1>4, <1>5, <1>7, GotoKeeps, Zenon DEF IInv, TypeOK
<1>8. CASE InstallFailed
  BY <1>0, <1>1, <1>4, <1>8, InstallFailedKeeps, Zenon DEF IInv, TypeOK
<1>9. CASE Goto("iverify", k)
  BY <1>0, <1>1, <1>4, <1>5, <1>9, AtOperation, GotoKeeps, Zenon DEF IInv, TypeOK
<1> QED
  BY <1>6, <1>7, <1>8, <1>9, Zenon DEF Install

LEMMA InstallVerifyStep == ASSUME IInv, InstallVerify PROVE IInv'
<1>0. pc = "iverify" /\ k + 1 \in Nat /\ k + 1 >= 1
  BY AtSeat, SMTT(30) DEF InstallVerify
<1>1. UNCHANGED <<seat, jnl, ops, decided, late>>
  BY Zenon DEF InstallVerify, InstallFailed, WriteJournal, Goto, RollBack, txnVars, histVars
<1>2. file' \in [Paths -> VN] /\ stash' \subseteq Versions
  BY <1>0, AtOperation, DiskParts, SetAsideTypes, Zenon DEF InstallVerify, IInv, VN
<1>3. DiskOK' /\ HistoryOK'
  BY <1>1, <1>2, DiskParts, DiskKeeps, SameHistory, Zenon DEF InstallVerify
<1>4. CASE Goto("apply", k + 1)
  BY <1>0, <1>1, <1>3, <1>4, JournalKept, GotoKeeps, Zenon DEF IInv, TypeOK
<1>5. CASE InstallFailed
  BY <1>0, <1>1, <1>3, <1>5, InstallFailedKeeps, Zenon DEF IInv, TypeOK
<1> QED
  BY <1>4, <1>5, Zenon DEF InstallVerify

LEMMA VerifyPostimagesStep == ASSUME IInv, VerifyPostimages PROVE IInv'
<1>0. pc = "post" /\ k + 1 \in Nat /\ k + 1 >= 1
  BY AtSeat DEF VerifyPostimages
<1>1. UNCHANGED <<seat, jnl, ops, decided, late>>
  BY Zenon DEF VerifyPostimages, WriteJournal, Goto, RollBack, txnVars, histVars, diskVars
<1>2. DiskOK' /\ HistoryOK'
  BY <1>1, SameDisk, SameHistory, Zenon DEF VerifyPostimages
<1>3. CASE WriteJournal([rec EXCEPT !.state = "committed"], "commit")
  <2>1. RecordOf(cur, [rec EXCEPT !.state = "committed"])
    BY <1>0, AtSeat, Zenon DEF RecordOf
  <2> QED
    BY <1>0, <1>1, <1>2, <1>3, <2>1, WriteJournalKeeps, Zenon DEF IInv, TypeOK
<1>4. CASE Goto("post", k + 1)
  BY <1>0, <1>1, <1>2, <1>4, JournalKept, GotoKeeps, Zenon DEF IInv, TypeOK
<1>5. CASE RollBack(rec, TRUE)
  BY <1>0, <1>1, <1>2, <1>5, AtSeat, RollBackKeeps, Zenon DEF IInv, TypeOK
<1> QED
  BY <1>3, <1>4, <1>5, Zenon DEF VerifyPostimages

-----------------------------------------------------------------------------
(* I/O errors and crashes *)

\* An I/O error is only counted.
LEMMA FaultHistory ==
  ASSUME IInv, Fault, UNCHANGED histVars
  PROVE  HistoryOK'
  BY DEF IInv, TypeOK, HistoryOK, Fault, histVars

LEMMA FaultBeforeStep == ASSUME IInv, FaultBefore PROVE IInv'
<1>1. UNCHANGED <<seat, jnl, ops, decided, late>>
  BY Zenon DEF FaultBefore, RollBack, Raise, Finish, txnVars, histVars, diskVars
<1>2. DiskOK' /\ HistoryOK'
  BY <1>1, SameDisk, FaultHistory, Zenon DEF FaultBefore
<1>3. CASE pc \in Committing /\ RollBack(rec, TRUE)
  BY <1>1, <1>2, <1>3, AtSeat, RollBackKeeps, Zenon DEF Committing, IInv, TypeOK
<1>4. CASE /\ pc = "jcreate" /\ pc' = "rmSeat" /\ cont' = "raised"
           /\ UNCHANGED <<txnVars, holder, k, cur, rec, hidden, snapOk, guard>>
  <2>1. ObjectsOK'
    BY <1>1, <1>4, Zenon DEF IInv, TypeOK, ObjectsOK, txnVars
  <2>2. MemoryOK'
    BY <1>1, <1>4, Zenon DEF IInv, TypeOK, MemoryOK
  <2>3. PresenceOK'
    BY <1>1, <1>4, Zenon DEF IInv, TypeOK, PresenceOK
  <2>4. Control'
    BY <1>1, <1>4, Zenon DEF IInv, Control, Slots, txnVars
  <2>5. OneSeat' /\ OutcomeReported'
    BY <1>1, <1>4, Zenon DEF IInv, OneSeat, OutcomeReported, Slots, txnVars
  <2> QED
    BY <1>2, <2>1, <2>2, <2>3, <2>4, <2>5, Zenon DEF IInv, TypeOK
<1>5. CASE pc \in Clearing /\ Raise
  BY <1>1, <1>2, <1>5, DiskParts, RaiseKeeps, Zenon DEF Clearing, IInv, TypeOK, DiskOK
<1>6. CASE pc \in {"scan", "verify", "create"} /\ Finish("raised")
  <2>1. holder # None /\ holder \notin decided
    BY <1>6, ConstantsAssumption, Zenon DEF IInv, TypeOK, MemoryOK, HistoryOK, Control
  <2> QED
    BY <1>1, <1>2, <1>6, <2>1, FinishKeeps, Zenon DEF IInv, TypeOK, DiskOK
<1> QED
  BY <1>3, <1>4, <1>5, <1>6, Zenon DEF FaultBefore

LEMMA FaultAfterBackupStep == ASSUME IInv, FaultAfterBackup PROVE IInv'
<1>0. pc = "bverify"
  BY Zenon DEF FaultAfterBackup
<1>1. UNCHANGED <<seat, jnl, ops, decided, late>>
  BY Zenon DEF FaultAfterBackup, RollBack, txnVars, histVars
<1>2. None \in VN /\ rec.pre[k] \in Versions
  <2>1. backup[cur][k] # None /\ backup[cur][k] = rec.pre[k]
    BY <1>0, Zenon DEF FaultAfterBackup, IInv, TypeOK, PresenceOK
  <2> QED
    BY <1>0, <2>1, AtOperation, Zenon DEF IInv, VN
<1>3. /\ DOMAIN backup' = Txns
      /\ \A s \in Txns : seat[s] => backup'[s] \in [Slots(s) -> VN]
  BY <1>0, <1>2, DiskParts, SlotPut, Zenon DEF FaultAfterBackup
<1>4. file' \in [Paths -> VN]
  BY <1>0, <1>2, AtOperation, DiskParts, Zenon DEF FaultAfterBackup, IInv, VN
<1>5. pushed' \in [Txns -> SUBSET Versions]
  BY <1>0, <1>2, AtOperation, DiskParts, SMTT(30) DEF FaultAfterBackup, IInv
<1>6. DiskOK' /\ HistoryOK'
  BY <1>1, <1>3, <1>4, <1>5, DiskParts, DiskKeeps, FaultHistory, Zenon DEF FaultAfterBackup
<1> QED
  BY <1>0, <1>1, <1>6, AtSeat, RollBackKeeps, Zenon DEF FaultAfterBackup, IInv, TypeOK

LEMMA FaultAfterInstallStep == ASSUME IInv, FaultAfterInstall PROVE IInv'
<1>0. pc = "iverify" /\ None \in VN
  BY Zenon DEF FaultAfterInstall, VN
<1>1. UNCHANGED <<seat, jnl, ops, decided, late>>
  BY Zenon DEF FaultAfterInstall, InstallFailed, WriteJournal, RollBack, txnVars, histVars
<1>2. /\ DOMAIN staged' = Txns
      /\ \A s \in Txns : seat[s] => staged'[s] \in [Slots(s) -> VN]
  BY <1>0, AtOperation, DiskParts, SlotPut, Zenon DEF FaultAfterInstall, IInv
<1>3. file' \in [Paths -> VN]
  BY <1>0, AtOperation, DiskParts, Zenon DEF FaultAfterInstall, IInv
<1>4. DiskOK' /\ HistoryOK'
  BY <1>1, <1>2, <1>3, DiskParts, DiskKeeps, FaultHistory, Zenon DEF FaultAfterInstall
<1> QED
  BY <1>0, <1>1, <1>4, InstallFailedKeeps, Zenon DEF FaultAfterInstall, IInv, TypeOK

LEMMA FaultAfterRestoreStep == ASSUME IInv, FaultAfterRestore PROVE IInv'
<1>0. pc = "restored" /\ None \in VN
  BY Zenon DEF FaultAfterRestore, VN
<1>1. UNCHANGED <<seat, jnl, ops, decided, late>>
  BY Zenon DEF FaultAfterRestore, Raise, Finish, histVars
<1>2. /\ DOMAIN backup' = Txns
      /\ \A s \in Txns : seat[s] => backup'[s] \in [Slots(s) -> VN]
  BY <1>0, AtOperation, DiskParts, SlotPut, Zenon DEF FaultAfterRestore, IInv
<1>3. file' \in [Paths -> VN]
  BY <1>0, AtOperation, DiskParts, Zenon DEF FaultAfterRestore, IInv
<1>4. DiskOK' /\ HistoryOK'
  BY <1>1, <1>2, <1>3, DiskParts, DiskKeeps, FaultHistory, Zenon DEF FaultAfterRestore
<1> QED
  BY <1>0, <1>1, <1>4, RaiseKeeps, Zenon DEF FaultAfterRestore, IInv, TypeOK, DiskOK

LEMMA FaultAfterGuardStep == ASSUME IInv, FaultAfterGuard PROVE IInv'
<1>0. pc = "rmUnlink"
  BY Zenon DEF FaultAfterGuard
<1>1. UNCHANGED <<seat, jnl, ops, decided, late>>
  BY Zenon DEF FaultAfterGuard, Raise, Finish, histVars
<1>2. file' \in [Paths -> VN] /\ stash' \subseteq Versions
  <2>1. CASE PutBack
    BY <1>0, <2>1, PutBackTypes, Zenon DEF VN
  <2>2. CASE ~PutBack
    <3>1. guard \in Versions
      BY <1>0, Zenon DEF IInv, TypeOK, MemoryOK
    <3>2. file' = file /\ (stash' = stash \/ stash' = stash \cup {guard})
      BY <2>2, Zenon DEF FaultAfterGuard
    <3> QED
      BY <3>1, <3>2, DiskParts, Zenon
  <2> QED
    BY <2>1, <2>2, Zenon
<1>3. DiskOK' /\ HistoryOK'
  BY <1>1, <1>2, DiskParts, DiskKeeps, FaultHistory, Zenon DEF FaultAfterGuard
<1> QED
  BY <1>0, <1>1, <1>3, RaiseKeeps, Zenon DEF FaultAfterGuard, IInv, TypeOK, DiskOK

\* The journal of the seat that is being cleared is taken away.
LEMMA JournalGone ==
  ASSUME IInv, cur \in Txns, jnl' \in {jnl, [jnl EXCEPT ![cur] = NoRecord]},
         UNCHANGED <<file, stash, seat, staged, backup, pushed, ops>>
  PROVE  DiskOK'
<1>1. \A s \in Txns : jnl'[s] \in {jnl[s], NoRecord}
  BY Zenon DEF IInv, TypeOK, DiskOK
<1>2. DOMAIN jnl' = Txns
  BY Zenon DEF IInv, TypeOK, DiskOK
<1> QED
  BY <1>1, <1>2, Zenon DEF IInv, TypeOK, DiskOK, RecordOf, Slots

LEMMA FaultAfterUnlinkStep == ASSUME IInv, FaultAfterUnlink PROVE IInv'
<1>1. pc = "rmJournal" /\ cur \in Txns /\ UNCHANGED <<seat, ops, decided, late>>
  BY Zenon DEF FaultAfterUnlink, Raise, Finish, histVars, IInv, TypeOK, MemoryOK
<1>2. DiskOK'
  BY <1>1, JournalGone, Zenon DEF FaultAfterUnlink
<1>3. HistoryOK'
  BY FaultHistory, Zenon DEF FaultAfterUnlink
<1> QED
  BY <1>1, <1>2, <1>3, RaiseKeeps, Zenon DEF FaultAfterUnlink, IInv, TypeOK, DiskOK

LEMMA FaultAfterDecisionStep == ASSUME IInv, FaultAfterDecision PROVE IInv'
<1>1. /\ pc \in {"rmJournal", "rmSeat"} /\ cont = "ok" /\ cur \in Txns
      /\ UNCHANGED <<seat, ops, decided>> /\ Finish("raised")
      /\ late' = late \cup {holder}
  BY Zenon DEF FaultAfterDecision, Finish, IInv, TypeOK, MemoryOK
<1>2. holder = cur /\ holder \in Txns /\ holder # None
  BY <1>1, Zenon DEF IInv, Control
<1>3. DiskOK'
  BY <1>1, JournalGone, Zenon DEF FaultAfterDecision
<1>4. HistoryOK'
  BY <1>1, <1>2 DEF FaultAfterDecision, Fault, IInv, TypeOK, HistoryOK
<1> QED
  BY <1>1, <1>2, <1>3, <1>4, FinishKeeps, Zenon DEF IInv, TypeOK, DiskOK

LEMMA FaultInJournalStep == ASSUME IInv, FaultInJournal PROVE IInv'
<1>0. pc = "jshow" /\ RecordOf(cur, hidden)
  BY Zenon DEF FaultInJournal, IInv, TypeOK, MemoryOK
<1>1. UNCHANGED <<seat, ops, decided, late>>
  BY Zenon DEF FaultInJournal, RollBack, txnVars
<1>2. DiskOK'
  <2>1. \A s \in Txns : jnl'[s] = jnl[s] \/ (s = cur /\ jnl'[s] = hidden)
    <3>1. DOMAIN jnl = Txns
      BY Zenon DEF IInv, TypeOK, DiskOK
    <3>2. jnl' = jnl \/ jnl' = [jnl EXCEPT ![cur] = hidden]
      BY Zenon DEF FaultInJournal
    <3> QED
      BY <3>1, <3>2, Zenon
  <2>2. DOMAIN jnl' = Txns
    BY Zenon DEF FaultInJournal, IInv, TypeOK, DiskOK
  <2>3. \A s \in Txns : jnl'[s] # NoRecord => seat[s] /\ RecordOf(s, jnl'[s])
    BY <1>0, <2>1, AtSeat, Zenon DEF IInv, TypeOK, DiskOK
  <2> QED
    BY <1>1, <2>2, <2>3, Zenon DEF FaultInJournal, IInv, TypeOK, DiskOK, RecordOf, Slots
<1>3. HistoryOK'
  BY <1>0, AtSeat, SMTT(60) DEF FaultInJournal, Fault, IInv, TypeOK, HistoryOK
<1> QED
  BY <1>0, <1>1, <1>2, <1>3, AtSeat, RollBackKeeps, Zenon DEF FaultInJournal, IInv, TypeOK

LEMMA CrashStep == ASSUME IInv, Crash PROVE IInv'
<1>1. UNCHANGED <<seat, jnl, ops>> /\ Finish("crashed") /\ holder # None
  BY Zenon DEF Crash, Finish
<1>2. DiskOK'
  BY <1>1, DiskParts, DiskKeeps, Zenon DEF Crash, IInv, TypeOK, MemoryOK
<1>3. pc = "jshow" => holder = cur /\ cur \in Txns
  BY AtSeat, Zenon
<1>4. HistoryOK'
  BY <1>3, DecideTypes, SMTT(30) DEF Crash, Fault, IInv, TypeOK, HistoryOK
<1>5. /\ \/ decided' = decided
         \/ decided' = decided \cup {holder} /\ holder \in Txns
      /\ late' = late
  BY <1>3, Zenon DEF Crash, Decide
<1> QED
  BY <1>1, <1>2, <1>4, <1>5, FinishKeeps, Zenon DEF IInv, TypeOK, DiskOK

-----------------------------------------------------------------------------
(* The external writer *)

\* The external writer changes a file of the project and nothing else.
LEMMA TouchStep ==
  ASSUME IInv, NEW p \in Paths, NEW v \in VN, Touch(p, v)
  PROVE  IInv'
<1>1. /\ UNCHANGED <<stash, seat, jnl, staged, backup, pushed, txnVars, memVars, decided, late>>
      /\ file' \in [Paths -> VN]
  BY DiskParts, Zenon DEF Touch
<1>2. DiskOK'
  BY <1>1, DiskParts, DiskKeeps, Zenon DEF txnVars
<1>3. HistoryOK'
  <2>1. file[p] \in VN
    BY DiskParts, Zenon
  <2> QED
    BY <2>1, SMTT(30) DEF Touch, VN, IInv, TypeOK, HistoryOK
<1>4. ObjectsOK' /\ MemoryOK'
  BY <1>1, SMTT(60) DEF IInv, TypeOK, ObjectsOK, MemoryOK, RecordOf, Slots, txnVars, memVars
<1>5. PresenceOK'
  BY <1>1, Zenon DEF IInv, TypeOK, PresenceOK, memVars
<1>6. Control' /\ OneSeat' /\ OutcomeReported'
  BY <1>1, Zenon DEF IInv, Control, OneSeat, OutcomeReported, Slots, txnVars, memVars
<1> QED
  BY <1>2, <1>3, <1>4, <1>5, <1>6, Zenon DEF IInv, TypeOK

LEMMA EnvironmentStep == ASSUME IInv, Environment PROVE IInv'
<1>1. ASSUME NEW p \in Paths, ExternalDelete(p) PROVE IInv'
  <2>1. None \in VN
    BY Zenon DEF VN
  <2> QED
    BY <1>1, <2>1, TouchStep, Zenon DEF ExternalDelete
<1>2. ASSUME NEW p \in Paths, NEW d \in Digests, ExternalWrite(p, d) PROVE IInv'
  <2>1. ext + 1 \in Nat
    BY DEF IInv, TypeOK, HistoryOK
  <2>2. External(ext + 1, d) \in VN
    BY <2>1, SMTT(60) DEF External, Versions, VN
  <2> QED
    BY <1>2, <2>2, TouchStep, Zenon DEF ExternalWrite
<1> QED
  BY <1>1, <1>2, Zenon DEF Environment

-----------------------------------------------------------------------------

\* The invariant holds before the first transaction.
LEMMA InitIInv == ASSUME Init PROVE IInv
<1>1. file \in [Paths -> Versions \cup {None}]
  <2> SUFFICES ASSUME NEW p \in Paths, Initially[p] # None
               PROVE  Original(p) \in Versions
    BY Zenon DEF Init
  <2>1. <<p>> \in Seq(Nat \cup Paths)
    OBVIOUS
  <2> QED
    BY <2>1, ConstantsAssumption, Zenon DEF Original, Versions
<1>2. DiskOK
  BY <1>1, Zenon DEF Init, DiskOK
<1>3. ObjectsOK
  BY SMTT(30) DEF Init, ObjectsOK
<1>4. MemoryOK /\ PresenceOK
  BY Zenon DEF Init, MemoryOK, PresenceOK
<1>5. HistoryOK
  BY <1>1, Zenon DEF Init, HistoryOK, Files
<1>6. Control
  BY ConstantsAssumption, Zenon DEF Init, Control
<1>7. OneSeat /\ OutcomeReported
  BY Zenon DEF Init, OneSeat, OutcomeReported
<1> QED
  BY <1>2, <1>3, <1>4, <1>5, <1>6, <1>7, Zenon DEF IInv, TypeOK

\* Nothing changes when nothing happens.
LEMMA StutterStep == ASSUME IInv, UNCHANGED vars PROVE IInv'
<1>1. UNCHANGED <<diskVars, txnVars, memVars, envVars, histVars>>
  BY Zenon DEF vars
<1>2. DiskOK' /\ HistoryOK'
  BY <1>1, SameDisk, SameHistory, ZenonT(40) DEF txnVars
<1>3. ObjectsOK' /\ MemoryOK'
  BY <1>1, SMTT(60) DEF IInv, TypeOK, ObjectsOK, MemoryOK, RecordOf, Slots, diskVars, txnVars, memVars
<1>4. PresenceOK'
  BY <1>1, Zenon DEF IInv, TypeOK, PresenceOK, diskVars, memVars
<1>5. Control' /\ OneSeat' /\ OutcomeReported'
  BY <1>1, Zenon DEF IInv, Control, OneSeat, OutcomeReported, Slots, diskVars, txnVars, memVars, histVars
<1> QED
  BY <1>2, <1>3, <1>4, <1>5, Zenon DEF IInv, TypeOK

\* Every step keeps the invariant.
LEMMA NextStep == ASSUME IInv, [Next]_vars PROVE IInv'
<1>1. CASE Build
  BY <1>1, AddStep, AbortStep, CommitEmptyStep, Zenon DEF Build
<1>2. CASE Lock
  BY <1>2, AcquireStep, AcquireRecoverStep, Zenon DEF Lock
<1>3. CASE Recovery
  BY <1>3, ScanSeatStep, ScanDoneStep, RollbackSkipStep, RollbackUndoStep,
     RollbackRefuseStep, RemoveToGuardStep, RemoveGuardedStep, RestoreBackupStep,
     RestoreVerifyStep, RemoveJournalStep, RemoveSeatStep, Zenon DEF Recovery
<1>4. CASE Publication
  BY <1>4, VerifyOnlyStep, CreateSeatStep, CreateJournalStep, StageStep, CaptureStep,
     MarkApplyingStep, HideJournalStep, ShowJournalStep, ApplySkipStep, BackupCheckStep,
     BackupMoveStep, BackupVerifyStep, InstallStep, InstallVerifyStep,
     VerifyPostimagesStep, Zenon DEF Publication
<1>5. CASE Faults
  BY <1>5, FaultBeforeStep, FaultAfterBackupStep, FaultAfterInstallStep,
     FaultAfterRestoreStep, FaultAfterGuardStep, FaultAfterUnlinkStep,
     FaultAfterDecisionStep, FaultInJournalStep, CrashStep, Zenon DEF Faults
<1>6. CASE Environment
  BY <1>6, EnvironmentStep, Zenon
<1>7. CASE Terminated \/ UNCHANGED vars
  BY <1>7, StutterStep, Zenon DEF Terminated
<1> QED
  BY <1>1, <1>2, <1>3, <1>4, <1>5, <1>6, <1>7, Zenon DEF Next

\* The lock holder's control, the shape of the seats and what commit() reports
\* are kept by every step of commit(), recover(), crashes, errors and the
\* external writer.
THEOREM Inductive == Spec => []IInv
<1>1. Init => IInv
  BY InitIInv, Zenon
<1>2. IInv /\ [Next]_vars => IInv'
  BY NextStep, Zenon
<1> QED
  BY <1>1, <1>2, PTL DEF Spec

\* commit() and recovery never index past a record, a journal or a slot, and
\* find the journal and the backup they are about to use (transactions.py,
\* _rollback_record and commit).
THEOREM TypeCorrect == Spec => []TypeOK
  BY Inductive, PTL DEF IInv

\* At any moment at most one private seat exists: commit() clears the leftover
\* seats or raises before it creates its own.
THEOREM SingleSeat == Spec => []OneSeat
  BY Inductive, PTL DEF IInv

\* A commit() that returns has decided its update, and one that raises has
\* not, whatever crashes, errors and cleanup failures come in between: all but
\* an exception other than TransactionError while a decided seat is cleared.
THEOREM HonestOutcome == Spec => []OutcomeReported
  BY Inductive, PTL DEF IInv

=============================================================================
