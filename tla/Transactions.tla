---------------------------- MODULE Transactions ----------------------------
(***************************************************************************)
(* The journaled multi-file compare-and-swap update of                     *)
(* src/reprobit/transactions.py (CASTransaction), on top of the held       *)
(* POSIX publication primitives of src/reprobit/secure_paths_posix.py.     *)
(*                                                                         *)
(* Several ReproBit processes (Txns, and Recoverer for recover()) update   *)
(* the files of one project under the project lock.  Any of them may be    *)
(* killed between two file-system steps, or meet an I/O error.  An         *)
(* external writer, which does not know the lock, replaces and deletes     *)
(* project files at any moment, but leaves the private state directory     *)
(* alone.                                                                  *)
(*                                                                         *)
(* A file version stands for an inode with its bytes: two versions may     *)
(* have the same digest and still be told apart, as _publication_record    *)
(* does.  Only the lock holder has volatile state, so that state (pc, k,   *)
(* cur, rec, ...) is kept once and not per process.                        *)
(***************************************************************************)
EXTENDS Naturals, Sequences, FiniteSets

CONSTANTS Txns,       \* one CASTransaction object each
          Recoverer,  \* the process that calls CASTransaction.recover
          Paths,      \* project-relative paths
          Digests,    \* SHA-256 values
          None,       \* absent file, absent digest, free lock
          Initially,  \* the digest found at each path at the start, or None
          Plans,      \* what a caller may put in a transaction
          MaxAttempts,\* bound on the commit() calls of one object
          MaxExternal,\* bound on the external writer's steps
          MaxFaults   \* bound on crashes and I/O errors

Kinds == {"write", "delete", "check"}

Requests == [path : Paths, kind : Kinds, dg : Digests]

ASSUME ConstantsAssumption ==
  /\ Recoverer \notin Txns /\ None \notin Txns /\ None # Recoverer
  /\ "original" \notin Txns /\ "external" \notin Txns
  /\ None \notin Digests
  /\ Initially \in [Paths -> Digests \cup {None}]
  /\ Plans \subseteq Seq(Requests)
  /\ MaxAttempts \in Nat /\ MaxExternal \in Nat /\ MaxFaults \in Nat

VARIABLES
  \* project tree and private seats: what survives a crash
  file,       \* version at each path, or None
  stash,      \* versions preserved beside their path under a guard name
  seat,       \* does .reprobit-transactions/<id> exist
  jnl,        \* its journal.json, or NoRecord
  staged,     \* its staged/<i>
  backup,     \* its backups/<i>
  pushed,     \* competing versions preserved inside its backups/
  \* transaction objects
  plan, ops, status, attempt,
  \* the lock and the holder's volatile state
  holder, pc, k, cur, rec, cont, hidden, snapOk, guard,
  \* the environment, and history that only properties read
  ext, faults, touched, gone, born, decided, superseded, refused,
  late,       \* transactions whose commit() raised after its decision
  torn,       \* seats that lost their journal while it said "applying"
  dropped     \* what was in such a seat, and stayed of it, when it was removed

diskVars == <<file, stash, seat, jnl, staged, backup, pushed>>
txnVars  == <<plan, ops, status, attempt>>
memVars  == <<holder, pc, k, cur, rec, cont, hidden, snapOk, guard>>
envVars  == <<ext, faults, touched, gone>>
histVars == <<born, decided, superseded, refused, late, torn, dropped>>
vars     == <<diskVars, txnVars, memVars, envVars, histVars>>

-----------------------------------------------------------------------------
(* Versions *)

Original(p)     == [by |-> "original", n |-> <<p>>, dg |-> Initially[p]]
External(n, d)  == [by |-> "external", n |-> <<n>>, dg |-> d]
Output(t, i, d) == [by |-> t, n |-> <<attempt[t], i>>, dg |-> d]

Digest(v) == IF v = None THEN None ELSE v.dg

Files == {file[p] : p \in Paths} \ {None}

Backups(s) == {backup[s][i] : i \in DOMAIN backup[s]}

Slots(s) == DOMAIN ops[s]

Empty(s) == [i \in Slots(s) |-> None]

IsUpdate(o) == o.kind # "check"

NoRecord == [state |-> "none", kind |-> <<>>, pre |-> <<>>, stg |-> <<>>]

\* _journal_record
NewRecord(s) == [state |-> "prepared",
                 kind  |-> [i \in Slots(s) |-> ops[s][i].kind],
                 pre   |-> Empty(s), stg |-> Empty(s)]

Init ==
  /\ file = [p \in Paths |-> IF Initially[p] = None THEN None ELSE Original(p)]
  /\ stash = {}
  /\ seat = [s \in Txns |-> FALSE]
  /\ jnl = [s \in Txns |-> NoRecord]
  /\ staged = [s \in Txns |-> <<>>]
  /\ backup = [s \in Txns |-> <<>>]
  /\ pushed = [s \in Txns |-> {}]
  /\ plan \in [Txns -> Plans]
  /\ ops = [s \in Txns |-> <<>>]
  /\ status = [s \in Txns |-> "open"]
  /\ attempt = [s \in Txns |-> 0]
  /\ holder = None /\ pc = "idle" /\ k = 0 /\ cur = None /\ rec = NoRecord
  /\ cont = "idle" /\ hidden = NoRecord /\ snapOk = TRUE /\ guard = None
  /\ ext = 0 /\ faults = 0 /\ touched = {} /\ gone = {}
  /\ born = Files /\ decided = {} /\ superseded = {} /\ refused = {}
  /\ late = {} /\ torn = {} /\ dropped = {}

-----------------------------------------------------------------------------
(* Building a transaction *)

\* write / delete / assert_unchanged with the automatic expectation: _add
\* snapshots the digest now, and turns a write of what is there into a check.
\* It refuses a path the transaction has already.
Add(t) ==
  /\ status[t] = "open"
  /\ Len(ops[t]) < Len(plan[t])
  /\ LET r == plan[t][Len(ops[t]) + 1]
         e == Digest(file[r.path])
         same == r.kind = "write" /\ r.dg = e
         o == [path |-> r.path,
               kind |-> IF same THEN "check" ELSE r.kind,
               expected |-> e,
               result |-> IF r.kind = "write" /\ ~same THEN r.dg ELSE None]
     IN /\ \A i \in Slots(t) : ops[t][i].path # r.path
        /\ ops' = [ops EXCEPT ![t] = Append(@, o)]
  /\ UNCHANGED <<diskVars, plan, status, attempt, memVars, envVars, histVars>>

Abort(t) ==
  /\ status[t] = "open"
  /\ status' = [status EXCEPT ![t] = "aborted"]
  /\ ops' = [ops EXCEPT ![t] = <<>>]
  /\ UNCHANGED <<diskVars, plan, attempt, memVars, envVars, histVars>>

\* An empty transaction commits without touching the lock.
CommitEmpty(t) ==
  /\ status[t] = "open"
  /\ ops[t] = <<>> /\ plan[t] = <<>>
  /\ status' = [status EXCEPT ![t] = "ok"]
  /\ UNCHANGED <<diskVars, plan, ops, attempt, memVars, envVars, histVars>>

-----------------------------------------------------------------------------
(* The project lock *)

\* commit(): acquire, then recover every leftover seat before anything else.
\* A commit() that raised leaves the object open, so it may be called again;
\* decided and late are about the last call.
\* A nonblocking commit that finds the lock taken raises TransactionBusy and
\* changes nothing; a blocking one waits for this action to be enabled.
Acquire(t) ==
  /\ status[t] \in {"open", "raised"}
  /\ ops[t] # <<>> /\ Len(ops[t]) = Len(plan[t])
  /\ attempt[t] < MaxAttempts
  /\ holder = None
  /\ holder' = t /\ pc' = "scan"
  /\ status' = [status EXCEPT ![t] = "running"]
  /\ attempt' = [attempt EXCEPT ![t] = @ + 1]
  /\ decided' = decided \ {t} /\ late' = late \ {t}
  /\ UNCHANGED <<diskVars, plan, ops, k, cur, rec, cont, hidden, snapOk, guard,
                 envVars, born, superseded, refused, torn, dropped>>

\* recover()
AcquireRecover ==
  /\ holder = None
  /\ \E s \in Txns : seat[s]
  /\ holder' = Recoverer /\ pc' = "scan"
  /\ UNCHANGED <<diskVars, txnVars, k, cur, rec, cont, hidden, snapOk, guard,
                 envVars, histVars>>

\* The end of commit() or recover(): the lock is released, memory forgotten.
Finish(st) ==
  /\ status' = [t \in Txns |-> IF t = holder THEN st ELSE status[t]]
  /\ holder' = None /\ pc' = "idle" /\ k' = 0 /\ cur' = None
  /\ rec' = NoRecord /\ cont' = "idle" /\ hidden' = NoRecord /\ snapOk' = TRUE
  /\ guard' = None
  /\ UNCHANGED <<plan, ops, attempt>>

\* Control moves on; the rest of the holder's memory and every object stay.
Goto(label, i) ==
  /\ pc' = label /\ k' = i
  /\ UNCHANGED <<txnVars, holder, cur, rec, cont, hidden, snapOk, guard>>

-----------------------------------------------------------------------------
(* Recovery and rollback: _recover_locked, _rollback_record,               *)
(* _remove_transaction_directory.  cur is the seat being cleared; cont     *)
(* says where its removal returns to.                                      *)

Path(i) == ops[cur][i].path

\* Where the state of a journal sends recovery; "none" is a missing journal.
Dispatch(state) == CASE state = "none"     -> "rmSeat"
                     [] state = "applying" -> "rollback"
                     [] OTHER              -> "rmJournal"

ScanInto(s, label) ==
  /\ pc = "scan" /\ seat[s]
  /\ cur' = s /\ cont' = "scan" /\ snapOk' = TRUE
  /\ rec' = jnl[s]
  /\ k' = Len(ops[s]) /\ pc' = label
  /\ UNCHANGED <<diskVars, txnVars, holder, hidden, guard, envVars, histVars>>

\* Mutant: a committed seat is rolled back.
ScanSeatRevert(s) ==
  ScanInto(s, IF jnl[s].state = "committed" THEN "rollback" ELSE Dispatch(jnl[s].state))

\* Seats are visited in the order of their random names: any order.
ScanSeat(s) == ScanInto(s, Dispatch(jnl[s].state))

\* recover() returns; a transaction of checks goes on to verify its preimages,
\* any other to create its own seat.
LeaveScan ==
  /\ pc = "scan"
  /\ \/ holder = Recoverer /\ Finish("ok")
     \/ /\ holder # Recoverer
        /\ cur' = holder
        /\ pc' = IF \E i \in Slots(holder) : IsUpdate(ops[holder][i])
                 THEN "create" ELSE "verify"
        /\ k' = 1
        /\ UNCHANGED <<txnVars, holder, rec, cont, hidden, snapOk, guard>>
  /\ UNCHANGED <<diskVars, envVars, histVars>>

\* Every seat is gone.
ScanDone == LeaveScan /\ \A s \in Txns : ~seat[s]

\* Mutant: a cleanup error after the decision is reported as a failure.
RaiseAlways == Finish("raised")

\* A TransactionError while clearing a seat.  After a commit it becomes the
\* cleanup warning of a successful result; otherwise commit() or recover()
\* raises.  Any other exception escapes: see FaultAfterDecision.
Raise == Finish(IF cont = "ok" THEN "ok" ELSE "raised")

Refuse ==
  /\ Raise
  /\ refused' = refused \cup {cur}
  /\ UNCHANGED <<born, decided, superseded, late, torn, dropped>>

\* Mutant: a failed commit() only cleans up its seat.
RollBackForgotten(r, fresh) ==
  /\ rec' = r /\ snapOk' = fresh /\ cont' = "raised" /\ hidden' = NoRecord
  /\ guard' = None
  /\ k' = 0 /\ pc' = "rmJournal"
  /\ UNCHANGED <<txnVars, holder, cur>>

\* A rollback starts in memory when commit() meets an exception; a prepared
\* record has nothing to undo.
RollBack(r, fresh) ==
  /\ rec' = r /\ snapOk' = fresh /\ cont' = "raised" /\ hidden' = NoRecord
  /\ guard' = None
  /\ k' = Len(ops[cur])
  /\ pc' = IF r.state = "prepared" THEN "rmJournal" ELSE "rollback"
  /\ UNCHANGED <<txnVars, holder, cur>>

\* What the rollback of operation k finds at the target and in backups/<k>.
Untouched ==
  \/ rec.kind[k] = "check"
  \/ /\ backup[cur][k] = None
     /\ \/ ops[cur][k].expected # None /\ file[Path(k)] # None
           /\ file[Path(k)] = rec.pre[k]
        \/ ops[cur][k].expected = None /\ file[Path(k)] = None

Undoable ==
  \/ backup[cur][k] # None /\ backup[cur][k] = rec.pre[k]
  \/ backup[cur][k] = None /\ ops[cur][k].expected = None

Installed ==
  rec.kind[k] = "write" /\ file[Path(k)] # None /\ file[Path(k)] = rec.stg[k]

RollbackSkip ==
  /\ pc = "rollback"
  /\ \/ k = 0 /\ Goto("rmJournal", 0)
     \/ k > 0 /\ Untouched /\ Goto("rollback", k - 1)
  /\ UNCHANGED <<diskVars, envVars, histVars>>

RollbackUndo ==
  /\ pc = "rollback" /\ k > 0 /\ ~Untouched /\ Undoable
  /\ \/ Installed /\ Goto("rmTarget", k)
     \/ file[Path(k)] = None /\ Goto("restore", k)
  /\ UNCHANGED <<diskVars, envVars, histVars>>

RollbackRefuse ==
  /\ pc = "rollback" /\ k > 0 /\ ~Untouched
  /\ ~(Undoable /\ (Installed \/ file[Path(k)] = None))
  /\ Refuse
  /\ UNCHANGED <<diskVars, envVars>>

\* remove_published_relative renames whatever the name holds to a guard name,
\* then looks at what it caught.
RemoveToGuard ==
  /\ pc = "rmTarget"
  /\ \/ /\ file[Path(k)] = None
        /\ Refuse
        /\ UNCHANGED file
     \/ /\ file[Path(k)] # None
        /\ guard' = file[Path(k)]
        /\ file' = [file EXCEPT ![Path(k)] = None]
        /\ pc' = "rmUnlink"
        /\ UNCHANGED <<txnVars, holder, k, cur, rec, cont, hidden, snapOk,
                       histVars>>
  /\ UNCHANGED <<stash, seat, jnl, staged, backup, pushed, envVars>>

\* _restore_quarantine: back to its name, or kept under the guard name.
PutBack ==
  IF file[Path(k)] = None
  THEN file' = [file EXCEPT ![Path(k)] = guard] /\ UNCHANGED stash
  ELSE stash' = stash \cup {guard} /\ UNCHANGED file

RemoveGuarded ==
  /\ pc = "rmUnlink"
  /\ \/ /\ guard = rec.stg[k]
        /\ guard' = None
        /\ IF backup[cur][k] = None THEN pc' = "rollback" /\ k' = k - 1
                                    ELSE pc' = "restore" /\ k' = k
        /\ UNCHANGED <<file, stash, txnVars, holder, cur, rec, cont, hidden,
                       snapOk, histVars>>
     \/ guard # rec.stg[k] /\ PutBack /\ Refuse
  /\ UNCHANGED <<seat, jnl, staged, backup, pushed, envVars>>

\* promote_relative_new(backups/<k> -> target), which never overwrites
RestoreBackup ==
  /\ pc = "restore"
  /\ \/ /\ file[Path(k)] # None
        /\ Refuse
        /\ UNCHANGED <<file, backup>>
     \/ /\ file[Path(k)] = None
        /\ file' = [file EXCEPT ![Path(k)] = backup[cur][k]]
        /\ backup' = [backup EXCEPT ![cur][k] = None]
        /\ Goto("restored", k)
        /\ UNCHANGED histVars
  /\ UNCHANGED <<stash, seat, jnl, staged, pushed, envVars>>

\* A competing entry found at a destination is kept under a guard name.
SetAside(p) ==
  /\ file' = [file EXCEPT ![p] = None]
  /\ stash' = stash \cup ({file[p]} \ {None})

RestoreVerify ==
  /\ pc = "restored"
  /\ \/ /\ file[Path(k)] = rec.pre[k]
        /\ Goto("rollback", k - 1)
        /\ UNCHANGED <<file, stash, histVars>>
     \/ /\ file[Path(k)] # rec.pre[k]
        /\ SetAside(Path(k))
        /\ Refuse
  /\ UNCHANGED <<seat, jnl, staged, backup, pushed, envVars>>

\* The journal goes first: a seat without one is garbage to the next scan.
\* It is removed only if it is still the file this process last wrote or read.
RemoveJournal ==
  /\ pc = "rmJournal"
  /\ \/ /\ snapOk
        /\ jnl' = [jnl EXCEPT ![cur] = NoRecord]
        /\ Goto("rmSeat", 0)
     \/ ~snapOk /\ Raise /\ UNCHANGED jnl
  /\ UNCHANGED <<file, stash, seat, staged, backup, pushed, envVars, histVars>>

RemoveSeat ==
  /\ pc = "rmSeat"
  /\ seat' = [seat EXCEPT ![cur] = FALSE]
  /\ staged' = [staged EXCEPT ![cur] = <<>>]
  /\ backup' = [backup EXCEPT ![cur] = <<>>]
  /\ pushed' = [pushed EXCEPT ![cur] = {}]
  /\ IF cont = "scan"
     THEN /\ pc' = "scan" /\ cur' = None /\ rec' = NoRecord /\ k' = 0
          /\ cont' = "idle"
          /\ UNCHANGED <<txnVars, holder, hidden, snapOk, guard>>
     ELSE Raise
  /\ dropped' = IF cur \in torn
                THEN dropped \cup (Backups(cur) \ {None}) \cup pushed[cur]
                     \cup {v \in Files : v.by = cur}
                ELSE dropped
  /\ torn' = torn \ {cur}
  /\ UNCHANGED <<file, stash, jnl, envVars, born, decided, superseded, refused, late>>

-----------------------------------------------------------------------------
(* commit(), from the creation of the seat to the committed journal        *)

\* A transaction of checks only compares digests; it leaves no trace.
VerifyOnly ==
  /\ pc = "verify"
  /\ \/ k > Len(ops[cur]) /\ Finish("ok")
     \/ /\ k <= Len(ops[cur]) /\ Digest(file[Path(k)]) = ops[cur][k].expected
        /\ Goto("verify", k + 1)
     \/ /\ k <= Len(ops[cur]) /\ Digest(file[Path(k)]) # ops[cur][k].expected
        /\ Finish("raised")
  /\ UNCHANGED <<diskVars, envVars, histVars>>

CreateSeat ==
  /\ pc = "create"
  /\ seat' = [seat EXCEPT ![cur] = TRUE]
  /\ staged' = [staged EXCEPT ![cur] = Empty(cur)]
  /\ backup' = [backup EXCEPT ![cur] = Empty(cur)]
  /\ rec' = NewRecord(cur)
  /\ pc' = "jcreate"
  /\ UNCHANGED <<file, stash, jnl, pushed, txnVars, holder, k, cur, cont,
                 hidden, snapOk, guard, envVars, histVars>>

\* The first journal is published under a name nobody holds: one rename.
CreateJournal ==
  /\ pc = "jcreate"
  /\ jnl' = [jnl EXCEPT ![cur] = rec]
  /\ Goto("stage", 1)
  /\ UNCHANGED <<file, stash, seat, staged, backup, pushed, envVars, histVars>>

\* Every later journal replaces the previous one: see HideJournal.
WriteJournal(r, label) ==
  /\ rec' = r /\ pc' = "jhide" /\ cont' = label
  /\ UNCHANGED <<txnVars, holder, k, cur, hidden, snapOk, guard>>

\* All staged files are written into the private seat, and recorded.
Stage ==
  /\ pc = "stage"
  /\ LET out == [i \in Slots(cur) |->
                   IF ops[cur][i].kind = "write"
                   THEN Output(cur, i, ops[cur][i].result) ELSE None]
     IN /\ staged' = [staged EXCEPT ![cur] = out]
        /\ WriteJournal([rec EXCEPT !.stg = out], "capture")
  /\ UNCHANGED <<file, stash, seat, jnl, backup, pushed, envVars, histVars>>

\* _capture_preimages, one target after the other
CaptureIf(expected) ==
  /\ pc = "capture"
  /\ \/ /\ k > Len(ops[cur])
        /\ WriteJournal(rec, "mark")
     \/ /\ k <= Len(ops[cur]) /\ expected
        /\ rec' = [rec EXCEPT !.pre[k] = file[Path(k)]]
        /\ k' = k + 1
        /\ UNCHANGED <<txnVars, holder, pc, cur, cont, hidden, snapOk, guard>>
     \/ /\ k <= Len(ops[cur]) /\ ~expected
        /\ RollBack(rec, TRUE)
  /\ UNCHANGED <<diskVars, envVars, histVars>>

\* Mutant: the expected digest is not compared again under the lock.
CaptureBlindly == CaptureIf(TRUE)

Capture == CaptureIf(Digest(file[Path(k)]) = ops[cur][k].expected)

MarkApplying ==
  /\ pc = "mark"
  /\ WriteJournal([rec EXCEPT !.state = "applying"], "apply")
  /\ UNCHANGED <<diskVars, envVars, histVars>>

\* atomic_publish_relative_if_current: the old journal is first renamed to a
\* guard name, then the new one is renamed into place.  In between the seat
\* has no journal.json.
HideJournal ==
  /\ pc = "jhide"
  /\ hidden' = jnl[cur]
  /\ jnl' = [jnl EXCEPT ![cur] = NoRecord]
  /\ pc' = "jshow"
  /\ UNCHANGED <<file, stash, seat, staged, backup, pushed, txnVars, holder, k,
                 cur, rec, cont, snapOk, guard, envVars, histVars>>

Decide ==
  /\ decided' = decided \cup {cur}
  /\ born' = born \cup ({rec.stg[i] : i \in Slots(cur)} \ {None})
  /\ superseded' = superseded \cup
       ({rec.pre[i] : i \in {j \in Slots(cur) : rec.kind[j] # "check"}} \ {None})

ShowJournal ==
  /\ pc = "jshow"
  /\ jnl' = [jnl EXCEPT ![cur] = rec]
  /\ \/ /\ cont \notin {"raise", "commit"}
        /\ pc' = cont /\ cont' = "idle" /\ hidden' = NoRecord /\ k' = 1
        /\ UNCHANGED <<txnVars, holder, cur, rec, snapOk, guard, histVars>>
     \/ /\ cont = "raise"
        /\ RollBack(rec, TRUE)
        /\ UNCHANGED histVars
     \/ /\ cont = "commit"
        /\ Decide
        /\ pc' = "rmJournal" /\ cont' = "ok" /\ hidden' = NoRecord
        /\ UNCHANGED <<txnVars, holder, k, cur, rec, snapOk, guard, refused,
                       late, torn, dropped>>
  /\ UNCHANGED <<file, stash, seat, staged, backup, pushed, envVars>>

\* Mutant: the loop does not step past a check.
ApplyStuck ==
  /\ pc = "apply"
  /\ \/ k > Len(ops[cur]) /\ Goto("post", 1)
     \/ k <= Len(ops[cur]) /\ ~IsUpdate(ops[cur][k]) /\ Goto("apply", k)
  /\ UNCHANGED <<diskVars, envVars, histVars>>

ApplySkip ==
  /\ pc = "apply"
  /\ \/ k > Len(ops[cur]) /\ Goto("post", 1)
     \/ k <= Len(ops[cur]) /\ ~IsUpdate(ops[cur][k]) /\ Goto("apply", k + 1)
  /\ UNCHANGED <<diskVars, envVars, histVars>>

\* _move_to_backup: compare the target with its captured identity ...
BackupCheck ==
  /\ pc = "apply" /\ k <= Len(ops[cur]) /\ IsUpdate(ops[cur][k])
  /\ \/ ops[cur][k].expected = None /\ Goto("install", k)
     \/ /\ ops[cur][k].expected # None
        /\ IF file[Path(k)] = rec.pre[k] THEN Goto("bmove", k)
                                         ELSE RollBack(rec, TRUE)
  /\ UNCHANGED <<diskVars, envVars, histVars>>

\* ... rename whatever the name holds by now into backups/<k> ...
BackupMove ==
  /\ pc = "bmove"
  /\ \/ /\ file[Path(k)] = None
        /\ RollBack(rec, TRUE)
        /\ UNCHANGED <<file, backup>>
     \/ /\ file[Path(k)] # None
        /\ backup' = [backup EXCEPT ![cur][k] = file[Path(k)]]
        /\ file' = [file EXCEPT ![Path(k)] = None]
        /\ Goto("bverify", k)
  /\ UNCHANGED <<stash, seat, jnl, staged, pushed, envVars, histVars>>

\* Mutant: what was moved is not looked at again.
BackupUnverified ==
  /\ pc = "bverify"
  /\ Goto("install", k)
  /\ UNCHANGED <<diskVars, envVars, histVars>>

\* ... and look at what was moved.  A competing file stays in backups/ under
\* a guard name.
BackupVerify ==
  /\ pc = "bverify"
  /\ \/ /\ backup[cur][k] = rec.pre[k]
        /\ Goto("install", k)
        /\ UNCHANGED <<backup, pushed>>
     \/ /\ backup[cur][k] # rec.pre[k]
        /\ backup' = [backup EXCEPT ![cur][k] = None]
        /\ pushed' = [pushed EXCEPT ![cur] = @ \cup {backup[cur][k]}]
        /\ RollBack(rec, TRUE)
  /\ UNCHANGED <<file, stash, seat, jnl, staged, envVars, histVars>>

\* A refused promotion to a path that should have been absent is first
\* written to the journal as a check, so that no rollback touches the path.
InstallFailed ==
  IF ops[cur][k].expected = None
  THEN WriteJournal([rec EXCEPT !.kind[k] = "check", !.stg[k] = None], "raise")
  ELSE RollBack(rec, TRUE)

\* _promote_staged never overwrites.  A deletion has nothing to install; of a
\* path that was absent it only asks that it still is.
Install ==
  /\ pc = "install"
  /\ \/ /\ ops[cur][k].kind = "delete"
        /\ IF ops[cur][k].expected = None /\ file[Path(k)] # None
           THEN RollBack(rec, TRUE) ELSE Goto("apply", k + 1)
        /\ UNCHANGED <<file, staged>>
     \/ /\ ops[cur][k].kind = "write" /\ file[Path(k)] # None
        /\ InstallFailed
        /\ UNCHANGED <<file, staged>>
     \/ /\ ops[cur][k].kind = "write" /\ file[Path(k)] = None
        /\ file' = [file EXCEPT ![Path(k)] = staged[cur][k]]
        /\ staged' = [staged EXCEPT ![cur][k] = None]
        /\ Goto("iverify", k)
  /\ UNCHANGED <<stash, seat, jnl, backup, pushed, envVars, histVars>>

InstallVerify ==
  /\ pc = "iverify"
  /\ \/ /\ file[Path(k)] = rec.stg[k]
        /\ Goto("apply", k + 1)
        /\ UNCHANGED <<file, stash>>
     \/ /\ file[Path(k)] # rec.stg[k]
        /\ SetAside(Path(k))
        /\ InstallFailed
  /\ UNCHANGED <<seat, jnl, staged, backup, pushed, envVars, histVars>>

\* _verify_postimages compares digests, checks included.
Postimage(o) == IF o.kind = "check" THEN o.expected ELSE o.result

VerifyPostimages ==
  /\ pc = "post"
  /\ \/ /\ k > Len(ops[cur])
        /\ WriteJournal([rec EXCEPT !.state = "committed"], "commit")
     \/ /\ k <= Len(ops[cur]) /\ Digest(file[Path(k)]) = Postimage(ops[cur][k])
        /\ Goto("post", k + 1)
     \/ /\ k <= Len(ops[cur]) /\ Digest(file[Path(k)]) # Postimage(ops[cur][k])
        /\ RollBack(rec, TRUE)
  /\ UNCHANGED <<diskVars, envVars, histVars>>

-----------------------------------------------------------------------------
(* I/O errors and crashes *)

Committing == {"stage", "capture", "mark", "apply", "bmove", "install", "post",
               "jhide"}
Clearing   == {"rollback", "rmTarget", "restore", "rmJournal", "rmSeat"}

Fault ==
  /\ faults < MaxFaults
  /\ faults' = faults + 1
  /\ UNCHANGED <<ext, touched, gone>>

\* An error before the step changed anything.
FaultBefore ==
  /\ Fault
  /\ \/ pc \in Committing /\ RollBack(rec, TRUE)
     \/ /\ pc = "jcreate"
        /\ pc' = "rmSeat" /\ cont' = "raised"
        /\ UNCHANGED <<txnVars, holder, k, cur, rec, hidden, snapOk, guard>>
     \/ pc \in Clearing /\ Raise
     \/ pc \in {"scan", "verify", "create"} /\ Finish("raised")
  /\ UNCHANGED <<diskVars, histVars>>

\* An error after a promotion's rename: the moved file goes back to its
\* source name, unless another file has taken that name.
FaultAfterBackup ==
  /\ pc = "bverify" /\ backup[cur][k] = rec.pre[k] /\ Fault
  /\ backup' = [backup EXCEPT ![cur][k] = None]
  /\ IF file[Path(k)] = None
     THEN file' = [file EXCEPT ![Path(k)] = rec.pre[k]] /\ UNCHANGED pushed
     ELSE pushed' = [pushed EXCEPT ![cur] = @ \cup {rec.pre[k]}]
          /\ UNCHANGED file
  /\ RollBack(rec, TRUE)
  /\ UNCHANGED <<stash, seat, jnl, staged, histVars>>

FaultAfterInstall ==
  /\ pc = "iverify" /\ file[Path(k)] = rec.stg[k] /\ Fault
  /\ file' = [file EXCEPT ![Path(k)] = None]
  /\ staged' = [staged EXCEPT ![cur][k] = rec.stg[k]]
  /\ InstallFailed
  /\ UNCHANGED <<stash, seat, jnl, backup, pushed, histVars>>

FaultAfterRestore ==
  /\ pc = "restored" /\ file[Path(k)] = rec.pre[k] /\ Fault
  /\ file' = [file EXCEPT ![Path(k)] = None]
  /\ backup' = [backup EXCEPT ![cur][k] = rec.pre[k]]
  /\ Raise
  /\ UNCHANGED <<stash, seat, jnl, staged, pushed, histVars>>

\* The guarded file is put back when its unlink fails, is gone when the
\* directory sync after that fails, and stays when an interrupt comes first.
FaultAfterGuard ==
  /\ pc = "rmUnlink" /\ Fault
  /\ \/ PutBack
     \/ guard = rec.stg[k] /\ UNCHANGED <<file, stash>>
     \/ stash' = stash \cup {guard} /\ UNCHANGED file
  /\ Raise
  /\ UNCHANGED <<seat, jnl, staged, backup, pushed, histVars>>

\* The same for the journal of a seat that is cleared: it has left its name.
FaultAfterUnlink ==
  /\ pc = "rmJournal" /\ snapOk /\ Fault
  /\ jnl' = [jnl EXCEPT ![cur] = NoRecord]
  /\ Raise
  /\ UNCHANGED <<file, stash, seat, staged, backup, pushed, histVars>>

\* commit() has decided and clears its seat, but meets an exception that is no
\* TransactionError: an OSError of remove_published_relative, which wraps few
\* of them, or an interrupt.  Nothing catches it.
FaultAfterDecision ==
  /\ pc \in {"rmJournal", "rmSeat"} /\ cont = "ok" /\ Fault
  /\ \/ UNCHANGED jnl
     \/ pc = "rmJournal" /\ jnl' = [jnl EXCEPT ![cur] = NoRecord]
  /\ Finish("raised")
  /\ late' = late \cup {holder}
  /\ UNCHANGED <<file, stash, seat, staged, backup, pushed, born, decided, superseded,
                 refused, torn, dropped>>

\* An error while a journal is replaced.  The old one is renamed back, with a
\* new change time, so that the caller's snapshot no longer matches it; it is
\* lost if the error came from the directory sync that follows its deletion.
FaultInJournal ==
  /\ pc = "jshow" /\ Fault
  /\ \/ jnl' = [jnl EXCEPT ![cur] = hidden] /\ UNCHANGED torn
     \/ /\ torn' = IF hidden.state = "applying" THEN torn \cup {cur} ELSE torn
        /\ UNCHANGED jnl
  /\ RollBack(rec, FALSE)
  /\ UNCHANGED <<file, stash, seat, staged, backup, pushed, born, decided,
                 superseded, refused, late, dropped>>

\* The process dies: the disk stays as it is and the lock is free.  A process
\* killed while it replaces an applying journal leaves its seat without one;
\* the next scan then takes the transaction for finished.
Crash ==
  /\ holder # None /\ Fault
  /\ Finish("crashed")
  /\ stash' = stash \cup ({guard} \ {None})
  /\ IF pc = "jshow" /\ rec.state = "committed"
     THEN Decide /\ UNCHANGED torn
     ELSE /\ torn' = IF pc = "jshow" /\ hidden.state = "applying"
                     THEN torn \cup {cur} ELSE torn
          /\ UNCHANGED <<born, decided, superseded>>
  /\ UNCHANGED <<file, seat, jnl, staged, backup, pushed, refused, late, dropped>>

-----------------------------------------------------------------------------
(* The external writer *)

Touch(p, v) ==
  /\ ext < MaxExternal
  /\ ext' = ext + 1
  /\ touched' = touched \cup {p}
  /\ gone' = gone \cup ({file[p]} \ {None})
  /\ file' = [file EXCEPT ![p] = v]
  /\ born' = born \cup ({v} \ {None})
  /\ UNCHANGED <<stash, seat, jnl, staged, backup, pushed, txnVars, memVars,
                 faults, decided, superseded, refused, late, torn, dropped>>

ExternalWrite(p, d) == Touch(p, External(ext + 1, d))

ExternalDelete(p) == file[p] # None /\ Touch(p, None)

-----------------------------------------------------------------------------

Build == \E t \in Txns : Add(t) \/ Abort(t) \/ CommitEmpty(t)

Lock == AcquireRecover \/ \E t \in Txns : Acquire(t)

Recovery ==
  \/ \E s \in Txns : ScanSeat(s)
  \/ ScanDone
  \/ RollbackSkip \/ RollbackUndo \/ RollbackRefuse
  \/ RemoveToGuard \/ RemoveGuarded
  \/ RestoreBackup \/ RestoreVerify
  \/ RemoveJournal \/ RemoveSeat

Publication ==
  \/ VerifyOnly
  \/ CreateSeat \/ CreateJournal \/ Stage
  \/ Capture \/ MarkApplying
  \/ HideJournal \/ ShowJournal
  \/ ApplySkip \/ BackupCheck \/ BackupMove \/ BackupVerify
  \/ Install \/ InstallVerify
  \/ VerifyPostimages

Faults ==
  \/ FaultBefore
  \/ FaultAfterBackup \/ FaultAfterInstall \/ FaultAfterRestore
  \/ FaultAfterGuard \/ FaultAfterUnlink \/ FaultAfterDecision \/ FaultInJournal
  \/ Crash

Environment == \E p \in Paths : ExternalDelete(p) \/ \E d \in Digests : ExternalWrite(p, d)

\* Nothing is left to do: every object is finished and no seat remains.
Terminated ==
  /\ holder = None /\ \A t \in Txns : status[t] # "open" /\ ~seat[t]
  /\ UNCHANGED vars

Next == Build \/ Lock \/ Recovery \/ Publication \/ Faults \/ Environment
        \/ Terminated

Spec == Init /\ [][Next]_vars

-----------------------------------------------------------------------------
(* Properties *)

Versions == [by : {"original", "external"} \cup Txns,
             n : Seq(Nat \cup Paths), dg : Digests]

ASSUME AbsenceAssumption == None \notin Versions

Operations == {o \in [path : Paths, kind : Kinds, expected : Digests \cup {None},
                      result : Digests \cup {None}] :
                 o.kind = "write" => o.result # None}

\* Labels of the holder: while it clears the seat cur, at one operation of it
\* or between two, and while it runs its own commit().
ClearingAt == {"rmTarget", "rmUnlink", "restore", "restored"}
ClearingPc == ClearingAt \cup {"rollback", "rmJournal", "rmSeat"}
ApplyingAt == {"bmove", "bverify", "install", "iverify"}
SeatedPc   == ApplyingAt \cup {"jcreate", "stage", "capture", "mark", "jhide",
                               "jshow", "apply", "post"}
OwnPc      == SeatedPc \cup {"create", "verify"}
Labels     == ClearingPc \cup OwnPc \cup {"idle", "scan"}

\* A journal record has one entry per operation.
RecordOf(s, r) ==
  r \in [state : {"prepared", "applying", "committed"},
         kind : [Slots(s) -> Kinds],
         pre : [Slots(s) -> Versions \cup {None}],
         stg : [Slots(s) -> Versions \cup {None}]]

DiskOK ==
  /\ file \in [Paths -> Versions \cup {None}]
  /\ stash \subseteq Versions
  /\ seat \in [Txns -> BOOLEAN]
  /\ DOMAIN jnl = Txns /\ DOMAIN staged = Txns /\ DOMAIN backup = Txns
  /\ pushed \in [Txns -> SUBSET Versions]
  /\ \A s \in Txns : jnl[s] # NoRecord => seat[s] /\ RecordOf(s, jnl[s])
  /\ \A s \in Txns : seat[s] =>
       /\ staged[s] \in [Slots(s) -> Versions \cup {None}]
       /\ backup[s] \in [Slots(s) -> Versions \cup {None}]

ObjectsOK ==
  /\ plan \in [Txns -> Plans]
  /\ ops \in [Txns -> Seq(Operations)]
  /\ status \in [Txns -> {"open", "running", "ok", "raised", "aborted", "crashed"}]
  /\ attempt \in [Txns -> Nat]
  /\ \A s \in Txns : seat[s] => status[s] # "open"

MemoryOK ==
  /\ holder \in Txns \cup {Recoverer, None}
  /\ pc \in Labels /\ k \in Nat /\ cur \in Txns \cup {None}
  /\ cont \in {"idle", "scan", "raised", "ok", "capture", "mark", "apply",
               "raise", "commit"}
  /\ snapOk \in BOOLEAN /\ guard \in Versions \cup {None}
  /\ pc \in ClearingPc \cup SeatedPc => cur \in Txns /\ seat[cur]
  /\ pc \in (ClearingPc \cup SeatedPc) \ {"rmSeat"} => RecordOf(cur, rec)
  /\ pc \in ClearingAt \cup ApplyingAt => k \in Slots(cur)
  /\ pc = "rollback" => k <= Len(ops[cur])
  /\ pc \in {"capture", "apply", "post"} => k >= 1
  /\ pc = "rmUnlink" => guard # None
  /\ pc = "jshow" => RecordOf(cur, hidden)

PresenceOK ==
  /\ pc \in {"rmSeat", "jcreate", "jshow"} => jnl[cur] = NoRecord
  /\ pc \in SeatedPc \ {"jcreate", "jshow"} => jnl[cur] # NoRecord
  /\ pc = "bverify" => backup[cur][k] # None

HistoryOK ==
  /\ ext \in Nat /\ faults \in Nat /\ touched \subseteq Paths
  /\ gone \subseteq Versions /\ born \subseteq Versions
  /\ decided \subseteq Txns /\ superseded \subseteq Versions
  /\ refused \subseteq Txns /\ late \subseteq Txns /\ torn \subseteq Txns
  /\ dropped \subseteq Versions

\* Type correctness: the values of every variable, and that the record, the
\* journal and the slots of a seat have exactly one entry per operation (so
\* that commit() and recovery never index past one of them), and that the
\* files the holder is about to use are there.
TypeOK == DiskOK /\ ObjectsOK /\ MemoryOK /\ PresenceOK /\ HistoryOK

\* Where a version can be found: at its path, under a guard name, or in a
\* seat's backups.
Preserved ==
  Files \cup stash \cup {guard} \cup (UNION {pushed[s] : s \in Txns})
  \cup (UNION {Backups(s) : s \in Txns})

\* Nothing is lost.  A version that was content of the project - an original
\* file, a file of the external writer, the output of a decided commit - is
\* still found somewhere, unless the external writer itself destroyed it or a
\* decided commit replaced it.  (commit() and recovery move preimages and
\* competing files, they never overwrite or unlink one.)  The code has one
\* exception.  A process that dies between the two renames that replace an
\* applying journal, or that loses the journal to an I/O error and then does not
\* finish its rollback, leaves a seat without journal.json, which recovery takes
\* for garbage: the versions that only that seat's backups hold go with it.
NothingLost == born \subseteq Preserved \cup gone \cup superseded \cup dropped

\* Recovery undoes what was not decided.  A transaction whose seat is gone has
\* left no output behind but those of a decided commit(): all or nothing, seen
\* from the files.  (Outputs that stood when recovery removed a seat that had
\* lost its journal, see NothingLost, stay.)  And recovery gives up only because
\* of the external writer: crashes and I/O errors alone never leave a seat that
\* cannot be cleared.
NoResidue ==
  /\ \A v \in Files : v.by \in Txns /\ ~seat[v.by] => v \in born \cup dropped
  /\ \A s \in refused : \E i \in Slots(s) : ops[s][i].path \in touched

\* A decided commit stays decided: the files it replaced or deleted never
\* come back, whoever recovers afterwards.
NoResurrection == superseded \cap Files = {}

\* What commit() tells its caller is what happened to the files: a result means
\* that the updates took effect, an exception that they did not.  The code has
\* one exception: while it clears the seat of a decided commit it catches
\* TransactionError only, and any other exception reaches the caller.
OutcomeReported ==
  \A t \in Txns :
    /\ status[t] = "raised" => t \notin decided \/ t \in late
    /\ status[t] = "ok" /\ (\E i \in Slots(t) : IsUpdate(ops[t][i])) => t \in decided

\* No two seats at a time: commit() clears every leftover seat, or raises,
\* before it creates its own.
OneSeat == \A s, u \in Txns : seat[s] /\ seat[u] => s = u

\* The control of the lock holder, strong enough to be inductive: whose seat
\* it works on, where it returns to, and what has been decided by then.
Control ==
  /\ holder = None <=> pc = "idle"
  /\ \A t \in Txns : status[t] = "running" <=> t = holder
  /\ pc \in OwnPc => cur = holder /\ holder \in Txns /\ holder \notin decided
  /\ pc = "scan" /\ holder \in Txns => holder \notin decided
  /\ pc \in {"idle", "scan", "create", "verify"} => cont = "idle"
  /\ pc \in ClearingPc => cont \in {"scan", "raised", "ok"}
  /\ pc \in {"jhide", "jshow"} =>
       cont \in {"capture", "mark", "apply", "raise", "commit"}
  /\ pc \in ClearingPc /\ cont # "scan" => cur = holder
  /\ pc \in ClearingPc /\ holder \in Txns => (holder \in decided <=> cont = "ok")
  /\ pc \in {"create", "verify"} => \A s \in Txns : ~seat[s]
  /\ pc = "verify" => \A i \in Slots(cur) : ~IsUpdate(ops[cur][i])
  /\ \A t \in decided : status[t] \in {"running", "ok", "crashed"} \/ t \in late
  /\ \A t \in late : status[t] = "raised"

-----------------------------------------------------------------------------
(* Fairness and progress *)

\* A process that holds the lock keeps running until it returns or dies, and
\* some later command calls recover() (or commit(), which does the same).
FairSpec ==
  /\ Spec
  /\ WF_vars(Recovery) /\ WF_vars(Publication) /\ WF_vars(AcquireRecover)

\* Every commit() returns, raises or dies: no loop over operations, seats or
\* journals can run forever.  And a seat left by a crash is eventually cleared,
\* unless recovery refuses it.
CommitReturns ==
  /\ \A t \in Txns : status[t] = "running" ~> status[t] # "running"
  /\ \A s \in Txns : seat[s] ~> (~seat[s] \/ s \in refused)

-----------------------------------------------------------------------------
(* Refinement: the files a caller can rely on.  The target of an operation *)
(* that is applied but not decided still counts as its preimage.           *)

InFlight(s, i) == seat[s] /\ s \notin decided /\ IsUpdate(ops[s][i])

Logical(p) ==
  LET moved(s) == {i \in Slots(s) : InFlight(s, i) /\ ops[s][i].path = p
                                     /\ backup[s][i] # None}
      movers == {s \in Txns : moved(s) # {}}
  IN IF movers # {}
     THEN LET s == CHOOSE s \in movers : TRUE
          IN Digest(backup[s][CHOOSE i \in moved(s) : TRUE])
     ELSE IF file[p] # None /\ file[p].by \in Txns \ decided THEN None
     ELSE Digest(file[p])

Abstract == INSTANCE AtomicUpdate WITH
  store <- [p \in Paths |-> Logical(p)],
  asked <- ops,
  done  <- decided \cup {t \in Txns : status[t] = "ok"}

\* Without an external writer the project changes only by whole transactions
\* whose expectations hold, through a crash or an I/O error at any step.  One
\* such fault: a second one may meet a seat that lost its journal to the first
\* (see NothingLost).  And one commit() call per object.
AtomicUpdates == Abstract!Spec

=============================================================================
