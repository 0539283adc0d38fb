---------------------------- MODULE Publication -----------------------------
(***************************************************************************)
(* What a run makes public, in the order it does so: the set of target     *)
(* files (src/reprobit/classic_publication.py), then for a verification    *)
(* its JSON and HTML reports (src/reprobit/engine.py) and its completion   *)
(* receipt (src/reprobit/action_summary.py).  Meanwhile rbit state gc may  *)
(* remove reports, the summary of a CI job reads them, and someone else    *)
(* may write or delete any of these files.                                 *)
(*                                                                         *)
(* A version stands for an inode with its bytes and its change time: two   *)
(* versions can hold the same bytes and still differ, as the snapshots of  *)
(* secure_paths_posix.py do.  A file is replaced in three steps: the old   *)
(* entry is renamed to a guard name, the new one is renamed into place     *)
(* where nothing may stand, and the guard is dropped.                      *)
(***************************************************************************)
EXTENDS Naturals, Sequences, FiniteSets

CONSTANTS Runs,      \* rbit build and rbit verify invocations
          Kind,      \* "build" or "verify", for each of them
          Targets,   \* the output set, in the order of the requests
          Reports,   \* the reports, in the order of their paths
          Digests,   \* contents that a build may produce
          Collector, \* rbit state gc with include_reports
          None,
          Managed,   \* are the reports under the state root
          MaxEdits, MaxFaults, MaxCrashes, MaxSweeps  \* bounds

TargetFiles == {Targets[i] : i \in DOMAIN Targets}
ReportFiles == {Reports[i] : i \in DOMAIN Reports}
Files == TargetFiles \cup ReportFiles

ASSUME PublicationAssumption ==
  /\ Kind \in [Runs -> {"build", "verify"}]
  /\ Targets \in Seq(TargetFiles) /\ Reports \in Seq(ReportFiles)
  /\ TargetFiles \cap ReportFiles = {}
  /\ Len(Targets) > 0 /\ Len(Reports) = 2
  /\ Collector \notin Runs /\ None \notin Runs \cup {Collector}
  /\ Managed \in BOOLEAN
  /\ {MaxEdits, MaxFaults, MaxCrashes, MaxSweeps} \subseteq Nat

VARIABLES
  entry,    \* the version at each name, or None
  guards,   \* versions left under a guard name
  receipt,  \* runs whose completion receipt exists
  plock,    \* holder of warm-target-publication.lock
  gate,     \* holder of the state's maintenance gate
  bytes,    \* what each run's producers made
  \* each run
  pc, stage, k,
  prior,    \* the versions read before the first replacement
  snap,     \* the versions it has published, or found to be right already
  aside,    \* the version it has under a guard name
  \* the other actors
  sweep,    \* rbit state gc: at, and the reports left to remove
  reader,   \* the summary: at, the run it is about, and the JSON it has read
  \* history that only properties read, and counters of bounded actions
  told,     \* runs that reported an error of their own rollback
  touched,  \* files changed by others since the run began, or published
  stale,    \* runs whose targets had changed before their reports were in place
  used

diskVars == <<entry, guards, receipt>>
runVars == <<pc, stage, k, prior, snap, aside>>
otherVars == <<sweep, reader>>
histVars == <<told, touched, stale>>
vars == <<diskVars, plock, gate, bytes, runVars, otherVars, histVars, used>>

Unread == [by |-> "unread", tag |-> 0, dg |-> "unread", c |-> 0]

\* by: who made it; tag: which of that maker's; dg: the bytes; c: change time
Version(by, tag, dg) == [by |-> by, tag |-> tag, dg |-> dg, c |-> 0]
Renamed(v) == [v EXCEPT !.c = @ + 1]
Digest(v) == IF v = None THEN None ELSE v.dg

\* A report carries the identity and the timings of its run.
Payload(r, f) == IF f \in TargetFiles THEN bytes[r] ELSE r
Own(r, f) == Version(r, 0, Payload(r, f))

Init ==
  /\ \E old \in Digests \cup {"old", None} :
       entry = [f \in Files |-> IF old = None THEN None
                               ELSE Version("first", 0, IF f \in TargetFiles THEN old ELSE "old")]
  /\ guards = {} /\ receipt = {} /\ plock = None /\ gate = None
  /\ bytes \in [Runs -> Digests]
  /\ pc = [r \in Runs |-> "start"] /\ stage = [r \in Runs |-> "targets"]
  /\ k = [r \in Runs |-> 1]
  /\ prior = [r \in Runs |-> [f \in TargetFiles |-> Unread]]
  /\ snap = [r \in Runs |-> [f \in Files |-> None]] /\ aside = [r \in Runs |-> None]
  /\ sweep = [at |-> "idle", left |-> {}]
  /\ reader = [at |-> "idle", run |-> None, json |-> None, html |-> None]
  /\ told = {} /\ touched = [r \in Runs |-> {}] /\ stale = {}
  /\ used = [edits |-> 0, faults |-> 0, crashes |-> 0, sweeps |-> 0]

-----------------------------------------------------------------------------
(* Helpers *)

Goto(r, label) == pc' = [pc EXCEPT ![r] = label]
Spend(what, most) == used[what] < most /\ used' = [used EXCEPT ![what] = @ + 1]

List(r) == IF stage[r] = "targets" THEN Targets ELSE Reports
Now(r) == List(r)[k[r]]

\* Someone puts a version, or nothing, at a name.
Put(actor, f, v) ==
  /\ entry' = [entry EXCEPT ![f] = v]
  /\ touched' = [r \in Runs |-> IF r = actor THEN touched[r] ELSE touched[r] \cup {f}]

\* reseal_relative_file on each file
Sealed(r, files) == \A f \in files : entry[f] = snap[r][f]

\* Where an error leads: the output set gives up its lock and then rolls back,
\* the reports are withdrawn under the gate.
Unwinding(r) == IF stage[r] = "targets" THEN "unwind" ELSE "withdraw"

\* The next file of the list, or what follows the list.
Advance(r, then) ==
  IF k[r] < Len(List(r))
  THEN k' = [k EXCEPT ![r] = @ + 1] /\ Goto(r, "publish")
  ELSE k' = [k EXCEPT ![r] = Len(List(r))] /\ Goto(r, then)

-----------------------------------------------------------------------------
(* publish_classic_output_set, up to the first replacement *)

\* _publication_transaction
Take(r) ==
  /\ pc[r] = "start" /\ plock = None
  /\ plock' = r /\ touched' = [touched EXCEPT ![r] = {}]
  /\ Goto(r, "prepare")
  /\ UNCHANGED <<diskVars, gate, bytes, stage, k, prior, snap, aside, otherVars, told, stale, used>>

\* Every prior output is read before any is replaced.
Prepare(r) ==
  /\ pc[r] = "prepare"
  /\ prior' = [prior EXCEPT ![r][Now(r)] = entry[Now(r)]]
  /\ IF k[r] < Len(Targets)
     THEN k' = [k EXCEPT ![r] = @ + 1] /\ UNCHANGED pc
     ELSE k' = [k EXCEPT ![r] = 1] /\ Goto(r, "publish")
  /\ UNCHANGED <<diskVars, plock, gate, bytes, stage, snap, aside, otherVars, histVars, used>>

-----------------------------------------------------------------------------
(* atomic_publish_relative and atomic_publish_relative_if_current *)

\* What must be there when a file is replaced: for the output set the version
\* read before, for a report whatever is there.
Preimage(r) == IF stage[r] = "targets" THEN prior[r][Now(r)] ELSE entry[Now(r)]

\* The output set leaves a file alone that holds the right bytes already.
Right(r) == stage[r] = "targets" /\ Preimage(r) # None /\ Preimage(r).dg = bytes[r]

Unwind(r) == Goto(r, Unwinding(r)) /\ k' = [k EXCEPT ![r] = Len(List(r))]

Changed(r) ==
  /\ pc[r] = "publish" /\ entry[Now(r)] # Preimage(r)
  /\ Unwind(r)
  /\ UNCHANGED <<diskVars, plock, gate, bytes, stage, prior, snap, aside, otherVars, histVars, used>>

Keep(r) ==
  /\ pc[r] = "publish" /\ entry[Now(r)] = Preimage(r) /\ Right(r)
  /\ snap' = [snap EXCEPT ![r][Now(r)] = Preimage(r)]
  /\ Advance(r, "hold")
  /\ UNCHANGED <<diskVars, plock, gate, bytes, stage, prior, aside, otherVars, histVars, used>>

\* The new version is staged and the old one renamed to a guard name.
Displace(r) ==
  /\ pc[r] = "publish" /\ entry[Now(r)] = Preimage(r) /\ ~Right(r)
  /\ aside' = [aside EXCEPT ![r] = Preimage(r)]
  /\ IF Preimage(r) = None THEN UNCHANGED <<entry, touched>> ELSE Put(r, Now(r), None)
  /\ Goto(r, "install")
  /\ UNCHANGED <<guards, receipt, plock, gate, bytes, stage, k, prior, snap, otherVars, told,
                 stale, used>>

\* The renaming into place never overwrites.
Install(r) ==
  /\ pc[r] = "install" /\ entry[Now(r)] = None
  /\ Put(r, Now(r), Own(r, Now(r)))
  /\ Goto(r, "settle")
  /\ UNCHANGED <<guards, receipt, plock, gate, bytes, stage, k, prior, snap, aside, otherVars,
                 told, stale, used>>

\* The new version is still there: the old one is dropped.
Settle(r) ==
  /\ pc[r] = "settle" /\ entry[Now(r)] = Own(r, Now(r))
  /\ snap' = [snap EXCEPT ![r][Now(r)] = Own(r, Now(r))]
  /\ aside' = [aside EXCEPT ![r] = None]
  /\ stale' = IF stage[r] = "reports" /\ k[r] = Len(Reports) /\ ~Sealed(r, TargetFiles)
              THEN stale \cup {r} ELSE stale
  /\ Advance(r, IF stage[r] = "targets" THEN "hold" ELSE "seal2")
  /\ UNCHANGED <<diskVars, plock, gate, bytes, stage, prior, otherVars, told, touched, used>>

\* The finally clause: the own version goes if it is still there, the old one
\* comes back unless another file has taken the name.
Retreat(r) ==
  LET f == Now(r)
      mine == entry[f] = Own(r, f)
  IN  /\ aside' = [aside EXCEPT ![r] = None]
      /\ IF aside[r] # None /\ (entry[f] = None \/ mine)
         THEN Put(r, f, Renamed(aside[r])) /\ UNCHANGED guards
         ELSE /\ guards' = guards \cup ({aside[r]} \ {None})
              /\ IF mine THEN Put(r, f, None) ELSE UNCHANGED <<entry, touched>>

\* Another file has come between.
Overtaken(r) ==
  /\ \/ pc[r] = "install" /\ entry[Now(r)] # None
     \/ pc[r] = "settle" /\ entry[Now(r)] # Own(r, Now(r))
  /\ Retreat(r) /\ Unwind(r)
  /\ UNCHANGED <<receipt, plock, gate, bytes, stage, prior, snap, otherVars, told, stale, used>>

-----------------------------------------------------------------------------
(* publish_classic_output_set, from the held set on *)

\* hold_relative_file_set: every member is checked before the caller's block,
Hold(r) ==
  /\ pc[r] = "hold"
  /\ IF Sealed(r, TargetFiles) THEN Goto(r, "body") ELSE Goto(r, "unwind")
  /\ UNCHANGED <<diskVars, plock, gate, bytes, stage, k, prior, snap, aside, otherVars, histVars,
                 used>>

\* and again after it.  Then the lock is released.
Release(r) ==
  /\ pc[r] = "body"
  /\ IF Sealed(r, TargetFiles)
     THEN /\ plock' = None /\ touched' = [touched EXCEPT ![r] = {}]
          /\ Goto(r, IF Kind[r] = "build" THEN "ok" ELSE "verify")
     ELSE Goto(r, "unwind") /\ UNCHANGED <<plock, touched>>
  /\ UNCHANGED <<diskVars, gate, bytes, stage, k, prior, snap, aside, otherVars, told, stale, used>>

\* The with statement ends, and the lock with it, before the rollback starts.
Unlock(r) ==
  /\ pc[r] = "unwind"
  /\ plock' = None /\ Goto(r, "rollback")
  /\ UNCHANGED <<diskVars, gate, bytes, stage, k, prior, snap, aside, otherVars, histVars, used>>

Back(r, ended) ==
  IF k[r] > 1 THEN k' = [k EXCEPT ![r] = @ - 1] /\ Goto(r, IF stage[r] = "targets" THEN "rollback"
                                                                                 ELSE "withdraw")
  ELSE Goto(r, ended) /\ UNCHANGED k

\* Mutant: the replaced file is removed, the prior bytes are forgotten.
NothingPrior(v) == FALSE

HasPrior(v) == v # None

\* Only what this run replaced is undone, and only if it is still its own.
Rollback(r) ==
  /\ pc[r] = "rollback"
  /\ LET f == Now(r) IN
     IF snap[r][f] = Own(r, f) /\ entry[f] = snap[r][f]
     THEN /\ Put(r, f, None)
          /\ IF HasPrior(prior[r][f]) THEN Goto(r, "restore") /\ UNCHANGED k
                                  ELSE Back(r, "undone")
     ELSE Back(r, "undone") /\ UNCHANGED <<entry, touched>>
  /\ UNCHANGED <<guards, receipt, plock, gate, bytes, stage, prior, snap, aside, otherVars, told,
                 stale, used>>

\* atomic_publish_new_relative_from_stream with the prior bytes
Restore(r) ==
  /\ pc[r] = "restore"
  /\ LET f == Now(r) IN
     IF entry[f] = None
     THEN Put(r, f, Version(r, 1, prior[r][f].dg)) /\ UNCHANGED told
     ELSE told' = told \cup {r} /\ UNCHANGED <<entry, touched>>
  /\ Back(r, "undone")
  /\ UNCHANGED <<guards, receipt, plock, gate, bytes, stage, prior, snap, aside, otherVars, stale,
                 used>>

-----------------------------------------------------------------------------
(* ReproductionEngine._run after the build, _publish_report_payloads *)

\* LiteralVerifier against the receipts, and the reseal of the evidence
Verify(r) ==
  /\ pc[r] = "verify"
  /\ Goto(r, IF Sealed(r, TargetFiles) THEN "gate" ELSE "failed")
  /\ UNCHANGED <<diskVars, plock, gate, bytes, stage, k, prior, snap, aside, otherVars, histVars,
                 used>>

\* report_publication_lease, for reports under the state root only
Gate(r) ==
  /\ pc[r] = "gate"
  /\ IF Managed THEN gate = None /\ gate' = r ELSE UNCHANGED gate
  /\ stage' = [stage EXCEPT ![r] = "reports"] /\ k' = [k EXCEPT ![r] = 1]
  /\ Goto(r, "seal1")
  /\ UNCHANGED <<diskVars, plock, bytes, prior, snap, aside, otherVars, histVars, used>>

\* final_reseal() before the first report
Seal1(r) ==
  /\ pc[r] = "seal1"
  /\ IF Sealed(r, TargetFiles) THEN Goto(r, "publish") /\ UNCHANGED k ELSE Unwind(r)
  /\ UNCHANGED <<diskVars, plock, gate, bytes, stage, prior, snap, aside, otherVars, histVars, used>>

\* final_reseal() after the last one
Seal2If(r, checked) ==
  /\ pc[r] = "seal2"
  /\ IF checked THEN Goto(r, "seal3") /\ UNCHANGED k ELSE Unwind(r)
  /\ UNCHANGED <<diskVars, plock, gate, bytes, stage, prior, snap, aside, otherVars, histVars, used>>

\* Mutant: the targets are compared before the reports only.
Seal2Unchecked(r) == Seal2If(r, TRUE)

Seal2(r) == Seal2If(r, Sealed(r, TargetFiles))

LeaveGate(r) == gate' = IF gate = r THEN None ELSE gate

\* the reports themselves
Seal3(r) ==
  /\ pc[r] = "seal3"
  /\ IF Sealed(r, ReportFiles)
     THEN /\ Goto(r, "receipt") /\ LeaveGate(r) /\ touched' = [touched EXCEPT ![r] = {}]
          /\ UNCHANGED k
     ELSE Unwind(r) /\ UNCHANGED <<gate, touched>>
  /\ UNCHANGED <<diskVars, plock, bytes, stage, prior, snap, aside, otherVars, told, stale, used>>

\* The reports published so far go, if they are still the own ones.
Withdraw(r) ==
  /\ pc[r] = "withdraw"
  /\ LET f == Now(r) IN
     IF snap[r][f] = None THEN UNCHANGED <<entry, touched, told>>
     ELSE IF entry[f] = snap[r][f] THEN Put(r, f, None) /\ UNCHANGED told
     ELSE told' = told \cup {r} /\ UNCHANGED <<entry, touched>>
  /\ Back(r, "failed")
  /\ IF k[r] = 1 THEN LeaveGate(r) ELSE UNCHANGED gate
  /\ UNCHANGED <<guards, receipt, plock, bytes, stage, prior, snap, aside, otherVars, stale, used>>

\* publish_action_completion, if a receipt is asked for: both reports are
\* compared with the bytes in memory.
Receipt(r) ==
  /\ pc[r] = "receipt"
  /\ IF \A f \in ReportFiles : Digest(entry[f]) = r
     THEN receipt' = receipt \cup {r} /\ Goto(r, "ok")
     ELSE UNCHANGED receipt /\ Goto(r, "unconfirmed")
  /\ UNCHANGED <<entry, guards, plock, gate, bytes, stage, k, prior, snap, aside, otherVars,
                 histVars, used>>

NoReceipt(r) ==
  /\ pc[r] = "receipt"
  /\ Goto(r, "ok")
  /\ UNCHANGED <<diskVars, plock, gate, bytes, stage, k, prior, snap, aside, otherVars, histVars,
                 used>>

-----------------------------------------------------------------------------
(* Errors and crashes *)

\* before_commit, the caller's block, a staging write or a check fails.
Fail(r) ==
  /\ Spend("faults", MaxFaults)
  /\ \/ /\ pc[r] \in {"prepare", "publish", "hold", "body", "seal1", "seal2", "seal3"}
        /\ Unwind(r)
        /\ UNCHANGED <<entry, guards, aside, told, touched>>
     \/ /\ pc[r] \in {"install", "settle"}
        /\ Retreat(r) /\ Unwind(r)
        /\ UNCHANGED told
     \/ /\ pc[r] \in {"verify", "receipt"}
        /\ Goto(r, IF pc[r] = "verify" THEN "failed" ELSE "unconfirmed")
        /\ UNCHANGED <<entry, guards, k, aside, told, touched>>
  /\ UNCHANGED <<receipt, plock, gate, bytes, stage, prior, snap, otherVars, stale>>

\* An error of the rollback is added to the one that caused it.
FailAgain(r) ==
  /\ Spend("faults", MaxFaults)
  /\ pc[r] \in {"rollback", "restore", "withdraw"}
  /\ snap[r][Now(r)] = Own(r, Now(r))
  /\ told' = told \cup {r}
  /\ Back(r, IF stage[r] = "targets" THEN "undone" ELSE "failed")
  /\ IF pc[r] = "withdraw" /\ k[r] = 1 THEN LeaveGate(r) ELSE UNCHANGED gate
  /\ UNCHANGED <<diskVars, plock, bytes, stage, prior, snap, aside, otherVars, touched, stale>>

Ended == {"ok", "undone", "failed", "unconfirmed", "dead"}

\* The process is killed: its locks are free, its guard stays where it is.
Crash(r) ==
  /\ pc[r] \notin Ended \cup {"start"} /\ Spend("crashes", MaxCrashes)
  /\ Goto(r, "dead") /\ LeaveGate(r)
  /\ plock' = IF plock = r THEN None ELSE plock
  /\ guards' = guards \cup ({aside[r]} \ {None})
  /\ aside' = [aside EXCEPT ![r] = None]
  /\ UNCHANGED <<entry, receipt, bytes, stage, k, prior, snap, otherVars, histVars>>

-----------------------------------------------------------------------------
(* Everyone else *)

\* gc(include_reports=True) lists the managed reports under the gate,
SweepBegin ==
  /\ Managed /\ sweep.at = "idle" /\ gate = None /\ Spend("sweeps", MaxSweeps)
  /\ gate' = Collector
  /\ sweep' = [at |-> "removing", left |-> {f \in ReportFiles : entry[f] # None}]
  /\ UNCHANGED <<diskVars, plock, bytes, runVars, reader, histVars>>

\* and removes each as it finds it; one that is gone ends the sweep.
SweepRemove ==
  /\ sweep.at = "removing" /\ sweep.left # {}
  /\ \E f \in sweep.left :
       IF entry[f] # None
       THEN Put(Collector, f, None) /\ sweep' = [sweep EXCEPT !.left = @ \ {f}]
       ELSE UNCHANGED <<entry, touched>> /\ sweep' = [sweep EXCEPT !.left = {}]
  /\ UNCHANGED <<guards, receipt, plock, gate, bytes, runVars, reader, told, stale, used>>

SweepEnd ==
  /\ sweep.at = "removing" /\ sweep.left = {}
  /\ gate' = None /\ sweep' = [at |-> "idle", left |-> {}]
  /\ UNCHANGED <<diskVars, plock, bytes, runVars, reader, histVars, used>>

Sweep == SweepBegin \/ SweepRemove \/ SweepEnd

\* The summary step of the job: after the verification, however it ended.
Summarize(r) ==
  /\ reader.at = "idle" /\ Kind[r] = "verify" /\ pc[r] \in Ended
  /\ reader' = [at |-> "json", run |-> r, json |-> None, html |-> None]
  /\ UNCHANGED <<diskVars, plock, gate, bytes, runVars, sweep, histVars, used>>

ReadJson ==
  /\ reader.at = "json"
  /\ reader' = [reader EXCEPT !.at = "html", !.json = Digest(entry[Reports[2]])]
  /\ UNCHANGED <<diskVars, plock, gate, bytes, runVars, sweep, histVars, used>>

ReadHtml ==
  /\ reader.at = "html"
  /\ reader' = [reader EXCEPT !.at = "receipt", !.html = Digest(entry[Reports[1]])]
  /\ UNCHANGED <<diskVars, plock, gate, bytes, runVars, sweep, histVars, used>>

\* _read_current_report: the HTML belongs to the JSON, and the receipt of this
\* nonce binds both.
ReadReceiptIf(bound) ==
  /\ reader.at = "receipt"
  /\ reader' = [reader EXCEPT !.at = IF reader.json # None /\ reader.html = reader.json /\ bound
                                     THEN "accepted" ELSE "missing"]
  /\ UNCHANGED <<diskVars, plock, gate, bytes, runVars, sweep, histVars, used>>

\* Mutant: a report of the run is enough, nobody asks for the receipt.
ReadReceiptUnbound == ReadReceiptIf(reader.json = reader.run)

ReadReceipt == ReadReceiptIf(reader.json = reader.run /\ reader.run \in receipt)

\* Someone writes or deletes a file.
Edit(f) ==
  /\ Spend("edits", MaxEdits)
  /\ \/ Put("editor", f, Version("editor", used.edits, "edited"))
     \/ entry[f] # None /\ Put("editor", f, None)
  /\ UNCHANGED <<guards, receipt, plock, gate, bytes, runVars, otherVars, told, stale>>

Step(r) ==
  \/ Take(r) \/ Prepare(r)
  \/ Changed(r) \/ Keep(r) \/ Displace(r) \/ Install(r) \/ Settle(r) \/ Overtaken(r)
  \/ Hold(r) \/ Release(r) \/ Unlock(r) \/ Rollback(r) \/ Restore(r)
  \/ Verify(r) \/ Gate(r) \/ Seal1(r) \/ Seal2(r) \/ Seal3(r) \/ Withdraw(r)
  \/ Receipt(r) \/ NoReceipt(r)

Next ==
  \/ \E r \in Runs : Step(r) \/ Fail(r) \/ FailAgain(r) \/ Crash(r) \/ Summarize(r)
  \/ Sweep \/ ReadJson \/ ReadHtml \/ ReadReceipt
  \/ \E f \in Files : Edit(f)

Spec == Init /\ [][Next]_vars

-----------------------------------------------------------------------------
(* Properties *)

\* The set of outputs is published as a whole or not at all.  A run that has
\* published has all of it in place, and one whose publication failed leaves
\* every file with the bytes it found: but for the files that somebody else
\* wrote in the meantime, and unless the run has reported that its rollback
\* failed (hold_relative_file_set, publish_classic_output_set).
OutputsWhole ==
  \A r \in Runs :
    /\ stage[r] = "targets" /\ pc[r] \in {"verify", "gate", "ok"} =>
         \A t \in TargetFiles \ touched[r] : entry[t] = snap[r][t]
    /\ pc[r] = "undone" /\ r \notin told =>
         \A t \in TargetFiles \ touched[r] :
           prior[r][t] # Unread => Digest(entry[t]) = Digest(prior[r][t])

\* Every pair of reports that was completed spoke of targets that were in place
\* when the pair was (final_reseal after the last report); both reports are
\* there, but for those that somebody changed since (reseal_relative_file).  A
\* verification that failed has left no report of its own, unless it has
\* reported so (_publish_report_payloads).
CertifiedTogether ==
  \A r \in Runs :
    /\ stage[r] = "reports" /\ pc[r] \in {"receipt", "ok", "unconfirmed"} => r \notin stale
    /\ stage[r] = "reports" /\ pc[r] \in {"receipt", "ok"} =>
         \A f \in ReportFiles \ touched[r] : entry[f] = snap[r][f]
    /\ pc[r] = "failed" /\ r \notin told =>
         \A f \in ReportFiles : entry[f] = None \/ entry[f].by # r

\* The summary shows a report only if the verification it is about has completed
\* its pair and said so: not after a crash half way, not with another run's
\* files (docs/action.md, "Protection against stale reports").
SummaryIsCurrent ==
  reader.at = "accepted" =>
    /\ pc[reader.run] = "ok" /\ reader.run \notin stale
    /\ reader.json = reader.run /\ reader.html = reader.run
=============================================================================
