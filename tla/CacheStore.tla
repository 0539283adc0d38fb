----------------------------- MODULE CacheStore -----------------------------
(***************************************************************************)
(* The content-addressed store of src/reprobit/cache.py: records that name *)
(* blobs, leases that keep the collector away, and the two commands that   *)
(* walk the store while builds run, gc and status.                         *)
(*                                                                         *)
(* A builder is one warm build: it takes a lease, looks keys up, restores  *)
(* the blobs of a hit, stages and publishes what it built after a miss,    *)
(* and closes its lease.  gc() holds the gate that lease() also takes;     *)
(* status() takes no lock but probes each lease marker's.  Any process may *)
(* be killed; its advisory locks are then free and its marker stays.       *)
(*                                                                         *)
(* A record is the set of digests of its outputs; an empty set stands for  *)
(* no record.  A blob is its digest: its bytes never change.               *)
(***************************************************************************)
EXTENDS Naturals, Sequences

CONSTANTS Builders,   \* warm builds, each with one lease
          Collector,  \* the process that calls gc()
          Inspector,  \* the process that calls status()
          None,       \* a free lock
          Keys, Digests,
          Produced,   \* outputs that running a producer may give for a key
          MaxHints,   \* _MAX_INDEX_CANDIDATES
          MaxWork,    \* bound on the keys one builder asks for
          MaxCollections, MaxScans,  \* bounds on the calls of gc() and of status()
          MaxFaults   \* bound on crashes and I/O errors

ASSUME ConstantsAssumption ==
  /\ Collector \notin Builders /\ Inspector \notin Builders /\ None \notin Builders
  /\ Collector # Inspector /\ None \notin {Collector, Inspector}
  /\ Keys # {} /\ Digests # {}
  /\ Produced \in [Keys -> SUBSET ((SUBSET Digests) \ {{}})]
  /\ MaxHints \in Nat \ {0}
  /\ MaxWork \in Nat /\ MaxCollections \in Nat /\ MaxScans \in Nat /\ MaxFaults \in Nat

VARIABLES
  gate,      \* holder of gate.lock
  marker,    \* does leases/<id>.lease exist
  lock,      \* holder of its advisory lock
  records, blobs,
  hints,     \* one index file: the candidate keys, newest first
  hintLock,
  \* builders
  bpc, key, want, left, blob, work, seen,
  \* the collector and the inspector
  cpc, todo, at, busy, kept, dry, collections,
  ipc, listed, probed, scans,
  \* history that only properties read
  faults, withdrawn, hinted

storeVars == <<records, blobs, hints, hintLock>>
leaseVars == <<gate, marker, lock>>
buildVars == <<bpc, key, want, left, blob, work, seen>>
localVars == <<key, want, left, blob, work, seen>>
collectVars == <<cpc, todo, at, busy, kept, dry, collections>>
inspectVars == <<ipc, listed, probed, scans>>
histVars == <<faults, withdrawn, hinted>>
vars == <<leaseVars, storeVars, buildVars, collectVars, inspectVars, histVars>>

Init ==
  /\ gate = None
  /\ marker = [b \in Builders |-> FALSE]
  /\ lock = [b \in Builders |-> None]
  /\ records = [k \in Keys |-> {}] /\ blobs = {}
  /\ hints = <<>> /\ hintLock = None
  /\ bpc = [b \in Builders |-> "new"]
  /\ key = [b \in Builders |-> CHOOSE k \in Keys : TRUE]
  /\ want = [b \in Builders |-> {}]
  /\ left = [b \in Builders |-> {}]
  /\ blob = [b \in Builders |-> CHOOSE d \in Digests : TRUE]
  /\ work = [b \in Builders |-> 0] /\ seen = [b \in Builders |-> <<>>]
  /\ cpc = "idle" /\ todo = {} /\ at = None /\ busy = FALSE /\ kept = {}
  /\ dry = FALSE
  /\ collections = 0
  /\ ipc = "idle" /\ listed = {} /\ probed = None /\ scans = 0
  /\ faults = 0 /\ withdrawn = {} /\ hinted = {}

-----------------------------------------------------------------------------
(* Leases: IncrementalCache.lease and CacheLease.close *)

Goto(b, label) == bpc' = [bpc EXCEPT ![b] = label]

\* The variables of a build that has ended are gone.
Forget(b) ==
  /\ key' = [key EXCEPT ![b] = CHOOSE k \in Keys : TRUE]
  /\ want' = [want EXCEPT ![b] = {}] /\ left' = [left EXCEPT ![b] = {}]
  /\ blob' = [blob EXCEPT ![b] = CHOOSE d \in Digests : TRUE]
  /\ seen' = [seen EXCEPT ![b] = <<>>]
  /\ work' = [work EXCEPT ![b] = 0]

\* lease() waits for the gate.
LeaseGate(b) ==
  /\ bpc[b] = "new" /\ gate = None
  /\ gate' = b
  /\ Goto(b, "gated")
  /\ UNCHANGED <<marker, lock, storeVars, localVars, collectVars,
                 inspectVars, histVars>>

\* The marker is published under a fresh name, still unlocked ...
LeaseMark(b) ==
  /\ bpc[b] = "gated"
  /\ marker' = [marker EXCEPT ![b] = TRUE]
  /\ Goto(b, "marked")
  /\ UNCHANGED <<gate, lock, storeVars, localVars, collectVars,
                 inspectVars, histVars>>

\* ... then locked without waiting, and the gate is released.  A marker that
\* somebody else holds is removed again and lease() raises CacheError.
LeaseLockIf(b, acquired) ==
  /\ bpc[b] = "marked"
  /\ gate' = None
  /\ lock' = IF lock[b] = None THEN [lock EXCEPT ![b] = b] ELSE lock
  /\ \/ /\ acquired
        /\ Goto(b, "open")
        /\ UNCHANGED marker
     \/ /\ ~acquired
        /\ marker' = [marker EXCEPT ![b] = FALSE]
        /\ Goto(b, "closed")
  /\ UNCHANGED <<storeVars, localVars, collectVars, inspectVars, histVars>>

\* Mutant: the result of acquire is not looked at.
LeaseLockUnchecked(b) == LeaseLockIf(b, TRUE)

LeaseLock(b) == LeaseLockIf(b, lock[b] = None)

\* close() unlocks, then removes the marker: remove_regular_relative opens the
\* name, and the collector may have removed it first, ...
CloseUnlock(b) ==
  /\ bpc[b] \in {"open", "leave"}
  /\ lock' = [lock EXCEPT ![b] = None]
  /\ Goto(b, "closing") /\ Forget(b)
  /\ UNCHANGED <<gate, marker, storeVars, collectVars,
                 inspectVars, histVars>>

CloseOpen(b) ==
  /\ bpc[b] = "closing"
  /\ Goto(b, IF marker[b] THEN "unlink" ELSE "closed")
  /\ UNCHANGED <<leaseVars, storeVars, localVars, collectVars,
                 inspectVars, histVars>>

\* ... then unlinks it.  When it has gone in between, close() raises, with the
\* lock free and nothing left of the lease.
CloseUnlink(b) ==
  /\ bpc[b] = "unlink"
  /\ marker' = [marker EXCEPT ![b] = FALSE]
  /\ Goto(b, "closed")
  /\ UNCHANGED <<gate, lock, storeVars, localVars, collectVars,
                 inspectVars, histVars>>

-----------------------------------------------------------------------------
(* A build under its lease *)

\* lookup() reads the record, then probes its blobs.
Lookup(b, k) ==
  /\ bpc[b] = "open" /\ work[b] < MaxWork
  /\ work' = [work EXCEPT ![b] = @ + 1]
  /\ key' = [key EXCEPT ![b] = k]
  /\ want' = [want EXCEPT ![b] = records[k]]
  /\ left' = [left EXCEPT ![b] = records[k]]
  /\ Goto(b, IF records[k] = {} THEN "missed" ELSE "probe")
  /\ UNCHANGED <<leaseVars, storeVars, blob, seen, collectVars, inspectVars, histVars>>

\* One blob of want[b] is looked at (_probe_blob, or the copy of
\* restore_selected); when all have been, the build goes on at label.  For a
\* missing one CachePoisonError leaves the with block, which closes the lease.
Inspect(b, label) ==
  \/ /\ left[b] = {}
     /\ left' = [left EXCEPT ![b] = want[b]]
     /\ Goto(b, label)
  \/ \E d \in left[b] :
       \/ /\ d \in blobs
          /\ left' = [left EXCEPT ![b] = @ \ {d}]
          /\ UNCHANGED bpc
       \/ /\ d \notin blobs
          /\ Goto(b, "leave")
          /\ UNCHANGED left

ProbeHit(b) ==
  /\ bpc[b] = "probe" /\ Inspect(b, "restore")
  /\ UNCHANGED <<leaseVars, storeVars, key, want, blob, work, seen, collectVars,
                 inspectVars, histVars>>

Restore(b) ==
  /\ bpc[b] = "restore" /\ Inspect(b, "open")
  /\ UNCHANGED <<leaseVars, storeVars, key, want, blob, work, seen, collectVars,
                 inspectVars, histVars>>

\* The producer ran.  stage_record() returns an equal record that a sibling
\* published meanwhile, after probing it, and refuses a different one.
Stage(b, outs) ==
  /\ bpc[b] = "missed" /\ outs \in Produced[key[b]]
  /\ want' = [want EXCEPT ![b] = outs]
  /\ left' = [left EXCEPT ![b] = outs]
  /\ \/ records[key[b]] = {} /\ Goto(b, "stage")
     \/ records[key[b]] = outs /\ Goto(b, "equal")
     \/ records[key[b]] \notin {{}, outs} /\ Goto(b, "leave")
  /\ UNCHANGED <<leaseVars, storeVars, key, blob, work, seen, collectVars,
                 inspectVars, histVars>>

ProbeEqual(b) ==
  /\ bpc[b] = "equal" /\ Inspect(b, "publish")
  /\ UNCHANGED <<leaseVars, storeVars, key, want, blob, work, seen, collectVars,
                 inspectVars, histVars>>

\* promote_relative_new(incoming/<id> -> blob): one rename that never
\* overwrites ...
Promote(b) ==
  /\ bpc[b] = "stage"
  /\ \/ /\ left[b] = {}
        /\ left' = [left EXCEPT ![b] = want[b]]
        /\ Goto(b, "publish")
        /\ UNCHANGED <<blobs, blob>>
     \/ \E d \in left[b] :
          /\ blob' = [blob EXCEPT ![b] = d]
          /\ Goto(b, IF d \in blobs THEN "validate" ELSE "promoted")
          /\ blobs' = blobs \cup {d}
          /\ UNCHANGED left
  /\ UNCHANGED <<leaseVars, records, hints, hintLock, key, want, work, seen, collectVars,
                 inspectVars, histVars>>

\* ... whose result is then confirmed ...
Promoted(b) ==
  /\ bpc[b] = "promoted"
  /\ left' = [left EXCEPT ![b] = @ \ {blob[b]}]
  /\ Goto(b, "stage")
  /\ UNCHANGED <<leaseVars, storeVars, key, want, blob, work, seen, collectVars,
                 inspectVars, histVars>>

\* ... or, after an I/O error, withdrawn.
Withdraw(b) ==
  /\ bpc[b] = "promoted" /\ faults < MaxFaults
  /\ faults' = faults + 1
  /\ blobs' = blobs \ {blob[b]}
  /\ withdrawn' = withdrawn \cup {blob[b]}
  /\ Goto(b, "validate")
  /\ UNCHANGED <<leaseVars, records, hints, hintLock, localVars,
                 collectVars, inspectVars, hinted>>

\* A promotion that was refused or failed accepts a blob that is there, and
\* otherwise raises CacheError.
Validate(b) ==
  /\ bpc[b] = "validate"
  /\ \/ /\ blob[b] \in blobs
        /\ left' = [left EXCEPT ![b] = @ \ {blob[b]}]
        /\ Goto(b, "stage")
     \/ /\ blob[b] \notin blobs
        /\ Goto(b, "leave")
        /\ UNCHANGED left
  /\ UNCHANGED <<leaseVars, storeVars, key, want, blob, work, seen, collectVars,
                 inspectVars, histVars>>

-----------------------------------------------------------------------------
(* publish_record() and index_record() *)

ProbeStaged(b) ==
  /\ bpc[b] = "publish" /\ Inspect(b, "write")
  /\ UNCHANGED <<leaseVars, storeVars, key, want, blob, work, seen, collectVars,
                 inspectVars, histVars>>

\* The record is created under a name that must be free.  One that is there
\* has to be equal.
WriteRecord(b) ==
  /\ bpc[b] = "write"
  /\ \/ /\ records[key[b]] = {}
        /\ records' = [records EXCEPT ![key[b]] = want[b]]
        /\ Goto(b, "written")
     \/ /\ records[key[b]] = want[b]
        /\ Goto(b, "index")
        /\ UNCHANGED records
     \/ /\ records[key[b]] \notin {{}, want[b]}
        /\ Goto(b, "leave")
        /\ UNCHANGED records
  /\ UNCHANGED <<leaseVars, blobs, hints, hintLock, localVars,
                 collectVars, inspectVars, histVars>>

Written(b) ==
  /\ bpc[b] = "written"
  /\ Goto(b, "index")
  /\ UNCHANGED <<leaseVars, storeVars, localVars, collectVars,
                 inspectVars, histVars>>

\* An I/O error after the rename takes the record away again, ...
WithdrawRecord(b) ==
  /\ bpc[b] = "written" /\ faults < MaxFaults
  /\ faults' = faults + 1
  /\ records' = [records EXCEPT ![key[b]] = {}]
  /\ Goto(b, "reread")
  /\ UNCHANGED <<leaseVars, blobs, hints, hintLock, localVars,
                 collectVars, inspectVars, withdrawn, hinted>>

\* ... and only an equal record that a sibling has published since saves the
\* publication.
Reread(b) ==
  /\ bpc[b] = "reread"
  /\ Goto(b, IF records[key[b]] = want[b] THEN "index" ELSE "leave")
  /\ UNCHANGED <<leaseVars, storeVars, localVars, collectVars, inspectVars, histVars>>

\* index_record() looks its record up, ...
IndexLookup(b) ==
  /\ bpc[b] = "index"
  /\ Goto(b, IF records[key[b]] = want[b] THEN "named" ELSE "leave")
  /\ UNCHANGED <<leaseVars, storeVars, localVars, collectVars, inspectVars, histVars>>

ProbeNamed(b) ==
  /\ bpc[b] = "named" /\ Inspect(b, "waiting")
  /\ UNCHANGED <<leaseVars, storeVars, key, want, blob, work, seen, collectVars,
                 inspectVars, histVars>>

\* ... waits for the lock of the index, reads it and replaces it.
IndexLockIf(b, free) ==
  /\ bpc[b] = "waiting" /\ free
  /\ hintLock' = b
  /\ Goto(b, "indexing")
  /\ UNCHANGED <<leaseVars, records, blobs, hints, localVars,
                 collectVars, inspectVars, histVars>>

\* Mutant: the lock is not waited for.
IndexLockSkipped(b) == IndexLockIf(b, TRUE)

IndexLock(b) == IndexLockIf(b, hintLock = None)

\* keys = [record.key] + the others, cut at the limit.  A key is in the index
\* once: _read_index takes one that repeats a key for no index at all.
Others(k, old) ==
  IF \E i \in 1 .. Len(old) : old[i] = k
  THEN LET i == CHOOSE j \in 1 .. Len(old) : old[j] = k
       IN  SubSeq(old, 1, i - 1) \o SubSeq(old, i + 1, Len(old))
  ELSE old

Remember(k, old) ==
  LET new == <<k>> \o Others(k, old)
  IN  SubSeq(new, 1, IF Len(new) < MaxHints THEN Len(new) ELSE MaxHints)

IndexRead(b) ==
  /\ bpc[b] = "indexing"
  /\ seen' = [seen EXCEPT ![b] = hints]
  /\ Goto(b, "indexed")
  /\ UNCHANGED <<leaseVars, storeVars, key, want, left, blob, work, collectVars,
                 inspectVars, histVars>>

\* atomic_publish_relative first renames the old file to a guard name, then
\* the new one into its place; a reader, or a crash, in between finds no index.
IndexHide(b) ==
  /\ bpc[b] = "indexed"
  /\ hints' = <<>>
  /\ Goto(b, "hidden")
  /\ UNCHANGED <<leaseVars, records, blobs, hintLock, localVars, collectVars,
                 inspectVars, histVars>>

IndexReplace(b) ==
  /\ bpc[b] = "hidden"
  /\ hints' = Remember(key[b], seen[b])
  /\ hinted' = hinted \cup {key[b]}
  /\ hintLock' = None /\ seen' = [seen EXCEPT ![b] = <<>>]
  /\ Goto(b, "open")
  /\ UNCHANGED <<leaseVars, records, blobs, key, want, left, blob, work,
                 collectVars, inspectVars, faults, withdrawn>>

\* A killed build: the system frees its locks, its marker stays.
Crash(b) ==
  /\ bpc[b] \notin {"new", "closed", "dead"} /\ faults < MaxFaults
  /\ faults' = faults + 1
  /\ Goto(b, "dead") /\ Forget(b)
  /\ gate' = IF gate = b THEN None ELSE gate
  /\ lock' = IF lock[b] = b THEN [lock EXCEPT ![b] = None] ELSE lock
  /\ hintLock' = IF hintLock = b THEN None ELSE hintLock
  /\ hinted' = IF bpc[b] = "hidden" THEN {} ELSE hinted
  /\ UNCHANGED <<marker, records, blobs, hints,
                 collectVars, inspectVars, withdrawn>>

-----------------------------------------------------------------------------
(* gc() *)

Markers == {b \in Builders : marker[b]}

\* _active_lease_count lists leases/ once the gate is held.
CollectGate(dryRun) ==
  /\ cpc = "idle" /\ gate = None /\ collections < MaxCollections
  /\ gate' = Collector
  /\ collections' = collections + 1
  /\ dry' = dryRun
  /\ todo' = Markers
  /\ cpc' = "leases"
  /\ UNCHANGED <<marker, lock, storeVars, buildVars, at, busy, kept, inspectVars,
                 histVars>>

\* Every exit of gc() releases the gate.
EndCollection ==
  /\ cpc' = "idle" /\ gate' = None
  /\ todo' = {} /\ at' = None /\ busy' = FALSE /\ kept' = {} /\ dry' = FALSE

\* is_file() of a listed marker that was closed meanwhile: CachePoisonError.
CollectVanished(b) ==
  /\ cpc = "leases" /\ b \in todo /\ ~marker[b]
  /\ EndCollection
  /\ UNCHANGED <<marker, lock, storeVars, buildVars, collections,
                 inspectVars, histVars>>

CollectSee(b) ==
  /\ cpc = "leases" /\ b \in todo /\ marker[b]
  /\ at' = b /\ cpc' = "probe"
  /\ UNCHANGED <<leaseVars, storeVars, buildVars, todo, busy, kept, dry, collections,
                 inspectVars, histVars>>

\* The marker's lock is tried and given back.  A free one is stale, and is
\* removed in two steps as in close().
CollectProbe ==
  /\ cpc = "probe"
  /\ todo' = todo \ {at}
  /\ busy' = (busy \/ (marker[at] /\ lock[at] # None))
  /\ \/ /\ marker[at] /\ lock[at] = None /\ ~dry
        /\ cpc' = "stale"
        /\ UNCHANGED at
     \/ /\ ~(marker[at] /\ lock[at] = None /\ ~dry)
        /\ cpc' = "leases" /\ at' = None
  /\ UNCHANGED <<leaseVars, storeVars, buildVars, kept, dry, collections,
                 inspectVars, histVars>>

CollectOpen ==
  /\ cpc = "stale"
  /\ cpc' = IF marker[at] THEN "unlink" ELSE "leases"
  /\ UNCHANGED <<leaseVars, storeVars, buildVars, todo, at, busy, kept, dry,
                 collections, inspectVars, histVars>>

CollectUnlink ==
  /\ cpc = "unlink"
  /\ \/ /\ marker[at]
        /\ marker' = [marker EXCEPT ![at] = FALSE]
        /\ cpc' = "leases"
        /\ UNCHANGED <<gate, todo, at, busy, kept, dry>>
     \/ /\ ~marker[at]
        /\ EndCollection
        /\ UNCHANGED marker
  /\ UNCHANGED <<lock, storeVars, buildVars, collections,
                 inspectVars, histVars>>

\* Nothing is collected under an active lease.
CollectCount ==
  /\ cpc = "leases" /\ todo = {}
  /\ \/ busy /\ EndCollection
     \/ /\ ~busy
        /\ cpc' = "records"
        /\ todo' = {k \in Keys : records[k] # {}}
        /\ UNCHANGED <<gate, at, busy, kept, dry>>
  /\ UNCHANGED <<marker, lock, storeVars, buildVars, collections, inspectVars, histVars>>

\* A record is removed when it is older than the cutoff and kept otherwise.
CollectRecordAs(k, old, referenced) ==
  /\ cpc = "records" /\ k \in todo
  /\ todo' = todo \ {k}
  /\ kept' = kept \cup referenced
  /\ records' = IF old /\ ~dry THEN [records EXCEPT ![k] = {}] ELSE records
  /\ UNCHANGED <<leaseVars, blobs, hints, hintLock, buildVars, cpc, at, busy, dry,
                 collections, inspectVars, histVars>>

\* Mutants: a retained record's blobs do not count as referenced; a removed
\* record's blobs do.
CollectRecordUnkept(k, old) == CollectRecordAs(k, old, {})
CollectRecordKept(k, old) == CollectRecordAs(k, old, records[k])

CollectRecord(k, old) == CollectRecordAs(k, old, IF old THEN {} ELSE records[k])

\* The blobs that no retained record names ...
CollectListBlobs ==
  /\ cpc = "records" /\ todo = {}
  /\ todo' = blobs \ kept /\ cpc' = "blobs"
  /\ UNCHANGED <<leaseVars, storeVars, buildVars, at, busy, kept, dry, collections,
                 inspectVars, histVars>>

\* ... are removed one by one ...
CollectBlob(d) ==
  /\ cpc = "blobs" /\ d \in todo
  /\ todo' = todo \ {d}
  /\ blobs' = IF dry THEN blobs ELSE blobs \ {d}
  /\ UNCHANGED <<leaseVars, records, hints, hintLock, buildVars, cpc, at, busy, kept,
                 dry, collections, inspectVars, histVars>>

\* ... and then an old index with its lock file.
CollectHints(old) ==
  /\ cpc = "blobs" /\ todo = {}
  /\ EndCollection
  /\ IF old /\ ~dry THEN hints' = <<>> /\ hinted' = {} ELSE UNCHANGED <<hints, hinted>>
  /\ UNCHANGED <<marker, lock, records, blobs, hintLock, buildVars, collections,
                 inspectVars, faults, withdrawn>>

CollectorCrash ==
  /\ cpc # "idle" /\ faults < MaxFaults
  /\ faults' = faults + 1
  /\ EndCollection
  /\ UNCHANGED <<marker, lock, storeVars, buildVars, collections,
                 inspectVars, withdrawn, hinted>>

-----------------------------------------------------------------------------
(* status() counts the leases in the same way, without the gate and without   *)
(* removing any.  The walk over the tree that follows changes nothing.        *)

Status ==
  /\ ipc = "idle" /\ scans < MaxScans
  /\ scans' = scans + 1
  /\ listed' = Markers /\ ipc' = "leases"
  /\ UNCHANGED <<leaseVars, storeVars, buildVars, collectVars, probed, histVars>>

StatusVanished(b) ==
  /\ ipc = "leases" /\ b \in listed /\ ~marker[b]
  /\ ipc' = "idle" /\ listed' = {}
  /\ UNCHANGED <<leaseVars, storeVars, buildVars, collectVars, probed, scans, histVars>>

StatusSee(b) ==
  /\ ipc = "leases" /\ b \in listed /\ marker[b]
  /\ probed' = b /\ ipc' = "probe"
  /\ UNCHANGED <<leaseVars, storeVars, buildVars, collectVars, listed, scans, histVars>>

\* The marker's lock is taken when it is free ...
StatusProbe ==
  /\ ipc = "probe"
  /\ listed' = listed \ {probed}
  /\ \/ /\ marker[probed] /\ lock[probed] = None
        /\ lock' = [lock EXCEPT ![probed] = Inspector]
        /\ ipc' = "held"
        /\ UNCHANGED probed
     \/ /\ ~(marker[probed] /\ lock[probed] = None)
        /\ ipc' = "leases" /\ probed' = None
        /\ UNCHANGED lock
  /\ UNCHANGED <<gate, marker, storeVars, buildVars, collectVars, scans, histVars>>

\* ... and given back.
StatusRelease ==
  /\ ipc = "held"
  /\ lock' = [lock EXCEPT ![probed] = None]
  /\ ipc' = "leases" /\ probed' = None
  /\ UNCHANGED <<gate, marker, storeVars, buildVars, collectVars, listed, scans,
                 histVars>>

StatusReturn ==
  /\ ipc = "leases" /\ listed = {}
  /\ ipc' = "idle"
  /\ UNCHANGED <<leaseVars, storeVars, buildVars, collectVars, listed, probed, scans,
                 histVars>>

-----------------------------------------------------------------------------

Ended == {"closed", "dead"}

Finished ==
  /\ \A b \in Builders : bpc[b] \in Ended
  /\ cpc = "idle" /\ ipc = "idle"
  /\ UNCHANGED vars

Build(b) ==
  \/ LeaseGate(b) \/ LeaseMark(b) \/ LeaseLock(b)
  \/ CloseUnlock(b) \/ CloseOpen(b) \/ CloseUnlink(b)
  \/ \E k \in Keys : Lookup(b, k)
  \/ ProbeHit(b) \/ Restore(b)
  \/ \E outs \in SUBSET Digests : Stage(b, outs)
  \/ ProbeEqual(b) \/ Promote(b) \/ Promoted(b) \/ Validate(b)
  \/ ProbeStaged(b) \/ WriteRecord(b) \/ Written(b) \/ Reread(b)
  \/ IndexLookup(b) \/ ProbeNamed(b) \/ IndexLock(b) \/ IndexRead(b) \/ IndexHide(b)
  \/ IndexReplace(b)

Collect ==
  \/ \E b \in Builders : CollectVanished(b) \/ CollectSee(b)
  \/ CollectProbe \/ CollectOpen \/ CollectUnlink \/ CollectCount
  \/ \E k \in Keys, old \in BOOLEAN : CollectRecord(k, old)
  \/ CollectListBlobs
  \/ \E d \in Digests : CollectBlob(d)
  \/ \E old \in BOOLEAN : CollectHints(old)

Report ==
  \/ \E b \in Builders : StatusVanished(b) \/ StatusSee(b)
  \/ StatusProbe \/ StatusRelease \/ StatusReturn

Next ==
  \/ \E b \in Builders : Build(b)
  \/ \E dryRun \in BOOLEAN : CollectGate(dryRun)
  \/ Collect
  \/ Status \/ Report
  \/ \E b \in Builders : Withdraw(b) \/ WithdrawRecord(b) \/ Crash(b)
  \/ CollectorCrash
  \/ Finished

Spec == Init /\ [][Next]_vars

-----------------------------------------------------------------------------
(* Properties *)

BuilderLabels ==
  {"new", "gated", "marked", "open", "leave", "closing", "unlink", "closed", "dead",
   "probe", "restore", "missed", "equal", "stage", "promoted", "validate", "publish",
   "write", "written", "reread", "index", "named", "waiting", "indexing", "indexed", "hidden"}

\* The labels between a successful lease() and the unlocking in close().
Leased ==
  BuilderLabels \ {"new", "gated", "marked", "closing", "unlink", "closed", "dead"}

\* The types of the variables.
TypeOK ==
  /\ gate \in Builders \cup {Collector, None}
  /\ marker \in [Builders -> BOOLEAN]
  /\ lock \in [Builders -> Builders \cup {Inspector, None}]
  /\ records \in [Keys -> SUBSET Digests] /\ blobs \in SUBSET Digests
  /\ hints \in Seq(Keys) /\ Len(hints) <= MaxHints /\ hintLock \in Builders \cup {None}
  /\ bpc \in [Builders -> BuilderLabels] /\ key \in [Builders -> Keys]
  /\ want \in [Builders -> SUBSET Digests] /\ left \in [Builders -> SUBSET Digests]
  /\ blob \in [Builders -> Digests] /\ work \in [Builders -> 0 .. MaxWork]
  /\ seen \in [Builders -> Seq(Keys)]
  /\ cpc \in {"idle", "leases", "probe", "stale", "unlink", "records", "blobs"}
  /\ todo \in (SUBSET Builders) \cup (SUBSET Keys) \cup (SUBSET Digests)
  /\ at \in Builders \cup {None} /\ busy \in BOOLEAN /\ kept \in SUBSET Digests
  /\ dry \in BOOLEAN /\ collections \in 0 .. MaxCollections
  /\ ipc \in {"idle", "leases", "probe", "held"} /\ listed \in SUBSET Builders
  /\ probed \in Builders \cup {None} /\ scans \in 0 .. MaxScans
  /\ faults \in 0 .. MaxFaults
  /\ withdrawn \in SUBSET Digests /\ hinted \in SUBSET Keys

\* lease, close, gc and status: a lease that is held has its marker and its
\* lock, whoever probes the lock meanwhile.  (That lease() is refused because
\* status() happens to hold the new marker's lock, and that close() raises
\* because gc() removed the marker first, are behaviours of the model which this
\* property allows: they end a lease, they do not break one.)
LeaseHeld ==
  \A b \in Builders : bpc[b] \in Leased => marker[b] /\ lock[b] = b

\* publish_record, stage_record and gc together: at every moment, and so after
\* a crash of any of them, each blob that a record names is there.  The code
\* has one exception: a publisher whose promotion met an I/O error after the
\* rename takes the blob away again, though a sibling may have relied on it.
RecordsComplete ==
  \A k \in Keys : records[k] \ withdrawn \subseteq blobs

\* lease and gc: while records or blobs are being removed no build holds or is
\* taking a lease, and every marker of a dead build has been removed.
CollectorAlone ==
  cpc \in {"records", "blobs"} =>
    \A b \in Builders : bpc[b] \notin Leased \cup {"gated", "marked"} /\ (dry \/ ~marker[b])

\* gc: a collection that runs to its end leaves only blobs that a record names,
\* whatever a killed build or an earlier collection that was killed half-way
\* left in the store.
CollectsAll ==
  [][cpc = "blobs" /\ cpc' = "idle" /\ ~dry /\ faults' = faults
       => blobs' \subseteq UNION {records'[k] : k \in Keys}]_vars

\* publish_record: a published record never changes; it goes away only in a
\* collection, or when the build that wrote it takes back what it wrote.
RecordsImmutable ==
  [][\A k \in Keys :
       records[k] # {} /\ records'[k] # records[k] =>
         /\ records'[k] = {}
         /\ \/ cpc = "records" /\ ~dry
            \/ \E b \in Builders :
                 bpc[b] = "written" /\ bpc'[b] = "reread" /\ key[b] = k /\ want[b] = records[k]]_vars

\* index_record: concurrent builds never lose each other's hints, until the
\* index is full, is collected, or its writer is killed inside the replacement.
HintsKept ==
  hintLock = None /\ Len(hints) < MaxHints => hinted \subseteq {hints[i] : i \in 1 .. Len(hints)}

=============================================================================
