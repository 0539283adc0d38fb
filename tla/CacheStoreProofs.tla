-------------------------- MODULE CacheStoreProofs --------------------------
(***************************************************************************)
(* Proofs about CacheStore, for any builders, keys, digests, outputs and   *)
(* bounds.  The inductive invariant has three parts: Shape types the       *)
(* functions, Leases says what the gate, the markers and their locks mean  *)
(* while gc() scans and collects, and Store says which blobs are known to  *)
(* be there.                                                               *)
(***************************************************************************)
EXTENDS CacheStore, SequenceTheorems, TLAPS

Shape ==
  /\ marker \in [Builders -> BOOLEAN]
  /\ lock \in [Builders -> Builders \cup {Inspector, None}]
  /\ records \in [Keys -> SUBSET Digests]
  /\ bpc \in [Builders -> BuilderLabels]
  /\ key \in [Builders -> Keys]
  /\ want \in [Builders -> SUBSET Digests] /\ left \in [Builders -> SUBSET Digests]
  /\ blob \in [Builders -> Digests]
  /\ busy \in BOOLEAN /\ dry \in BOOLEAN

Scanning == {"leases", "probe", "stale", "unlink"}

\* Who is inside lease() or gc() has the gate.
GateHeld ==
  /\ \A b \in Builders : bpc[b] \in {"gated", "marked"} => gate = b
  /\ cpc # "idle" => gate = Collector

MarkerShown == \A b \in Builders : bpc[b] = "marked" => marker[b]

ProbeHeld ==
  /\ ipc \in {"probe", "held"} => probed \in Builders
  /\ ipc = "held" => lock[probed] = Inspector

\* While gc() scans, a lease in use is still to be looked at or was counted,
\* and a marker is so too or is the one being removed.
ScanSound ==
  cpc \in Scanning =>
    \A b \in Builders :
      /\ bpc[b] \in Leased => b \in todo \/ busy
      /\ marker[b] => b \in todo \/ busy \/ dry \/ (cpc \in {"stale", "unlink"} /\ at = b)

TargetStale ==
  /\ cpc \in Scanning => todo \subseteq Builders
  /\ cpc \in {"probe", "stale", "unlink"} => at \in Builders
  /\ cpc \in {"stale", "unlink"} => bpc[at] \notin Leased

Leases ==
  /\ GateHeld /\ MarkerShown /\ ProbeHeld /\ ScanSound /\ TargetStale
  /\ LeaseHeld /\ CollectorAlone

Holding ==
  {"probe", "restore", "equal", "publish", "write", "written", "reread", "index", "named"}

Known == blobs \cup withdrawn

\* What a build has probed, promoted or validated stays known.
Held(b) ==
  /\ bpc[b] \in Holding => want[b] \subseteq Known /\ left[b] \subseteq want[b]
  /\ bpc[b] \in {"stage", "promoted", "validate"} => want[b] \ left[b] \subseteq Known
  /\ bpc[b] = "promoted" => blob[b] \in Known

\* What gc() retains is counted as referenced before any blob goes.
Retained ==
  ~dry =>
    /\ cpc = "records" => \A k \in Keys \ todo : records[k] \subseteq kept
    /\ cpc = "blobs" => (\A k \in Keys : records[k] \subseteq kept) /\ todo \cap kept = {}

AllHeld == \A b \in Builders : Held(b)

Store == RecordsComplete /\ Retained /\ AllHeld

IInv == Shape /\ Leases /\ Store

-----------------------------------------------------------------------------
(* Types *)

\* Every step keeps the functions of the model total and typed.
LEMMA ShapeStep ==
  ASSUME Shape, [Next]_vars
  PROVE  Shape'
<1>. USE ConstantsAssumption
     DEF Shape, BuilderLabels, Goto, leaseVars, storeVars, localVars, buildVars,
         collectVars, inspectVars, histVars
<1>0. (CHOOSE k \in Keys : TRUE) \in Keys /\ (CHOOSE d \in Digests : TRUE) \in Digests
  BY Zenon DEF ConstantsAssumption
<1>1. ASSUME NEW b \in Builders, NEW k \in Keys, Lookup(b, k)  PROVE Shape'
  BY <1>1, Zenon DEF Lookup
<1>2. ASSUME NEW b \in Builders, ProbeHit(b)  PROVE Shape'
  BY <1>2 DEF ProbeHit, Inspect
<1>3. ASSUME NEW b \in Builders, Restore(b)  PROVE Shape'
  BY <1>3 DEF Restore, Inspect
<1>4. ASSUME NEW b \in Builders, NEW outs \in SUBSET Digests, Stage(b, outs)  PROVE Shape'
  BY <1>4, Zenon DEF Stage
<1>5. ASSUME NEW b \in Builders, ProbeEqual(b)  PROVE Shape'
  BY <1>5 DEF ProbeEqual, Inspect
<1>6. ASSUME NEW b \in Builders, Promote(b)  PROVE Shape'
  BY <1>6 DEF Promote
<1>7. ASSUME NEW b \in Builders, Promoted(b)  PROVE Shape'
  BY <1>7, Zenon DEF Promoted
<1>8. ASSUME NEW b \in Builders, Withdraw(b)  PROVE Shape'
  BY <1>8, Zenon DEF Withdraw
<1>9. ASSUME NEW b \in Builders, Validate(b)  PROVE Shape'
  BY <1>9 DEF Validate
<1>10. ASSUME NEW b \in Builders, ProbeStaged(b)  PROVE Shape'
  BY <1>10 DEF ProbeStaged, Inspect
<1>11. ASSUME NEW b \in Builders, WriteRecord(b)  PROVE Shape'
  BY <1>11 DEF WriteRecord
<1>12. ASSUME NEW b \in Builders, Written(b)  PROVE Shape'
  BY <1>12, Zenon DEF Written
<1>13. ASSUME NEW b \in Builders, WithdrawRecord(b)  PROVE Shape'
  BY <1>13, Zenon DEF WithdrawRecord
<1>14. ASSUME NEW b \in Builders, Reread(b)  PROVE Shape'
  BY <1>14, Zenon DEF Reread
<1>15. ASSUME NEW b \in Builders, IndexLookup(b)  PROVE Shape'
  BY <1>15, Zenon DEF IndexLookup
<1>16. ASSUME NEW b \in Builders, ProbeNamed(b)  PROVE Shape'
  BY <1>16 DEF ProbeNamed, Inspect
<1>17. ASSUME NEW b \in Builders, IndexLock(b)  PROVE Shape'
  BY <1>17, Zenon DEF IndexLock, IndexLockIf
<1>18. ASSUME NEW b \in Builders, IndexRead(b)  PROVE Shape'
  BY <1>18, Zenon DEF IndexRead
<1>19. ASSUME NEW b \in Builders, IndexHide(b)  PROVE Shape'
  BY <1>19, Zenon DEF IndexHide
<1>20. ASSUME NEW b \in Builders, IndexReplace(b)  PROVE Shape'
  BY <1>20, Zenon DEF IndexReplace
<1>21. ASSUME NEW b \in Builders, LeaseGate(b)  PROVE Shape'
  BY <1>21, Zenon DEF LeaseGate
<1>22. ASSUME NEW b \in Builders, LeaseMark(b)  PROVE Shape'
  BY <1>22, Zenon DEF LeaseMark
<1>23. ASSUME NEW b \in Builders, LeaseLock(b)  PROVE Shape'
  BY <1>23, Zenon DEF LeaseLock, LeaseLockIf
<1>24. ASSUME NEW b \in Builders, CloseUnlock(b)  PROVE Shape'
  BY <1>0, <1>24, Zenon DEF CloseUnlock, Forget
<1>25. ASSUME NEW b \in Builders, CloseOpen(b)  PROVE Shape'
  BY <1>25, Zenon DEF CloseOpen
<1>26. ASSUME NEW b \in Builders, CloseUnlink(b)  PROVE Shape'
  BY <1>26, Zenon DEF CloseUnlink
<1>27. ASSUME NEW b \in Builders, Crash(b)  PROVE Shape'
  BY <1>0, <1>27, Zenon DEF Crash, Forget
<1>28. ASSUME NEW dryRun \in BOOLEAN, CollectGate(dryRun)  PROVE Shape'
  BY <1>28, Zenon DEF CollectGate
<1>29. ASSUME NEW b \in Builders, CollectVanished(b)  PROVE Shape'
  BY <1>29, Zenon DEF CollectVanished, EndCollection
<1>30. ASSUME NEW b \in Builders, CollectSee(b)  PROVE Shape'
  BY <1>30, Zenon DEF CollectSee
<1>31. ASSUME CollectProbe  PROVE Shape'
  BY <1>31, Zenon DEF CollectProbe
<1>32. ASSUME CollectOpen  PROVE Shape'
  BY <1>32, Zenon DEF CollectOpen
<1>33. ASSUME CollectUnlink  PROVE Shape'
  BY <1>33, Zenon DEF CollectUnlink, EndCollection
<1>34. ASSUME CollectCount  PROVE Shape'
  BY <1>34, Zenon DEF CollectCount, EndCollection
<1>35. ASSUME NEW k \in Keys, NEW old \in BOOLEAN, CollectRecord(k, old)  PROVE Shape'
  BY <1>35, Zenon DEF CollectRecord, CollectRecordAs
<1>36. ASSUME CollectListBlobs  PROVE Shape'
  BY <1>36, Zenon DEF CollectListBlobs
<1>37. ASSUME NEW d \in Digests, CollectBlob(d)  PROVE Shape'
  BY <1>37, Zenon DEF CollectBlob
<1>38. ASSUME NEW old \in BOOLEAN, CollectHints(old)  PROVE Shape'
  BY <1>38, Zenon DEF CollectHints, EndCollection
<1>39. ASSUME CollectorCrash  PROVE Shape'
  BY <1>39, Zenon DEF CollectorCrash, EndCollection
<1>40. ASSUME Status  PROVE Shape'
  BY <1>40, Zenon DEF Status
<1>41. ASSUME NEW b \in Builders, StatusVanished(b)  PROVE Shape'
  BY <1>41, Zenon DEF StatusVanished
<1>42. ASSUME NEW b \in Builders, StatusSee(b)  PROVE Shape'
  BY <1>42, Zenon DEF StatusSee
<1>43. ASSUME StatusProbe  PROVE Shape'
  BY <1>43, Zenon DEF StatusProbe
<1>44. ASSUME StatusRelease  PROVE Shape'
  BY <1>44, Zenon DEF StatusRelease
<1>45. ASSUME StatusReturn  PROVE Shape'
  BY <1>45, Zenon DEF StatusReturn
<1>46. CASE UNCHANGED vars
  BY <1>46, Zenon DEF vars
<1>. HIDE DEF Shape, Goto, leaseVars, storeVars, localVars, buildVars, collectVars,
              inspectVars, histVars
<1>. QED
  BY <1>1, <1>2, <1>3, <1>4, <1>5, <1>6, <1>7, <1>8, <1>9, <1>10, <1>11,
     <1>12, <1>13, <1>14, <1>15, <1>16, <1>17, <1>18, <1>19, <1>20, <1>21, <1>22,
     <1>23, <1>24, <1>25, <1>26, <1>27, <1>28, <1>29, <1>30, <1>31, <1>32, <1>33,
     <1>34, <1>35, <1>36, <1>37, <1>38, <1>39, <1>40, <1>41, <1>42, <1>43, <1>44,
     <1>45, <1>46, Zenon
  DEF Next, Build, Collect, Report, Finished

-----------------------------------------------------------------------------
(* Leases and the gate *)

\* A step of a build that holds its lease and goes on holding it.
Inside(b) ==
  /\ bpc[b] \in Leased /\ bpc'[b] \in Leased
  /\ \A c \in Builders \ {b} :
       bpc'[c] = bpc[c] /\ want'[c] = want[c] /\ left'[c] = left[c] /\ blob'[c] = blob[c]
  /\ UNCHANGED <<leaseVars, collectVars, inspectVars>>

Work(b) ==
  \/ (\E k \in Keys : Lookup(b, k)) \/ ProbeHit(b) \/ Restore(b)
  \/ (\E outs \in SUBSET Digests : Stage(b, outs)) \/ ProbeEqual(b)
  \/ Promote(b) \/ Promoted(b) \/ Withdraw(b) \/ Validate(b)
  \/ ProbeStaged(b) \/ WriteRecord(b) \/ Written(b) \/ WithdrawRecord(b) \/ Reread(b)
  \/ IndexLookup(b) \/ ProbeNamed(b) \/ IndexLock(b) \/ IndexRead(b) \/ IndexHide(b)
  \/ IndexReplace(b)

\* Lookups, staging, publication and indexing happen inside the lease.
LEMMA WorkInside ==
  ASSUME Shape, NEW b \in Builders, Work(b)
  PROVE  Inside(b)
<1>. USE DEF Inside, Shape, Leased, BuilderLabels, Goto, storeVars, localVars
<1>1. ASSUME NEW k \in Keys, Lookup(b, k)  PROVE Inside(b)
  BY <1>1, Zenon DEF Lookup
<1>2. CASE ProbeHit(b)
  BY <1>2, Zenon DEF ProbeHit, Inspect
<1>3. CASE Restore(b)
  BY <1>3, Zenon DEF Restore, Inspect
<1>4. ASSUME NEW outs \in SUBSET Digests, Stage(b, outs)  PROVE Inside(b)
  BY <1>4 DEF Stage
<1>5. CASE ProbeEqual(b)
  BY <1>5, Zenon DEF ProbeEqual, Inspect
<1>6. CASE Promote(b)
  BY <1>6 DEF Promote
<1>7. CASE Promoted(b)
  BY <1>7, Zenon DEF Promoted
<1>8. CASE Withdraw(b)
  BY <1>8, Zenon DEF Withdraw
<1>9. CASE Validate(b)
  BY <1>9, Zenon DEF Validate
<1>10. CASE ProbeStaged(b)
  BY <1>10, Zenon DEF ProbeStaged, Inspect
<1>11. CASE WriteRecord(b)
  BY <1>11 DEF WriteRecord
<1>12. CASE Written(b)
  BY <1>12, Zenon DEF Written
<1>13. CASE WithdrawRecord(b)
  BY <1>13, Zenon DEF WithdrawRecord
<1>14. CASE Reread(b)
  BY <1>14, Zenon DEF Reread
<1>15. CASE IndexLookup(b)
  BY <1>15, Zenon DEF IndexLookup
<1>16. CASE ProbeNamed(b)
  BY <1>16, Zenon DEF ProbeNamed, Inspect
<1>17. CASE IndexLock(b)
  BY <1>17, Zenon DEF IndexLock, IndexLockIf
<1>18. CASE IndexRead(b)
  BY <1>18, Zenon DEF IndexRead
<1>19. CASE IndexHide(b)
  BY <1>19, Zenon DEF IndexHide
<1>20. CASE IndexReplace(b)
  BY <1>20, Zenon DEF IndexReplace
<1>. QED
  BY <1>1, <1>2, <1>3, <1>4, <1>5, <1>6, <1>7, <1>8, <1>9, <1>10, <1>11,
     <1>12, <1>13, <1>14, <1>15, <1>16, <1>17, <1>18, <1>19, <1>20, Zenon DEF Work

\* A build that stays inside its lease disturbs nobody's locks.
LEMMA InsideLeases ==
  ASSUME Leases, NEW b \in Builders, Inside(b)
  PROVE  Leases'
<1>1. \A c \in Builders : bpc'[c] = bpc[c] \/ (bpc[c] \in Leased /\ bpc'[c] \in Leased)
  BY Zenon DEF Inside
<1>2. \A c \in Builders : bpc[c] \in Leased <=> bpc'[c] \in Leased
  BY <1>1, Zenon
<1>3. \A c \in Builders : bpc'[c] \in {"gated", "marked"} => bpc'[c] = bpc[c]
  BY <1>1, Zenon DEF Leased, BuilderLabels
<1>4. UNCHANGED <<gate, marker, lock, cpc, todo, at, busy, dry, ipc, probed>>
  BY Zenon DEF Inside, leaseVars, collectVars, inspectVars
<1>5. GateHeld' /\ MarkerShown' /\ ProbeHeld'
  BY <1>3, <1>4, Zenon DEF Leases, GateHeld, MarkerShown, ProbeHeld
<1>6. ScanSound' /\ TargetStale'
  BY <1>2, <1>4, Zenon DEF Leases, ScanSound, TargetStale
<1>7. LeaseHeld' /\ CollectorAlone'
  BY <1>2, <1>3, <1>4, Zenon DEF Leases, LeaseHeld, CollectorAlone
<1>. QED  BY <1>5, <1>6, <1>7, Zenon DEF Leases

\* Every other step of a build, of gc() and of status().
LEMMA LeasesStep ==
  ASSUME Shape, Leases, [Next]_vars
  PROVE  Leases'
<1>. USE ConstantsAssumption
     DEF ConstantsAssumption, Leases, Scanning, Goto, leaseVars, storeVars, localVars,
         buildVars, collectVars, inspectVars, histVars
<1>1. ASSUME NEW b \in Builders, Work(b)  PROVE Leases'
  BY <1>1, WorkInside, InsideLeases, Zenon
<1>2. ASSUME NEW b \in Builders, LeaseGate(b)  PROVE Leases'
  <2>1. GateHeld' /\ MarkerShown' /\ ProbeHeld'
    BY <1>2 DEF LeaseGate, GateHeld, MarkerShown, ProbeHeld
  <2>2. ScanSound'
    BY <1>2 DEF LeaseGate, ScanSound, Leased
  <2>3. TargetStale'
    BY <1>2 DEF LeaseGate, TargetStale, Leased
  <2>4. LeaseHeld'
    BY <1>2 DEF LeaseGate, LeaseHeld, Leased
  <2>5. CollectorAlone'
    BY <1>2, Zenon DEF LeaseGate, CollectorAlone, GateHeld
  <2>. QED  BY <2>1, <2>2, <2>3, <2>4, <2>5, Zenon
<1>3. ASSUME NEW b \in Builders, LeaseMark(b)  PROVE Leases'
  <2>1. GateHeld' /\ ProbeHeld' /\ CollectorAlone'
    BY <1>3 DEF LeaseMark, GateHeld, ProbeHeld, CollectorAlone
  <2>2. MarkerShown'
    BY <1>3, Zenon DEF LeaseMark, MarkerShown, Shape
  <2>3. ScanSound'
    BY <1>3, Zenon DEF LeaseMark, ScanSound, GateHeld
  <2>4. TargetStale'
    BY <1>3 DEF LeaseMark, TargetStale, Leased
  <2>5. LeaseHeld'
    BY <1>3 DEF LeaseMark, LeaseHeld, Leased
  <2>. QED  BY <2>1, <2>2, <2>3, <2>4, <2>5, Zenon
<1>4. ASSUME NEW b \in Builders, LeaseLock(b)  PROVE Leases'
  <2>1. ProbeHeld' /\ CollectorAlone'
    BY <1>4 DEF LeaseLock, LeaseLockIf, ProbeHeld, CollectorAlone
  <2>2. GateHeld'
    BY <1>4, Zenon DEF LeaseLock, LeaseLockIf, GateHeld, Shape
  <2>3. MarkerShown'
    BY <1>4, Zenon DEF LeaseLock, LeaseLockIf, MarkerShown, Shape
  <2>4. ScanSound'
    BY <1>4, Zenon DEF LeaseLock, LeaseLockIf, ScanSound, GateHeld
  <2>5. TargetStale'
    BY <1>4, Zenon DEF LeaseLock, LeaseLockIf, TargetStale, GateHeld
  <2>6. LeaseHeld'
    BY <1>4 DEF LeaseLock, LeaseLockIf, LeaseHeld, Shape, Leased, MarkerShown
  <2>. QED  BY <2>1, <2>2, <2>3, <2>4, <2>5, <2>6, Zenon
<1>5. ASSUME NEW b \in Builders, CloseUnlock(b)  PROVE Leases'
  <2>1. GateHeld' /\ MarkerShown'
    BY <1>5 DEF CloseUnlock, Forget, GateHeld, MarkerShown
  <2>2. ProbeHeld'
    BY <1>5, Zenon DEF CloseUnlock, Forget, ProbeHeld, Shape, Leased, LeaseHeld
  <2>3. ScanSound'
    BY <1>5 DEF CloseUnlock, Forget, ScanSound, Leased
  <2>4. TargetStale'
    BY <1>5 DEF CloseUnlock, Forget, TargetStale, Leased
  <2>5. LeaseHeld'
    BY <1>5, Zenon DEF CloseUnlock, Forget, LeaseHeld, Shape, Leased
  <2>6. CollectorAlone'
    BY <1>5 DEF CloseUnlock, Forget, CollectorAlone, Leased
  <2>. QED  BY <2>1, <2>2, <2>3, <2>4, <2>5, <2>6, Zenon
<1>6. ASSUME NEW b \in Builders, CloseOpen(b)  PROVE Leases'
  <2>1. GateHeld' /\ MarkerShown' /\ ProbeHeld'
    BY <1>6 DEF CloseOpen, GateHeld, MarkerShown, ProbeHeld
  <2>2. ScanSound'
    BY <1>6 DEF CloseOpen, ScanSound, Leased
  <2>3. TargetStale'
    BY <1>6 DEF CloseOpen, TargetStale, Leased
  <2>4. LeaseHeld'
    BY <1>6 DEF CloseOpen, LeaseHeld, Leased
  <2>5. CollectorAlone'
    BY <1>6 DEF CloseOpen, CollectorAlone, Leased
  <2>. QED  BY <2>1, <2>2, <2>3, <2>4, <2>5
<1>7. ASSUME NEW b \in Builders, CloseUnlink(b)  PROVE Leases'
  <2>1. GateHeld' /\ MarkerShown' /\ ProbeHeld'
    BY <1>7 DEF CloseUnlink, GateHeld, MarkerShown, ProbeHeld
  <2>2. ScanSound'
    BY <1>7 DEF CloseUnlink, ScanSound, Leased
  <2>3. TargetStale'
    BY <1>7 DEF CloseUnlink, TargetStale, Leased
  <2>4. LeaseHeld'
    BY <1>7 DEF CloseUnlink, LeaseHeld, Leased
  <2>5. CollectorAlone'
    BY <1>7 DEF CloseUnlink, CollectorAlone, Leased
  <2>. QED  BY <2>1, <2>2, <2>3, <2>4, <2>5
<1>8. ASSUME NEW b \in Builders, Crash(b)  PROVE Leases'
  <2>1. MarkerShown' /\ ProbeHeld'
    BY <1>8 DEF Crash, Forget, MarkerShown, ProbeHeld
  <2>2. GateHeld'
    BY <1>8, Zenon DEF Crash, Forget, GateHeld, Shape
  <2>3. ScanSound'
    BY <1>8 DEF Crash, Forget, ScanSound, Leased
  <2>4. TargetStale'
    BY <1>8 DEF Crash, Forget, TargetStale, Leased
  <2>5. LeaseHeld'
    BY <1>8, Zenon DEF Crash, Forget, LeaseHeld, Shape, Leased
  <2>6. CollectorAlone'
    BY <1>8 DEF Crash, Forget, CollectorAlone, Leased
  <2>. QED  BY <2>1, <2>2, <2>3, <2>4, <2>5, <2>6, Zenon
<1>9. ASSUME NEW dryRun \in BOOLEAN, CollectGate(dryRun)  PROVE Leases'
  <2>1. GateHeld' /\ MarkerShown' /\ ProbeHeld' /\ TargetStale'
       /\ LeaseHeld' /\ CollectorAlone'
    BY <1>9, Zenon DEF CollectGate, Markers, GateHeld, MarkerShown, ProbeHeld,
       TargetStale, LeaseHeld, CollectorAlone
  <2>2. ScanSound'
    BY <1>9, Zenon DEF CollectGate, Markers, ScanSound, LeaseHeld
  <2>. QED  BY <2>1, <2>2, Zenon
<1>10. ASSUME NEW b \in Builders, CollectVanished(b)  PROVE Leases'
  BY <1>10, Zenon DEF CollectVanished, EndCollection, GateHeld, MarkerShown, ProbeHeld,
     ScanSound, TargetStale, LeaseHeld, CollectorAlone
<1>11. ASSUME NEW b \in Builders, CollectSee(b)  PROVE Leases'
  BY <1>11, Zenon DEF CollectSee, GateHeld, MarkerShown, ProbeHeld, ScanSound, TargetStale,
     LeaseHeld, CollectorAlone
<1>12. ASSUME CollectProbe  PROVE Leases'
  <2>1. GateHeld' /\ MarkerShown' /\ ProbeHeld' /\ LeaseHeld' /\ CollectorAlone'
    BY <1>12, Zenon DEF CollectProbe, GateHeld, MarkerShown, ProbeHeld,
       LeaseHeld, CollectorAlone
  <2>2. ScanSound'
    BY <1>12, Zenon DEF CollectProbe, ScanSound, Shape, LeaseHeld
  <2>3. TargetStale'
    BY <1>12, Zenon DEF CollectProbe, TargetStale, LeaseHeld
  <2>. QED  BY <2>1, <2>2, <2>3, Zenon
<1>13. ASSUME CollectOpen  PROVE Leases'
  BY <1>13, Zenon DEF CollectOpen, GateHeld, MarkerShown, ProbeHeld, ScanSound, TargetStale,
     LeaseHeld, CollectorAlone
<1>14. ASSUME CollectUnlink  PROVE Leases'
  <2>1. GateHeld' /\ ProbeHeld' /\ TargetStale' /\ CollectorAlone'
    BY <1>14, Zenon DEF CollectUnlink, EndCollection, GateHeld, ProbeHeld, TargetStale,
       CollectorAlone
  <2>2. MarkerShown'
    BY <1>14, Zenon DEF CollectUnlink, EndCollection, MarkerShown, GateHeld
  <2>3. ScanSound'
    BY <1>14, Zenon DEF CollectUnlink, EndCollection, ScanSound, Shape
  <2>4. LeaseHeld'
    BY <1>14, Zenon DEF CollectUnlink, EndCollection, LeaseHeld, Shape, TargetStale
  <2>. QED  BY <2>1, <2>2, <2>3, <2>4, Zenon
<1>15. ASSUME CollectCount  PROVE Leases'
  <2>1. GateHeld' /\ MarkerShown' /\ ProbeHeld' /\ ScanSound'
       /\ TargetStale' /\ LeaseHeld'
    BY <1>15, Zenon DEF CollectCount, EndCollection, GateHeld, MarkerShown,
       ProbeHeld, ScanSound, TargetStale, LeaseHeld
  <2>2. CollectorAlone'
    BY <1>15 DEF CollectCount, EndCollection, CollectorAlone,
       GateHeld, ScanSound
  <2>. QED  BY <2>1, <2>2, Zenon
<1>16. ASSUME NEW k \in Keys, NEW old \in BOOLEAN, CollectRecord(k, old)  PROVE Leases'
  BY <1>16, Zenon DEF CollectRecord, CollectRecordAs, GateHeld, MarkerShown, ProbeHeld,
     ScanSound, TargetStale, LeaseHeld, CollectorAlone
<1>17. ASSUME CollectListBlobs  PROVE Leases'
  BY <1>17, Zenon DEF CollectListBlobs, GateHeld, MarkerShown, ProbeHeld, ScanSound,
     TargetStale, LeaseHeld, CollectorAlone
<1>18. ASSUME NEW d \in Digests, CollectBlob(d)  PROVE Leases'
  BY <1>18, Zenon DEF CollectBlob, GateHeld, MarkerShown, ProbeHeld, ScanSound, TargetStale,
     LeaseHeld, CollectorAlone
<1>19. ASSUME NEW old \in BOOLEAN, CollectHints(old)  PROVE Leases'
  BY <1>19, Zenon DEF CollectHints, EndCollection, GateHeld, MarkerShown, ProbeHeld,
     ScanSound, TargetStale, LeaseHeld, CollectorAlone
<1>20. ASSUME CollectorCrash  PROVE Leases'
  BY <1>20, Zenon DEF CollectorCrash, EndCollection, GateHeld, MarkerShown, ProbeHeld,
     ScanSound, TargetStale, LeaseHeld, CollectorAlone
<1>21. ASSUME Status  PROVE Leases'
  BY <1>21, Zenon DEF Status, Markers, GateHeld, MarkerShown, ProbeHeld, ScanSound,
     TargetStale, LeaseHeld, CollectorAlone
<1>22. ASSUME NEW b \in Builders, StatusVanished(b)  PROVE Leases'
  BY <1>22, Zenon DEF StatusVanished, GateHeld, MarkerShown, ProbeHeld, ScanSound,
     TargetStale, LeaseHeld, CollectorAlone
<1>23. ASSUME NEW b \in Builders, StatusSee(b)  PROVE Leases'
  BY <1>23, Zenon DEF StatusSee, GateHeld, MarkerShown, ProbeHeld, ScanSound, TargetStale,
     LeaseHeld, CollectorAlone
<1>24. ASSUME StatusProbe  PROVE Leases'
  <2>1. GateHeld' /\ MarkerShown' /\ ScanSound' /\ TargetStale' /\ CollectorAlone'
    BY <1>24, Zenon DEF StatusProbe, GateHeld, MarkerShown, ScanSound, TargetStale,
       CollectorAlone
  <2>2. ProbeHeld'
    BY <1>24, Zenon DEF StatusProbe, ProbeHeld, Shape
  <2>3. LeaseHeld'
    BY <1>24, Zenon DEF StatusProbe, LeaseHeld, Shape
  <2>. QED  BY <2>1, <2>2, <2>3, Zenon
<1>25. ASSUME StatusRelease  PROVE Leases'
  <2>1. GateHeld' /\ MarkerShown' /\ ProbeHeld' /\ ScanSound'
       /\ TargetStale' /\ CollectorAlone'
    BY <1>25, Zenon DEF StatusRelease, GateHeld, MarkerShown, ProbeHeld, ScanSound,
       TargetStale, CollectorAlone
  <2>2. LeaseHeld'
    BY <1>25 DEF StatusRelease, LeaseHeld, ProbeHeld
  <2>. QED  BY <2>1, <2>2, Zenon
<1>26. ASSUME StatusReturn  PROVE Leases'
  BY <1>26, Zenon DEF StatusReturn, GateHeld, MarkerShown, ProbeHeld, ScanSound, TargetStale,
     LeaseHeld, CollectorAlone
<1>27. CASE UNCHANGED vars
  BY <1>27, Zenon DEF vars, GateHeld, MarkerShown, ProbeHeld, ScanSound, TargetStale,
     LeaseHeld, CollectorAlone
<1>. HIDE DEF Leases, Goto, leaseVars, storeVars, localVars, buildVars, collectVars,
              inspectVars, histVars, Scanning
<1>. QED
  BY <1>1, <1>2, <1>3, <1>4, <1>5, <1>6, <1>7, <1>8, <1>9, <1>10, <1>11,
     <1>12, <1>13, <1>14, <1>15, <1>16, <1>17, <1>18, <1>19, <1>20, <1>21, <1>22,
     <1>23, <1>24, <1>25, <1>26, <1>27, Zenon
  DEF Next, Build, Collect, Report, Finished, Work

-----------------------------------------------------------------------------
(* Records and blobs *)

\* What a build under its lease does to the store: it forgets no blob that it
\* or another build relies on.
Careful(b) ==
  Known \subseteq Known' /\ RecordsComplete' /\ Held(b)'

\* Every step of a build inside its lease is careful in this sense; a withdrawn
\* blob stays known as withdrawn.
LEMMA WorkCareful ==
  ASSUME Shape, Store, NEW b \in Builders, Work(b)
  PROVE  Careful(b)
<1>. USE DEF Shape, Store, AllHeld, Goto, storeVars, localVars, histVars
<1>1. ASSUME NEW k \in Keys, Lookup(b, k)  PROVE Careful(b)
  BY <1>1, Zenon DEF Lookup, Careful, Known, RecordsComplete, Held, Holding
<1>2. CASE ProbeHit(b)
  BY <1>2 DEF ProbeHit, Inspect, Careful, Known, RecordsComplete, Held, Holding
<1>3. CASE Restore(b)
  BY <1>3 DEF Restore, Inspect, Careful, Known, RecordsComplete, Held, Holding
<1>4. ASSUME NEW outs \in SUBSET Digests, Stage(b, outs)  PROVE Careful(b)
  BY <1>4 DEF Stage, Careful, Known, RecordsComplete, Held,
     Holding
<1>5. CASE ProbeEqual(b)
  BY <1>5 DEF ProbeEqual, Inspect, Careful, Known, RecordsComplete, Held, Holding
<1>6. CASE Promote(b)
  BY <1>6, Zenon DEF Promote, Careful, Known, RecordsComplete, Held,
     Holding
<1>7. CASE Promoted(b)
  BY <1>7, Zenon DEF Promoted, Careful, Known, RecordsComplete, Held,
     Holding
<1>8. CASE Withdraw(b)
  BY <1>8, Zenon DEF Withdraw, Careful, Known, RecordsComplete, Held,
     Holding
<1>9. CASE Validate(b)
  BY <1>9 DEF Validate, Careful, Known, RecordsComplete, Held,
     Holding
<1>10. CASE ProbeStaged(b)
  BY <1>10 DEF ProbeStaged, Inspect, Careful, Known, RecordsComplete, Held, Holding
<1>11. CASE WriteRecord(b)
  BY <1>11 DEF WriteRecord, Careful, Known, RecordsComplete,
     Held, Holding
<1>12. CASE Written(b)
  BY <1>12, Zenon DEF Written, Careful, Known, RecordsComplete, Held,
     Holding
<1>13. CASE WithdrawRecord(b)
  BY <1>13, Zenon DEF WithdrawRecord, Careful, Known, RecordsComplete,
     Held, Holding
<1>14. CASE Reread(b)
  BY <1>14, Zenon DEF Reread, Careful, Known, RecordsComplete, Held,
     Holding
<1>15. CASE IndexLookup(b)
  BY <1>15, Zenon DEF IndexLookup, Careful, Known, RecordsComplete, Held,
     Holding
<1>16. CASE ProbeNamed(b)
  BY <1>16 DEF ProbeNamed, Inspect, Careful, Known, RecordsComplete, Held, Holding
<1>17. CASE IndexLock(b)
  BY <1>17, Zenon DEF IndexLock, IndexLockIf, Careful, Known, RecordsComplete, Held, Holding
<1>18. CASE IndexRead(b)
  BY <1>18, Zenon DEF IndexRead, Careful, Known, RecordsComplete, Held,
     Holding
<1>19. CASE IndexHide(b)
  BY <1>19, Zenon DEF IndexHide, Careful, Known, RecordsComplete, Held,
     Holding
<1>20. CASE IndexReplace(b)
  BY <1>20, Zenon DEF IndexReplace, Careful, Known, RecordsComplete, Held,
     Holding
<1>. HIDE DEF Shape, Store, AllHeld, Goto, storeVars, localVars, histVars
<1>. QED
  BY <1>1, <1>2, <1>3, <1>4, <1>5, <1>6, <1>7, <1>8, <1>9, <1>10, <1>11,
     <1>12, <1>13, <1>14, <1>15, <1>16, <1>17, <1>18, <1>19, <1>20, Zenon DEF Work

\* Its step keeps the invariant of the store: no collection is under way, and
\* what the other builds rely on is still there.
LEMMA InsideStore ==
  ASSUME Shape, Leases, Store, NEW b \in Builders, Inside(b), Careful(b)
  PROVE  Store'
<1>1. Retained'
  BY Zenon DEF Leases, CollectorAlone, Inside, Retained, collectVars
<1>2. AllHeld'
  <2>. SUFFICES ASSUME NEW c \in Builders \ {b}  PROVE Held(c)'
    BY Zenon DEF Careful, AllHeld
  <2>. QED  BY Zenon DEF Inside, Careful, Store, AllHeld, Held
<1>. QED  BY <1>1, <1>2, Zenon DEF Careful, Store

\* Leases, scans and collections: with no build inside a lease, what gc() removes
\* is named by no record.
LEMMA StoreStep ==
  ASSUME Shape, Leases, Store, [Next]_vars
  PROVE  Store'
<1>. USE DEF Store, Goto, leaseVars, storeVars, localVars, buildVars, collectVars,
             inspectVars, histVars
<1>1. ASSUME NEW b \in Builders, Work(b)  PROVE Store'
  BY <1>1, WorkInside, WorkCareful, InsideStore, Zenon
<1>2. ASSUME NEW b \in Builders, LeaseGate(b)  PROVE Store'
  <2>1. RecordsComplete' /\ Retained'
    BY <1>2, Zenon DEF LeaseGate, RecordsComplete, Retained
  <2>2. AllHeld'
    BY <1>2 DEF LeaseGate, AllHeld, Held, Known, Holding
  <2>. QED  BY <2>1, <2>2, Zenon
<1>3. ASSUME NEW b \in Builders, LeaseMark(b)  PROVE Store'
  <2>1. RecordsComplete' /\ Retained'
    BY <1>3, Zenon DEF LeaseMark, RecordsComplete, Retained
  <2>2. AllHeld'
    BY <1>3 DEF LeaseMark, AllHeld, Held, Known, Holding
  <2>. QED  BY <2>1, <2>2
<1>4. ASSUME NEW b \in Builders, LeaseLock(b)  PROVE Store'
  <2>1. RecordsComplete' /\ Retained'
    BY <1>4, Zenon DEF LeaseLock, LeaseLockIf, RecordsComplete, Retained
  <2>2. AllHeld'
    BY <1>4 DEF LeaseLock, LeaseLockIf, AllHeld, Held, Known, Shape, Holding
  <2>. QED  BY <2>1, <2>2
<1>5. ASSUME NEW b \in Builders, CloseUnlock(b)  PROVE Store'
  <2>1. RecordsComplete' /\ Retained'
    BY <1>5, Zenon DEF CloseUnlock, Forget, RecordsComplete, Retained
  <2>2. AllHeld'
    BY <1>5, Zenon DEF CloseUnlock, Forget, AllHeld, Held, Known, Shape
  <2>. QED  BY <2>1, <2>2
<1>6. ASSUME NEW b \in Builders, CloseOpen(b)  PROVE Store'
  <2>1. RecordsComplete' /\ Retained'
    BY <1>6, Zenon DEF CloseOpen, RecordsComplete, Retained
  <2>2. AllHeld'
    BY <1>6 DEF CloseOpen, AllHeld, Held, Known, Holding
  <2>. QED  BY <2>1, <2>2
<1>7. ASSUME NEW b \in Builders, CloseUnlink(b)  PROVE Store'
  <2>1. RecordsComplete' /\ Retained'
    BY <1>7, Zenon DEF CloseUnlink, RecordsComplete, Retained
  <2>2. AllHeld'
    BY <1>7 DEF CloseUnlink, AllHeld, Held, Known, Holding
  <2>. QED  BY <2>1, <2>2
<1>8. ASSUME NEW b \in Builders, Crash(b)  PROVE Store'
  <2>1. RecordsComplete' /\ Retained'
    BY <1>8, Zenon DEF Crash, Forget, RecordsComplete, Retained
  <2>2. AllHeld'
    BY <1>8, Zenon DEF Crash, Forget, AllHeld, Held, Known, Shape
  <2>. QED  BY <2>1, <2>2
<1>9. ASSUME NEW dryRun \in BOOLEAN, CollectGate(dryRun)  PROVE Store'
  BY <1>9, Zenon DEF CollectGate, RecordsComplete, Retained,
     AllHeld, Held, Known
<1>10. ASSUME NEW b \in Builders, CollectVanished(b)  PROVE Store'
  BY <1>10, Zenon DEF CollectVanished, EndCollection, RecordsComplete,
     Retained, AllHeld, Held, Known
<1>11. ASSUME NEW b \in Builders, CollectSee(b)  PROVE Store'
  BY <1>11, Zenon DEF CollectSee, RecordsComplete, Retained, AllHeld, Held,
     Known
<1>12. ASSUME CollectProbe  PROVE Store'
  BY <1>12, Zenon DEF CollectProbe, RecordsComplete,
     Retained, AllHeld, Held, Known
<1>13. ASSUME CollectOpen  PROVE Store'
  BY <1>13, Zenon DEF CollectOpen, RecordsComplete, Retained, AllHeld,
     Held, Known
<1>14. ASSUME CollectUnlink  PROVE Store'
  BY <1>14, Zenon DEF CollectUnlink, EndCollection, RecordsComplete,
     Retained, AllHeld, Held, Known
<1>15. ASSUME CollectCount  PROVE Store'
  BY <1>15, Zenon DEF CollectCount, EndCollection, RecordsComplete, Retained, AllHeld, Held, Known
<1>16. ASSUME NEW k \in Keys, NEW old \in BOOLEAN, CollectRecord(k, old)  PROVE Store'
  <2>1. RecordsComplete'
    BY <1>16 DEF CollectRecord, CollectRecordAs, RecordsComplete
  <2>2. AllHeld'
    BY <1>16, Zenon DEF CollectRecord, CollectRecordAs, AllHeld, Held, Known
  <2>3. Retained'
    BY <1>16, Zenon DEF CollectRecord, CollectRecordAs, Retained, Shape
  <2>. QED  BY <2>1, <2>2, <2>3, Zenon
<1>17. ASSUME CollectListBlobs  PROVE Store'
  BY <1>17, Zenon DEF CollectListBlobs, RecordsComplete, Retained, AllHeld,
     Held, Known
<1>18. ASSUME NEW d \in Digests, CollectBlob(d)  PROVE Store'
  <2>1. Retained'
    BY <1>18, Zenon DEF CollectBlob, Retained
  <2>2. RecordsComplete'
    BY <1>18, Zenon DEF CollectBlob, RecordsComplete, Retained
  <2>3. AllHeld'
    BY <1>18, Zenon DEF CollectBlob, AllHeld, Held, Known, Shape, Holding, Leased, Leases,
       CollectorAlone
  <2>. QED  BY <2>1, <2>2, <2>3, Zenon
<1>19. ASSUME NEW old \in BOOLEAN, CollectHints(old)  PROVE Store'
  BY <1>19, Zenon DEF CollectHints, EndCollection, RecordsComplete,
     Retained, AllHeld, Held, Known
<1>20. ASSUME CollectorCrash  PROVE Store'
  BY <1>20, Zenon DEF CollectorCrash, EndCollection, RecordsComplete,
     Retained, AllHeld, Held, Known
<1>21. ASSUME Status  PROVE Store'
  BY <1>21, Zenon DEF Status, RecordsComplete, Retained, AllHeld, Held,
     Known
<1>22. ASSUME NEW b \in Builders, StatusVanished(b)  PROVE Store'
  BY <1>22, Zenon DEF StatusVanished, RecordsComplete, Retained, AllHeld,
     Held, Known
<1>23. ASSUME NEW b \in Builders, StatusSee(b)  PROVE Store'
  BY <1>23, Zenon DEF StatusSee, RecordsComplete, Retained, AllHeld, Held,
     Known
<1>24. ASSUME StatusProbe  PROVE Store'
  BY <1>24, Zenon DEF StatusProbe, RecordsComplete, Retained, AllHeld,
     Held, Known
<1>25. ASSUME StatusRelease  PROVE Store'
  BY <1>25, Zenon DEF StatusRelease, RecordsComplete, Retained, AllHeld,
     Held, Known
<1>26. ASSUME StatusReturn  PROVE Store'
  BY <1>26, Zenon DEF StatusReturn, RecordsComplete, Retained, AllHeld,
     Held, Known
<1>27. CASE UNCHANGED vars
  BY <1>27, Zenon DEF vars, RecordsComplete, Retained, AllHeld,
     Held, Known
<1>. HIDE DEF Store, Goto, leaseVars, storeVars, localVars, buildVars, collectVars,
              inspectVars, histVars
<1>. QED
  BY <1>1, <1>2, <1>3, <1>4, <1>5, <1>6, <1>7, <1>8, <1>9, <1>10, <1>11,
     <1>12, <1>13, <1>14, <1>15, <1>16, <1>17, <1>18, <1>19, <1>20, <1>21, <1>22,
     <1>23, <1>24, <1>25, <1>26, <1>27, Zenon
  DEF Next, Build, Collect, Report, Finished, Work

-----------------------------------------------------------------------------
(* Theorems *)

\* The store starts empty.
LEMMA Initially == Init => IInv
<1>. SUFFICES ASSUME Init  PROVE IInv
  BY Zenon
<1>1. (CHOOSE k \in Keys : TRUE) \in Keys /\ (CHOOSE d \in Digests : TRUE) \in Digests
  BY ConstantsAssumption, Zenon DEF ConstantsAssumption
<1>2. Shape
  BY <1>1, Zenon DEF Init, Shape, BuilderLabels
<1>3. Leases
  BY Zenon DEF Init, Leases, GateHeld, MarkerShown, ProbeHeld, ScanSound, TargetStale, Scanning,
         LeaseHeld, CollectorAlone, Leased
<1>4. Store
  BY Zenon DEF Init, Store, RecordsComplete, Retained, AllHeld, Held, Holding
<1>. QED  BY <1>2, <1>3, <1>4, Zenon DEF IInv

\* Leases, store and types hold in every reachable state, for any number of
\* builds, collections, scans, crashes and I/O errors.
THEOREM Invariance == Spec => []IInv
<1>1. IInv /\ [Next]_vars => IInv'
  BY ShapeStep, LeasesStep, StoreStep, Zenon DEF IInv
<1>. QED  BY Initially, <1>1, PTL DEF Spec

\* lease, close, gc and status: a lease that is held keeps its marker and its lock.
THEOREM LeasesHeld == Spec => []LeaseHeld
<1>1. IInv => LeaseHeld
  BY Zenon DEF IInv, Leases
<1>. QED  BY Invariance, <1>1, PTL

\* lease and gc: nothing is removed while a build holds or takes a lease.
THEOREM CollectsAlone == Spec => []CollectorAlone
<1>1. IInv => CollectorAlone
  BY Zenon DEF IInv, Leases
<1>. QED  BY Invariance, <1>1, PTL

\* publish_record and gc: each blob that a record names is there, at any moment.
THEOREM RecordsAreComplete == Spec => []RecordsComplete
<1>1. IInv => RecordsComplete
  BY Zenon DEF IInv, Store
<1>. QED  BY Invariance, <1>1, PTL

-----------------------------------------------------------------------------
(* Operations on an index *)

Distinct(s) == \A i, j \in 1 .. Len(s) : s[i] = s[j] => i = j

Entries(s) == {s[i] : i \in 1 .. Len(s)}

\* A well-formed index: what _read_index accepts.
IsIndex(s) == s \in Seq(Keys) /\ Len(s) <= MaxHints /\ Distinct(s)

\* Leaving a key out of an index loses that key only.
LEMMA OthersOfIndex ==
  ASSUME NEW k \in Keys, NEW old, IsIndex(old)
  PROVE  /\ Others(k, old) \in Seq(Keys) /\ Distinct(Others(k, old))
         /\ Len(Others(k, old)) <= Len(old) /\ Len(old) <= Len(Others(k, old)) + 1
         /\ \A j \in 1 .. Len(Others(k, old)) : Others(k, old)[j] # k
         /\ Entries(old) \subseteq {k} \cup Entries(Others(k, old))
<1>1. CASE ~ \E i \in 1 .. Len(old) : old[i] = k
  BY <1>1 DEF Others, IsIndex, Entries
<1>2. CASE \E i \in 1 .. Len(old) : old[i] = k
  <2>. DEFINE i == CHOOSE j \in 1 .. Len(old) : old[j] = k
              head == SubSeq(old, 1, i - 1)
              tail == SubSeq(old, i + 1, Len(old))
              new == head \o tail
  <2>1. i \in 1 .. Len(old) /\ old[i] = k
    BY <1>2, Zenon
  <2>2. Others(k, old) = new
    BY <1>2, Zenon DEF Others
  <2>3. Len(old) \in Nat /\ i \in Int /\ \A j \in 1 .. Len(old) : old[j] \in Keys
    BY <2>1, ElementOfSeq, LenProperties DEF IsIndex
  <2>. HIDE DEF i
  <2>4. /\ head \in Seq(Keys) /\ Len(head) = i - 1
        /\ \A j \in 1 .. i - 1 : head[j] = old[j]
    <3>1. 1 \in Int /\ i - 1 \in Int /\ \A j \in 1 .. i - 1 : old[j] \in Keys
      BY <2>1, <2>3
    <3>2. /\ head \in Seq(Keys) /\ Len(head) = IF 1 <= i - 1 THEN (i - 1) - 1 + 1 ELSE 0
          /\ \A j \in 1 .. (i - 1) - 1 + 1 : head[j] = old[1 + j - 1]
      BY <3>1, SubSeqProperties
    <3>. QED  BY <2>1, <2>3, <3>2
  <2>5. /\ tail \in Seq(Keys) /\ Len(tail) = Len(old) - i
        /\ \A j \in 1 .. Len(old) - i : tail[j] = old[i + j]
    <3>1. i + 1 \in Int /\ Len(old) \in Int /\ \A j \in i + 1 .. Len(old) : old[j] \in Keys
      BY <2>1, <2>3
    <3>2. /\ tail \in Seq(Keys)
          /\ Len(tail) = IF i + 1 <= Len(old) THEN Len(old) - (i + 1) + 1 ELSE 0
          /\ \A j \in 1 .. Len(old) - (i + 1) + 1 : tail[j] = old[(i + 1) + j - 1]
      BY <3>1, SubSeqProperties
    <3>. QED  BY <2>1, <2>3, <3>2
  <2>. HIDE DEF head, tail
  <2>6. /\ new \in Seq(Keys) /\ Len(new) = Len(old) - 1
        /\ \A j \in 1 .. Len(old) - 1 : new[j] = old[IF j < i THEN j ELSE j + 1]
    <3>1. /\ new \in Seq(Keys) /\ Len(new) = Len(head) + Len(tail)
          /\ \A j \in 1 .. Len(head) + Len(tail) :
               new[j] = IF j <= Len(head) THEN head[j] ELSE tail[j - Len(head)]
      BY <2>4, <2>5, ConcatProperties, Zenon
    <3>. HIDE DEF new
    <3>2. Len(new) = Len(old) - 1
      BY <3>1, <2>3, <2>4, <2>5
    <3>. SUFFICES ASSUME NEW j \in 1 .. Len(old) - 1
                  PROVE  new[j] = old[IF j < i THEN j ELSE j + 1]
      BY <3>1, <3>2, Zenon
    <3>3. CASE j < i
      <4>1. j \in 1 .. Len(head) + Len(tail) /\ j <= Len(head) /\ j \in 1 .. i - 1
        BY <3>3, <2>1, <2>3, <2>4, <2>5
      <4>. QED  BY <3>1, <3>3, <4>1, <2>4, Zenon
    <3>4. CASE ~ j < i
      <4>1. new[j] = tail[j - (i - 1)] /\ j - (i - 1) \in 1 .. Len(old) - i
        BY <3>1, <3>4, <2>1, <2>3, <2>4, <2>5
      <4>2. tail[j - (i - 1)] = old[i + (j - (i - 1))] /\ i + (j - (i - 1)) = j + 1
        BY <4>1, <2>1, <2>3, <2>5
      <4>. QED  BY <3>4, <4>1, <4>2, Zenon
    <3>. QED  BY <3>3, <3>4, Zenon
  <2>. HIDE DEF new
  <2>. DEFINE place(j) == IF j < i THEN j ELSE j + 1
  <2>p. \A j \in 1 .. Len(new) : place(j) \in 1 .. Len(old) /\ place(j) # i /\ new[j] = old[place(j)]
    BY <2>1, <2>3, <2>6
  <2>d. \A j, m \in 1 .. Len(old) : old[j] = old[m] => j = m
    BY Zenon DEF IsIndex, Distinct
  <2>7. Distinct(new)
    <3>. SUFFICES ASSUME NEW j \in 1 .. Len(new), NEW m \in 1 .. Len(new), new[j] = new[m]
                  PROVE  j = m
      BY Zenon DEF Distinct
    <3>1. place(j) = place(m)
      <4>. HIDE DEF place
      <4>. QED  BY <2>p, <2>d, Zenon
    <3>. QED  BY <3>1, <2>1, <2>3, <2>6
  <2>8. \A j \in 1 .. Len(new) : new[j] # k
    <3>. HIDE DEF place
    <3>. QED  BY <2>1, <2>p, <2>d, Zenon
  <2>9. Entries(old) \subseteq {k} \cup Entries(new)
    <3>. SUFFICES ASSUME NEW j \in 1 .. Len(old), j # i  PROVE \E m \in 1 .. Len(new) : new[m] = old[j]
      BY <2>1, Zenon DEF Entries
    <3>1. CASE j < i
      BY <3>1, <2>1, <2>3, <2>6
    <3>2. CASE j > i
      <4>1. j - 1 \in 1 .. Len(new) /\ new[j - 1] = old[j]
        BY <3>2, <2>1, <2>3, <2>6
      <4>. QED  BY <4>1, Zenon
    <3>. QED  BY <3>1, <3>2, <2>1, <2>3
  <2>. QED  BY <2>2, <2>3, <2>6, <2>7, <2>8, <2>9
<1>. QED  BY <1>1, <1>2, Zenon

\* index_record writes a well-formed index that starts with the new key and,
\* while there is room, keeps every key that was there.
LEMMA RememberIndex ==
  ASSUME NEW k \in Keys, NEW old, IsIndex(old)
  PROVE  /\ IsIndex(Remember(k, old))
         /\ k \in Entries(Remember(k, old))
         /\ Len(Remember(k, old)) < MaxHints =>
              Len(old) < MaxHints /\ Entries(old) \subseteq Entries(Remember(k, old))
<1>. DEFINE rest == Others(k, old)
            new == <<k>> \o rest
            n == IF Len(new) < MaxHints THEN Len(new) ELSE MaxHints
            cut == SubSeq(new, 1, n)
<1>1. /\ rest \in Seq(Keys) /\ Distinct(rest) /\ Len(rest) \in Nat /\ Len(old) \in Nat
      /\ Len(rest) <= Len(old) /\ Len(old) <= Len(rest) + 1
      /\ \A j \in 1 .. Len(rest) : rest[j] # k
      /\ Entries(old) \subseteq {k} \cup Entries(rest)
  BY OthersOfIndex, LenProperties, Zenon DEF IsIndex
<1>2. Remember(k, old) = cut
  BY Zenon DEF Remember
<1>3. MaxHints \in Nat /\ MaxHints > 0
  BY ConstantsAssumption DEF ConstantsAssumption
<1>. HIDE DEF rest
<1>4. /\ new \in Seq(Keys) /\ Len(new) = Len(rest) + 1 /\ new[1] = k
      /\ \A j \in 1 .. Len(rest) : new[j + 1] = rest[j]
  <2>1. <<k>> \in Seq(Keys) /\ Len(<<k>>) = 1 /\ <<k>>[1] = k
    OBVIOUS
  <2>2. /\ new \in Seq(Keys) /\ Len(new) = 1 + Len(rest)
        /\ \A i \in 1 .. 1 + Len(rest) : new[i] = IF i <= 1 THEN <<k>>[i] ELSE rest[i - 1]
    BY <1>1, <2>1, ConcatProperties
  <2>. HIDE DEF new
  <2>. QED  BY <1>1, <2>1, <2>2
<1>. HIDE DEF new
<1>5. n \in Nat /\ n <= MaxHints /\ n <= Len(new) /\ n > 0
      /\ (n < MaxHints => n = Len(new))
  BY <1>1, <1>3, <1>4
<1>. HIDE DEF n
<1>6. /\ cut \in Seq(Keys) /\ Len(cut) = n
      /\ \A j \in 1 .. n : cut[j] = new[j]
  <2>1. 1 \in Int /\ n \in Int /\ \A j \in 1 .. n : new[j] \in Keys
    BY <1>1, <1>4, <1>5, ElementOfSeq
  <2>2. /\ cut \in Seq(Keys) /\ Len(cut) = IF 1 <= n THEN n - 1 + 1 ELSE 0
        /\ \A j \in 1 .. n - 1 + 1 : cut[j] = new[1 + j - 1]
    BY <2>1, SubSeqProperties
  <2>. QED  BY <1>5, <2>2
<1>. HIDE DEF cut
<1>7. Distinct(new)
  <2>. SUFFICES ASSUME NEW i \in 1 .. Len(new), NEW j \in 1 .. Len(new), new[i] = new[j], i < j
                PROVE  FALSE
    BY <1>1, <1>4 DEF Distinct
  <2>1. j - 1 \in 1 .. Len(rest) /\ new[j] = rest[j - 1]
    BY <1>1, <1>4
  <2>2. CASE i = 1
    BY <2>1, <2>2, <1>1, <1>4, Zenon
  <2>3. CASE i # 1
    <3>1. i - 1 \in 1 .. Len(rest) /\ new[i] = rest[i - 1]
      BY <1>1, <1>4, <2>3
    <3>2. i - 1 = j - 1
      BY <3>1, <2>1, <1>1, Zenon DEF Distinct
    <3>. QED  BY <3>2
  <2>. QED  BY <2>2, <2>3, Zenon
<1>8. IsIndex(cut)
  BY <1>4, <1>5, <1>6, <1>7, <1>1 DEF IsIndex, Distinct
<1>9. k \in Entries(cut)
  BY <1>4, <1>5, <1>6 DEF Entries
<1>10. ASSUME Len(cut) < MaxHints
       PROVE  Len(old) < MaxHints /\ Entries(old) \subseteq Entries(cut)
  <2>1. n = Len(new) /\ Len(old) < MaxHints
    BY <1>1, <1>3, <1>4, <1>5, <1>6, <1>10
  <2>2. Entries(rest) \subseteq Entries(cut)
    <3>. SUFFICES ASSUME NEW j \in 1 .. Len(rest)  PROVE rest[j] \in Entries(cut)
      BY Zenon DEF Entries
    <3>1. j + 1 \in 1 .. n /\ cut[j + 1] = rest[j]
      BY <1>1, <1>4, <1>6, <2>1
    <3>. QED  BY <3>1, <1>6, Zenon DEF Entries
  <2>. QED  BY <2>1, <2>2, <1>1, <1>9, Zenon
<1>. QED  BY <1>2, <1>8, <1>9, <1>10, Zenon

-----------------------------------------------------------------------------
(* Work lists *)

\* The types of the variables that Shape leaves out.
Kinds ==
  /\ gate \in Builders \cup {Collector, None} /\ blobs \in SUBSET Digests
  /\ hintLock \in Builders \cup {None} /\ work \in [Builders -> 0 .. MaxWork]
  /\ cpc \in {"idle", "leases", "probe", "stale", "unlink", "records", "blobs"}
  /\ todo \in (SUBSET Builders) \cup (SUBSET Keys) \cup (SUBSET Digests)
  /\ at \in Builders \cup {None} /\ kept \in SUBSET Digests
  /\ collections \in 0 .. MaxCollections
  /\ ipc \in {"idle", "leases", "probe", "held"} /\ listed \in SUBSET Builders
  /\ probed \in Builders \cup {None} /\ scans \in 0 .. MaxScans
  /\ faults \in 0 .. MaxFaults
  /\ withdrawn \in SUBSET Digests /\ hinted \in SUBSET Keys

\* The collector's worklist may hold keys or digests.
LEMMA Worklist ==
  ASSUME NEW S, S \in SUBSET Keys \/ S \in SUBSET Digests
  PROVE  S \in (SUBSET Builders) \cup (SUBSET Keys) \cup (SUBSET Digests)
<1>1. CASE S \in SUBSET Keys
  BY <1>1, Zenon
<1>2. CASE S \in SUBSET Digests
  BY <1>2, Zenon
<1>. QED  BY <1>1, <1>2, Zenon

\* Every step keeps the other variables typed.
LEMMA KindsStep ==
  ASSUME Shape, Kinds, [Next]_vars
  PROVE  Kinds'
<1>. USE ConstantsAssumption
     DEF ConstantsAssumption, Kinds, Goto, leaseVars, storeVars, localVars, buildVars, collectVars, inspectVars, histVars
<1>1. ASSUME NEW b \in Builders, NEW k \in Keys, Lookup(b, k)  PROVE Kinds'
  BY <1>1 DEF Lookup
<1>2. ASSUME NEW b \in Builders, ProbeHit(b)  PROVE Kinds'
  BY <1>2, Zenon DEF ProbeHit, Inspect
<1>3. ASSUME NEW b \in Builders, Restore(b)  PROVE Kinds'
  BY <1>3, Zenon DEF Restore, Inspect
<1>4. ASSUME NEW b \in Builders, NEW outs \in SUBSET Digests, Stage(b, outs)  PROVE Kinds'
  BY <1>4, Zenon DEF Stage
<1>5. ASSUME NEW b \in Builders, ProbeEqual(b)  PROVE Kinds'
  BY <1>5, Zenon DEF ProbeEqual, Inspect
<1>6. ASSUME NEW b \in Builders, Promote(b)  PROVE Kinds'
  BY <1>6 DEF Promote, Shape
<1>7. ASSUME NEW b \in Builders, Promoted(b)  PROVE Kinds'
  BY <1>7 DEF Promoted
<1>8. ASSUME NEW b \in Builders, Withdraw(b)  PROVE Kinds'
  BY <1>8 DEF Withdraw, Shape
<1>9. ASSUME NEW b \in Builders, Validate(b)  PROVE Kinds'
  BY <1>9 DEF Validate
<1>10. ASSUME NEW b \in Builders, ProbeStaged(b)  PROVE Kinds'
  BY <1>10, Zenon DEF ProbeStaged, Inspect
<1>11. ASSUME NEW b \in Builders, WriteRecord(b)  PROVE Kinds'
  BY <1>11, Zenon DEF WriteRecord
<1>12. ASSUME NEW b \in Builders, Written(b)  PROVE Kinds'
  BY <1>12 DEF Written
<1>13. ASSUME NEW b \in Builders, WithdrawRecord(b)  PROVE Kinds'
  BY <1>13 DEF WithdrawRecord
<1>14. ASSUME NEW b \in Builders, Reread(b)  PROVE Kinds'
  BY <1>14 DEF Reread
<1>15. ASSUME NEW b \in Builders, IndexLookup(b)  PROVE Kinds'
  BY <1>15 DEF IndexLookup
<1>16. ASSUME NEW b \in Builders, ProbeNamed(b)  PROVE Kinds'
  BY <1>16, Zenon DEF ProbeNamed, Inspect
<1>17. ASSUME NEW b \in Builders, IndexLock(b)  PROVE Kinds'
  BY <1>17 DEF IndexLock, IndexLockIf
<1>18. ASSUME NEW b \in Builders, IndexRead(b)  PROVE Kinds'
  BY <1>18 DEF IndexRead
<1>19. ASSUME NEW b \in Builders, IndexHide(b)  PROVE Kinds'
  BY <1>19 DEF IndexHide
<1>20. ASSUME NEW b \in Builders, IndexReplace(b)  PROVE Kinds'
  BY <1>20 DEF IndexReplace, Shape
<1>21. ASSUME NEW b \in Builders, LeaseGate(b)  PROVE Kinds'
  BY <1>21, Zenon DEF LeaseGate
<1>22. ASSUME NEW b \in Builders, LeaseMark(b)  PROVE Kinds'
  BY <1>22 DEF LeaseMark
<1>23. ASSUME NEW b \in Builders, LeaseLock(b)  PROVE Kinds'
  <2>1. gate' \in Builders \cup {Collector, None}
    BY <1>23, Zenon DEF LeaseLock, LeaseLockIf
  <2>. QED  BY <1>23, <2>1, Zenon DEF LeaseLock, LeaseLockIf
<1>24. ASSUME NEW b \in Builders, CloseUnlock(b)  PROVE Kinds'
  BY <1>24 DEF CloseUnlock, Forget
<1>25. ASSUME NEW b \in Builders, CloseOpen(b)  PROVE Kinds'
  BY <1>25 DEF CloseOpen
<1>26. ASSUME NEW b \in Builders, CloseUnlink(b)  PROVE Kinds'
  BY <1>26 DEF CloseUnlink
<1>27. ASSUME NEW b \in Builders, Crash(b)  PROVE Kinds'
  BY <1>27 DEF Crash, Forget
<1>28. ASSUME NEW dryRun \in BOOLEAN, CollectGate(dryRun)  PROVE Kinds'
  BY <1>28 DEF CollectGate, Markers
<1>29. ASSUME NEW b \in Builders, CollectVanished(b)  PROVE Kinds'
  BY <1>29, Zenon DEF CollectVanished, EndCollection
<1>30. ASSUME NEW b \in Builders, CollectSee(b)  PROVE Kinds'
  BY <1>30, Zenon DEF CollectSee
<1>31. ASSUME CollectProbe  PROVE Kinds'
  BY <1>31, Zenon DEF CollectProbe
<1>32. ASSUME CollectOpen  PROVE Kinds'
  BY <1>32, Zenon DEF CollectOpen
<1>33. ASSUME CollectUnlink  PROVE Kinds'
  BY <1>33, Zenon DEF CollectUnlink, EndCollection
<1>34. ASSUME CollectCount  PROVE Kinds'
  <2>1. todo' \in SUBSET Keys
    BY <1>34, Zenon DEF CollectCount, EndCollection
  <2>2. todo' \in (SUBSET Builders) \cup (SUBSET Keys) \cup (SUBSET Digests)
    BY <2>1, Worklist, Zenon
  <2>. QED  BY <1>34, <2>2, Zenon DEF CollectCount, EndCollection
<1>35. ASSUME NEW k \in Keys, NEW old \in BOOLEAN, CollectRecord(k, old)  PROVE Kinds'
  BY <1>35, Zenon DEF CollectRecord, CollectRecordAs, Shape
<1>36. ASSUME CollectListBlobs  PROVE Kinds'
  <2>1. todo' \in SUBSET Digests
    BY <1>36, Zenon DEF CollectListBlobs
  <2>2. todo' \in (SUBSET Builders) \cup (SUBSET Keys) \cup (SUBSET Digests)
    BY <2>1, Worklist, Zenon
  <2>. QED  BY <1>36, <2>2, Zenon DEF CollectListBlobs
<1>37. ASSUME NEW d \in Digests, CollectBlob(d)  PROVE Kinds'
  BY <1>37, Zenon DEF CollectBlob
<1>38. ASSUME NEW old \in BOOLEAN, CollectHints(old)  PROVE Kinds'
  BY <1>38, Zenon DEF CollectHints, EndCollection
<1>39. ASSUME CollectorCrash  PROVE Kinds'
  BY <1>39 DEF CollectorCrash, EndCollection
<1>40. ASSUME Status  PROVE Kinds'
  BY <1>40 DEF Status, Markers
<1>41. ASSUME NEW b \in Builders, StatusVanished(b)  PROVE Kinds'
  BY <1>41, Zenon DEF StatusVanished
<1>42. ASSUME NEW b \in Builders, StatusSee(b)  PROVE Kinds'
  BY <1>42, Zenon DEF StatusSee
<1>43. ASSUME StatusProbe  PROVE Kinds'
  BY <1>43 DEF StatusProbe
<1>44. ASSUME StatusRelease  PROVE Kinds'
  BY <1>44, Zenon DEF StatusRelease
<1>45. ASSUME StatusReturn  PROVE Kinds'
  BY <1>45, Zenon DEF StatusReturn
<1>46. CASE UNCHANGED vars
  BY <1>46 DEF vars
<1>. HIDE DEF ConstantsAssumption, Kinds, Goto, leaseVars, storeVars, localVars, buildVars, collectVars, inspectVars, histVars
<1>. QED
  BY <1>1, <1>2, <1>3, <1>4, <1>5, <1>6, <1>7, <1>8, <1>9, <1>10, <1>11, <1>12,
     <1>13, <1>14, <1>15, <1>16, <1>17, <1>18, <1>19, <1>20, <1>21, <1>22, <1>23,
     <1>24, <1>25, <1>26, <1>27, <1>28, <1>29, <1>30, <1>31, <1>32, <1>33, <1>34,
     <1>35, <1>36, <1>37, <1>38, <1>39, <1>40, <1>41, <1>42, <1>43, <1>44, <1>45,
     <1>46, Zenon
  DEF Next, Build, Collect, Report, Finished

-----------------------------------------------------------------------------
(* The key index *)

\* Where the lock of the index is held.
Listing == {"indexing", "indexed", "hidden"}

IndexTyped == seen \in [Builders -> Seq(Keys)] /\ IsIndex(hints) /\ \A b \in Builders : IsIndex(seen[b])

\* Who works on the index has its lock, and what it read is still there.
IndexLocked ==
  \A b \in Builders :
    /\ bpc[b] \in Listing => hintLock = b
    /\ bpc[b] = "indexed" => seen[b] = hints

Covers(s) == Len(s) < MaxHints => hinted \subseteq Entries(s)

\* What was remembered is in the file or, while that is hidden, with the writer.
IndexCovers ==
  /\ \A b \in Builders : bpc[b] = "hidden" => Covers(seen[b])
  /\ (\A b \in Builders : bpc[b] # "hidden") => Covers(hints)

Index == IndexTyped /\ IndexLocked /\ IndexCovers

\* A step that leaves the index and those who work on it alone.
Aside ==
  /\ UNCHANGED <<hints, hintLock, hinted, seen>>
  /\ \A c \in Builders : bpc'[c] = bpc[c] \/ (bpc[c] \notin Listing /\ bpc'[c] \notin Listing)

\* An empty index is well formed and covers nothing.
LEMMA NoIndex == IsIndex(<<>>)
<1>. <<>> \in Seq(Keys) /\ Len(<<>>) = 0
  OBVIOUS
<1>. QED  BY ConstantsAssumption DEF ConstantsAssumption, IsIndex, Distinct

\* Such a step keeps what is known of the index.
LEMMA AsideKeeps ==
  ASSUME Index, Aside
  PROVE  Index'
<1>1. IndexTyped'
  BY Zenon DEF Index, IndexTyped, Aside, IsIndex, Distinct
<1>2. \A c \in Builders : (bpc'[c] = "hidden" <=> bpc[c] = "hidden")
                         /\ (bpc'[c] \in Listing => bpc'[c] = bpc[c])
  BY Zenon DEF Aside, Listing
<1>3. IndexLocked'
  BY <1>2, Zenon DEF Index, IndexLocked, Aside, Listing
<1>4. IndexCovers'
  BY <1>2 DEF Index, IndexCovers, Covers, Entries, Aside
<1>. QED  BY <1>1, <1>3, <1>4, Zenon DEF Index

\* Every step but those of index_record, close, a crash and the end of gc().
LEMMA StepsAside ==
  ASSUME Shape, [Next]_vars
  PROVE  \/ Aside
         \/ \E b \in Builders : IndexLock(b) \/ IndexRead(b) \/ IndexHide(b) \/ IndexReplace(b)
                              \/ CloseUnlock(b) \/ Crash(b)
         \/ \E old \in BOOLEAN : CollectHints(old)
<1>. USE DEF Shape, Aside, Listing, Goto, leaseVars, storeVars, localVars, buildVars, collectVars, inspectVars,
         histVars
<1>1. ASSUME NEW b \in Builders, NEW k \in Keys, Lookup(b, k)  PROVE Aside
  BY <1>1, Zenon DEF Lookup
<1>2. ASSUME NEW b \in Builders, ProbeHit(b)  PROVE Aside
  BY <1>2, Zenon DEF ProbeHit, Inspect
<1>3. ASSUME NEW b \in Builders, Restore(b)  PROVE Aside
  BY <1>3, Zenon DEF Restore, Inspect
<1>4. ASSUME NEW b \in Builders, NEW outs \in SUBSET Digests, Stage(b, outs)  PROVE Aside
  BY <1>4, Zenon DEF Stage
<1>5. ASSUME NEW b \in Builders, ProbeEqual(b)  PROVE Aside
  BY <1>5, Zenon DEF ProbeEqual, Inspect
<1>6. ASSUME NEW b \in Builders, Promote(b)  PROVE Aside
  BY <1>6, Zenon DEF Promote
<1>7. ASSUME NEW b \in Builders, Promoted(b)  PROVE Aside
  BY <1>7, Zenon DEF Promoted
<1>8. ASSUME NEW b \in Builders, Withdraw(b)  PROVE Aside
  BY <1>8, Zenon DEF Withdraw
<1>9. ASSUME NEW b \in Builders, Validate(b)  PROVE Aside
  BY <1>9, Zenon DEF Validate
<1>10. ASSUME NEW b \in Builders, ProbeStaged(b)  PROVE Aside
  BY <1>10, Zenon DEF ProbeStaged, Inspect
<1>11. ASSUME NEW b \in Builders, WriteRecord(b)  PROVE Aside
  BY <1>11, Zenon DEF WriteRecord
<1>12. ASSUME NEW b \in Builders, Written(b)  PROVE Aside
  BY <1>12, Zenon DEF Written
<1>13. ASSUME NEW b \in Builders, WithdrawRecord(b)  PROVE Aside
  BY <1>13, Zenon DEF WithdrawRecord
<1>14. ASSUME NEW b \in Builders, Reread(b)  PROVE Aside
  BY <1>14, Zenon DEF Reread
<1>15. ASSUME NEW b \in Builders, IndexLookup(b)  PROVE Aside
  BY <1>15, Zenon DEF IndexLookup
<1>16. ASSUME NEW b \in Builders, ProbeNamed(b)  PROVE Aside
  BY <1>16, Zenon DEF ProbeNamed, Inspect
<1>17. ASSUME NEW b \in Builders, LeaseGate(b)  PROVE Aside
  BY <1>17, Zenon DEF LeaseGate
<1>18. ASSUME NEW b \in Builders, LeaseMark(b)  PROVE Aside
  BY <1>18, Zenon DEF LeaseMark
<1>19. ASSUME NEW b \in Builders, LeaseLock(b)  PROVE Aside
  BY <1>19, Zenon DEF LeaseLock, LeaseLockIf
<1>20. ASSUME NEW b \in Builders, CloseOpen(b)  PROVE Aside
  BY <1>20, Zenon DEF CloseOpen
<1>21. ASSUME NEW b \in Builders, CloseUnlink(b)  PROVE Aside
  BY <1>21, Zenon DEF CloseUnlink
<1>22. ASSUME NEW dryRun \in BOOLEAN, CollectGate(dryRun)  PROVE Aside
  BY <1>22, Zenon DEF CollectGate, Markers
<1>23. ASSUME NEW b \in Builders, CollectVanished(b)  PROVE Aside
  BY <1>23, Zenon DEF CollectVanished, EndCollection
<1>24. ASSUME NEW b \in Builders, CollectSee(b)  PROVE Aside
  BY <1>24, Zenon DEF CollectSee
<1>25. ASSUME CollectProbe  PROVE Aside
  BY <1>25, Zenon DEF CollectProbe
<1>26. ASSUME CollectOpen  PROVE Aside
  BY <1>26, Zenon DEF CollectOpen
<1>27. ASSUME CollectUnlink  PROVE Aside
  BY <1>27, Zenon DEF CollectUnlink, EndCollection
<1>28. ASSUME CollectCount  PROVE Aside
  BY <1>28, Zenon DEF CollectCount, EndCollection
<1>29. ASSUME NEW k \in Keys, NEW old \in BOOLEAN, CollectRecord(k, old)  PROVE Aside
  BY <1>29, Zenon DEF CollectRecord, CollectRecordAs
<1>30. ASSUME CollectListBlobs  PROVE Aside
  BY <1>30, Zenon DEF CollectListBlobs
<1>31. ASSUME NEW d \in Digests, CollectBlob(d)  PROVE Aside
  BY <1>31, Zenon DEF CollectBlob
<1>32. ASSUME CollectorCrash  PROVE Aside
  BY <1>32, Zenon DEF CollectorCrash, EndCollection
<1>33. ASSUME Status  PROVE Aside
  BY <1>33, Zenon DEF Status, Markers
<1>34. ASSUME NEW b \in Builders, StatusVanished(b)  PROVE Aside
  BY <1>34, Zenon DEF StatusVanished
<1>35. ASSUME NEW b \in Builders, StatusSee(b)  PROVE Aside
  BY <1>35, Zenon DEF StatusSee
<1>36. ASSUME StatusProbe  PROVE Aside
  BY <1>36, Zenon DEF StatusProbe
<1>37. ASSUME StatusRelease  PROVE Aside
  BY <1>37, Zenon DEF StatusRelease
<1>38. ASSUME StatusReturn  PROVE Aside
  BY <1>38, Zenon DEF StatusReturn
<1>39. CASE UNCHANGED vars
  BY <1>39, Zenon DEF vars
<1>. HIDE DEF Shape, Aside, Listing, Goto, leaseVars, storeVars, localVars, buildVars, collectVars, inspectVars,
         histVars
<1>. QED
  BY <1>1, <1>2, <1>3, <1>4, <1>5, <1>6, <1>7, <1>8, <1>9, <1>10, <1>11, <1>12,
     <1>13, <1>14, <1>15, <1>16, <1>17, <1>18, <1>19, <1>20, <1>21, <1>22, <1>23,
     <1>24, <1>25, <1>26, <1>27, <1>28, <1>29, <1>30, <1>31, <1>32, <1>33, <1>34,
     <1>35, <1>36, <1>37, <1>38, <1>39, Zenon
  DEF Next, Build, Collect, Report, Finished

\* index_record, close, a crash and gc() keep it too.
LEMMA IndexStep ==
  ASSUME Shape, Leases, Index, [Next]_vars
  PROVE  Index'
<1>. USE DEF Goto
<1>0. CASE Aside
  BY <1>0, AsideKeeps, Zenon
<1>1. ASSUME NEW b \in Builders, IndexLock(b)  PROVE Index'
  <2>1. UNCHANGED <<hints, seen, hinted>> /\ hintLock = None /\ hintLock' = b
        /\ bpc[b] = "waiting" /\ bpc' = [bpc EXCEPT ![b] = "indexing"]
    BY <1>1, Zenon DEF IndexLock, IndexLockIf, localVars, histVars
  <2>2. IndexTyped'
    BY <2>1, Zenon DEF Index, IndexTyped, IsIndex, Distinct
  <2>3. IndexLocked'
    BY <2>1, ConstantsAssumption, Zenon DEF ConstantsAssumption, Shape, Index, IndexLocked, Listing
  <2>4. \A c \in Builders : bpc'[c] = "hidden" <=> bpc[c] = "hidden"
    BY <2>1, Zenon DEF Shape
  <2>5. IndexCovers'
    BY <2>1, <2>4 DEF Index, IndexCovers, Covers, Entries
  <2>. QED  BY <2>2, <2>3, <2>5, Zenon DEF Index
<1>2. ASSUME NEW b \in Builders, IndexRead(b)  PROVE Index'
  <2>1. UNCHANGED <<hints, hintLock, hinted>> /\ seen' = [seen EXCEPT ![b] = hints]
        /\ bpc[b] = "indexing" /\ bpc' = [bpc EXCEPT ![b] = "indexed"]
    BY <1>2, Zenon DEF IndexRead, storeVars, histVars
  <2>2. IndexTyped'
    BY <2>1 DEF Index, IndexTyped, IsIndex, Distinct
  <2>3. IndexLocked'
    BY <2>1, Zenon DEF Shape, Index, IndexTyped, IndexLocked, Listing
  <2>4. \A c \in Builders : /\ bpc'[c] = "hidden" <=> bpc[c] = "hidden"
                            /\ bpc'[c] = "hidden" => seen'[c] = seen[c]
    BY <2>1, Zenon DEF Shape, Index, IndexTyped
  <2>5. IndexCovers'
    BY <2>1, <2>4 DEF Index, IndexCovers, Covers, Entries
  <2>. QED  BY <2>2, <2>3, <2>5 DEF Index
<1>3. ASSUME NEW b \in Builders, IndexHide(b)  PROVE Index'
  <2>1. UNCHANGED <<seen, hintLock, hinted>> /\ hints' = <<>>
        /\ bpc[b] = "indexed" /\ bpc' = [bpc EXCEPT ![b] = "hidden"]
    BY <1>3, Zenon DEF IndexHide, localVars, histVars
  <2>2. IndexTyped'
    BY <2>1, NoIndex, Zenon DEF Index, IndexTyped, IsIndex, Distinct
  <2>3. \A c \in Builders : bpc[c] \in Listing => c = b
    BY <2>1, Zenon DEF Index, IndexLocked, Listing
  <2>4. IndexLocked'
    BY <2>1, <2>3, Zenon DEF Shape, Index, IndexLocked, Listing
  <2>5. Covers(seen[b])
    BY <2>1, <2>3, Zenon DEF Index, IndexLocked, IndexCovers, Listing
  <2>6. IndexCovers'
    BY <2>1, <2>3, <2>5 DEF Shape, Listing, IndexCovers, Covers, Entries
  <2>. QED  BY <2>2, <2>4, <2>6 DEF Index
<1>4. ASSUME NEW b \in Builders, IndexReplace(b)  PROVE Index'
  <2>1. hints' = Remember(key[b], seen[b]) /\ seen' = [seen EXCEPT ![b] = <<>>]
        /\ hintLock' = None /\ hinted' = hinted \cup {key[b]}
        /\ bpc[b] = "hidden" /\ bpc' = [bpc EXCEPT ![b] = "open"]
    BY <1>4, Zenon DEF IndexReplace
  <2>2. key[b] \in Keys /\ IsIndex(seen[b])
    BY Zenon DEF Shape, Index, IndexTyped
  <2>3. /\ IsIndex(hints') /\ key[b] \in Entries(hints')
        /\ Len(hints') < MaxHints => Len(seen[b]) < MaxHints /\ Entries(seen[b]) \subseteq Entries(hints')
    BY <2>1, <2>2, RememberIndex, Zenon
  <2>4. IndexTyped'
    BY <2>1, <2>3, NoIndex DEF Index, IndexTyped, IsIndex, Distinct
  <2>5. \A c \in Builders : bpc[c] \in Listing => c = b
    BY <2>1, Zenon DEF Index, IndexLocked, Listing
  <2>6. IndexLocked'
    BY <2>1, <2>5, Zenon DEF Shape, IndexLocked, Listing
  <2>7. \A c \in Builders : bpc'[c] # "hidden"
    BY <2>1, <2>5, Zenon DEF Shape, Listing
  <2>8. IndexCovers'
    <3>1. Covers(seen[b])
      BY <2>1, Zenon DEF Index, IndexCovers
    <3>2. Len(hints') < MaxHints => hinted' \subseteq Entries(hints')
      BY <3>1, <2>1, <2>3, Zenon DEF Covers
    <3>. QED  BY <3>2, <2>7, Zenon DEF IndexCovers, Covers, Entries
  <2>. QED  BY <2>4, <2>6, <2>8 DEF Index
<1>5. ASSUME NEW b \in Builders, CloseUnlock(b)  PROVE Index'
  <2>1. UNCHANGED <<hints, hintLock, hinted>> /\ seen' = [seen EXCEPT ![b] = <<>>]
        /\ bpc[b] \in {"open", "leave"} /\ bpc' = [bpc EXCEPT ![b] = "closing"]
    BY <1>5, Zenon DEF CloseUnlock, Forget, storeVars, histVars
  <2>2. IndexTyped'
    BY <2>1, NoIndex DEF Index, IndexTyped, IsIndex, Distinct
  <2>3. IndexLocked'
    BY <2>1, Zenon DEF Shape, Index, IndexTyped, IndexLocked, Listing
  <2>4. \A c \in Builders : /\ bpc'[c] = "hidden" <=> bpc[c] = "hidden"
                            /\ bpc'[c] = "hidden" => seen'[c] = seen[c]
    BY <2>1, Zenon DEF Shape, Index, IndexTyped
  <2>5. IndexCovers'
    BY <2>1, <2>4 DEF Index, IndexCovers, Covers, Entries
  <2>. QED  BY <2>2, <2>3, <2>5 DEF Index
<1>6. ASSUME NEW b \in Builders, Crash(b)  PROVE Index'
  <2>1. UNCHANGED hints /\ seen' = [seen EXCEPT ![b] = <<>>]
        /\ hintLock' = (IF hintLock = b THEN None ELSE hintLock)
        /\ hinted' = (IF bpc[b] = "hidden" THEN {} ELSE hinted)
        /\ bpc' = [bpc EXCEPT ![b] = "dead"]
    BY <1>6, Zenon DEF Crash, Forget
  <2>2. IndexTyped'
    BY <2>1, NoIndex DEF Index, IndexTyped, IsIndex, Distinct
  <2>3. IndexLocked'
    BY <2>1, Zenon DEF Shape, Index, IndexTyped, IndexLocked, Listing
  <2>4. \A c \in Builders : /\ bpc'[c] = "hidden" <=> bpc[c] = "hidden" /\ c # b
                            /\ bpc'[c] = "hidden" => seen'[c] = seen[c]
    BY <2>1, Zenon DEF Shape, Index, IndexTyped
  <2>5. IndexCovers'
    BY <2>1, <2>4 DEF Index, IndexCovers, Covers, Entries
  <2>. QED  BY <2>2, <2>3, <2>5 DEF Index
<1>7. ASSUME NEW old \in BOOLEAN, CollectHints(old)  PROVE Index'
  <2>1. CASE UNCHANGED <<hints, hinted>>
    BY <1>7, <2>1, AsideKeeps, Zenon DEF CollectHints, Aside, buildVars
  <2>2. CASE hints' = <<>> /\ hinted' = {}
    <3>1. UNCHANGED <<bpc, seen, hintLock>> /\ cpc = "blobs"
      BY <1>7, Zenon DEF CollectHints, buildVars
    <3>2. \A c \in Builders : bpc[c] \notin Listing
      BY <3>1, Zenon DEF Leases, CollectorAlone, Leased, BuilderLabels, Listing
    <3>3. IndexTyped'
      BY <2>2, <3>1, NoIndex, Zenon DEF Index, IndexTyped, IsIndex, Distinct
    <3>4. IndexLocked' /\ IndexCovers'
      BY <2>2, <3>1, <3>2, Zenon DEF IndexLocked, IndexCovers, Covers, Listing
    <3>. QED  BY <3>3, <3>4, Zenon DEF Index
  <2>. QED  BY <1>7, <2>1, <2>2, Zenon DEF CollectHints
<1>. QED  BY <1>0, <1>1, <1>2, <1>3, <1>4, <1>5, <1>6, <1>7, StepsAside, Zenon

-----------------------------------------------------------------------------
(* The collector and the publisher *)

\* What gc() counts as referenced is named by a record that it retains, and what
\* it lists for removal is all the rest.
Sweep ==
  /\ cpc \notin {"records", "blobs"} => kept = {}
  /\ ~dry /\ cpc = "records" => \A d \in kept : \E k \in Keys \ todo : d \in records[k]
  /\ ~dry /\ cpc = "blobs" =>
       (\A d \in kept : \E k \in Keys : d \in records[k]) /\ blobs \subseteq kept \cup todo

\* Builds change the store only while gc() removes nothing.
LEMMA SweepStep ==
  ASSUME Shape, Leases, Sweep, [Next]_vars
  PROVE  Sweep'
<1>. USE DEF Sweep, Goto, leaseVars, storeVars, localVars, buildVars, collectVars, inspectVars,
         histVars
<1>0. ASSUME NEW b \in Builders, Work(b)  PROVE Sweep'
  <2>1. Inside(b)
    BY <1>0, WorkInside, Zenon
  <2>2. cpc \notin {"records", "blobs"} /\ UNCHANGED <<cpc, kept>>
    BY <2>1, Zenon DEF Inside, Leases, CollectorAlone
  <2>. QED  BY <2>2, Zenon
<1>1. ASSUME NEW b \in Builders, LeaseGate(b)  PROVE Sweep'
  BY <1>1, Zenon DEF LeaseGate
<1>2. ASSUME NEW b \in Builders, LeaseMark(b)  PROVE Sweep'
  BY <1>2, Zenon DEF LeaseMark
<1>3. ASSUME NEW b \in Builders, LeaseLock(b)  PROVE Sweep'
  BY <1>3, Zenon DEF LeaseLock, LeaseLockIf
<1>4. ASSUME NEW b \in Builders, CloseUnlock(b)  PROVE Sweep'
  BY <1>4, Zenon DEF CloseUnlock
<1>5. ASSUME NEW b \in Builders, CloseOpen(b)  PROVE Sweep'
  BY <1>5, Zenon DEF CloseOpen
<1>6. ASSUME NEW b \in Builders, CloseUnlink(b)  PROVE Sweep'
  BY <1>6, Zenon DEF CloseUnlink
<1>7. ASSUME NEW b \in Builders, Crash(b)  PROVE Sweep'
  BY <1>7, Zenon DEF Crash
<1>8. ASSUME NEW dryRun \in BOOLEAN, CollectGate(dryRun)  PROVE Sweep'
  BY <1>8, Zenon DEF CollectGate, Markers
<1>9. ASSUME NEW b \in Builders, CollectVanished(b)  PROVE Sweep'
  BY <1>9, Zenon DEF CollectVanished, EndCollection
<1>10. ASSUME NEW b \in Builders, CollectSee(b)  PROVE Sweep'
  BY <1>10, Zenon DEF CollectSee
<1>11. ASSUME CollectProbe  PROVE Sweep'
  BY <1>11, Zenon DEF CollectProbe
<1>12. ASSUME CollectOpen  PROVE Sweep'
  BY <1>12, Zenon DEF CollectOpen
<1>13. ASSUME CollectUnlink  PROVE Sweep'
  BY <1>13, Zenon DEF CollectUnlink, EndCollection
<1>14. ASSUME CollectCount  PROVE Sweep'
  BY <1>14, Zenon DEF CollectCount, EndCollection
<1>15. ASSUME NEW k \in Keys, NEW old \in BOOLEAN, CollectRecord(k, old)  PROVE Sweep'
  BY <1>15 DEF CollectRecord, CollectRecordAs, Shape
<1>16. ASSUME CollectListBlobs  PROVE Sweep'
  BY <1>16, Zenon DEF CollectListBlobs
<1>17. ASSUME NEW d \in Digests, CollectBlob(d)  PROVE Sweep'
  BY <1>17, Zenon DEF CollectBlob
<1>18. ASSUME NEW old \in BOOLEAN, CollectHints(old)  PROVE Sweep'
  BY <1>18, Zenon DEF CollectHints, EndCollection
<1>19. ASSUME CollectorCrash  PROVE Sweep'
  BY <1>19, Zenon DEF CollectorCrash, EndCollection
<1>20. ASSUME Status  PROVE Sweep'
  BY <1>20, Zenon DEF Status, Markers
<1>21. ASSUME NEW b \in Builders, StatusVanished(b)  PROVE Sweep'
  BY <1>21, Zenon DEF StatusVanished
<1>22. ASSUME NEW b \in Builders, StatusSee(b)  PROVE Sweep'
  BY <1>22, Zenon DEF StatusSee
<1>23. ASSUME StatusProbe  PROVE Sweep'
  BY <1>23, Zenon DEF StatusProbe
<1>24. ASSUME StatusRelease  PROVE Sweep'
  BY <1>24, Zenon DEF StatusRelease
<1>25. ASSUME StatusReturn  PROVE Sweep'
  BY <1>25, Zenon DEF StatusReturn
<1>26. CASE UNCHANGED vars
  BY <1>26, Zenon DEF vars
<1>. HIDE DEF Sweep, Goto, leaseVars, storeVars, localVars, buildVars, collectVars, inspectVars,
         histVars
<1>. QED
  BY <1>0, <1>1, <1>2, <1>3, <1>4, <1>5, <1>6, <1>7, <1>8, <1>9, <1>10, <1>11,
     <1>12, <1>13, <1>14, <1>15, <1>16, <1>17, <1>18, <1>19, <1>20, <1>21, <1>22,
     <1>23, <1>24, <1>25, <1>26, Zenon
  DEF Next, Build, Collect, Report, Finished, Work

Making == {"equal", "stage", "promoted", "validate", "publish", "write", "written"}

\* A build that has just created a record is the one who did, and the record is
\* still what it wrote.
Owned ==
  /\ \A b \in Builders :
       /\ bpc[b] \in Making => want[b] # {}
       /\ bpc[b] = "written" => records[key[b]] = want[b]
  /\ \A b, c \in Builders :
       bpc[b] = "written" /\ bpc[c] = "written" /\ key[b] = key[c] => b = c

\* publish_record never writes over a record, so nobody else's step touches it.
LEMMA OwnedStep ==
  ASSUME Shape, Leases, Owned, [Next]_vars
  PROVE  Owned'
<1>. USE DEF Shape, Owned, Making, Goto, leaseVars, storeVars, localVars, buildVars, collectVars, inspectVars,
         histVars
<1>1. ASSUME NEW b \in Builders, NEW k \in Keys, Lookup(b, k)  PROVE Owned'
  BY <1>1, Zenon DEF Lookup
<1>2. ASSUME NEW b \in Builders, ProbeHit(b)  PROVE Owned'
  BY <1>2 DEF ProbeHit, Inspect
<1>3. ASSUME NEW b \in Builders, Restore(b)  PROVE Owned'
  BY <1>3 DEF Restore, Inspect
<1>4. ASSUME NEW b \in Builders, NEW outs \in SUBSET Digests, Stage(b, outs)  PROVE Owned'
  BY <1>4, ConstantsAssumption DEF Stage, ConstantsAssumption
<1>5. ASSUME NEW b \in Builders, ProbeEqual(b)  PROVE Owned'
  BY <1>5 DEF ProbeEqual, Inspect
<1>6. ASSUME NEW b \in Builders, Promote(b)  PROVE Owned'
  BY <1>6 DEF Promote
<1>7. ASSUME NEW b \in Builders, Promoted(b)  PROVE Owned'
  BY <1>7, Zenon DEF Promoted
<1>8. ASSUME NEW b \in Builders, Withdraw(b)  PROVE Owned'
  BY <1>8, Zenon DEF Withdraw
<1>9. ASSUME NEW b \in Builders, Validate(b)  PROVE Owned'
  BY <1>9 DEF Validate
<1>10. ASSUME NEW b \in Builders, ProbeStaged(b)  PROVE Owned'
  BY <1>10 DEF ProbeStaged, Inspect
<1>11. ASSUME NEW b \in Builders, WriteRecord(b)  PROVE Owned'
  BY <1>11 DEF WriteRecord
<1>12. ASSUME NEW b \in Builders, Written(b)  PROVE Owned'
  BY <1>12, Zenon DEF Written
<1>13. ASSUME NEW b \in Builders, WithdrawRecord(b)  PROVE Owned'
  BY <1>13, Zenon DEF WithdrawRecord
<1>14. ASSUME NEW b \in Builders, Reread(b)  PROVE Owned'
  BY <1>14, Zenon DEF Reread
<1>15. ASSUME NEW b \in Builders, IndexLookup(b)  PROVE Owned'
  BY <1>15, Zenon DEF IndexLookup
<1>16. ASSUME NEW b \in Builders, ProbeNamed(b)  PROVE Owned'
  BY <1>16 DEF ProbeNamed, Inspect
<1>17. ASSUME NEW b \in Builders, IndexLock(b)  PROVE Owned'
  BY <1>17, Zenon DEF IndexLock, IndexLockIf
<1>18. ASSUME NEW b \in Builders, IndexRead(b)  PROVE Owned'
  BY <1>18, Zenon DEF IndexRead
<1>19. ASSUME NEW b \in Builders, IndexHide(b)  PROVE Owned'
  BY <1>19, Zenon DEF IndexHide
<1>20. ASSUME NEW b \in Builders, IndexReplace(b)  PROVE Owned'
  BY <1>20, Zenon DEF IndexReplace
<1>21. ASSUME NEW b \in Builders, LeaseGate(b)  PROVE Owned'
  BY <1>21, Zenon DEF LeaseGate
<1>22. ASSUME NEW b \in Builders, LeaseMark(b)  PROVE Owned'
  BY <1>22, Zenon DEF LeaseMark
<1>23. ASSUME NEW b \in Builders, LeaseLock(b)  PROVE Owned'
  BY <1>23 DEF LeaseLock, LeaseLockIf
<1>24. ASSUME NEW b \in Builders, CloseUnlock(b)  PROVE Owned'
  BY <1>24, Zenon DEF CloseUnlock, Forget
<1>25. ASSUME NEW b \in Builders, CloseOpen(b)  PROVE Owned'
  BY <1>25, Zenon DEF CloseOpen
<1>26. ASSUME NEW b \in Builders, CloseUnlink(b)  PROVE Owned'
  BY <1>26, Zenon DEF CloseUnlink
<1>27. ASSUME NEW b \in Builders, Crash(b)  PROVE Owned'
  BY <1>27, Zenon DEF Crash, Forget
<1>28. ASSUME NEW dryRun \in BOOLEAN, CollectGate(dryRun)  PROVE Owned'
  BY <1>28, Zenon DEF CollectGate, Markers
<1>29. ASSUME NEW b \in Builders, CollectVanished(b)  PROVE Owned'
  BY <1>29, Zenon DEF CollectVanished, EndCollection
<1>30. ASSUME NEW b \in Builders, CollectSee(b)  PROVE Owned'
  BY <1>30, Zenon DEF CollectSee
<1>31. ASSUME CollectProbe  PROVE Owned'
  BY <1>31, Zenon DEF CollectProbe
<1>32. ASSUME CollectOpen  PROVE Owned'
  BY <1>32, Zenon DEF CollectOpen
<1>33. ASSUME CollectUnlink  PROVE Owned'
  BY <1>33, Zenon DEF CollectUnlink, EndCollection
<1>34. ASSUME CollectCount  PROVE Owned'
  BY <1>34, Zenon DEF CollectCount, EndCollection
<1>35. ASSUME NEW k \in Keys, NEW old \in BOOLEAN, CollectRecord(k, old)  PROVE Owned'
  BY <1>35, Zenon DEF CollectRecord, CollectRecordAs, Leases, CollectorAlone, Leased, BuilderLabels
<1>36. ASSUME CollectListBlobs  PROVE Owned'
  BY <1>36, Zenon DEF CollectListBlobs
<1>37. ASSUME NEW d \in Digests, CollectBlob(d)  PROVE Owned'
  BY <1>37, Zenon DEF CollectBlob
<1>38. ASSUME NEW old \in BOOLEAN, CollectHints(old)  PROVE Owned'
  BY <1>38, Zenon DEF CollectHints, EndCollection
<1>39. ASSUME CollectorCrash  PROVE Owned'
  BY <1>39, Zenon DEF CollectorCrash, EndCollection
<1>40. ASSUME Status  PROVE Owned'
  BY <1>40, Zenon DEF Status, Markers
<1>41. ASSUME NEW b \in Builders, StatusVanished(b)  PROVE Owned'
  BY <1>41, Zenon DEF StatusVanished
<1>42. ASSUME NEW b \in Builders, StatusSee(b)  PROVE Owned'
  BY <1>42, Zenon DEF StatusSee
<1>43. ASSUME StatusProbe  PROVE Owned'
  BY <1>43, Zenon DEF StatusProbe
<1>44. ASSUME StatusRelease  PROVE Owned'
  BY <1>44, Zenon DEF StatusRelease
<1>45. ASSUME StatusReturn  PROVE Owned'
  BY <1>45, Zenon DEF StatusReturn
<1>46. CASE UNCHANGED vars
  BY <1>46, Zenon DEF vars
<1>. HIDE DEF Shape, Owned, Making, Goto, leaseVars, storeVars, localVars, buildVars, collectVars, inspectVars,
         histVars
<1>. QED
  BY <1>1, <1>2, <1>3, <1>4, <1>5, <1>6, <1>7, <1>8, <1>9, <1>10, <1>11, <1>12,
     <1>13, <1>14, <1>15, <1>16, <1>17, <1>18, <1>19, <1>20, <1>21, <1>22, <1>23,
     <1>24, <1>25, <1>26, <1>27, <1>28, <1>29, <1>30, <1>31, <1>32, <1>33, <1>34,
     <1>35, <1>36, <1>37, <1>38, <1>39, <1>40, <1>41, <1>42, <1>43, <1>44, <1>45,
     <1>46, Zenon
  DEF Next, Build, Collect, Report, Finished

-----------------------------------------------------------------------------
(* The whole invariant *)

\* Only the end of gc(), or a crash of it, leaves the removal of blobs.
LEMMA EndOfCollection ==
  ASSUME [Next]_vars, cpc = "blobs", cpc' = "idle"
  PROVE  (\E old \in BOOLEAN : CollectHints(old)) \/ CollectorCrash
<1>. USE DEF Goto, leaseVars, storeVars, localVars, buildVars, collectVars, inspectVars,
         histVars
<1>1. ASSUME NEW b \in Builders, Build(b) \/ Withdraw(b) \/ WithdrawRecord(b) \/ Crash(b)
      PROVE  FALSE
  BY <1>1, Zenon DEF Build, Lookup, ProbeHit, Inspect, Restore, Stage, ProbeEqual,
         Promote, Promoted, Withdraw, Validate, ProbeStaged, WriteRecord, Written,
         WithdrawRecord, Reread, IndexLookup, ProbeNamed, IndexLock, IndexLockIf,
         IndexRead, IndexHide, IndexReplace, LeaseGate, LeaseMark, LeaseLock,
         LeaseLockIf, CloseUnlock, Forget, CloseOpen, CloseUnlink, Crash
<1>2. ASSUME Collect  PROVE \E old \in BOOLEAN : CollectHints(old)
  BY <1>2, Zenon DEF Collect, CollectVanished, EndCollection, CollectSee, CollectProbe,
         CollectOpen, CollectUnlink, CollectCount, CollectRecord, CollectRecordAs,
         CollectListBlobs, CollectBlob
<1>3. ASSUME Status \/ Report \/ Finished \/ UNCHANGED vars  PROVE FALSE
  BY <1>3, Zenon DEF vars, Report, Finished, Status, Markers, StatusVanished, StatusSee,
         StatusProbe, StatusRelease, StatusReturn
<1>4. ASSUME NEW dryRun \in BOOLEAN, CollectGate(dryRun)  PROVE FALSE
  BY <1>4, Zenon DEF CollectGate
<1>. QED  BY <1>1, <1>2, <1>3, <1>4, Zenon DEF Next

\* Records are written by publish_record and removed by it and by gc() only.
LEMMA RecordWriters ==
  ASSUME [Next]_vars, records' # records
  PROVE  \/ \E b \in Builders : WriteRecord(b) \/ WithdrawRecord(b)
         \/ \E k \in Keys, old \in BOOLEAN : CollectRecord(k, old)
<1>. USE DEF Goto, leaseVars, storeVars, localVars, buildVars, collectVars, inspectVars,
         histVars
<1>1. ASSUME NEW b \in Builders, Build(b) \/ Withdraw(b) \/ Crash(b)  PROVE WriteRecord(b)
  BY <1>1, Zenon DEF Build, Lookup, ProbeHit, Inspect, Restore, Stage, ProbeEqual,
         Promote, Promoted, Withdraw, Validate, ProbeStaged, Written, Reread,
         IndexLookup, ProbeNamed, IndexLock, IndexLockIf, IndexRead, IndexHide,
         IndexReplace, LeaseGate, LeaseMark, LeaseLock, LeaseLockIf, CloseUnlock,
         Forget, CloseOpen, CloseUnlink, Crash
<1>2. ASSUME Collect  PROVE \E k \in Keys, old \in BOOLEAN : CollectRecord(k, old)
  BY <1>2, Zenon DEF Collect, CollectVanished, EndCollection, CollectSee, CollectProbe,
         CollectOpen, CollectUnlink, CollectCount, CollectListBlobs, CollectBlob,
         CollectHints
<1>3. ASSUME Status \/ Report \/ Finished \/ CollectorCrash \/ UNCHANGED vars  PROVE FALSE
  BY <1>3, Zenon DEF vars, Report, Finished, CollectorCrash, Status, Markers,
         StatusVanished, StatusSee, StatusProbe, StatusRelease, StatusReturn
<1>4. ASSUME NEW dryRun \in BOOLEAN, CollectGate(dryRun)  PROVE FALSE
  BY <1>4, Zenon DEF CollectGate
<1>. QED  BY <1>1, <1>2, <1>3, <1>4, Zenon DEF Next

FullInv == IInv /\ Kinds /\ Index /\ Sweep /\ Owned

\* The whole invariant holds in every reachable state.
THEOREM FullInvariance == Spec => []FullInv
<1>1. Init => FullInv
  <2>. SUFFICES ASSUME Init  PROVE FullInv
    BY Zenon
  <2>1. Kinds
    BY ConstantsAssumption DEF ConstantsAssumption, Init, Kinds
  <2>2. Index
    <3>1. IndexTyped
      BY NoIndex DEF Init, IndexTyped
    <3>2. IndexLocked
      BY Zenon DEF Init, IndexLocked, Listing
    <3>3. IndexCovers
      BY Zenon DEF Init, IndexCovers, Covers
    <3>. QED  BY <3>1, <3>2, <3>3, Zenon DEF Index
  <2>3. Sweep /\ Owned
    BY Zenon DEF Init, Sweep, Owned, Making
  <2>. QED  BY <2>1, <2>2, <2>3, Initially, Zenon DEF FullInv
<1>2. FullInv /\ [Next]_vars => FullInv'
  BY ShapeStep, LeasesStep, StoreStep, KindsStep, IndexStep, SweepStep, OwnedStep, Zenon DEF FullInv, IInv
<1>. QED  BY <1>1, <1>2, PTL DEF Spec

\* Every variable keeps its type and every counter its bound.
THEOREM TypesCorrect == Spec => []TypeOK
<1>1. FullInv => TypeOK
  BY Zenon DEF FullInv, IInv, Shape, Kinds, Index, IndexTyped, IsIndex, TypeOK
<1>. QED  BY FullInvariance, <1>1, PTL

\* index_record: concurrent builds never lose each other's hints, up to the limit.
THEOREM NoHintLost == Spec => []HintsKept
<1>1. FullInv => HintsKept
  <2>. SUFFICES ASSUME FullInv, hintLock = None  PROVE HintsKept
    BY Zenon DEF HintsKept
  <2>1. \A b \in Builders : bpc[b] # "hidden"
    BY ConstantsAssumption, Zenon DEF ConstantsAssumption, FullInv, Index, IndexLocked, Listing
  <2>. QED  BY <2>1, Zenon DEF FullInv, Index, IndexCovers, Covers, Entries, HintsKept
<1>. QED  BY FullInvariance, <1>1, PTL

\* gc: a collection that runs to its end leaves only blobs that a record names.
THEOREM CollectionComplete == Spec => CollectsAll
<1>1. ASSUME FullInv, [Next]_vars, cpc = "blobs", cpc' = "idle", ~dry, faults' = faults
      PROVE  blobs' \subseteq UNION {records'[k] : k \in Keys}
  <2>1. CASE CollectorCrash
    BY <1>1, <2>1 DEF CollectorCrash, FullInv, Kinds
  <2>2. ASSUME NEW old \in BOOLEAN, CollectHints(old)
        PROVE  blobs' \subseteq UNION {records'[k] : k \in Keys}
    <3>1. todo = {} /\ UNCHANGED <<records, blobs>>
      BY <2>2, Zenon DEF CollectHints
    <3>2. blobs \subseteq kept /\ \A d \in kept : \E k \in Keys : d \in records[k]
      BY <1>1, <3>1, Zenon DEF FullInv, Sweep
    <3>. QED  BY <3>1, <3>2, Zenon
  <2>. QED  BY <1>1, <2>1, <2>2, EndOfCollection, Zenon
<1>2. FullInv /\ [Next]_vars =>
        [cpc = "blobs" /\ cpc' = "idle" /\ ~dry /\ faults' = faults
           => blobs' \subseteq UNION {records'[k] : k \in Keys}]_vars
  BY <1>1, Zenon
<1>. QED  BY FullInvariance, <1>2, PTL DEF Spec, CollectsAll

\* publish_record: a published record never changes, and only its collection or
\* its own writer takes it away.
THEOREM RecordsNeverChange == Spec => RecordsImmutable
<1>. DEFINE Kept == \A k \in Keys :
       records[k] # {} /\ records'[k] # records[k] =>
         /\ records'[k] = {}
         /\ \/ cpc = "records" /\ ~dry
            \/ \E b \in Builders :
                 bpc[b] = "written" /\ bpc'[b] = "reread" /\ key[b] = k /\ want[b] = records[k]
<1>1. ASSUME FullInv, [Next]_vars  PROVE Kept
  <2>1. CASE records' = records
    BY <2>1, Zenon
  <2>2. ASSUME NEW b \in Builders, WriteRecord(b)  PROVE Kept
    BY <1>1, <2>2, Zenon DEF WriteRecord, FullInv, IInv, Shape
  <2>3. ASSUME NEW b \in Builders, WithdrawRecord(b)  PROVE Kept
    BY <1>1, <2>3, Zenon DEF WithdrawRecord, Goto, FullInv, IInv, Shape, Owned
  <2>4. ASSUME NEW k \in Keys, NEW old \in BOOLEAN, CollectRecord(k, old)  PROVE Kept
    BY <1>1, <2>4, Zenon DEF CollectRecord, CollectRecordAs, FullInv, IInv, Shape
  <2>. HIDE DEF Kept
  <2>. QED  BY <1>1, <2>1, <2>2, <2>3, <2>4, RecordWriters, Zenon
<1>2. FullInv /\ [Next]_vars => [Kept]_vars
  BY <1>1, Zenon
<1>. QED  BY FullInvariance, <1>2, PTL DEF Spec, RecordsImmutable
=============================================================================
