----------------------------- MODULE RunArenas ------------------------------
(***************************************************************************)
(* Local state of src/reprobit/state.py: each run has an arena under runs/ *)
(* with a lease that it keeps locked, and may own one workspace outside    *)
(* the state root, named by a pointer in the arena and by a marker in the  *)
(* workspace.  gc() removes the arenas of runs that are gone, status()     *)
(* looks at all of them.                                                   *)
(*                                                                         *)
(* Creating and removing arenas happens under the state-wide maintenance   *)
(* gate.  A directory is removed in two steps: it is renamed to a private  *)
(* name, checked, and deleted there.  Any process may be killed: its locks *)
(* are then free, and whatever it had on disk stays.                       *)
(***************************************************************************)
EXTENDS Naturals, FiniteSets

CONSTANTS Runs,       \* runs, each with an arena of its own
          Keep,       \* the KeepWorkspace of each run
          Collector,  \* a process that calls gc()
          Inspector,  \* a process that calls status()
          None,
          MaxWorkspaces, MaxSwaps, MaxFaults, MaxCrashes,  \* bounds
          MaxSparing, MaxScans

ASSUME ArenaAssumption ==
  /\ Keep \in [Runs -> {"never", "on-failure", "always"}]
  /\ Collector \notin Runs /\ Inspector \notin Runs /\ None \notin Runs
  /\ Collector # Inspector /\ None \notin {Collector, Inspector}
  /\ {MaxWorkspaces, MaxSwaps, MaxFaults, MaxCrashes, MaxSparing, MaxScans} \subseteq Nat

VARIABLES
  gateFile,   \* does .maintenance.lock exist
  gate,       \* its holder
  \* on disk, for each run
  arena,      \* "absent" or "present"
  trash,      \* what is at its private name: "none", or an arena with a "sound" or
              \* with a "torn" (empty) lease file
  lease,      \* the file .lease: "absent", "empty" or "ready"
  outcome,    \* .outcome.json: "none", "interrupted", "succeeded" or "failed"
  pointer,    \* does .cmake-workspace.json exist
  space,      \* the workspace: "absent", "bare", "own" or "foreign"
  discarded,  \* the workspaces at private names and at those of earlier ones
  scratch,    \* a file that comes and goes while the run works
  lock,       \* holder of the lease's advisory lock
  \* processes
  pc,
  target,     \* the run that gc() or status() is at
  todo,       \* the runs it has still to see
  moved,      \* the workspace that it, or a run, has just renamed
  looks,      \* gc(): may it spare an arena; status(): what it has seen
  verdict,    \* what finish() was told
  \* history that only properties read, and counters of bounded actions
  refused, collected, swapped, torn, used

diskVars == <<arena, trash, lease, outcome, pointer, space, discarded, scratch>>
lockVars == <<gateFile, gate, lock>>
procVars == <<pc, target, todo, moved, looks, verdict>>
histVars == <<refused, collected, swapped, torn, used>>
vars == <<diskVars, lockVars, procVars, histVars>>

Processes == Runs \cup {Collector, Inspector}

Init ==
  /\ gateFile \in BOOLEAN  \* has this state root been used before
  /\ gate = None
  /\ arena = [r \in Runs |-> "absent"] /\ trash = [r \in Runs |-> "none"]
  /\ lease = [r \in Runs |-> "absent"] /\ outcome = [r \in Runs |-> "none"]
  /\ pointer = [r \in Runs |-> FALSE]
  /\ space = [r \in Runs |-> "absent"] /\ discarded = [r \in Runs |-> {}]
  /\ scratch = [r \in Runs |-> FALSE]
  /\ lock = [r \in Runs |-> None]
  /\ pc = [p \in Processes |-> IF p \in Runs THEN "new" ELSE "idle"]
  /\ target = [p \in {Collector, Inspector} |-> None]
  /\ todo = [p \in {Collector, Inspector} |-> {}]
  /\ moved = [p \in Runs \cup {Collector} |-> "absent"]
  /\ looks = [sparing |-> FALSE, found |-> {}, saw |-> FALSE, ungated |-> FALSE]
  /\ verdict = [r \in Runs |-> "none"]
  /\ refused = {} /\ collected = {} /\ swapped = {} /\ torn = {}
  /\ used = [spaces |-> 0, swaps |-> 0, faults |-> 0, crashes |-> 0, collections |-> 0,
             scans |-> 0]

-----------------------------------------------------------------------------
(* Locks *)

Goto(p, label) == pc' = [pc EXCEPT ![p] = label]
Spend(what) == used' = [used EXCEPT ![what] = @ + 1]

\* _maintenance_gate(create=True): the file is made if it is missing.
TakeGate(p) == gate = None /\ gate' = p /\ gateFile' = TRUE
LeaveGate == gate' = None /\ UNCHANGED gateFile

\* The arena that a process is removing.
Target(p) == IF p \in Runs THEN p ELSE target[p]

-----------------------------------------------------------------------------
(* RunArena.__enter__ *)

EnterGate(r) ==
  /\ pc[r] = "new"
  /\ TakeGate(r)
  /\ Goto(r, "gated")
  /\ UNCHANGED <<diskVars, lock, target, todo, moved, looks, verdict, histVars>>

EnterMkdir(r) ==
  /\ pc[r] = "gated"
  /\ arena' = [arena EXCEPT ![r] = "present"]
  /\ Goto(r, "made")
  /\ UNCHANGED <<trash, lease, outcome, pointer, space, discarded, scratch, lockVars, target,
                 todo, moved, looks, verdict, histVars>>

\* AdvisoryFileLock.__init__ creates an empty file, then writes one byte.
EnterOpen(r) ==
  /\ pc[r] = "made"
  /\ lease' = [lease EXCEPT ![r] = "empty"]
  /\ Goto(r, "opened")
  /\ UNCHANGED <<arena, trash, outcome, pointer, space, discarded, scratch, lockVars, target,
                 todo, moved, looks, verdict, histVars>>

EnterFill(r) ==
  /\ pc[r] = "opened"
  /\ lease' = [lease EXCEPT ![r] = "ready"]
  /\ Goto(r, "filled")
  /\ UNCHANGED <<arena, trash, outcome, pointer, space, discarded, scratch, lockVars, target,
                 todo, moved, looks, verdict, histVars>>

\* The fresh lease is locked without waiting; if somebody holds it, as a
\* status() without the gate may, the run fails and removes its arena.
EnterLock(r) ==
  /\ pc[r] = "filled"
  /\ \/ /\ lock[r] = None
        /\ lock' = [lock EXCEPT ![r] = r]
        /\ Goto(r, "leased")
        /\ UNCHANGED refused
     \/ /\ lock[r] # None
        /\ refused' = refused \cup
             {IF lock[r] = Inspector /\ looks.ungated THEN "ungated" ELSE "gated"}
        /\ Goto(r, "undo")
        /\ UNCHANGED lock
  /\ UNCHANGED <<diskVars, gate, gateFile, target, todo, moved, looks, verdict,
                 collected, swapped, torn, used>>

\* The outcome of a run that has not ended is "interrupted".
EnterRecord(r) ==
  /\ pc[r] = "leased"
  /\ outcome' = [outcome EXCEPT ![r] = "interrupted"]
  /\ LeaveGate
  /\ Goto(r, "active")
  /\ UNCHANGED <<arena, trash, lease, pointer, space, discarded, scratch, lock, target, todo,
                 moved, looks, verdict, histVars>>

\* An error on the way in.  Once the lock object exists the lease is given
\* back and the arena removed; before that the arena just stays.
EnterFails(r) ==
  /\ used.faults < MaxFaults
  /\ Spend("faults")
  /\ \/ /\ pc[r] \in {"made", "opened"}
        /\ Goto(r, "dead") /\ LeaveGate
     \/ /\ pc[r] \in {"filled", "leased"}
        /\ Goto(r, "undo") /\ UNCHANGED <<gate, gateFile>>
  /\ UNCHANGED <<diskVars, lock, target, todo, moved, looks, verdict, refused,
                 collected, swapped, torn>>

Undo(r) ==
  /\ pc[r] = "undo"
  /\ lock' = [lock EXCEPT ![r] = IF @ = r THEN None ELSE @]
  /\ Goto(r, "a-move")
  /\ UNCHANGED <<diskVars, gate, gateFile, target, todo, moved, looks, verdict, histVars>>

-----------------------------------------------------------------------------
(* An active run: its files and its workspace *)

Work(r) ==
  /\ pc[r] = "active"
  /\ scratch' = [scratch EXCEPT ![r] = ~@]
  /\ UNCHANGED <<arena, trash, lease, outcome, pointer, space, discarded, lockVars, procVars,
                 histVars>>

\* create_cmake_workspace: the directory, under a name of its own, its marker,
\* the pointer to it.
SpaceMkdir(r) ==
  /\ pc[r] = "active" /\ ~pointer[r]
  /\ used.spaces < MaxWorkspaces
  /\ Spend("spaces")
  /\ space' = [space EXCEPT ![r] = "bare"]
  /\ discarded' = [discarded EXCEPT ![r] = @ \cup ({space[r]} \ {"absent"})]
  /\ Goto(r, "s-made")
  /\ UNCHANGED <<arena, trash, lease, outcome, pointer, scratch, lockVars, target, todo, moved,
                 looks, verdict, refused, collected, swapped, torn>>

SpaceMark(r) ==
  /\ pc[r] = "s-made" /\ space[r] = "bare"
  /\ space' = [space EXCEPT ![r] = "own"]
  /\ Goto(r, "s-marked")
  /\ UNCHANGED <<arena, trash, lease, outcome, pointer, discarded, scratch, lockVars, target,
                 todo, moved, looks, verdict, histVars>>

SpacePoint(r) ==
  /\ pc[r] = "s-marked"
  /\ pointer' = [pointer EXCEPT ![r] = TRUE]
  /\ Goto(r, "s-pointed")
  /\ UNCHANGED <<arena, trash, lease, outcome, space, discarded, scratch, lockVars, target,
                 todo, moved, looks, verdict, histVars>>

\* The record is read back: it must name this very directory.
SpaceVerify(r) ==
  /\ pc[r] = "s-pointed"
  /\ Goto(r, IF space[r] = "own" THEN "active" ELSE "s-failed")
  /\ UNCHANGED <<diskVars, lockVars, target, todo, moved, looks, verdict, histVars>>

SpaceFails(r) ==
  /\ \/ /\ pc[r] \in {"s-made", "s-marked", "s-pointed"} /\ used.faults < MaxFaults
        /\ Spend("faults")
     \/ /\ pc[r] = "s-made" /\ space[r] # "bare"  \* the directory was replaced
        /\ UNCHANGED used
  /\ Goto(r, "s-failed")
  /\ UNCHANGED <<diskVars, lockVars, target, todo, moved, looks, verdict, refused,
                 collected, swapped, torn>>

\* Its cleanup removes the directory that this call made and no other; the
\* pointer, if it was written, stays and names nothing.
SpaceUndo(r) ==
  /\ pc[r] = "s-failed"
  /\ Goto(r, IF space[r] \in {"bare", "own"} THEN "s-move" ELSE "active")
  /\ UNCHANGED <<diskVars, lockVars, target, todo, moved, looks, verdict, histVars>>

\* Another program puts a directory of its own in the workspace's place.
Swap(r) ==
  /\ space[r] \in {"bare", "own"} /\ used.swaps < MaxSwaps
  /\ Spend("swaps")
  /\ space' = [space EXCEPT ![r] = "foreign"]
  /\ swapped' = swapped \cup {r}
  /\ UNCHANGED <<arena, trash, lease, outcome, pointer, discarded, scratch, lockVars, procVars,
                 refused, collected, torn>>

\* remove_cmake_workspace, called by the run itself.
SpaceRemove(r) ==
  /\ pc[r] = "active" /\ pointer[r]
  /\ Goto(r, "w-check")
  /\ UNCHANGED <<diskVars, lockVars, target, todo, moved, looks, verdict, histVars>>

-----------------------------------------------------------------------------
(* RunArena.finish *)

\* Mutant: "on-failure" keeps the arenas of successful runs.
ShouldKeepInverted(r, succeeded) ==
  Keep[r] = "always" \/ (Keep[r] = "on-failure" /\ succeeded)

ShouldKeep(r, succeeded) ==
  Keep[r] = "always" \/ (Keep[r] = "on-failure" /\ ~succeeded)

\* The outcome is recorded first, without the gate.
FinishRecord(r) ==
  /\ pc[r] = "active"
  /\ \E o \in {"succeeded", "failed"} :
       /\ verdict' = [verdict EXCEPT ![r] = o]
       /\ outcome' = [outcome EXCEPT ![r] = o]
  /\ Goto(r, "ended")
  /\ UNCHANGED <<arena, trash, lease, pointer, space, discarded, scratch, lockVars, target,
                 todo, moved, looks, histVars>>

FinishGate(r) ==
  /\ pc[r] = "ended"
  /\ TakeGate(r)
  /\ Goto(r, "closing")
  /\ UNCHANGED <<diskVars, lock, target, todo, moved, looks, verdict, histVars>>

\* finish() raises, at a changed arena or an error of the disk, before or after
\* the outcome is recorded: it gives its lease back, and the arena stays.
FinishFails(r) ==
  /\ pc[r] \in {"active", "ended", "closing"} /\ used.faults < MaxFaults
  /\ Spend("faults")
  /\ lock' = [lock EXCEPT ![r] = None]
  /\ gate' = IF gate = r THEN None ELSE gate
  /\ Goto(r, "dead")
  /\ UNCHANGED <<diskVars, gateFile, target, todo, moved, looks, verdict, refused,
                 collected, swapped, torn>>

\* A kept arena keeps its lease until the gate is left.  For another one the
\* lease is given back first, because Windows cannot rename a directory with
\* a held file; the gate stays held across the removal.
FinishKeep(r) ==
  /\ pc[r] = "closing" /\ ShouldKeep(r, verdict[r] = "succeeded")
  /\ LeaveGate
  /\ Goto(r, "kept")
  /\ UNCHANGED <<diskVars, lock, target, todo, moved, looks, verdict, histVars>>

FinishUnlock(r) ==
  /\ pc[r] = "kept"
  /\ lock' = [lock EXCEPT ![r] = None]
  /\ Goto(r, "done")
  /\ UNCHANGED <<diskVars, gate, gateFile, target, todo, moved, looks, verdict, histVars>>

FinishDrop(r) ==
  /\ pc[r] = "closing" /\ ~ShouldKeep(r, verdict[r] = "succeeded")
  /\ lock' = [lock EXCEPT ![r] = None]
  /\ Goto(r, "w-check")
  /\ UNCHANGED <<diskVars, gate, gateFile, target, todo, moved, looks, verdict, histVars>>

-----------------------------------------------------------------------------
(* Removal: _remove_owned_cmake_workspace and _remove_exact_directory *)

\* The call that removes raises: gc() ends, a run that was finishing too, and
\* one that was only removing its workspace goes on.
Raise(p) ==
  IF p \in Runs /\ verdict[p] = "none"
    THEN /\ Goto(p, "active")
         /\ UNCHANGED <<gate, gateFile, target, todo>>
    ELSE /\ gate' = IF gate = p THEN None ELSE gate
         /\ Goto(p, IF p \in Runs THEN "done" ELSE "idle")
         /\ target' = IF p = Collector THEN [target EXCEPT ![p] = None] ELSE target
         /\ todo' = IF p = Collector THEN [todo EXCEPT ![Collector] = {}] ELSE todo
         /\ UNCHANGED gateFile

\* The pointer and the marker are read: what they agree on may be removed, a
\* workspace that is gone needs nothing, anything else is refused.
WorkspaceCheck(p) ==
  /\ pc[p] = "w-check"
  /\ LET r == Target(p)
     IN  \/ /\ ~pointer[r]
            /\ Goto(p, IF p \in Runs /\ verdict[p] = "none" THEN "active" ELSE "a-move")
            /\ UNCHANGED <<gate, gateFile, target, todo>>
         \/ /\ pointer[r] /\ space[r] \in {"own", "absent"}
            /\ Goto(p, IF space[r] = "own" THEN "w-match" ELSE "w-point")
            /\ UNCHANGED <<gate, gateFile, target, todo>>
         \/ /\ pointer[r] /\ space[r] \notin {"own", "absent"}
            /\ Raise(p)
  /\ UNCHANGED <<diskVars, lock, moved, looks, verdict, refused, collected, swapped, torn, used>>

\* The directory must still be the one that was read.
WorkspaceMatch(p) ==
  /\ pc[p] = "w-match"
  /\ IF space[Target(p)] = "foreign"
       THEN Raise(p)
       ELSE Goto(p, "w-move") /\ UNCHANGED <<gate, gateFile, target, todo>>
  /\ UNCHANGED <<diskVars, lock, moved, looks, verdict, refused, collected, swapped, torn, used>>

\* os.replace moves whatever has the name by now.
WorkspaceMove(p) ==
  /\ pc[p] \in {"w-move", "s-move"}
  /\ LET r == Target(p)
     IN  /\ discarded' = [discarded EXCEPT ![r] = @ \cup ({space[r]} \ {"absent"})]
         /\ moved' = [moved EXCEPT ![p] = space[r]]
         /\ space' = [space EXCEPT ![r] = "absent"]
  /\ Goto(p, IF pc[p] = "w-move" THEN "w-drop" ELSE "s-drop")
  /\ UNCHANGED <<arena, trash, lease, outcome, pointer, scratch, lockVars, target, todo, looks,
                 verdict, histVars>>

\* The moved directory is deleted if it is still the one that was checked,
\* else it is preserved where it is and the call raises.
WorkspaceDrop(p) ==
  /\ pc[p] \in {"w-drop", "s-drop"}
  /\ LET r == Target(p)
     IN  \/ /\ moved[p] # "foreign"
            /\ discarded' = [discarded EXCEPT ![r] = @ \ {moved[p]}]
            /\ Goto(p, IF pc[p] = "w-drop" THEN "w-point" ELSE "active")
            /\ UNCHANGED <<gate, gateFile, target, todo>>
         \/ /\ moved[p] = "foreign"
            /\ Raise(p)
            /\ UNCHANGED discarded
  /\ moved' = [moved EXCEPT ![p] = "absent"]
  /\ UNCHANGED <<arena, trash, lease, outcome, pointer, space, scratch, lock, looks, verdict,
                 refused, collected, swapped, torn, used>>

PointerRemove(p) ==
  /\ pc[p] = "w-point"
  /\ pointer' = [pointer EXCEPT ![Target(p)] = FALSE]
  /\ Goto(p, IF p \in Runs /\ verdict[p] = "none" THEN "active" ELSE "a-move")
  /\ UNCHANGED <<arena, trash, lease, outcome, space, discarded, scratch, lockVars, target,
                 todo, moved, looks, verdict, histVars>>

\* The arena goes with all that is in it.
ArenaMove(p) ==
  /\ pc[p] = "a-move"
  /\ LET r == Target(p)
     IN  /\ trash' = [trash EXCEPT ![r] = IF arena[r] = "absent" THEN @
                                             ELSE IF lease[r] = "empty" THEN "torn" ELSE "sound"]
         /\ arena' = [arena EXCEPT ![r] = "absent"]
         /\ lease' = [lease EXCEPT ![r] = "absent"]
         /\ outcome' = [outcome EXCEPT ![r] = "none"]
         /\ scratch' = [scratch EXCEPT ![r] = FALSE]
         /\ pointer' = [pointer EXCEPT ![r] = FALSE]
         /\ collected' = IF p = Collector THEN collected \cup {r} ELSE collected
  /\ Goto(p, "a-drop")
  /\ UNCHANGED <<space, discarded, lockVars, target, todo, moved, looks, verdict, refused,
                 swapped, torn, used>>

ArenaDrop(p) ==
  /\ pc[p] = "a-drop"
  /\ trash' = [trash EXCEPT ![Target(p)] = "none"]
  /\ \/ /\ p \in Runs
        /\ gate' = IF gate = p THEN None ELSE gate
        /\ Goto(p, "done")
        /\ UNCHANGED target
     \/ /\ p = Collector
        /\ target' = [target EXCEPT ![p] = None]
        /\ Goto(p, "picking")
        /\ UNCHANGED gate
  /\ UNCHANGED <<arena, lease, outcome, pointer, space, discarded, scratch, gateFile, lock,
                 todo, moved, looks, verdict, histVars>>

-----------------------------------------------------------------------------
(* StateStore.gc, the part about runs *)

\* _run_paths: every directory in runs/, the ones at private names included.
Listing == {r \in Runs : arena[r] = "present" \/ trash[r] # "none"}

GcStart(sparing) ==
  /\ pc[Collector] = "idle"
  /\ \/ ~sparing /\ UNCHANGED used
     \/ sparing /\ used.collections < MaxSparing /\ Spend("collections")
  /\ TakeGate(Collector)
  /\ todo' = [todo EXCEPT ![Collector] = Listing]
  /\ looks' = [looks EXCEPT !.sparing = sparing]
  /\ Goto(Collector, "picking")
  /\ UNCHANGED <<moved, diskVars, lock, target, verdict, refused, collected, swapped, torn>>

\* One entry: a held lease means an active run, a missing one a run that died
\* before it had one; a lease file that cannot be read as one is an error.
GcPickIf(skipsHeld, skipsMissing) ==
  /\ pc[Collector] = "picking"
  /\ \E r \in todo[Collector] :
       \/ /\ arena[r] = "absent" /\ trash[r] # "torn"   \* a leftover at a private name
          /\ trash' = [trash EXCEPT ![r] = "none"]
          /\ todo' = [todo EXCEPT ![Collector] = @ \ {r}]
          /\ UNCHANGED <<pc, target, lock, gate, gateFile>>
       \/ /\ IF arena[r] = "present" THEN lease[r] = "empty" ELSE trash[r] = "torn"
          /\ Raise(Collector)
          /\ UNCHANGED <<trash, lock>>
       \/ /\ arena[r] = "present"
          /\ \/ lease[r] = "ready" /\ lock[r] # None /\ skipsHeld
             \/ lease[r] = "absent" /\ skipsMissing
          /\ todo' = [todo EXCEPT ![Collector] = @ \ {r}]
          /\ UNCHANGED <<pc, target, trash, lock, gate, gateFile>>
       \/ /\ arena[r] = "present"
          /\ \/ lease[r] = "absent" /\ ~skipsMissing
             \/ lease[r] = "ready" /\ (lock[r] = None \/ ~skipsHeld)
          /\ lock' = IF lease[r] = "ready" THEN [lock EXCEPT ![r] = Collector] ELSE lock
          /\ todo' = [todo EXCEPT ![Collector] = @ \ {r}]
          /\ target' = [target EXCEPT ![Collector] = r]
          /\ Goto(Collector, "scanning")
          /\ UNCHANGED <<trash, gate, gateFile>>
  /\ UNCHANGED <<arena, lease, outcome, pointer, space, discarded, scratch, moved, looks,
                 verdict, refused, collected, swapped, torn, used>>

\* Mutant: a lease that is held does not stop gc().
GcPickHeld == GcPickIf(FALSE, FALSE)

\* Mutant: an arena without a lease is taken for one of an active run.
GcPickTimid == GcPickIf(TRUE, TRUE)

GcPick == GcPickIf(TRUE, FALSE)

\* The arena's size and age, its workspace's too; the lease is given back for
\* the same reason as in finish().  A recent arena, or a dry run's, stays.
GcScan ==
  /\ pc[Collector] = "scanning"
  /\ lock' = [r \in Runs |-> IF lock[r] = Collector THEN None ELSE lock[r]]
  /\ LET r == target[Collector]
         unowned == pointer[r] /\ space[r] \in {"bare", "foreign"}
     IN  \/ /\ unowned
            /\ Raise(Collector)
         \/ /\ ~unowned
            /\ Goto(Collector, "w-check")
            /\ UNCHANGED <<gate, gateFile, target, todo>>
         \/ /\ ~unowned /\ looks.sparing
            /\ target' = [target EXCEPT ![Collector] = None]
            /\ Goto(Collector, "picking")
            /\ UNCHANGED <<gate, gateFile, todo>>
  /\ UNCHANGED <<diskVars, moved, looks, verdict, refused, collected, swapped, torn, used>>

GcEnd ==
  /\ pc[Collector] = "picking" /\ todo[Collector] = {}
  /\ LeaveGate
  /\ Goto(Collector, "idle")
  /\ UNCHANGED <<diskVars, lock, target, todo, moved, looks, verdict, histVars>>

-----------------------------------------------------------------------------
(* StateStore.status, the part about runs *)

\* _maintenance_gate(create=False): without its file there is no gate.
StatusStart ==
  /\ pc[Inspector] = "idle" /\ used.scans < MaxScans
  /\ Spend("scans")
  /\ Goto(Inspector, IF gateFile THEN "waiting" ELSE "listing")
  /\ looks' = [looks EXCEPT !.ungated = ~gateFile]
  /\ UNCHANGED <<diskVars, lockVars, target, todo, moved, verdict, refused,
                 collected, swapped, torn>>

StatusGate ==
  /\ pc[Inspector] = "waiting"
  /\ TakeGate(Inspector)
  /\ Goto(Inspector, "listing")
  /\ UNCHANGED <<diskVars, lock, target, todo, moved, looks, verdict, histVars>>

StatusList ==
  /\ pc[Inspector] = "listing"
  /\ todo' = [todo EXCEPT ![Inspector] = Listing]
  /\ looks' = [looks EXCEPT !.found = todo'[Inspector]]
  /\ Goto(Inspector, "probing")
  /\ UNCHANGED <<moved, diskVars, lockVars, target, verdict, histVars>>

\* The call raises.
StatusRaise ==
  /\ gate' = IF gate = Inspector THEN None ELSE gate
  /\ target' = [target EXCEPT ![Inspector] = None]
  /\ todo' = [todo EXCEPT ![Inspector] = {}]
  /\ looks' = [looks EXCEPT !.found = {}, !.saw = FALSE]
  /\ Goto(Inspector, "idle")

\* _active: a lease that can be locked is inactive; the lock is given back.
StatusProbe ==
  /\ pc[Inspector] = "probing" /\ target[Inspector] = None
  /\ \E r \in todo[Inspector] :
       \/ /\ trash[r] = "torn" \/ lease[r] = "empty"
          /\ StatusRaise
          /\ UNCHANGED lock
       \/ /\ trash[r] # "torn" /\ lease[r] # "empty"
          /\ todo' = [todo EXCEPT ![Inspector] = @ \ {r}]
          /\ IF lease[r] = "ready" /\ lock[r] = None
               THEN /\ lock' = [lock EXCEPT ![r] = Inspector]
                    /\ target' = [target EXCEPT ![Inspector] = r]
               ELSE UNCHANGED <<lock, target>>
          /\ UNCHANGED <<pc, gate, looks>>
  /\ UNCHANGED <<moved, diskVars, gateFile, verdict, refused, collected, swapped, torn, used>>

StatusUnprobe ==
  /\ pc[Inspector] = "probing" /\ target[Inspector] # None
  /\ lock' = [r \in Runs |-> IF lock[r] = Inspector THEN None ELSE lock[r]]
  /\ target' = [target EXCEPT ![Inspector] = None]
  /\ UNCHANGED <<diskVars, gate, gateFile, pc, todo, moved, looks, verdict, histVars>>

StatusProbed ==
  /\ pc[Inspector] = "probing" /\ target[Inspector] = None /\ todo[Inspector] = {}
  /\ gate' = IF gate = Inspector THEN None ELSE gate
  /\ todo' = [todo EXCEPT ![Inspector] = looks.found]
  /\ Goto(Inspector, "measuring")
  /\ UNCHANGED <<diskVars, gateFile, lock, target, moved, looks, verdict, histVars>>

\* _tree_usage, without any lock: the directory is listed ...
MeasureList ==
  /\ pc[Inspector] = "measuring" /\ target[Inspector] = None
  /\ \E r \in todo[Inspector] :
       /\ todo' = [todo EXCEPT ![Inspector] = @ \ {r}]
       /\ target' = [target EXCEPT ![Inspector] = IF arena[r] = "present" THEN r ELSE None]
       /\ looks' = [looks EXCEPT !.saw = scratch[r]]
  /\ UNCHANGED <<moved, diskVars, lockVars, pc, verdict, histVars>>

\* ... then each entry is inspected: one that is gone is an error, unless the
\* whole arena is.
MeasureEntry ==
  /\ pc[Inspector] = "measuring" /\ target[Inspector] # None
  /\ LET r == target[Inspector]
     IN  IF looks.saw /\ ~scratch[r] /\ arena[r] = "present"
           THEN StatusRaise
           ELSE /\ target' = [target EXCEPT ![Inspector] = None]
                /\ looks' = [looks EXCEPT !.saw = FALSE]
                /\ UNCHANGED <<pc, todo, gate>>
  /\ UNCHANGED <<moved, diskVars, gateFile, lock, verdict, refused, collected, swapped, torn, used>>

StatusEnd ==
  /\ pc[Inspector] = "measuring" /\ target[Inspector] = None /\ todo[Inspector] = {}
  /\ Goto(Inspector, "idle")
  /\ looks' = [looks EXCEPT !.found = {}]
  /\ UNCHANGED <<moved, diskVars, lockVars, target, todo, verdict, histVars>>

-----------------------------------------------------------------------------
(* Crashes, and the whole *)

\* A process is killed: the operating system frees its locks.
Crash(p) ==
  /\ pc[p] \notin {"new", "idle", "done", "dead"} /\ used.crashes < MaxCrashes
  /\ Spend("crashes")
  /\ gate' = IF gate = p THEN None ELSE gate
  /\ lock' = [r \in Runs |-> IF lock[r] = p THEN None ELSE lock[r]]
  /\ Goto(p, IF p \in Runs THEN "dead" ELSE "idle")
  /\ torn' = IF pc[p] \in {"s-made", "s-marked", "s-failed", "s-move"}
               THEN torn \cup {p} ELSE torn
  /\ target' = IF p \in Runs THEN target ELSE [target EXCEPT ![p] = None]
  /\ todo' = IF p \in Runs THEN todo ELSE [todo EXCEPT ![p] = {}]
  /\ looks' = IF p = Inspector THEN [looks EXCEPT !.found = {}, !.saw = FALSE] ELSE looks
  /\ moved' = IF p = Inspector THEN moved ELSE [moved EXCEPT ![p] = "absent"]
  /\ UNCHANGED <<diskVars, gateFile, verdict, refused, collected, swapped>>

Remove(p) ==
  \/ WorkspaceCheck(p) \/ WorkspaceMatch(p) \/ WorkspaceMove(p) \/ WorkspaceDrop(p) \/ PointerRemove(p)
  \/ ArenaMove(p) \/ ArenaDrop(p)

Run(r) ==
  \/ EnterGate(r) \/ EnterMkdir(r) \/ EnterOpen(r) \/ EnterFill(r) \/ EnterLock(r)
  \/ EnterRecord(r) \/ EnterFails(r) \/ Undo(r) \/ Work(r)
  \/ SpaceMkdir(r) \/ SpaceMark(r) \/ SpacePoint(r) \/ SpaceVerify(r) \/ SpaceFails(r)
  \/ SpaceUndo(r) \/ SpaceRemove(r)
  \/ FinishRecord(r) \/ FinishGate(r) \/ FinishFails(r) \/ FinishKeep(r) \/ FinishUnlock(r) \/ FinishDrop(r)
  \/ Remove(r)

\* The steps of a call of gc() or status() that has begun.
Collecting == GcPick \/ GcScan \/ GcEnd \/ Remove(Collector)
Inspecting ==
  \/ StatusGate \/ StatusList \/ StatusProbe \/ StatusUnprobe \/ StatusProbed
  \/ MeasureList \/ MeasureEntry \/ StatusEnd

Next ==
  \/ \E r \in Runs : Run(r) \/ Swap(r)
  \/ \E sparing \in BOOLEAN : GcStart(sparing)
  \/ Collecting
  \/ StatusStart \/ Inspecting
  \/ \E p \in Processes : Crash(p)

Spec == Init /\ [][Next]_vars

\* A process that has not been killed goes on, and gc() is called again.
FairSpec ==
  /\ Spec
  /\ \A r \in Runs : WF_vars(Run(r))
  /\ WF_vars(GcStart(FALSE)) /\ WF_vars(Collecting) /\ WF_vars(Inspecting)

-----------------------------------------------------------------------------
(* Properties *)

\* From its lease until it gives the lease back, a run is active.
Active(r) ==
  \/ pc[r] \in {"leased", "active", "ended", "closing", "kept"}
  \/ pc[r] \in {"s-made", "s-marked", "s-pointed", "s-failed", "s-move", "s-drop"}
  \/ pc[r] \in {"w-check", "w-match", "w-move", "w-drop", "w-point"} /\ verdict[r] = "none"

\* p creates or removes an arena.
Removing(p) ==
  \/ pc[p] \in {"made", "opened", "filled", "a-move", "a-drop", "scanning"}
  \/ pc[p] \in {"w-check", "w-match", "w-move", "w-drop", "w-point"} /\ ~(p \in Runs /\ Active(p))

\* An active run has its arena and holds its lease: neither gc() nor status()
\* nor another run takes either away. ("Active runs are never removed.")  A new
\* run gets its lease ("cannot lease fresh run arena" does not occur), unless
\* a status() that began before the state root had its maintenance file, and
\* so looks around without the gate, is just then probing that lease.  And two
\* processes never create or remove arenas at the same time, although the lease
\* of an arena that is being removed is free.
ActiveSpared ==
  /\ \A r \in Runs : Active(r) =>
       arena[r] = "present" /\ lease[r] = "ready" /\ lock[r] = r
  /\ refused \subseteq {"ungated"}
  /\ \A p, q \in Runs \cup {Collector} : Removing(p) /\ Removing(q) => p = q

\* What a finish() that does not raise leaves behind.  It keeps an arena exactly
\* when its policy says so: a kept one goes only by gc() and says how its run
\* ended, of another one nothing is left, nor of its workspace.  A directory that
\* somebody else put in the workspace's place is never deleted, at whatever
\* moment it was put there.  And a workspace is always named by the pointer of an
\* existing arena, so that gc() finds it, while its run creates it excepted.
Retained ==
  /\ \A r \in Runs : pc[r] = "done" /\ verdict[r] # "none" =>
       IF Keep[r] = "always" \/ (Keep[r] = "on-failure" /\ verdict[r] = "failed")
         THEN r \in collected \/ (arena[r] = "present" /\ outcome[r] = verdict[r])
         ELSE r \in swapped \/ (arena[r] = "absent" /\ trash[r] = "none" /\ space[r] = "absent")
  /\ \A r \in swapped : space[r] = "foreign" \/ "foreign" \in discarded[r]
  /\ \A r \in Runs \ torn : space[r] \in {"bare", "own"} =>
       \/ pointer[r] /\ arena[r] = "present"
       \/ pc[r] \in {"s-made", "s-marked", "s-failed", "s-move"}

\* gc(), called again and again, removes the arena of every run that was
\* killed or that raised on its way in or out, unless it refuses an arena that
\* it cannot account for: one whose lease file is still empty, or whose pointer
\* names a directory without the marker.  gc() stops at such an arena.
Reclaimed ==
  \A r \in Runs :
    pc[r] = "dead" ~>
      \/ arena[r] = "absent" /\ trash[r] = "none"
      \/ \E q \in Runs : \/ lease[q] = "empty" \/ trash[q] = "torn"
                         \/ pointer[q] /\ space[q] \in {"bare", "foreign"}
=============================================================================
