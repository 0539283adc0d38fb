# A verification of ReproBit's state handling in TLA+

ReproBit rebuilds old MSVC binaries byte for byte. Its results can be trusted
only if the files it keeps — committed project records, the content-addressed
cache, private run directories, published targets and reports — survive
concurrent commands, crashes and edits that happen while it works, and if its
loops and worker pools end as they say. This directory models that machinery,
model-checks it with TLC on small instances, and proves with TLAPS what matters
most for every instance.

## The parts and how they meet

| Part (under `src/src/reprobit/`) | What makes it hard | Module |
|---|---|---|
| Transactions: `transactions.py` on `secure_paths_posix.py` | crash or I/O error at any rename, editors that ignore the lock, recovery of a recovery | `Transactions`, abstractly `AtomicUpdate` |
| Cache: `cache.py`, `state_lock.py` | collector against readers and publishers, stale leases, a crash between blob and record | `CacheStore` |
| Scheduler: `scheduler.py`, `dag_queue.py` | failures while siblings run, two kinds of limits | `Scheduler` |
| Warm build: `incremental_executor.py` | workers, a lazily built runtime, outputs overwritten by others, nothing published unless everything succeeded | `WarmExecutor` |
| Processes: `process.py` | deadline, output limit, token, `close()` and the process itself race | `Supervisor` |
| Local state: `state.py` | a crash between two creations, a collection meanwhile | `RunArenas` |
| Targets, reports, receipt: `classic_publication.py`, `engine.py`, `action_summary.py` | a failure between two of several replacements | `Publication` |
| Repair: `repair_workflow.py` | nested loops over shared budgets | `RepairLoop` |
| Source lock, regeneration, CMake import, graph extraction, refresh | plan first, commit later, several commands at once | `ProjectRecords` |
| Producer graph: `classic_runtime*.py` | lazy pool of lanes over one Wine runtime | `ProducerRun` |
| Discovery: `discovery.py`, `discovery_cli.py` | resumed campaigns, killed workers, a compiler that changes | `Discovery` |

The parts meet at promises, and each model uses the promise of the part below
it. A command of `ProjectRecords` commits by compare and swap: all of its files or
none, which is `AtomicUpdate`, the specification that `Transactions` is shown to
implement; readers take no lock, so they may see some of the files before the
decision. `WarmExecutor` uses a cache whose records never change and whose
collector stands still while a lease is held: these are `RecordsNeverChange` and
`CollectsAlone` of `CacheStore`.
Workers of `Scheduler` end because every process has a deadline and is killed
after it: that is `Ends` of `Supervisor`.

Stateless parts (schema, loaders, toolchain drivers, binary parsers and the
rewriting algorithms of `classic/`, rendering, argument parsing) have no control
that a model checker would explore; `components` in `PROJECT.json` lists each
with its reason.

`map` in `PROJECT.json` gives the source lines of every definition. A name like
`LeaseLockIf`, `LoopTo`, `ScanInto` or `HandleUpTo` is the body of an action
with one decision as a parameter. The action fixes that decision as the code
does; a definition marked *Mutant* fixes it as a plausible mistake would, and
some property of a run must then fail.

## The models

### Transactions

State that survives a crash: the file at each project path, files preserved
under guard names, and the private seat directory of a transaction with its
journal, staged files and backups. Volatile state: who holds the project lock and
at which step. Each rename, unlink and journal replacement
is an action, so a crash or an I/O error can fall between any two of them. A
journal is replaced in two renames, as `atomic_publish_relative` does it; in
between, the seat has no journal. An external writer changes or deletes project
files at any time without taking the lock. A file is a version: who made it, which
one it was, and its digest. Two versions may have the same digest and still be
told apart, as the code does by inode.

An error falls into one of three kinds, as the code tells them apart. One inside
the `try` of `commit` starts the rollback. A `TransactionError` while a seat is
cleared ends a rollback or becomes the warning of a successful commit (`Raise`). Any
other exception while the seat of a decided commit is cleared reaches the caller
(`FaultAfterDecision`). `torn` and `dropped` follow the one case in which recovery
destroys content: a seat that lost its journal while the journal said applying.

### CacheStore

State that survives a crash: records (a key and the set of its digests), blobs,
one index file, lease markers. Advisory locks die with their holder. A build is
one program counter that follows `lease`, `lookup`, `restore`, `stage_record`,
`publish_record`, `index_record` and `close`; one blob is probed, promoted or
validated per step. `gc` takes the gate, examines every marker in three steps
(look, lock, unlink), counts, then removes records, blobs and the index. `status`
examines markers in the same way without the gate. `withdrawn` remembers the
digests whose promotion was undone by `promote_relative_new` after an I/O error:
a sibling may have accepted such a blob before it vanished, the one way in which
a record can lose a blob. `lease` may be refused by a `status` that is just
probing the new marker, and `close` may raise because `gc` was faster in removing
it; both happen in the model, and no property forbids them.

### Scheduler

Task identifiers are numbers; `sorted` and the heap follow their order, which
has nothing to do with the dependencies (the code's heap compares case-folded
names first, a second order that no property tells apart). `Rank` only shows that
the graph is acyclic. The scheduling thread takes one action per turn of its
loops; worker threads start and end at any time. A cancelled worker may still
succeed or fail by itself.

### WarmExecutor

The main thread hands out nodes, waits, collects, and after the last one closes
the runtime, reads every output again and publishes; each worker probes, looks
up, restores or executes, and stages. A key stands for the contents of the data
dependencies. The executor's snapshot of a dependency is its outcome. A probe may
miss although a record exists, as any unreadable record makes it. A producer may
overwrite the output of another node, also before that node's worker has staged
it (`forged`). `KeyboardInterrupt` may come in the loop, in the join of the workers
(`result = "rushed"`: lease and runtime then go while workers are at work) or
later, any number of times. A crash, a sibling build that publishes, an overwrite
and a collection share the bound `MaxEvents`.

### Supervisor

One thread per command and one process group per attempt: a leader, and helpers
that may outlive it. Deadline, output limit, token, `close()`, I/O errors and the
processes act in any order; time is a choice. SIGTERM may be ignored, SIGKILL
works within the grace period unless a process is stuck in the kernel. Process
ids are not reused and helpers stay in their group. An exception
(`KeyboardInterrupt` or any other) may come at every step after the launch. In the
loop it goes to the handler, which ends the group. While the handler or `_spawn` is
ending the group, or before `_one_attempt` has the child, nothing more is tried:
the attempt ends as `"cut"`, and the group may go on running. Callers cancel the
token before they call `cancel_all` (`atexit` forces), and Windows job objects are
left out.

### RunArenas

An arena under `runs/` with its lease, an external workspace with its pointer and
its marker, `finish()`, `gc()` and `status()` under the maintenance gate. A
directory is removed by a rename to a private name, a check, and a removal there;
another program may swap a directory in between. Any process may be killed
between two steps. `__enter__` and `finish` may raise at each of their calls; an
error in the constructor of the lease lock leaves an arena with an empty lease
file. A `status` that began before the maintenance file existed works without the
gate.

### Publication

One verification (or build) from its first replaced target to the completion
receipt: three renames per file, rollback in reverse, the seal, both reports and
their withdrawal, against other writers, `state gc`, errors and crashes. The
comparison of a set of files is one step, and so is a removal; files left under a
guard name are not brought back later, as in the code.

### RepairLoop

`repair_classic_records` and `execute_repair_attempt`: passes, the order of
stages, donor groups and budgets. What an analysis or a search finds is open, a
refused overrun included. Only census discovery adds function records, and
retirement removes them without using a round.

### ProjectRecords

Each command reads file by file without a lock, decides, and commits what
`AtomicUpdate` allows, in two steps: `Commit` compares what was read and installs
the first few of the new files under the project lock (`held`), `Settle` installs
the rest and decides, or puts everything back. Readers in between see the mixture.
A rollback brings earlier contents back, and a command that read what is gone again
takes the file for unchanged; `returned` marks that. Sources, manifest, plan, graph and record shards are
kept by what they pin in each other. `--path` is any non-empty selection. A
project is at first only locked, or imported and valid. `load_project_tree` is one
step; units are the sources of the graph; overlays and donor pins are left out;
reports and outputs of a refresh belong to `Publication`.

### ProducerRun

One phase: `run_graph_nodes` with its pool of threads, `run_node`, the pool of
lanes between the critical sections of its condition, and the Wine runtime from
the binding lock to its shutdown. `KeyboardInterrupt` may come in the loop, in the
join of the threads and while the server is stopped (`hurried`). The available
lanes are a set (the code keeps a stack, and no property tells lanes apart). The
server does not die by itself. Other users of the pool (donor and probe runs), the
progress-total error and native Windows lanes are left out: what is shown of lanes
is shown for the callers inside one phase.

### Discovery

`discover run` under the session lock, so one campaign at a time, over a cache
and workspaces that later campaigns find again. Compiler, implementations and
source are one version number, 0 or 1, that changes and may change back. Reading
the observations of a cell is one step with its compilation's result. An interrupt
comes in the loop or in the join of the threads (`rushed`).
`discover clean`, `register` and `inspect` and the assertions of the report commit are left
out.

## Runs

Every run is expected to pass. `MC...` modules give the instances; each `.cfg`
names its bounds.

| Run | Instance | Distinct states | Properties |
|---|---|---|---|
| `txn_contended` | one transaction object of six possible plans over two paths, two `commit` calls, two steps of an external writer, three crashes or I/O errors | 1,612,467 | `NothingLost`, `NoResidue`, `NoResurrection`, `OutcomeReported` |
| `txn_atomic` | two transactions and `recover`, one `commit` call each, one crash or I/O error, no external writer | 77,846 | `AtomicUpdates` (refinement), `CommitReturns` |
| `cache_shared` | two builds, two keys with a shared digest, two collections (dry ones included), one `status` call, one crash or I/O error | 4,031,203 | `LeaseHeld`, `RecordsComplete`, `HintsKept`, `CollectsAll` |
| `sched_graph` | seven tasks, three workers, one class limited to one | 3,410 | `DependenciesFirst`, `Accounted`, `WorkConserving`, `Returns` |
| `warm_twice` | two calls over three nodes, two workers, one crash, sibling, overwrite or collection, failures and interrupts anywhere | 2,960,186 | `PublishedByWholeRun`, `ProvisionalSpreads`, `Genuine`, `OutliveWorkers` |
| `proc_owned` | one command with a retry, two faults (I/O errors or exceptions), one stuck process, one `cancel_all`, `close` | 787,630 | `NothingLeft`, `CloseReachesAll`, `HonestResult`, `Ends` |
| `arena_swept` | one run with a workspace and policy on-failure, `gc`, `status`, one fault, one crash, one swap | 185,358 | `ActiveSpared`, `Retained`, `Reclaimed` |
| `publish_verified` | one verification with two targets and two reports, two foreign writes, one fault, one crash, one sweep | 1,892,567 | `OutputsWhole`, `CertifiedTogether`, `SummaryIsCurrent` |
| `repair_bounded` | two function records, two donor groups, two rounds, one candidate | 754,910 | `BoundFits`, `EveryGroupTried`, `Ends` |
| `records_commands` | two of six commands, two sources with two texts, one edit, one failure | 2,472,412 | `CoherentUnlessReturned`, `FailedImportWhole`, `LockedAsIs` |
| `producers_shared` | five nodes on three threads, two failures or interrupts | 68,334 | `LaneExclusive`, `NobodyWaits`, `RuntimeGone` |
| `discovery_resumed` | two campaigns, two cells, two workers, two limits, two changes of the compiler, kills and interrupts | 2,186,325 | `Covered`, `ReportGenuine`, `LimitExact` |

What they show, with the exceptions the code has (each is written in the property):

- Transactions. Content of the project is never lost, but for what only the
  backups of a seat without a journal held (`dropped`). A transaction whose seat is
  gone has left no undecided output, and recovery refuses a seat only where the
  external writer was. Files that a decided commit replaced stay away. A `commit`
  that raises was not decided, unless something other than a `TransactionError`
  came while the seat was cleared. Without an external writer, with one fault, the
  project changes only by whole transactions.
- Cache. A held lease has its marker and its lock. Records have their blobs unless
  a promotion was withdrawn. A collection that ends has removed every blob that no
  record names, also after one that was killed half-way. No build loses the hints
  of another.
- Scheduler. Order of dependencies, one account per task, no idle capacity while
  nothing has failed, and `run` returns.
- Warm build. Records come only from calls that succeeded as a whole; what is built
  on a provisional output is provisional; hits are what an execution would give,
  but for an output that a foreign producer replaced before it was staged; lease,
  blobs and runtime outlive the workers unless Ctrl-C cuts their join short.
- Processes. No group outlives its attempt unless it is stuck or the attempt was cut
  while its group was being ended; `close` reaches all others; a result has its
  cause; `run` ends.
- Arenas. Active runs keep arena and lease; what is kept follows the policy; what
  dead runs left is reclaimed unless `gc` refuses the arena (empty lease file, or a
  pointer to a directory without the marker).
- Publication. Targets are whole or restored, reports certify what was on disk, and
  the summary shows only a completed pair.
- Repair. The analysis bound refuses only sessions that added records, every donor
  group is tried, and the repair ends.
- Records. They stay bound to each other while no file returns to earlier contents;
  a manifest describes the disk at its commit; a failed import leaves all or
  nothing.
- Producers. Lanes are exclusive and never waited for; drive and server do not
  outlive the run, but for a replaced executable or a Ctrl-C during the shutdown.
- Discovery. Work is covered by lease and server until a Ctrl-C in the join;
  reports rest on objects of the compiler they name unless it was replaced and came
  back; whether the limit is crossed does not depend on timing.

Bounds. The properties relate two builds, a build and a collector, two commands,
or a transaction and a recovery, so two actors of a kind meet in every order that
matters. Three faults in `txn_contended` are an error, an error in its rollback and
a crash in the recovery that follows. Two faults in `proc_owned` and
`producers_shared` are an error and one in its handling. One fault is all that TLC
can exhaust in `cache_shared`; the theorems have no such bound. The external writer
takes two steps, so that it can act before and after a move. Two keys with a shared
digest are the least that lets one record keep a blob of another, and one of them
has two possible outputs, the least for a conflict. Two collections let one be
killed and the next clean up. The seven tasks have chains and joins, roots of both
classes, and dependents that sort before what they wait for. `MaxHints = 2` lets the
index fill up. Two changes of the compiler let it come back. Two supervised commands
are too many for TLC; the proofs cover any number. With two cells and two workers a
campaign submits all its cells at once, so a refill after a first batch has nothing
left to submit. Every bound is a named constant, and the theorems hold for all of
them. Symmetry is used only in runs without liveness (`cache_shared`,
`records_commands`).

Fairness. The process that holds the project lock goes on until it returns or
dies, and some later command recovers (`AcquireRecover`): every `commit` begins
with a recovery. The scheduling thread runs, and each worker ends because its
process has a deadline. A supervised thread goes on, its deadline and grace
periods pass, and a killed process dies unless it is stuck. A run that has begun
goes on, and `gc` is called again some time (`Reclaimed` promises nothing
otherwise). The repair loop takes its next step. Nothing is assumed of crashes,
I/O errors, external writers, or the start of a transaction. The other runs
(`txn_contended`, `cache_shared`, `warm_twice`, `publish_verified`,
`records_commands`, `producers_shared`, `discovery_resumed`) check safety only and
assume no fairness.

Deadlock is checked in the runs of `Transactions`, `CacheStore`, `Scheduler` and
`RunArenas`. The first three have an action, enabled only when all calls are over,
that stands for the end; in `RunArenas` `gc` can always be called again. The other
seven configurations say `CHECK_DEADLOCK FALSE`: their runs stop when the bounded
calls are over.


## Proofs

TLAPS checks every proof. The constants are arbitrary within the assumptions that
each module names (`ConstantsAssumption`, `GraphAssumption`, `WarmAssumption`, ...):
process names are distinct, there are keys and digests, graphs are finite and
acyclic, limits are positive, "no file" is not a version. TLC evaluates these
assumptions in the runs.

`TransactionsProofs` proves `IInv`: `TypeOK`, `Control`, `OneSeat` and
`OutcomeReported`. `Control` says for each label of the lock holder whose seat it
works on, where it returns to, and whether its transaction is decided by then; this
is what `OutcomeReported` needs to be inductive, because whether a step that ends
`commit` may raise depends on how the holder came to it. `TypeOK` gives every
journal, staged and backup entry that a step is about to use. The proof has one
lemma per action; steps that move no file or end a call are treated once.

`CacheStoreProofs` proves two invariants. `IInv` has three parts. `Shape` types the
functions. `Leases` is the argument of `gc`: whoever is inside `lease` or `gc` has
the gate (`GateHeld`); while markers are examined, each lease in use is still to
be examined or was counted (`ScanSound`); the marker about to be removed belongs
to no lease in use (`TargetStale`), because a lease in use keeps its lock
(`LeaseHeld`) and no lease can be taken without the gate. Hence no build is inside
a lease when removal starts (`CollectorAlone`). `Store` is the argument about
blobs: what a build has probed, promoted or validated stays known while it holds
its lease (`Held`), because only a collection forgets blobs, and a collection
keeps what retained records name (`Retained`). `FullInv` adds the rest of the types
(`Kinds`), what is left to remove at each point of a collection (`Sweep`), that the
build replacing the index has the latest one (`Index`), and which record a build
may withdraw (`Owned`); from it follow `NoHintLost`, `CollectionComplete` and
`RecordsNeverChange`.

`SchedulerProofs`: `IInv` says where each task is and what its worker told
(`Places`), what the queue has released (`Released`), that the counters count
(`Counted`), and that a cancellation has a failure behind it (`Caused`). That run
never gets stuck is a least-rank argument: with no task running, the
pending task of least rank has all dependencies completed, so it was released, and
the limits are positive, so it was submitted.

`WarmExecutorProofs`: `IInv` follows a node from its submission to its record.
`Queue` says what the main thread knows of a worker, `Runtime` and `Lease` who may
use what, `Blobs`, `Origin` and `Trust` what a receipt is worth, `Sealed` what was read
again before anything is published. `Genuine` needs `Origin`: an outcome goes back
to an execution on exactly the outcomes this call has for its dependencies.

`SupervisorProofs`: for each command, where its group stands at each label
(`GroupInv`), what is registered and signalled (`SignalInv`), what the result may
say (`ReportInv`), why there was another attempt (`RetryInv`). A step of one
command leaves the others alone, so each action is proved for its own command, and
`cancel_all` and `close` for all of them.

`RepairLoopProofs`: `Inductive` counts passes (`PassesCounted`: each pass but the
running one used a round or retired function records), which is why the analysis
bound suffices; it also ties the last analysis to the current guidance.

`ProducerRunProofs`: `Inductive` says that the lists of the pool agree with what the
workers hold (`Lanes`), that no more than `Jobs` nodes are in flight (`InFlight`)
and that a run that closes, unless hurried, has no worker left (`Joined`).
`NobodyWaits` is then a counting argument. A second invariant, `Runtime`, ties
server, drive and binding lock to the worker that initializes them; `RuntimeGone`
follows from both.

`theorems` in `PROJECT.json` lists the results and the properties they generalise.

### Only model-checked

- Liveness (`CommitReturns`, `Returns`, `Reclaimed`, and `Ends` of `Supervisor` and of
  `RepairLoop`): TLAPS 1.4.5 proves no fairness argument and nothing about ENABLED.
- `NothingLost`, `NoResidue` and `NoResurrection`, each about what a later recovery
  will do with what is on disk now, and `AtomicUpdates`, the refinement, which is
  stated for the case without an external writer. No proof of them is kept.
- `LimitExact` of `Discovery`: it compares with a sum over a set (`FoldSet`), which
  needs induction over data.
- The properties of `RunArenas`, `Publication`, `ProjectRecords`, and `Covered` and
  `ReportGenuine` of `Discovery`. Nothing prevents a proof; none has been written.

## Where code and comments disagree

Met while modelling. The models contain these behaviours, and the properties name
them as exceptions where they would break.

- A crash while an *applying* journal is being replaced leaves a seat without a
  journal (`secure_paths_posix.py:562-573`, called from `transactions.py:1450`, and
  from 1479 for the decision). Recovery takes it for one that never started and
  deletes it, backups included; the comment at `transactions.py:1306` speaks of a
  seat made "recoverable before creating its payloads". `dropped` in `NothingLost`
  and `NoResidue`.
- `commit` catches only `TransactionError` while it clears the seat of a decided
  commit (`transactions.py:1509-1521`); any other exception reaches the caller of a
  commit that took effect. `late` in `OutcomeReported`.
- `promote_relative_new` takes a blob away again after a failed directory sync,
  though a sibling may have accepted it. `withdrawn` in `RecordsComplete`.
- `lease` is refused while a `status` probe holds the new marker's lock
  (`cache.py:369-370`, "fresh cache lease could not be acquired"), and `close` can
  raise over a marker that `gc` removes at the same time, which the comment at
  `cache.py:785-787` calls a benign convergence.
- The reported primary failure is the least identifier among the failures that are
  not cancellations (`scheduler.py:263`), not always "the initiating failure" of the
  comment at line 256. `PrimaryIsAFailure` states what does hold.
- `discovery.py:681-682` says that cells published before a failure "can be resumed
  safely". A cell compiled by another compiler than its key names is published too;
  it is reused when the first compiler comes back. `Back` in `ReportGenuine`.
- `state.py:490` takes the lease of a "freshly-created path" to be free. A `status`
  that began before the maintenance file existed (`state.py:165-167`) may be probing
  it: `refused` in `ActiveSpared`. An error in the constructor of the lock
  (`state.py:488`) leaves an arena with an empty lease, at which `gc` stops.
- A `KeyboardInterrupt` in a join or while a group is being ended leaves work
  running: `"cut"` in `Supervisor`, `"rushed"` in `WarmExecutor`, `hurried` in
  `ProducerRun`, `rushed` in `Discovery`.

## Limits of the models

- Transactions: `assert_json_members`, replaced parent directories, the Windows
  primitives, and edits in place of a file already moved to its backup.
- Cache: creation of the layout, families of implementations (they select which
  records are old), validation of bytes, the tree walk of `status` (it changes no
  state), leftovers in `incoming/`. Time is abstracted: any record or index may be
  old.
- Scheduler: the single-use guard, the contents of workspaces, cancellation from
  outside the run.
- The other models: see their sections above. Stateless parts: see `components` in
  `PROJECT.json`.
