---------------------------- MODULE WarmExecutor ----------------------------
(***************************************************************************)
(* IncrementalDAGExecutor.execute of src/reprobit/incremental_executor.py: *)
(* the main thread hands the nodes of a graph to a pool of workers, each   *)
(* worker restores its node from the cache or runs its producer in a       *)
(* runtime that all share, and only when every node is done, the runtime   *)
(* closed and every output read again do the new cache records appear.     *)
(*                                                                         *)
(* A node's key stands for the contents of its data dependencies, as the   *)
(* callers' key factories compute it; an output is one of a few values.    *)
(* The cache is what CacheStore promises: a record never changes, and the  *)
(* collector does nothing while a lease is held.  Other builds publish     *)
(* into the same cache, a producer may overwrite an output that is not     *)
(* its own, and execute() may be called again after it ended or died.      *)
(***************************************************************************)
EXTENDS Integers, FiniteSets

CONSTANTS Nodes,        \* a finite set of numbers: identifiers in casefold order
          Deps,         \* depends_on
          OrderOnly,    \* order_only
          Rank,         \* numbers that show the graph to be acyclic
          Values,       \* what a producer may write
          MaxWorkers,
          Restoring,    \* materialize_cache_hits
          MayWithhold,  \* the nodes that have a publish_result callback
          None, Absent,
          MaxRounds, MaxEvents  \* bounds: calls; crashes, siblings and overwrites

ASSUME WarmAssumption ==
  /\ Nodes \in SUBSET Nat /\ IsFiniteSet(Nodes) /\ Nodes # {}
  /\ Deps \in [Nodes -> SUBSET Nodes] /\ OrderOnly \in [Nodes -> SUBSET Nodes]
  /\ \A n \in Nodes : OrderOnly[n] \subseteq Deps[n]
  /\ Rank \in [Nodes -> Nat]
  /\ \A n \in Nodes : \A d \in Deps[n] : Rank[d] < Rank[n]
  /\ MaxWorkers \in Nat \ {0} /\ Restoring \in BOOLEAN
  /\ MayWithhold \subseteq Nodes
  /\ Absent \notin Values
  /\ \A v \in Values, p \in BOOLEAN, h \in BOOLEAN :
       None # [content |-> v, hit |-> h, publishable |-> p]
  /\ MaxRounds \in Nat /\ MaxEvents \in Nat

VARIABLES
  phase,       \* where the main thread is
  handed,      \* nodes that the queue has released
  running,     \* the futures not collected yet
  done,        \* what wait() returned and is not collected yet
  outcome,     \* outcomes: the NodeOutcome of each collected node
  worker,      \* what each node's future is doing
  got,         \* the NodeOutcome each future returned
  token,       \* CancellationToken.cancelled
  runtime,     \* _LazyRuntime: "none", "open", "broken" or "closed"
  clean,       \* runtime_closed: its close() returned
  lease,
  staged,      \* staged_records
  unpublished, \* those that the last loop has not published yet
  counted,     \* progress_count
  result,
  disk,        \* the outputs in the workspace
  records, blobs,
  \* history that only properties read, and counters of bounded actions
  executions,  \* every run of a producer: node, inputs and output
  forged,      \* outputs that another producer replaced before they were staged
  published,   \* the nodes whose record this call has published
  calls,       \* how often this call has built and has closed the runtime
  used

mainVars == <<phase, handed, running, done, outcome, result>>
nodeVars == <<worker, got, counted, staged>>
cacheVars == <<lease, records, blobs>>
histVars == <<executions, forged, published, calls, used>>
vars == <<mainVars, nodeVars, cacheVars, histVars, token, runtime, clean, unpublished, disk>>

\* The cache holds what earlier builds left: nothing, at first.
Init ==
  /\ phase = "start" /\ handed = {} /\ running = {} /\ done = {}
  /\ outcome = [n \in Nodes |-> None]
  /\ worker = [n \in Nodes |-> "none"] /\ got = [n \in Nodes |-> None]
  /\ token = FALSE /\ runtime = "none" /\ clean = FALSE
  /\ lease = FALSE /\ staged = {} /\ unpublished = {} /\ counted = 0
  /\ result = "none"
  /\ disk = [n \in Nodes |-> Absent]
  /\ records = {} /\ blobs = {}
  /\ executions = {} /\ forged = {} /\ published = {}
  /\ calls = [built |-> 0, closed |-> 0]
  /\ used = [rounds |-> 1, events |-> 0]

-----------------------------------------------------------------------------
(* Nodes, keys and the cache *)

Data(n) == Deps[n] \ OrderOnly[n]

DataConsumers == UNION {Data(n) : n \in Nodes}

\* What the producer of a node reads: the outcomes of its data dependencies.
\* Those are final when the node is submitted, so the snapshot that its worker
\* gets and the outcomes themselves agree on them.
Inputs(n) == [d \in Data(n) |-> outcome[d].content]

\* The key that the classic factories make of them: dependency_material names
\* each dependency's outputs by their contents.
Key(n) == Inputs(n)

Record(n, v) == [node |-> n, key |-> Key(n), content |-> v]
Execution(n, v) == [node |-> n, key |-> Inputs(n), content |-> v]

DependenciesPublishable(n) == \A d \in Data(n) : outcome[d].publishable

Least(S) == CHOOSE n \in S : \A m \in S : n <= m

Active == {"submitted", "begun", "missed", "holding", "executing", "executed"}
AtWork == {n \in Nodes : worker[n] \in Active}

-----------------------------------------------------------------------------
(* A worker: run() *)

WorkerTo(n, label) == worker' = [worker EXCEPT ![n] = label]

\* The token is checked first.
Begin(n) ==
  /\ worker[n] = "submitted"
  /\ WorkerTo(n, IF token THEN "failed" ELSE "begun")
  /\ UNCHANGED <<mainVars, got, counted, staged, cacheVars, histVars, token, runtime, clean,
                 unpublished, disk>>

\* The probe, or the key and lookup: a hit is restored or validated, counted
\* and returned.  A probe may find no key, a provisional dependency is a miss,
\* and a lease that was given up refuses.
ProbeFor(n, usable) ==
  /\ worker[n] = "begun"
  /\ \/ /\ DependenciesPublishable(n) /\ lease
        /\ \E r \in usable :
             /\ r.node = n /\ <<n, r.content>> \in blobs
             /\ got' = [got EXCEPT ![n] =
                          [content |-> r.content, hit |-> TRUE, publishable |-> TRUE]]
             /\ disk' = IF Restoring THEN [disk EXCEPT ![n] = r.content] ELSE disk
        /\ counted' = counted + 1
        /\ WorkerTo(n, "ok")
     \/ /\ WorkerTo(n, "missed")
        /\ UNCHANGED <<got, counted, disk>>
  /\ UNCHANGED <<mainVars, staged, cacheVars, histVars, token, runtime, clean, unpublished>>

\* Mutant: a record from a different cache identity is accepted.
ProbeAny(n) == ProbeFor(n, records)

Probe(n) == ProbeFor(n, {r \in records : r.key = Key(n)})

\* Any call of the worker may raise: the probe, the restore, the inputs, the
\* producer, the key after it, a missing output, pre_store, the staging.
WorkerFails(n) ==
  /\ worker[n] \in {"begun", "missed", "executing", "executed"}
  /\ WorkerTo(n, "failed")
  /\ UNCHANGED <<mainVars, got, counted, staged, cacheVars, histVars, token, runtime, clean,
                 unpublished, disk>>

\* _LazyRuntime.get, under its lock: built by the first caller, and an error
\* of the factory is remembered for all others.
GetRuntime(n) ==
  /\ worker[n] = "missed"
  /\ \/ /\ runtime = "none"
        /\ calls' = [calls EXCEPT !.built = @ + 1]
        /\ \/ runtime' = "open" /\ WorkerTo(n, "holding")
           \/ runtime' = "broken" /\ WorkerTo(n, "failed")
     \/ /\ runtime # "none"
        /\ WorkerTo(n, IF runtime = "broken" THEN "failed" ELSE "holding")
        /\ UNCHANGED <<runtime, calls>>
  /\ UNCHANGED <<mainVars, got, counted, staged, cacheVars, executions, forged, published, used,
                 token, clean, unpublished, disk>>

\* The token is checked again before the producer runs.
Launch(n) ==
  /\ worker[n] = "holding"
  /\ WorkerTo(n, IF token THEN "failed" ELSE "executing")
  /\ UNCHANGED <<mainVars, got, counted, staged, cacheVars, histVars, token, runtime, clean,
                 unpublished, disk>>

\* node.execute: the producer reads private copies of its inputs and writes
\* its output into the workspace; a missing one is one of WorkerFails.
Execute(n) ==
  /\ worker[n] = "executing"
  /\ \E v \in Values :
       /\ disk' = [disk EXCEPT ![n] = v]
       /\ executions' = executions \cup {Execution(n, v)}
  /\ WorkerTo(n, "executed")
  /\ UNCHANGED <<mainVars, got, counted, staged, cacheVars, forged, published, calls, used, token,
                 runtime, clean, unpublished>>

\* The token, then publish_result and stage_record or snapshot_record: only a
\* node that is published or read by another puts its output into the cache.
StoreIf(n, publish) ==
  /\ worker[n] = "executed"
  /\ \/ /\ token
        /\ WorkerTo(n, "failed")
        /\ UNCHANGED <<got, counted, staged, blobs>>
     \/ /\ ~token
        /\ blobs' = IF publish \/ n \in DataConsumers THEN blobs \cup {<<n, disk[n]>>} ELSE blobs
        /\ staged' = IF publish THEN staged \cup {n} ELSE staged
        /\ got' = [got EXCEPT ![n] =
                     [content |-> disk[n], hit |-> FALSE, publishable |-> publish]]
        /\ counted' = counted + 1
        /\ WorkerTo(n, "ok")
  /\ UNCHANGED <<mainVars, lease, records, histVars, token, runtime, clean, unpublished, disk>>

\* publish_result: a node without the callback is published.
MayPublish(n) == {TRUE} \cup (IF n \in MayWithhold THEN {FALSE} ELSE {})

\* Mutant: the node's own callback alone decides whether it is published.
StoreOwnDecision(n) == \E p \in MayPublish(n) : StoreIf(n, p)

Store(n) == \E p \in MayPublish(n) : StoreIf(n, DependenciesPublishable(n) /\ p)

-----------------------------------------------------------------------------
(* The main thread *)

\* IncrementalCache.lease
Acquire ==
  /\ phase = "start"
  /\ lease' = TRUE
  /\ phase' = "loop"
  /\ UNCHANGED <<handed, running, done, outcome, result, nodeVars, records, blobs, histVars,
                 token, runtime, clean, unpublished, disk>>

Collected == {n \in Nodes : outcome[n] # None}

\* DependencyQueue: nodes whose predecessors have been collected.
Ready == {n \in Nodes \ handed : Deps[n] \subseteq Collected}

\* take_ready: the first of them, as many as there are workers free.
Batch(limit) ==
  {n \in Ready : Cardinality({m \in Ready : m < n}) < limit}

\* The top of the loop: submit, or leave it when the queue is finished.
Submit ==
  /\ phase = "loop"
  /\ \/ /\ Collected = Nodes
        /\ phase' = "close"
        /\ UNCHANGED <<handed, running, worker>>
     \/ /\ Collected # Nodes
        /\ LET batch == Batch(MaxWorkers - Cardinality(running))
           IN  /\ handed' = handed \cup batch
               /\ running' = running \cup batch
               /\ worker' = [n \in Nodes |-> IF n \in batch THEN "submitted" ELSE worker[n]]
        /\ phase' = "wait"
  /\ UNCHANGED <<done, outcome, result, got, counted, staged, cacheVars, histVars, token,
                 runtime, clean, unpublished, disk>>

\* wait(FIRST_COMPLETED)
Wait ==
  /\ phase = "wait"
  /\ running \ AtWork # {}
  /\ done' = running \ AtWork
  /\ phase' = "collect"
  /\ UNCHANGED <<handed, running, outcome, result, nodeVars, cacheVars, histVars, token,
                 runtime, clean, unpublished, disk>>

\* The except clause: cancel the token and the futures that have not started.
CancelRest(rest) ==
  /\ token' = TRUE
  /\ worker' = [n \in Nodes |->
                 IF n \in rest /\ worker[n] = "submitted" THEN "dropped" ELSE worker[n]]
  /\ done' = {}
  /\ phase' = "drain"

\* One finished future, in the order of identifiers.
Collect ==
  /\ phase = "collect"
  /\ \/ /\ done = {}
        /\ phase' = "loop"
        /\ UNCHANGED <<running, done, outcome, token, worker>>
     \/ /\ done # {}
        /\ LET n == Least(done)
           IN  /\ running' = running \ {n}
               /\ \/ /\ worker[n] = "ok"
                     /\ outcome' = [outcome EXCEPT ![n] = got[n]]
                     /\ done' = done \ {n}
                     /\ UNCHANGED <<phase, token, worker>>
                  \/ /\ worker[n] # "ok"
                     /\ CancelRest(running \ {n})
                     /\ UNCHANGED outcome
  /\ UNCHANGED <<handed, result, got, counted, staged, cacheVars, histVars, runtime,
                 clean, unpublished, disk>>

\* KeyboardInterrupt reaches the main thread in its loop.
Interrupt ==
  /\ phase \in {"loop", "wait", "collect"}
  /\ CancelRest(running)
  /\ UNCHANGED <<handed, running, outcome, result, got, counted, staged, cacheVars,
                 histVars, runtime, clean, unpublished, disk>>

\* The pool's exit waits for every worker.
DrainIf(joined) ==
  /\ phase = "drain" /\ joined
  /\ result' = "failed"
  /\ phase' = "release"
  /\ UNCHANGED <<handed, running, done, outcome, nodeVars, cacheVars, histVars, token,
                 runtime, clean, unpublished, disk>>

\* Mutant: the pool is left without waiting for its workers.
DrainAtOnce == DrainIf(TRUE)

Drain == DrainIf(AtWork = {})

\* KeyboardInterrupt while it waits for the workers, some still at work, or
\* after that: the lease and the runtime are given up on the way out.
InterruptLate ==
  /\ phase \in {"drain", "close", "seal", "publish"}
  /\ result' = IF phase = "drain" THEN "rushed" ELSE "failed"
  /\ phase' = "release"
  /\ UNCHANGED <<handed, running, done, outcome, nodeVars, cacheVars, histVars, token,
                 runtime, clean, unpublished, disk>>

\* _LazyRuntime.close: what was built is closed once, even if that raises.
CloseRuntime ==
  /\ runtime' = IF runtime = "open" THEN "closed" ELSE runtime
  /\ calls' = IF runtime = "open" THEN [calls EXCEPT !.closed = @ + 1] ELSE calls

Transient == {n \in Nodes : ~outcome[n].publishable /\ n \notin DataConsumers}

\* After the pool: close the runtime, then see what is to be checked.
Close ==
  /\ phase = "close"
  /\ CloseRuntime
  /\ \/ /\ phase' = IF staged # {} \/ Transient # {} THEN "seal" ELSE "release"
        /\ result' = IF phase' = "release" THEN "ok" ELSE result
        /\ clean' = TRUE
     \/ /\ runtime = "open"
        /\ phase' = "release" /\ result' = "failed"
        /\ UNCHANGED clean
  /\ UNCHANGED <<handed, running, done, outcome, nodeVars, cacheVars, executions, forged,
                 published, used, token, unpublished, disk>>

\* Is the output of n still what its receipt says?  A hit that was not
\* restored has no copy in the workspace; its blob is read again.
Intact(n) ==
  IF outcome[n].hit /\ ~Restoring
    THEN <<n, outcome[n].content>> \in blobs
    ELSE disk[n] = outcome[n].content

\* before_publish, which may raise, and the second reading of the outputs:
\* of all of them before records are published, else of the transient ones.
SealOver(nodes) ==
  /\ phase = "seal"
  /\ \/ /\ \A n \in nodes : Intact(n)
        /\ unpublished' = staged
        /\ phase' = "publish"
        /\ UNCHANGED result
     \/ /\ \/ staged # {}
           \/ \E n \in nodes : ~Intact(n)
        /\ phase' = "release" /\ result' = "failed"
        /\ UNCHANGED unpublished
  /\ UNCHANGED <<handed, running, done, outcome, nodeVars, cacheVars, histVars, token,
                 runtime, clean, disk>>

\* Mutant: only what this call is going to publish is read again.
SealStaged == SealOver(IF staged # {} THEN staged ELSE Transient)

Seal == SealOver(IF staged # {} THEN Nodes ELSE Transient)

\* publish_record, in the order of identifiers: a record that another build
\* has published is kept if it says the same, else the call raises.
Publish ==
  /\ phase = "publish"
  /\ \/ /\ unpublished = {}
        /\ phase' = "release" /\ result' = "ok"
        /\ UNCHANGED <<records, unpublished, published>>
     \/ /\ unpublished # {}
        /\ LET n == Least(unpublished)
               mine == Record(n, outcome[n].content)
               same == {r \in records : r.node = n /\ r.key = mine.key}
           IN  /\ same \subseteq {mine} /\ <<n, mine.content>> \in blobs
               /\ records' = records \cup {mine}
               /\ published' = published \cup {n}
               /\ unpublished' = unpublished \ {n}
        /\ UNCHANGED <<phase, result>>
     \/ /\ unpublished # {}
        /\ phase' = "release" /\ result' = "failed"
        /\ unpublished' = {}
        /\ UNCHANGED <<records, published>>
  /\ UNCHANGED <<handed, running, done, outcome, nodeVars, lease, blobs, executions, forged, calls,
                 used, token, runtime, clean, disk>>

\* The lease's context ends; then the nodes must all have been counted.
Release ==
  /\ phase = "release"
  /\ lease' = FALSE
  /\ phase' = "final"
  /\ result' = IF result = "ok" /\ counted # Cardinality(Nodes)
                 THEN "incomplete" ELSE result
  /\ UNCHANGED <<handed, running, done, outcome, nodeVars, records, blobs, histVars, token,
                 runtime, clean, unpublished, disk>>

\* The finally clause: close the runtime if it has not been closed cleanly.
Final ==
  /\ phase = "final"
  /\ IF clean THEN UNCHANGED <<runtime, calls>> ELSE CloseRuntime
  /\ phase' = "done"
  /\ UNCHANGED <<handed, running, done, outcome, result, nodeVars, cacheVars, executions, forged,
                 published, used, token, clean, unpublished, disk>>

-----------------------------------------------------------------------------
(* What else happens *)

Spend(what) == used' = [used EXCEPT ![what] = @ + 1]

\* The process dies; the operating system frees its lease.
Crash ==
  /\ phase # "done" /\ used.events < MaxEvents
  /\ Spend("events")
  /\ phase' = "done" /\ result' = "crashed" /\ lease' = FALSE
  /\ worker' = [n \in Nodes |-> IF n \in AtWork THEN "dropped" ELSE worker[n]]
  /\ UNCHANGED <<handed, running, done, outcome, got, counted, staged, records, blobs,
                 executions, forged, published, calls, token, runtime, clean, unpublished, disk>>

\* execute() is called again, in a new process or in a fresh workspace.
Again ==
  /\ phase = "done" /\ used.rounds < MaxRounds
  /\ Spend("rounds")
  /\ phase' = "start" /\ handed' = {} /\ running' = {} /\ done' = {}
  /\ outcome' = [n \in Nodes |-> None]
  /\ worker' = [n \in Nodes |-> "none"] /\ got' = [n \in Nodes |-> None]
  /\ token' = FALSE /\ runtime' = "none" /\ clean' = FALSE
  /\ staged' = {} /\ unpublished' = {} /\ counted' = 0
  /\ result' = "none" /\ published' = {}
  /\ disk' = [n \in Nodes |-> Absent]
  /\ calls' = [built |-> 0, closed |-> 0]
  /\ UNCHANGED <<cacheVars, executions, forged>>

\* Another build has run a producer with inputs that the same node may have
\* here, and publishes what came out.
Sibling(n) ==
  /\ used.events < MaxEvents
  /\ Data(n) \subseteq Collected
  /\ \E v \in Values :
       /\ {r \in records : r.node = n /\ r.key = Key(n)} \subseteq {Record(n, v)}
       /\ records' = records \cup {Record(n, v)}
       /\ blobs' = blobs \cup {<<n, v>>}
       /\ executions' = executions \cup {Execution(n, v)}
  /\ Spend("events")
  /\ UNCHANGED <<mainVars, nodeVars, lease, forged, published, calls, token, runtime, clean,
                 unpublished, disk>>

\* A producer overwrites the output of another node, staged already or not.
Overwrite(n) ==
  /\ used.events < MaxEvents
  /\ worker[n] \in {"executed", "ok"} /\ disk[n] # Absent
  /\ \E m \in Nodes : worker[m] = "executing"
  /\ \E v \in Values \ {disk[n]} :
       /\ disk' = [disk EXCEPT ![n] = v]
       /\ forged' = IF worker[n] = "executed" THEN forged \cup {Execution(n, v)} ELSE forged
  /\ Spend("events")
  /\ UNCHANGED <<mainVars, nodeVars, cacheVars, executions, published, calls, token,
                 runtime, clean, unpublished>>

\* IncrementalCache.gc, alone with the store: it removes the records that it
\* chooses and the blobs that no record names.
Gc ==
  /\ ~lease /\ used.events < MaxEvents
  /\ Spend("events")
  /\ \E kept \in SUBSET records :
       /\ records' = kept
       /\ blobs' = {<<r.node, r.content>> : r \in kept}
  /\ UNCHANGED <<mainVars, nodeVars, lease, executions, forged, published, calls, token, runtime,
                 clean, unpublished, disk>>

Worker(n) ==
  Begin(n) \/ Probe(n) \/ WorkerFails(n) \/ GetRuntime(n) \/ Launch(n) \/ Execute(n) \/ Store(n)

Main ==
  Acquire \/ Submit \/ Wait \/ Collect \/ Drain \/ Close \/ Seal \/ Publish \/ Release \/ Final

Environment ==
  Interrupt \/ InterruptLate \/ Crash \/ Again \/ Gc \/ \E n \in Nodes : Sibling(n) \/ Overwrite(n)

Next == Main \/ Environment \/ \E n \in Nodes : Worker(n)

Spec == Init /\ [][Next]_vars
-----------------------------------------------------------------------------
(* Properties *)

\* A record becomes reusable only when the whole call has succeeded so far:
\* every node has its outcome, no worker is at work, the runtime was closed
\* without an error, and what the workspace holds for every node is what its
\* receipt says.  ("never a reusable record from a failed invocation")  A call
\* that succeeded has left a record of every node that may be published, with
\* its blob, so that the next build finds them all.
PublishedByWholeRun ==
  /\ published # {} =>
       /\ Collected = Nodes /\ AtWork = {}
       /\ clean /\ runtime # "open"
       /\ \A n \in Nodes : Restoring \/ ~outcome[n].hit => disk[n] = outcome[n].content
  /\ phase = "release" /\ result = "ok" =>
       \A n \in Nodes : outcome[n].publishable =>
         /\ Record(n, outcome[n].content) \in records
         /\ <<n, outcome[n].content>> \in blobs

\* Whatever was built on a provisional output, directly or through others, is
\* provisional itself: it is neither reused nor published under its real key.
ProvisionalSpreads ==
  /\ \A n \in Collected : outcome[n].publishable => DependenciesPublishable(n)
  /\ \A n \in published : outcome[n].publishable

\* What producers wrote, and what others put in its place before it was staged.
Written == executions \cup forged

\* Every outcome, reused or new, was written by its producer when that ran on
\* exactly the outcomes that this call has for its data dependencies; and no
\* record says anything else.  The one exception: another producer that writes
\* to an output between the end of its producer and its staging is not noticed.
Genuine ==
  /\ \A n \in Collected : Execution(n, outcome[n].content) \in Written
  /\ records \subseteq Written

\* What the workers use outlives them.  The lease is held until the last
\* worker has returned and publication is over, and each receipt that was
\* staged or reused keeps its blob meanwhile, as does every record, whoever
\* wrote it and whenever the collector ran.  The shared runtime is built and
\* closed at most once, nobody has it once it is closed, and a call that ends
\* leaves none open.  A call that Ctrl-C interrupts while it waits for its
\* workers ("rushed") gives up lease and runtime under them: it is excepted
\* from what concerns workers that are still at work.
OutliveWorkers ==
  /\ phase \in {"close", "seal", "publish"} => lease
  /\ lease => \A n \in Nodes :
       got[n] # None /\ (got[n].publishable \/ n \in DataConsumers)
         => <<n, got[n].content>> \in blobs
  /\ \A r \in records : <<r.node, r.content>> \in blobs
  /\ calls.built <= 1 /\ calls.closed <= calls.built
  /\ result # "rushed" =>
       /\ AtWork # {} => lease
       /\ \A n \in Nodes : worker[n] \in {"holding", "executing", "executed"} => runtime = "open"
       /\ phase = "done" /\ result # "crashed" => runtime # "open"

=============================================================================
