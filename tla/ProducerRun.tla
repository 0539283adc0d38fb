--------------------------- MODULE ProducerRun ---------------------------
(***************************************************************************)
(* One phase of a producer graph on a POSIX host: run_graph_nodes (the      *)
(* coordinator and its thread pool), run_node (one worker per submitted     *)
(* node), the lazy pool of execution lanes, and the one Wine runtime that   *)
(* every lane shares, from its initialization under the binding lock to     *)
(* its shutdown when the run is closed.                                     *)
(*                                                                         *)
(* A worker thread interleaves with the others between two critical         *)
(* sections of the pool's condition.  Every external step may fail; the     *)
(* pinned wineserver executable may be replaced while the run is going.     *)
(***************************************************************************)
EXTENDS Integers, FiniteSets, FiniteSetsExt, Sequences

CONSTANTS
    Nodes,      \* the nodes of the phase, ordered as their ids are
    Deps,       \* node -> the nodes of the phase it depends on
    Jobs,       \* --jobs: pool threads, and the maximum number of lanes
    MaxFaults   \* bound on the failures injected in one behaviour

ASSUME JobsAssumption == Jobs \in Nat \ {0}
ASSUME NodesAssumption == Nodes \subseteq Nat /\ IsFiniteSet(Nodes) /\ Nodes # {}
ASSUME DepsAssumption == Deps \in [Nodes -> SUBSET Nodes]
ASSUME FaultsAssumption == MaxFaults \in Nat

VARIABLES
    pc,         \* where the coordinating thread is
    w,          \* node -> where its future is
    lane,       \* node -> the index of the lane it creates or holds, or -1
    receipts,   \* the nodes whose receipts were collected, in order
    done,       \* the futures wait() returned that are not handled yet
    cancelled,  \* the cancellation token
    result,     \* what the run reports
    hurried,    \* Ctrl-C came while the threads were joined or the runtime closed
    all,        \* pool._all
    available,  \* pool._available
    borrowed,   \* pool._borrowed
    next,       \* pool._next_index
    broken,     \* pool._failure is set
    closed,     \* pool._closed
    lock,       \* the node that holds binding_lock, or -1
    boot,       \* "none", "ready" (wine_worker) or "failed" (the remembered error)
    server,     \* "none", "live" or "dead": the private wineserver
    mapped,     \* the logical drive is linked into the prefix
    pin,        \* the wineserver executable is still the pinned one
    faults

coord == <<pc, receipts, done, cancelled, result, hurried>>
pool == <<all, available, borrowed, next, broken>>
runtime == <<lock, boot, server, mapped>>
vars == <<pc, w, lane, receipts, done, cancelled, result, hurried, all, available,
          borrowed, next, broken, closed, lock, boot, server, mapped, pin, faults>>

Creating == {"create", "prefix", "wineboot", "bind", "configure", "made"}
Holding == {"run", "ran", "spoilt"}
Over == {"ok", "failed", "cancelled"}
Stages == {"idle", "queued", "ask", "wait"} \cup Creating \cup Holding \cup Over

creating == Cardinality({n \in Nodes : w[n] \in Creating})

Init ==
    /\ pc = "loop"
    /\ w = [n \in Nodes |-> "idle"]
    /\ lane = [n \in Nodes |-> -1]
    /\ receipts = <<>> /\ done = {} /\ cancelled = FALSE /\ result = "none"
    /\ hurried = FALSE
    /\ all = {} /\ available = {} /\ borrowed = {} /\ next = 0
    /\ broken = FALSE /\ closed = FALSE
    /\ lock = -1 /\ boot = "none" /\ server = "none" /\ mapped = FALSE
    /\ pin = TRUE /\ faults = 0

Fault == faults < MaxFaults /\ faults' = faults + 1

Set(n, stage) == w' = [w EXCEPT ![n] = stage]

-----------------------------------------------------------------------------
(* The pool of lanes *)

Finished == {receipts[i] : i \in DOMAIN receipts}
Running == {n \in Nodes : w[n] # "idle"} \ Finished

\* run_node up to the call of acquire(): the inputs must be there.
Start(n) ==
    /\ w[n] = "queued"
    /\ \/ Set(n, "ask") /\ UNCHANGED faults
       \/ Set(n, "failed") /\ Fault
    /\ UNCHANGED <<coord, lane, pool, closed, runtime, pin>>

\* Mutant: the lane is read, not popped.
OthersAll(l) == available

Others(l) == available \ {l}

\* Mutant: the bound is off by one.
RoomShort == Cardinality(all) + creating + 1 < Jobs

Room == Cardinality(all) + creating < Jobs

\* One pass of the loop in acquire() under the pool's condition.
Acquire(n) ==
    /\ w[n] = "ask"
    /\ CASE closed \/ broken ->
              Set(n, "failed") /\ UNCHANGED <<lane, available, borrowed, next>>
         [] ~(closed \/ broken) /\ available # {} ->
              \E l \in available :
                 /\ available' = Others(l)
                 /\ borrowed' = borrowed \cup {l}
                 /\ lane' = [lane EXCEPT ![n] = l]
                 /\ Set(n, "run") /\ UNCHANGED next
         [] ~(closed \/ broken) /\ available = {} /\ Room ->
              /\ lane' = [lane EXCEPT ![n] = next]
              /\ next' = next + 1
              /\ Set(n, "create") /\ UNCHANGED <<available, borrowed>>
         [] OTHER -> Set(n, "wait") /\ UNCHANGED <<lane, available, borrowed, next>>
    /\ UNCHANGED <<coord, all, broken, closed, runtime, pin, faults>>

\* notify_all(): every thread that waits on the condition looks again.
Woken(f) == [n \in Nodes |-> IF f[n] = "wait" THEN "ask" ELSE f[n]]

\* The exception path of acquire(): the first failure closes the pool to all.
CreateFails(n) ==
    /\ w' = Woken([w EXCEPT ![n] = "failed"])
    /\ lane' = [lane EXCEPT ![n] = -1]
    /\ broken' = TRUE
    /\ UNCHANGED <<all, available, borrowed, next>>

\* The lane is complete: it is counted, and lent to its creator unless the
\* pool was closed or broke meanwhile.  A lane whose environment differs from
\* the digest of the pool is a failure like any other.
Enter(n) ==
    /\ w[n] = "made"
    /\ \/ /\ ~closed /\ ~broken
          /\ all' = all \cup {lane[n]}
          /\ borrowed' = borrowed \cup {lane[n]}
          /\ w' = Woken([w EXCEPT ![n] = "run"])
          /\ UNCHANGED <<lane, available, next, broken, faults>>
       \/ /\ closed \/ broken
          /\ all' = all \cup {lane[n]}
          /\ w' = Woken([w EXCEPT ![n] = "failed"])
          /\ lane' = [lane EXCEPT ![n] = -1]
          /\ UNCHANGED <<available, borrowed, next, broken, faults>>
       \/ CreateFails(n) /\ Fault
    /\ UNCHANGED <<coord, closed, runtime, pin>>

\* The finally of run_node: release() gives the lane back, then the products
\* of the command are examined.
Release(n) ==
    /\ w[n] \in {"ran", "spoilt"}
    /\ borrowed' = borrowed \ {lane[n]}
    /\ available' = IF ~closed /\ ~broken THEN available \cup {lane[n]}
                                          ELSE available
    /\ lane' = [lane EXCEPT ![n] = -1]
    /\ \/ w' = Woken([w EXCEPT ![n] = IF w[n] = "ran" THEN "ok" ELSE "failed"])
          /\ UNCHANGED faults
       \/ w[n] = "ran" /\ w' = Woken([w EXCEPT ![n] = "failed"]) /\ Fault
    /\ UNCHANGED <<coord, all, next, broken, closed, runtime, pin>>

\* _run: the supervised command, refused or killed once the token is cancelled.
Command(n) ==
    /\ w[n] = "run"
    /\ \/ ~cancelled /\ Set(n, "ran") /\ UNCHANGED faults
       \/ cancelled /\ Set(n, "spoilt") /\ UNCHANGED faults
       \/ Set(n, "spoilt") /\ Fault
    /\ UNCHANGED <<coord, lane, pool, closed, runtime, pin>>

-----------------------------------------------------------------------------
(* The Wine runtime *)

\* terminate_worker_server: it refuses to do anything when the executable is
\* no longer the pinned one; otherwise the server is stopped, by SIGKILL to
\* its group if need be.
Terminated == IF pin /\ server = "live" THEN "dead" ELSE server

\* create(): the lock, then what the first holder left behind.
Lock(n) ==
    /\ w[n] = "create"
    /\ lock = -1
    /\ CASE boot = "failed" -> CreateFails(n) /\ UNCHANGED lock
         [] boot = "ready" -> Set(n, "made") /\ UNCHANGED <<lane, pool, lock>>
         [] OTHER -> Set(n, "prefix") /\ lock' = n /\ UNCHANGED <<lane, pool>>
    /\ UNCHANGED <<coord, closed, boot, server, mapped, pin, faults>>

\* create_worker fails under the lock, before anything that is remembered.
NoWorker(n) ==
    /\ w[n] = "create"
    /\ lock = -1 /\ boot = "none"
    /\ CreateFails(n) /\ Fault
    /\ UNCHANGED <<coord, closed, runtime, pin>>

\* Mutant: the server of a failed initialization is left to itself.
BootFailsOnly(n) ==
    /\ boot' = "failed"
    /\ mapped' = FALSE
    /\ lock' = -1
    /\ CreateFails(n)
    /\ UNCHANGED server

\* The exception path of initialize_wine_runtime: the error is remembered, the
\* server stopped and the drive unlinked before the lock is left.
BootFails(n) ==
    /\ boot' = "failed"
    /\ server' = Terminated
    /\ mapped' = FALSE
    /\ lock' = -1
    /\ CreateFails(n)

\* initialize_worker_prefix starts the foreground server of a cold prefix.
StartServer(n) ==
    /\ w[n] = "prefix"
    /\ \/ pin /\ server' = "live" /\ Set(n, "wineboot")
          /\ UNCHANGED <<lane, pool, lock, boot, mapped, faults>>
       \/ ~pin /\ BootFails(n) /\ UNCHANGED faults
       \/ pin /\ BootFails(n) /\ Fault
    /\ UNCHANGED <<coord, closed, pin>>

\* wineboot, then the removal of every drive but c:.
Wineboot(n) ==
    /\ w[n] = "wineboot"
    /\ \/ Set(n, "bind") /\ UNCHANGED <<lane, pool, lock, boot, server, mapped, faults>>
       \/ BootFails(n) /\ Fault
    /\ UNCHANGED <<coord, closed, pin>>

\* bind_worker links the logical drive and verifies the mappings.
Bind(n) ==
    /\ w[n] = "bind"
    /\ \/ mapped' = TRUE /\ Set(n, "configure")
          /\ UNCHANGED <<lane, pool, lock, boot, server, faults>>
       \/ BootFails(n) /\ Fault
    /\ UNCHANGED <<coord, closed, pin>>

\* TEMP and TMP are set and probed; then the runtime belongs to the run.
Configure(n) ==
    /\ w[n] = "configure"
    /\ \/ boot' = "ready" /\ lock' = -1 /\ Set(n, "made")
          /\ UNCHANGED <<lane, pool, server, mapped, faults>>
       \/ BootFails(n) /\ Fault
    /\ UNCHANGED <<coord, closed, pin>>

-----------------------------------------------------------------------------
(* The coordinator *)

Ready == {n \in Nodes : w[n] = "idle" /\ Deps[n] \subseteq Finished}

\* The k first of a set of nodes, as the heap of the queue gives them.
Firsts(S, k) == {n \in S : Cardinality({m \in S : m < n}) < k}

Submit ==
    /\ pc = "loop"
    /\ Finished # Nodes
    /\ w' = [n \in Nodes |->
               IF n \in Firsts(Ready, Jobs - Cardinality(Running)) THEN "queued" ELSE w[n]]
    /\ pc' = "wait"
    /\ UNCHANGED <<lane, receipts, done, cancelled, result, hurried, pool, closed, runtime, pin, faults>>

\* wait(running, FIRST_COMPLETED)
Wait ==
    /\ pc = "wait"
    /\ \E n \in Running : w[n] \in Over
    /\ done' = {n \in Running : w[n] \in Over}
    /\ pc' = "handle"
    /\ UNCHANGED <<w, lane, receipts, cancelled, result, hurried, pool, closed, runtime, pin, faults>>

\* The handler of the loop: cancel the token, stop the processes, cancel the
\* futures no thread has taken, and leave through the exit of the pool.
Abandon ==
    /\ cancelled' = TRUE
    /\ w' = [n \in Nodes |-> IF w[n] = "queued" THEN "cancelled" ELSE w[n]]
    /\ result' = "failed"
    /\ done' = {}
    /\ pc' = "drain"
    /\ UNCHANGED <<receipts, hurried>>

\* One finished future, in the order of the ids.
Handle ==
    /\ pc = "handle"
    /\ LET n == Min(done) IN
       IF w[n] = "ok"
         THEN /\ receipts' = Append(receipts, n)
              /\ done' = done \ {n}
              /\ pc' = IF done = {n} THEN "loop" ELSE "handle"
              /\ UNCHANGED <<w, cancelled, result, hurried>>
         ELSE Abandon
    /\ UNCHANGED <<lane, pool, closed, runtime, pin, faults>>

\* KeyboardInterrupt in the loop of the coordinator.
Interrupt ==
    /\ pc \in {"loop", "wait", "handle"}
    /\ Abandon /\ Fault
    /\ UNCHANGED <<lane, pool, closed, runtime, pin>>

\* The queue is empty: the phase returns its receipts.
Return ==
    /\ pc = "loop"
    /\ Finished = Nodes
    /\ result' = "ok"
    /\ pc' = "drain"
    /\ UNCHANGED <<w, lane, receipts, done, cancelled, hurried, pool, closed, runtime, pin, faults>>

\* ThreadPoolExecutor.__exit__ joins the threads.
Drain ==
    /\ pc = "drain"
    /\ \A n \in Nodes : w[n] \in Over \cup {"idle"}
    /\ pc' = "close"
    /\ UNCHANGED <<w, lane, receipts, done, cancelled, result, hurried, pool, closed, runtime, pin,
                   faults>>

\* KeyboardInterrupt in that join: the run is closed while threads still work.
InterruptJoin ==
    /\ pc = "drain"
    /\ pc' = "close"
    /\ result' = "failed" /\ hurried' = TRUE
    /\ Fault
    /\ UNCHANGED <<w, lane, receipts, done, cancelled, pool, closed, runtime, pin>>

\* _LazyExecutionLanePool.close(): refused while a lane is out.
Close ==
    /\ pc = "close"
    /\ IF borrowed # {} \/ creating > 0
         THEN pc' = "refused" /\ result' = "failed"
              /\ UNCHANGED <<w, available, closed>>
         ELSE /\ closed' = TRUE /\ available' = {} /\ w' = Woken(w)
              /\ pc' = IF boot = "ready" THEN "stop" ELSE "ended"
              /\ UNCHANGED result
    /\ UNCHANGED <<lane, receipts, done, cancelled, hurried, all, borrowed, next, broken, runtime, pin,
                   faults>>

\* _close_backend_runtime: certify the mappings; stop and reap the server
\* whatever came of it, except for a KeyboardInterrupt while it is stopped.
StopServer ==
    /\ pc = "stop"
    /\ \/ /\ server' = Terminated
          /\ result' = IF pin THEN result ELSE "failed"
          /\ UNCHANGED <<hurried, faults>>
       \/ /\ server' = Terminated
          /\ result' = "failed" /\ Fault
          /\ UNCHANGED hurried
       \/ /\ result' = "failed" /\ hurried' = TRUE /\ Fault
          /\ UNCHANGED server
    /\ pc' = "unbind"
    /\ UNCHANGED <<w, lane, receipts, done, cancelled, pool, closed, lock, boot, mapped, pin>>

\* ... and in the outer finally, unlink the drive and scrub the prefix.
Unbind ==
    /\ pc = "unbind"
    /\ mapped' = FALSE
    /\ \/ UNCHANGED <<result, faults>>
       \/ result' = "failed" /\ Fault
    /\ pc' = "ended"
    /\ UNCHANGED <<w, lane, receipts, done, cancelled, hurried, pool, closed, lock, boot, server,
                   pin>>

\* The wineserver executable is replaced on disk.
Replace ==
    /\ pin /\ pin' = FALSE
    /\ Fault
    /\ UNCHANGED <<coord, w, lane, pool, closed, runtime>>

Worker(n) ==
    \/ Start(n) \/ Acquire(n) \/ Lock(n) \/ NoWorker(n) \/ StartServer(n) \/ Wineboot(n)
    \/ Bind(n) \/ Configure(n) \/ Enter(n) \/ Command(n) \/ Release(n)

Coordinator ==
    Submit \/ Wait \/ Handle \/ Return \/ Drain \/ Close \/ StopServer \/ Unbind

Next == Coordinator \/ Interrupt \/ InterruptJoin \/ Replace \/ \E n \in Nodes : Worker(n)

Spec == Init /\ [][Next]_vars

-----------------------------------------------------------------------------
(* Properties *)

TypeOK ==
    /\ pc \in {"loop", "wait", "handle", "drain", "close", "refused", "stop", "unbind", "ended"}
    /\ w \in [Nodes -> Stages]
    /\ lane \in [Nodes -> Nat \cup {-1}]
    /\ receipts \in Seq(Nodes)
    /\ done \in SUBSET Nodes
    /\ hurried \in BOOLEAN /\ cancelled \in BOOLEAN /\ broken \in BOOLEAN /\ closed \in BOOLEAN
    /\ mapped \in BOOLEAN /\ pin \in BOOLEAN
    /\ result \in {"none", "ok", "failed"}
    /\ all \in SUBSET Nat /\ available \in SUBSET Nat /\ borrowed \in SUBSET Nat
    /\ next \in Nat
    /\ lock \in Nodes \cup {-1}
    /\ boot \in {"none", "ready", "failed"}
    /\ server \in {"none", "live", "dead"}
    /\ faults \in 0..MaxFaults

\* A lane is lent to one command at a time: two workers between acquire() and
\* release() never hold the same lane, and a lane on offer is held by nobody.
LaneExclusive ==
    \A m, n \in Nodes :
       (w[m] \in Holding /\ w[n] \in Holding /\ m # n)
          => lane[m] # lane[n] /\ lane[m] \notin available

\* acquire() never has to wait: with as many lanes as threads, a thread that
\* asks always finds a lane on offer or the room to create one, whatever
\* failed before.  (Condition.wait() is reached by no schedule.)
NobodyWaits == \A n \in Nodes : w[n] # "wait"

\* close() is refused with "closed while lanes were active" only if Ctrl-C
\* ended the join of the threads: otherwise the run joins every worker, failed
\* or not, before it closes the pool.
CloseAccepted == pc = "refused" => hurried

\* Whatever fails, and wherever in the initialization it fails, the logical
\* drive and the private server do not outlive the run.  The exceptions are a
\* server whose executable is no longer the pinned one, and a Ctrl-C that came
\* while the threads were joined or the server was stopped.
RuntimeGone ==
    pc \in {"ended", "refused"} /\ ~hurried => ~mapped /\ (pin => server # "live")

=============================================================================
