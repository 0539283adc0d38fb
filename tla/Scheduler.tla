----------------------------- MODULE Scheduler ------------------------------
(***************************************************************************)
(* TaskScheduler.run of src/reprobit/scheduler.py over the DependencyQueue *)
(* of dag_queue.py: one scheduling thread hands tasks of a finite DAG to a *)
(* pool of worker threads, under a worker limit and a limit per resource   *)
(* class, and drains the pool after the first failure.                     *)
(*                                                                         *)
(* Task identifiers are numbers, so that sorted() and the heap order are   *)
(* <; the dependencies may go either way in that order.  What a task's     *)
(* process does is left to the worker actions.                             *)
(***************************************************************************)
EXTENDS Integers, FiniteSets

CONSTANTS Tasks,       \* a finite set of numbers
          Deps,        \* the dependencies of each task
          Rank,        \* numbers that show the graph to be acyclic
          Classes, Class,
          Limit,       \* resource_limits, max_workers where none is given
          MaxWorkers,
          NoTask

ASSUME GraphAssumption ==
  /\ Tasks \in SUBSET Nat /\ IsFiniteSet(Tasks)
  /\ Deps \in [Tasks -> SUBSET Tasks]
  /\ Rank \in [Tasks -> Nat]
  /\ \A t \in Tasks : \A d \in Deps[t] : Rank[d] < Rank[t]
  /\ Class \in [Tasks -> Classes]
  /\ Limit \in [Classes -> Nat \ {0}]
  /\ MaxWorkers \in Nat \ {0}
  /\ NoTask \notin Tasks

VARIABLES
  phase,      \* where run() is
  handed,     \* tasks that the queue has released
  ready,      \* the heap
  deferred,
  pending, running, active,
  finished,   \* what wait() returned and is not collected yet
  completed, failures,
  token,      \* CancellationToken.cancelled
  worker,     \* what each task's future is doing
  result

schedVars == <<phase, handed, ready, deferred, pending, running, active, finished,
               completed, failures, token, result>>
vars == <<schedVars, worker>>

Init ==
  /\ phase = "loop"
  /\ handed = {} /\ ready = {} /\ deferred = {}
  /\ pending = Tasks /\ running = {} /\ finished = {}
  /\ active = [c \in Classes |-> 0]
  /\ completed = {} /\ failures = {}
  /\ token = FALSE
  /\ worker = [t \in Tasks |-> "none"]
  /\ result = [kind |-> "none", primary |-> NoTask]

-----------------------------------------------------------------------------
(* The scheduling thread *)

Least(S) == CHOOSE t \in S : \A u \in S : t <= u

\* DependencyQueue: nodes whose predecessors are done, each released once.
TakeReadyAfter(done) == {t \in Tasks \ handed : Deps[t] \subseteq done}

\* Mutant: a node counts as done when it is released.
TakeReadyEarly == TakeReadyAfter(handed)

TakeReady == TakeReadyAfter(completed)

\* The loop condition and the top of the loop.
LoopTo(afterFailure) ==
  /\ phase = "loop"
  /\ \/ /\ pending = {} /\ running = {}
        /\ phase' = "report"
        /\ UNCHANGED <<handed, ready>>
     \/ /\ ~(pending = {} /\ running = {}) /\ failures = {}
        /\ handed' = handed \cup TakeReady
        /\ ready' = ready \cup TakeReady
        /\ phase' = "dispatch"
     \/ /\ ~(pending = {} /\ running = {}) /\ failures # {}
        /\ phase' = afterFailure
        /\ UNCHANGED <<handed, ready>>
  /\ UNCHANGED <<deferred, pending, running, active, finished, completed, failures,
                 token, result, worker>>

\* Mutants: the loop is left at the first failure; it goes on when nothing is
\* left to drain.
LoopBreak == LoopTo("report")
LoopSpin == LoopTo(IF running = {} THEN "loop" ELSE "wait")

Loop == LoopTo(IF running = {} THEN "report" ELSE "wait")

\* capacity()
Capacity(t) == active[Class[t]] < Limit[Class[t]]

\* One turn of the inner loop that submits the smallest task ...
Submit ==
  /\ phase = "dispatch" /\ ready # {} /\ Cardinality(running) < MaxWorkers
  /\ Capacity(Least(ready))
  /\ LET t == Least(ready) IN
       /\ ready' = ready \ {t}
       /\ pending' = pending \ {t}
       /\ running' = running \cup {t}
       /\ active' = [active EXCEPT ![Class[t]] = @ + 1]
       /\ worker' = [worker EXCEPT ![t] = "submitted"]
  /\ UNCHANGED <<phase, handed, deferred, finished, completed, failures, token,
                 result>>

\* ... or sets it aside.
DeferTo(next) ==
  /\ phase = "dispatch" /\ ready # {} /\ Cardinality(running) < MaxWorkers
  /\ ~Capacity(Least(ready))
  /\ ready' = ready \ {Least(ready)}
  /\ deferred' = deferred \cup {Least(ready)}
  /\ phase' = next
  /\ UNCHANGED <<handed, pending, running, active, finished, completed, failures,
                 token, result, worker>>

\* Mutant: break in place of continue.
DeferBreak == DeferTo("wait")

Defer == DeferTo("dispatch")

\* The inner loop ends: the deferred tasks go back to the heap.
Dispatched ==
  /\ phase = "dispatch" /\ (ready = {} \/ Cardinality(running) >= MaxWorkers)
  /\ ready' = ready \cup deferred
  /\ deferred' = {}
  /\ phase' = IF running = {} THEN "report" ELSE "wait"
  /\ UNCHANGED <<handed, pending, running, active, finished, completed, failures,
                 token, result, worker>>

Over == {"ok", "failed", "cancelled"}

\* wait(FIRST_COMPLETED) returns every future that is done by then.
Wait ==
  /\ phase = "wait"
  /\ {t \in running : worker[t] \in Over} # {}
  /\ finished' = {t \in running : worker[t] \in Over}
  /\ phase' = "collect"
  /\ UNCHANGED <<handed, ready, deferred, pending, running, active, completed,
                 failures, token, result, worker>>

\* A finished future, in the order of task identifiers.  Its failure cancels
\* the others.
Collect(t) ==
  /\ phase = "collect" /\ finished # {} /\ t = Least(finished)
  /\ finished' = finished \ {t}
  /\ running' = running \ {t}
  /\ active' = [active EXCEPT ![Class[t]] = @ - 1]
  /\ \/ /\ worker[t] = "ok"
        /\ completed' = completed \cup {t}
        /\ UNCHANGED <<failures, token>>
     \/ /\ worker[t] # "ok"
        /\ failures' = failures \cup {t}
        /\ token' = TRUE
        /\ UNCHANGED completed
  /\ UNCHANGED <<phase, handed, ready, deferred, pending, result, worker>>

Collected ==
  /\ phase = "collect" /\ finished = {}
  /\ phase' = "loop"
  /\ UNCHANGED <<handed, ready, deferred, pending, running, active, finished,
                 completed, failures, token, result, worker>>

\* Failures that are not ProcessCancelled.
Substantive == {t \in failures : worker[t] = "failed"}

\* primary = sorted(substantive or failures)[0]
Primary == Least(IF Substantive # {} THEN Substantive ELSE failures)

Report ==
  /\ phase = "report"
  /\ phase' = "done"
  /\ result' = CASE failures # {} -> [kind |-> "failed", primary |-> Primary]
                 [] failures = {} /\ pending # {} -> [kind |-> "stuck", primary |-> NoTask]
                 [] OTHER -> [kind |-> "done", primary |-> NoTask]
  /\ UNCHANGED <<handed, ready, deferred, pending, running, active, finished,
                 completed, failures, token, worker>>

-----------------------------------------------------------------------------
(* A worker thread: _run_task *)

\* token.raise_if_cancelled()
Start(t) ==
  /\ worker[t] = "submitted"
  /\ worker' = [worker EXCEPT ![t] = IF token THEN "cancelled" ELSE "live"]
  /\ UNCHANGED schedVars

\* The workspace, the command or the process fails or succeeds; a cancelled
\* token may stop the process first or come too late.
Finish(t, outcome) ==
  /\ worker[t] = "live"
  /\ outcome = "cancelled" => token
  /\ worker' = [worker EXCEPT ![t] = outcome]
  /\ UNCHANGED schedVars

Work(t) == Start(t) \/ \E outcome \in Over : Finish(t, outcome)

Schedule ==
  \/ Loop \/ Submit \/ Defer \/ Dispatched \/ Wait
  \/ \E t \in Tasks : Collect(t)
  \/ Collected \/ Report

Returned == phase = "done" /\ UNCHANGED vars

Next == Schedule \/ (\E t \in Tasks : Work(t)) \/ Returned

Spec == Init /\ [][Next]_vars

\* The scheduling thread runs, and every process ends: the supervisor gives
\* each a deadline.
FairSpec == Spec /\ WF_vars(Schedule) /\ \A t \in Tasks : WF_vars(Work(t))

-----------------------------------------------------------------------------
(* Properties *)

\* The types of the variables.
TypeOK ==
  /\ phase \in {"loop", "dispatch", "wait", "collect", "report", "done"}
  /\ handed \in SUBSET Tasks /\ ready \in SUBSET Tasks /\ deferred \in SUBSET Tasks
  /\ pending \in SUBSET Tasks /\ running \in SUBSET Tasks /\ finished \in SUBSET running
  /\ active \in [Classes -> Nat]
  /\ completed \in SUBSET Tasks /\ failures \in SUBSET Tasks
  /\ token \in BOOLEAN
  /\ worker \in [Tasks -> {"none", "submitted", "live"} \cup Over]
  /\ result \in [kind : {"none", "failed", "stuck", "done"}, primary : Tasks \cup {NoTask}]

\* run(): never more tasks at work than max_workers, nor more of one class than
\* its limit, however finished tasks and new ones interleave.
Ceilings ==
  /\ Cardinality({t \in Tasks : worker[t] \in {"submitted", "live"}}) <= MaxWorkers
  /\ \A c \in Classes :
       Cardinality({t \in Tasks : Class[t] = c /\ worker[t] \in {"submitted", "live"}})
         <= Limit[c]

\* DependencyQueue and run(): a task is given to the pool only after every task
\* that it depends on has succeeded and was collected.
DependenciesFirst ==
  \A t \in Tasks : worker[t] # "none" => Deps[t] \subseteq completed

\* run(): when it returns or raises, no worker is at work any more, and each
\* task is reported exactly once: completed if it succeeded, failed if it was
\* started and did not, skipped if it was never started.
Accounted ==
  phase = "done" =>
    \A t \in Tasks :
      /\ worker[t] \notin {"submitted", "live"}
      /\ t \in completed <=> worker[t] = "ok"
      /\ t \in failures <=> worker[t] \in {"failed", "cancelled"}
      /\ t \in pending <=> worker[t] = "none"

\* run(): while it waits and nothing has failed, a task that could run is held
\* back only by the worker limit or by the limit of its own class.
WorkConserving ==
  phase = "wait" /\ failures = {} =>
    \/ Cardinality(running) >= MaxWorkers
    \/ \A t \in pending : Deps[t] \subseteq completed => ~Capacity(t)

\* run(): on an acyclic graph, "task graph made no progress" is never raised.
NeverStuck == result.kind # "stuck"

\* run(): the failure that is reported is one of a task that failed itself,
\* not of one that was cancelled because of it.
PrimaryFailed ==
  result.kind = "failed" => worker[result.primary] = "failed"

\* run() returns, and unless a task failed it has completed them all.
Returns ==
  <>(phase = "done" /\ (failures # {} \/ completed = Tasks))

=============================================================================
