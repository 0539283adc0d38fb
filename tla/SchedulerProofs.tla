--------------------------- MODULE SchedulerProofs --------------------------
(***************************************************************************)
(* Proofs about Scheduler, for every finite acyclic graph, every worker    *)
(* limit and all limits of classes.                                        *)
(***************************************************************************)
EXTENDS Scheduler, FiniteSetTheorems, WellFoundedInduction, TLAPS

AtWork == {"submitted", "live"}

\* Where each task is, and what its worker has told.
Places ==
  \A t \in Tasks :
    /\ t \in pending <=> worker[t] = "none"
    /\ t \in running => worker[t] # "none" /\ t \notin completed /\ t \notin failures
    /\ t \in completed => worker[t] = "ok"
    /\ t \in failures => worker[t] \in {"failed", "cancelled"}
    /\ worker[t] # "none" => t \in running \cup completed \cup failures

\* What wait() returned is over.
Batch ==
  /\ \A t \in finished : worker[t] \in Over
  /\ finished # {} => phase = "collect"

\* The queue releases a task once, when its predecessors are done, and the heap
\* with the deferred tasks holds what was released and not submitted.
Released ==
  /\ ready \cup deferred = handed \cap pending
  /\ Tasks \ pending \subseteq handed
  /\ \A t \in handed : Deps[t] \subseteq completed
  /\ deferred # {} => phase = "dispatch"

Share(R, c) == {u \in R : Class[u] = c}

\* active_resources counts the running tasks of a class.
Counted ==
  /\ Cardinality(running) <= MaxWorkers
  /\ \A c \in Classes : active[c] = Cardinality(Share(running, c)) /\ active[c] <= Limit[c]

\* Inside the inner loop nothing has failed, all that can be released is, and
\* what was set aside still has no capacity.
Dispatching ==
  phase = "dispatch" =>
    /\ failures = {}
    /\ \A t \in Tasks : Deps[t] \subseteq completed => t \in handed
    /\ \A t \in deferred : ~Capacity(t)

\* A cancellation has a cause that is a failure of its own.
Caused ==
  /\ failures # {} <=> token
  /\ token => Substantive # {}
  /\ \A t \in Tasks : worker[t] = "cancelled" => token

\* The loop is left when all is drained, and early only after a failure.
Drained ==
  phase \in {"report", "done"} => running = {} /\ (failures = {} => pending = {})

Told ==
  /\ result.kind # "none" => phase = "done"
  /\ NeverStuck /\ PrimaryFailed

IInv ==
  /\ TypeOK /\ Places /\ Batch /\ Released /\ Counted /\ Dispatching /\ Caused
  /\ Drained /\ Told /\ WorkConserving

-----------------------------------------------------------------------------
(* Operators *)

\* heappop and sorted()[0] give the smallest identifier.
LEMMA LeastIn ==
  ASSUME NEW S \in SUBSET Nat, S # {}
  PROVE  Least(S) \in S /\ \A u \in S : Least(S) <= u
<1>. DEFINE Before == OpToRel(<, Nat)
<1>1. IsWellFoundedOn(Before, Nat)
  BY NatLessThanWellFounded, Zenon
<1>2. \A x, y \in Nat : <<y, x>> \in Before <=> y < x
  BY Zenon DEF OpToRel
<1>. HIDE DEF Before
<1>3. PICK x \in S : \A y \in S : ~(<<y, x>> \in Before)
  <2>1. S \subseteq Nat
    BY Zenon
  <2>. QED  BY <1>1, <2>1, WFMin, Zenon
<1>4. \A y \in S : x <= y
  <2>1. \A y \in S : ~(y < x)
    BY <1>2, <1>3, Zenon
  <2>. QED  BY <2>1
<1>. QED
  BY <1>4, Zenon DEF Least

\* A task that starts adds one to the running tasks of its class and of none
\* other; one that is collected takes one away.
LEMMA ClassCount ==
  ASSUME NEW R \in SUBSET Tasks, NEW t \in Tasks, NEW c \in Classes
  PROVE  /\ Cardinality(R) \in Nat /\ Cardinality(Share(R, c)) \in Nat
         /\ t \notin R =>
              /\ Cardinality(R \cup {t}) = Cardinality(R) + 1
              /\ Cardinality(Share(R \cup {t}, c)) =
                   Cardinality(Share(R, c)) + (IF Class[t] = c THEN 1 ELSE 0)
         /\ t \in R =>
              /\ Cardinality(R \ {t}) = Cardinality(R) - 1
              /\ Cardinality(Share(R \ {t}, c)) =
                   Cardinality(Share(R, c)) - (IF Class[t] = c THEN 1 ELSE 0)
<1>. DEFINE In(S) == Share(S, c)
<1>. USE DEF Share
<1>1. IsFiniteSet(R) /\ IsFiniteSet(In(R))
  <2>1. IsFiniteSet(R)
    BY GraphAssumption, FS_Subset, Zenon DEF GraphAssumption
  <2>2. In(R) \subseteq R
    BY Zenon
  <2>. QED  BY <2>1, <2>2, FS_Subset, Zenon
<1>2. Cardinality(In(R)) \in Nat /\ Cardinality(R) \in Nat
  BY <1>1, FS_CardinalityType, Zenon
<1>3. ASSUME t \notin R
      PROVE  /\ Cardinality(R \cup {t}) = Cardinality(R) + 1
             /\ Cardinality(In(R \cup {t})) =
                  Cardinality(In(R)) + (IF Class[t] = c THEN 1 ELSE 0)
  <2>1. Cardinality(R \cup {t}) = Cardinality(R) + 1
    BY <1>1, <1>3, FS_AddElement, Zenon
  <2>2. CASE Class[t] = c
    <3>1. In(R \cup {t}) = In(R) \cup {t} /\ t \notin In(R)
      BY <2>2, <1>3, Zenon
    <3>2. Cardinality(In(R) \cup {t}) = Cardinality(In(R)) + 1
      BY <1>1, <3>1, FS_AddElement, Zenon
    <3>. QED  BY <2>1, <2>2, <3>1, <3>2, Zenon
  <2>3. CASE Class[t] # c
    <3>1. In(R \cup {t}) = In(R)
      BY <2>3, Zenon
    <3>. HIDE DEF In
    <3>. QED  BY <2>1, <2>3, <3>1, <1>2
  <2>. QED  BY <2>2, <2>3, Zenon
<1>4. ASSUME t \in R
      PROVE  /\ Cardinality(R \ {t}) = Cardinality(R) - 1
             /\ Cardinality(In(R \ {t})) =
                  Cardinality(In(R)) - (IF Class[t] = c THEN 1 ELSE 0)
  <2>1. Cardinality(R \ {t}) = Cardinality(R) - 1
    BY <1>1, <1>4, FS_RemoveElement, Zenon
  <2>2. CASE Class[t] = c
    <3>1. In(R \ {t}) = In(R) \ {t} /\ t \in In(R)
      BY <2>2, <1>4, Zenon
    <3>2. Cardinality(In(R) \ {t}) = Cardinality(In(R)) - 1
      BY <1>1, <3>1, FS_RemoveElement, Zenon
    <3>. QED  BY <2>1, <2>2, <3>1, <3>2, Zenon
  <2>3. CASE Class[t] # c
    <3>1. In(R \ {t}) = In(R)
      BY <2>3
    <3>. HIDE DEF In
    <3>. QED  BY <2>1, <2>3, <3>1, <1>2
  <2>. QED  BY <2>2, <2>3, Zenon
<1>. HIDE DEF Share
<1>. QED  BY <1>2, <1>3, <1>4, Zenon

-----------------------------------------------------------------------------
(* The scheduling thread's steps that choose a task *)

\* Submit moves the smallest ready task to the pool.
LEMMA SubmitStep ==
  ASSUME IInv, Submit
  PROVE  TypeOK' /\ Places' /\ Released' /\ Counted' /\ Caused'
<1>1. PICK t \in ready : t = Least(ready)
  <2>1. ready \in SUBSET Nat /\ ready # {}
    BY GraphAssumption, Zenon DEF GraphAssumption, IInv, TypeOK, Submit
  <2>. QED  BY <2>1, LeastIn, Zenon
<1>2. /\ phase = "dispatch" /\ Cardinality(running) < MaxWorkers /\ Capacity(t)
      /\ ready' = ready \ {t}
      /\ pending' = pending \ {t}
      /\ running' = running \cup {t}
      /\ active' = [active EXCEPT ![Class[t]] = @ + 1]
      /\ worker' = [worker EXCEPT ![t] = "submitted"]
      /\ UNCHANGED <<phase, handed, deferred, finished, completed, failures, token,
                     result>>
  BY <1>1, Zenon DEF Submit
<1>3. /\ t \in Tasks /\ t \in pending /\ t \in handed /\ worker[t] = "none"
      /\ t \notin running /\ t \notin failures /\ Class[t] \in Classes
  BY <1>1, GraphAssumption, Zenon DEF GraphAssumption, IInv, TypeOK, Places, Released
<1>4. TypeOK'
  BY <1>2, <1>3 DEF IInv, TypeOK
<1>5. Places'
  BY <1>2, <1>3, Zenon DEF IInv, TypeOK, Places
<1>6. Released'
  <2>1. deferred \cap {t} = {}
    BY <1>1, <1>2, Zenon DEF IInv, Dispatching
  <2>. QED  BY <1>1, <1>2, <1>3, <2>1, Zenon DEF IInv, Released
<1>7. Counted'
  <2>1. Cardinality(running') <= MaxWorkers'
    <3>1. Cardinality(running') = Cardinality(running) + 1 /\ Cardinality(running) \in Nat
      BY <1>2, <1>3, ClassCount, Zenon DEF IInv, TypeOK
    <3>. QED  BY <1>2, <3>1, GraphAssumption DEF GraphAssumption
  <2>2. ASSUME NEW c \in Classes
        PROVE  active'[c] = Cardinality(Share(running', c)) /\ active'[c] <= Limit[c]
    <3>1. Cardinality(Share(running', c)) = Cardinality(Share(running, c)) + (IF Class[t] = c THEN 1 ELSE 0)
      BY <1>2, <1>3, ClassCount, Zenon DEF IInv, TypeOK
    <3>2. active'[c] = active[c] + (IF Class[t] = c THEN 1 ELSE 0)
      BY <1>2, <1>3 DEF IInv, TypeOK
    <3>3. active[c] = Cardinality(Share(running, c)) /\ active[c] <= Limit[c]
      BY Zenon DEF IInv, Counted
    <3>4. Class[t] = c => active[c] < Limit[c]
      BY <1>2, Zenon DEF Capacity
    <3>5. active[c] \in Nat /\ Limit[c] \in Nat
      BY GraphAssumption, Zenon DEF GraphAssumption, IInv, TypeOK
    <3>. QED  BY <3>1, <3>2, <3>3, <3>4, <3>5
  <2>. QED  BY <2>1, <2>2, Zenon DEF Counted
<1>8. Caused'
  BY <1>2, <1>3, Zenon DEF IInv, TypeOK, Caused, Substantive
<1>. QED  BY <1>4, <1>5, <1>6, <1>7, <1>8, Zenon

\* Defer sets the smallest ready task aside.
LEMMA DeferStep ==
  ASSUME IInv, Defer
  PROVE  TypeOK' /\ Released'
<1>1. Least(ready) \in ready
  <2>1. ready \in SUBSET Nat /\ ready # {}
    BY GraphAssumption, Zenon DEF GraphAssumption, IInv, TypeOK, Defer, DeferTo
  <2>. QED  BY <2>1, LeastIn, Zenon
<1>2. TypeOK'
  BY <1>1, Zenon DEF IInv, TypeOK, Defer, DeferTo
<1>3. Released'
  BY <1>1, Zenon DEF IInv, Released, Defer, DeferTo
<1>. QED  BY <1>2, <1>3, Zenon

\* When the inner loop ends with no task running, there is no task left: the
\* pending one of least rank would have been released, and capacity is free.
LEMMA DispatchedStep ==
  ASSUME IInv, Dispatched
  PROVE  Drained'
<1>. SUFFICES ASSUME running = {}, pending # {}
              PROVE  FALSE
  BY Zenon DEF Drained, Dispatched
<1>1. PICK t \in pending : \A u \in pending : Rank[t] <= Rank[u]
  <2>. DEFINE R == {Rank[u] : u \in pending}
  <2>1. R \in SUBSET Nat /\ R # {}
    <3>1. \A u \in pending : Rank[u] \in Nat
      BY GraphAssumption, Zenon DEF GraphAssumption, IInv, TypeOK
    <3>. QED  BY <3>1, Zenon
  <2>2. PICK r \in R : \A s \in R : r <= s
    <3>. HIDE DEF R
    <3>. QED  BY <2>1, LeastIn, Zenon
  <2>. QED  BY <2>2, Zenon
<1>2. failures = {} /\ phase = "dispatch"
  BY Zenon DEF IInv, Dispatching, Dispatched
<1>3. Deps[t] \subseteq completed
  <2>. SUFFICES ASSUME NEW d \in Deps[t]
                PROVE  d \in completed
    BY Zenon
  <2>1. d \in Tasks /\ Rank[d] < Rank[t] /\ Rank[d] \in Nat /\ Rank[t] \in Nat
    BY GraphAssumption, Zenon DEF GraphAssumption, IInv, TypeOK
  <2>2. d \notin pending
    BY <1>1, <2>1
  <2>. QED  BY <1>2, <2>1, <2>2, Zenon DEF IInv, Places
<1>4. t \in ready \cup deferred
  BY <1>2, <1>3, Zenon DEF IInv, TypeOK, Dispatching, Released
<1>5. ready = {}
  BY FS_EmptySet, GraphAssumption DEF GraphAssumption, Dispatched
<1>6. ~Capacity(t)
  BY <1>2, <1>4, <1>5, Zenon DEF IInv, Dispatching
<1>7. Class[t] \in Classes /\ Limit[Class[t]] > 0
  BY GraphAssumption DEF GraphAssumption, IInv, TypeOK
<1>8. active[Class[t]] = 0
  <2>1. Share(running, Class[t]) = {}
    BY Zenon DEF Share
  <2>. QED  BY <1>7, <2>1, FS_EmptySet, Zenon DEF IInv, Counted
<1>. QED  BY <1>6, <1>7, <1>8, Zenon DEF Capacity

\* Collect takes the smallest finished task out of the running ones.
LEMMA CollectStep ==
  ASSUME IInv, NEW t \in Tasks, Collect(t)
  PROVE  TypeOK' /\ Places' /\ Counted' /\ Caused'
<1>1. /\ t \in finished /\ t \in running /\ worker[t] \in Over
      /\ t \notin completed /\ t \notin failures /\ Class[t] \in Classes
  <2>1. finished \in SUBSET Nat /\ finished # {} /\ t = Least(finished)
    BY GraphAssumption, Zenon DEF GraphAssumption, IInv, TypeOK, Collect
  <2>2. t \in finished
    BY <2>1, LeastIn, Zenon
  <2>. QED  BY <2>2, GraphAssumption, Zenon DEF GraphAssumption, IInv, TypeOK, Batch, Places
<1>2. running' = running \ {t} /\ active' = [active EXCEPT ![Class[t]] = @ - 1]
  BY Zenon DEF Collect
<1>3. ASSUME NEW c \in Classes
      PROVE  /\ Cardinality(Share(running, c)) \in Nat /\ Cardinality(Share(running', c)) \in Nat
             /\ Cardinality(Share(running', c)) =
                  Cardinality(Share(running, c)) - (IF Class[t] = c THEN 1 ELSE 0)
  <2>1. running \in SUBSET Tasks /\ running \ {t} \in SUBSET Tasks
    BY Zenon DEF IInv, TypeOK
  <2>. QED  BY <1>1, <1>2, <2>1, ClassCount, Zenon
<1>4. active[Class[t]] - 1 \in Nat
  BY <1>1, <1>3 DEF IInv, TypeOK, Counted
<1>5. TypeOK'
  BY <1>1, <1>4, Zenon DEF IInv, TypeOK, Collect
<1>6. Places'
  BY <1>1, Zenon DEF IInv, TypeOK, Places, Over, Collect
<1>7. Counted'
  <2>1. Cardinality(running') <= MaxWorkers'
    <3>1. Cardinality(running') = Cardinality(running) - 1 /\ Cardinality(running) \in Nat
      BY <1>1, <1>2, ClassCount, Zenon DEF IInv, TypeOK
    <3>. QED  BY <3>1, GraphAssumption DEF GraphAssumption, IInv, Counted
  <2>2. ASSUME NEW c \in Classes
        PROVE  active'[c] = Cardinality(Share(running', c)) /\ active'[c] <= Limit[c]
    <3>1. active'[c] = active[c] - (IF Class[t] = c THEN 1 ELSE 0)
      BY <1>1, <1>2 DEF IInv, TypeOK
    <3>2. active[c] = Cardinality(Share(running, c)) /\ active[c] <= Limit[c]
      BY Zenon DEF IInv, Counted
    <3>3. active[c] \in Nat /\ Limit[c] \in Nat
      BY GraphAssumption, Zenon DEF GraphAssumption, IInv, TypeOK
    <3>. QED  BY <1>3, <3>1, <3>2, <3>3
  <2>. QED  BY <2>1, <2>2, Zenon DEF Counted
<1>8. Caused'
  <2>1. CASE worker[t] = "ok"
    BY <2>1 DEF IInv, Caused, Substantive, Collect
  <2>2. CASE worker[t] = "failed"
    BY <2>2, Zenon DEF IInv, Caused, Substantive, Collect
  <2>3. CASE worker[t] = "cancelled"
    BY <2>3, Zenon DEF IInv, Caused, Substantive, Collect
  <2>. QED  BY <1>1, <2>1, <2>2, <2>3, Zenon DEF Over
<1>. QED  BY <1>5, <1>6, <1>7, <1>8, Zenon

\* Report names the smallest substantive failure, of which there is one.
LEMMA ReportStep ==
  ASSUME IInv, Report
  PROVE  TypeOK' /\ Told'
<1>1. CASE failures # {}
  <2>1. Substantive \in SUBSET Nat /\ Substantive # {}
    BY <1>1, GraphAssumption, Zenon DEF GraphAssumption, IInv, TypeOK, Caused, Substantive
  <2>2. Least(Substantive) \in Substantive
    BY <2>1, LeastIn, Zenon
  <2>3. result' = [kind |-> "failed", primary |-> Least(Substantive)]
    BY <1>1, <2>1, Zenon DEF Report, Primary
  <2>4. worker[Least(Substantive)] = "failed" /\ Least(Substantive) \in Tasks
    BY <2>2, Zenon DEF IInv, TypeOK, Substantive
  <2>. HIDE DEF Least
  <2>5. TypeOK'
    BY <2>3, <2>4 DEF IInv, TypeOK, Report
  <2>. QED
    BY <2>3, <2>4, <2>5 DEF Told, NeverStuck, PrimaryFailed, Report
<1>2. CASE failures = {}
  <2>1. result' = [kind |-> "done", primary |-> NoTask]
    BY <1>2, Zenon DEF IInv, Drained, Report
  <2>. QED
    BY <2>1 DEF IInv, TypeOK, Told, NeverStuck, PrimaryFailed, Report
<1>. QED  BY <1>1, <1>2, Zenon

-----------------------------------------------------------------------------
(* Every step *)

\* Every step of run() and of the workers keeps the invariant.
LEMMA Inductive ==
  ASSUME IInv, [Next]_vars
  PROVE  IInv'
<1>1. CASE Loop
  <2>1. TypeOK'
    BY <1>1, Zenon DEF IInv, TypeOK, Loop, LoopTo, TakeReady, TakeReadyAfter
  <2>2. Places' /\ Batch' /\ Counted' /\ Caused' /\ Told'
    BY <1>1, Zenon DEF IInv, Places, Batch, Counted, Share, Caused, Substantive, Told,
                NeverStuck, PrimaryFailed, Loop, LoopTo
  <2>3. Released'
    BY <1>1, Zenon DEF IInv, Released, TypeOK, Loop, LoopTo, TakeReady, TakeReadyAfter
  <2>4. Dispatching'
    BY <1>1, Zenon DEF IInv, TypeOK, Released, Dispatching, Capacity, Loop, LoopTo,
                TakeReady, TakeReadyAfter
  <2>5. Drained'
    BY <1>1, Zenon DEF IInv, Drained, Loop, LoopTo
  <2>6. WorkConserving'
    BY <1>1, Zenon DEF WorkConserving, Loop, LoopTo
  <2>. QED  BY <2>1, <2>2, <2>3, <2>4, <2>5, <2>6, Zenon DEF IInv
<1>2. CASE Submit
  <2>1. TypeOK' /\ Places' /\ Released' /\ Counted' /\ Caused'
    BY <1>2, SubmitStep, Zenon
  <2>2. Batch' /\ Drained' /\ Told' /\ WorkConserving'
    BY <1>2, Zenon DEF IInv, Batch, Drained, Told, NeverStuck, PrimaryFailed, WorkConserving,
                Submit
  <2>3. Dispatching'
    BY <1>2 DEF IInv, Dispatching, Capacity, Submit
  <2>. QED  BY <2>1, <2>2, <2>3, Zenon DEF IInv
<1>3. CASE Defer
  <2>1. TypeOK' /\ Released'
    BY <1>3, DeferStep, Zenon
  <2>2. Places' /\ Batch' /\ Counted' /\ Caused' /\ Drained' /\ Told' /\ WorkConserving'
    BY <1>3, Zenon DEF IInv, Places, Batch, Counted, Share, Caused, Substantive, Drained,
                Told, NeverStuck, PrimaryFailed, WorkConserving, Defer, DeferTo
  <2>3. Dispatching'
    BY <1>3, Zenon DEF IInv, Dispatching, Capacity, Defer, DeferTo
  <2>. QED  BY <2>1, <2>2, <2>3, Zenon DEF IInv
<1>4. CASE Dispatched
  <2>1. TypeOK'
    BY <1>4, Zenon DEF IInv, TypeOK, Dispatched
  <2>2. Places' /\ Batch' /\ Counted' /\ Dispatching' /\ Caused' /\ Told'
    BY <1>4, Zenon DEF IInv, Places, Batch, Counted, Share, Dispatching, Caused, Substantive,
                Told, NeverStuck, PrimaryFailed, Dispatched
  <2>3. Released'
    BY <1>4, Zenon DEF IInv, Released, Dispatched
  <2>4. Drained'
    BY <1>4, DispatchedStep, Zenon
  <2>5. WorkConserving'
    BY <1>4, Zenon DEF IInv, TypeOK, Released, Dispatching, WorkConserving, Capacity,
                Dispatched
  <2>. QED  BY <2>1, <2>2, <2>3, <2>4, <2>5, Zenon DEF IInv
<1>5. CASE Wait
  <2>1. TypeOK' /\ Batch'
    BY <1>5, Zenon DEF IInv, TypeOK, Batch, Wait
  <2>2. Places' /\ Counted' /\ Caused' /\ Told'
    BY <1>5, Zenon DEF IInv, Places, Counted, Share, Caused, Substantive, Told, NeverStuck,
                PrimaryFailed, Wait
  <2>3. Released' /\ Dispatching' /\ Drained' /\ WorkConserving'
    BY <1>5, Zenon DEF IInv, Released, Dispatching, Drained, WorkConserving, Wait
  <2>. QED  BY <2>1, <2>2, <2>3, Zenon DEF IInv
<1>6. ASSUME NEW t \in Tasks, Collect(t)
      PROVE  IInv'
  <2>1. TypeOK' /\ Places' /\ Counted' /\ Caused'
    BY <1>6, CollectStep, Zenon
  <2>2. Batch'
    BY <1>6, Zenon DEF IInv, Batch, Collect
  <2>3. Released'
    BY <1>6, Zenon DEF IInv, Released, Collect
  <2>4. Dispatching' /\ Drained' /\ Told' /\ WorkConserving'
    BY <1>6, Zenon DEF IInv, Dispatching, Drained, Told, NeverStuck, PrimaryFailed,
                WorkConserving, Collect
  <2>. QED  BY <2>1, <2>2, <2>3, <2>4, Zenon DEF IInv
<1>7. CASE Collected
  <2>1. TypeOK' /\ Batch'
    BY <1>7, Zenon DEF IInv, TypeOK, Batch, Collected
  <2>2. Places' /\ Counted' /\ Caused' /\ Told'
    BY <1>7, Zenon DEF IInv, Places, Counted, Share, Caused, Substantive, Told, NeverStuck,
                PrimaryFailed, Collected
  <2>3. Released' /\ Dispatching' /\ Drained' /\ WorkConserving'
    BY <1>7, Zenon DEF IInv, Released, Dispatching, Drained, WorkConserving, Collected
  <2>. QED  BY <2>1, <2>2, <2>3 DEF IInv
<1>8. CASE Report
  <2>1. TypeOK' /\ Told'
    BY <1>8, ReportStep
  <2>2. Places' /\ Batch' /\ Counted' /\ Caused'
    BY <1>8, Zenon DEF IInv, Places, Batch, Counted, Share, Caused, Substantive, Report
  <2>3. Released' /\ Dispatching' /\ Drained' /\ WorkConserving'
    BY <1>8, Zenon DEF IInv, Released, Dispatching, Drained, WorkConserving, Report
  <2>. QED  BY <2>1, <2>2, <2>3, Zenon DEF IInv
<1>9. ASSUME NEW t \in Tasks, Work(t)
      PROVE  IInv'
  <2>1. PICK told \in {"live"} \cup Over :
          /\ worker[t] \in AtWork
          /\ worker' = [worker EXCEPT ![t] = told]
          /\ told = "cancelled" => token
          /\ UNCHANGED schedVars
    BY <1>9, Zenon DEF Work, Start, Finish, AtWork, Over
  <2>2. TypeOK'
    BY <2>1, Zenon DEF IInv, TypeOK, schedVars
  <2>3. Places'
    BY <2>1, Zenon DEF IInv, TypeOK, Places, AtWork, Over, schedVars
  <2>4. Batch'
    BY <2>1, Zenon DEF IInv, TypeOK, Batch, AtWork, Over, schedVars
  <2>5. Caused'
    BY <2>1, Zenon DEF IInv, TypeOK, Caused, Substantive, AtWork, Over, schedVars
  <2>6. Released' /\ Counted' /\ Dispatching' /\ Drained' /\ WorkConserving'
    BY <2>1, Zenon DEF IInv, Released, Counted, Share, Dispatching, Drained, WorkConserving,
                Capacity, schedVars
  <2>7. Told'
    BY <2>1 DEF IInv, TypeOK, Told, NeverStuck, PrimaryFailed, AtWork, schedVars
  <2>. QED  BY <2>2, <2>3, <2>4, <2>5, <2>6, <2>7, Zenon DEF IInv
<1>10. CASE UNCHANGED vars
  BY <1>10 DEF vars, schedVars, IInv, TypeOK, Places, Batch, Released, Counted, Share,
               Dispatching, Capacity, Caused, Substantive, Drained, Told, NeverStuck,
               PrimaryFailed, WorkConserving
<1>. QED
  BY <1>1, <1>2, <1>3, <1>4, <1>5, <1>6, <1>7, <1>8, <1>9, <1>10, Zenon
  DEF Next, Schedule, Returned

\* run() starts with every task pending.
LEMMA Initially == Init => IInv
<1>. SUFFICES ASSUME Init  PROVE IInv
  BY Zenon
<1>1. Cardinality({}) = 0
  BY FS_EmptySet, Zenon
<1>2. TypeOK /\ Places /\ Batch /\ Caused
  BY GraphAssumption, Zenon DEF GraphAssumption, Init, TypeOK, Places, Batch, Caused, Substantive, Over
<1>3. Released /\ Dispatching /\ Drained /\ Told /\ WorkConserving
  BY Zenon DEF Init, Released, Dispatching, Drained, Told, NeverStuck, PrimaryFailed, WorkConserving
<1>4. Counted
  <2>1. \A c \in Classes : Share({}, c) = {}
    BY Zenon DEF Share
  <2>. QED  BY <1>1, <2>1, GraphAssumption DEF GraphAssumption, Init, Counted
<1>. QED  BY <1>2, <1>3, <1>4, Zenon DEF IInv

\* run(): IInv holds in every reachable state, on every graph.
THEOREM Invariance == Spec => []IInv
<1>1. IInv /\ [Next]_vars => IInv'
  BY Inductive, Zenon
<1>. QED  BY Initially, <1>1, PTL DEF Spec

-----------------------------------------------------------------------------
(* Theorems *)

\* run(): its sets and counters keep their types, so active_resources counts down
\* only what it has counted up.
THEOREM TypeCorrect == Spec => []TypeOK
<1>1. IInv => TypeOK
  BY Zenon DEF IInv
<1>. QED  BY Invariance, <1>1, PTL

\* run() and capacity(): at no time are more tasks at work than max_workers, nor
\* more of a class than its limit.
THEOREM CeilingsHold == Spec => []Ceilings
<1>1. ASSUME IInv  PROVE Ceilings
  <2>. DEFINE Busy == {t \in Tasks : worker[t] \in {"submitted", "live"}}
  <2>1. Busy \subseteq running
    BY <1>1, Zenon DEF IInv, Places
  <2>2. IsFiniteSet(running)
    BY <1>1, FS_Subset, GraphAssumption, Zenon DEF GraphAssumption, IInv, TypeOK
  <2>3. Cardinality(running) \in Nat /\ MaxWorkers \in Nat
    BY <2>2, FS_CardinalityType, GraphAssumption, Zenon DEF GraphAssumption
  <2>4. Cardinality(Busy) <= Cardinality(running) /\ Cardinality(Busy) \in Nat
    BY <2>1, <2>2, FS_Subset, FS_CardinalityType, Zenon
  <2>5. Cardinality(Busy) <= MaxWorkers
    BY <1>1, <2>3, <2>4 DEF IInv, Counted
  <2>6. ASSUME NEW c \in Classes
        PROVE  Cardinality({t \in Tasks : Class[t] = c /\ worker[t] \in {"submitted", "live"}})
                 <= Limit[c]
    <3>. DEFINE Part == {t \in Tasks : Class[t] = c /\ worker[t] \in {"submitted", "live"}}
    <3>1. Part \subseteq Share(running, c) /\ Share(running, c) \subseteq running
      BY <2>1, Zenon DEF Share
    <3>2. IsFiniteSet(Share(running, c))
      BY <2>2, <3>1, FS_Subset, Zenon
    <3>3. Cardinality(Part) <= Cardinality(Share(running, c))
      BY <3>1, <3>2, FS_Subset, Zenon
    <3>4. /\ Cardinality(Part) \in Nat /\ Cardinality(Share(running, c)) \in Nat
          /\ Limit[c] \in Nat
      BY <3>1, <3>2, FS_Subset, FS_CardinalityType, GraphAssumption, Zenon DEF GraphAssumption
    <3>5. Cardinality(Share(running, c)) <= Limit[c]
      BY <1>1, <2>6, Zenon DEF IInv, Counted
    <3>. HIDE DEF Part
    <3>6. Cardinality(Part) <= Limit[c]
      BY <3>3, <3>4, <3>5
    <3>. QED  BY <3>6, Zenon DEF Part
  <2>. QED  BY <2>5, <2>6, Zenon DEF Ceilings
<1>. QED  BY Invariance, <1>1, PTL

\* DependencyQueue.take_ready and run(): no task is submitted before all that it
\* depends on has succeeded and been collected.
THEOREM DependenciesHold == Spec => []DependenciesFirst
<1>1. IInv => DependenciesFirst
  BY Zenon DEF IInv, Places, Released, DependenciesFirst
<1>. QED  BY Invariance, <1>1, PTL

\* run(): at its end no worker is at work and every task is reported as what it
\* became.
THEOREM EveryTaskAccounted == Spec => []Accounted
<1>1. IInv => Accounted
  BY Zenon DEF IInv, Places, Drained, Accounted
<1>. QED  BY Invariance, <1>1, PTL

\* run(): nothing but a limit holds back a task that could run.
THEOREM ConservesWork == Spec => []WorkConserving
<1>1. IInv => WorkConserving
  BY Zenon DEF IInv
<1>. QED  BY Invariance, <1>1, PTL

\* run(): the error for a graph without progress is unreachable, because the
\* pending task of least rank of an acyclic graph always becomes ready.
THEOREM NeverReportsStuck == Spec => []NeverStuck
<1>1. IInv => NeverStuck
  BY Zenon DEF IInv, Told
<1>. QED  BY Invariance, <1>1, PTL

\* run(): the primary failure is a task that failed by itself.
THEOREM PrimaryIsAFailure == Spec => []PrimaryFailed
<1>1. IInv => PrimaryFailed
  BY Zenon DEF IInv, Told
<1>. QED  BY Invariance, <1>1, PTL

=============================================================================
