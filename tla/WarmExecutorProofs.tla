------------------------- MODULE WarmExecutorProofs -------------------------
(***************************************************************************)
(* Proofs about WarmExecutor, for any graph, any number of workers, calls, *)
(* crashes, siblings, overwrites and collections.  The inductive invariant *)
(* follows a node from its submission to its record: Queue says what the   *)
(* main thread knows of a worker, Runtime and Lease who may use what,      *)
(* Blobs, Origin and Trust what a receipt is worth, and Sealed what has    *)
(* been read again before anything is published.                           *)
(***************************************************************************)
EXTENDS WarmExecutor, WellFoundedInduction, TLAPS

Outcomes == [content : Values, hit : BOOLEAN, publishable : BOOLEAN]

Labels == Active \cup {"none", "ok", "failed", "dropped"}

Ending == {"release", "final", "done"}

Phases == {"start", "loop", "wait", "collect", "drain", "close", "seal", "publish"} \cup Ending

Types ==
  /\ phase \in Phases
  /\ handed \subseteq Nodes /\ running \subseteq Nodes /\ done \subseteq Nodes
  /\ worker \in [Nodes -> Labels]
  /\ outcome \in [Nodes -> Outcomes \cup {None}] /\ got \in [Nodes -> Outcomes \cup {None}]
  /\ disk \in [Nodes -> Values \cup {Absent}]
  /\ staged \subseteq Nodes /\ unpublished \subseteq Nodes /\ published \subseteq Nodes
  /\ lease \in BOOLEAN /\ clean \in BOOLEAN
  /\ runtime \in {"none", "open", "broken", "closed"}
  /\ calls \in [built : Nat, closed : Nat]
  /\ \A e \in Written :
       e.content \in Values /\ e = [node |-> e.node, key |-> e.key, content |-> e.content]

\* A collected outcome is what the worker returned, and a node is handed out
\* when all it depends on has been collected.
Queue ==
  /\ \A n \in Nodes : worker[n] # "none" => n \in handed
  /\ \A n \in handed : \A d \in Deps[n] : outcome[d] # None
  /\ \A n \in Nodes : outcome[n] # None => outcome[n] = got[n]
  /\ \A n \in Nodes : got[n] # None <=> worker[n] = "ok"
  /\ phase \in {"close", "seal", "publish"} => \A n \in Nodes : outcome[n] # None
  /\ phase = "start" \/ (phase \in Ending /\ result # "rushed") =>
       \A n \in Nodes : worker[n] \notin Active
  /\ phase = "start" => \A n \in Nodes : worker[n] = "none"

Runtime ==
  /\ calls.built = (IF runtime = "none" THEN 0 ELSE 1)
  /\ calls.closed = (IF runtime = "closed" THEN 1 ELSE 0)
  /\ runtime = "closed" \/ clean => phase \in {"seal", "publish"} \cup Ending
  /\ clean => runtime # "open"
  /\ phase \in {"seal", "publish"} => clean
  /\ result = "rushed" => phase \in Ending /\ ~clean
  /\ result # "rushed" => \A n \in Nodes :
       worker[n] \in {"holding", "executing", "executed"} => runtime = "open"
  /\ phase = "done" /\ result \notin {"crashed", "rushed"} => runtime # "open"

Lease == lease <=> phase \in Phases \ {"start", "final", "done"}

\* Blobs of records, and of receipts that others or the cache rely on.
Blobs ==
  /\ \A r \in records : <<r.node, r.content>> \in blobs
  /\ lease => \A n \in Nodes :
       got[n] # None /\ (got[n].publishable \/ n \in DataConsumers)
         => <<n, got[n].content>> \in blobs

\* Receipts and records come from runs of the producer on these inputs.
Origin ==
  /\ \A n \in Nodes : got[n] # None => Execution(n, got[n].content) \in Written
  /\ \A n \in Nodes : worker[n] = "executed" =>
       disk[n] \in Values /\ Execution(n, disk[n]) \in Written
  /\ records \subseteq Written

\* A publishable receipt has publishable inputs and is recorded or staged.
Trust ==
  /\ \A n \in Nodes : got[n] # None /\ got[n].publishable => DependenciesPublishable(n)
  /\ \A n \in staged : got[n] # None /\ got[n].publishable
  /\ unpublished \subseteq staged /\ published \subseteq staged
  /\ lease => \A n \in Nodes : got[n] # None /\ got[n].publishable =>
                n \in staged \/ Record(n, got[n].content) \in records
  /\ phase = "publish" => \A n \in staged \ unpublished : Record(n, got[n].content) \in records
  /\ phase = "release" /\ result = "ok" => \A n \in Nodes :
       outcome[n] # None /\ (outcome[n].publishable => Record(n, outcome[n].content) \in records)

\* What is published or about to be was read again, with all the other outputs.
Sealed ==
  published # {} \/ (phase = "publish" /\ unpublished # {}) =>
    /\ phase \in {"publish"} \cup Ending /\ clean
    /\ \A n \in Nodes :
         outcome[n] # None /\ (Restoring \/ ~outcome[n].hit => disk[n] = outcome[n].content)

IInv == Types /\ Queue /\ Runtime /\ Lease /\ Blobs /\ Origin /\ Trust /\ Sealed

-----------------------------------------------------------------------------
(* Operators *)

\* The main thread takes the futures and the records in the order of their
\* identifiers: the least of a set is one of it.
LEMMA LeastIn ==
  ASSUME NEW S \in SUBSET Nodes, S # {}
  PROVE  Least(S) \in S
<1>. DEFINE Before == OpToRel(<, Nat)
<1>1. IsWellFoundedOn(Before, Nat)
  BY NatLessThanWellFounded, Zenon
<1>2. \A x, y \in Nat : <<y, x>> \in Before <=> y < x
  BY Zenon DEF OpToRel
<1>. HIDE DEF Before
<1>3. S \subseteq Nat
  BY WarmAssumption, Zenon DEF WarmAssumption
<1>4. PICK x \in S : \A y \in S : ~(<<y, x>> \in Before)
  BY <1>1, <1>3, WFMin, Zenon
<1>5. \A y \in S : x <= y
  <2>1. \A y \in S : ~(y < x)
    BY <1>2, <1>3, <1>4, Zenon
  <2>. QED  BY <1>3, <2>1
<1>. QED  BY <1>5, Zenon DEF Least

\* A NodeOutcome is never None.
LEMMA OutcomeSome ==
  /\ \A v \in Values, h \in BOOLEAN, p \in BOOLEAN :
       [content |-> v, hit |-> h, publishable |-> p] # None
  /\ None \notin Outcomes
<1>1. \A v \in Values, h \in BOOLEAN, p \in BOOLEAN :
        [content |-> v, hit |-> h, publishable |-> p] # None
  BY WarmAssumption, Zenon DEF WarmAssumption
<1>2. ASSUME NEW o \in Outcomes  PROVE o # None
  <2>1. o = [content |-> o.content, hit |-> o.hit, publishable |-> o.publishable]
        /\ o.content \in Values /\ o.hit \in BOOLEAN /\ o.publishable \in BOOLEAN
    BY Zenon DEF Outcomes
  <2>. QED  BY <1>1, <2>1, Zenon
<1>. QED  BY <1>1, <1>2, Zenon

\* The key of a node, and whether it may be published, are settled once what it
\* reads has been collected.
LEMMA InputsKept ==
  ASSUME NEW n \in Nodes, \A d \in Data(n) : outcome'[d] = outcome[d]
  PROVE  /\ Inputs(n)' = Inputs(n)
         /\ DependenciesPublishable(n)' <=> DependenciesPublishable(n)
         /\ \A v : Execution(n, v)' = Execution(n, v) /\ Record(n, v)' = Record(n, v)
<1>1. Inputs(n)' = Inputs(n)
  BY Zenon DEF Inputs
<1>. QED  BY <1>1, Zenon DEF DependenciesPublishable, Execution, Record, Key

-----------------------------------------------------------------------------
(* The parts of the invariant, step by step *)

\* Every step keeps the types.
LEMMA TypesStep ==
  ASSUME Types, Origin, [Next]_vars
  PROVE  Types'
<1>. USE DEF Types, Written, Phases, Ending, Labels, Active, mainVars, nodeVars, cacheVars, histVars
<1>1. ASSUME Acquire  PROVE Types'
  BY <1>1, Zenon DEF Acquire
<1>2. ASSUME Submit  PROVE Types'
  BY <1>2, Zenon DEF Submit, Batch, Ready
<1>3. ASSUME Wait  PROVE Types'
  BY <1>3, Zenon DEF Wait
<1>4. ASSUME Collect  PROVE Types'
  <2>. SUFFICES ASSUME done # {}  PROVE Types'
    BY <1>4, Zenon DEF Collect
  <2>1. Least(done) \in Nodes
    BY LeastIn, Zenon
  <2>. QED  BY <1>4, <2>1, Zenon DEF Collect, CancelRest
<1>5. ASSUME Drain  PROVE Types'
  BY <1>5, Zenon DEF Drain, DrainIf
<1>6. ASSUME Close  PROVE Types'
  <2>1. calls' \in [built : Nat, closed : Nat] /\ runtime' \in {"none", "open", "broken", "closed"}
    BY <1>6 DEF Close, CloseRuntime
  <2>2. phase' \in Phases /\ clean' \in BOOLEAN
    BY <1>6, Zenon DEF Close
  <2>. QED  BY <1>6, <2>1, <2>2, Zenon DEF Close
<1>7. ASSUME Seal  PROVE Types'
  BY <1>7, Zenon DEF Seal, SealOver
<1>8. ASSUME Publish  PROVE Types'
  <2>1. unpublished # {} => Least(unpublished) \in Nodes
    BY LeastIn, Zenon
  <2>. QED  BY <1>8, <2>1, Zenon DEF Publish
<1>9. ASSUME Release  PROVE Types'
  BY <1>9, Zenon DEF Release
<1>10. ASSUME Final  PROVE Types'
  BY <1>10 DEF Final, CloseRuntime
<1>11. ASSUME Interrupt  PROVE Types'
  BY <1>11, Zenon DEF Interrupt, CancelRest
<1>11a. ASSUME InterruptLate  PROVE Types'
  BY <1>11a, Zenon DEF InterruptLate
<1>12. ASSUME Crash  PROVE Types'
  BY <1>12, Zenon DEF Crash
<1>13. ASSUME Again  PROVE Types'
  BY <1>13, Zenon DEF Again
<1>14. ASSUME Gc  PROVE Types'
  BY <1>14, Zenon DEF Gc
<1>15. ASSUME NEW n \in Nodes, Sibling(n)  PROVE Types'
  BY <1>15 DEF Sibling, Execution
<1>16. ASSUME NEW n \in Nodes, Overwrite(n)  PROVE Types'
  <2>1. PICK v \in Values : /\ disk' = [disk EXCEPT ![n] = v]
                            /\ forged' \subseteq forged \cup {Execution(n, v)}
    BY <1>16, Zenon DEF Overwrite
  <2>2. disk' \in [Nodes -> Values \cup {Absent}]
    BY <2>1, Zenon
  <2>3. \A e \in Written' :
          e.content \in Values /\ e = [node |-> e.node, key |-> e.key, content |-> e.content]
    <3>1. UNCHANGED executions
      BY <1>16, Zenon DEF Overwrite
    <3>2. Written' \subseteq Written \cup {Execution(n, v)}
      BY <2>1, <3>1, Zenon
    <3>3. LET e == Execution(n, v)
          IN  e.content \in Values /\ e = [node |-> e.node, key |-> e.key, content |-> e.content]
      BY Zenon DEF Execution
    <3>. QED  BY <3>2, <3>3, Zenon
  <2>. QED  BY <1>16, <2>2, <2>3, Zenon DEF Overwrite
<1>17. ASSUME NEW n \in Nodes, Begin(n)  PROVE Types'
  BY <1>17, Zenon DEF Begin, WorkerTo
<1>18. ASSUME NEW n \in Nodes, Probe(n)  PROVE Types'
  <2>1. got' \in [Nodes -> Outcomes \cup {None}] /\ disk' \in [Nodes -> Values \cup {Absent}]
    <3>1. \A r \in records : r.content \in Values
      BY Zenon DEF Origin
    <3>2. \/ UNCHANGED <<got, disk>>
          \/ \E v \in Values :
               /\ got' = [got EXCEPT ![n] = [content |-> v, hit |-> TRUE, publishable |-> TRUE]]
               /\ disk' = IF Restoring THEN [disk EXCEPT ![n] = v] ELSE disk
      BY <1>18, <3>1, Zenon DEF Probe, ProbeFor
    <3>3. \A v \in Values : [content |-> v, hit |-> TRUE, publishable |-> TRUE] \in Outcomes
      BY Zenon DEF Outcomes
    <3>. QED  BY <3>2, <3>3
  <2>. QED  BY <1>18, <2>1, Zenon DEF Probe, ProbeFor, WorkerTo
<1>19. ASSUME NEW n \in Nodes, WorkerFails(n)  PROVE Types'
  BY <1>19, Zenon DEF WorkerFails, WorkerTo
<1>20. ASSUME NEW n \in Nodes, GetRuntime(n)  PROVE Types'
  BY <1>20 DEF GetRuntime, WorkerTo
<1>21. ASSUME NEW n \in Nodes, Launch(n)  PROVE Types'
  BY <1>21, Zenon DEF Launch, WorkerTo
<1>22. ASSUME NEW n \in Nodes, Execute(n)  PROVE Types'
  BY <1>22 DEF Execute, Execution, WorkerTo
<1>23. ASSUME NEW n \in Nodes, Store(n)  PROVE Types'
  <2>1. PICK publish \in BOOLEAN : StoreIf(n, publish)
    BY <1>23, Zenon DEF Store, MayPublish
  <2>2. got' \in [Nodes -> Outcomes \cup {None}]
    <3>1. CASE token
      BY <2>1, <3>1, Zenon DEF StoreIf
    <3>2. CASE ~token
      <4>1. worker[n] = "executed" /\ got' = [got EXCEPT ![n] =
                     [content |-> disk[n], hit |-> FALSE, publishable |-> publish]]
        BY <2>1, <3>2, Zenon DEF StoreIf
      <4>2. [content |-> disk[n], hit |-> FALSE, publishable |-> publish] \in Outcomes
        BY <4>1, Zenon DEF Outcomes, Origin
      <4>. QED  BY <4>1, <4>2, Zenon
    <3>. QED  BY <3>1, <3>2, Zenon
  <2>. QED  BY <2>1, <2>2 DEF StoreIf, WorkerTo
<1>24. CASE UNCHANGED vars
  BY <1>24, Zenon DEF vars
<1>. HIDE DEF Types, Written, Phases, Ending, Labels, Active, mainVars, nodeVars, cacheVars, histVars
<1>. QED
  BY <1>1, <1>2, <1>3, <1>4, <1>5, <1>6, <1>7, <1>8, <1>9, <1>10, <1>11, <1>11a,
     <1>12, <1>13, <1>14, <1>15, <1>16, <1>17, <1>18, <1>19, <1>20, <1>21, <1>22, <1>23,
     <1>24, Zenon
  DEF Next, Main, Environment, Worker

\* When every node has been collected no worker is left.
LEMMA AllReturned ==
  ASSUME Types, Queue, phase \in {"close", "seal", "publish"}
  PROVE  \A n \in Nodes : worker[n] \notin Active
  BY Zenon DEF Types, Queue, Active

\* Workers report before they are collected, and dependencies before dependents.
LEMMA QueueStep ==
  ASSUME Types, Queue, Origin, [Next]_vars
  PROVE  Queue'
<1>. USE DEF Types, Queue, Ending, mainVars, nodeVars, cacheVars, histVars
<1>1. ASSUME Acquire  PROVE Queue'
  BY <1>1, Zenon DEF Acquire
<1>2. ASSUME Submit  PROVE Queue'
  <2>1. CASE Collected = Nodes
    BY <1>2, <2>1, Zenon DEF Submit, Collected, Active
  <2>2. CASE Collected # Nodes
    <3>. DEFINE batch == Batch(MaxWorkers - Cardinality(running))
    <3>1. /\ handed' = handed \cup batch /\ phase' = "wait" /\ UNCHANGED <<outcome, got>>
          /\ worker' = [m \in Nodes |-> IF m \in batch THEN "submitted" ELSE worker[m]]
      BY <1>2, <2>2, Zenon DEF Submit
    <3>2. \A m \in batch : m \in Nodes \ handed /\ \A d \in Deps[m] : outcome[d] # None
      BY Zenon DEF Batch, Ready, Collected
    <3>. HIDE DEF batch
    <3>. QED  BY <3>1, <3>2, <1>2, Zenon
  <2>. QED  BY <2>1, <2>2, Zenon
<1>3. ASSUME Wait  PROVE Queue'
  BY <1>3, Zenon DEF Wait
<1>4. ASSUME Collect  PROVE Queue'
  <2>1. CASE done = {}
    BY <1>4, <2>1, Zenon DEF Collect
  <2>2. CASE done # {}
    <3>1. Least(done) \in Nodes
      BY <2>2, LeastIn, Zenon
    <3>2. CASE worker[Least(done)] = "ok"
      <4>1. outcome' = [outcome EXCEPT ![Least(done)] = got[Least(done)]]
            /\ UNCHANGED <<phase, handed, got, worker>> /\ phase = "collect"
        BY <1>4, <2>2, <3>2, Zenon DEF Collect
      <4>2. got[Least(done)] # None
        BY <3>1, <3>2, Zenon
      <4>. QED  BY <3>1, <3>2, <4>1, <4>2
    <3>3. CASE worker[Least(done)] # "ok"
      BY <1>4, <2>2, <3>1, <3>3 DEF Collect, CancelRest
    <3>. QED  BY <3>2, <3>3, Zenon
  <2>. QED  BY <2>1, <2>2, Zenon
<1>5. ASSUME Drain  PROVE Queue'
  BY <1>5, Zenon DEF Drain, DrainIf, AtWork
<1>6. ASSUME Close  PROVE Queue'
  BY <1>6, AllReturned, Zenon DEF Close
<1>7. ASSUME Seal  PROVE Queue'
  BY <1>7, AllReturned, Zenon DEF Seal, SealOver
<1>8. ASSUME Publish  PROVE Queue'
  BY <1>8, AllReturned, Zenon DEF Publish
<1>9. ASSUME Release  PROVE Queue'
  BY <1>9, Zenon DEF Release
<1>10. ASSUME Final  PROVE Queue'
  BY <1>10, Zenon DEF Final, CloseRuntime
<1>11. ASSUME Interrupt  PROVE Queue'
  BY <1>11, Zenon DEF Interrupt, CancelRest, Active
<1>11a. ASSUME InterruptLate  PROVE Queue'
  BY <1>11a, AllReturned, Zenon DEF InterruptLate
<1>12. ASSUME Crash  PROVE Queue'
  BY <1>12, Zenon DEF Crash, AtWork, Active
<1>13. ASSUME Again  PROVE Queue'
  BY <1>13, Zenon DEF Again, Active
<1>14. ASSUME Gc  PROVE Queue'
  BY <1>14, Zenon DEF Gc
<1>15. ASSUME NEW n \in Nodes, Sibling(n)  PROVE Queue'
  BY <1>15, Zenon DEF Sibling
<1>16. ASSUME NEW n \in Nodes, Overwrite(n)  PROVE Queue'
  BY <1>16, Zenon DEF Overwrite
<1>17. ASSUME NEW n \in Nodes, Begin(n)  PROVE Queue'
  BY <1>17, Zenon DEF Begin, WorkerTo, Active
<1>18. ASSUME NEW n \in Nodes, Probe(n)  PROVE Queue'
  <2>1. \/ UNCHANGED got /\ worker' = [worker EXCEPT ![n] = "missed"]
        \/ \E v \in Values :
             /\ got' = [got EXCEPT ![n] = [content |-> v, hit |-> TRUE, publishable |-> TRUE]]
             /\ worker' = [worker EXCEPT ![n] = "ok"]
    <3>1. \A r \in records : r.content \in Values
      BY Zenon DEF Origin
    <3>. QED  BY <1>18, <3>1, Zenon DEF Probe, ProbeFor, WorkerTo
  <2>2. outcome[n] = None /\ worker[n] = "begun" /\ n \in handed
    BY <1>18, Zenon DEF Probe, ProbeFor
  <2>3. UNCHANGED <<phase, handed, outcome, result>>
    BY <1>18, Zenon DEF Probe, ProbeFor
  <2>4. (got'[n] # None <=> worker'[n] = "ok") /\ worker'[n] # "none"
    <3>1. CASE UNCHANGED got /\ worker' = [worker EXCEPT ![n] = "missed"]
      BY <2>2, <3>1
    <3>2. ASSUME NEW v \in Values,
                 got' = [got EXCEPT ![n] = [content |-> v, hit |-> TRUE, publishable |-> TRUE]],
                 worker' = [worker EXCEPT ![n] = "ok"]
          PROVE  got'[n] # None /\ worker'[n] = "ok"
      BY <3>2, OutcomeSome, Zenon
    <3>. QED  BY <2>1, <3>1, <3>2
  <2>5. \A m \in Nodes \ {n} : got'[m] = got[m] /\ worker'[m] = worker[m]
    BY <2>1, Zenon
  <2>6. phase # "start" /\ (phase \in Ending => result = "rushed")
    BY <2>2, Zenon DEF Active
  <2>. QED  BY <2>2, <2>3, <2>4, <2>5, <2>6
<1>19. ASSUME NEW n \in Nodes, WorkerFails(n)  PROVE Queue'
  BY <1>19, Zenon DEF WorkerFails, WorkerTo, Active
<1>20. ASSUME NEW n \in Nodes, GetRuntime(n)  PROVE Queue'
  BY <1>20 DEF GetRuntime, WorkerTo, Active
<1>21. ASSUME NEW n \in Nodes, Launch(n)  PROVE Queue'
  BY <1>21, Zenon DEF Launch, WorkerTo, Active
<1>22. ASSUME NEW n \in Nodes, Execute(n)  PROVE Queue'
  BY <1>22, Zenon DEF Execute, WorkerTo, Active
<1>23. ASSUME NEW n \in Nodes, Store(n)  PROVE Queue'
  <2>1. PICK publish \in BOOLEAN : StoreIf(n, publish)
    BY <1>23, Zenon DEF Store, MayPublish
  <2>2. \/ UNCHANGED got /\ worker' = [worker EXCEPT ![n] = "failed"]
        \/ /\ got' = [got EXCEPT ![n] = [content |-> disk[n], hit |-> FALSE, publishable |-> publish]]
           /\ worker' = [worker EXCEPT ![n] = "ok"]
    BY <2>1, Zenon DEF StoreIf, WorkerTo
  <2>3. outcome[n] = None /\ worker[n] = "executed" /\ n \in handed /\ disk[n] \in Values
    BY <2>1, Zenon DEF StoreIf, Origin
  <2>4. UNCHANGED <<phase, handed, outcome, result>>
    BY <2>1, Zenon DEF StoreIf
  <2>5. (got'[n] # None <=> worker'[n] = "ok") /\ worker'[n] # "none"
    <3>1. [content |-> disk[n], hit |-> FALSE, publishable |-> publish] # None
      BY <2>3, OutcomeSome, Zenon
    <3>. QED  BY <2>2, <2>3, <3>1
  <2>6. \A m \in Nodes \ {n} : got'[m] = got[m] /\ worker'[m] = worker[m]
    BY <2>2, Zenon
  <2>7. phase # "start" /\ (phase \in Ending => result = "rushed")
    BY <2>3, Zenon DEF Active
  <2>. QED  BY <2>3, <2>4, <2>5, <2>6, <2>7
<1>24. CASE UNCHANGED vars
  BY <1>24, Zenon DEF vars
<1>. HIDE DEF Types, Queue, Ending, mainVars, nodeVars, cacheVars, histVars
<1>. QED
  BY <1>1, <1>2, <1>3, <1>4, <1>5, <1>6, <1>7, <1>8, <1>9, <1>10, <1>11, <1>11a,
     <1>12, <1>13, <1>14, <1>15, <1>16, <1>17, <1>18, <1>19, <1>20, <1>21, <1>22, <1>23,
     <1>24, Zenon
  DEF Next, Main, Environment, Worker

\* The runtime is built once, and closed when no worker is left.
LEMMA RuntimeStep ==
  ASSUME Types, Queue, Runtime, [Next]_vars
  PROVE  Runtime'
<1>. USE DEF Types, Runtime, Phases, Ending, mainVars, nodeVars, cacheVars, histVars
<1>1. ASSUME Acquire  PROVE Runtime'
  BY <1>1, Zenon DEF Acquire
<1>2. ASSUME Submit  PROVE Runtime'
  BY <1>2, Zenon DEF Submit, Batch, Ready
<1>3. ASSUME Wait  PROVE Runtime'
  BY <1>3, Zenon DEF Wait
<1>4. ASSUME Collect  PROVE Runtime'
  BY <1>4, Zenon DEF Collect, CancelRest
<1>5. ASSUME Drain  PROVE Runtime'
  BY <1>5, Zenon DEF Drain, DrainIf, AtWork, Active
<1>6. ASSUME Close  PROVE Runtime'
  <2>1. \A n \in Nodes : worker[n] \notin Active
    BY <1>6, Zenon DEF Close, Active, Queue
  <2>. QED  BY <1>6, <2>1 DEF Close, CloseRuntime, Active
<1>7. ASSUME Seal  PROVE Runtime'
  BY <1>7, Zenon DEF Seal, SealOver
<1>8. ASSUME Publish  PROVE Runtime'
  BY <1>8, Zenon DEF Publish
<1>9. ASSUME Release  PROVE Runtime'
  BY <1>9, Zenon DEF Release
<1>10. ASSUME Final  PROVE Runtime'
  <2>1. result # "rushed" => \A n \in Nodes : worker[n] \notin Active
    BY <1>10, Zenon DEF Final, Queue
  <2>. QED  BY <1>10, <2>1 DEF Final, CloseRuntime, Active
<1>11. ASSUME Interrupt  PROVE Runtime'
  BY <1>11, Zenon DEF Interrupt, CancelRest
<1>11a. ASSUME InterruptLate  PROVE Runtime'
  BY <1>11a, Zenon DEF InterruptLate
<1>12. ASSUME Crash  PROVE Runtime'
  BY <1>12, Zenon DEF Crash, AtWork, Active
<1>13. ASSUME Again  PROVE Runtime'
  BY <1>13, Zenon DEF Again
<1>14. ASSUME Gc  PROVE Runtime'
  BY <1>14, Zenon DEF Gc
<1>15. ASSUME NEW n \in Nodes, Sibling(n)  PROVE Runtime'
  BY <1>15, Zenon DEF Sibling
<1>16. ASSUME NEW n \in Nodes, Overwrite(n)  PROVE Runtime'
  BY <1>16, Zenon DEF Overwrite
<1>17. ASSUME NEW n \in Nodes, Begin(n)  PROVE Runtime'
  BY <1>17, Zenon DEF Begin, WorkerTo
<1>18. ASSUME NEW n \in Nodes, Probe(n)  PROVE Runtime'
  BY <1>18, Zenon DEF Probe, ProbeFor, WorkerTo
<1>19. ASSUME NEW n \in Nodes, WorkerFails(n)  PROVE Runtime'
  BY <1>19, Zenon DEF WorkerFails, WorkerTo
<1>20. ASSUME NEW n \in Nodes, GetRuntime(n)  PROVE Runtime'
  <2>1. phase \notin {"seal", "publish"} /\ (phase \in Ending => result = "rushed")
    BY <1>20, Zenon DEF GetRuntime, Queue, Active
  <2>. QED  BY <1>20, <2>1 DEF GetRuntime, WorkerTo
<1>21. ASSUME NEW n \in Nodes, Launch(n)  PROVE Runtime'
  BY <1>21, Zenon DEF Launch, WorkerTo
<1>22. ASSUME NEW n \in Nodes, Execute(n)  PROVE Runtime'
  BY <1>22, Zenon DEF Execute, WorkerTo
<1>23. ASSUME NEW n \in Nodes, Store(n)  PROVE Runtime'
  <2>1. PICK publish \in BOOLEAN : StoreIf(n, publish)
    BY <1>23, Zenon DEF Store, MayPublish
  <2>. QED  BY <2>1, Zenon DEF StoreIf, WorkerTo
<1>24. CASE UNCHANGED vars
  BY <1>24, Zenon DEF vars
<1>. HIDE DEF Types, Runtime, Phases, Ending, mainVars, nodeVars, cacheVars, histVars
<1>. QED
  BY <1>1, <1>2, <1>3, <1>4, <1>5, <1>6, <1>7, <1>8, <1>9, <1>10, <1>11, <1>11a,
     <1>12, <1>13, <1>14, <1>15, <1>16, <1>17, <1>18, <1>19, <1>20, <1>21, <1>22, <1>23,
     <1>24, Zenon
  DEF Next, Main, Environment, Worker

\* The lease is held from the first node to the last record.
LEMMA LeaseStep ==
  ASSUME Types, Lease, [Next]_vars
  PROVE  Lease'
<1>. USE DEF Types, Lease, Phases, Ending, mainVars, nodeVars, cacheVars, histVars
<1>1. ASSUME Acquire  PROVE Lease'
  BY <1>1, Zenon DEF Acquire
<1>2. ASSUME Submit  PROVE Lease'
  BY <1>2, Zenon DEF Submit, Batch, Ready
<1>3. ASSUME Wait  PROVE Lease'
  BY <1>3, Zenon DEF Wait
<1>4. ASSUME Collect  PROVE Lease'
  BY <1>4, Zenon DEF Collect, CancelRest
<1>5. ASSUME Drain  PROVE Lease'
  BY <1>5, Zenon DEF Drain, DrainIf
<1>6. ASSUME Close  PROVE Lease'
  BY <1>6, Zenon DEF Close, CloseRuntime
<1>7. ASSUME Seal  PROVE Lease'
  BY <1>7, Zenon DEF Seal, SealOver
<1>8. ASSUME Publish  PROVE Lease'
  BY <1>8, Zenon DEF Publish
<1>9. ASSUME Release  PROVE Lease'
  BY <1>9, Zenon DEF Release
<1>10. ASSUME Final  PROVE Lease'
  BY <1>10, Zenon DEF Final, CloseRuntime
<1>11. ASSUME Interrupt  PROVE Lease'
  BY <1>11, Zenon DEF Interrupt, CancelRest
<1>11a. ASSUME InterruptLate  PROVE Lease'
  BY <1>11a, Zenon DEF InterruptLate
<1>12. ASSUME Crash  PROVE Lease'
  BY <1>12, Zenon DEF Crash
<1>13. ASSUME Again  PROVE Lease'
  BY <1>13, Zenon DEF Again
<1>14. ASSUME Gc  PROVE Lease'
  BY <1>14, Zenon DEF Gc
<1>15. ASSUME NEW n \in Nodes, Sibling(n)  PROVE Lease'
  BY <1>15, Zenon DEF Sibling
<1>16. ASSUME NEW n \in Nodes, Overwrite(n)  PROVE Lease'
  BY <1>16, Zenon DEF Overwrite
<1>17. ASSUME NEW n \in Nodes, Begin(n)  PROVE Lease'
  BY <1>17, Zenon DEF Begin, WorkerTo
<1>18. ASSUME NEW n \in Nodes, Probe(n)  PROVE Lease'
  BY <1>18, Zenon DEF Probe, ProbeFor, WorkerTo
<1>19. ASSUME NEW n \in Nodes, WorkerFails(n)  PROVE Lease'
  BY <1>19, Zenon DEF WorkerFails, WorkerTo
<1>20. ASSUME NEW n \in Nodes, GetRuntime(n)  PROVE Lease'
  BY <1>20, Zenon DEF GetRuntime, WorkerTo
<1>21. ASSUME NEW n \in Nodes, Launch(n)  PROVE Lease'
  BY <1>21, Zenon DEF Launch, WorkerTo
<1>22. ASSUME NEW n \in Nodes, Execute(n)  PROVE Lease'
  BY <1>22, Zenon DEF Execute, WorkerTo
<1>23. ASSUME NEW n \in Nodes, Store(n)  PROVE Lease'
  <2>1. PICK publish \in BOOLEAN : StoreIf(n, publish)
    BY <1>23, Zenon DEF Store, MayPublish
  <2>. QED  BY <2>1, Zenon DEF StoreIf
<1>24. CASE UNCHANGED vars
  BY <1>24, Zenon DEF vars
<1>. HIDE DEF Types, Lease, Phases, Ending, mainVars, nodeVars, cacheVars, histVars
<1>. QED
  BY <1>1, <1>2, <1>3, <1>4, <1>5, <1>6, <1>7, <1>8, <1>9, <1>10, <1>11, <1>11a,
     <1>12, <1>13, <1>14, <1>15, <1>16, <1>17, <1>18, <1>19, <1>20, <1>21, <1>22, <1>23,
     <1>24, Zenon
  DEF Next, Main, Environment, Worker

Stay ==
  /\ \A n \in Nodes : /\ outcome[n] # None => outcome'[n] = outcome[n]
                      /\ got[n] # None => got'[n] = got[n]
  /\ Written \subseteq Written'

\* Until the next call, outcomes, receipts and runs stay what they are.
LEMMA Steady ==
  ASSUME Types, Queue, ~Again, [Next]_vars
  PROVE  Stay
<1>. USE DEF Types, Queue, Stay, Written, mainVars, nodeVars, cacheVars, histVars
<1>1. ASSUME Acquire  PROVE Stay
  BY <1>1, Zenon DEF Acquire
<1>2. ASSUME Submit  PROVE Stay
  BY <1>2, Zenon DEF Submit, Batch, Ready
<1>3. ASSUME Wait  PROVE Stay
  BY <1>3, Zenon DEF Wait
<1>4. ASSUME Collect  PROVE Stay
  <2>1. CASE done = {}
    BY <1>4, <2>1, Zenon DEF Collect
  <2>2. CASE done # {}
    <3>1. Least(done) \in Nodes
      BY <2>2, LeastIn, Zenon
    <3>. QED  BY <1>4, <2>2, <3>1, Zenon DEF Collect
  <2>. QED  BY <2>1, <2>2, Zenon
<1>5. ASSUME Drain  PROVE Stay
  BY <1>5, Zenon DEF Drain, DrainIf
<1>6. ASSUME Close  PROVE Stay
  BY <1>6, Zenon DEF Close, CloseRuntime
<1>7. ASSUME Seal  PROVE Stay
  BY <1>7, Zenon DEF Seal, SealOver
<1>8. ASSUME Publish  PROVE Stay
  BY <1>8, Zenon DEF Publish
<1>9. ASSUME Release  PROVE Stay
  BY <1>9, Zenon DEF Release
<1>10. ASSUME Final  PROVE Stay
  BY <1>10, Zenon DEF Final, CloseRuntime
<1>11. ASSUME Interrupt  PROVE Stay
  BY <1>11, Zenon DEF Interrupt, CancelRest
<1>11a. ASSUME InterruptLate  PROVE Stay
  BY <1>11a, Zenon DEF InterruptLate
<1>12. ASSUME Crash  PROVE Stay
  BY <1>12, Zenon DEF Crash
<1>13. ASSUME Again  PROVE Stay
  BY <1>13, Zenon
<1>14. ASSUME Gc  PROVE Stay
  BY <1>14, Zenon DEF Gc
<1>15. ASSUME NEW n \in Nodes, Sibling(n)  PROVE Stay
  BY <1>15, Zenon DEF Sibling
<1>16. ASSUME NEW n \in Nodes, Overwrite(n)  PROVE Stay
  BY <1>16, Zenon DEF Overwrite
<1>17. ASSUME NEW n \in Nodes, Begin(n)  PROVE Stay
  BY <1>17, Zenon DEF Begin, WorkerTo
<1>18. ASSUME NEW n \in Nodes, Probe(n)  PROVE Stay
  BY <1>18, Zenon DEF Probe, ProbeFor, WorkerTo
<1>19. ASSUME NEW n \in Nodes, WorkerFails(n)  PROVE Stay
  BY <1>19, Zenon DEF WorkerFails, WorkerTo
<1>20. ASSUME NEW n \in Nodes, GetRuntime(n)  PROVE Stay
  BY <1>20, Zenon DEF GetRuntime, WorkerTo
<1>21. ASSUME NEW n \in Nodes, Launch(n)  PROVE Stay
  BY <1>21, Zenon DEF Launch, WorkerTo
<1>22. ASSUME NEW n \in Nodes, Execute(n)  PROVE Stay
  BY <1>22, Zenon DEF Execute, WorkerTo
<1>23. ASSUME NEW n \in Nodes, Store(n)  PROVE Stay
  <2>1. PICK publish \in BOOLEAN : StoreIf(n, publish)
    BY <1>23, Zenon DEF Store, MayPublish
  <2>. QED  BY <2>1, Zenon DEF StoreIf
<1>24. CASE UNCHANGED vars
  BY <1>24, Zenon DEF vars
<1>. HIDE DEF Types, Queue, Stay, Written, mainVars, nodeVars, cacheVars, histVars
<1>. QED
  BY <1>1, <1>2, <1>3, <1>4, <1>5, <1>6, <1>7, <1>8, <1>9, <1>10, <1>11, <1>11a,
     <1>12, <1>13, <1>14, <1>15, <1>16, <1>17, <1>18, <1>19, <1>20, <1>21, <1>22, <1>23,
     <1>24, Zenon
  DEF Next, Main, Environment, Worker

\* So a node that was handed out keeps its key.
LEMMA KeysKept ==
  ASSUME Types, Queue, Stay, NEW n \in handed
  PROVE  /\ Inputs(n)' = Inputs(n)
         /\ DependenciesPublishable(n)' <=> DependenciesPublishable(n)
         /\ \A v : Execution(n, v)' = Execution(n, v) /\ Record(n, v)' = Record(n, v)
<1>1. \A d \in Data(n) : outcome'[d] = outcome[d]
  BY WarmAssumption DEF WarmAssumption, Types, Queue, Stay, Data
<1>. QED  BY <1>1, InputsKept, Zenon DEF Types

\* Blobs are there before what names them, and go only without a lease.
LEMMA BlobsStep ==
  ASSUME Types, Queue, Blobs, [Next]_vars
  PROVE  Blobs'
<1>. USE DEF Types, Blobs, mainVars, nodeVars, cacheVars, histVars
<1>1. ASSUME Acquire  PROVE Blobs'
  BY <1>1, Zenon DEF Acquire, Queue
<1>2. ASSUME Submit  PROVE Blobs'
  BY <1>2, Zenon DEF Submit, Batch, Ready
<1>3. ASSUME Wait  PROVE Blobs'
  BY <1>3, Zenon DEF Wait
<1>4. ASSUME Collect  PROVE Blobs'
  BY <1>4, Zenon DEF Collect, CancelRest
<1>5. ASSUME Drain  PROVE Blobs'
  BY <1>5, Zenon DEF Drain, DrainIf
<1>6. ASSUME Close  PROVE Blobs'
  BY <1>6, Zenon DEF Close, CloseRuntime
<1>7. ASSUME Seal  PROVE Blobs'
  BY <1>7, Zenon DEF Seal, SealOver
<1>8. ASSUME Publish  PROVE Blobs'
  BY <1>8 DEF Publish, Record
<1>9. ASSUME Release  PROVE Blobs'
  BY <1>9, Zenon DEF Release
<1>10. ASSUME Final  PROVE Blobs'
  BY <1>10, Zenon DEF Final, CloseRuntime
<1>11. ASSUME Interrupt  PROVE Blobs'
  BY <1>11, Zenon DEF Interrupt, CancelRest
<1>11a. ASSUME InterruptLate  PROVE Blobs'
  BY <1>11a, Zenon DEF InterruptLate
<1>12. ASSUME Crash  PROVE Blobs'
  BY <1>12, Zenon DEF Crash
<1>13. ASSUME Again  PROVE Blobs'
  BY <1>13, Zenon DEF Again
<1>14. ASSUME Gc  PROVE Blobs'
  BY <1>14, Zenon DEF Gc
<1>15. ASSUME NEW n \in Nodes, Sibling(n)  PROVE Blobs'
  BY <1>15 DEF Sibling, Record
<1>16. ASSUME NEW n \in Nodes, Overwrite(n)  PROVE Blobs'
  BY <1>16, Zenon DEF Overwrite
<1>17. ASSUME NEW n \in Nodes, Begin(n)  PROVE Blobs'
  BY <1>17, Zenon DEF Begin, WorkerTo
<1>18. ASSUME NEW n \in Nodes, Probe(n)  PROVE Blobs'
  <2>1. CASE UNCHANGED got
    BY <1>18, <2>1, Zenon DEF Probe, ProbeFor
  <2>2. ASSUME NEW r \in records, <<n, r.content>> \in blobs,
               got' = [got EXCEPT ![n] = [content |-> r.content, hit |-> TRUE, publishable |-> TRUE]]
        PROVE  Blobs'
    <3>1. UNCHANGED <<lease, records, blobs>>
      BY <1>18, Zenon DEF Probe, ProbeFor
    <3>. QED  BY <2>2, <3>1, Zenon
  <2>. QED  BY <1>18, <2>1, <2>2, Zenon DEF Probe, ProbeFor
<1>19. ASSUME NEW n \in Nodes, WorkerFails(n)  PROVE Blobs'
  BY <1>19, Zenon DEF WorkerFails, WorkerTo
<1>20. ASSUME NEW n \in Nodes, GetRuntime(n)  PROVE Blobs'
  BY <1>20, Zenon DEF GetRuntime, WorkerTo
<1>21. ASSUME NEW n \in Nodes, Launch(n)  PROVE Blobs'
  BY <1>21, Zenon DEF Launch, WorkerTo
<1>22. ASSUME NEW n \in Nodes, Execute(n)  PROVE Blobs'
  BY <1>22, Zenon DEF Execute, WorkerTo
<1>23. ASSUME NEW n \in Nodes, Store(n)  PROVE Blobs'
  <2>1. PICK publish \in BOOLEAN : StoreIf(n, publish)
    BY <1>23, Zenon DEF Store, MayPublish
  <2>2. CASE token
    BY <2>1, <2>2, Zenon DEF StoreIf
  <2>3. CASE ~token
    <3>1. /\ blobs' = (IF publish \/ n \in DataConsumers THEN blobs \cup {<<n, disk[n]>>} ELSE blobs)
          /\ got' = [got EXCEPT ![n] = [content |-> disk[n], hit |-> FALSE, publishable |-> publish]]
          /\ UNCHANGED <<lease, records>>
      BY <2>1, <2>3, Zenon DEF StoreIf
    <3>. QED  BY <3>1, Zenon
  <2>. QED  BY <2>2, <2>3, Zenon
<1>24. CASE UNCHANGED vars
  BY <1>24, Zenon DEF vars
<1>. HIDE DEF Types, Blobs, mainVars, nodeVars, cacheVars, histVars
<1>. QED
  BY <1>1, <1>2, <1>3, <1>4, <1>5, <1>6, <1>7, <1>8, <1>9, <1>10, <1>11, <1>11a,
     <1>12, <1>13, <1>14, <1>15, <1>16, <1>17, <1>18, <1>19, <1>20, <1>21, <1>22, <1>23,
     <1>24, Zenon
  DEF Next, Main, Environment, Worker

\* What a step adds comes from a run of the producer on the inputs of its node.
Fresh ==
  /\ \A n \in Nodes : got'[n] # got[n] =>
       n \in handed /\ Execution(n, got'[n].content) \in Written'
  /\ \A n \in Nodes : worker'[n] = "executed" =>
       \/ worker[n] = "executed" /\ disk'[n] = disk[n]
       \/ n \in handed /\ disk'[n] \in Values /\ Execution(n, disk'[n]) \in Written'
  /\ records' \subseteq Written'

\* Hits repeat a run, misses are one, and records name one.
LEMMA OriginFresh ==
  ASSUME Types, Queue, Origin, ~Again, [Next]_vars
  PROVE  Fresh
<1>. USE DEF Types, Origin, Fresh, Written, mainVars, nodeVars, cacheVars, histVars
<1>1. ASSUME Acquire  PROVE Fresh
  BY <1>1, Zenon DEF Acquire
<1>2. ASSUME Submit  PROVE Fresh
  BY <1>2, Zenon DEF Submit, Batch, Ready
<1>3. ASSUME Wait  PROVE Fresh
  BY <1>3, Zenon DEF Wait
<1>4. ASSUME Collect  PROVE Fresh
  BY <1>4, Zenon DEF Collect, CancelRest
<1>5. ASSUME Drain  PROVE Fresh
  BY <1>5, Zenon DEF Drain, DrainIf
<1>6. ASSUME Close  PROVE Fresh
  BY <1>6, Zenon DEF Close, CloseRuntime
<1>7. ASSUME Seal  PROVE Fresh
  BY <1>7, Zenon DEF Seal, SealOver
<1>8. ASSUME Publish  PROVE Fresh
  <2>1. UNCHANGED <<got, worker, disk, Written>>
    BY <1>8, Zenon DEF Publish, nodeVars
  <2>2. CASE UNCHANGED records
    BY <2>1, <2>2, Zenon
  <2>3. CASE records' # records
    <3>. DEFINE n == Least(unpublished)
    <3>1. n \in Nodes /\ records' = records \cup {Record(n, outcome[n].content)} /\ phase = "publish"
      BY <1>8, <2>3, LeastIn, Zenon DEF Publish
    <3>2. outcome[n] # None /\ outcome[n] = got[n]
      BY <3>1, Zenon DEF Queue
    <3>3. Record(n, outcome[n].content) \in Written
      BY <3>1, <3>2, Zenon DEF Record, Key, Execution
    <3>. QED  BY <2>1, <3>1, <3>3, Zenon
  <2>. QED  BY <2>2, <2>3, Zenon
<1>9. ASSUME Release  PROVE Fresh
  BY <1>9, Zenon DEF Release
<1>10. ASSUME Final  PROVE Fresh
  BY <1>10, Zenon DEF Final, CloseRuntime
<1>11. ASSUME Interrupt  PROVE Fresh
  BY <1>11, Zenon DEF Interrupt, CancelRest
<1>11a. ASSUME InterruptLate  PROVE Fresh
  BY <1>11a, Zenon DEF InterruptLate
<1>12. ASSUME Crash  PROVE Fresh
  BY <1>12, Zenon DEF Crash
<1>13. ASSUME Again  PROVE Fresh
  BY <1>13, Zenon
<1>14. ASSUME Gc  PROVE Fresh
  BY <1>14, Zenon DEF Gc
<1>15. ASSUME NEW n \in Nodes, Sibling(n)  PROVE Fresh
  BY <1>15, Zenon DEF Sibling, Record, Key, Execution
<1>16. ASSUME NEW n \in Nodes, Overwrite(n)  PROVE Fresh
  <2>1. PICK v \in Values :
          /\ disk' = [disk EXCEPT ![n] = v]
          /\ worker[n] = "executed" => forged' = forged \cup {Execution(n, v)}
    BY <1>16, Zenon DEF Overwrite
  <2>2. UNCHANGED <<got, worker, records, executions>> /\ forged \subseteq forged'
    BY <1>16, Zenon DEF Overwrite
  <2>3. worker[n] = "executed" =>
          n \in handed /\ disk'[n] \in Values /\ Execution(n, disk'[n]) \in Written'
    BY <2>1, Zenon DEF Queue
  <2>4. \A m \in Nodes \ {n} : disk'[m] = disk[m]
    BY <2>1, Zenon
  <2>. QED  BY <2>2, <2>3, <2>4, Zenon
<1>17. ASSUME NEW n \in Nodes, Begin(n)  PROVE Fresh
  BY <1>17, Zenon DEF Begin, WorkerTo
<1>18. ASSUME NEW n \in Nodes, Probe(n)  PROVE Fresh
  <2>1. UNCHANGED <<records, Written>> /\ worker' # worker /\ worker'[n] \in {"ok", "missed"}
        /\ \A m \in Nodes \ {n} : got'[m] = got[m] /\ worker'[m] = worker[m] /\ disk'[m] = disk[m]
    BY <1>18, Zenon DEF Probe, ProbeFor, WorkerTo
  <2>2. CASE UNCHANGED got
    BY <2>1, <2>2, Zenon
  <2>3. ASSUME NEW r \in records, r.node = n, r.key = Key(n),
               got' = [got EXCEPT ![n] = [content |-> r.content, hit |-> TRUE, publishable |-> TRUE]]
        PROVE  Fresh
    <3>1. r = Execution(n, r.content)
      BY <2>3, Zenon DEF Execution, Key
    <3>2. n \in handed
      BY <1>18, Zenon DEF Probe, ProbeFor, Queue
    <3>. QED  BY <2>1, <2>3, <3>1, <3>2
  <2>. QED  BY <1>18, <2>2, <2>3, Zenon DEF Probe, ProbeFor
<1>19. ASSUME NEW n \in Nodes, WorkerFails(n)  PROVE Fresh
  BY <1>19, Zenon DEF WorkerFails, WorkerTo
<1>20. ASSUME NEW n \in Nodes, GetRuntime(n)  PROVE Fresh
  BY <1>20, Zenon DEF GetRuntime, WorkerTo
<1>21. ASSUME NEW n \in Nodes, Launch(n)  PROVE Fresh
  BY <1>21, Zenon DEF Launch, WorkerTo
<1>22. ASSUME NEW n \in Nodes, Execute(n)  PROVE Fresh
  <2>1. n \in handed
    BY <1>22, Zenon DEF Execute, Queue
  <2>. QED  BY <1>22, <2>1, Zenon DEF Execute, WorkerTo
<1>23. ASSUME NEW n \in Nodes, Store(n)  PROVE Fresh
  <2>1. PICK publish \in BOOLEAN : StoreIf(n, publish)
    BY <1>23, Zenon DEF Store, MayPublish
  <2>2. n \in handed /\ Execution(n, disk[n]) \in Written
    BY <2>1, Zenon DEF StoreIf, Queue
  <2>. QED  BY <2>1, <2>2 DEF StoreIf, WorkerTo
<1>24. CASE UNCHANGED vars
  BY <1>24, Zenon DEF vars
<1>. HIDE DEF Types, Origin, Fresh, Written, mainVars, nodeVars, cacheVars, histVars
<1>. QED
  BY <1>1, <1>2, <1>3, <1>4, <1>5, <1>6, <1>7, <1>8, <1>9, <1>10, <1>11, <1>11a,
     <1>12, <1>13, <1>14, <1>15, <1>16, <1>17, <1>18, <1>19, <1>20, <1>21, <1>22, <1>23,
     <1>24, Zenon
  DEF Next, Main, Environment, Worker

\* Every receipt and every record has its origin.
LEMMA OriginStep ==
  ASSUME Types, Queue, Origin, [Next]_vars
  PROVE  Origin'
<1>1. CASE Again
  BY <1>1, Zenon DEF Again, Origin, Written, cacheVars
<1>2. CASE ~Again
  <2>1. Stay /\ Fresh
    BY <1>2, Steady, OriginFresh, Zenon
  <2>2. \A n \in handed : \A v : Execution(n, v)' = Execution(n, v)
    BY <2>1, KeysKept, Zenon
  <2>3. ASSUME NEW n \in Nodes, got'[n] # None
        PROVE  Execution(n, got[n].content)' \in Written'
    <3>1. n \in handed /\ Execution(n, got'[n].content) \in Written'
      <4>1. CASE got'[n] = got[n]
        BY <2>1, <2>3, <4>1, Zenon DEF Types, Queue, Origin, Stay
      <4>2. CASE got'[n] # got[n]
        BY <2>1, <4>2, Zenon DEF Fresh
      <4>. QED  BY <4>1, <4>2, Zenon
    <3>2. Inputs(n)' = Inputs(n)
      BY <2>1, <3>1, KeysKept, Zenon
    <3>. QED  BY <3>1, <3>2, Zenon DEF Execution
  <2>4. ASSUME NEW n \in Nodes, worker'[n] = "executed"
        PROVE  disk'[n] \in Values /\ Execution(n, disk[n])' \in Written'
    <3>1. n \in handed /\ disk'[n] \in Values /\ Execution(n, disk'[n]) \in Written'
      BY <2>1, <2>4, Zenon DEF Types, Queue, Origin, Stay, Fresh
    <3>2. Inputs(n)' = Inputs(n)
      BY <2>1, <3>1, KeysKept, Zenon
    <3>. QED  BY <3>1, <3>2, Zenon DEF Execution
  <2>. QED  BY <2>1, <2>3, <2>4, Zenon DEF Origin, Fresh
<1>. QED  BY <1>1, <1>2, Zenon

\* What was settled for a receipt stays settled.
LEMMA TrustKept ==
  ASSUME Types, Queue, Trust, Stay, NEW n \in Nodes, got[n] # None
  PROVE  /\ got'[n] = got[n]
         /\ DependenciesPublishable(n)' <=> DependenciesPublishable(n)
         /\ Record(n, got[n].content)' = Record(n, got[n].content)
<1>1. n \in handed /\ got'[n] = got[n]
  BY Zenon DEF Types, Queue, Stay
<1>2. Inputs(n)' = Inputs(n) /\ (DependenciesPublishable(n)' <=> DependenciesPublishable(n))
  BY <1>1, KeysKept, Zenon
<1>. QED  BY <1>1, <1>2, Zenon DEF Record, Key

\* A step that adds no receipt, stages nothing and removes no record.
Idle ==
  /\ UNCHANGED <<got, staged, published>> /\ records \subseteq records'
  /\ unpublished' \subseteq unpublished
  /\ lease' => lease
  /\ phase' = "publish" => phase = "publish" /\ unpublished' = unpublished
  /\ phase' = "release" /\ result' = "ok" =>
       phase = "release" /\ result = "ok" /\ UNCHANGED outcome

\* Such a step keeps what is known of the receipts.
LEMMA IdleTrust ==
  ASSUME Types, Queue, Trust, Stay, Idle
  PROVE  Trust'
<1>1. \A n \in Nodes : got[n] # None =>
        /\ DependenciesPublishable(n)' <=> DependenciesPublishable(n)
        /\ Record(n, got[n].content)' = Record(n, got[n].content)
  BY TrustKept, Zenon
<1>2. ASSUME NEW n \in Nodes, phase' = "release", result' = "ok"
      PROVE  /\ outcome'[n] # None
             /\ outcome'[n].publishable => Record(n, outcome[n].content)' \in records'
  <2>1. outcome'[n] = outcome[n] /\ outcome[n] = got[n] /\ got[n] # None
    BY <1>2, Zenon DEF Idle, Trust, Queue
  <2>2. Record(n, outcome[n].content)' = Record(n, outcome[n].content)
    BY <1>1, <2>1, Zenon DEF Idle
  <2>. QED  BY <1>2, <2>1, <2>2, Zenon DEF Idle, Trust
<1>. DEFINE C1 == \A n \in Nodes : got[n] # None /\ got[n].publishable => DependenciesPublishable(n)
            C4 == lease => \A n \in Nodes : got[n] # None /\ got[n].publishable =>
                    n \in staged \/ Record(n, got[n].content) \in records
            C5 == phase = "publish" => \A n \in staged \ unpublished : Record(n, got[n].content) \in records
<1>3. C1'
  BY <1>1, Zenon DEF Idle, Trust
<1>4. C4'
  BY <1>1, Zenon DEF Idle, Trust
<1>5. C5'
  BY <1>1, Zenon DEF Idle, Trust, Types
<1>6. /\ \A n \in staged' : got'[n] # None /\ got'[n].publishable
      /\ unpublished' \subseteq staged' /\ published' \subseteq staged'
  BY Zenon DEF Idle, Trust
<1>. QED  BY <1>2, <1>3, <1>4, <1>5, <1>6, Zenon DEF Trust

\* Most steps are of this kind.
LEMMA MostlyIdle ==
  ASSUME Types, Queue, [Next]_vars
  PROVE  \/ Idle
         \/ Acquire \/ Close \/ Seal \/ Publish \/ Again \/ Gc
         \/ \E n \in Nodes : Probe(n) \/ Store(n)
<1>. USE DEF Idle, mainVars, nodeVars, cacheVars, histVars
<1>1. ASSUME Submit  PROVE Idle
  BY <1>1, Zenon DEF Submit, Batch, Ready
<1>2. ASSUME Wait  PROVE Idle
  BY <1>2, Zenon DEF Wait
<1>3. ASSUME Collect  PROVE Idle
  <2>1. done # {} => Least(done) \in Nodes
    BY LeastIn, Zenon DEF Types
  <2>. QED  BY <1>3, <2>1, Zenon DEF Collect, CancelRest
<1>4. ASSUME Drain  PROVE Idle
  BY <1>4, Zenon DEF Drain, DrainIf
<1>5. ASSUME Release  PROVE Idle
  BY <1>5, Zenon DEF Release
<1>6. ASSUME Final  PROVE Idle
  BY <1>6, Zenon DEF Final, CloseRuntime
<1>7. ASSUME Interrupt  PROVE Idle
  BY <1>7, Zenon DEF Interrupt, CancelRest
<1>7a. ASSUME InterruptLate  PROVE Idle
  BY <1>7a, Zenon DEF InterruptLate
<1>8. ASSUME Crash  PROVE Idle
  BY <1>8, Zenon DEF Crash
<1>9. ASSUME NEW n \in Nodes, Sibling(n)  PROVE Idle
  BY <1>9, Zenon DEF Sibling
<1>10. ASSUME NEW n \in Nodes, Overwrite(n)  PROVE Idle
  BY <1>10, Zenon DEF Overwrite
<1>11. ASSUME NEW n \in Nodes, Begin(n)  PROVE Idle
  BY <1>11, Zenon DEF Begin, WorkerTo
<1>12. ASSUME NEW n \in Nodes, WorkerFails(n)  PROVE Idle
  BY <1>12, Zenon DEF WorkerFails, WorkerTo
<1>13. ASSUME NEW n \in Nodes, GetRuntime(n)  PROVE Idle
  BY <1>13, Zenon DEF GetRuntime, WorkerTo
<1>14. ASSUME NEW n \in Nodes, Launch(n)  PROVE Idle
  BY <1>14, Zenon DEF Launch, WorkerTo
<1>15. ASSUME NEW n \in Nodes, Execute(n)  PROVE Idle
  BY <1>15, Zenon DEF Execute, WorkerTo
<1>16. CASE UNCHANGED vars
  BY <1>16, Zenon DEF vars
<1>. HIDE DEF Idle, mainVars, nodeVars, cacheVars, histVars
<1>. QED
  BY <1>1, <1>2, <1>3, <1>4, <1>5, <1>6, <1>7, <1>7a, <1>8, <1>9, <1>10, <1>11,
     <1>12, <1>13, <1>14, <1>15, <1>16, Zenon
  DEF Next, Main, Environment, Worker

\* Publishable receipts are staged or recorded, up to the end of the call.
LEMMA TrustStep ==
  ASSUME Types, Queue, Lease, Origin, Trust, [Next]_vars
  PROVE  Trust'
<1>. DEFINE C1 == \A n \in Nodes : got[n] # None /\ got[n].publishable => DependenciesPublishable(n)
            C2 == (\A n \in staged : got[n] # None /\ got[n].publishable)
                  /\ unpublished \subseteq staged /\ published \subseteq staged
            C4 == lease => \A n \in Nodes : got[n] # None /\ got[n].publishable =>
                    n \in staged \/ Record(n, got[n].content) \in records
            C5 == phase = "publish" => \A n \in staged \ unpublished : Record(n, got[n].content) \in records
            C6 == phase = "release" /\ result = "ok" => \A n \in Nodes :
                    outcome[n] # None /\ (outcome[n].publishable => Record(n, outcome[n].content) \in records)
<1>0. ASSUME ~Again
      PROVE  /\ Stay
             /\ \A n \in Nodes : got[n] # None =>
                  /\ DependenciesPublishable(n)' <=> DependenciesPublishable(n)
                  /\ Record(n, got[n].content)' = Record(n, got[n].content)
  BY <1>0, Steady, TrustKept, Zenon
<1>1. CASE Again
  BY <1>1, Zenon DEF Again, Trust
<1>. SUFFICES ASSUME ~Again  PROVE Trust'
  BY <1>1, Zenon
<1>2. CASE Idle
  BY <1>0, <1>2, IdleTrust, Zenon
<1>3. CASE Acquire
  <2>1. \A n \in Nodes : got'[n] = None
    BY <1>3, Zenon DEF Acquire, Queue, nodeVars
  <2>. QED  BY <1>3, <2>1, Zenon DEF Acquire, Trust, nodeVars, histVars
<1>4. CASE Close
  <2>1. /\ UNCHANGED <<outcome, got, staged, records, published, unpublished, lease>> /\ phase = "close"
        /\ phase' # "publish" /\ (phase' = "release" /\ result' = "ok" => staged = {})
    BY <1>4, Zenon DEF Close, nodeVars, cacheVars
  <2>2. C1' /\ C2' /\ C4' /\ C5'
    BY <1>0, <2>1, Zenon DEF Trust
  <2>3. C6'
    <3>. SUFFICES ASSUME staged = {}, NEW n \in Nodes
                  PROVE  outcome'[n] # None /\ (outcome'[n].publishable => Record(n, outcome[n].content)' \in records')
      BY <2>1, Zenon
    <3>1. outcome[n] # None /\ outcome[n] = got[n] /\ lease
      BY <2>1, Zenon DEF Queue, Lease, Phases
    <3>2. Record(n, outcome[n].content)' = Record(n, outcome[n].content)
      BY <1>0, <2>1, <3>1, Zenon
    <3>. QED  BY <2>1, <3>1, <3>2, Zenon DEF Trust
  <2>. QED  BY <2>2, <2>3, Zenon DEF Trust
<1>5. CASE Seal
  <2>1. /\ UNCHANGED <<outcome, got, staged, records, published, lease>> /\ phase = "seal"
        /\ \/ phase' = "publish" /\ unpublished' = staged
           \/ phase' = "release" /\ result' = "failed" /\ UNCHANGED unpublished
    BY <1>5, Zenon DEF Seal, SealOver, nodeVars, cacheVars, histVars
  <2>2. C1' /\ C2' /\ C4' /\ C5' /\ C6'
    BY <1>0, <2>1, Zenon DEF Trust
  <2>. QED  BY <2>2, Zenon DEF Trust
<1>6. CASE Publish
  <2>1. UNCHANGED <<outcome, got, staged, lease>> /\ phase = "publish"
    BY <1>6, Zenon DEF Publish, nodeVars
  <2>2. CASE unpublished = {} /\ phase' = "release" /\ UNCHANGED <<records, unpublished, published>>
    <3>1. C1' /\ C2' /\ C4' /\ C5'
      BY <1>0, <2>1, <2>2, Zenon DEF Trust
    <3>2. C6'
      <4>. SUFFICES ASSUME NEW n \in Nodes
                    PROVE  outcome'[n] # None /\ (outcome'[n].publishable => Record(n, outcome[n].content)' \in records')
        BY Zenon
      <4>1. outcome[n] # None /\ outcome[n] = got[n] /\ lease
        BY <2>1, Zenon DEF Queue, Lease, Phases
      <4>2. Record(n, outcome[n].content)' = Record(n, outcome[n].content)
        BY <1>0, <2>1, <4>1, Zenon
      <4>. QED  BY <2>1, <2>2, <4>1, <4>2, Zenon DEF Trust
    <3>. QED  BY <3>1, <3>2 DEF Trust
  <2>3. CASE /\ unpublished # {} /\ phase' = "publish"
             /\ records' = records \cup {Record(Least(unpublished), outcome[Least(unpublished)].content)}
             /\ published' = published \cup {Least(unpublished)}
             /\ unpublished' = unpublished \ {Least(unpublished)}
    <3>. DEFINE n == Least(unpublished)
    <3>1. n \in unpublished /\ n \in staged
      BY <2>3, LeastIn, Zenon DEF Types, Trust
    <3>2. outcome[n] = got[n] /\ got[n] # None
      BY <2>1, <3>1, Zenon DEF Queue, Types
    <3>3. Record(n, got[n].content) \in records'
      BY <2>3, <3>2, Zenon
    <3>. HIDE DEF n
    <3>4. C1' /\ C2' /\ C4' /\ C6'
      BY <1>0, <2>1, <2>3, <3>1, Zenon DEF Trust, n
    <3>5. C5'
      BY <1>0, <2>1, <2>3, <3>1, <3>3 DEF Trust, Types, n
    <3>. QED  BY <3>4, <3>5, Zenon DEF Trust
  <2>4. CASE /\ phase' = "release" /\ result' = "failed" /\ unpublished' = {}
             /\ UNCHANGED <<records, published>>
    <3>1. C1' /\ C2' /\ C4' /\ C5' /\ C6'
      BY <1>0, <2>1, <2>4, Zenon DEF Trust
    <3>. QED  BY <3>1 DEF Trust
  <2>. QED  BY <1>6, <2>2, <2>3, <2>4, Zenon DEF Publish
<1>7. CASE Gc
  <2>1. ~lease' /\ UNCHANGED <<outcome, got, staged, published, unpublished, phase, result>>
    BY <1>7, Zenon DEF Gc, nodeVars, mainVars
  <2>2. phase' \notin {"publish", "release"}
    BY <1>7, <2>1, Zenon DEF Gc, Lease, Phases, Ending
  <2>3. C1' /\ C2' /\ C4' /\ C5' /\ C6'
    BY <1>0, <2>1, <2>2, Zenon DEF Trust
  <2>. QED  BY <2>3 DEF Trust
<1>8. ASSUME NEW n \in Nodes, Probe(n)  PROVE Trust'
  <2>1. /\ UNCHANGED <<outcome, staged, records, published, unpublished, lease, phase>>
        /\ UNCHANGED result /\ worker[n] = "begun" /\ n \in handed
        /\ phase # "publish" /\ ~(phase = "release" /\ result = "ok")
    BY <1>8, Zenon DEF Probe, ProbeFor, mainVars, cacheVars, histVars, Queue, Active, Ending
  <2>2. CASE UNCHANGED got
    <3>1. C1' /\ C2' /\ C4' /\ C5' /\ C6'
      BY <1>0, <2>1, <2>2, Zenon DEF Trust
    <3>. QED  BY <3>1, Zenon DEF Trust
  <2>3. ASSUME DependenciesPublishable(n), NEW v \in records, v.node = n, v.key = Key(n),
               got' = [got EXCEPT ![n] = [content |-> v.content, hit |-> TRUE, publishable |-> TRUE]]
        PROVE  Trust'
    <3>1. Record(n, v.content) = v
      BY <2>3, Zenon DEF Types, Origin, Record
    <3>2. (DependenciesPublishable(n)' <=> DependenciesPublishable(n)) /\ Record(n, v.content)' = Record(n, v.content)
      BY <1>0, <2>1, KeysKept, Zenon
    <3>3. /\ got'[n] = [content |-> v.content, hit |-> TRUE, publishable |-> TRUE]
          /\ \A m \in Nodes \ {n} : got'[m] = got[m]
      BY <2>3, Zenon DEF Types
    <3>4. C1' /\ C5' /\ C6'
      BY <1>0, <2>1, <2>3, <3>2, <3>3, Zenon DEF Trust
    <3>5. C4'
      <4>1. Record(n, got[n].content)' \in records'
        BY <2>1, <3>1, <3>2, <3>3 DEF Record, Key
      <4>. QED  BY <1>0, <2>1, <3>3, <4>1, Zenon DEF Trust
    <3>6. C2'
      <4>1. n \notin staged
        BY <2>1, Zenon DEF Trust, Queue
      <4>2. \A m \in staged : m \in Nodes /\ got'[m] = got[m]
        BY <3>3, <4>1, Zenon DEF Types
      <4>. QED  BY <2>1, <4>2, Zenon DEF Trust
    <3>. QED  BY <3>4, <3>5, <3>6, Zenon DEF Trust
  <2>. QED  BY <1>8, <2>2, <2>3, Zenon DEF Probe, ProbeFor
<1>9. ASSUME NEW n \in Nodes, Store(n)  PROVE Trust'
  <2>1. PICK p \in BOOLEAN : StoreIf(n, DependenciesPublishable(n) /\ p)
    BY <1>9, Zenon DEF Store, MayPublish
  <2>. DEFINE publish == DependenciesPublishable(n) /\ p
  <2>2. /\ UNCHANGED <<outcome, records, published, unpublished, lease, phase>>
        /\ UNCHANGED result /\ worker[n] = "executed" /\ n \in handed
        /\ phase # "publish" /\ ~(phase = "release" /\ result = "ok")
    BY <2>1, Zenon DEF StoreIf, mainVars, histVars, Queue, Active, Ending
  <2>3. CASE token
    <3>1. UNCHANGED <<got, staged>>
      BY <2>1, <2>3, Zenon DEF StoreIf
    <3>2. C1' /\ C2' /\ C4' /\ C5' /\ C6'
      BY <1>0, <2>2, <3>1, Zenon DEF Trust
    <3>. QED  BY <3>2, Zenon DEF Trust
  <2>4. CASE ~token
    <3>1. /\ staged' = (IF publish THEN staged \cup {n} ELSE staged)
          /\ got' = [got EXCEPT ![n] = [content |-> disk[n], hit |-> FALSE, publishable |-> publish]]
      BY <2>1, <2>4, Zenon DEF StoreIf
    <3>2. DependenciesPublishable(n)' <=> DependenciesPublishable(n)
      BY <1>0, <2>2, KeysKept, Zenon
    <3>3. n \notin staged
      BY <2>2, Zenon DEF Trust, Queue
    <3>4. /\ got'[n] # None /\ (got'[n].publishable <=> publish)
          /\ \A m \in Nodes \ {n} : got'[m] = got[m]
      <4>1. publish \in BOOLEAN /\ disk[n] \in Values
        BY <2>2, Zenon DEF Origin
      <4>2. [content |-> disk[n], hit |-> FALSE, publishable |-> publish] # None
        BY <4>1, OutcomeSome, Zenon
      <4>. QED  BY <3>1, <4>2, Zenon DEF Types
    <3>. HIDE DEF publish
    <3>5. publish => DependenciesPublishable(n)
      BY Zenon DEF publish
    <3>6. C1'
      BY <1>0, <3>2, <3>4, <3>5, Zenon DEF Trust
    <3>7. C2'
      <4>1. \A m \in staged : m \in Nodes /\ got'[m] = got[m]
        BY <3>3, <3>4, Zenon DEF Types
      <4>2. \A m \in staged' : got'[m] # None /\ got'[m].publishable
        BY <3>1, <3>4, <4>1, Zenon DEF Trust
      <4>3. staged \subseteq staged'
        BY <3>1, Zenon
      <4>. QED  BY <2>2, <4>2, <4>3, Zenon DEF Trust
    <3>8. C4'
      BY <1>0, <2>2, <3>1, <3>4 DEF Trust
    <3>9. C5' /\ C6'
      BY <2>2, Zenon
    <3>. QED  BY <3>6, <3>7, <3>8, <3>9, Zenon DEF Trust
  <2>. QED  BY <2>3, <2>4, Zenon
<1>. QED
  BY <1>2, <1>3, <1>4, <1>5, <1>6, <1>7, <1>8, <1>9, MostlyIdle, Zenon

\* The pool is left before anything is published, and nothing is after a rush.
LEMMA AtWorkPhase ==
  ASSUME Types, Queue
  PROVE  \A n \in Nodes : worker[n] \in Active =>
           phase # "publish" /\ (phase \in Ending => result = "rushed")
<1>1. ASSUME NEW n \in Nodes, worker[n] \in Active, phase = "publish"  PROVE FALSE
  <2>1. outcome[n] # None
    BY <1>1, Zenon DEF Queue
  <2>2. worker[n] = "ok"
    BY <2>1, Zenon DEF Queue
  <2>. QED  BY <1>1, <2>2, Zenon DEF Active
<1>. QED  BY <1>1, Zenon DEF Queue

\* What was read again before publication is not written any more.
LEMMA SealedStep ==
  ASSUME Types, Queue, Runtime, Trust, Sealed, [Next]_vars
  PROVE  Sealed'
<1>. DEFINE Reached == published # {} \/ (phase = "publish" /\ unpublished # {})
            Held == \A n \in Nodes :
                      outcome[n] # None /\ (Restoring \/ ~outcome[n].hit => disk[n] = outcome[n].content)
<1>0. Sealed <=> (Reached => phase \in {"publish"} \cup Ending /\ clean /\ Held)
  BY Zenon DEF Sealed
<1>0a. Sealed' <=> (Reached' => phase' \in {"publish"} \cup Ending /\ clean' /\ Held')
  BY Zenon DEF Sealed
<1>1. ASSUME UNCHANGED <<published, unpublished, clean, outcome, disk>>,
             phase' = phase \/ (phase' # "publish" /\ (phase \notin {"publish"} \cup Ending \/ phase' \in Ending))
      PROVE  Sealed'
  BY <1>0, <1>0a, <1>1, Zenon
<1>2. ASSUME UNCHANGED <<published, unpublished, phase>>,
             phase # "publish" /\ (phase \in Ending => result = "rushed")
      PROVE  Sealed'
  <2>1. CASE phase \in Ending
    BY <1>0, <1>0a, <1>2, <2>1, Zenon DEF Runtime
  <2>2. CASE phase \notin Ending
    BY <1>0, <1>0a, <1>2, <2>2, Zenon
  <2>. QED  BY <2>1, <2>2, Zenon
<1>3. CASE vars' = vars
  BY <1>1, <1>3, Zenon DEF vars, mainVars, histVars
<1>4. ASSUME NEW n \in Nodes, Worker(n)  PROVE Sealed'
  <2>1. /\ worker[n] \in Active
        /\ UNCHANGED <<published, unpublished, phase>>
    BY <1>4, Zenon DEF Worker, Begin, Probe, ProbeFor, WorkerFails, GetRuntime, Launch, Execute, Store, StoreIf,
                Active, mainVars, histVars
  <2>3. phase # "publish" /\ (phase \in Ending => result = "rushed")
    BY <2>1, AtWorkPhase, Zenon
  <2>. QED  BY <1>2, <2>1, <2>3, Zenon
<1>5. ASSUME NEW n \in Nodes, Overwrite(n)  PROVE Sealed'
  <2>1. PICK m \in Nodes : worker[m] = "executing"
    BY <1>5, Zenon DEF Overwrite
  <2>2. phase # "publish" /\ (phase \in Ending => result = "rushed")
    BY <2>1, AtWorkPhase, Zenon DEF Active
  <2>. QED  BY <1>2, <1>5, <2>2, Zenon DEF Overwrite, mainVars
<1>6. CASE Again
  BY <1>6, Zenon DEF Again, Sealed
<1>7. CASE Seal
  <2>1. UNCHANGED <<published, outcome, disk, clean>> /\ phase = "seal" /\ published = {}
    BY <1>0, <1>7, Zenon DEF Seal, SealOver, mainVars, histVars, Ending
  <2>2. CASE phase' = "release"
    BY <1>0a, <2>1, <2>2, Zenon
  <2>3. CASE /\ phase' = "publish" /\ unpublished' = staged
             /\ \A n \in (IF staged # {} THEN Nodes ELSE Transient) : Intact(n)
    <3>1. CASE staged = {}
      BY <1>0a, <2>1, <2>3, <3>1, Zenon
    <3>2. CASE staged # {}
      <4>1. clean /\ \A n \in Nodes : outcome[n] # None
        BY <2>1, Zenon DEF Runtime, Queue
      <4>2. \A n \in Nodes : Intact(n)
        BY <2>3, <3>2, Zenon
      <4>3. Held
        BY <4>1, <4>2, Zenon DEF Intact
      <4>. QED  BY <1>0a, <2>1, <2>3, <4>1, <4>3, Zenon
    <3>. QED  BY <3>1, <3>2, Zenon
  <2>. QED  BY <1>7, <2>2, <2>3, Zenon DEF Seal, SealOver
<1>8. CASE Publish
  <2>1. /\ phase = "publish" /\ phase' \in {"publish", "release"} /\ UNCHANGED <<outcome, disk, clean>>
        /\ (published' # {} \/ unpublished' # {} => published # {} \/ unpublished # {})
    BY <1>8, Zenon DEF Publish
  <2>. QED  BY <1>0, <1>0a, <2>1, Zenon DEF Ending
<1>9. CASE Close \/ Collect
  <2>1. /\ UNCHANGED <<published, unpublished>> /\ phase \in {"close", "collect"}
        /\ phase' # "publish"
    BY <1>9, Zenon DEF Close, Collect, CancelRest, histVars
  <2>. QED  BY <1>0, <1>0a, <2>1, Zenon DEF Ending
<1>10. CASE Release \/ Final \/ Crash \/ InterruptLate
  BY <1>1, <1>10, Zenon DEF Release, Final, Crash, InterruptLate, Ending, histVars
<1>11. CASE Acquire \/ Submit \/ Wait \/ Drain \/ Interrupt
  BY <1>1, <1>11, Zenon DEF Acquire, Submit, Wait, Drain, DrainIf, Interrupt, CancelRest, Ending, histVars
<1>12. CASE Gc \/ \E n \in Nodes : Sibling(n)
  BY <1>1, <1>12, Zenon DEF Gc, Sibling, mainVars
<1>. QED
  BY <1>3, <1>4, <1>5, <1>6, <1>7, <1>8, <1>9, <1>10, <1>11, <1>12, Zenon
     DEF Next, Main, Environment

-----------------------------------------------------------------------------
(* The invariant and what it says *)

\* A call that has not begun, with an empty cache.
LEMMA InitialState == Init => IInv
<1>. SUFFICES ASSUME Init  PROVE IInv
  BY Zenon
<1>1. Types
  BY Zenon DEF Init, Types, Written, Phases, Labels
<1>2. Queue /\ Runtime /\ Lease
  BY Zenon DEF Init, Queue, Runtime, Lease, Phases, Ending, Active
<1>3. Blobs /\ Origin /\ Trust /\ Sealed
  BY Zenon DEF Init, Blobs, Origin, Trust, Sealed
<1>. QED  BY <1>1, <1>2, <1>3, Zenon DEF IInv

\* The invariant holds throughout.
THEOREM Invariance == Spec => []IInv
<1>1. IInv /\ [Next]_vars => IInv'
  <2>. SUFFICES ASSUME IInv, [Next]_vars  PROVE IInv'
    BY Zenon
  <2>1. Types /\ Queue /\ Runtime /\ Lease /\ Blobs /\ Origin /\ Trust /\ Sealed
    BY Zenon DEF IInv
  <2>2. Types' /\ Queue' /\ Runtime' /\ Lease'
    BY <2>1, TypesStep, QueueStep, RuntimeStep, LeaseStep, Zenon
  <2>3. Blobs' /\ Origin' /\ Trust' /\ Sealed'
    BY <2>1, BlobsStep, OriginStep, TrustStep, SealedStep, Zenon
  <2>. QED  BY <2>2, <2>3, Zenon DEF IInv
<1>. QED  BY <1>1, InitialState, PTL DEF Spec

\* execute() publishes a record only out of a call of which every node has been
\* collected and read again and whose runtime closed cleanly, and a call that
\* succeeds leaves a record and its blob for every publishable node.
THEOREM WholeRuns == Spec => []PublishedByWholeRun
<1>1. IInv => PublishedByWholeRun
  <2>. SUFFICES ASSUME IInv  PROVE PublishedByWholeRun
    BY Zenon
  <2>1. Types /\ Queue /\ Runtime /\ Lease /\ Blobs /\ Trust /\ Sealed
    BY Zenon DEF IInv
  <2>2. ASSUME published # {}
        PROVE  /\ Collected = Nodes /\ AtWork = {} /\ clean /\ runtime # "open"
               /\ \A n \in Nodes : Restoring \/ ~outcome[n].hit => disk[n] = outcome[n].content
    <3>1. /\ phase \in {"publish"} \cup Ending /\ clean
          /\ \A n \in Nodes : outcome[n] # None
                /\ (Restoring \/ ~outcome[n].hit => disk[n] = outcome[n].content)
      BY <2>1, <2>2, Zenon DEF Sealed
    <3>2. \A n \in Nodes : worker[n] \notin Active
      BY <2>1, <3>1, AtWorkPhase, Zenon DEF Runtime
    <3>. QED  BY <2>1, <3>1, <3>2, Zenon DEF Runtime, Collected, AtWork
  <2>3. ASSUME phase = "release", result = "ok", NEW n \in Nodes, outcome[n].publishable
        PROVE  Record(n, outcome[n].content) \in records /\ <<n, outcome[n].content>> \in blobs
    <3>1. outcome[n] # None /\ Record(n, outcome[n].content) \in records
      BY <2>1, <2>3, Zenon DEF Trust
    <3>2. lease /\ outcome[n] = got[n] /\ got[n] # None
      BY <2>1, <2>3, <3>1, Zenon DEF Lease, Phases, Ending, Queue
    <3>3. <<n, outcome[n].content>> \in blobs
      BY <2>1, <2>3, <3>2, Zenon DEF Blobs
    <3>. QED  BY <3>1, <3>3, Zenon
  <2>. QED  BY <2>2, <2>3, Zenon DEF PublishedByWholeRun
<1>. QED  BY <1>1, Invariance, PTL

\* A node is publishable only if all it was built from is, so a receipt that
\* publish_result withheld taints everything downstream of it.
THEOREM ProvisionalTaints == Spec => []ProvisionalSpreads
<1>1. IInv => ProvisionalSpreads
  <2>. SUFFICES ASSUME IInv  PROVE ProvisionalSpreads
    OBVIOUS
  <2>1. Types /\ Queue /\ Trust /\ Sealed
    BY Zenon DEF IInv
  <2>2. \A n \in Collected : outcome[n].publishable => DependenciesPublishable(n)
    BY <2>1, Zenon DEF Queue, Trust, Collected
  <2>3. ASSUME NEW n \in published  PROVE outcome[n].publishable
    <3>1. n \in Nodes /\ n \in staged
      BY <2>1, Zenon DEF Trust, Types
    <3>2. outcome[n] # None
      BY <2>1, <3>1, Zenon DEF Sealed
    <3>. QED  BY <2>1, <3>1, <3>2, Zenon DEF Queue, Trust
  <2>. QED  BY <2>2, <2>3, Zenon DEF ProvisionalSpreads
<1>. QED  BY <1>1, Invariance, PTL

\* Every outcome and every record is the product of a run of that producer on
\* those inputs, however many calls, siblings and collections there were, but
\* for outputs that another producer replaced before they were staged.
THEOREM GenuineOutcomes == Spec => []Genuine
<1>1. IInv => Genuine
  BY Zenon DEF IInv, Queue, Origin, Genuine, Collected
<1>. QED  BY <1>1, Invariance, PTL

\* The lease and the blobs outlive the workers that rely on them, and the
\* runtime is built and closed once and never used after it is closed, unless
\* Ctrl-C cuts short the wait for the workers.
THEOREM WorkersOutlived == Spec => []OutliveWorkers
<1>1. IInv => OutliveWorkers
  <2>. SUFFICES ASSUME IInv  PROVE OutliveWorkers
    OBVIOUS
  <2>1. Types /\ Queue /\ Runtime /\ Lease /\ Blobs
    BY Zenon DEF IInv
  <2>2. (result # "rushed" /\ AtWork # {}) \/ phase \in {"close", "seal", "publish"} => lease
    BY <2>1, Zenon DEF Types, Queue, Lease, AtWork, Ending, Phases
  <2>3. calls.built <= 1 /\ calls.closed <= calls.built
    BY <2>1 DEF Runtime
  <2>. QED  BY <2>1, <2>2, <2>3, Zenon DEF OutliveWorkers, Runtime, Blobs
<1>. QED  BY <1>1, Invariance, PTL

=============================================================================
