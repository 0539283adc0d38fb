------------------------- MODULE ProducerRunProofs -------------------------
(***************************************************************************)
(* Proofs about the lanes of ProducerRun, for any graph, any number of      *)
(* threads and any failures.                                               *)
(***************************************************************************)
EXTENDS ProducerRun, FiniteSetTheorems, WellFoundedInduction, TLAPS

\* The part of TypeOK that the argument needs.
Types ==
  /\ w \in [Nodes -> Stages] /\ lane \in [Nodes -> Nat \cup {-1}] /\ next \in Nat
  /\ receipts \in Seq(Nodes) /\ done \in SUBSET Nodes

\* The pool's lists agree with what the workers hold: a borrowed lane has a
\* holder, two workers never have the same lane, a lane being created is in no
\* list, and while the pool is in order no lane is lost.
Lanes ==
  /\ \A n \in Nodes : w[n] \in Holding => lane[n] \in borrowed
  /\ \A l \in borrowed : \E n \in Nodes : w[n] \in Holding /\ lane[n] = l
  /\ \A m, n \in Nodes :
       w[m] \in Creating \cup Holding /\ w[n] \in Creating \cup Holding /\ m # n => lane[m] # lane[n]
  /\ \A n \in Nodes : w[n] \in Creating => lane[n] \in Nat /\ lane[n] < next /\ lane[n] \notin all
  /\ \A l \in all : l \in Nat /\ l < next
  /\ available \cap borrowed = {}
  /\ available \subseteq all /\ borrowed \subseteq all
  /\ ~closed /\ ~broken => all = available \cup borrowed

\* The coordinator keeps at most Jobs futures running, and collects the
\* receipts of finished futures only.
InFlight ==
  /\ Cardinality(Running) <= Jobs
  /\ \A n \in Finished : w[n] = "ok"
  /\ done \subseteq Running
  /\ pc = "handle" => done # {}

\* A run that closes has no worker left, unless Ctrl-C ended the join.
Joined ==
  pc \in {"close", "stop", "unbind", "ended"} /\ ~hurried
     => \A n \in Nodes : w[n] \in Over \cup {"idle"}

Inductive ==
  Types /\ Lanes /\ InFlight /\ Joined /\ NobodyWaits /\ CloseAccepted

\* What most steps do to the pool: nothing.
Quiet ==
  /\ UNCHANGED <<lane, all, available, borrowed, next, broken, closed>>
  /\ \A n \in Nodes : /\ w'[n] \in Creating <=> w[n] \in Creating
                      /\ w'[n] \in Holding <=> w[n] \in Holding

\* A failed initialization, wherever it fails.
Fails(n) ==
  /\ w[n] \in Creating
  /\ w' = [w EXCEPT ![n] = "failed"]
  /\ lane' = [lane EXCEPT ![n] = -1]
  /\ broken' = TRUE
  /\ UNCHANGED <<all, available, borrowed, next, closed>>

-----------------------------------------------------------------------------
(* Counting *)

\* The k first members of a finite set of numbers are at most k.
LEMMA FirstsBound ==
  ASSUME NEW S \in SUBSET Nat, IsFiniteSet(S), NEW k \in Nat
  PROVE  Firsts(S, k) \subseteq S /\ IsFiniteSet(Firsts(S, k)) /\ Cardinality(Firsts(S, k)) <= k
<1> DEFINE below(n) == {m \in S : m < n}
           f == [n \in Firsts(S, k) |-> Cardinality(below(n))]
<1>1. Firsts(S, k) \subseteq S
  BY Zenon DEF Firsts
<1>2. \A n \in Firsts(S, k) : IsFiniteSet(below(n)) /\ Cardinality(below(n)) \in 0..(k - 1)
  <2> SUFFICES ASSUME NEW n \in Firsts(S, k)
               PROVE  IsFiniteSet(below(n)) /\ Cardinality(below(n)) \in 0..(k - 1)
    BY Zenon
  <2>1. IsFiniteSet(below(n))
    BY FS_Subset, Zenon
  <2>2. Cardinality(below(n)) \in Nat
    BY <2>1, FS_CardinalityType, Zenon
  <2>3. Cardinality(below(n)) < k
    BY Zenon DEF Firsts
  <2> QED
    BY <2>1, <2>2, <2>3
<1>3. ASSUME NEW a \in Firsts(S, k), NEW b \in Firsts(S, k), a < b
      PROVE  f[a] # f[b]
  <2>0. a \in S /\ b \in S /\ a \in Nat /\ b \in Nat
    BY Zenon, <1>1
  <2>1. below(a) \in SUBSET below(b) /\ a \in below(b) /\ a \notin below(a)
    <3>1. \A m \in S : m < a => m < b
      BY <2>0, <1>3
    <3>2. a \in below(b)
      BY <2>0, <1>3, Zenon
    <3>3. a \notin below(a)
      BY <2>0
    <3>4. below(a) \subseteq below(b)
      BY Zenon, <3>1
    <3> QED
      BY <3>2, <3>3, <3>4, Zenon
  <2>2. Cardinality(below(a)) # Cardinality(below(b))
    BY <2>1, <1>2, FS_Subset, Zenon
  <2> QED
    BY <2>2, Zenon
<1>4. f \in Injection(Firsts(S, k), 0..(k - 1))
  <2>1. f \in [Firsts(S, k) -> 0..(k - 1)]
    BY <1>2, Zenon
  <2>2. \A a, b \in Firsts(S, k) : f[a] = f[b] => a = b
    <3> SUFFICES ASSUME NEW a \in Firsts(S, k), NEW b \in Firsts(S, k), a # b
                 PROVE  f[a] # f[b]
      BY Zenon
    <3>0. a \in Nat /\ b \in Nat
      BY Zenon, <1>1
    <3>1. a < b \/ b < a
      BY <3>0
    <3> QED
      BY <3>1, <1>3, Zenon
  <2> HIDE DEF f
  <2> QED
    BY <2>1, <2>2, Zenon DEF Injection, IsInjective
<1> HIDE DEF f
<1>5. IsFiniteSet(0..(k - 1)) /\ Cardinality(0..(k - 1)) = k
  BY FS_Interval
<1>6. IsFiniteSet(Firsts(S, k)) /\ Cardinality(Firsts(S, k)) <= Cardinality(0..(k - 1))
  BY <1>4, <1>5, FS_Injection, Zenon
<1> QED
  BY <1>1, <1>5, <1>6, Zenon

\* A non-empty set of nodes has a first one.
LEMMA FirstNode ==
  ASSUME NEW S \in SUBSET Nodes, S # {}
  PROVE  Min(S) \in S
<1>1. PICK x \in S : \A y \in S : ~(<<y, x>> \in OpToRel(<, Nat))
  BY NodesAssumption, NatLessThanWellFounded, WFMin, Zenon
<1>2. \A y \in S : x <= y
  <2> SUFFICES ASSUME NEW y \in S PROVE x <= y
    BY Zenon
  <2>1. x \in Nat /\ y \in Nat
    BY NodesAssumption, Zenon
  <2>2. ~(y < x)
    BY Zenon, <1>1, <2>1 DEF OpToRel
  <2> QED
    BY <2>1, <2>2
<1> QED
  BY <1>2, Zenon DEF Min

\* Sets of nodes are finite.
LEMMA NodeSets ==
  ASSUME NEW S \in SUBSET Nodes
  PROVE  IsFiniteSet(S) /\ Cardinality(S) \in Nat
<1>1. IsFiniteSet(S)
  BY NodesAssumption, FS_Subset, Zenon
<1> QED
  BY <1>1, FS_CardinalityType, Zenon

\* While the pool is in order, a worker that asks and finds no lane on offer
\* finds room for one more: every lane is with another running worker.
LEMMA RoomForAsker ==
  ASSUME Types, Lanes, InFlight, NEW n \in Nodes, w[n] = "ask",
         ~closed, ~broken, available = {}
  PROVE  Room
<1> DEFINE holders == {m \in Nodes : w[m] \in Holding}
           makers == {m \in Nodes : w[m] \in Creating}
           f == [l \in borrowed |-> CHOOSE m \in Nodes : w[m] \in Holding /\ lane[m] = l]
<1>1. all = borrowed
  BY Zenon DEF Lanes
<1>2. f \in Injection(borrowed, holders)
  <2>1. \A l \in borrowed : f[l] \in holders /\ lane[f[l]] = l
    BY Zenon DEF Lanes
  <2> HIDE DEF holders
  <2>2. f \in [borrowed -> holders]
    BY <2>1, Zenon
  <2> HIDE DEF f
  <2> QED
    BY <2>1, <2>2 DEF Injection, IsInjective
<1> HIDE DEF f
<1>3. IsFiniteSet(holders) /\ IsFiniteSet(makers) /\ IsFiniteSet(Running)
  BY NodeSets, Zenon DEF Running
<1>4. Cardinality(borrowed) <= Cardinality(holders) /\ IsFiniteSet(borrowed)
  BY <1>2, <1>3, FS_Injection, Zenon
<1>5. holders \cup makers \in SUBSET (Running \ {n}) /\ holders \cap makers = {} /\ n \in Running
  BY Zenon DEF InFlight, Running, Holding, Creating
<1>6. Cardinality(holders \cup makers) = Cardinality(holders) + Cardinality(makers)
  <2> HIDE DEF holders, makers
  <2>1. Cardinality(holders \cap makers) = 0
    BY <1>5, FS_EmptySet, Zenon
  <2>2. Cardinality(holders) \in Nat /\ Cardinality(makers) \in Nat
    BY <1>3, FS_CardinalityType, Zenon
  <2>3. Cardinality(holders \cup makers) =
          Cardinality(holders) + Cardinality(makers) - Cardinality(holders \cap makers)
    BY <1>3, FS_Union, Zenon
  <2> QED
    BY <2>1, <2>2, <2>3
<1>7. IsFiniteSet(Running \ {n}) /\ Cardinality(Running \ {n}) = Cardinality(Running) - 1
  BY <1>3, <1>5, FS_RemoveElement, Zenon
<1>8. Cardinality(holders \cup makers) <= Cardinality(Running \ {n})
  BY <1>5, <1>7, FS_Subset, Zenon
<1>9. Cardinality(holders) \in Nat /\ Cardinality(makers) \in Nat /\ Cardinality(borrowed) \in Nat
      /\ Cardinality(Running) \in Nat
  BY <1>3, <1>4, FS_CardinalityType, Zenon
<1>10. creating = Cardinality(makers)
  BY Zenon DEF creating
<1> HIDE DEF holders, makers
<1> QED
  BY <1>1, <1>4, <1>6, <1>7, <1>8, <1>9, <1>10, JobsAssumption DEF Room, InFlight

-----------------------------------------------------------------------------
(* What a step looks like to the pool *)

\* A step of a worker moves its future on; it waits only if acquire() says so.
Moves(n) ==
  /\ w[n] \notin Over \cup {"idle"}
  /\ \E s \in Stages \ {"idle"} : w' = [w EXCEPT ![n] = s] /\ (s = "wait" => Acquire(n))

\* With nobody waiting, notify_all() changes nothing.
LEMMA NobodyWoken ==
  ASSUME Types, NobodyWaits, NEW n \in Nodes, NEW s \in Stages \ {"wait"}
  PROVE  Woken([w EXCEPT ![n] = s]) = [w EXCEPT ![n] = s] /\ Woken(w) = w
BY Zenon DEF Types, NobodyWaits, Woken

\* The exception path of acquire() is the same wherever the creation failed.
LEMMA FailedCreation ==
  ASSUME Types, NobodyWaits, NEW n \in Nodes, w[n] \in Creating, CreateFails(n),
         UNCHANGED <<closed, coord>>
  PROVE  Moves(n) /\ Fails(n) /\ Types'
<1>1. w' = [w EXCEPT ![n] = "failed"]
  BY NobodyWoken, Zenon DEF CreateFails, Stages, Over
<1> QED
  BY <1>1, Zenon DEF CreateFails, Fails, Moves, Types, coord, Stages, Over, Creating

\* A stage without a failure leaves the pool as it is.
LEMMA QuietMove ==
  ASSUME Types, NobodyWaits, NEW n \in Nodes, NEW s \in Stages \ {"idle", "wait"},
         w[n] \notin Over \cup {"idle"}, w' = [w EXCEPT ![n] = s],
         w[n] \in Creating <=> s \in Creating, w[n] \in Holding <=> s \in Holding,
         UNCHANGED <<lane, pool, closed, coord>>
  PROVE  Moves(n) /\ Quiet /\ Types'
BY Zenon DEF Moves, Quiet, Types, pool, coord

\* A step of a worker leaves the coordinator alone, moves one future, and
\* changes the pool in one of five ways.
LEMMA WorkerShape ==
  ASSUME Types, Lanes, NobodyWaits, NEW n \in Nodes, Worker(n)
  PROVE  /\ Types' /\ Moves(n) /\ UNCHANGED coord
         /\ Quiet \/ Fails(n) \/ Acquire(n) \/ Enter(n) \/ Release(n)
<1> USE DEF Stages, Creating, Holding, Over
<1>1. CASE Start(n)
  BY <1>1, QuietMove, Zenon DEF Start, Set
<1>2. CASE Acquire(n)
  <2>1. PICK s \in {"failed", "run", "create", "wait"} : w' = [w EXCEPT ![n] = s]
    BY <1>2, Zenon DEF Acquire, Set
  <2>2. Moves(n) /\ w' \in [Nodes -> Stages]
    BY Zenon, <1>2, <2>1 DEF Moves, Types, Acquire
  <2>3. lane' \in [Nodes -> Nat \cup {-1}] /\ next' \in Nat
    BY <1>2 DEF Acquire, Types, Lanes
  <2> QED
    BY <1>2, <2>2, <2>3, Zenon DEF Acquire, Types, coord
<1>3. CASE Lock(n)
  BY <1>3, QuietMove, FailedCreation, Zenon DEF Lock, Set
<1>4. CASE NoWorker(n)
  BY <1>4, FailedCreation, Zenon DEF NoWorker
<1>5. CASE StartServer(n)
  BY <1>5, QuietMove, FailedCreation, Zenon DEF StartServer, BootFails, Set
<1>6. CASE Wineboot(n)
  BY <1>6, QuietMove, FailedCreation, Zenon DEF Wineboot, BootFails, Set
<1>7. CASE Bind(n)
  BY <1>7, QuietMove, FailedCreation, Zenon DEF Bind, BootFails, Set
<1>8. CASE Configure(n)
  BY <1>8, QuietMove, FailedCreation, Zenon DEF Configure, BootFails, Set
<1>9. CASE Enter(n)
  <2>1. PICK s \in {"failed", "run"} : w' = [w EXCEPT ![n] = s]
    BY Zenon, <1>9, NobodyWoken DEF Enter, CreateFails
  <2>2. Moves(n) /\ w' \in [Nodes -> Stages]
    BY <1>9, <2>1, Zenon DEF Moves, Types, Enter
  <2> QED
    BY <1>9, <2>2, Zenon DEF Enter, CreateFails, Types, coord
<1>10. CASE Command(n)
  BY <1>10, QuietMove, Zenon DEF Command, Set
<1>11. CASE Release(n)
  <2>1. PICK s \in {"failed", "ok"} : w' = [w EXCEPT ![n] = s]
    BY <1>11, NobodyWoken, Zenon DEF Release
  <2>2. Moves(n) /\ w' \in [Nodes -> Stages]
    BY <1>11, <2>1, Zenon DEF Moves, Types, Release
  <2> QED
    BY Zenon, <1>11, <2>2 DEF Release, Types, coord
<1> QED
  BY <1>1, <1>2, <1>3, <1>4, <1>5, <1>6, <1>7, <1>8, <1>9, <1>10, <1>11, Zenon DEF Worker

\* A step of the coordinator, an interrupt or a replaced executable leaves the
\* pool as it is, unless it is the close.
LEMMA CoordinatorShape ==
  ASSUME Types, InFlight, NobodyWaits, Coordinator \/ Interrupt \/ InterruptJoin \/ Replace \/ UNCHANGED vars
  PROVE  Types' /\ NobodyWaits' /\ (Quiet \/ Close)
<1> USE DEF Types, NobodyWaits, Quiet, coord, pool, runtime
<1>1. CASE Submit
  BY <1>1, Zenon DEF Submit, Firsts, Ready, Stages, Creating, Holding
<1>2. CASE Wait
  BY <1>2, Zenon DEF Wait, Running
<1>3. CASE Handle
  <2>1. Append(receipts, Min(done)) \in Seq(Nodes)
    BY <1>3, FirstNode DEF InFlight, Handle
  <2> QED
    BY <1>3, <2>1 DEF Handle, Abandon, Stages, Over, Creating, Holding
<1>4. CASE Close
  <2>1. w' = w
    BY Zenon, <1>4, NobodyWoken, NodesAssumption DEF Close, Stages
  <2> QED
    BY <1>4, <2>1, Zenon DEF Close
<1>5. CASE Interrupt
  BY <1>5, Zenon DEF Interrupt, Abandon, Stages, Over, Creating, Holding
<1>6. CASE Return \/ Drain \/ InterruptJoin \/ StopServer \/ Unbind \/ Replace \/ UNCHANGED vars
  BY <1>6, Zenon DEF Return, Drain, InterruptJoin, StopServer, Unbind, Replace, vars
<1> QED
  BY <1>1, <1>2, <1>3, <1>4, <1>5, <1>6, Zenon DEF Coordinator

-----------------------------------------------------------------------------
(* The lists of the pool *)

\* A step that is quiet for the pool keeps its lists right.
LEMMA LanesQuiet ==
  ASSUME Types, Types', Lanes, Quiet
  PROVE  Lanes'
BY DEF Lanes, Quiet

\* So does a failed creation: its lane was in no list.
LEMMA LanesFails ==
  ASSUME Types, Types', Lanes, NEW n \in Nodes, Fails(n)
  PROVE  Lanes'
<1>1. \A m \in Nodes : m # n => w'[m] = w[m] /\ lane'[m] = lane[m]
  BY Zenon DEF Fails, Types
<1>2. w'[n] = "failed" /\ w[n] \in Creating
  BY Zenon DEF Fails, Types
<1> QED
  BY <1>1, <1>2 DEF Lanes, Fails, Creating, Holding

\* acquire() moves a lane from the available to the borrowed ones, or takes a
\* new index.
LEMMA LanesAcquire ==
  ASSUME Types, Types', Lanes, NobodyWaits', NEW n \in Nodes, Acquire(n)
  PROVE  Lanes'
<1>1. \A m \in Nodes : m # n => w'[m] = w[m] /\ lane'[m] = lane[m]
  BY Zenon DEF Acquire, Set, Types
<1>2. UNCHANGED <<all, closed, broken>> /\ w[n] = "ask"
  BY Zenon DEF Acquire
<1>3. CASE closed \/ broken
  <2>1. w'[n] = "failed" /\ UNCHANGED <<lane, available, borrowed, next>>
    BY <1>3, Zenon DEF Acquire, Set, Types
  <2> QED
    BY <1>1, <1>2, <2>1 DEF Lanes, Creating, Holding
<1>4. CASE ~(closed \/ broken) /\ available # {}
  <2>1. PICK l \in available : /\ available' = available \ {l} /\ borrowed' = borrowed \cup {l}
                               /\ lane'[n] = l /\ w'[n] = "run" /\ next' = next
    BY <1>4, Zenon DEF Acquire, Set, Types, Others
  <2>2. \A m \in Nodes : w[m] \in Creating \cup Holding => lane[m] # l
    BY DEF Lanes
  <2> QED
    BY <1>1, <1>2, <2>1, <2>2 DEF Lanes, Creating, Holding
<1>5. CASE ~(closed \/ broken) /\ available = {}
  <2>1. /\ lane'[n] = next /\ next' = next + 1 /\ w'[n] = "create"
        /\ UNCHANGED <<available, borrowed>>
    BY <1>5, Zenon DEF Acquire, Set, Types, NobodyWaits
  <2>2. next \in Nat /\ (\A m \in Nodes : w[m] \in Creating \cup Holding => lane[m] \in Nat /\ lane[m] < next)
    BY Zenon DEF Lanes, Types
  <2>3. next \notin all
    BY <2>2 DEF Lanes
  <2>4. \A l \in Nat : l < next => l < next + 1
    BY <2>2
  <2>5. \A m \in Nodes : w[m] \in Creating \cup Holding => lane[m] # next
    BY <2>2
  <2>6. next < next + 1
    BY <2>2
  <2>7. w'[n] \in Creating /\ w'[n] \notin Holding /\ w[n] \notin Creating \cup Holding
    BY <1>2, <2>1, Zenon DEF Creating, Holding
  <2> QED
    BY <1>1, <1>2, <2>1, <2>2, <2>3, <2>4, <2>5, <2>6, <2>7 DEF Lanes
<1> QED
  BY <1>3, <1>4, <1>5, Zenon

\* A complete lane enters the list of all lanes, and its creator holds it
\* unless the pool is closed or broken.
LEMMA LanesEnter ==
  ASSUME Types, Types', Lanes, NobodyWaits, NEW n \in Nodes, Enter(n)
  PROVE  Lanes'
<1>0. w[n] = "made" /\ UNCHANGED <<available, next, closed>>
  BY Zenon DEF Enter, CreateFails
<1>1. CASE ~closed /\ ~broken /\ UNCHANGED broken
  <2>1. /\ all' = all \cup {lane[n]} /\ borrowed' = borrowed \cup {lane[n]} /\ lane' = lane
        /\ w' = [w EXCEPT ![n] = "run"]
    BY <1>1, NobodyWoken, Zenon DEF Enter, CreateFails, Stages, Holding
  <2>2. \A m \in Nodes : w'[m] = IF m = n THEN "run" ELSE w[m]
    BY <2>1, Zenon DEF Types
  <2>3. lane[n] \in Nat /\ lane[n] < next /\ lane[n] \notin all
    BY <1>0, Zenon DEF Lanes, Creating
  <2> QED
    BY <1>0, <1>1, <2>1, <2>2, <2>3 DEF Lanes, Creating, Holding
<1>2. CASE (closed \/ broken) /\ UNCHANGED broken /\ all' = all \cup {lane[n]}
  <2>1. UNCHANGED borrowed /\ lane' = [lane EXCEPT ![n] = -1] /\ w' = [w EXCEPT ![n] = "failed"]
    BY <1>2, NobodyWoken, Zenon DEF Enter, CreateFails, Stages, Over
  <2>2. \A m \in Nodes : m # n => w'[m] = w[m] /\ lane'[m] = lane[m]
    BY <2>1, Zenon DEF Types
  <2>3. w'[n] = "failed"
    BY <2>1, Zenon DEF Types
  <2>4. lane[n] \in Nat /\ lane[n] < next
    BY <1>0, Zenon DEF Lanes, Creating
  <2>5. \A m \in Nodes : w[m] \in Creating /\ m # n => lane[m] # lane[n]
    BY <1>0, Zenon DEF Lanes, Creating
  <2> QED
    BY <1>0, <1>2, <2>1, <2>2, <2>3, <2>4, <2>5 DEF Lanes, Creating, Holding
<1>3. CASE CreateFails(n)
  <2>1. w' = [w EXCEPT ![n] = "failed"]
    BY <1>3, NobodyWoken, Zenon DEF CreateFails, Stages, Over
  <2>2. Fails(n)
    BY Zenon, <1>0, <1>3, <2>1 DEF Fails, CreateFails, Creating
  <2> QED
    BY <2>2, LanesFails, Zenon
<1> QED
  BY <1>1, <1>2, <1>3, Zenon DEF Enter

\* release() takes the lane off the borrowed ones.
LEMMA LanesRelease ==
  ASSUME Types, Types', Lanes, NobodyWaits, NEW n \in Nodes, Release(n)
  PROVE  Lanes'
<1>1. /\ w[n] \in Holding /\ borrowed' = borrowed \ {lane[n]}
      /\ available' = (IF ~closed /\ ~broken THEN available \cup {lane[n]} ELSE available)
      /\ lane' = [lane EXCEPT ![n] = -1] /\ UNCHANGED <<all, next, broken, closed>>
  BY Zenon DEF Release, Holding
<1>2. PICK s \in Over : w' = [w EXCEPT ![n] = s]
  BY Zenon, NobodyWoken DEF Release, Stages, Over
<1>3. \A m \in Nodes : m # n => w'[m] = w[m] /\ lane'[m] = lane[m]
  BY <1>1, <1>2, Zenon DEF Types
<1>4. w'[n] \notin Creating \cup Holding
  BY <1>2, Zenon DEF Types, Over, Creating, Holding
<1>5. lane[n] \in borrowed /\ (\A m \in Nodes : w[m] \in Holding /\ m # n => lane[m] # lane[n])
  BY <1>1, Zenon DEF Lanes
<1> QED
  BY <1>1, <1>3, <1>4, <1>5 DEF Lanes

\* close() offers nothing any more.
LEMMA LanesClose ==
  ASSUME Types, Types', Lanes, NobodyWaits, Close
  PROVE  Lanes'
<1>1. w' = w /\ UNCHANGED <<lane, all, borrowed, next, broken>>
  BY NobodyWoken, NodesAssumption, Zenon DEF Close, Stages
<1>2. UNCHANGED <<available, closed>> \/ (available' = {} /\ closed')
  BY Zenon DEF Close
<1> QED
  BY <1>1, <1>2, Zenon DEF Lanes

-----------------------------------------------------------------------------
(* The coordinator *)

\* A worker's step leaves the set of running futures as it is.
LEMMA InFlightWorker ==
  ASSUME Types, InFlight, NEW n \in Nodes, Moves(n), UNCHANGED coord
  PROVE  InFlight'
<1>1. \A m \in Nodes : w'[m] = "idle" <=> w[m] = "idle"
  BY Zenon DEF Moves, Types
<1>2. \A m \in Nodes : w[m] = "ok" => w'[m] = "ok"
  BY Zenon DEF Moves, Types, Over
<1>3. Finished' = Finished /\ UNCHANGED <<pc, done>>
  BY Zenon DEF Finished, coord
<1>4. Running' = Running
  BY <1>1, <1>3, Zenon DEF Running
<1>5. Finished \subseteq Nodes
  BY DEF Finished, Types
<1> QED
  BY <1>2, <1>3, <1>4, <1>5, Zenon DEF InFlight

\* The coordinator fills the free slots, and no more.
LEMMA InFlightCoordinator ==
  ASSUME Types, InFlight, NobodyWaits, Coordinator \/ Interrupt \/ InterruptJoin \/ Replace \/ UNCHANGED vars
  PROVE  InFlight'
<1>0. /\ Running \in SUBSET Nodes /\ Finished \in SUBSET Nodes
      /\ IsFiniteSet(Running) /\ Cardinality(Running) \in Nat /\ Jobs \in Nat
  BY NodeSets, JobsAssumption DEF Running, Finished, Types
<1>1. CASE Submit
  <2> DEFINE slots == Jobs - Cardinality(Running)
             new == Firsts(Ready, slots)
  <2>1. slots \in Nat
    BY <1>0 DEF InFlight
  <2>2. Ready \in SUBSET Nat /\ IsFiniteSet(Ready) /\ Ready \subseteq Nodes
    BY NodesAssumption, NodeSets, Zenon DEF Ready
  <2>3. new \subseteq Ready /\ IsFiniteSet(new) /\ Cardinality(new) <= slots
    BY <2>1, <2>2, FirstsBound, Zenon
  <2>4. \A m \in Nodes : w'[m] = IF m \in new THEN "queued" ELSE w[m]
    BY <1>1, Zenon DEF Submit
  <2>5. UNCHANGED <<receipts, done>> /\ pc' = "wait"
    BY <1>1, Zenon DEF Submit
  <2>6. Finished' = Finished
    BY <2>5, Zenon DEF Finished
  <2> HIDE DEF new
  <2>7. Running' = Running \cup new /\ (Running \cap new) = {}
    <3>1. \A m \in new : m \in Nodes /\ w[m] = "idle"
      BY <2>3, Zenon DEF Ready
    <3>2. new \cap Finished = {}
      BY <3>1, Zenon DEF InFlight
    <3> QED
      BY <3>1, <3>2, <2>4, <2>6, Zenon DEF Running
  <2>8. Cardinality(Running') = Cardinality(Running) + Cardinality(new) - Cardinality({})
    BY <2>7, <2>3, <1>0, FS_Union, Zenon
  <2>9. Cardinality({}) = 0 /\ Cardinality(new) \in Nat
    BY <2>3, FS_EmptySet, FS_CardinalityType, Zenon
  <2>10. Cardinality(Running') <= Jobs
    BY <2>8, <2>9, <2>3, <1>0
  <2>11. \A m \in Finished' : w'[m] = "ok"
    BY <1>0, <2>3, <2>4, <2>6, Zenon DEF InFlight, Ready
  <2> QED
    BY <2>5, <2>7, <2>10, <2>11, Zenon DEF InFlight
<1>2. CASE Wait
  <2>1. Running' = Running /\ Finished' = Finished
    BY <1>2, Zenon DEF Wait, Running, Finished
  <2> QED
    BY <1>2, <2>1, <1>0, Zenon DEF InFlight, Wait
<1>3. ASSUME Abandon, pc' = "drain" PROVE InFlight'
  <2>1. Finished' = Finished /\ done' = {}
    BY <1>3, Zenon DEF Finished, Abandon
  <2>2. \A m \in Nodes : /\ w'[m] = "idle" <=> w[m] = "idle"
                         /\ w[m] = "ok" => w'[m] = "ok"
    BY <1>3, Zenon DEF Abandon
  <2>3. Running' = Running
    BY <2>1, <2>2, Zenon DEF Running
  <2> QED
    BY <1>0, <1>3, <2>1, <2>2, <2>3, Zenon DEF InFlight
<1>4. CASE Handle /\ w[Min(done)] = "ok"
  <2>1. Min(done) \in done
    BY <1>4, FirstNode, Zenon DEF Handle, InFlight, Types
  <2>2. /\ receipts' = Append(receipts, Min(done)) /\ done' = done \ {Min(done)} /\ w' = w
        /\ pc' = "handle" => done # {Min(done)}
    BY <1>4, Zenon DEF Handle
  <2> DEFINE n == Min(done)
  <2>3. Finished' = Finished \cup {n}
    <3>1. n \in Nodes /\ receipts \in Seq(Nodes)
      BY <2>1, Zenon DEF Types
    <3> HIDE DEF n
    <3>2. receipts' = Append(receipts, n)
      BY <2>2, Zenon DEF n
    <3>3. /\ DOMAIN receipts' = 1..(Len(receipts) + 1) /\ receipts'[Len(receipts) + 1] = n
          /\ DOMAIN receipts = 1..Len(receipts) /\ Len(receipts) \in Nat
          /\ \A i \in 1..Len(receipts) : receipts'[i] = receipts[i]
      BY <3>1, <3>2
    <3>4. DOMAIN receipts' = DOMAIN receipts \cup {Len(receipts) + 1}
      BY <3>3
    <3> QED
      BY <3>3, <3>4 DEF Finished
  <2> HIDE DEF n
  <2>4. Running' = Running \ {n}
    BY <2>2, <2>3, Zenon DEF Running
  <2>5. Cardinality(Running') <= Cardinality(Running)
    BY <2>4, <1>0, FS_Subset, Zenon
  <2>6. Cardinality(Running') \in Nat
    BY <2>4, <1>0, NodeSets, Zenon
  <2>7. Cardinality(Running') <= Jobs
    BY <2>5, <2>6, <1>0 DEF InFlight
  <2>8. done' = done \ {n} /\ w[n] = "ok" /\ n \in done
    BY <2>1, <2>2, <1>4, Zenon DEF n
  <2>9. pc' = "handle" => done' # {}
    BY <2>8, <2>2, Zenon DEF n
  <2> QED
    BY <2>2, <2>3, <2>4, <2>7, <2>8, <2>9, Zenon DEF InFlight
<1>5. CASE (Handle /\ w[Min(done)] # "ok") \/ Interrupt
  BY Zenon, <1>3, <1>5 DEF Handle, Interrupt, Abandon
<1>6. CASE Close
  <2>1. w' = w /\ UNCHANGED <<receipts, done>> /\ pc' # "handle"
    BY Zenon, <1>6, NobodyWoken, NodesAssumption DEF Close, Stages
  <2> QED
    BY <2>1, Zenon DEF InFlight, Running, Finished
<1>7. CASE Return \/ Drain \/ InterruptJoin \/ StopServer \/ Unbind \/ Replace \/ UNCHANGED vars
  <2>1. UNCHANGED <<w, receipts, done>> /\ (pc' = "handle" => pc = "handle")
    BY <1>7, Zenon DEF Return, Drain, InterruptJoin, StopServer, Unbind, Replace, vars, coord
  <2> QED
    BY <2>1, Zenon DEF InFlight, Running, Finished
<1> QED
  BY <1>1, <1>2, <1>4, <1>5, <1>6, <1>7, Zenon DEF Coordinator

\* The join comes before the close, so the close finds no lane out unless
\* Ctrl-C ended the join.
LEMMA CloseCoordinator ==
  ASSUME Types, Lanes, Joined, NobodyWaits, CloseAccepted,
         Coordinator \/ Interrupt \/ InterruptJoin \/ Replace \/ UNCHANGED vars
  PROVE  Joined' /\ CloseAccepted'
<1>0. CASE Close /\ hurried
  BY <1>0, Zenon DEF Close, Joined, CloseAccepted
<1>1. CASE Close /\ ~hurried
  <2>1. \A n \in Nodes : w[n] \in Over \cup {"idle"}
    BY <1>1, Zenon DEF Close, Joined
  <2>2. borrowed = {} /\ {n \in Nodes : w[n] \in Creating} = {}
    BY <2>1, Zenon DEF Lanes, Over, Holding, Creating
  <2>3. creating = 0
    BY <2>2, FS_EmptySet, Zenon DEF creating
  <2>4. pc' # "refused" /\ w' = w
    <3>1. ~(borrowed # {} \/ creating > 0)
      BY <2>2, <2>3
    <3>2. Woken(w) = w
      BY Zenon DEF Types, NobodyWaits, Woken
    <3> QED
      BY <1>1, <3>1, <3>2, Zenon DEF Close
  <2> QED
    BY <2>1, <2>4, Zenon DEF Joined, CloseAccepted
<1>2. CASE Drain
  BY <1>2, Zenon DEF Drain, Joined, CloseAccepted
<1>3. CASE InterruptJoin \/ StopServer \/ Unbind \/ Replace \/ UNCHANGED vars
  BY <1>3, Zenon DEF InterruptJoin, StopServer, Unbind, Replace, vars, coord, Joined, CloseAccepted
<1>4. CASE Submit \/ Wait \/ Handle \/ Return \/ Interrupt
  <2>1. pc' \in {"loop", "wait", "handle", "drain"}
    BY <1>4, Zenon DEF Submit, Wait, Handle, Abandon, Return, Interrupt
  <2> QED
    BY <2>1, Zenon DEF Joined, CloseAccepted
<1> QED
  BY <1>0, <1>1, <1>2, <1>3, <1>4, Zenon DEF Coordinator

-----------------------------------------------------------------------------
(* The invariant *)

\* Every step of a worker keeps the invariant.
LEMMA WorkerStep ==
  ASSUME Inductive, NEW n \in Nodes, Worker(n)
  PROVE  Inductive'
<1>1. /\ Types' /\ Moves(n) /\ UNCHANGED coord
      /\ Quiet \/ Fails(n) \/ Acquire(n) \/ Enter(n) \/ Release(n)
  BY WorkerShape, Zenon DEF Inductive
<1>2. InFlight'
  BY <1>1, InFlightWorker, Zenon DEF Inductive
<1>3. Joined' /\ CloseAccepted'
  BY <1>1, Zenon DEF Inductive, Joined, CloseAccepted, Moves, coord
<1>4. NobodyWaits'
  <2>1. Acquire(n) => w'[n] # "wait"
    <3>1. w[n] = "ask" /\ ~(closed \/ broken) /\ available = {} /\ Acquire(n) => Room
      BY RoomForAsker, Zenon DEF Inductive
    <3> QED
      BY <3>1, Zenon DEF Acquire, Set, Inductive, Types
  <2>2. PICK s \in Stages \ {"idle"} : w' = [w EXCEPT ![n] = s] /\ (s = "wait" => Acquire(n))
    BY <1>1, Zenon DEF Moves
  <2>3. w'[n] = s /\ s # "wait"
    BY <2>1, <2>2, Zenon DEF Inductive, Types
  <2> QED
    BY <2>2, <2>3, Zenon DEF Inductive, Types, NobodyWaits
<1>5. Lanes'
  BY <1>1, <1>4, LanesQuiet, LanesFails, LanesAcquire, LanesEnter, LanesRelease, Zenon DEF Inductive
<1> QED
  BY <1>1, <1>2, <1>3, <1>4, <1>5, Zenon DEF Inductive

\* So does every other step.
LEMMA CoordinatorStep ==
  ASSUME Inductive, Coordinator \/ Interrupt \/ InterruptJoin \/ Replace \/ UNCHANGED vars
  PROVE  Inductive'
<1>1. Types' /\ NobodyWaits' /\ (Quiet \/ Close)
  BY CoordinatorShape, Zenon DEF Inductive
<1>2. InFlight' /\ Joined' /\ CloseAccepted'
  BY InFlightCoordinator, CloseCoordinator, Zenon DEF Inductive
<1>3. Lanes'
  BY <1>1, LanesQuiet, LanesClose, Zenon DEF Inductive
<1> QED
  BY <1>1, <1>2, <1>3, Zenon DEF Inductive

\* The inductive invariant of the run, for every graph and every number of jobs.
THEOREM Invariant == Spec => []Inductive
<1>1. Init => Inductive
  <2> SUFFICES ASSUME Init PROVE Inductive
    BY Zenon
  <2>1. Finished = {} /\ Running = {}
    BY DEF Init, Finished, Running
  <2>2. Cardinality(Running) <= Jobs
    BY <2>1, FS_EmptySet, JobsAssumption
  <2> QED
    BY <2>1, <2>2 DEF Init, Inductive, Types, Lanes, InFlight, Joined, NobodyWaits, CloseAccepted,
                      Stages, Creating, Holding, Over
<1>2. Inductive /\ [Next]_vars => Inductive'
  BY WorkerStep, CoordinatorStep, Zenon DEF Next
<1> QED
  BY <1>1, <1>2, PTL DEF Spec

\* _LazyExecutionLanePool: a lane is never lent to two commands, nor on offer
\* while it is lent.
THEOREM LanesExclusive == Spec => []LaneExclusive
<1>1. Inductive => LaneExclusive
  BY Zenon DEF Inductive, Lanes, LaneExclusive, Creating, Holding
<1> QED
  BY <1>1, Invariant, PTL

\* acquire() never blocks on the condition, whatever the graph and the failures:
\* a run cannot hang for want of a lane.
THEOREM AcquireNeverBlocks == Spec => []NobodyWaits
<1>1. Inductive => NobodyWaits
  BY Zenon DEF Inductive
<1> QED
  BY <1>1, Invariant, PTL

\* close() is refused because a lane is out only after a Ctrl-C in the join.
THEOREM CloseRefusedOnlyHurried == Spec => []CloseAccepted
<1>1. Inductive => CloseAccepted
  BY Zenon DEF Inductive
<1> QED
  BY <1>1, Invariant, PTL

-----------------------------------------------------------------------------
(* The Wine runtime *)

Booting == {"prefix", "wineboot", "bind", "configure"}

\* The holder of binding_lock is the one worker that initializes the runtime;
\* a server that can be stopped, and a linked drive, are the holder's or belong
\* to a runtime the close will find.
Runtime ==
  /\ \A n \in Nodes : w[n] \in Booting => lock = n
  /\ lock # -1 => lock \in Nodes /\ w[lock] \in Booting
  /\ (pin /\ server = "live") \/ mapped => lock # -1 \/ boot = "ready"
  /\ ~hurried /\ pc \in {"unbind", "ended"} /\ pin => server # "live"
  /\ ~hurried /\ pc = "ended" => ~mapped

\* A step that leaves the runtime alone and moves nobody in or out of the
\* initialization keeps it right.
LEMMA RuntimeKept ==
  ASSUME Types, Runtime, UNCHANGED <<runtime, pin, pc, hurried>>,
         \A n \in Nodes : w'[n] \in Booting <=> w[n] \in Booting
  PROVE  Runtime'
BY Zenon DEF Runtime, runtime

\* A failed initialization stops its server and unlinks its drive.
LEMMA RuntimeBootFails ==
  ASSUME Types, NobodyWaits, Runtime, NEW n \in Nodes, w[n] \in Booting, BootFails(n),
         UNCHANGED <<pc, hurried, pin>>
  PROVE  Runtime'
<1>1. w' = [w EXCEPT ![n] = "failed"]
  BY NobodyWoken, Zenon DEF BootFails, CreateFails, Stages, Over
<1>2. \A m \in Nodes : w'[m] \notin Booting
  BY <1>1, Zenon DEF Types, Runtime, Booting
<1>3. lock' = -1 /\ ~mapped' /\ (pin => server' # "live")
  BY Zenon DEF BootFails, Terminated
<1> QED
  BY <1>2, <1>3, Zenon DEF Runtime

\* A stage of the initialization that succeeds stays under the lock.
LEMMA RuntimeBoots ==
  ASSUME Types, Runtime, ~(pc \in {"unbind", "ended"} /\ ~hurried),
         NEW n \in Nodes, NEW s \in Booting, w' = [w EXCEPT ![n] = s], lock' = n,
         w[n] \in Booting \/ lock = -1, UNCHANGED <<pc, hurried, pin>>
  PROVE  Runtime'
<1>0. n # -1
  BY NodesAssumption
<1>1. \A m \in Nodes : m # n => w'[m] = w[m]
  BY Zenon DEF Types
<1>2. w'[n] = s
  BY Zenon DEF Types
<1>3. \A m \in Nodes : w[m] \in Booting => m = n
  BY NodesAssumption DEF Runtime
<1> QED
  BY <1>0, <1>1, <1>2, <1>3, Zenon DEF Runtime

\* Every step of a worker keeps the runtime right.
LEMMA RuntimeWorker ==
  ASSUME Inductive, Runtime, NEW n \in Nodes, Worker(n)
  PROVE  Runtime'
<1> USE DEF Inductive
<1>0. UNCHANGED <<pc, hurried>> /\ ~(pc \in {"unbind", "ended"} /\ ~hurried) /\ UNCHANGED pin
  <2>1. UNCHANGED coord /\ Moves(n)
    BY WorkerShape, Zenon
  <2>2. UNCHANGED pin
    BY Zenon DEF Worker, Start, Acquire, Lock, NoWorker, StartServer, Wineboot, Bind, Configure,
                 Enter, Command, Release
  <2> QED
    BY <2>1, <2>2, Zenon DEF coord, Moves, Joined
<1>1. CASE Start(n) \/ Acquire(n) \/ Enter(n) \/ Command(n) \/ Release(n) \/ NoWorker(n)
  <2>1. UNCHANGED runtime /\ w[n] \notin Booting
    BY <1>1, Zenon DEF Start, Acquire, Enter, Command, Release, NoWorker, Booting
  <2>2. PICK s \in {"ask", "failed", "run", "create", "wait", "ran", "spoilt", "ok"} :
           w' = [w EXCEPT ![n] = s]
    <3>1. CASE Start(n) \/ Acquire(n) \/ Command(n)
      BY <3>1, Zenon DEF Start, Acquire, Command, Set
    <3>2. CASE Enter(n)
      BY Zenon, <3>2, NobodyWoken DEF Enter, CreateFails, Stages, Holding, Over
    <3>3. CASE Release(n)
      <4>1. PICK s \in {"failed", "ok"} : w' = [w EXCEPT ![n] = s]
        BY <3>3, NobodyWoken, Zenon DEF Release, Stages, Over
      <4> QED
        BY <4>1, Zenon
    <3>4. CASE NoWorker(n)
      BY <3>4, NobodyWoken, Zenon DEF NoWorker, CreateFails, Stages, Over
    <3> QED
      BY <1>1, <3>1, <3>2, <3>3, <3>4, Zenon
  <2>3. \A m \in Nodes : w'[m] \in Booting <=> w[m] \in Booting
    BY <2>1, <2>2, Zenon DEF Types, Booting
  <2> QED
    BY <1>0, <2>1, <2>3, RuntimeKept, Zenon
<1>2. CASE Lock(n)
  <2>1. CASE w' = [w EXCEPT ![n] = "prefix"] /\ lock' = n
    BY <1>0, <1>2, <2>1, RuntimeBoots, Zenon DEF Lock, Booting
  <2>2. CASE UNCHANGED lock /\ (w' = [w EXCEPT ![n] = "made"] \/ CreateFails(n))
    <3>1. PICK s \in {"made", "failed"} : w' = [w EXCEPT ![n] = s]
      BY <2>2, NobodyWoken, Zenon DEF CreateFails, Stages, Over
    <3>2. \A m \in Nodes : w'[m] \in Booting <=> w[m] \in Booting
      BY <1>2, <3>1, Zenon DEF Types, Booting, Lock
    <3> QED
      BY <1>0, <1>2, <2>2, <3>2, RuntimeKept, Zenon DEF Lock, runtime
  <2> QED
    BY <1>2, <2>1, <2>2, Zenon DEF Lock, Set
<1>3. ASSUME w[n] \in Booting, BootFails(n) PROVE Runtime'
  BY <1>0, <1>3, RuntimeBootFails, Zenon
<1>4. CASE StartServer(n) \/ Wineboot(n) \/ Bind(n)
  <2>1. w[n] \in Booting /\ lock = n
    BY <1>4, Zenon DEF StartServer, Wineboot, Bind, Booting, Runtime
  <2>2. BootFails(n) \/ (UNCHANGED lock /\ \E s \in Booting : w' = [w EXCEPT ![n] = s])
    BY <1>4, Zenon DEF StartServer, Wineboot, Bind, Booting, Set
  <2> QED
    BY <1>0, <1>3, <2>1, <2>2, RuntimeBoots, Zenon
<1>5. CASE Configure(n)
  <2>1. w[n] \in Booting /\ lock = n
    BY <1>5, Zenon DEF Configure, Booting, Runtime
  <2>2. CASE boot' = "ready" /\ lock' = -1 /\ w' = [w EXCEPT ![n] = "made"]
    <3>1. \A m \in Nodes : w'[m] \notin Booting
      BY <2>1, <2>2, Zenon DEF Types, Runtime, Booting
    <3> QED
      BY <1>0, <2>2, <3>1, Zenon DEF Runtime
  <2> QED
    BY <1>3, <1>5, <2>1, <2>2, Zenon DEF Configure, Set
<1> QED
  BY <1>1, <1>2, <1>4, <1>5, Zenon DEF Worker

\* Every other step does: a close finds the lock free, and the server and the
\* drive of a runtime that is ready are stopped and unlinked in this order.
LEMMA RuntimeCoordinator ==
  ASSUME Inductive, Runtime, Coordinator \/ Interrupt \/ InterruptJoin \/ Replace \/ UNCHANGED vars
  PROVE  Runtime'
<1> USE DEF Inductive, Runtime, runtime, Booting
<1>1. CASE Submit
  <2>1. \A m \in Nodes : w'[m] \in Booting <=> w[m] \in Booting
    BY <1>1, Zenon DEF Submit, Firsts, Ready
  <2> QED
    BY <1>1, <2>1, Zenon DEF Submit
<1>2. CASE Handle \/ Interrupt
  <2>1. /\ \A m \in Nodes : w'[m] \in Booting <=> w[m] \in Booting
        /\ pc' \in {"loop", "handle", "drain"} /\ UNCHANGED <<runtime, pin>>
    BY <1>2, Zenon DEF Handle, Interrupt, Abandon
  <2> QED
    BY <2>1, Zenon
<1>3. CASE Wait \/ Return \/ Drain \/ InterruptJoin
  <2>1. UNCHANGED <<w, runtime, pin>> /\ pc' \in {"handle", "drain", "close"}
    BY <1>3, Zenon DEF Wait, Return, Drain, InterruptJoin
  <2> QED
    BY <2>1, Zenon
<1>4. CASE Close
  <2>1. w' = w /\ UNCHANGED <<runtime, pin, hurried>> /\ pc' \in {"refused", "stop", "ended"}
    <3>1. Woken(w) = w
      BY Zenon DEF Types, NobodyWaits, Woken
    <3> QED
      BY <1>4, <3>1, Zenon DEF Close
  <2>2. pc' = "ended" => boot # "ready"
    BY <1>4, Zenon DEF Close
  <2>3. ~hurried => lock = -1
    BY <1>4, Zenon DEF Close, Joined, Over
  <2> QED
    BY <2>1, <2>2, <2>3, Zenon
<1>5. CASE StopServer
  <2>1. /\ UNCHANGED <<w, lock, boot, mapped, pin>> /\ pc' = "unbind"
        /\ (UNCHANGED server /\ hurried') \/ server' = Terminated
    BY <1>5, Zenon DEF StopServer
  <2>2. server' = "live" => server = "live"
    BY <2>1, Zenon DEF Terminated
  <2> QED
    BY <2>1, <2>2, Zenon DEF Terminated
<1>6. CASE Unbind
  BY <1>6, Zenon DEF Unbind
<1>7. CASE Replace
  <2>1. UNCHANGED <<w, lock, boot, server, mapped, pc, hurried>> /\ pin' = FALSE
    BY <1>7, Zenon DEF Replace, coord
  <2> QED
    BY <2>1, Zenon
<1>8. CASE UNCHANGED vars
  BY <1>8, Zenon DEF vars
<1> HIDE DEF Inductive, Runtime, runtime, Booting
<1> QED
  BY <1>1, <1>2, <1>3, <1>4, <1>5, <1>6, <1>7, <1>8, Zenon DEF Coordinator

\* _close_backend_runtime and the cleanup of initialize_wine_runtime: neither
\* the logical drive nor a server that can be stopped outlives a run whose
\* shutdown no Ctrl-C cut short, wherever the initialization failed.
THEOREM RuntimeNeverLeft == Spec => []RuntimeGone
<1>1. Init => Runtime
  BY NodesAssumption DEF Init, Runtime, Booting
<1>2. Inductive /\ Runtime /\ [Next]_vars => Runtime'
  BY RuntimeWorker, RuntimeCoordinator, Zenon DEF Next
<1>3. Inductive /\ Runtime => RuntimeGone
  BY Zenon DEF Inductive, Runtime, RuntimeGone, CloseAccepted
<1> QED
  BY <1>1, <1>2, <1>3, Invariant, PTL DEF Spec

=============================================================================
