-------------------------- MODULE SupervisorProofs --------------------------
(***************************************************************************)
(* Proofs about Supervisor, for any set of commands.  The inductive        *)
(* invariant says what each thread keeps true of its own process group.    *)
(* A step of a thread or of its processes leaves the other commands alone  *)
(* (Apart), so each action is proved for its own command only, and the     *)
(* three actions of cancel_all() and close() for all of them.              *)
(***************************************************************************)
EXTENDS Supervisor, TLAPS

\* The group is over: its leader has been reaped and no helper runs.
Gone(c) == leader[c] = "reaped" /\ ~helper[c]

Pausing == {"wait1", "wait2", "wait3", "wait4"}

\* Where the process group of a command stands when its thread is at a label.
GroupInv(c) ==
  /\ pc[c] \in {"check", "spawn", "launch"} => leader[c] \in {"none", "reaped"} /\ ~helper[c]
  /\ pc[c] \in {"launched", "handler", "term", "forget"} \cup Looping \cup Pausing => leader[c] # "none"
  /\ pc[c] \in {"read", "log"} => Gone(c)
  /\ pc[c] \in {"drain", "drain1", "drain2", "wait3", "wait4"} => leader[c] = "reaped"
  /\ pc[c] = "handler" => Gone(c) \/ outcome[c] \in {"undrained", "error"}
  /\ pc[c] \in {"term"} \cup Pausing =>
       /\ why[c] = "handler" => outcome[c] \in {"undrained", "error"}
       /\ why[c] = "closed" => outcome[c] = "closed"
       /\ why[c] \in {"handler", "closed", "cancelled", "limit", "timeout"}
  /\ pc[c] \in {"forget", "ended", "done"} =>
       \/ leader[c] \in {"none", "reaped"} /\ ~helper[c]
       \/ c \in stuck /\ outcome[c] \in {"undrained", "closed", "error"}
       \/ outcome[c] = "cut"
  /\ outcome[c] = "cut" => leader[c] # "none"

\* What is registered, and what has been signalled by or since close().
SignalInv(c) ==
  /\ Owned(c) => c \in active
  /\ c \in active => Owned(c) \/ (outcome[c] = "cut" /\ pc[c] \in {"ended", "done"})
  /\ why[c] = "closed" =>
       /\ closed /\ outcome[c] \in {"closed", "cut"}
       /\ pc[c] \in {"term", "forget", "ended", "done"} \cup Pausing
  /\ closed /\ c \in active =>
       signalled[c] # "none" \/ Gone(c) \/ <<c, attempt[c]>> \in closer.targets
  /\ pc[c] \in Pausing \cup {"drain1", "drain2"} => signalled[c] # "none" \/ Gone(c)
  /\ leaked[c] => signalled[c] # "none"
  /\ leader[c] = "none" => ~helper[c] /\ ~leaked[c]
  /\ pc[c] \in {"drain1", "drain2"} => signalled[c] # "none"

\* What the reports rest on.
ReportInv(c) ==
  /\ why[c] = "cancelled" => cancelled
  /\ why[c] = "limit" => over[c]
  /\ why[c] = "timeout" => late[c]
  /\ outcome[c] = "cancelled" => cancelled
  /\ outcome[c] = "limit" => over[c]
  /\ outcome[c] = "timeout" => late[c]
  /\ outcome[c] = "leak" => leaked[c]
  /\ outcome[c] = "closed" => closed
  /\ outcome[c] = "undrained" => c \in stuck
  /\ outcome[c] = "cut" => pc[c] \in {"forget", "ended", "done"}
  /\ outcome[c] \in Codes \cup {"signal"} =>
       /\ pc[c] \in {"forget", "ended", "check", "spawn", "launch", "done"} /\ Gone(c)
       /\ code[c] = outcome[c] /\ ~leaked[c] /\ ~over[c]
  /\ result[c] # "none" <=> pc[c] = "done"
  /\ result[c] \in {"none", outcome[c]} \/ (result[c] = "cancelled" /\ cancelled)
       \/ (result[c] = "closed" /\ closed)
  /\ pc[c] \in {"log", "handler", "forget", "ended"} => outcome[c] # "none"
  /\ leader[c] \in {"exited", "reaped"} => code[c] # "none"

\* What the retry rests on.
RetryInv(c) ==
  /\ attempt[c] = 2 => first[c] \in {"transient", "launch"}
  /\ revival[c] = "due" => cancelled /\ pc[c] \in {"check", "done"}
  /\ revival[c] # "made"

CloserInv ==
  /\ closed <=> closer.at # "idle"
  /\ closer.at = "done" => closer.targets = {}

\* What is kept for one command.
Kept(c) == GroupInv(c) /\ SignalInv(c) /\ ReportInv(c) /\ RetryInv(c)

IInv == TypeOK /\ CloserInv /\ \A c \in Commands : Kept(c)

-----------------------------------------------------------------------------
(* The start, and a step that changes nothing *)

\* At the start there is no process.
LEMMA InitInv == Init => IInv
<1> SUFFICES ASSUME Init PROVE IInv
  BY Zenon
<1>1. /\ helper \in [Commands -> BOOLEAN] /\ over \in [Commands -> BOOLEAN]
      /\ late \in [Commands -> BOOLEAN] /\ tired \in [Commands -> BOOLEAN]
      /\ leaked \in [Commands -> BOOLEAN]
  BY Zenon DEF Init
<1>2. /\ \A x \in {closer, sweeper} :
           /\ x.at \in {"idle", "signalling", "done"} /\ x.force \in BOOLEAN
           /\ x.targets \subseteq Commands \X (1..2)
      /\ CloserInv
  BY SMTT(30) DEF Init, CloserInv, Idle
<1>3. TypeOK
  <2>1. /\ leader \in [Commands -> {"none", "running", "exited", "reaped"}]
        /\ code \in [Commands -> Codes \cup {"none", "signal"}]
        /\ signalled \in [Commands -> {"none", "term", "kill"}]
        /\ why \in [Commands -> {"none", "cancelled", "limit", "timeout", "handler", "closed"}]
        /\ revival \in [Commands -> {"none", "due", "made"}]
    BY Zenon DEF Init
  <2>2. /\ pc \in [Commands -> Labels] /\ attempt \in [Commands -> 1..2]
        /\ outcome \in [Commands -> Endings] /\ result \in [Commands -> Endings]
        /\ first \in [Commands -> Endings]
    BY DEF Init, Labels, Endings
  <2>3. /\ stuck \in SUBSET Commands /\ active \in SUBSET Commands
        /\ closed \in BOOLEAN /\ cancelled \in BOOLEAN
    BY Zenon DEF Init
  <2> QED
    BY <1>1, <1>2, <2>1, <2>2, <2>3, Zenon DEF TypeOK
<1>4. ASSUME NEW c \in Commands
      PROVE  Kept(c)
  BY SMTT(30) DEF Kept, Init, GroupInv, SignalInv, ReportInv, RetryInv, Owned, Ending, Gone, Looping,
     Pausing,
     Codes, Idle
<1> QED
  BY <1>2, <1>3, <1>4, Zenon DEF IInv

\* A step that changes nothing.
LEMMA StutterStep ==
  ASSUME IInv, UNCHANGED vars
  PROVE  IInv'
<1> USE DEF vars, groupVars, threadVars, waitVars, sharedVars, histVars
<1>1. TypeOK' /\ CloserInv'
  BY Zenon DEF IInv, TypeOK, CloserInv
<1>2. ASSUME NEW c \in Commands
      PROVE  Kept(c)'
  <2>1. GroupInv(c)'
    BY Zenon DEF Kept, IInv, GroupInv, Gone
  <2>2. SignalInv(c)'
    BY Zenon DEF Kept, IInv, SignalInv, Owned, Ending, Gone
  <2>3. ReportInv(c)' /\ RetryInv(c)'
    BY Zenon DEF Kept, IInv, ReportInv, RetryInv, Gone
  <2> QED
    BY <2>1, <2>2, <2>3, Zenon DEF Kept
<1> QED
  BY <1>1, <1>2, Zenon DEF IInv

-----------------------------------------------------------------------------
(* What a step of one command leaves alone *)

Unaffected(d) ==
  /\ leader'[d] = leader[d] /\ code'[d] = code[d] /\ helper'[d] = helper[d]
  /\ signalled'[d] = signalled[d] /\ over'[d] = over[d]
  /\ (d \in stuck' <=> d \in stuck) /\ (d \in active' <=> d \in active)
  /\ pc'[d] = pc[d] /\ attempt'[d] = attempt[d] /\ late'[d] = late[d] /\ why'[d] = why[d]
  /\ leaked'[d] = leaked[d] /\ outcome'[d] = outcome[d] /\ result'[d] = result[d]
  /\ first'[d] = first[d] /\ revival'[d] = revival[d]

Apart(c) ==
  /\ UNCHANGED <<closed, cancelled, closer, sweeper>>
  /\ \A d \in Commands \ {c} : Unaffected(d)

\* So what is kept for the other commands stays.
LEMMA OthersKept ==
  ASSUME NEW c \in Commands, Apart(c), NEW d \in Commands \ {c}, Kept(d)
  PROVE  Kept(d)'
<1>. USE DEF Apart, Unaffected, Gone
<1>1. GroupInv(d)'
  BY Zenon DEF Kept, GroupInv
<1>2. SignalInv(d)'
  BY Zenon DEF Kept, SignalInv, Owned, Ending
<1>3. ReportInv(d)' /\ RetryInv(d)'
  BY DEF Kept, ReportInv, RetryInv
<1>. QED  BY <1>1, <1>2, <1>3, Zenon DEF Kept

\* A Boolean function stays one when one of its values is set.
LEMMA SetBoolean ==
  ASSUME NEW S, NEW f \in [S -> BOOLEAN], NEW x, NEW b \in BOOLEAN
  PROVE  [f EXCEPT ![x] = b] \in [S -> BOOLEAN]
  BY Zenon

LEMMA StepOfOne ==
  ASSUME IInv, NEW c \in Commands, Apart(c), TypeOK', Kept(c)'
  PROVE  IInv'
<1>1. CloserInv'
  BY Zenon DEF IInv, CloserInv, Apart
<1>2. \A d \in Commands : Kept(d)'
  BY OthersKept, Zenon DEF IInv
<1>. QED  BY <1>1, <1>2, Zenon DEF IInv

\* Whatever the processes do leaves the invariant to their thread: leaders exit
\* or are killed, helpers come and go, and only what runs writes or gets stuck.
LEMMA ProcessesStep ==
  ASSUME IInv, NEW c \in Commands,
         Exit(c) \/ LeaderDies(c) \/ Fork(c) \/ HelperEnds(c) \/ Write(c) \/ Stick(c)
  PROVE  IInv'
<1>1. TypeOK /\ Kept(c)
  BY Zenon DEF IInv
<1>2. /\ leader \in [Commands -> {"none", "running", "exited", "reaped"}]
      /\ code \in [Commands -> Codes \cup {"none", "signal"}]
      /\ helper \in [Commands -> BOOLEAN]
      /\ stuck \in SUBSET Commands
      /\ over \in [Commands -> BOOLEAN]
  BY <1>1, Zenon DEF TypeOK
<1>3. /\ \/ /\ leader[c] = "running" /\ leader'[c] = "exited" /\ code'[c] \in Codes \cup {"signal"}
            /\ UNCHANGED <<helper, over, stuck>>
         \/ /\ leader[c] = "running" /\ helper'[c] = TRUE
            /\ UNCHANGED <<leader, code, over, stuck>>
         \/ /\ helper'[c] = FALSE /\ UNCHANGED <<leader, code, over, stuck>>
         \/ /\ leader[c] = "running" \/ helper[c]
            /\ over'[c] = TRUE /\ UNCHANGED <<leader, code, helper, stuck>>
         \/ /\ leader[c] = "running" \/ helper[c]
            /\ stuck' = stuck \cup {c} /\ UNCHANGED <<leader, code, helper, over>>
  BY <1>2, Zenon
     DEF Exit, LeaderDies, Fork, HelperEnds, Write, Stick, Alive, Set, Goto
<1>4. UNCHANGED <<signalled, pc, attempt, late, tired, why, leaked, outcome, result, active,
                  first, revival, closed, cancelled, closer, sweeper>>
  BY Zenon DEF Exit, LeaderDies, Fork, HelperEnds, Write, Stick, Alive, groupVars, waitVars,
               threadVars, sharedVars, histVars
<1>5. TypeOK'
  <2>1. /\ leader' \in [Commands -> {"none", "running", "exited", "reaped"}]
        /\ code' \in [Commands -> Codes \cup {"none", "signal"}]
        /\ stuck' \in SUBSET Commands
    BY <1>2, Zenon
       DEF Exit, LeaderDies, Fork, HelperEnds, Write, Stick, Alive, Set, Goto, Codes
  <2>2. helper' \in [Commands -> BOOLEAN]
    <3>1. helper' = helper \/ helper' = [helper EXCEPT ![c] = TRUE] \/ helper' = [helper EXCEPT ![c] = FALSE]
      BY Zenon DEF Exit, LeaderDies, Fork, HelperEnds, Write, Stick, Alive, Set
    <3>. QED  BY <1>2, <3>1, SetBoolean, Zenon
  <2>3. over' \in [Commands -> BOOLEAN]
    <3>1. over' = over \/ over' = [over EXCEPT ![c] = TRUE]
      BY Zenon DEF Exit, LeaderDies, Fork, HelperEnds, Write, Stick, Alive, Set
    <3>. QED  BY <1>2, <3>1, SetBoolean, Zenon
  <2>. QED
    BY <1>1, <1>4, <2>1, <2>2, <2>3, Zenon DEF TypeOK
<1>6. Apart(c)
  <2>1. ASSUME NEW d \in Commands \ {c}
        PROVE  /\ leader'[d] = leader[d] /\ code'[d] = code[d] /\ helper'[d] = helper[d]
               /\ over'[d] = over[d] /\ (d \in stuck' <=> d \in stuck)
    BY <1>2, Zenon DEF Exit, LeaderDies, Fork, HelperEnds, Write, Stick, Alive, Set, Goto
  <2>. QED
    BY <1>4, <2>1, Zenon DEF Apart, Unaffected
<1>7. GroupInv(c)'
  BY <1>1, <1>3, <1>4, Zenon DEF Kept, GroupInv, Gone, Looping, Pausing, Codes
<1>8. SignalInv(c)'
  BY <1>1, <1>3, <1>4 DEF Kept, SignalInv, GroupInv, Gone, Looping, Pausing, Owned, Ending, Strongest
<1>9. ReportInv(c)' /\ RetryInv(c)'
  BY <1>1, <1>2, <1>3, <1>4 DEF Kept, ReportInv, RetryInv, GroupInv, Gone, Looping, Pausing, Codes
<1>. QED
  BY <1>5, <1>6, <1>7, <1>8, <1>9, StepOfOne, Zenon DEF Kept

\* Time passes, for the deadline or for a grace period.
LEMMA TimeStep ==
  ASSUME IInv, NEW c \in Commands, Expire(c) \/ Tire(c)
  PROVE  IInv'
<1>1. TypeOK /\ Kept(c)
  BY Zenon DEF IInv
<1>2. /\ late \in [Commands -> BOOLEAN]
      /\ tired \in [Commands -> BOOLEAN]
  BY <1>1, Zenon DEF TypeOK
<1>3. late[c] => late'[c]
  BY <1>2, Zenon
     DEF Expire, Tire, Waiting, Looping, Set, Goto
<1>4. UNCHANGED <<leader, code, helper, signalled, stuck, over, pc, attempt, why, leaked,
                  outcome, result, active, first, revival, closed, cancelled, closer, sweeper>>
  BY Zenon DEF Expire, Tire, Waiting, Looping, groupVars, waitVars, threadVars, sharedVars,
               histVars
<1>5. TypeOK'
  <2>1. late' \in [Commands -> BOOLEAN]
    <3>1. late' = late \/ late' = [late EXCEPT ![c] = TRUE]
      BY Zenon DEF Expire, Tire, Waiting, Looping, Set
    <3>. QED  BY <1>2, <3>1, SetBoolean, Zenon
  <2>2. tired' \in [Commands -> BOOLEAN]
    <3>1. tired' = tired \/ tired' = [tired EXCEPT ![c] = TRUE]
      BY Zenon DEF Expire, Tire, Waiting, Looping, Set
    <3>. QED  BY <1>2, <3>1, SetBoolean, Zenon
  <2>. QED
    BY <1>1, <1>4, <2>1, <2>2, Zenon DEF TypeOK
<1>6. Apart(c)
  <2>1. ASSUME NEW d \in Commands \ {c}
        PROVE  late'[d] = late[d]
    BY <1>2, Zenon DEF Expire, Tire, Waiting, Looping, Set, Goto
  <2>. QED
    BY <1>4, <2>1, Zenon DEF Apart, Unaffected
<1>7. GroupInv(c)'
  BY <1>1, <1>3, <1>4, Zenon DEF Kept, GroupInv, Gone, Looping, Pausing, Codes
<1>8. SignalInv(c)'
  BY <1>1, <1>3, <1>4, Zenon DEF Kept, SignalInv, GroupInv, Gone, Looping, Pausing, Owned, Ending, Strongest
<1>9. ReportInv(c)' /\ RetryInv(c)'
  <2>1. ReportInv(c)'
    BY <1>1, <1>3, <1>4, ZenonT(30) DEF Kept, ReportInv, Gone
  <2>2. RetryInv(c)'
    BY <1>1, <1>4, Zenon DEF Kept, RetryInv
  <2>. QED  BY <2>1, <2>2, Zenon
<1>. QED
  BY <1>5, <1>6, <1>7, <1>8, <1>9, StepOfOne, Zenon DEF Kept

\* No process is started by a run() that is cancelled, refused or fails to launch.
LEMMA StartStep ==
  ASSUME IInv, NEW c \in Commands, RunCheck(c) \/ SpawnCheck(c) \/ LaunchFails(c)
  PROVE  IInv'
<1>1. TypeOK /\ Kept(c)
  BY Zenon DEF IInv
<1>2. /\ pc \in [Commands -> Labels]
      /\ outcome \in [Commands -> Endings]
      /\ result \in [Commands -> Endings]
  BY <1>1, Zenon DEF TypeOK
<1>3. /\ \/ /\ pc[c] = "check" /\ cancelled /\ result'[c] = "cancelled" /\ pc'[c] = "done"
            /\ UNCHANGED outcome
         \/ /\ pc[c] = "spawn" /\ closed /\ result'[c] = "closed" /\ pc'[c] = "done"
            /\ UNCHANGED outcome
         \/ /\ pc[c] = "check" /\ ~cancelled /\ pc'[c] = "spawn" /\ UNCHANGED <<outcome, result>>
         \/ /\ pc[c] = "spawn" /\ ~closed /\ pc'[c] = "launch" /\ UNCHANGED <<outcome, result>>
         \/ /\ pc[c] = "launch" /\ pc'[c] = "ended" /\ outcome'[c] = "launch" /\ UNCHANGED result
  BY <1>2, Zenon
     DEF RunCheck, SpawnCheck, LaunchFails, Fault, Set, Goto
<1>4. UNCHANGED <<leader, code, helper, signalled, stuck, over, attempt, late, tired, why,
                  leaked, active, first, revival, closed, cancelled, closer, sweeper>>
  BY Zenon DEF RunCheck, SpawnCheck, LaunchFails, Fault, groupVars, waitVars, threadVars,
               sharedVars, histVars
<1>5. TypeOK'
  <2>1. /\ result' \in [Commands -> Endings]
        /\ pc' \in [Commands -> Labels]
        /\ outcome' \in [Commands -> Endings]
    BY <1>2, Zenon
       DEF RunCheck, SpawnCheck, LaunchFails, Fault, Set, Goto, Codes, Endings, Labels
  <2>. QED
    BY <1>1, <1>4, <2>1, Zenon DEF TypeOK
<1>6. Apart(c)
  <2>1. ASSUME NEW d \in Commands \ {c}
        PROVE  result'[d] = result[d] /\ pc'[d] = pc[d] /\ outcome'[d] = outcome[d]
    BY <1>2, Zenon DEF RunCheck, SpawnCheck, LaunchFails, Fault, Set, Goto
  <2>. QED
    BY <1>4, <2>1, Zenon DEF Apart, Unaffected
<1>7. GroupInv(c)'
  BY <1>1, <1>3, <1>4, Zenon DEF Kept, GroupInv, Gone, Looping, Pausing, Codes
<1>8. SignalInv(c)'
  BY <1>1, <1>3, <1>4, Zenon DEF Kept, SignalInv, GroupInv, Gone, Looping, Pausing, Owned, Ending, Strongest
<1>9. ReportInv(c)' /\ RetryInv(c)'
  BY <1>1, <1>2, <1>3, <1>4 DEF Kept, ReportInv, RetryInv, GroupInv, Gone, Looping, Pausing, Codes
<1>. QED
  BY <1>5, <1>6, <1>7, <1>8, <1>9, StepOfOne, Zenon DEF Kept

\* A launched child starts with a clean record.
LEMMA LaunchStep ==
  ASSUME IInv, NEW c \in Commands, Launch(c)
  PROVE  IInv'
<1>1. TypeOK /\ Kept(c)
  BY Zenon DEF IInv
<1>2. /\ leader \in [Commands -> {"none", "running", "exited", "reaped"}]
      /\ code \in [Commands -> Codes \cup {"none", "signal"}]
      /\ helper \in [Commands -> BOOLEAN]
      /\ signalled \in [Commands -> {"none", "term", "kill"}]
      /\ over \in [Commands -> BOOLEAN]
      /\ pc \in [Commands -> Labels]
      /\ late \in [Commands -> BOOLEAN]
      /\ tired \in [Commands -> BOOLEAN]
      /\ why \in [Commands -> {"none", "cancelled", "limit", "timeout", "handler", "closed"}]
      /\ leaked \in [Commands -> BOOLEAN]
      /\ outcome \in [Commands -> Endings]
      /\ revival \in [Commands -> {"none", "due", "made"}]
  BY <1>1, Zenon DEF TypeOK
<1>3. /\ pc[c] = "launch" /\ pc'[c] = "launched" /\ leader'[c] = "running" /\ code'[c] = "none"
      /\ helper'[c] = FALSE /\ signalled'[c] = "none" /\ over'[c] = FALSE /\ late'[c] = FALSE
      /\ why'[c] = "none" /\ leaked'[c] = FALSE /\ outcome'[c] = "none"
      /\ revival'[c] = IF revival[c] = "due" THEN "made" ELSE revival[c]
  BY <1>2
     DEF Launch, Set, Goto
<1>4. UNCHANGED <<stuck, attempt, result, active, first, closed, cancelled, closer, sweeper>>
  BY Zenon DEF Launch, groupVars, waitVars, threadVars, sharedVars, histVars
<1>5. TypeOK'
  <2>1. /\ leader' \in [Commands -> {"none", "running", "exited", "reaped"}]
        /\ code' \in [Commands -> Codes \cup {"none", "signal"}]
        /\ signalled' \in [Commands -> {"none", "term", "kill"}]
        /\ pc' \in [Commands -> Labels]
        /\ why' \in [Commands -> {"none", "cancelled", "limit", "timeout", "handler", "closed"}]
        /\ outcome' \in [Commands -> Endings]
        /\ revival' \in [Commands -> {"none", "due", "made"}]
    BY <1>2, Zenon
       DEF Launch, Set, Goto, Codes, Endings, Labels
  <2>2. helper' \in [Commands -> BOOLEAN]
    <3>1. helper' = helper \/ helper' = [helper EXCEPT ![c] = FALSE]
      BY Zenon DEF Launch, Set
    <3>. QED  BY <1>2, <3>1, SetBoolean, Zenon
  <2>3. over' \in [Commands -> BOOLEAN]
    <3>1. over' = over \/ over' = [over EXCEPT ![c] = FALSE]
      BY Zenon DEF Launch, Set
    <3>. QED  BY <1>2, <3>1, SetBoolean, Zenon
  <2>4. late' \in [Commands -> BOOLEAN]
    <3>1. late' = late \/ late' = [late EXCEPT ![c] = FALSE]
      BY Zenon DEF Launch, Set
    <3>. QED  BY <1>2, <3>1, SetBoolean, Zenon
  <2>5. tired' \in [Commands -> BOOLEAN]
    <3>1. tired' = tired \/ tired' = [tired EXCEPT ![c] = FALSE]
      BY Zenon DEF Launch, Set
    <3>. QED  BY <1>2, <3>1, SetBoolean, Zenon
  <2>6. leaked' \in [Commands -> BOOLEAN]
    <3>1. leaked' = leaked \/ leaked' = [leaked EXCEPT ![c] = FALSE]
      BY Zenon DEF Launch, Set
    <3>. QED  BY <1>2, <3>1, SetBoolean, Zenon
  <2>. QED
    BY <1>1, <1>4, <2>1, <2>2, <2>3, <2>4, <2>5, <2>6, Zenon DEF TypeOK
<1>6. Apart(c)
  <2>1. ASSUME NEW d \in Commands \ {c}
        PROVE  /\ leader'[d] = leader[d] /\ code'[d] = code[d] /\ helper'[d] = helper[d]
               /\ signalled'[d] = signalled[d] /\ over'[d] = over[d] /\ pc'[d] = pc[d]
               /\ late'[d] = late[d] /\ why'[d] = why[d] /\ leaked'[d] = leaked[d]
               /\ outcome'[d] = outcome[d] /\ revival'[d] = revival[d]
    BY <1>2 DEF Launch, Set, Goto
  <2>. QED
    BY <1>4, <2>1, Zenon DEF Apart, Unaffected
<1>7. GroupInv(c)'
  BY <1>1, <1>3, <1>4, Zenon DEF Kept, GroupInv, Gone, Looping, Pausing, Codes
<1>8. SignalInv(c)'
  BY <1>1, <1>3, <1>4, Zenon DEF Kept, SignalInv, GroupInv, Gone, Looping, Pausing, Owned, Ending, Strongest
<1>9. ReportInv(c)' /\ RetryInv(c)'
  BY <1>1, <1>2, <1>3, <1>4, Zenon DEF Kept, ReportInv, RetryInv, GroupInv, Gone, Looping, Pausing, Codes
<1>. QED
  BY <1>5, <1>6, <1>7, <1>8, <1>9, StepOfOne, Zenon DEF Kept

\* A child is registered, or ended for close().
LEMMA RegisterStep ==
  ASSUME IInv, NEW c \in Commands, Register(c)
  PROVE  IInv'
<1>1. TypeOK /\ Kept(c)
  BY Zenon DEF IInv
<1>2. /\ pc \in [Commands -> Labels]
      /\ why \in [Commands -> {"none", "cancelled", "limit", "timeout", "handler", "closed"}]
      /\ outcome \in [Commands -> Endings]
      /\ active \in SUBSET Commands
  BY <1>1, Zenon DEF TypeOK
<1>3. /\ pc[c] = "launched"
      /\ \/ closed /\ why'[c] = "closed" /\ outcome'[c] = "closed" /\ pc'[c] = "term" /\ UNCHANGED active
         \/ ~closed /\ UNCHANGED <<why, outcome>> /\ pc'[c] = "cancel?" /\ active' = active \cup {c}
  BY <1>2, Zenon
     DEF Register, RegisterIf, Set, Goto
<1>4. UNCHANGED <<leader, code, helper, signalled, stuck, over, attempt, late, tired, leaked,
                  result, first, revival, closed, cancelled, closer, sweeper>>
  BY Zenon DEF Register, RegisterIf, groupVars, waitVars, threadVars, sharedVars, histVars
<1>5. TypeOK'
  <2>1. /\ pc' \in [Commands -> Labels]
        /\ why' \in [Commands -> {"none", "cancelled", "limit", "timeout", "handler", "closed"}]
        /\ outcome' \in [Commands -> Endings]
        /\ active' \in SUBSET Commands
    BY <1>2, Zenon
       DEF Register, RegisterIf, Set, Goto, Codes, Endings, Labels
  <2>. QED
    BY <1>1, <1>4, <2>1, Zenon DEF TypeOK
<1>6. Apart(c)
  <2>1. ASSUME NEW d \in Commands \ {c}
        PROVE  /\ pc'[d] = pc[d] /\ why'[d] = why[d] /\ outcome'[d] = outcome[d]
               /\ (d \in active' <=> d \in active)
    BY <1>2, Zenon DEF Register, RegisterIf, Set, Goto
  <2>. QED
    BY <1>4, <2>1, Zenon DEF Apart, Unaffected
<1>7. GroupInv(c)'
  BY <1>1, <1>3, <1>4, Zenon DEF Kept, GroupInv, Gone, Looping, Pausing, Codes
<1>8. SignalInv(c)'
  BY <1>1, <1>3, <1>4, Zenon DEF Kept, SignalInv, GroupInv, Gone, Looping, Pausing, Owned, Ending, Strongest
<1>9. ReportInv(c)' /\ RetryInv(c)'
  BY <1>1, <1>2, <1>3, <1>4 DEF Kept, ReportInv, RetryInv, GroupInv, Gone, Looping, Pausing, Codes
<1>. QED
  BY <1>5, <1>6, <1>7, <1>8, <1>9, StepOfOne, Zenon DEF Kept

\* The loop looks at the token, at the output and at the clock.
LEMMA WatchStep ==
  ASSUME IInv, NEW c \in Commands, WatchToken(c) \/ WatchOutput(c) \/ WatchDeadline(c)
  PROVE  IInv'
<1>1. TypeOK /\ Kept(c)
  BY Zenon DEF IInv
<1>2. /\ pc \in [Commands -> Labels]
      /\ why \in [Commands -> {"none", "cancelled", "limit", "timeout", "handler", "closed"}]
  BY <1>1, Zenon DEF TypeOK
<1>3. /\ \/ /\ pc'[c] = "term"
            /\ \/ pc[c] = "cancel?" /\ cancelled /\ why'[c] = "cancelled"
               \/ pc[c] = "output?" /\ over[c] /\ why'[c] = "limit"
               \/ pc[c] = "deadline?" /\ late[c] /\ why'[c] = "timeout"
         \/ pc[c] \in Looping /\ pc'[c] \in Looping /\ UNCHANGED why
  <2>1. ASSUME NEW label, NEW broken, NEW reason, NEW next, Watch(c, label, broken, reason, next)
        PROVE  /\ pc[c] = label
               /\ \/ broken /\ pc'[c] = "term" /\ why'[c] = reason
                  \/ pc'[c] = next /\ UNCHANGED why
    BY <1>2, <2>1, Zenon DEF Watch, Terminate, Set, Goto
  <2>2. CASE WatchToken(c)
    BY <2>1, <2>2, Zenon DEF WatchToken, Looping
  <2>3. CASE WatchOutput(c)
    BY <2>1, <2>3, Zenon DEF WatchOutput, Looping
  <2>4. CASE WatchDeadline(c)
    BY <2>1, <2>4, Zenon DEF WatchDeadline, Looping
  <2>. QED  BY <2>2, <2>3, <2>4, Zenon
<1>4. UNCHANGED <<leader, code, helper, signalled, stuck, over, attempt, late, tired, leaked,
                  outcome, result, active, first, revival, closed, cancelled, closer, sweeper>>
  BY Zenon DEF WatchToken, WatchOutput, WatchDeadline, Watch, Terminate, groupVars, waitVars,
               threadVars, sharedVars, histVars
<1>5. TypeOK'
  <2>1. /\ pc' \in [Commands -> Labels]
        /\ why' \in [Commands -> {"none", "cancelled", "limit", "timeout", "handler", "closed"}]
    BY <1>2, Zenon
       DEF WatchToken, WatchOutput, WatchDeadline, Watch, Terminate, Set, Goto, Labels
  <2>. QED
    BY <1>1, <1>4, <2>1, Zenon DEF TypeOK
<1>6. Apart(c)
  <2>1. ASSUME NEW d \in Commands \ {c}
        PROVE  pc'[d] = pc[d] /\ why'[d] = why[d]
    BY <1>2, Zenon DEF WatchToken, WatchOutput, WatchDeadline, Watch, Terminate, Set, Goto
  <2>. QED
    BY <1>4, <2>1, Zenon DEF Apart, Unaffected
<1>7. GroupInv(c)'
  BY <1>1, <1>3, <1>4, Zenon DEF Kept, GroupInv, Gone, Looping, Pausing, Codes
<1>8. SignalInv(c)'
  BY <1>1, <1>3, <1>4, Zenon DEF Kept, SignalInv, GroupInv, Gone, Looping, Pausing, Owned, Ending, Strongest
<1>9. ReportInv(c)' /\ RetryInv(c)'
  BY <1>1, <1>2, <1>3, <1>4 DEF Kept, ReportInv, RetryInv, GroupInv, Gone, Looping, Pausing, Codes
<1>. QED
  BY <1>5, <1>6, <1>7, <1>8, <1>9, StepOfOne, Zenon DEF Kept

\* The loop reaps the leader.
LEMMA WatchExitStep ==
  ASSUME IInv, NEW c \in Commands, WatchExit(c)
  PROVE  IInv'
<1>1. TypeOK /\ Kept(c)
  BY Zenon DEF IInv
<1>2. /\ leader \in [Commands -> {"none", "running", "exited", "reaped"}]
      /\ pc \in [Commands -> Labels]
      /\ tired \in [Commands -> BOOLEAN]
  BY <1>1, Zenon DEF TypeOK
<1>3. /\ pc[c] = "exit?"
      /\ \/ leader[c] = "running" /\ leader'[c] = leader[c] /\ pc'[c] = "cancel?"
         \/ leader[c] # "running" /\ ~helper[c] /\ leader'[c] = "reaped" /\ pc'[c] = "drain"
         \/ leader[c] = "exited" /\ helper[c] /\ leader'[c] = "reaped" /\ pc'[c] = "cancel?"
         \/ leader[c] = "reaped" /\ helper[c] /\ leader'[c] = leader[c] /\ pc'[c] \in {"drain", "cancel?"}
  BY <1>2, Zenon
     DEF WatchExit, Set, Goto
<1>4. UNCHANGED <<code, helper, signalled, stuck, over, attempt, late, why, leaked, outcome,
                  result, active, first, revival, closed, cancelled, closer, sweeper>>
  BY Zenon DEF WatchExit, groupVars, waitVars, threadVars, sharedVars, histVars
<1>5. TypeOK'
  <2>1. /\ leader' \in [Commands -> {"none", "running", "exited", "reaped"}]
        /\ pc' \in [Commands -> Labels]
    BY <1>2, Zenon
       DEF WatchExit, Set, Goto, Labels
  <2>2. tired' \in [Commands -> BOOLEAN]
    <3>1. tired' = tired \/ tired' = [tired EXCEPT ![c] = FALSE]
      BY Zenon DEF WatchExit, Set
    <3>. QED  BY <1>2, <3>1, SetBoolean, Zenon
  <2>. QED
    BY <1>1, <1>4, <2>1, <2>2, Zenon DEF TypeOK
<1>6. Apart(c)
  <2>1. ASSUME NEW d \in Commands \ {c}
        PROVE  leader'[d] = leader[d] /\ pc'[d] = pc[d]
    BY <1>2, Zenon DEF WatchExit, Set, Goto
  <2>. QED
    BY <1>4, <2>1, Zenon DEF Apart, Unaffected
<1>7. GroupInv(c)'
  BY <1>1, <1>3, <1>4, Zenon DEF Kept, GroupInv, Gone, Looping, Pausing, Codes
<1>8. SignalInv(c)'
  BY <1>1, <1>3, <1>4, Zenon DEF Kept, SignalInv, GroupInv, Gone, Looping, Pausing, Owned, Ending, Strongest
<1>9. ReportInv(c)' /\ RetryInv(c)'
  BY <1>1, <1>2, <1>3, <1>4 DEF Kept, ReportInv, RetryInv, GroupInv, Gone, Looping, Pausing, Codes
<1>. QED
  BY <1>5, <1>6, <1>7, <1>8, <1>9, StepOfOne, Zenon DEF Kept

\* An exception leaves the loop or the log for the handler, or the attempt for
\* good.
LEMMA RaiseStep ==
  ASSUME IInv, NEW c \in Commands, Interrupt(c) \/ Log(c)
  PROVE  IInv'
<1>1. TypeOK /\ Kept(c)
  BY Zenon DEF IInv
<1>2. /\ pc \in [Commands -> Labels]
      /\ outcome \in [Commands -> Endings]
      /\ active \in SUBSET Commands
  BY <1>1, Zenon DEF TypeOK
<1>3. \/ /\ pc'[c] = "handler" /\ active' = active
         /\ \/ /\ \/ pc[c] \in Looping \cup {"drain", "drain1", "drain2", "read", "log"}
                  \/ pc[c] \in Ending /\ why[c] \notin {"handler", "closed"}
               /\ outcome'[c] = "error"
            \/ pc[c] = "log" /\ outcome'[c] = outcome[c]
      \/ /\ pc'[c] = "forget" /\ active' = active /\ outcome'[c] = "cut"
         /\ pc[c] = "handler" \/ (pc[c] \in Ending /\ why[c] \in {"handler", "closed"})
      \/ /\ pc'[c] = "ended" /\ outcome'[c] = "cut" /\ pc[c] = "launched"
         /\ active' = active \/ (active' = active \cup {c} /\ ~closed)
  BY <1>2, Zenon DEF Interrupt, LastHands, Log, Fault, Set, Goto, sharedVars
<1>4. UNCHANGED <<leader, code, helper, signalled, stuck, over, attempt, late, tired, why,
                  leaked, result, first, revival, closed, cancelled, closer, sweeper>>
  BY Zenon DEF Interrupt, Log, groupVars, waitVars, threadVars, sharedVars, histVars
<1>5. TypeOK'
  <2>1. /\ pc' \in [Commands -> Labels]
        /\ outcome' \in [Commands -> Endings]
    BY <1>2, Zenon DEF Interrupt, Log, Fault, Set, Goto, Endings, Labels
  <2>2. active' \in SUBSET Commands
    BY <1>2, <1>3, Zenon
  <2>. QED
    BY <1>1, <1>4, <2>1, <2>2, Zenon DEF TypeOK
<1>6. Apart(c)
  <2>1. ASSUME NEW d \in Commands \ {c}
        PROVE  pc'[d] = pc[d] /\ outcome'[d] = outcome[d] /\ (d \in active' <=> d \in active)
    BY <1>2, <1>3, Zenon DEF Interrupt, Log, Fault, Set, Goto
  <2>. QED
    BY <1>4, <2>1, Zenon DEF Apart, Unaffected
<1>7. GroupInv(c)'
  BY <1>1, <1>3, <1>4, Zenon DEF Kept, GroupInv, Gone, Looping, Ending, Pausing, Codes
<1>8. SignalInv(c)'
  BY <1>1, <1>3, <1>4, Zenon DEF Kept, SignalInv, GroupInv, Gone, Looping, Pausing, Owned, Ending
<1>9. ReportInv(c)' /\ RetryInv(c)'
  BY <1>1, <1>2, <1>3, <1>4 DEF Kept, ReportInv, RetryInv, GroupInv, Gone, Looping, Pausing,
     Ending, Codes
<1>. QED
  BY <1>5, <1>6, <1>7, <1>8, <1>9, StepOfOne, Zenon DEF Kept

\* drain_after_leader_exit ends with an empty group or an error.
LEMMA DrainStep ==
  ASSUME IInv, NEW c \in Commands, Drain(c)
  PROVE  IInv'
<1>1. TypeOK /\ Kept(c)
  BY Zenon DEF IInv
<1>2. /\ signalled \in [Commands -> {"none", "term", "kill"}]
      /\ pc \in [Commands -> Labels]
      /\ tired \in [Commands -> BOOLEAN]
      /\ leaked \in [Commands -> BOOLEAN]
      /\ outcome \in [Commands -> Endings]
  BY <1>1, Zenon DEF TypeOK
<1>3. /\ \/ /\ pc[c] = "drain" /\ ~helper[c] /\ pc'[c] = "read" /\ UNCHANGED <<signalled, leaked, outcome>>
         \/ /\ pc[c] = "drain" /\ helper[c] /\ pc'[c] = "drain1" /\ UNCHANGED <<leaked, outcome>>
            /\ signalled'[c] = Strongest(c, FALSE)
         \/ /\ pc[c] \in {"drain1", "drain2"} /\ ~helper[c] /\ pc'[c] = "read" /\ leaked'[c] = TRUE
            /\ UNCHANGED <<signalled, outcome>>
         \/ /\ pc[c] = "drain1" /\ helper[c] /\ pc'[c] = "drain2" /\ UNCHANGED <<leaked, outcome>>
            /\ signalled'[c] = Strongest(c, TRUE)
         \/ /\ pc[c] = "drain2" /\ helper[c] /\ c \in stuck /\ pc'[c] = "handler"
            /\ outcome'[c] = "undrained" /\ UNCHANGED <<signalled, leaked>>
  BY <1>2, Zenon
     DEF Drain, Kill, Strongest, Set, Goto
<1>4. UNCHANGED <<leader, code, helper, stuck, over, attempt, late, why, result, active,
                  first, revival, closed, cancelled, closer, sweeper>>
  BY Zenon DEF Drain, Kill, Strongest, groupVars, waitVars, threadVars, sharedVars, histVars
<1>5. TypeOK'
  <2>1. /\ signalled' \in [Commands -> {"none", "term", "kill"}]
        /\ outcome' \in [Commands -> Endings]
        /\ pc' \in [Commands -> Labels]
    BY <1>2
       DEF Drain, Kill, Strongest, Set, Goto, Codes, Endings, Labels
  <2>2. tired' \in [Commands -> BOOLEAN]
    <3>1. tired' = tired \/ tired' = [tired EXCEPT ![c] = FALSE]
      BY Zenon DEF Drain, Kill, Strongest, Set
    <3>. QED  BY <1>2, <3>1, SetBoolean, Zenon
  <2>3. leaked' \in [Commands -> BOOLEAN]
    <3>1. leaked' = leaked \/ leaked' = [leaked EXCEPT ![c] = TRUE]
      BY Zenon DEF Drain, Kill, Strongest, Set
    <3>. QED  BY <1>2, <3>1, SetBoolean, Zenon
  <2>. QED
    BY <1>1, <1>4, <2>1, <2>2, <2>3, Zenon DEF TypeOK
<1>6. Apart(c)
  <2>1. ASSUME NEW d \in Commands \ {c}
        PROVE  /\ signalled'[d] = signalled[d] /\ leaked'[d] = leaked[d] /\ outcome'[d] = outcome[d]
               /\ pc'[d] = pc[d]
    BY <1>2, Zenon DEF Drain, Kill, Strongest, Set, Goto
  <2>. QED
    BY <1>4, <2>1, Zenon DEF Apart, Unaffected
<1>7. GroupInv(c)'
  BY <1>1, <1>3, <1>4, Zenon DEF Kept, GroupInv, Gone, Looping, Pausing, Codes
<1>8. SignalInv(c)'
  BY <1>1, <1>3, <1>4, Zenon DEF Kept, SignalInv, GroupInv, Gone, Looping, Pausing, Owned, Ending, Strongest
<1>9. ReportInv(c)' /\ RetryInv(c)'
  <2>1. outcome[c] \notin Codes \cup {"signal", "cut"} /\ result[c] = "none" /\ revival[c] # "due"
    BY <1>1, <1>3, Zenon DEF Kept, ReportInv, RetryInv
  <2>2. outcome'[c] = outcome[c] \/ (outcome'[c] = "undrained" /\ c \in stuck)
    BY <1>3, Zenon
  <2>3. pc'[c] # "done" /\ pc'[c] \notin {"log", "ended"}
    BY <1>3, Zenon
  <2>4. /\ pc'[c] \in {"handler", "forget"} => outcome'[c] # "none"
        /\ leader'[c] \in {"exited", "reaped"} => code[c] # "none"
        /\ leaked[c] => leaked'[c]
    BY <1>1, <1>3, <1>4, Zenon DEF Kept, ReportInv, GroupInv
  <2>5. ReportInv(c)'
    BY <1>1, <1>4, <2>1, <2>2, <2>3, <2>4, Zenon DEF Kept, ReportInv, Codes
  <2>6. RetryInv(c)'
    BY <1>1, <1>4, <2>1, Zenon DEF Kept, RetryInv
  <2>. QED  BY <2>5, <2>6, Zenon
<1>. QED
  BY <1>5, <1>6, <1>7, <1>8, <1>9, StepOfOne, Zenon DEF Kept

\* terminate_and_drain reaps the leader or fails.
LEMMA TermLeaderStep ==
  ASSUME IInv, NEW c \in Commands, TermLeader(c)
  PROVE  IInv'
<1>1. TypeOK /\ Kept(c)
  BY Zenon DEF IInv
<1>2. /\ leader \in [Commands -> {"none", "running", "exited", "reaped"}]
      /\ signalled \in [Commands -> {"none", "term", "kill"}]
      /\ pc \in [Commands -> Labels]
      /\ tired \in [Commands -> BOOLEAN]
      /\ outcome \in [Commands -> Endings]
  BY <1>1, Zenon DEF TypeOK
<1>3. /\ \/ /\ pc[c] = "term" /\ pc'[c] = "wait1" /\ signalled'[c] = Strongest(c, FALSE)
            /\ UNCHANGED <<leader, outcome>>
         \/ /\ pc[c] \in {"wait1", "wait2"} /\ leader[c] # "running" /\ pc'[c] = "wait3"
            /\ leader'[c] = "reaped" /\ UNCHANGED <<signalled, outcome>>
         \/ /\ pc[c] = "wait1" /\ pc'[c] = "wait2" /\ signalled'[c] = Strongest(c, TRUE)
            /\ UNCHANGED <<leader, outcome>>
         \/ /\ pc[c] = "wait2" /\ c \in stuck /\ why[c] \in {"handler", "closed"} /\ pc'[c] = "forget"
            /\ UNCHANGED <<leader, signalled, outcome>>
         \/ /\ pc[c] = "wait2" /\ c \in stuck /\ why[c] \notin {"handler", "closed"}
            /\ pc'[c] = "handler" /\ outcome'[c] = "undrained" /\ UNCHANGED <<leader, signalled>>
  BY <1>2, Zenon
     DEF TermLeader, Kill, Strongest, Set, Goto
<1>4. UNCHANGED <<code, helper, stuck, over, attempt, late, why, leaked, result, active,
                  first, revival, closed, cancelled, closer, sweeper>>
  BY Zenon DEF TermLeader, Kill, Strongest, groupVars, waitVars, threadVars, sharedVars,
               histVars
<1>5. TypeOK'
  <2>1. /\ leader' \in [Commands -> {"none", "running", "exited", "reaped"}]
        /\ signalled' \in [Commands -> {"none", "term", "kill"}]
        /\ outcome' \in [Commands -> Endings]
        /\ pc' \in [Commands -> Labels]
    BY <1>2
       DEF TermLeader, Kill, Strongest, Set, Goto, Codes, Endings, Labels
  <2>2. tired' \in [Commands -> BOOLEAN]
    <3>1. tired' = tired \/ tired' = [tired EXCEPT ![c] = FALSE]
      BY Zenon DEF TermLeader, Kill, Strongest, Set
    <3>. QED  BY <1>2, <3>1, SetBoolean, Zenon
  <2>. QED
    BY <1>1, <1>4, <2>1, <2>2, Zenon DEF TypeOK
<1>6. Apart(c)
  <2>1. ASSUME NEW d \in Commands \ {c}
        PROVE  /\ leader'[d] = leader[d] /\ signalled'[d] = signalled[d] /\ outcome'[d] = outcome[d]
               /\ pc'[d] = pc[d]
    BY <1>2, Zenon DEF TermLeader, Kill, Strongest, Set, Goto
  <2>. QED
    BY <1>4, <2>1, Zenon DEF Apart, Unaffected
<1>7. GroupInv(c)'
  BY <1>1, <1>3, <1>4, Zenon DEF Kept, GroupInv, Gone, Looping, Pausing, Codes
<1>8. SignalInv(c)'
  <2>1. ASSUME NEW force, leader[c] # "none"
        PROVE  /\ Strongest(c, force) # "none" \/ Gone(c)
               /\ signalled[c] # "none" => Strongest(c, force) # "none"
    <3>1. leader[c] \in {"none", "running", "exited", "reaped"}
      BY <1>2, Zenon
    <3>. QED  BY <2>1, <3>1, Zenon DEF Strongest, Gone
  <2>2. /\ signalled[c] # "none" => signalled'[c] # "none"
        /\ pc'[c] \in Pausing => signalled'[c] # "none" \/ Gone(c)'
        /\ pc'[c] \notin {"drain1", "drain2"}
    <3>1. leader[c] # "none"
      BY <1>1, <1>3, Zenon DEF Kept, GroupInv, Pausing
    <3>. QED  BY <1>1, <1>3, <1>4, <2>1, <3>1, Zenon DEF Kept, SignalInv, Gone, Pausing
  <2>3. Owned(c) <=> Owned(c)'
    BY <1>1, <1>3, <1>4, Zenon DEF Kept, GroupInv, Owned, Ending, Looping, Pausing
  <2>4. Gone(c) => Gone(c)'
    BY <1>3, <1>4, Zenon DEF Gone
  <2>5. /\ why'[c] = "closed" => pc'[c] \in {"term", "forget", "ended", "done"} \cup Pausing
        /\ why[c] = "closed" => outcome'[c] = outcome[c]
        /\ leader[c] # "none" /\ leader'[c] # "none" /\ outcome[c] # "cut"
    BY <1>1, <1>3, <1>4, Zenon DEF Kept, GroupInv, ReportInv, Pausing
  <2>. QED
    BY <1>1, <1>4, <2>2, <2>3, <2>4, <2>5, Zenon DEF Kept, SignalInv
<1>9. ReportInv(c)' /\ RetryInv(c)'
  <2>1. outcome[c] \notin Codes \cup {"signal", "cut"} /\ result[c] = "none" /\ revival[c] # "due"
    BY <1>1, <1>3, Zenon DEF Kept, ReportInv, RetryInv
  <2>2. outcome'[c] = outcome[c] \/ (outcome'[c] = "undrained" /\ c \in stuck)
    BY <1>3, Zenon
  <2>3. pc'[c] # "done" /\ pc'[c] \notin {"log", "ended"}
    BY <1>3, Zenon
  <2>4. /\ pc'[c] \in {"handler", "forget"} => outcome'[c] # "none"
        /\ leader'[c] \in {"exited", "reaped"} => code[c] # "none"
        /\ leaked[c] => leaked'[c]
    <3>1. leader[c] \in {"running", "exited", "reaped"}
      BY <1>1, <1>2, <1>3, Zenon DEF Kept, GroupInv, Pausing
    <3>. QED  BY <1>1, <1>3, <1>4, <3>1, Zenon DEF Kept, ReportInv, GroupInv, Pausing
  <2>5. ReportInv(c)'
    BY <1>1, <1>4, <2>1, <2>2, <2>3, <2>4, Zenon DEF Kept, ReportInv, Codes
  <2>6. RetryInv(c)'
    BY <1>1, <1>4, <2>1, Zenon DEF Kept, RetryInv
  <2>. QED  BY <2>5, <2>6, Zenon
<1>. QED
  BY <1>5, <1>6, <1>7, <1>8, <1>9, StepOfOne, Zenon DEF Kept

\* terminate_and_drain returns with an empty group or fails.
LEMMA TermGroupStep ==
  ASSUME IInv, NEW c \in Commands, TermGroup(c)
  PROVE  IInv'
<1>1. TypeOK /\ Kept(c)
  BY Zenon DEF IInv
<1>2. /\ signalled \in [Commands -> {"none", "term", "kill"}]
      /\ pc \in [Commands -> Labels]
      /\ tired \in [Commands -> BOOLEAN]
      /\ why \in [Commands -> {"none", "cancelled", "limit", "timeout", "handler", "closed"}]
      /\ outcome \in [Commands -> Endings]
  BY <1>1, Zenon DEF TypeOK
<1>3. /\ \/ /\ pc[c] \in {"wait3", "wait4"} /\ ~helper[c] /\ why[c] \in {"handler", "closed"}
            /\ pc'[c] = "forget" /\ UNCHANGED <<signalled, outcome>>
         \/ /\ pc[c] \in {"wait3", "wait4"} /\ ~helper[c] /\ why[c] \notin {"handler", "closed"}
            /\ pc'[c] = "log" /\ outcome'[c] = why[c] /\ UNCHANGED signalled
         \/ /\ pc[c] = "wait3" /\ pc'[c] = "wait4" /\ signalled'[c] = Strongest(c, TRUE)
            /\ UNCHANGED outcome
         \/ /\ pc[c] = "wait4" /\ c \in stuck /\ why[c] \in {"handler", "closed"} /\ pc'[c] = "forget"
            /\ UNCHANGED <<signalled, outcome>>
         \/ /\ pc[c] = "wait4" /\ c \in stuck /\ why[c] \notin {"handler", "closed"}
            /\ pc'[c] = "handler" /\ outcome'[c] = "undrained" /\ UNCHANGED signalled
  BY <1>2, Zenon
     DEF TermGroup, TermGroupIf, Kill, Strongest, Set, Goto
<1>4. UNCHANGED <<leader, code, helper, stuck, over, attempt, late, why, leaked, result,
                  active, first, revival, closed, cancelled, closer, sweeper>>
  BY Zenon DEF TermGroup, TermGroupIf, Kill, Strongest, groupVars, waitVars, threadVars,
               sharedVars, histVars
<1>5. TypeOK'
  <2>1. /\ signalled' \in [Commands -> {"none", "term", "kill"}]
        /\ outcome' \in [Commands -> Endings]
        /\ pc' \in [Commands -> Labels]
    BY <1>2
       DEF TermGroup, TermGroupIf, Kill, Strongest, Set, Goto, Codes, Endings, Labels
  <2>2. tired' \in [Commands -> BOOLEAN]
    <3>1. tired' = tired \/ tired' = [tired EXCEPT ![c] = FALSE]
      BY Zenon DEF TermGroup, TermGroupIf, Kill, Strongest, Set
    <3>. QED  BY <1>2, <3>1, SetBoolean, Zenon
  <2>. QED
    BY <1>1, <1>4, <2>1, <2>2, Zenon DEF TypeOK
<1>6. Apart(c)
  <2>1. ASSUME NEW d \in Commands \ {c}
        PROVE  signalled'[d] = signalled[d] /\ outcome'[d] = outcome[d] /\ pc'[d] = pc[d]
    BY <1>2, Zenon DEF TermGroup, TermGroupIf, Kill, Strongest, Set, Goto
  <2>. QED
    BY <1>4, <2>1, Zenon DEF Apart, Unaffected
<1>7. GroupInv(c)'
  BY <1>1, <1>3, <1>4, Zenon DEF Kept, GroupInv, Gone, Looping, Pausing, Codes
<1>8. SignalInv(c)'
  BY <1>1, <1>3, <1>4, Zenon DEF Kept, SignalInv, GroupInv, Gone, Looping, Pausing, Owned, Ending, Strongest
<1>9. ReportInv(c)' /\ RetryInv(c)'
  <2>1. outcome[c] \notin Codes \cup {"signal", "cut"} /\ result[c] = "none" /\ revival[c] # "due"
    BY <1>1, <1>3, Zenon DEF Kept, ReportInv, RetryInv
  <2>2. \/ outcome'[c] = outcome[c]
        \/ outcome'[c] = "undrained" /\ c \in stuck
        \/ outcome'[c] = why[c] /\ why[c] \in {"cancelled", "limit", "timeout"}
    BY <1>1, <1>3, Zenon DEF Kept, GroupInv, Pausing
  <2>3. pc'[c] \notin {"done", "ended"}
    BY <1>3, Zenon
  <2>4. pc'[c] \in {"log", "handler", "forget"} => outcome'[c] # "none"
    BY <1>1, <1>3, <1>4, Zenon DEF Kept, ReportInv, GroupInv, Pausing
  <2>5. ReportInv(c)'
    BY <1>1, <1>4, <2>1, <2>2, <2>3, <2>4, Zenon DEF Kept, ReportInv, Codes
  <2>6. RetryInv(c)'
    BY <1>1, <1>4, <2>1, Zenon DEF Kept, RetryInv
  <2>. QED  BY <2>5, <2>6, Zenon
<1>. QED
  BY <1>5, <1>6, <1>7, <1>8, <1>9, StepOfOne, Zenon DEF Kept

\* The result of an attempt is read from an empty group.
LEMMA ReadStep ==
  ASSUME IInv, NEW c \in Commands, Read(c)
  PROVE  IInv'
<1>1. TypeOK /\ Kept(c)
  BY Zenon DEF IInv
<1>2. /\ code \in [Commands -> Codes \cup {"none", "signal"}]
      /\ pc \in [Commands -> Labels]
      /\ outcome \in [Commands -> Endings]
  BY <1>1, Zenon DEF TypeOK
<1>3. /\ pc[c] = "read"
      /\ \/ over[c] /\ outcome'[c] = "limit" /\ pc'[c] = "handler"
         \/ ~over[c] /\ leaked[c] /\ outcome'[c] = "leak" /\ pc'[c] = "handler"
         \/ ~over[c] /\ ~leaked[c] /\ outcome'[c] = code[c] /\ pc'[c] = "forget"
  BY <1>2, Zenon
     DEF Read, ReadIf, Set, Goto
<1>4. UNCHANGED <<leader, code, helper, signalled, stuck, over, attempt, late, tired, why,
                  leaked, result, active, first, revival, closed, cancelled, closer, sweeper>>
  BY Zenon DEF Read, ReadIf, groupVars, waitVars, threadVars, sharedVars, histVars
<1>5. TypeOK'
  <2>1. /\ outcome' \in [Commands -> Endings]
        /\ pc' \in [Commands -> Labels]
    BY <1>2, Zenon
       DEF Read, ReadIf, Set, Goto, Codes, Endings, Labels
  <2>. QED
    BY <1>1, <1>4, <2>1, Zenon DEF TypeOK
<1>6. Apart(c)
  <2>1. ASSUME NEW d \in Commands \ {c}
        PROVE  outcome'[d] = outcome[d] /\ pc'[d] = pc[d]
    BY <1>2, Zenon DEF Read, ReadIf, Set, Goto
  <2>. QED
    BY <1>4, <2>1, Zenon DEF Apart, Unaffected
<1>7. GroupInv(c)'
  BY <1>1, <1>3, <1>4, Zenon DEF Kept, GroupInv, Gone, Looping, Pausing, Codes
<1>8. SignalInv(c)'
  BY <1>1, <1>3, <1>4, Zenon DEF Kept, SignalInv, GroupInv, Gone, Looping, Pausing, Owned, Ending, Strongest
<1>9. ReportInv(c)' /\ RetryInv(c)'
  BY <1>1, <1>2, <1>3, <1>4, Zenon DEF Kept, ReportInv, RetryInv, GroupInv, Gone, Looping, Pausing, Codes
<1>. QED
  BY <1>5, <1>6, <1>7, <1>8, <1>9, StepOfOne, Zenon DEF Kept

\* The handler ends whatever may still run.
LEMMA HandlerStep ==
  ASSUME IInv, NEW c \in Commands, Handler(c)
  PROVE  IInv'
<1>1. TypeOK /\ Kept(c)
  BY Zenon DEF IInv
<1>2. /\ leader \in [Commands -> {"none", "running", "exited", "reaped"}]
      /\ pc \in [Commands -> Labels]
      /\ why \in [Commands -> {"none", "cancelled", "limit", "timeout", "handler", "closed"}]
  BY <1>1, Zenon DEF TypeOK
<1>3. /\ pc[c] = "handler"
      /\ leader'[c] = IF leader[c] = "exited" THEN "reaped" ELSE leader[c]
      /\ \/ Alive(c) /\ why'[c] = "handler" /\ pc'[c] = "term"
         \/ ~Alive(c) /\ UNCHANGED why /\ pc'[c] = "forget"
  BY <1>2, Zenon
     DEF Handler, Terminate, Alive, Set, Goto
<1>4. UNCHANGED <<code, helper, signalled, stuck, over, attempt, late, tired, leaked, outcome,
                  result, active, first, revival, closed, cancelled, closer, sweeper>>
  BY Zenon DEF Handler, Terminate, Alive, groupVars, waitVars, threadVars, sharedVars,
               histVars
<1>5. TypeOK'
  <2>1. /\ leader' \in [Commands -> {"none", "running", "exited", "reaped"}]
        /\ why' \in [Commands -> {"none", "cancelled", "limit", "timeout", "handler", "closed"}]
        /\ pc' \in [Commands -> Labels]
    BY <1>2, Zenon
       DEF Handler, Terminate, Alive, Set, Goto, Labels
  <2>. QED
    BY <1>1, <1>4, <2>1, Zenon DEF TypeOK
<1>6. Apart(c)
  <2>1. ASSUME NEW d \in Commands \ {c}
        PROVE  leader'[d] = leader[d] /\ why'[d] = why[d] /\ pc'[d] = pc[d]
    BY <1>2, Zenon DEF Handler, Terminate, Alive, Set, Goto
  <2>. QED
    BY <1>4, <2>1, Zenon DEF Apart, Unaffected
<1>7. GroupInv(c)'
  <2>1. leader[c] # "none" /\ leader'[c] # "none" /\ (Gone(c) => ~Alive(c))
    BY <1>1, <1>3, SMT DEF Kept, GroupInv, Gone, Alive
  <2>2. ~Alive(c) => leader'[c] = "reaped" /\ ~helper[c]
    BY <1>2, <1>3, <2>1 DEF Alive
  <2>. QED  BY <1>1, <1>3, <1>4, <2>1, <2>2, Zenon DEF Kept, GroupInv, Gone, Looping, Pausing
<1>8. SignalInv(c)'
  BY <1>1, <1>3, <1>4, Zenon DEF Kept, SignalInv, GroupInv, Gone, Looping, Pausing, Owned, Ending, Strongest
<1>9. ReportInv(c)' /\ RetryInv(c)'
  BY <1>1, <1>2, <1>3, <1>4 DEF Kept, ReportInv, RetryInv, GroupInv, Gone, Looping, Pausing, Codes
<1>. QED
  BY <1>5, <1>6, <1>7, <1>8, <1>9, StepOfOne, Zenon DEF Kept

\* A child is forgotten only when its group is gone or given up.
LEMMA ForgetStep ==
  ASSUME IInv, NEW c \in Commands, Forget(c)
  PROVE  IInv'
<1>1. TypeOK /\ Kept(c)
  BY Zenon DEF IInv
<1>2. /\ pc \in [Commands -> Labels]
      /\ active \in SUBSET Commands
  BY <1>1, Zenon DEF TypeOK
<1>3. /\ pc[c] = "forget" /\ pc'[c] = "ended" /\ active' = active \ {c}
  BY <1>2, Zenon
     DEF Forget, Set, Goto
<1>4. UNCHANGED <<leader, code, helper, signalled, stuck, over, attempt, late, tired, why,
                  leaked, outcome, result, first, revival, closed, cancelled, closer, sweeper>>
  BY Zenon DEF Forget, groupVars, waitVars, threadVars, sharedVars, histVars
<1>5. TypeOK'
  <2>1. /\ pc' \in [Commands -> Labels]
        /\ active' \in SUBSET Commands
    BY <1>2, Zenon
       DEF Forget, Set, Goto, Labels
  <2>. QED
    BY <1>1, <1>4, <2>1, Zenon DEF TypeOK
<1>6. Apart(c)
  <2>1. ASSUME NEW d \in Commands \ {c}
        PROVE  pc'[d] = pc[d] /\ (d \in active' <=> d \in active)
    BY <1>2, Zenon DEF Forget, Set, Goto
  <2>. QED
    BY <1>4, <2>1, Zenon DEF Apart, Unaffected
<1>7. GroupInv(c)'
  BY <1>1, <1>3, <1>4, Zenon DEF Kept, GroupInv, Gone, Looping, Pausing, Codes
<1>8. SignalInv(c)'
  BY <1>1, <1>3, <1>4, Zenon DEF Kept, SignalInv, GroupInv, Gone, Looping, Pausing, Owned, Ending, Strongest
<1>9. ReportInv(c)' /\ RetryInv(c)'
  BY <1>1, <1>2, <1>3, <1>4 DEF Kept, ReportInv, RetryInv, GroupInv, Gone, Looping, Pausing, Codes
<1>. QED
  BY <1>5, <1>6, <1>7, <1>8, <1>9, StepOfOne, Zenon DEF Kept

\* run() retries only what the policy permits.
LEMMA RunEndStep ==
  ASSUME IInv, NEW c \in Commands, RunEnd(c)
  PROVE  IInv'
<1>1. TypeOK /\ Kept(c)
  BY Zenon DEF IInv
<1>2. /\ pc \in [Commands -> Labels]
      /\ attempt \in [Commands -> 1..2]
      /\ outcome \in [Commands -> Endings]
      /\ result \in [Commands -> Endings]
      /\ first \in [Commands -> Endings]
      /\ revival \in [Commands -> {"none", "due", "made"}]
  BY <1>1, Zenon DEF TypeOK
<1>3. /\ pc[c] = "ended"
      /\ first'[c] = IF attempt[c] = 1 THEN outcome[c] ELSE first[c]
      /\ \/ /\ attempt[c] = 1 /\ outcome[c] \in {"transient", "launch"}
            /\ attempt'[c] = 2 /\ pc'[c] = "check" /\ UNCHANGED result
            /\ revival'[c] = IF cancelled THEN "due" ELSE revival[c]
         \/ /\ result'[c] = outcome[c] /\ pc'[c] = "done" /\ UNCHANGED <<attempt, revival>>
  BY <1>2, SupervisorAssumption
     DEF RunEnd, Permits, Set, Goto
<1>4. UNCHANGED <<leader, code, helper, signalled, stuck, over, late, tired, why, leaked,
                  outcome, active, closed, cancelled, closer, sweeper>>
  BY Zenon DEF RunEnd, Permits, groupVars, waitVars, threadVars, sharedVars, histVars
<1>5. TypeOK'
  <2>1. /\ first' \in [Commands -> Endings]
        /\ attempt' \in [Commands -> 1..2]
        /\ pc' \in [Commands -> Labels]
        /\ revival' \in [Commands -> {"none", "due", "made"}]
        /\ result' \in [Commands -> Endings]
    BY <1>2, SupervisorAssumption
       DEF RunEnd, Permits, Set, Goto, Codes, Endings, Labels
  <2>. QED
    BY <1>1, <1>4, <2>1, Zenon DEF TypeOK
<1>6. Apart(c)
  <2>1. ASSUME NEW d \in Commands \ {c}
        PROVE  /\ first'[d] = first[d] /\ attempt'[d] = attempt[d] /\ pc'[d] = pc[d]
               /\ revival'[d] = revival[d] /\ result'[d] = result[d]
    BY <1>2, Zenon DEF RunEnd, Permits, Set, Goto
  <2>. QED
    BY <1>4, <2>1, Zenon DEF Apart, Unaffected
<1>7. GroupInv(c)'
  BY <1>1, <1>3, <1>4, Zenon DEF Kept, GroupInv, Gone, Looping, Pausing, Codes
<1>8. SignalInv(c)'
  BY <1>1, <1>3, <1>4, Zenon DEF Kept, SignalInv, GroupInv, Gone, Looping, Pausing, Owned, Ending, Strongest
<1>9. ReportInv(c)' /\ RetryInv(c)'
  BY <1>1, <1>2, <1>3, <1>4 DEF Kept, ReportInv, RetryInv, GroupInv, Gone, Looping, Pausing, Codes
<1>. QED
  BY <1>5, <1>6, <1>7, <1>8, <1>9, StepOfOne, Zenon DEF Kept

-----------------------------------------------------------------------------
(* cancel_all() and close() *)

\* Cancelling the token only adds causes.
LEMMA CancelStep ==
  ASSUME IInv, Cancel
  PROVE  IInv'
<1> USE DEF Cancel, groupVars, waitVars, threadVars, histVars
<1>1. TypeOK' /\ CloserInv'
  BY Zenon DEF IInv, TypeOK, CloserInv
<1>2. ASSUME NEW d \in Commands
      PROVE  Kept(d)'
  BY Zenon DEF Kept, IInv, GroupInv, SignalInv, ReportInv, RetryInv, Owned, Ending, Gone
<1> QED
  BY <1>1, <1>2, Zenon DEF IInv

\* A listed target is a command with one of its attempts.
LEMMA ListedType ==
  ASSUME IInv
  PROVE  Listed \subseteq Commands \X (1..2)
  BY DEF IInv, TypeOK, Listed

\* A delivered signal changes only the record of signals, never weakens it,
\* and is recorded unless the group is gone.
LEMMA Delivered ==
  ASSUME IInv, NEW t \in Commands \X (1..2), NEW force \in BOOLEAN, Deliver(t, force)
  PROVE  /\ signalled' \in [Commands -> {"none", "term", "kill"}]
         /\ \A d \in Commands :
              /\ signalled[d] # "none" => signalled'[d] # "none"
              /\ t = <<d, attempt[d]>> =>
                   signalled'[d] # "none" \/ (leader[d] \notin {"running", "exited"} /\ ~helper[d])
<1>1. PICK c \in Commands, n \in 1..2 : t = <<c, n>>
  OBVIOUS
<1>2. signalled' = IF attempt[c] = n THEN [signalled EXCEPT ![c] = Strongest(c, force)]
                   ELSE signalled
  BY <1>1, Zenon DEF Deliver, Set
<1>3. /\ Strongest(c, force) \in {"none", "term", "kill"}
      /\ signalled[c] # "none" => Strongest(c, force) # "none"
      /\ Strongest(c, force) # "none" \/ (leader[c] \notin {"running", "exited"} /\ ~helper[c])
  BY Zenon DEF Strongest, IInv, TypeOK
<1>4. signalled \in [Commands -> {"none", "term", "kill"}]
  BY Zenon DEF IInv, TypeOK
<1>5. signalled' \in [Commands -> {"none", "term", "kill"}]
  BY <1>2, <1>3, <1>4, Zenon
<1>6. ASSUME NEW d \in Commands
      PROVE  /\ signalled[d] # "none" => signalled'[d] # "none"
             /\ t = <<d, attempt[d]>> =>
                  signalled'[d] # "none" \/ (leader[d] \notin {"running", "exited"} /\ ~helper[d])
  BY <1>1, <1>2, <1>3, <1>4, Zenon
<1> QED
  BY <1>5, <1>6, Zenon

\* cancel_all() signals and changes nothing else.
LEMMA SweepStep ==
  ASSUME IInv, Sweep
  PROVE  IInv'
<1> DEFINE Rest == UNCHANGED <<leader, code, helper, stuck, over, threadVars, closed, cancelled,
                               active, closer, first, revival>>
<1>1. Rest
  BY Zenon DEF Sweep
<1>2. /\ sweeper'.at \in {"idle", "signalling", "done"} /\ sweeper'.force \in BOOLEAN
      /\ sweeper'.targets \subseteq Commands \X (1..2)
  <2>1. CASE \E force \in BOOLEAN :
               sweeper' = [at |-> "signalling", force |-> force, targets |-> Listed]
    BY <2>1, ListedType
  <2>2. CASE /\ sweeper.at = "signalling"
             /\ \E t \in sweeper.targets : sweeper' = [sweeper EXCEPT !.targets = @ \ {t}]
    BY <2>2 DEF IInv, TypeOK
  <2>3. CASE sweeper' = Idle
    BY <2>3, Zenon DEF Idle
  <2> QED
    BY <2>1, <2>2, <2>3, Zenon DEF Sweep
<1>3. /\ signalled' \in [Commands -> {"none", "term", "kill"}]
      /\ \A d \in Commands : signalled[d] # "none" => signalled'[d] # "none"
  <2>1. CASE UNCHANGED signalled
    BY <2>1, Zenon DEF IInv, TypeOK
  <2>2. CASE \E t \in sweeper.targets : Deliver(t, sweeper.force)
    BY <2>2, Delivered, Zenon DEF IInv, TypeOK
  <2> QED
    BY <2>1, <2>2, Zenon DEF Sweep
<1>4. TypeOK' /\ CloserInv'
  BY <1>1, <1>2, <1>3, Zenon DEF IInv, TypeOK, CloserInv, threadVars, waitVars
<1>5. ASSUME NEW d \in Commands
      PROVE  Kept(d)'
  BY <1>1, <1>3, Zenon DEF Kept, IInv, GroupInv, SignalInv, ReportInv, RetryInv, Owned, Ending, Gone,
     threadVars, waitVars
<1> QED
  BY <1>4, <1>5, Zenon DEF IInv

\* close() lists every registered child.
LEMMA CloseBeginStep ==
  ASSUME IInv, CloseBegin
  PROVE  IInv'
<1> USE DEF CloseBegin, groupVars, waitVars, threadVars, histVars
<1>1. TypeOK' /\ CloserInv'
  BY ListedType DEF IInv, TypeOK, CloserInv
<1>2. ASSUME NEW d \in Commands
      PROVE  Kept(d)'
  <2>1. closed' /\ closer'.targets = {<<c, attempt[c]>> : c \in active} /\ active' = active
        /\ attempt' = attempt
    BY Zenon DEF Listed
  <2>2. d \in active' => <<d, attempt'[d]>> \in closer'.targets
    BY <2>1, Zenon
  <2> QED
    BY <2>1, <2>2, Zenon DEF Kept, IInv, GroupInv, SignalInv, ReportInv, RetryInv, Owned, Ending, Gone
<1> QED
  BY <1>1, <1>2, Zenon DEF IInv

\* close() signals each child that it has listed.
LEMMA CloseStepStep ==
  ASSUME IInv, CloseStep
  PROVE  IInv'
<1> DEFINE Rest == UNCHANGED <<leader, code, helper, stuck, over, threadVars, closed, cancelled,
                               active, sweeper, histVars>>
<1>1. Rest /\ closer.at = "signalling"
  BY Zenon DEF CloseStep
<1>2. CASE closer.targets = {} /\ closer' = [closer EXCEPT !.at = "done"] /\ UNCHANGED signalled
  <2>1. TypeOK' /\ CloserInv'
    BY <1>1, <1>2 DEF IInv, TypeOK, CloserInv, threadVars, waitVars, histVars
  <2>2. ASSUME NEW d \in Commands
        PROVE  Kept(d)'
    BY <1>1, <1>2, Zenon DEF Kept, IInv, TypeOK, GroupInv, SignalInv, ReportInv, RetryInv, Owned, Ending, Gone,
       threadVars, waitVars, histVars
  <2> QED
    BY <2>1, <2>2 DEF IInv
<1>3. CASE \E t \in closer.targets : /\ Deliver(t, FALSE)
                                     /\ closer' = [closer EXCEPT !.targets = @ \ {t}]
  <2>1. PICK t \in closer.targets : /\ Deliver(t, FALSE)
                                    /\ closer' = [closer EXCEPT !.targets = @ \ {t}]
    BY <1>3, Zenon
  <2>2. /\ t \in Commands \X (1..2)
        /\ closer'.at = "signalling" /\ closer'.force \in BOOLEAN
        /\ closer'.targets = closer.targets \ {t}
    BY <1>1, <2>1 DEF IInv, TypeOK, CloseStep
  <2>3. /\ signalled' \in [Commands -> {"none", "term", "kill"}]
        /\ \A d \in Commands :
             /\ signalled[d] # "none" => signalled'[d] # "none"
             /\ t = <<d, attempt[d]>> =>
                  signalled'[d] # "none" \/ (leader[d] \notin {"running", "exited"} /\ ~helper[d])
    BY <2>1, <2>2, Delivered, Zenon
  <2>4. TypeOK' /\ CloserInv'
    BY <1>1, <2>2, <2>3, Zenon DEF IInv, TypeOK, CloserInv, threadVars, waitVars, histVars
  <2>5. ASSUME NEW d \in Commands
        PROVE  GroupInv(d)' /\ ReportInv(d)' /\ RetryInv(d)'
    BY <1>1, <2>3, Zenon DEF Kept, IInv, GroupInv, ReportInv, RetryInv, Gone, threadVars, waitVars,
       histVars
  <2>6. ASSUME NEW d \in Commands
        PROVE  SignalInv(d)'
    <3>1. d \in active /\ closed => signalled'[d] # "none" \/ Gone(d)
                                     \/ <<d, attempt[d]>> \in closer'.targets
      BY <2>2, <2>3 DEF Kept, IInv, TypeOK, SignalInv, GroupInv, Gone, Owned, Ending, Looping, Pausing
    <3> QED
      BY <1>1, <2>3, <3>1, Zenon DEF Kept, IInv, SignalInv, Owned, Ending, Gone, threadVars, waitVars, histVars
  <2> QED
    BY <2>4, <2>5, <2>6, Zenon DEF IInv, Kept
<1> QED
  BY <1>2, <1>3, Zenon DEF CloseStep

-----------------------------------------------------------------------------
(* Theorems *)

\* Every step preserves the invariant.
LEMMA NextInv == IInv /\ [Next]_vars => IInv'
<1> SUFFICES ASSUME IInv, [Next]_vars PROVE IInv'
  BY Zenon
<1>1. ASSUME NEW c \in Commands, Thread(c) PROVE IInv'
  BY <1>1, StartStep, LaunchStep, RegisterStep, WatchStep, WatchExitStep, RaiseStep, DrainStep,
     TermLeaderStep, TermGroupStep, ReadStep, HandlerStep, ForgetStep, RunEndStep, Zenon
     DEF Thread
<1>2. ASSUME NEW c \in Commands, Group(c) PROVE IInv'
  BY <1>2, ProcessesStep, Zenon DEF Group
<1>3. CASE UNCHANGED vars
  BY <1>3, StutterStep, Zenon
<1> QED
  BY <1>1, <1>2, <1>3, RaiseStep, TimeStep, CancelStep, SweepStep, CloseBeginStep, CloseStepStep,
     Zenon DEF Next

\* The invariant holds in every reachable state, for any set of commands and
\* any bound on faults, stuck processes and calls of cancel_all().
THEOREM Supervised == Spec => []IInv
<1>1. IInv /\ [Next]_vars => IInv'
  BY NextInv, Zenon
<1> QED
  BY InitInv, <1>1, PTL DEF Spec

\* No command's process group outlives its attempt, unless it is stuck and
\* the caller is told, or an exception cut its ending short (_one_attempt,
\* terminate_and_drain, _spawn).
THEOREM NoneLeft == Spec => []NothingLeft
<1>1. IInv => NothingLeft
  BY Zenon DEF Kept, IInv, NothingLeft, GroupInv
<1> QED
  BY Supervised, <1>1, PTL

\* cancel_all() reaches every group that its thread answers for, at every
\* moment of every interleaving (_spawn, _forget).
THEOREM AllTracked == Spec => []Tracked
<1>1. IInv => Tracked
  BY Zenon DEF Kept, IInv, TypeOK, Tracked, GroupInv, SignalInv, Alive, Owned, Ending, Gone, Labels, Looping,
     Pausing
<1> QED
  BY Supervised, <1>1, PTL

\* close() misses no group, however it overlaps with launches (_spawn, close).
THEOREM CloseComplete == Spec => []CloseReachesAll
<1>1. ASSUME IInv PROVE CloseReachesAll
  <2>1. SUFFICES ASSUME closer.at = "done", NEW c \in Commands, Alive(c), c \notin stuck,
                        outcome[c] # "cut"
                 PROVE  signalled[c] # "none" \/ pc[c] \in {"launched", "term"}
    BY Zenon DEF CloseReachesAll
  <2>2. closed /\ closer.targets = {}
    BY <1>1, <2>1, Zenon DEF IInv, CloserInv
  <2>3. ~Gone(c)
    BY <2>1, Zenon DEF Alive, Gone
  <2>4. CASE c \in active
    BY <1>1, <2>2, <2>3, <2>4, Zenon DEF Kept, IInv, SignalInv
  <2>5. CASE c \notin active
    BY <1>1, <2>1, <2>3, <2>5, Zenon DEF Kept, IInv, TypeOK, SignalInv, GroupInv, Owned, Ending, Alive, Gone,
       Labels,
       Looping, Pausing
  <2> QED
    BY <2>4, <2>5, Zenon
<1> QED
  BY Supervised, <1>1, PTL

\* What run() reports has happened (_one_attempt, run).
THEOREM TrueReports == Spec => []HonestResult
<1>1. IInv => HonestResult
  BY Zenon DEF Kept, IInv, HonestResult, ReportInv, SignalInv, Codes
<1> QED
  BY Supervised, <1>1, PTL

\* A retry follows only a transient exit code or a launch error, and never
\* comes back to life after a cancellation (RetryPolicy, run).
THEOREM RetriesBounded == Spec => [](RetriedOnlyTransient /\ NotRevived)
<1>1. IInv => RetriedOnlyTransient /\ NotRevived
  BY Zenon DEF Kept, IInv, RetriedOnlyTransient, NotRevived, RetryInv
<1> QED
  BY Supervised, <1>1, PTL
=============================================================================
