----------------------------- MODULE Supervisor -----------------------------
(***************************************************************************)
(* ProcessSupervisor of src/reprobit/process.py on POSIX.  Each thread     *)
(* runs one command: a child process that leads a process group, which may *)
(* leave helpers behind in that group.  The thread watches for the         *)
(* cancellation of the shared token, for too much output, for the deadline *)
(* and for the end of the leader, ends the whole group when it has to, and *)
(* may try once more.  Other threads call cancel_all() and close().        *)
(*                                                                         *)
(* Time is a choice: a deadline or a grace period may end at any moment.   *)
(* SIGTERM may be handled or ignored; SIGKILL ends a process within the    *)
(* grace period unless it is stuck in the kernel.  Process ids are not     *)
(* reused and helpers do not leave their group.                            *)
(***************************************************************************)
EXTENDS Naturals, FiniteSets

CONSTANTS Commands,     \* one run() each, in a thread of its own
          MaxAttempts,  \* RetryPolicy.max_attempts of each command
          RetryLaunch,  \* RetryPolicy.retry_launch_errors of each command
          MaxFaults, MaxStuck, MaxSweeps   \* bounds

ASSUME SupervisorAssumption ==
  /\ MaxAttempts \in [Commands -> 1..2] /\ RetryLaunch \in [Commands -> BOOLEAN]
  /\ \A c \in Commands : RetryLaunch[c] => MaxAttempts[c] = 2
  /\ MaxFaults \in Nat /\ MaxStuck \in Nat /\ MaxSweeps \in Nat

VARIABLES
  \* the process group of each command's current attempt
  leader,     \* "none", "running", "exited" (a zombie) or "reaped"
  code,       \* how it ended: "ok", "transient", "fatal" or "signal"
  helper,     \* does a helper run in the group
  signalled,  \* the strongest signal sent to the group
  stuck,      \* groups that SIGKILL does not end
  over,       \* has the group written more than the output limit
  \* its thread
  pc, attempt,
  late,       \* the deadline has passed
  tired,      \* the grace period that is being waited for has passed
  why,        \* what terminate_and_drain was called for
  leaked,     \* what drain_after_leader_exit returned
  outcome,    \* how the attempt ended
  result,     \* how run() ended
  \* the supervisor, the token, and the threads that call cancel_all and close
  closed, cancelled, active,
  closer, sweeper,   \* [at, force, targets]
  \* history that only properties read, and counters of bounded actions
  first, revival, used

groupVars == <<leader, code, helper, signalled, stuck, over>>
waitVars == <<late, tired, why, leaked>>
threadVars == <<pc, attempt, waitVars, outcome, result>>
sharedVars == <<closed, cancelled, active, closer, sweeper>>
histVars == <<first, revival, used>>
vars == <<groupVars, threadVars, sharedVars, histVars>>

Codes == {"ok", "transient", "fatal"}
Idle == [at |-> "idle", force |-> FALSE, targets |-> {}]

Init ==
  /\ leader = [c \in Commands |-> "none"] /\ code = [c \in Commands |-> "none"]
  /\ helper = [c \in Commands |-> FALSE] /\ signalled = [c \in Commands |-> "none"]
  /\ stuck = {} /\ over = [c \in Commands |-> FALSE]
  /\ pc = [c \in Commands |-> "check"] /\ attempt = [c \in Commands |-> 1]
  /\ late = [c \in Commands |-> FALSE] /\ tired = [c \in Commands |-> FALSE]
  /\ why = [c \in Commands |-> "none"] /\ leaked = [c \in Commands |-> FALSE]
  /\ outcome = [c \in Commands |-> "none"] /\ result = [c \in Commands |-> "none"]
  /\ closed = FALSE /\ cancelled = FALSE /\ active = {}
  /\ closer = Idle /\ sweeper = Idle
  /\ first = [c \in Commands |-> "none"] /\ revival = [c \in Commands |-> "none"]
  /\ used = [faults |-> 0, sweeps |-> 0]

Set(f, c, value) == [f EXCEPT ![c] = value]
Goto(c, label) == pc' = [pc EXCEPT ![c] = label]
Fault == used.faults < MaxFaults /\ used' = [used EXCEPT !.faults = @ + 1]

\* Does a process of the group run.
Alive(c) == leader[c] = "running" \/ helper[c]

-----------------------------------------------------------------------------
(* The processes of a command *)

\* The leader exits, on its own account or in answer to SIGTERM.
Exit(c) ==
  /\ leader[c] = "running" /\ c \notin stuck /\ signalled[c] # "kill"
  /\ leader' = Set(leader, c, "exited")
  /\ \E k \in Codes : code' = Set(code, c, k)
  /\ UNCHANGED <<helper, signalled, stuck, over, threadVars, sharedVars, histVars>>

LeaderDies(c) ==
  /\ leader[c] = "running" /\ c \notin stuck /\ signalled[c] # "none"
  /\ leader' = Set(leader, c, "exited")
  /\ code' = Set(code, c, "signal")
  /\ UNCHANGED <<helper, signalled, stuck, over, threadVars, sharedVars, histVars>>

Fork(c) ==
  /\ leader[c] = "running" /\ c \notin stuck /\ signalled[c] # "kill" /\ ~helper[c]
  /\ helper' = Set(helper, c, TRUE)
  /\ UNCHANGED <<leader, code, signalled, stuck, over, threadVars, sharedVars, histVars>>

HelperEnds(c) ==
  /\ helper[c] /\ c \notin stuck
  /\ helper' = Set(helper, c, FALSE)
  /\ UNCHANGED <<leader, code, signalled, stuck, over, threadVars, sharedVars, histVars>>

Write(c) ==
  /\ Alive(c) /\ ~over[c]
  /\ over' = Set(over, c, TRUE)
  /\ UNCHANGED <<leader, code, helper, signalled, stuck, threadVars, sharedVars, histVars>>

Stick(c) ==
  /\ Alive(c) /\ Cardinality(stuck) < MaxStuck /\ c \notin stuck
  /\ stuck' = stuck \cup {c}
  /\ UNCHANGED <<leader, code, helper, signalled, over, threadVars, sharedVars, histVars>>

\* Where the thread looks at the deadline, and where it waits for a grace
\* period to end.
Looping == {"cancel?", "output?", "deadline?", "exit?"}
Waiting == {"drain1", "drain2", "wait1", "wait2", "wait3", "wait4"}

\* Time passes.
Expire(c) ==
  /\ pc[c] \in Looping /\ ~late[c]
  /\ late' = Set(late, c, TRUE)
  /\ UNCHANGED <<groupVars, pc, attempt, tired, why, leaked, outcome, result, sharedVars, histVars>>

Tire(c) ==
  /\ pc[c] \in Waiting \/ (pc[c] \in Looping /\ leader[c] = "reaped")
  /\ ~tired[c]
  /\ tired' = Set(tired, c, TRUE)
  /\ UNCHANGED <<groupVars, pc, attempt, late, why, leaked, outcome, result, sharedVars, histVars>>

\* _OwnedChild.signal: os.killpg; a group that is gone is no error.
Strongest(c, force) ==
  IF leader[c] \notin {"running", "exited"} /\ ~helper[c] THEN signalled[c]
  ELSE IF force \/ signalled[c] = "kill" THEN "kill" ELSE "term"

-----------------------------------------------------------------------------
(* run() and _spawn *)

\* token.raise_if_cancelled, in run() and again in _one_attempt.
RunCheck(c) ==
  /\ pc[c] = "check"
  /\ \/ /\ cancelled
        /\ result' = Set(result, c, "cancelled")
        /\ Goto(c, "done")
     \/ /\ ~cancelled
        /\ Goto(c, "spawn")
        /\ UNCHANGED result
  /\ UNCHANGED <<groupVars, attempt, waitVars, outcome, sharedVars, histVars>>

SpawnCheck(c) ==
  /\ pc[c] = "spawn"
  /\ \/ /\ closed
        /\ result' = Set(result, c, "closed")
        /\ Goto(c, "done")
     \/ /\ ~closed
        /\ Goto(c, "launch")
        /\ UNCHANGED result
  /\ UNCHANGED <<groupVars, attempt, waitVars, outcome, sharedVars, histVars>>

\* subprocess.Popen, outside the supervisor's lock.
Launch(c) ==
  /\ pc[c] = "launch"
  /\ leader' = Set(leader, c, "running") /\ code' = Set(code, c, "none")
  /\ helper' = Set(helper, c, FALSE) /\ signalled' = Set(signalled, c, "none")
  /\ over' = Set(over, c, FALSE)
  /\ late' = Set(late, c, FALSE) /\ tired' = Set(tired, c, FALSE)
  /\ why' = Set(why, c, "none") /\ leaked' = Set(leaked, c, FALSE)
  /\ outcome' = Set(outcome, c, "none")
  /\ revival' = Set(revival, c, IF revival[c] = "due" THEN "made" ELSE revival[c])
  /\ Goto(c, "launched")
  /\ UNCHANGED <<stuck, attempt, result, sharedVars, first, used>>

LaunchFails(c) ==
  /\ pc[c] = "launch" /\ Fault
  /\ outcome' = Set(outcome, c, "launch")
  /\ Goto(c, "ended")
  /\ UNCHANGED <<groupVars, attempt, waitVars, result, sharedVars, first, revival>>

\* Under the lock: the child is registered, or, if close() came in between,
\* ended by this thread.
RegisterIf(c, refused) ==
  /\ pc[c] = "launched"
  /\ \/ /\ refused
        /\ why' = Set(why, c, "closed") /\ outcome' = Set(outcome, c, "closed")
        /\ Goto(c, "term")
        /\ UNCHANGED active
     \/ /\ ~refused
        /\ active' = active \cup {c}
        /\ Goto(c, "cancel?")
        /\ UNCHANGED <<why, outcome>>
  /\ UNCHANGED <<groupVars, attempt, late, tired, leaked, result, closed, cancelled, closer,
                 sweeper, histVars>>

\* Mutant: _closed is not read again after the launch.
RegisterAnyway(c) == RegisterIf(c, FALSE)

Register(c) == RegisterIf(c, closed)

-----------------------------------------------------------------------------
(* The loop of _one_attempt *)

\* terminate_and_drain is called for a reason.
Terminate(c, reason) ==
  /\ why' = Set(why, c, reason)
  /\ Goto(c, "term")

Watch(c, label, broken, reason, next) ==
  /\ pc[c] = label
  /\ \/ broken /\ Terminate(c, reason)
     \/ ~broken /\ Goto(c, next) /\ UNCHANGED why
  /\ UNCHANGED <<groupVars, attempt, late, tired, leaked, outcome, result, sharedVars, histVars>>

WatchToken(c) == Watch(c, "cancel?", cancelled, "cancelled", "output?")
WatchOutput(c) == Watch(c, "output?", over[c], "limit", "deadline?")

\* Mutant: the deadline counts only once the leader has exited.
WatchDeadlineLate(c) ==
  Watch(c, "deadline?", late[c] /\ leader[c] # "running", "timeout", "exit?")

WatchDeadline(c) == Watch(c, "deadline?", late[c], "timeout", "exit?")

\* poll() reaps the leader; helpers get the grace period, counted from here.
WatchExit(c) ==
  /\ pc[c] = "exit?"
  /\ \/ /\ leader[c] = "running"
        /\ Goto(c, "cancel?")
        /\ UNCHANGED <<leader, tired>>
     \/ /\ leader[c] # "running" /\ ~helper[c]
        /\ leader' = Set(leader, c, "reaped")
        /\ Goto(c, "drain")
        /\ UNCHANGED tired
     \/ /\ leader[c] = "exited" /\ helper[c]
        /\ leader' = Set(leader, c, "reaped")
        /\ tired' = Set(tired, c, FALSE)
        /\ Goto(c, "cancel?")
     \/ /\ leader[c] = "reaped" /\ helper[c]
        /\ Goto(c, IF tired[c] THEN "drain" ELSE "cancel?")
        /\ UNCHANGED <<leader, tired>>
  /\ UNCHANGED <<code, helper, signalled, stuck, over, attempt, late, why, leaked, outcome,
                 result, sharedVars, histVars>>

\* KeyboardInterrupt, or any other exception, at any moment after the launch.
\* In the loop, also while it ends the group, it goes to the handler.  While
\* the handler or _spawn ends the group there is no second attempt to end it,
\* and before _one_attempt has the child there is none at all: the exception
\* leaves the attempt ("cut") with whatever runs.
Ending == {"term", "wait1", "wait2", "wait3", "wait4"}
LastHands(c) == pc[c] = "handler" \/ (pc[c] \in Ending /\ why[c] \in {"handler", "closed"})

Interrupt(c) ==
  /\ Fault
  /\ \/ /\ \/ pc[c] \in Looping \cup {"drain", "drain1", "drain2", "read", "log"}
           \/ pc[c] \in Ending /\ ~LastHands(c)
        /\ outcome' = Set(outcome, c, "error")
        /\ Goto(c, "handler")
        /\ UNCHANGED active
     \/ /\ LastHands(c)
        /\ outcome' = Set(outcome, c, "cut")
        /\ Goto(c, "forget")
        /\ UNCHANGED active
     \/ /\ pc[c] = "launched"
        /\ outcome' = Set(outcome, c, "cut")
        /\ Goto(c, "ended")
        /\ active' \in {active, IF closed THEN active ELSE active \cup {c}}
  /\ UNCHANGED <<groupVars, attempt, waitVars, result, closed, cancelled, closer, sweeper,
                 first, revival>>

-----------------------------------------------------------------------------
(* Ending a group *)

\* A signal to the group, after which the thread waits at a label.
Kill(c, force, label) ==
  /\ signalled' = Set(signalled, c, Strongest(c, force))
  /\ tired' = Set(tired, c, FALSE)
  /\ Goto(c, label)

\* drain_after_leader_exit: what is left of the group leaked.
Drain(c) ==
  /\ \/ /\ pc[c] = "drain" /\ ~helper[c]
        /\ Goto(c, "read")
        /\ UNCHANGED <<signalled, tired, leaked, outcome>>
     \/ /\ pc[c] = "drain" /\ helper[c]
        /\ Kill(c, FALSE, "drain1")
        /\ UNCHANGED <<leaked, outcome>>
     \/ /\ pc[c] \in {"drain1", "drain2"} /\ ~helper[c]
        /\ leaked' = Set(leaked, c, TRUE)
        /\ Goto(c, "read")
        /\ UNCHANGED <<signalled, tired, outcome>>
     \/ /\ pc[c] = "drain1" /\ helper[c] /\ tired[c]
        /\ Kill(c, TRUE, "drain2")
        /\ UNCHANGED <<leaked, outcome>>
     \/ /\ pc[c] = "drain2" /\ helper[c] /\ tired[c] /\ c \in stuck
        /\ outcome' = Set(outcome, c, "undrained")
        /\ Goto(c, "handler")
        /\ UNCHANGED <<signalled, tired, leaked>>
  /\ UNCHANGED <<leader, code, helper, stuck, over, attempt, late, why, result, sharedVars,
                 histVars>>

\* terminate_and_drain, the leader: SIGTERM, the grace period, SIGKILL.
TermLeader(c) ==
  /\ \/ /\ pc[c] = "term"
        /\ Kill(c, FALSE, "wait1")
        /\ UNCHANGED <<leader, outcome>>
     \/ /\ pc[c] \in {"wait1", "wait2"} /\ leader[c] # "running"
        /\ leader' = Set(leader, c, "reaped")
        /\ tired' = Set(tired, c, FALSE)
        /\ Goto(c, "wait3")
        /\ UNCHANGED <<signalled, outcome>>
     \/ /\ pc[c] = "wait1" /\ leader[c] = "running" /\ tired[c]
        /\ Kill(c, TRUE, "wait2")
        /\ UNCHANGED <<leader, outcome>>
     \/ /\ pc[c] = "wait2" /\ leader[c] = "running" /\ tired[c] /\ c \in stuck
        /\ outcome' = IF why[c] \in {"handler", "closed"} THEN outcome
                      ELSE Set(outcome, c, "undrained")
        /\ Goto(c, IF why[c] \in {"handler", "closed"} THEN "forget" ELSE "handler")
        /\ UNCHANGED <<leader, signalled, tired>>
  /\ UNCHANGED <<code, helper, stuck, over, attempt, late, why, leaked, result, sharedVars,
                 histVars>>

\* terminate_and_drain, the rest of the group: the grace period, SIGKILL.  It
\* returns to its caller: the loop, the exception handler or _spawn.
TermGroupIf(c, gone) ==
  /\ \/ /\ pc[c] \in {"wait3", "wait4"} /\ gone
        /\ outcome' = IF why[c] \in {"handler", "closed"} THEN outcome
                      ELSE Set(outcome, c, why[c])
        /\ Goto(c, IF why[c] \in {"handler", "closed"} THEN "forget" ELSE "log")
        /\ UNCHANGED <<signalled, tired>>
     \/ /\ pc[c] = "wait3" /\ ~gone /\ tired[c]
        /\ Kill(c, TRUE, "wait4")
        /\ UNCHANGED outcome
     \/ /\ pc[c] = "wait4" /\ ~gone /\ tired[c] /\ c \in stuck
        /\ outcome' = IF why[c] \in {"handler", "closed"} THEN outcome
                      ELSE Set(outcome, c, "undrained")
        /\ Goto(c, IF why[c] \in {"handler", "closed"} THEN "forget" ELSE "handler")
        /\ UNCHANGED <<signalled, tired>>
  /\ UNCHANGED <<leader, code, helper, stuck, over, attempt, late, why, leaked, result,
                 sharedVars, histVars>>

\* Mutant: the group is taken to be gone when its leader is.
TermGroupBlind(c) == TermGroupIf(c, TRUE)

TermGroup(c) == TermGroupIf(c, ~helper[c])

-----------------------------------------------------------------------------
(* The end of an attempt *)

\* After the group is empty the output is complete; the log is written, and
\* then the limit, a leak or the exit code decides.
ReadIf(c, checksLeak) ==
  /\ pc[c] = "read"
  /\ outcome' = Set(outcome, c, IF over[c] THEN "limit"
                                ELSE IF leaked[c] /\ checksLeak THEN "leak" ELSE code[c])
  /\ Goto(c, IF over[c] \/ (leaked[c] /\ checksLeak) THEN "handler" ELSE "forget")
  /\ UNCHANGED <<groupVars, attempt, waitVars, result, sharedVars, histVars>>

\* Mutant: helpers that had to be ended are not reported.
ReadLenient(c) == ReadIf(c, FALSE)

Read(c) == ReadIf(c, TRUE)

\* The log of a group that was ended; then the exception is raised.
Log(c) ==
  /\ pc[c] = "log"
  /\ Goto(c, "handler")
  /\ UNCHANGED <<groupVars, attempt, waitVars, outcome, result, sharedVars, histVars>>

\* except BaseException: a group that may still run is ended.
Handler(c) ==
  /\ pc[c] = "handler"
  /\ leader' = Set(leader, c, IF leader[c] = "exited" THEN "reaped" ELSE leader[c])
  /\ IF Alive(c) THEN Terminate(c, "handler") ELSE Goto(c, "forget") /\ UNCHANGED why
  /\ UNCHANGED <<code, helper, signalled, stuck, over, attempt, late, tired, leaked, outcome,
                 result, sharedVars, histVars>>

Forget(c) ==
  /\ pc[c] = "forget"
  /\ active' = active \ {c}
  /\ Goto(c, "ended")
  /\ UNCHANGED <<groupVars, attempt, waitVars, outcome, result, closed, cancelled, closer,
                 sweeper, histVars>>

\* RetryPolicy.permits, and the launch errors that run() retries.
Permits(c) ==
  /\ attempt[c] < MaxAttempts[c]
  /\ outcome[c] = "transient" \/ (outcome[c] = "launch" /\ RetryLaunch[c])

\* run(): another attempt, or the result.
RunEnd(c) ==
  /\ pc[c] = "ended"
  /\ first' = IF attempt[c] = 1 THEN Set(first, c, outcome[c]) ELSE first
  /\ IF Permits(c)
       THEN /\ attempt' = [attempt EXCEPT ![c] = @ + 1]
            /\ Goto(c, "check")
            /\ revival' = Set(revival, c, IF cancelled THEN "due" ELSE revival[c])
            /\ UNCHANGED result
       ELSE /\ result' = Set(result, c, outcome[c])
            /\ Goto(c, "done")
            /\ UNCHANGED <<attempt, revival>>
  /\ UNCHANGED <<groupVars, waitVars, outcome, sharedVars, used>>

-----------------------------------------------------------------------------
(* Cancellation, cancel_all and close *)

Cancel ==
  /\ ~cancelled /\ cancelled' = TRUE
  /\ UNCHANGED <<groupVars, threadVars, closed, active, closer, sweeper, histVars>>

\* The children are listed under the lock and signalled without it.
Listed == {<<c, attempt[c]>> : c \in active}

\* A signal to a listed child; its group may be gone, and the command may be
\* at its next attempt, by now.
Deliver(target, force) ==
  LET c == target[1]
  IN  signalled' = IF attempt[c] = target[2] THEN Set(signalled, c, Strongest(c, force))
                   ELSE signalled

\* Callers cancel the token first.  The interpreter calls it by force at exit,
\* when no thread is in run() any more, unless close() has unregistered it.
Sweep ==
  /\ \/ /\ sweeper.at = "idle" /\ used.sweeps < MaxSweeps
        /\ used' = [used EXCEPT !.sweeps = @ + 1]
        /\ \E force \in BOOLEAN :
             /\ IF force THEN ~closed /\ \A c \in Commands : pc[c] = "done" ELSE cancelled
             /\ sweeper' = [at |-> "signalling", force |-> force, targets |-> Listed]
        /\ UNCHANGED signalled
     \/ /\ sweeper.at = "signalling"
        /\ \E t \in sweeper.targets :
             /\ Deliver(t, sweeper.force)
             /\ sweeper' = [sweeper EXCEPT !.targets = @ \ {t}]
        /\ UNCHANGED used
     \/ /\ sweeper.at = "signalling" /\ sweeper.targets = {}
        /\ sweeper' = Idle
        /\ UNCHANGED <<signalled, used>>
  /\ UNCHANGED <<leader, code, helper, stuck, over, threadVars, closed, cancelled, active,
                 closer, first, revival>>

CloseBegin ==
  /\ ~closed
  /\ closed' = TRUE
  /\ closer' = [at |-> "signalling", force |-> FALSE, targets |-> Listed]
  /\ UNCHANGED <<groupVars, threadVars, cancelled, active, sweeper, histVars>>

CloseStep ==
  /\ closer.at = "signalling"
  /\ \/ /\ \E t \in closer.targets :
             /\ Deliver(t, FALSE)
             /\ closer' = [closer EXCEPT !.targets = @ \ {t}]
     \/ /\ closer.targets = {}
        /\ closer' = [closer EXCEPT !.at = "done"]
        /\ UNCHANGED signalled
  /\ UNCHANGED <<leader, code, helper, stuck, over, threadVars, closed, cancelled, active,
                 sweeper, histVars>>

-----------------------------------------------------------------------------

Thread(c) ==
  \/ RunCheck(c) \/ SpawnCheck(c) \/ Launch(c) \/ LaunchFails(c) \/ Register(c)
  \/ WatchToken(c) \/ WatchOutput(c) \/ WatchDeadline(c) \/ WatchExit(c)
  \/ Drain(c) \/ TermLeader(c) \/ TermGroup(c) \/ Read(c) \/ Log(c) \/ Handler(c)
  \/ Forget(c) \/ RunEnd(c)

Group(c) == Exit(c) \/ LeaderDies(c) \/ Fork(c) \/ HelperEnds(c) \/ Write(c) \/ Stick(c)

Next ==
  \/ \E c \in Commands : Thread(c) \/ Interrupt(c) \/ Group(c) \/ Expire(c) \/ Tire(c)
  \/ Cancel \/ Sweep \/ CloseBegin \/ CloseStep

Spec == Init /\ [][Next]_vars

\* Threads are scheduled, time passes, SIGKILL ends what is not stuck.  A
\* command need neither exit nor obey SIGTERM.
FairSpec ==
  /\ Spec
  /\ \A c \in Commands :
       /\ WF_vars(Thread(c)) /\ WF_vars(Expire(c)) /\ WF_vars(Tire(c))
       /\ WF_vars(signalled[c] = "kill" /\ LeaderDies(c))
       /\ WF_vars(signalled[c] = "kill" /\ HelperEnds(c))
  /\ WF_vars(CloseStep)

-----------------------------------------------------------------------------
(* Properties *)

Labels == {"check", "spawn", "launch", "launched", "cancel?", "output?", "deadline?", "exit?",
           "drain", "drain1", "drain2", "term", "wait1", "wait2", "wait3", "wait4", "read",
           "log", "handler", "forget", "ended", "done"}
Endings == Codes \cup {"none", "signal", "launch", "cancelled", "limit", "timeout", "leak",
                       "closed", "undrained", "error", "cut"}

\* The types of the variables.
TypeOK ==
  /\ leader \in [Commands -> {"none", "running", "exited", "reaped"}]
  /\ code \in [Commands -> Codes \cup {"none", "signal"}]
  /\ helper \in [Commands -> BOOLEAN] /\ over \in [Commands -> BOOLEAN]
  /\ signalled \in [Commands -> {"none", "term", "kill"}]
  /\ stuck \in SUBSET Commands /\ active \in SUBSET Commands
  /\ pc \in [Commands -> Labels] /\ attempt \in [Commands -> 1..2]
  /\ late \in [Commands -> BOOLEAN] /\ tired \in [Commands -> BOOLEAN]
  /\ why \in [Commands -> {"none", "cancelled", "limit", "timeout", "handler", "closed"}]
  /\ leaked \in [Commands -> BOOLEAN]
  /\ outcome \in [Commands -> Endings] /\ result \in [Commands -> Endings]
  /\ closed \in BOOLEAN /\ cancelled \in BOOLEAN
  /\ \A x \in {closer, sweeper} :
       /\ x.at \in {"idle", "signalling", "done"} /\ x.force \in BOOLEAN
       /\ x.targets \subseteq Commands \X (1..2)
  /\ first \in [Commands -> Endings] /\ revival \in [Commands -> {"none", "due", "made"}]

\* Between its registration and _forget() the thread answers for the child.
Owned(c) ==
  \/ pc[c] \in Looping \cup {"drain", "drain1", "drain2", "read", "log", "handler"}
  \/ pc[c] \in Ending \cup {"forget"} /\ why[c] # "closed"

\* When run() is between two attempts or over, the leader has been reaped and
\* nothing of its group runs, whatever ended the attempt: success, failure,
\* timeout, limit, cancellation, close() or an exception in the loop.  A group
\* may be left only if it is stuck, and then the caller got an error of the
\* supervisor, or if an exception came while the handler or _spawn was ending
\* it or before _one_attempt had it, and then the caller got an exception.
NothingLeft ==
  \A c \in Commands : pc[c] \in {"forget", "ended", "check", "spawn", "launch", "done"} =>
    \/ leader[c] \in {"none", "reaped"} /\ ~helper[c]
    \/ c \in stuck /\ outcome[c] \in {"undrained", "closed", "error"}
    \/ outcome[c] = "cut" /\ pc[c] \in {"forget", "ended", "done"}

\* cancel_all() reaches every group that runs: it is registered, unless its
\* thread is about to register it or is already ending it for close(), or has
\* given it up because it is stuck or because of an exception at the wrong
\* moment (see NothingLeft).
Tracked ==
  \A c \in Commands : Alive(c) =>
    \/ c \in active /\ Owned(c)
    \/ pc[c] = "launched"
    \/ pc[c] \in Ending /\ why[c] = "closed"
    \/ c \in stuck \/ outcome[c] = "cut"

\* Once close() has returned, every group that still runs has had a signal, or
\* its thread, whose launch overlapped close(), is about to end it, unless an
\* exception made the thread forget it before (see NothingLeft).
CloseReachesAll ==
  closer.at = "done" =>
    \A c \in Commands : Alive(c) /\ c \notin stuck /\ outcome[c] # "cut" =>
      signalled[c] # "none" \/ pc[c] \in {"launched", "term"}

\* What run() reports has happened: a success is an exit with code 0 of a
\* leader whose helpers had ended by themselves, within the output limit; each
\* other report has its cause.
HonestResult ==
  \A c \in Commands :
    /\ result[c] \in Codes \cup {"signal"} => code[c] = result[c] /\ ~leaked[c] /\ ~over[c]
    /\ result[c] = "cancelled" => cancelled
    /\ result[c] = "timeout" => late[c]
    /\ result[c] = "limit" => over[c]
    /\ result[c] = "leak" => leaked[c] /\ signalled[c] # "none"
    /\ result[c] = "closed" => closed
    /\ result[c] = "undrained" => c \in stuck

\* There is a second attempt only after an exit code that the policy names or
\* a launch error: never after a timeout, a cancellation or a leak.
RetriedOnlyTransient ==
  \A c \in Commands : attempt[c] = 2 => first[c] \in {"transient", "launch"}

\* A command whose attempt ends after the cancellation, even with an exit code
\* that the policy names or with a launch error, is not launched again.
NotRevived == \A c \in Commands : revival[c] # "made"

\* Every run() ends, whatever the processes do and however they react to
\* SIGTERM, with close() and cancel_all() at any moment.
Ends == \A c \in Commands : <>(pc[c] = "done")
=============================================================================
