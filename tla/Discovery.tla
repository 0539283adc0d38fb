------------------------------ MODULE Discovery ------------------------------
(***************************************************************************)
(* rbit discover run: a resumable campaign of compiler cells               *)
(* (DiscoveryCampaignRunner.run in src/reprobit/discovery.py, under the    *)
(* wineserver lifecycle of src/reprobit/discovery_cli.py).  The session    *)
(* lock admits one campaign at a time; campaigns follow each other over    *)
(* the same cache and workspaces, may be killed at any step, and the       *)
(* installed compiler may change under them.                               *)
(***************************************************************************)
EXTENDS Integers, FiniteSets, FiniteSetsExt

CONSTANTS
    Cells,          \* the declaration states of the plan, in order
    Workers,        \* worker_count
    Functions,      \* cell -> the functions its object shows
    Limits,         \* the max_observed_functions of the plans
    MaxCampaigns,   \* bound: commands started
    MaxChanges      \* bound: changes of the installed compiler

ASSUME DiscoveryAssumption ==
    /\ Cells \subseteq Nat /\ IsFiniteSet(Cells) /\ Workers \in Nat \ {0}
    /\ Functions \in [Cells -> Nat] /\ Limits \subseteq Nat /\ MaxChanges \in Nat

Versions == {0, 1}
None == -1
Torn == -2    \* what a killed compiler leaves of an object

VARIABLES
    compiler,   \* the compiler installed now
    changes,    \* how often it changed
    foreign,    \* <<cell, compiler of the key>> compiled by another than the key's compiler
    records,    \* cell -> compiler of the key -> the compiler that made the object stored
    space,      \* cell -> compiler of the key -> the object in the cell's workspace
    server,     \* the wineserver of the private prefix: none, held, left
    campaigns,  \* commands started
    pc, pinned, \* the campaign, and the compiler it was keyed by
    limit,      \* the most functions its cells may show
    future,     \* cell -> what its future is doing
    used,       \* cell -> the object that was observed
    hit,        \* the cells restored from the cache
    done,       \* what wait() returned and is not handled yet
    products, observed, built, cached,
    cancelled,  \* the cancellation token
    verdict,    \* none, the first failure, or report
    lease,      \* the cache lease is open
    stopped,    \* no command to stop the server failed
    rushed      \* Ctrl-C ended the join of the threads

disk == <<records, space>>
campaign == <<future, used, hit, done, products, observed, built, cached, cancelled>>
env == <<compiler, changes, foreign, campaigns>>
vars == <<env, disk, server, pc, pinned, limit, campaign, verdict, lease, stopped,
          rushed>>

-----------------------------------------------------------------------------

NoFutures == [c \in Cells |-> "new"]
NoObjects == [c \in Cells |-> None]

Init ==
    /\ compiler = 0 /\ changes = 0 /\ foreign = {} /\ campaigns = 0
    /\ records = [c \in Cells |-> [v \in Versions |-> None]]
    /\ space = [c \in Cells |-> [v \in Versions |-> None]]
    /\ server = "none" /\ pc = "idle" /\ pinned = None /\ limit = 0
    /\ future = NoFutures /\ used = NoObjects /\ hit = {} /\ done = {}
    /\ products = {} /\ observed = 0 /\ built = 0 /\ cached = 0 /\ cancelled = FALSE
    /\ verdict = "none" /\ lease = FALSE /\ stopped = TRUE /\ rushed = FALSE

\* The command is over.
ToIdle ==
    /\ pc' = "idle" /\ pinned' = None /\ limit' = 0
    /\ future' = NoFutures /\ used' = NoObjects /\ hit' = {} /\ done' = {}
    /\ products' = {} /\ observed' = 0 /\ built' = 0 /\ cached' = 0 /\ cancelled' = FALSE
    /\ verdict' = "none" /\ lease' = FALSE /\ stopped' = TRUE /\ rushed' = FALSE

Pending == {c \in Cells : future[c] \notin {"new", "taken"}}
Active == {c \in Cells : future[c] \in {"cleared", "compiling", "made", "have"}}
Finished == {c \in Cells : future[c] \in {"ok", "error", "dropped"}}
Cancel(f) == [c \in Cells |-> IF f[c] = "queued" THEN "cancelled" ELSE f[c]]
Sum(S) == FoldSet(LAMBDA c, n : n + Functions[c], 0, S)

-----------------------------------------------------------------------------
(* The main thread *)

\* command_discover up to the runner: the toolchain is fingerprinted once.
Begin ==
    /\ pc = "idle" /\ campaigns < MaxCampaigns
    /\ campaigns' = campaigns + 1 /\ pinned' = compiler /\ limit' \in Limits /\ pc' = "preflight"
    /\ UNCHANGED <<compiler, changes, foreign, disk, server, campaign, verdict, lease, stopped,
                   rushed>>

\* wineserver -k, -w: what a killed campaign left in the prefix is stopped.
Preflight ==
    /\ pc = "preflight"
    /\ \/ server' = "none" /\ pc' = "hold" /\ UNCHANGED verdict
       \/ verdict' = "server" /\ pc' = "cleanup" /\ UNCHANGED server
    /\ UNCHANGED <<env, disk, pinned, limit, campaign, lease, stopped, rushed>>

\* hold_wine_prefix, then the cache lease; the server may not start, or run and
\* fail to initialise the prefix.
Hold ==
    /\ pc = "hold"
    /\ \/ server' = "held" /\ lease' = TRUE /\ pc' = "refill" /\ UNCHANGED verdict
       \/ verdict' = "server" /\ pc' = "cleanup" /\ UNCHANGED <<server, lease>>
       \/ server' = "held" /\ verdict' = "server" /\ pc' = "release" /\ UNCHANGED lease
    /\ UNCHANGED <<env, disk, pinned, limit, campaign, stopped, rushed>>

\* refill: cells are submitted in order up to twice the workers.
Refill ==
    LET new == {c \in Cells : future[c] = "new"}
        room == Workers * 2 - Cardinality(Pending)
        next == {c \in new : Cardinality({d \in new : d < c}) < room}
    IN /\ pc = "refill"
       /\ future' = [c \in Cells |-> IF c \in next THEN "queued" ELSE future[c]]
       /\ pc' = IF Pending \cup next = {} THEN "drain" ELSE "wait"
       /\ UNCHANGED <<env, disk, server, pinned, limit, used, hit, done, products, observed, built,
                      cached, cancelled, verdict, lease, stopped, rushed>>

Wait ==
    /\ pc = "wait" /\ Finished # {}
    /\ done' = Finished /\ pc' = "handle"
    /\ UNCHANGED <<env, disk, server, pinned, limit, future, used, hit, products, observed, built,
                   cached, cancelled, verdict, lease, stopped, rushed>>

\* The first failure is the campaign's, and cancels it.
Fails(why) ==
    /\ verdict' = IF verdict = "none" THEN why ELSE verdict
    /\ cancelled' = TRUE
    /\ UNCHANGED <<products, observed, built, cached>>

Fits(c, most) == observed + Functions[c] <= most

Takes(c) ==
    /\ products' = products \cup {c} /\ observed' = observed + Functions[c]
    /\ cached' = IF c \in hit THEN cached + 1 ELSE cached
    /\ built' = IF c \in hit THEN built ELSE built + 1
    /\ UNCHANGED <<verdict, cancelled>>

Skips == UNCHANGED <<verdict, cancelled, products, observed, built, cached>>

HandleUpTo(most) ==
    /\ pc = "handle"
    /\ LET c == Min(done) IN
       /\ done' = done \ {c} /\ future' = [future EXCEPT ![c] = "taken"]
       /\ \/ future[c] = "dropped" /\ Skips
          \/ future[c] = "error" /\ Fails("cell")
          \/ future[c] = "ok" /\ Fits(c, most) /\ Takes(c)
          \/ future[c] = "ok" /\ ~Fits(c, most) /\ Fails("limit")
    /\ pc' = IF done' = {} THEN "batch" ELSE "handle"
    /\ UNCHANGED <<env, disk, server, pinned, limit, used, hit, lease, stopped, rushed>>

\* Mutant: the campaign fails when it reaches the limit.
HandleEarly == HandleUpTo(limit - 1)

\* One finished future: cells beyond the limit end the campaign.
Handle == HandleUpTo(limit)

\* After a batch: cancel what has not started, or refill.
Batch ==
    /\ pc = "batch"
    /\ IF verdict = "none"
         THEN pc' = "refill" /\ UNCHANGED future
         ELSE future' = Cancel(future) /\ pc' = IF Pending = {} THEN "drain" ELSE "wait"
    /\ UNCHANGED <<env, disk, server, pinned, limit, used, hit, done, products, observed, built,
                   cached, cancelled, verdict, lease, stopped, rushed>>

\* A keyboard interrupt in the loop.
Interrupt ==
    /\ pc \in {"refill", "wait", "handle", "batch"}
    /\ verdict' = "interrupted" /\ cancelled' = TRUE /\ future' = Cancel(future)
    /\ pc' = "drain"
    /\ UNCHANGED <<env, disk, server, pinned, limit, used, hit, done, products, observed, built,
                   cached, lease, stopped, rushed>>

DrainWhen(drained) ==
    /\ pc = "drain" /\ drained
    /\ lease' = FALSE
    /\ pc' = IF verdict = "none" THEN "analyze" ELSE "release"
    /\ UNCHANGED <<env, disk, server, pinned, limit, campaign, verdict, stopped, rushed>>

\* Mutant: an interrupted campaign does not wait for its threads.
DrainEarly == DrainWhen(Pending = {} \/ verdict = "interrupted")

\* Leaving the pool joins its threads; leaving the lease closes it.
Drain == DrainWhen(Pending \subseteq Finished)

\* A keyboard interrupt in the join: lease and server are given up although
\* threads still work.
InterruptJoin ==
    /\ pc = "drain"
    /\ verdict' = "interrupted" /\ rushed' = TRUE
    /\ lease' = FALSE /\ pc' = "release"
    /\ UNCHANGED <<env, disk, server, pinned, limit, campaign, stopped>>

\* analyze() and proposal_artifacts() may refuse.
Analyze ==
    /\ pc = "analyze"
    /\ \/ pc' = "validate" /\ UNCHANGED verdict
       \/ pc' = "release" /\ verdict' = "analysis"
    /\ UNCHANGED <<env, disk, server, pinned, limit, campaign, lease, stopped, rushed>>

\* revalidate_compile_authority: the toolchain is fingerprinted again.
Validate ==
    /\ pc = "validate"
    /\ IF compiler = pinned THEN pc' = "publish" /\ UNCHANGED verdict
       ELSE pc' = "release" /\ verdict' = "authority"
    /\ UNCHANGED <<env, disk, server, pinned, limit, campaign, lease, stopped, rushed>>

\* Artifacts and report; the workspaces of a successful campaign are cleared.
Publish ==
    /\ pc = "publish" /\ pc' = "release"
    /\ \/ /\ verdict' = "report"
          /\ space' = [c \in Cells |-> [space[c] EXCEPT ![pinned] = None]]
       \/ verdict' = "artifacts" /\ UNCHANGED space
    /\ UNCHANGED <<env, records, server, pinned, limit, campaign, lease, stopped, rushed>>

\* A server that cannot be stopped fails a campaign that had succeeded.
Unstopped ==
    /\ stopped' = FALSE
    /\ verdict' = IF verdict = "report" THEN "server" ELSE verdict
    /\ UNCHANGED server

\* The finally clauses of hold_wine_prefix and of the lifecycle.
Stop(here, next) ==
    /\ pc = here /\ pc' = next
    /\ \/ server' = "none" /\ UNCHANGED <<verdict, stopped, rushed>>
       \/ Unstopped
    /\ UNCHANGED <<env, disk, pinned, limit, campaign, lease, rushed>>

Release == Stop("release", "cleanup")

Cleanup == Stop("cleanup", "finish")

\* What the compilers of killed or abandoned threads leave.
TornSpace ==
    [c \in Cells |-> IF future[c] = "compiling" THEN [space[c] EXCEPT ![pinned] = Torn]
                                                ELSE space[c]]

\* The session lock is free again.  Threads that an interrupted join left behind
\* have lost their compilers with the server, and their lease.
Finish ==
    /\ pc = "finish" /\ ToIdle
    /\ space' = TornSpace
    /\ UNCHANGED <<env, records, server>>

Main ==
    \/ Preflight \/ Hold \/ Refill \/ Wait \/ Handle \/ Batch \/ Drain
    \/ Analyze \/ Validate \/ Publish \/ Release \/ Cleanup \/ Finish

-----------------------------------------------------------------------------
(* execute() in a thread of the pool *)

Goes(c, s) == future' = [future EXCEPT ![c] = s]

quiet == <<compiler, changes, campaigns, server, pc, pinned, limit, done, products, observed,
           built, cached, cancelled, verdict, lease, stopped, rushed>>

StartWith(c, cleared) ==
    /\ future[c] = "queued" /\ Cardinality(Active) < Workers
    /\ IF cancelled THEN Goes(c, "error") /\ UNCHANGED space
       ELSE Goes(c, "cleared") /\ space' = [space EXCEPT ![c][pinned] = cleared]
    /\ UNCHANGED <<quiet, foreign, records, used, hit>>

\* Mutant: what an earlier campaign left in the workspace stays.
StartDirty(c) == StartWith(c, space[c][pinned])

\* An earlier campaign's files are cleared from the workspace.
Start(c) == StartWith(c, None)

\* A cancelled future is finished only when a thread takes it from the queue.
Drop(c) ==
    /\ future[c] = "cancelled" /\ Cardinality(Active) < Workers
    /\ Goes(c, "dropped")
    /\ UNCHANGED <<quiet, foreign, disk, used, hit>>

\* A cached cell is restored into the workspace; restoring may fail, and a
\* closed lease refuses.
Lookup(c) ==
    /\ future[c] = "cleared"
    /\ LET object == records[c][pinned] IN
       \/ lease /\ object = None /\ Goes(c, "compiling") /\ UNCHANGED <<space, used, hit>>
       \/ /\ lease /\ object # None /\ Goes(c, "have")
          /\ space' = [space EXCEPT ![c][pinned] = object]
          /\ used' = [used EXCEPT ![c] = object] /\ hit' = hit \cup {c}
       \/ (object # None \/ ~lease) /\ Goes(c, "error") /\ UNCHANGED <<space, used, hit>>
    /\ UNCHANGED <<quiet, foreign, records>>

\* The compiler installed now runs.  It may fail, leaving part of an object, or
\* succeed without one: then whatever is in the workspace counts as its object.
Compile(c) ==
    /\ future[c] = "compiling"
    /\ \/ /\ server = "held" /\ Goes(c, "made")
          /\ space' = [space EXCEPT ![c][pinned] = compiler]
          /\ foreign' = IF compiler = pinned THEN foreign ELSE foreign \cup {<<c, pinned>>}
       \/ /\ Goes(c, "error") /\ \E o \in {None, Torn} : space' = [space EXCEPT ![c][pinned] = o]
          /\ UNCHANGED foreign
       \/ /\ Goes(c, IF space[c][pinned] = None THEN "error" ELSE "made")
          /\ UNCHANGED <<space, foreign>>
    /\ UNCHANGED <<quiet, records, used, hit>>

\* lease.store publishes the cell under the pinned key; a closed lease refuses.
Store(c) ==
    /\ future[c] = "made"
    /\ \/ /\ lease /\ Goes(c, "have")
          /\ records' = [records EXCEPT ![c][pinned] = space[c][pinned]]
          /\ used' = [used EXCEPT ![c] = space[c][pinned]]
       \/ Goes(c, "error") /\ UNCHANGED <<records, used>>
    /\ UNCHANGED <<quiet, foreign, space, hit>>

\* The observation is looked up, or made and stored; both may fail.
Observe(c) ==
    /\ future[c] = "have"
    /\ (lease /\ Goes(c, "ok")) \/ Goes(c, "error")
    /\ UNCHANGED <<quiet, foreign, disk, used, hit>>

Thread(c) ==
    Start(c) \/ Drop(c) \/ Lookup(c) \/ Compile(c) \/ Store(c) \/ Observe(c)

-----------------------------------------------------------------------------
(* The environment *)

\* The command is killed: compilers leave what they wrote, the server stays.
Crash ==
    /\ pc # "idle"
    /\ space' = TornSpace
    /\ server' = IF server = "held" THEN "left" ELSE server
    /\ ToIdle
    /\ UNCHANGED <<env, records>>

\* The other compiler is installed.
Change ==
    /\ changes < MaxChanges /\ changes' = changes + 1
    /\ compiler' = 1 - compiler
    /\ UNCHANGED <<foreign, campaigns, disk, server, pc, pinned, limit, campaign, verdict, lease, stopped, rushed>>

Next ==
    \/ Begin \/ Main \/ Interrupt \/ InterruptJoin \/ Crash \/ Change
    \/ \E c \in Cells : Thread(c)

Spec == Init /\ [][Next]_vars

-----------------------------------------------------------------------------
(* Properties *)

\* While a thread works on a cell the lease that protects the cell's record is
\* open and the wineserver its compiler attaches to is held: also after a
\* failure, a cancellation and an interrupt of the loop.  The one exception is a
\* Ctrl-C while the threads are joined.  A campaign that ends has stopped its
\* server, whatever it ended with; only a stop that failed leaves one, and that
\* is never reported as a success.
Covered ==
    /\ Active # {} /\ ~rushed => lease /\ server = "held"
    /\ pc = "finish" /\ server # "none" => ~stopped /\ verdict # "report"

\* The limit refuses exactly the campaigns whose cells show too much together:
\* which cell crosses it depends on timing, whether one does never.  A report
\* covers every cell of the plan, each built or reused once: crossing the limit
\* stops the campaign instead of silently dropping functions.
LimitExact ==
    /\ verdict = "limit" => Sum(Cells) > limit
    /\ verdict = "report" =>
         /\ products = Cells /\ built + cached = Cardinality(Cells)
         /\ observed = Sum(Cells) /\ observed <= limit

\* The compilers that were installed, replaced and installed again.
Back == {v \in Versions : changes >= 2 + v}

\* A report rests on objects made by the compiler it names: nothing a killed or
\* interrupted campaign left in a workspace gets into it, and no compiler that
\* was installed meanwhile, as long as the named one does not come back.  When
\* it does, only the cells compiled in between are not its own: the check at the
\* end compares the compiler with the one at the beginning, and a campaign that
\* fails it leaves its cells in the cache.
ReportGenuine ==
    verdict = "report" =>
      \A c \in Cells : used[c] = pinned \/ (pinned \in Back /\ <<c, pinned>> \in foreign)

=============================================================================
