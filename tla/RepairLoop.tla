----------------------------- MODULE RepairLoop -----------------------------
(***************************************************************************)
(* The bounded search of rbit repair (src/reprobit/repair_workflow.py).    *)
(* repair_classic_records analyses the staged project and lets its stages  *)
(* try, in a fixed order, to adjust the saved guidance; the first that     *)
(* does starts the next pass.  execute_repair_attempt then verifies from   *)
(* scratch, and as long as only the link layout is wrong it starts another *)
(* such session with what is left of the budgets.                          *)
(*                                                                         *)
(* What the compiler makes of a source is open: every analysis and every   *)
(* search may come out in any way, and may use any part of its budget.     *)
(***************************************************************************)
EXTENDS Naturals, FiniteSets

CONSTANTS Ids,            \* what else the saved guidance may say
          MaxFuncs,       \* bound: function records in it
          Groups,         \* donors that may be retuned
          RoundLimit,     \* --adjustment-rounds
          CandidateLimit  \* --candidate-limit

ASSUME RepairAssumption ==
  /\ MaxFuncs \in Nat
  /\ RoundLimit \in Nat \ {0} /\ CandidateLimit \in Nat \ {0}

VARIABLES
  pc, why,
  guidance,   \* the saved guidance: id, and the number of function records
  found,      \* what the last analysis said, and of which guidance
  donor,      \* the donor search of this pass
  \* RepairSessionState, and what the options of the session allow
  passes, rounds, compiled, seen, initial, exhausted, retunes,
  roundLimit, candidateLimit,
  total,      \* candidates and rounds of the earlier sessions
  again,      \* is this a session after a failed verification
  \* history that only properties read
  retires,    \* passes of this session that used up no round
  added       \* function records this session has added

sessionVars == <<passes, rounds, compiled, seen, initial, exhausted, retunes, retires, added>>
limitVars == <<roundLimit, candidateLimit, total, again>>
vars == <<pc, why, guidance, found, donor, sessionVars, limitVars>>

Guidance == [id : Ids, funcs : 0..MaxFuncs]
NoDonor == [active |-> {}, excluded |-> {}, tried |-> {}, fallback |-> FALSE, carriers |-> FALSE]

Init ==
  /\ pc = "begin" /\ why = "running"
  /\ guidance \in Guidance
  /\ found = [of |-> guidance, measured |-> FALSE, completed |-> FALSE, ledger |-> FALSE]
  /\ donor = NoDonor
  /\ passes = 0 /\ rounds = 0 /\ compiled = 0 /\ seen = {} /\ initial = 0
  /\ exhausted = {} /\ retunes = 0 /\ retires = 0 /\ added = 0
  /\ roundLimit = RoundLimit /\ candidateLimit = CandidateLimit
  /\ total = [compiled |-> 0, rounds |-> 0] /\ again = FALSE

-----------------------------------------------------------------------------
(* Helpers *)

Remaining == candidateLimit - compiled

\* A RepairWorkflowError leaves the session.
Refuse(reason) == pc' = "refused" /\ why' = reason /\ UNCHANGED guidance

\* A stage has changed the guidance: the loop starts over.  record_transition
\* counts the round, unless told not to.
Adjust(funcs, round) ==
  /\ \E id \in Ids : guidance' = [id |-> id, funcs |-> funcs]
  /\ guidance' # guidance
  /\ rounds' = IF round THEN rounds + 1 ELSE rounds
  /\ pc' = "begin" /\ UNCHANGED why

\* require_adjustment_round, and then the change
AdjustWithin(funcs) ==
  IF rounds >= roundLimit THEN Refuse("rounds") /\ UNCHANGED rounds ELSE Adjust(funcs, TRUE)

\* consume_candidates: a search that has used more than it was given is an error.
Consume(used) == compiled' = compiled + used

Overrun(used) ==
  /\ used > Remaining
  /\ Refuse("overrun")
  /\ UNCHANGED <<found, donor, sessionVars, limitVars>>

-----------------------------------------------------------------------------
(* One pass: begin_pass and _analyze_repair_pass *)

\* Mutant: the last pass, which finds nothing left to do, is not counted.
PassBoundShort(first) == first + roundLimit

PassBound(first) == first + roundLimit + 1

BeginPass ==
  /\ pc = "begin"
  /\ LET first == IF passes = 0 THEN guidance.funcs ELSE initial IN
     /\ passes' = passes + 1 /\ initial' = first
     /\ IF passes + 1 > PassBound(first) THEN Refuse("bound") /\ UNCHANGED seen
        ELSE IF guidance \in seen THEN Refuse("repeated") /\ UNCHANGED seen
        ELSE /\ seen' = seen \cup {guidance}
             /\ pc' = "analyze" /\ UNCHANGED <<why, guidance>>
  /\ UNCHANGED <<found, donor, rounds, compiled, exhausted, retunes, retires, added, limitVars>>

\* With nothing wrong and a ledger of accepted bodies, a second analysis follows.
Analyze ==
  /\ pc \in {"analyze", "census"}
  /\ \E measured, completed, ledger \in BOOLEAN :
       /\ pc = "census" => ledger
       /\ found' = [of |-> guidance, measured |-> measured, completed |-> completed,
                    ledger |-> ledger]
       /\ pc' = IF pc = "analyze" /\ ~measured /\ completed /\ ledger THEN "census" ELSE "measured"
  /\ UNCHANGED <<why, guidance, donor, sessionVars, limitVars>>

-----------------------------------------------------------------------------
(* The stages *)

\* _repair_measured_checks
RepairMeasuredChecks ==
  /\ pc = "measured"
  /\ \/ found.measured /\ AdjustWithin(guidance.funcs)
     \/ /\ ~found.measured
        /\ pc' = IF ~found.completed THEN "legacy" ELSE IF found.ledger THEN "unrecorded" ELSE "layout"
        /\ UNCHANGED <<why, guidance, rounds>>
  /\ UNCHANGED <<found, donor, passes, compiled, seen, initial, exhausted, retunes, retires,
                 added, limitVars>>

\* _repair_unrecorded_functions: a unit that the plan does not list is admitted,
\* or carriers are searched for the functions without a record.
AdmitUnits ==
  /\ pc = "unrecorded" /\ AdjustWithin(guidance.funcs)
  /\ UNCHANGED <<found, donor, passes, compiled, seen, initial, exhausted, retunes, retires,
                 added, limitVars>>

DiscoverFunctions ==
  /\ pc = "unrecorded"
  /\ \/ /\ rounds >= roundLimit \/ Remaining <= 0
        /\ Refuse(IF rounds >= roundLimit THEN "rounds" ELSE "candidates")
        /\ UNCHANGED <<found, donor, sessionVars, limitVars>>
     \/ /\ rounds < roundLimit /\ Remaining > 0
        /\ \E used \in 0..Remaining :
             /\ Consume(used)
             /\ \/ Refuse("unrestored") /\ UNCHANGED <<rounds, added>>
                \/ \E more \in 1..(MaxFuncs - guidance.funcs) :
                     Adjust(guidance.funcs + more, TRUE) /\ added' = added + more
        /\ UNCHANGED <<found, donor, passes, seen, initial, exhausted, retunes, retires, limitVars>>
     \/ rounds < roundLimit /\ Remaining > 0 /\ Overrun(Remaining + 1)

NothingUnrecorded ==
  /\ pc = "unrecorded" /\ pc' = "layout"
  /\ UNCHANGED <<why, guidance, found, donor, sessionVars, limitVars>>

\* _repair_source_layout: the candidates are counted before the round is.
RepairSourceLayout ==
  /\ pc = "layout"
  /\ \E used \in 0..Remaining :
       /\ Consume(used)
       /\ \/ /\ rounds < roundLimit
             /\ Adjust(guidance.funcs, TRUE) /\ retunes' = retunes + 1
          \/ /\ rounds >= roundLimit /\ Refuse("rounds") /\ UNCHANGED <<rounds, retunes>>
          \/ /\ Refuse("layout") /\ UNCHANGED <<rounds, retunes>>
          \/ /\ pc' = "returned" /\ UNCHANGED <<why, guidance, rounds, retunes>>
  /\ UNCHANGED <<found, donor, passes, seen, initial, exhausted, retires, added, limitVars>>

LayoutOverrun == pc = "layout" /\ Overrun(Remaining + 1)

\* _prepare_legacy_fallout, _resolve_obsolete_quarantine
ResolveQuarantine ==
  /\ pc = "legacy"
  /\ \/ AdjustWithin(guidance.funcs)
     \/ guidance.funcs > 0 /\ AdjustWithin(guidance.funcs - 1)
     \/ pc' = "retire" /\ UNCHANGED <<why, guidance, rounds>>
  /\ UNCHANGED <<found, donor, passes, compiled, seen, initial, exhausted, retunes, retires,
                 added, limitVars>>

\* _retire_redundant_adjustments uses up function records, not rounds.
RetireRedundant ==
  /\ pc = "retire"
  /\ \/ /\ \E gone \in 1..guidance.funcs : Adjust(guidance.funcs - gone, FALSE)
        /\ retires' = retires + 1
     \/ pc' = "reauthor" /\ UNCHANGED <<why, guidance, rounds, retires>>
  /\ UNCHANGED <<found, donor, passes, compiled, seen, initial, exhausted, retunes, added, limitVars>>

\* _reauthor_existing_functions
Reauthor ==
  /\ pc = "reauthor"
  /\ \/ AdjustWithin(guidance.funcs)
     \/ pc' = "donor" /\ UNCHANGED <<why, guidance, rounds>>
  /\ UNCHANGED <<found, donor, passes, compiled, seen, initial, exhausted, retunes, retires,
                 added, limitVars>>

\* _repair_donor_fallout: groups that were searched in vain are left to the end,
\* unless no other is active.
DonorFallout ==
  /\ pc = "donor"
  /\ \E active \in SUBSET Groups, fallback, carriers \in BOOLEAN :
       \/ active = {} /\ Refuse("unsolved") /\ UNCHANGED <<donor, rounds>>
       \/ /\ active # {} /\ (rounds >= roundLimit \/ Remaining <= 0)
          /\ IF rounds < roundLimit /\ fallback THEN Adjust(guidance.funcs, TRUE)
             ELSE /\ Refuse(IF rounds >= roundLimit THEN "rounds" ELSE "candidates")
                  /\ UNCHANGED rounds
          /\ UNCHANGED donor
       \/ /\ active # {} /\ rounds < roundLimit /\ Remaining > 0
          /\ donor' = [active |-> active, tried |-> {}, fallback |-> fallback, carriers |-> carriers,
                       excluded |-> IF active \subseteq exhausted THEN {} ELSE exhausted \cap active]
          /\ pc' = "probe" /\ UNCHANGED <<why, guidance, rounds>>
  /\ UNCHANGED <<found, passes, compiled, seen, initial, exhausted, retunes, retires, added,
                 limitVars>>

\* Mutant: the groups left out are not tried again.
NoneLeftOut(used) == FALSE

LeftOut(used) == donor.excluded # {} /\ Remaining > used

\* One search for nearby compiler choices.  If nothing settled, the groups left
\* out get their attempt too.
ProbeDonors ==
  /\ pc = "probe"
  /\ LET now == donor.active \ donor.excluded IN
     \E used \in 0..Remaining, vain \in SUBSET now :
       /\ Consume(used) /\ exhausted' = exhausted \cup vain
       /\ \/ Adjust(guidance.funcs, TRUE) /\ donor' = NoDonor
          \/ /\ donor' = [donor EXCEPT !.tried = @ \cup now, !.excluded = {}]
             /\ pc' = IF LeftOut(used) THEN "probe" ELSE "carriers"
             /\ UNCHANGED <<why, guidance, rounds>>
  /\ UNCHANGED <<found, passes, seen, initial, retunes, retires, added, limitVars>>

ProbeOverrun == pc \in {"probe", "carriers"} /\ Overrun(Remaining + 1)

\* Fresh carriers for the functions, then the legacy fallback, then an error.
SearchCarriers ==
  /\ pc = "carriers"
  /\ \E used \in 0..(IF donor.carriers THEN Remaining ELSE 0) :
       /\ Consume(used)
       /\ \/ /\ (donor.carriers /\ Remaining > 0) \/ donor.fallback
             /\ Adjust(guidance.funcs, TRUE) /\ donor' = NoDonor
          \/ /\ ~donor.fallback
             /\ Refuse("unproved") /\ UNCHANGED <<rounds, donor>>
  /\ UNCHANGED <<found, passes, seen, initial, exhausted, retunes, retires, added, limitVars>>

\* Any stage may fail for another reason: an analysis error, a plan that cannot
\* be made, functions that are gone.
Error ==
  /\ pc \notin {"refused", "published"}
  /\ Refuse("error")
  /\ UNCHANGED <<found, donor, sessionVars, limitVars>>

-----------------------------------------------------------------------------
(* execute_repair_attempt around the sessions *)

\* Mutant: a session that changed nothing is verified again.
MergeUnsettled ==
  /\ pc = "returned" /\ pc' = "verify"
  /\ UNCHANGED <<why, guidance, found, donor, sessionVars, limitVars>>

\* A session is over.  One that followed a failed verification must have
\* adjusted a layout.
Merge ==
  /\ pc = "returned"
  /\ IF again /\ retunes < 1 THEN Refuse("unsettled") ELSE pc' = "verify" /\ UNCHANGED <<why, guidance>>
  /\ UNCHANGED <<found, donor, sessionVars, limitVars>>

\* The private project is verified from scratch.
Accepted ==
  /\ pc = "verify" /\ pc' = "published"
  /\ UNCHANGED <<why, guidance, found, donor, sessionVars, limitVars>>

\* Only a layout mismatch, and only within the budgets, starts another session.
FollowUp ==
  /\ pc = "verify"
  /\ LET used == [compiled |-> total.compiled + compiled, rounds |-> total.rounds + rounds] IN
     IF used.compiled >= CandidateLimit \/ used.rounds >= RoundLimit
     THEN /\ Refuse("limit")
          /\ UNCHANGED <<found, donor, sessionVars, limitVars>>
     ELSE /\ total' = used /\ again' = TRUE
          /\ candidateLimit' = CandidateLimit - used.compiled
          /\ roundLimit' = RoundLimit - used.rounds
          /\ passes' = 0 /\ rounds' = 0 /\ compiled' = 0 /\ seen' = {} /\ initial' = 0
          /\ exhausted' = {} /\ retunes' = 0 /\ retires' = 0 /\ added' = 0
          /\ pc' = "begin" /\ UNCHANGED <<why, guidance, found, donor>>

Inexact ==
  /\ pc = "verify" /\ Refuse("inexact")
  /\ UNCHANGED <<found, donor, sessionVars, limitVars>>

Step ==
  \/ BeginPass \/ Analyze \/ RepairMeasuredChecks
  \/ AdmitUnits \/ DiscoverFunctions \/ NothingUnrecorded \/ RepairSourceLayout \/ LayoutOverrun
  \/ ResolveQuarantine \/ RetireRedundant \/ Reauthor
  \/ DonorFallout \/ ProbeDonors \/ ProbeOverrun \/ SearchCarriers
  \/ Merge \/ Accepted \/ FollowUp \/ Inexact

Next == Step \/ Error

Spec == Init /\ [][Next]_vars

\* One thread runs the loop and every call of it returns.
FairSpec == Spec /\ WF_vars(Step)

-----------------------------------------------------------------------------
(* Properties *)

Labels == {"begin", "analyze", "census", "measured", "unrecorded", "layout", "legacy", "retire",
           "reauthor", "donor", "probe", "carriers", "returned", "verify", "published", "refused"}

\* The types of the variables.
TypeOK ==
  /\ pc \in Labels
  /\ guidance \in Guidance /\ seen \subseteq Guidance
  /\ found \in [of : Guidance, measured : BOOLEAN, completed : BOOLEAN, ledger : BOOLEAN]
  /\ donor \in [active : SUBSET Groups, excluded : SUBSET Groups, tried : SUBSET Groups,
                fallback : BOOLEAN, carriers : BOOLEAN]
  /\ exhausted \subseteq Groups
  /\ passes \in Nat /\ rounds \in Nat /\ compiled \in Nat /\ initial \in Nat /\ retunes \in Nat
  /\ retires \in Nat /\ added \in Nat
  /\ roundLimit \in Nat /\ candidateLimit \in Nat
  /\ total \in [compiled : Nat, rounds : Nat] /\ again \in BOOLEAN

\* All sessions together stay within the limits of the command, whatever the
\* searches and the verifications say (--candidate-limit, --adjustment-rounds).
WithinBudget ==
  /\ total.compiled + compiled <= CandidateLimit
  /\ total.rounds + rounds <= RoundLimit

\* The bound of begin_pass on the analyses stops no session that only retired
\* what it had at the start: it is the rounds and the function records, and one.
BoundFits == pc = "refused" /\ why = "bound" => added > 0

\* Guidance goes to the verification from scratch only as an analysis without any
\* finding has seen it last.
VerifiedAsAnalysed ==
  pc \in {"returned", "verify", "published"} =>
    found.of = guidance /\ found.completed /\ ~found.measured

\* The donor search gives up only after every active group had its attempt in this
\* pass, the ones deferred as exhausted included, or no candidate is left.
EveryGroupTried ==
  pc = "carriers" \/ (pc = "refused" /\ why = "unproved") =>
    donor.tried = donor.active \/ Remaining = 0

\* Every repair comes to an end.
Ends == <>(pc \in {"refused", "published"})
=============================================================================
