-------------------------- MODULE RepairLoopProofs --------------------------
(***************************************************************************)
(* Proofs about RepairLoop for any guidance, any donors and any limits.    *)
(***************************************************************************)
EXTENDS RepairLoop, TLAPS

\* The limits of a session are what the earlier sessions have left, the session
\* keeps within them, and a donor search has a round to spend.
Budgets ==
  /\ total.compiled + candidateLimit <= CandidateLimit /\ compiled <= candidateLimit
  /\ total.rounds + roundLimit <= RoundLimit /\ rounds <= roundLimit
  /\ pc \in {"probe", "carriers"} => rounds < roundLimit

\* Every pass but the running one has used a round or retired function records,
\* of which there are no more than at the start and since.
PassesCounted ==
  /\ pc # "refused" => passes = rounds + retires + (IF pc = "begin" THEN 0 ELSE 1)
  /\ passes = 0 => added = 0
  /\ passes > 0 /\ pc # "refused" => guidance.funcs + retires <= initial + added

\* What the last analysis said is about the guidance the stages work on.
AnalysedNow ==
  /\ pc \in {"census", "measured"} => found.of = guidance
  /\ pc \in {"unrecorded", "layout", "returned", "verify", "published"} =>
       found.of = guidance /\ found.completed /\ ~found.measured

\* A donor search has tried active groups only.
TriedActive == pc = "probe" => donor.tried \subseteq donor.active

Inductive ==
  TypeOK /\ Budgets /\ PassesCounted /\ BoundFits /\ AnalysedNow /\ TriedActive /\ EveryGroupTried


-----------------------------------------------------------------------------
(* Every step keeps the invariant *)

\* A donor search, and what updates of it keep.
Donors == [active : SUBSET Groups, excluded : SUBSET Groups, tried : SUBSET Groups,
           fallback : BOOLEAN, carriers : BOOLEAN]

\* No search is one.
LEMMA EmptyDonor == NoDonor \in Donors
BY DEF NoDonor, Donors

\* After a probe the record is one.
LEMMA UpdatedDonor ==
  ASSUME NEW d \in Donors, NEW groups \in SUBSET Groups
  PROVE  [d EXCEPT !.tried = groups, !.excluded = {}] \in Donors
BY DEF Donors

\* Every step keeps the types.
LEMMA TypeStep ==
  ASSUME TypeOK, Budgets, [Next]_vars
  PROVE  TypeOK'
<1> USE RepairAssumption DEF TypeOK, Budgets, Guidance, Labels, Donors, sessionVars, limitVars
<1>1. CASE BeginPass
  BY <1>1 DEF BeginPass, PassBound, Refuse
<1>2. CASE Analyze
  BY <1>2 DEF Analyze
<1>3. CASE RepairMeasuredChecks
  BY <1>3 DEF RepairMeasuredChecks, AdjustWithin, Adjust, Refuse
<1>4. CASE AdmitUnits
  BY <1>4 DEF AdmitUnits, AdjustWithin, Adjust, Refuse
<1>5. CASE DiscoverFunctions
  BY <1>5 DEF DiscoverFunctions, Adjust, Refuse, Overrun, Consume, Remaining
<1>6. CASE NothingUnrecorded
  BY <1>6, Zenon DEF NothingUnrecorded
<1>7. CASE RepairSourceLayout
  BY <1>7 DEF RepairSourceLayout, Adjust, Refuse, Consume, Remaining
<1>8. CASE LayoutOverrun
  BY <1>8, Zenon DEF LayoutOverrun, Overrun, Refuse
<1>9. CASE ResolveQuarantine
  BY <1>9 DEF ResolveQuarantine, AdjustWithin, Adjust, Refuse
<1>10. CASE RetireRedundant
  BY <1>10 DEF RetireRedundant, Adjust
<1>11. CASE Reauthor
  BY <1>11 DEF Reauthor, AdjustWithin, Adjust, Refuse
<1>12. CASE DonorFallout
  BY <1>12 DEF DonorFallout, AdjustWithin, Adjust, Refuse, Remaining
<1>13. CASE ProbeDonors
  <2>0. PICK groups \in SUBSET Groups :
          donor' = NoDonor \/ donor' = [donor EXCEPT !.tried = groups, !.excluded = {}]
    BY <1>13, Zenon DEF ProbeDonors, LeftOut
  <2>1. donor' \in Donors
    <3>1. CASE donor' = NoDonor
      BY <3>1, EmptyDonor, Zenon
    <3>2. CASE donor' = [donor EXCEPT !.tried = groups, !.excluded = {}]
      BY <3>2, UpdatedDonor, Zenon
    <3> QED
      BY <2>0, <3>1, <3>2, Zenon
  <2>2. pc' \in Labels /\ guidance' \in Guidance /\ rounds' \in Nat /\ compiled' \in Nat
    BY <1>13 DEF ProbeDonors, LeftOut, Adjust, Consume, Remaining
  <2>3. exhausted' \subseteq Groups
    BY <1>13, Zenon DEF ProbeDonors, LeftOut
  <2> QED
    BY <1>13, <2>1, <2>2, <2>3, Zenon DEF ProbeDonors, LeftOut
<1>14. CASE ProbeOverrun
  BY <1>14, Zenon DEF ProbeOverrun, Overrun, Refuse
<1>15. CASE SearchCarriers
  <2>1. donor' \in Donors
    <3>1. donor' = NoDonor \/ donor' = donor
      BY <1>15, Zenon DEF SearchCarriers
    <3> QED
      BY <3>1, EmptyDonor, Zenon
  <2>2. pc' \in Labels /\ guidance' \in Guidance /\ rounds' \in Nat /\ compiled' \in Nat
    BY <1>15 DEF SearchCarriers, Adjust, Refuse, Consume, Remaining
  <2> QED
    BY <1>15, <2>1, <2>2, Zenon DEF SearchCarriers
<1>16. CASE Merge
  BY <1>16, Zenon DEF Merge, Refuse
<1>17. CASE Accepted
  BY <1>17, Zenon DEF Accepted
<1>18. CASE FollowUp
  <2>1. total' \in [compiled : Nat, rounds : Nat] /\ candidateLimit' \in Nat /\ roundLimit' \in Nat
    BY <1>18 DEF FollowUp
  <2>2. again' \in BOOLEAN
    BY <1>18, Zenon DEF FollowUp
  <2> QED
    BY <1>18, <2>1, <2>2 DEF FollowUp, Refuse
<1>19. CASE Inexact
  BY <1>19, Zenon DEF Inexact, Refuse
<1>20. CASE Error
  BY <1>20, Zenon DEF Error, Refuse
<1>21. CASE UNCHANGED vars
  BY <1>21 DEF vars
<1> QED
  BY <1>1, <1>2, <1>3, <1>4, <1>5, <1>6, <1>7, <1>8, <1>9, <1>10, <1>11, <1>12, <1>13, <1>14, <1>15, <1>16, <1>17, <1>18, <1>19, <1>20, <1>21, Zenon DEF Next, Step

\* Every step keeps within the limits.
LEMMA BudgetStep ==
  ASSUME TypeOK, Budgets, [Next]_vars
  PROVE  Budgets'
<1> USE RepairAssumption DEF TypeOK, Budgets, Guidance, sessionVars, limitVars
<1>1. CASE BeginPass
  BY <1>1, Zenon DEF BeginPass, PassBound, Refuse
<1>2. CASE Analyze
  BY <1>2, Zenon DEF Analyze
<1>3. CASE RepairMeasuredChecks
  BY <1>3 DEF RepairMeasuredChecks, AdjustWithin, Adjust, Refuse
<1>4. CASE AdmitUnits
  BY <1>4 DEF AdmitUnits, AdjustWithin, Adjust, Refuse
<1>5. CASE DiscoverFunctions
  BY <1>5 DEF DiscoverFunctions, Adjust, Refuse, Overrun, Consume, Remaining
<1>6. CASE NothingUnrecorded
  BY <1>6, Zenon DEF NothingUnrecorded
<1>7. CASE RepairSourceLayout
  BY <1>7 DEF RepairSourceLayout, Adjust, Refuse, Consume, Remaining
<1>8. CASE LayoutOverrun
  BY <1>8, Zenon DEF LayoutOverrun, Overrun, Refuse
<1>9. CASE ResolveQuarantine
  BY <1>9 DEF ResolveQuarantine, AdjustWithin, Adjust, Refuse
<1>10. CASE RetireRedundant
  BY <1>10, Zenon DEF RetireRedundant, Adjust
<1>11. CASE Reauthor
  BY <1>11 DEF Reauthor, AdjustWithin, Adjust, Refuse
<1>12. CASE DonorFallout
  BY <1>12 DEF DonorFallout, AdjustWithin, Adjust, Refuse, Remaining
<1>13. CASE ProbeDonors
  BY <1>13 DEF ProbeDonors, LeftOut, Adjust, Consume, Remaining, NoDonor
<1>14. CASE ProbeOverrun
  BY <1>14, Zenon DEF ProbeOverrun, Overrun, Refuse
<1>15. CASE SearchCarriers
  BY <1>15 DEF SearchCarriers, Adjust, Refuse, Consume, Remaining, NoDonor
<1>16. CASE Merge
  BY <1>16, Zenon DEF Merge, Refuse
<1>17. CASE Accepted
  BY <1>17, Zenon DEF Accepted
<1>18. CASE FollowUp
  BY <1>18 DEF FollowUp, Refuse
<1>19. CASE Inexact
  BY <1>19, Zenon DEF Inexact, Refuse
<1>20. CASE Error
  BY <1>20, Zenon DEF Error, Refuse
<1>21. CASE UNCHANGED vars
  BY <1>21, Zenon DEF vars
<1> QED
  BY <1>1, <1>2, <1>3, <1>4, <1>5, <1>6, <1>7, <1>8, <1>9, <1>10, <1>11, <1>12, <1>13, <1>14, <1>15, <1>16, <1>17, <1>18, <1>19, <1>20, <1>21, Zenon DEF Next, Step

\* Every step counts its pass.
LEMMA CountStep ==
  ASSUME TypeOK, Budgets, PassesCounted, [Next]_vars
  PROVE  PassesCounted'
<1> USE RepairAssumption DEF TypeOK, Budgets, PassesCounted, Guidance, sessionVars, limitVars
<1>1. CASE BeginPass
  BY <1>1 DEF BeginPass, PassBound, Refuse
<1>2. CASE Analyze
  BY <1>2, Zenon DEF Analyze
<1>3. CASE RepairMeasuredChecks
  BY <1>3 DEF RepairMeasuredChecks, AdjustWithin, Adjust, Refuse
<1>4. CASE AdmitUnits
  BY <1>4 DEF AdmitUnits, AdjustWithin, Adjust, Refuse
<1>5. CASE DiscoverFunctions
  BY <1>5 DEF DiscoverFunctions, Adjust, Refuse, Overrun, Consume, Remaining
<1>6. CASE NothingUnrecorded
  BY <1>6, Zenon DEF NothingUnrecorded
<1>7. CASE RepairSourceLayout
  BY <1>7 DEF RepairSourceLayout, Adjust, Refuse, Consume, Remaining
<1>8. CASE LayoutOverrun
  BY <1>8, Zenon DEF LayoutOverrun, Overrun, Refuse
<1>9. CASE ResolveQuarantine
  BY <1>9 DEF ResolveQuarantine, AdjustWithin, Adjust, Refuse
<1>10. CASE RetireRedundant
  BY <1>10 DEF RetireRedundant, Adjust
<1>11. CASE Reauthor
  BY <1>11 DEF Reauthor, AdjustWithin, Adjust, Refuse
<1>12. CASE DonorFallout
  BY <1>12 DEF DonorFallout, AdjustWithin, Adjust, Refuse, Remaining
<1>13. CASE ProbeDonors
  BY <1>13 DEF ProbeDonors, LeftOut, Adjust, Consume, Remaining, NoDonor
<1>14. CASE ProbeOverrun
  BY <1>14, Zenon DEF ProbeOverrun, Overrun, Refuse
<1>15. CASE SearchCarriers
  BY <1>15 DEF SearchCarriers, Adjust, Refuse, Consume, Remaining, NoDonor
<1>16. CASE Merge
  BY <1>16, Zenon DEF Merge, Refuse
<1>17. CASE Accepted
  BY <1>17, Zenon DEF Accepted
<1>18. CASE FollowUp
  BY <1>18 DEF FollowUp, Refuse
<1>19. CASE Inexact
  BY <1>19, Zenon DEF Inexact, Refuse
<1>20. CASE Error
  BY <1>20, Zenon DEF Error, Refuse
<1>21. CASE UNCHANGED vars
  BY <1>21, Zenon DEF vars
<1> QED
  BY <1>1, <1>2, <1>3, <1>4, <1>5, <1>6, <1>7, <1>8, <1>9, <1>10, <1>11, <1>12, <1>13, <1>14, <1>15, <1>16, <1>17, <1>18, <1>19, <1>20, <1>21, Zenon DEF Next, Step

\* The bound on the analyses is hit only after additions.
LEMMA BoundStep ==
  ASSUME TypeOK, Budgets, PassesCounted, BoundFits, [Next]_vars
  PROVE  BoundFits'
<1> USE RepairAssumption DEF TypeOK, Budgets, PassesCounted, BoundFits, Guidance, sessionVars, limitVars
<1>1. CASE BeginPass
  BY <1>1 DEF BeginPass, PassBound, Refuse
<1>2. CASE Analyze
  BY <1>2, Zenon DEF Analyze
<1>3. CASE RepairMeasuredChecks
  BY <1>3, Zenon DEF RepairMeasuredChecks, AdjustWithin, Adjust, Refuse
<1>4. CASE AdmitUnits
  BY <1>4, Zenon DEF AdmitUnits, AdjustWithin, Adjust, Refuse
<1>5. CASE DiscoverFunctions
  BY <1>5, Zenon DEF DiscoverFunctions, Adjust, Refuse, Overrun, Consume, Remaining
<1>6. CASE NothingUnrecorded
  BY <1>6, Zenon DEF NothingUnrecorded
<1>7. CASE RepairSourceLayout
  BY <1>7, Zenon DEF RepairSourceLayout, Adjust, Refuse, Consume, Remaining
<1>8. CASE LayoutOverrun
  BY <1>8, Zenon DEF LayoutOverrun, Overrun, Refuse
<1>9. CASE ResolveQuarantine
  BY <1>9, Zenon DEF ResolveQuarantine, AdjustWithin, Adjust, Refuse
<1>10. CASE RetireRedundant
  BY <1>10, Zenon DEF RetireRedundant, Adjust
<1>11. CASE Reauthor
  BY <1>11, Zenon DEF Reauthor, AdjustWithin, Adjust, Refuse
<1>12. CASE DonorFallout
  BY <1>12, Zenon DEF DonorFallout, AdjustWithin, Adjust, Refuse, Remaining
<1>13. CASE ProbeDonors
  BY <1>13, Zenon DEF ProbeDonors, LeftOut, Adjust, Consume, Remaining, NoDonor
<1>14. CASE ProbeOverrun
  BY <1>14, Zenon DEF ProbeOverrun, Overrun, Refuse
<1>15. CASE SearchCarriers
  BY <1>15, Zenon DEF SearchCarriers, Adjust, Refuse, Consume, Remaining, NoDonor
<1>16. CASE Merge
  BY <1>16, Zenon DEF Merge, Refuse
<1>17. CASE Accepted
  BY <1>17, Zenon DEF Accepted
<1>18. CASE FollowUp
  BY <1>18, Zenon DEF FollowUp, Refuse
<1>19. CASE Inexact
  BY <1>19, Zenon DEF Inexact, Refuse
<1>20. CASE Error
  BY <1>20, Zenon DEF Error, Refuse
<1>21. CASE UNCHANGED vars
  BY <1>21, Zenon DEF vars
<1> QED
  BY <1>1, <1>2, <1>3, <1>4, <1>5, <1>6, <1>7, <1>8, <1>9, <1>10, <1>11, <1>12, <1>13, <1>14, <1>15, <1>16, <1>17, <1>18, <1>19, <1>20, <1>21, Zenon DEF Next, Step

\* Changed guidance is analysed before a stage accepts it.
LEMMA AnalysedStep ==
  ASSUME TypeOK, AnalysedNow, [Next]_vars
  PROVE  AnalysedNow'
<1> USE RepairAssumption DEF TypeOK, AnalysedNow, sessionVars, limitVars
<1>1. CASE BeginPass
  BY <1>1, Zenon DEF BeginPass, PassBound, Refuse
<1>2. CASE Analyze
  BY <1>2 DEF Analyze
<1>3. CASE RepairMeasuredChecks
  BY <1>3, Zenon DEF RepairMeasuredChecks, AdjustWithin, Adjust, Refuse
<1>4. CASE AdmitUnits
  BY <1>4, Zenon DEF AdmitUnits, AdjustWithin, Adjust, Refuse
<1>5. CASE DiscoverFunctions
  BY <1>5, Zenon DEF DiscoverFunctions, Adjust, Refuse, Overrun, Consume, Remaining
<1>6. CASE NothingUnrecorded
  BY <1>6, Zenon DEF NothingUnrecorded
<1>7. CASE RepairSourceLayout
  BY <1>7, Zenon DEF RepairSourceLayout, Adjust, Refuse, Consume, Remaining
<1>8. CASE LayoutOverrun
  BY <1>8, Zenon DEF LayoutOverrun, Overrun, Refuse
<1>9. CASE ResolveQuarantine
  BY <1>9, Zenon DEF ResolveQuarantine, AdjustWithin, Adjust, Refuse
<1>10. CASE RetireRedundant
  BY <1>10, Zenon DEF RetireRedundant, Adjust
<1>11. CASE Reauthor
  BY <1>11, Zenon DEF Reauthor, AdjustWithin, Adjust, Refuse
<1>12. CASE DonorFallout
  BY <1>12, Zenon DEF DonorFallout, AdjustWithin, Adjust, Refuse, Remaining
<1>13. CASE ProbeDonors
  BY <1>13, Zenon DEF ProbeDonors, LeftOut, Adjust, Consume, Remaining, NoDonor
<1>14. CASE ProbeOverrun
  BY <1>14, Zenon DEF ProbeOverrun, Overrun, Refuse
<1>15. CASE SearchCarriers
  BY <1>15, Zenon DEF SearchCarriers, Adjust, Refuse, Consume, Remaining, NoDonor
<1>16. CASE Merge
  BY <1>16, Zenon DEF Merge, Refuse
<1>17. CASE Accepted
  BY <1>17, Zenon DEF Accepted
<1>18. CASE FollowUp
  BY <1>18, Zenon DEF FollowUp, Refuse
<1>19. CASE Inexact
  BY <1>19, Zenon DEF Inexact, Refuse
<1>20. CASE Error
  BY <1>20, Zenon DEF Error, Refuse
<1>21. CASE UNCHANGED vars
  BY <1>21, Zenon DEF vars
<1> QED
  BY <1>1, <1>2, <1>3, <1>4, <1>5, <1>6, <1>7, <1>8, <1>9, <1>10, <1>11, <1>12, <1>13, <1>14, <1>15, <1>16, <1>17, <1>18, <1>19, <1>20, <1>21, Zenon DEF Next, Step

\* The donor search leaves no group out.
LEMMA TriedStep ==
  ASSUME TypeOK, Budgets, TriedActive, EveryGroupTried, [Next]_vars
  PROVE  (TriedActive /\ EveryGroupTried)'
<1> USE RepairAssumption DEF TypeOK, Budgets, TriedActive, EveryGroupTried, Remaining, sessionVars, limitVars
<1>1. CASE BeginPass
  BY <1>1, Zenon DEF BeginPass, PassBound, Refuse
<1>2. CASE Analyze
  BY <1>2, Zenon DEF Analyze
<1>3. CASE RepairMeasuredChecks
  BY <1>3, Zenon DEF RepairMeasuredChecks, AdjustWithin, Adjust, Refuse
<1>4. CASE AdmitUnits
  BY <1>4, Zenon DEF AdmitUnits, AdjustWithin, Adjust, Refuse
<1>5. CASE DiscoverFunctions
  BY <1>5, Zenon DEF DiscoverFunctions, Adjust, Refuse, Overrun, Consume, Remaining
<1>6. CASE NothingUnrecorded
  BY <1>6, Zenon DEF NothingUnrecorded
<1>7. CASE RepairSourceLayout
  BY <1>7, Zenon DEF RepairSourceLayout, Adjust, Refuse, Consume, Remaining
<1>8. CASE LayoutOverrun
  BY <1>8, Zenon DEF LayoutOverrun, Overrun, Refuse
<1>9. CASE ResolveQuarantine
  BY <1>9, Zenon DEF ResolveQuarantine, AdjustWithin, Adjust, Refuse
<1>10. CASE RetireRedundant
  BY <1>10, Zenon DEF RetireRedundant, Adjust
<1>11. CASE Reauthor
  BY <1>11, Zenon DEF Reauthor, AdjustWithin, Adjust, Refuse
<1>12. CASE DonorFallout
  BY <1>12 DEF DonorFallout, AdjustWithin, Adjust, Refuse, Remaining
<1>13. CASE ProbeDonors
  <2>1. CASE pc' = "begin"
    BY <2>1, Zenon
  <2>2. CASE pc' # "begin"
    <3> DEFINE now == donor.active \ donor.excluded
    <3>1. PICK used \in 0..Remaining :
            /\ compiled' = compiled + used
            /\ donor' = [donor EXCEPT !.tried = @ \cup now, !.excluded = {}]
            /\ pc' = IF donor.excluded # {} /\ Remaining > used THEN "probe" ELSE "carriers"
            /\ candidateLimit' = candidateLimit
      BY <1>13, <2>2, Zenon DEF ProbeDonors, LeftOut, Adjust, Consume
    <3>2. donor'.tried = donor.tried \cup now /\ donor'.active = donor.active
      BY <3>1, Zenon
    <3>3. donor.tried \subseteq donor.active
      BY <1>13, Zenon DEF ProbeDonors, LeftOut
    <3> HIDE DEF TypeOK
    <3>4. donor.excluded = {} => donor'.tried = donor'.active
      BY <3>2, <3>3, Zenon
    <3> QED
      <4>0. donor'.tried \subseteq donor'.active
        BY <3>2, <3>3, Zenon
      <4>1. CASE donor.excluded = {}
        BY <3>1, <3>4, <4>1, Zenon
      <4>2. CASE donor.excluded # {} /\ Remaining > used
        BY <3>1, <4>0, <4>2, Zenon
      <4>3. CASE ~(Remaining > used)
        <5>1. Remaining' = 0
          BY <3>1, <4>3 DEF TypeOK
        <5> QED
          BY <3>1, <5>1, <4>3, Zenon
      <4> QED
        BY <4>1, <4>2, <4>3, Zenon
  <2> QED
    BY <2>1, <2>2, Zenon
<1>14. CASE ProbeOverrun
  BY <1>14, Zenon DEF ProbeOverrun, Overrun, Refuse
<1>15. CASE SearchCarriers
  BY <1>15 DEF SearchCarriers, Adjust, Refuse, Consume, Remaining, NoDonor
<1>16. CASE Merge
  BY <1>16, Zenon DEF Merge, Refuse
<1>17. CASE Accepted
  BY <1>17, Zenon DEF Accepted
<1>18. CASE FollowUp
  BY <1>18, Zenon DEF FollowUp, Refuse
<1>19. CASE Inexact
  BY <1>19, Zenon DEF Inexact, Refuse
<1>20. CASE Error
  BY <1>20, Zenon DEF Error, Refuse
<1>21. CASE UNCHANGED vars
  BY <1>21, Zenon DEF vars
<1> QED
  BY <1>1, <1>2, <1>3, <1>4, <1>5, <1>6, <1>7, <1>8, <1>9, <1>10, <1>11, <1>12, <1>13, <1>14, <1>15, <1>16, <1>17, <1>18, <1>19, <1>20, <1>21, Zenon DEF Next, Step

-----------------------------------------------------------------------------
\* The invariant holds in every reachable state.
THEOREM Invariant == Spec => []Inductive
<1>1. Init => Inductive
  <2> SUFFICES ASSUME Init PROVE Inductive
    BY Zenon
  <2>1. found \in [of : Guidance, measured : BOOLEAN, completed : BOOLEAN, ledger : BOOLEAN]
    BY Zenon DEF Init
  <2>2. donor \in [active : SUBSET Groups, excluded : SUBSET Groups, tried : SUBSET Groups,
                   fallback : BOOLEAN, carriers : BOOLEAN]
    BY Zenon DEF Init, NoDonor
  <2>3. TypeOK
    BY <2>1, <2>2, RepairAssumption, Zenon DEF Init, TypeOK, Labels
  <2> QED
    BY <2>3, RepairAssumption DEF Init, Inductive, Budgets, PassesCounted, BoundFits, AnalysedNow,
       TriedActive, EveryGroupTried, Guidance
<1>2. Inductive /\ [Next]_vars => Inductive'
  BY TypeStep, BudgetStep, CountStep, BoundStep, AnalysedStep, TriedStep, Zenon DEF Inductive
<1> QED
  BY <1>1, <1>2, PTL DEF Spec

\* All sessions of a repair together stay within --candidate-limit and
\* --adjustment-rounds, for all limits (repair_workflow.py, follow-up budgets).
THEOREM CommandBudgets == Spec => []WithinBudget
<1>1. Inductive => WithinBudget
  BY RepairAssumption DEF Inductive, TypeOK, Budgets, WithinBudget
<1> QED
  BY <1>1, Invariant, PTL

\* begin_pass refuses for its analysis bound only after records were added.
THEOREM BoundIsEnough == Spec => []BoundFits
<1>1. Inductive => BoundFits
  BY Zenon DEF Inductive
<1> QED
  BY <1>1, Invariant, PTL

\* repair_classic_records returns guidance that its last analysis found clean.
THEOREM ReturnsAnalysed == Spec => []VerifiedAsAnalysed
<1>1. Inductive => VerifiedAsAnalysed
  BY Zenon DEF Inductive, AnalysedNow, VerifiedAsAnalysed
<1> QED
  BY <1>1, Invariant, PTL

\* _repair_donor_fallout gives up only when every active group was tried in this
\* pass, or the candidates are used up.
THEOREM NoGroupLeftOut == Spec => []EveryGroupTried
<1>1. Inductive => EveryGroupTried
  BY Zenon DEF Inductive
<1> QED
  BY <1>1, Invariant, PTL
=============================================================================
