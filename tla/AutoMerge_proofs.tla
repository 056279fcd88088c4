-------------------------- MODULE AutoMerge_proofs ---------------------------
(***************************************************************************)
(* Proofs about AutoMerge, for every set of checks and passes and every    *)
(* value of the bounds.  Seven results:                                    *)
(*   PrTypeCorrect     the type invariant, with the agreement of the label *)
(*                     needs:human and who applied it;                     *)
(*   PersonsHoldStands HoldStands, from the invariant Lifting: a verdict   *)
(*                     that is about to lift a hold found it its own, and  *)
(*                     only a race can have changed that since;            *)
(*   BlockedStaysHeld  BlockedIsHeld, from the invariant Approving: the    *)
(*                     steps that may lift a hold follow an approval;      *)
(*   RepairsEnd        RepairBounded, from Counted: a dispatch that was    *)
(*                     decided and not yet made is within the budget;      *)
(*   GateIsStrict      what the gate lets through has all that protection  *)
(*                     does not ask for, whatever the snapshot says;       *)
(*   RepairIsGated     and so has what it repairs, which is not armed;     *)
(*   MergesAreJudged   MergesJudged, from the type invariant and the gate. *)
(***************************************************************************)
EXTENDS AutoMerge, TLAPS

-----------------------------------------------------------------------------
(* Types                                                                   *)

LEMMA NoPassType ==
  /\ NoPass \in PassRecord
  /\ Listed \in ListedType
<1>1. 1 \in 1..MaxHead
  BY PullRequestAssumption
<1>2. Listed \in ListedType
  BY <1>1 DEF Listed, ListedType, CheckState
<1> QED BY <1>1, <1>2 DEF NoPass, PassRecord

\* The states of the jobs that carry nothing over.
LEMMA NoJobType ==
  /\ NoReview \in ReviewRecord
  /\ Died \in ReviewRecord
  /\ Reporting \in ReviewRecord
  /\ NoFix \in FixRecord
<1>1. 1 \in 1..MaxHead
  BY PullRequestAssumption
<1>2. NoReview \in ReviewRecord
  BY <1>1 DEF NoReview, ReviewRecord
<1>3. Died \in ReviewRecord /\ Reporting \in ReviewRecord
  BY <1>1 DEF NoReview, Died, Reporting, ReviewRecord
<1>4. NoFix \in FixRecord
  BY <1>1 DEF NoFix, FixRecord
<1> QED BY <1>2, <1>3, <1>4

LEMMA TypeInit == Init => TypeOK
<1> SUFFICES ASSUME Init PROVE TypeOK
  OBVIOUS
<1>1. 1 \in 1..MaxHead /\ 0 \in 0..MaxHead /\ 1 \in 0..MaxHead /\ 0 \in 0..MaxMoves
  BY PullRequestAssumption
<1>2. PrTypeOK
  <2>1. checks \in [Check \ Plumbing -> CheckState]
    BY DEF Init, PrInit, CheckState
  <2>2. /\ ops \in [state : {"none", "approved", "changes"}, on : 0..MaxHead]
        /\ labels \subseteq PrLabel
        /\ holder \in {"none", "ops", "person"}
        /\ (holder = "none") <=> ("human" \notin labels)
    BY <1>1 DEF Init, PrInit
  <2>3. /\ pr = "open" /\ head = 1 /\ behind = FALSE /\ conflict = FALSE /\ main = {}
        /\ armed = FALSE /\ objection = FALSE /\ issueHeld = FALSE /\ fixes = 0
        /\ reviewJobs = 0 /\ fixJobs = 0 /\ moves = 0
    BY DEF Init, PrInit
  <2>4. /\ pr \in {"open", "merged", "closed"}
        /\ behind \in BOOLEAN /\ conflict \in BOOLEAN /\ armed \in BOOLEAN
        /\ objection \in BOOLEAN /\ issueHeld \in BOOLEAN
        /\ main \subseteq Check \ Plumbing
    BY <2>3, Zenon
  <2>5. /\ head \in 1..MaxHead /\ fixes \in Nat /\ reviewJobs \in 0..1 /\ fixJobs \in 0..1
        /\ moves \in 0..MaxMoves
    BY <1>1, <2>3
  <2> QED BY <2>1, <2>2, <2>4, <2>5, Zenon DEF PrTypeOK
<1>3. RunnersTypeOK
  <2>1. review \in ReviewRecord
    BY <1>1 DEF Init, RunnersInit, NoReview, Died, ReviewRecord
  <2>2. fix \in FixRecord
    BY <1>1 DEF Init, RunnersInit, NoFix, FixRecord
  <2> QED BY <2>1, <2>2 DEF Init, RunnersInit, RunnersTypeOK
<1>4. PassTypeOK
  BY NoPassType DEF Init, PassInit, PassTypeOK
<1> QED BY <1>2, <1>3, <1>4 DEF TypeOK

LEMMA NewHeadType ==
  ASSUME PrTypeOK, NEW still \in BOOLEAN, NewHead(still)
  PROVE  /\ head' \in 1..MaxHead
         /\ checks' \in [Check \ Plumbing -> CheckState]
         /\ behind' \in BOOLEAN
         /\ conflict' \in BOOLEAN
<1>1. head' \in 1..MaxHead /\ checks' \in [Check \ Plumbing -> CheckState]
  BY PullRequestAssumption DEF PrTypeOK, NewHead, CheckState
<1>2. behind' \in BOOLEAN /\ conflict' \in BOOLEAN
  BY Zenon DEF PrTypeOK, NewHead
<1> QED BY <1>1, <1>2

\* Applying and dropping needs:human keeps the label and its holder in agreement.
LEMMA HumanType ==
  ASSUME PrTypeOK,
         AddHuman("person") \/ AddHuman("ops") \/ DropHuman
  PROVE  /\ labels' \subseteq PrLabel
         /\ holder' \in {"none", "ops", "person"}
         /\ (holder' = "none") <=> ("human" \notin labels')
BY DEF PrTypeOK, AddHuman, DropHuman, PrLabel

LEMMA OutsideType == PrTypeOK /\ Outside => PrTypeOK'
<1> SUFFICES ASSUME PrTypeOK, Outside PROVE PrTypeOK'
  OBVIOUS
<1> USE DEF branchVars, labelVars, otherVars
<1>m. ASSUME Move PROVE moves' \in 0..MaxMoves
  BY <1>m, PullRequestAssumption DEF Move, PrTypeOK
<1>1. ASSUME NEW c \in Check \ Plumbing, CheckStarts(c) PROVE PrTypeOK'
  BY <1>1 DEF CheckStarts, PrTypeOK, CheckState
<1>2. ASSUME NEW c \in Check \ Plumbing, CheckEnds(c) PROVE PrTypeOK'
  <2>1. PICK result \in CheckState : checks' = [checks EXCEPT ![c] = result]
    BY <1>2 DEF CheckEnds, CheckState
  <2> QED BY <1>2, <2>1 DEF CheckEnds, PrTypeOK
<1>3. ASSUME NEW c \in Check \ Plumbing, MainTurns(c) PROVE PrTypeOK'
  BY <1>3, <1>m DEF MainTurns, PrTypeOK
<1>4. CASE GithubMerges
  BY <1>4 DEF GithubMerges, PrTypeOK
<1>5. CASE MainMoves
  BY <1>5, <1>m DEF MainMoves, PrTypeOK
<1>6. CASE Push
  <2>1. PICK still \in BOOLEAN : NewHead(still)
    BY <1>6 DEF Push, PrTypeOK
  <2> QED BY <1>6, <1>m, <2>1, NewHeadType DEF Push, PrTypeOK
<1>7. CASE PersonHolds
  BY <1>7, <1>m, HumanType DEF PersonHolds, PrTypeOK
<1>8. CASE PersonReleases
  BY <1>8, <1>m, HumanType DEF PersonReleases, PrTypeOK
<1>9. CASE IssueHold
  BY <1>9, <1>m DEF IssueHold, PrTypeOK
<1>10. CASE Objects
  BY <1>10, <1>m DEF Objects, PrTypeOK
<1>11. CASE AsksReview
  BY <1>11, <1>m DEF AsksReview, Queued, PrTypeOK, PrLabel
<1>12. CASE PersonCloses
  BY <1>12, <1>m DEF PersonCloses, PrTypeOK
<1> QED
  BY <1>1, <1>2, <1>3, <1>4, <1>5, <1>6, <1>7, <1>8, <1>9, <1>10, <1>11, <1>12 DEF Outside

\* A step of a job or of the pass, as what it does to its own state.
LEMMA ReviewType == TypeOK /\ ReviewStep => PrTypeOK' /\ review' \in ReviewRecord
<1> SUFFICES ASSUME TypeOK, ReviewStep PROVE PrTypeOK' /\ review' \in ReviewRecord
  OBVIOUS
<1> USE DEF TypeOK, RunnersTypeOK, ReviewRecord, branchVars, labelVars, otherVars, prVars, Goto
<1>0. /\ PrTypeOK /\ NoReview \in ReviewRecord
      /\ Died \in ReviewRecord /\ Reporting \in ReviewRecord
  BY NoJobType
<1>1. CASE StartReview
  <2>1. review' \in ReviewRecord
    BY <1>0, <1>1 DEF StartReview, PrTypeOK, NoReview
  <2>2. reviewJobs' \in 0..1
    BY <1>1 DEF StartReview
  <2> QED BY <1>0, <1>1, <2>1, <2>2 DEF StartReview, PrTypeOK
<1>2. CASE ReviewerJudges
  <2>1. PICK clean \in BOOLEAN : review' = [NoReview EXCEPT !.pc = "submit", !.clean = clean]
    BY <1>2 DEF ReviewerJudges
  <2>2. review' \in ReviewRecord
    BY <1>0, <2>1
  <2> QED BY <1>0, <1>2, <2>2 DEF ReviewerJudges, PrTypeOK
<1>3. CASE ReviewerPushes
  <2>1. conflict \in BOOLEAN /\ NewHead(conflict)
    BY <1>3 DEF ReviewerPushes, PrTypeOK
  <2>2. PICK clean \in BOOLEAN, verified \in BOOLEAN :
          review' = [NoReview EXCEPT !.pc = "submit", !.clean = clean, !.verified = verified]
    BY <1>3 DEF ReviewerPushes
  <2>3. review' \in ReviewRecord
    BY <1>0, <2>2
  <2> QED BY <1>3, <2>1, <2>3, NewHeadType DEF ReviewerPushes, PrTypeOK
<1>4. CASE ReviewerFails
  BY <1>0, <1>4 DEF ReviewerFails, PrTypeOK
<1>5. CASE Withhold
  BY <1>0, <1>5 DEF Withhold, PrTypeOK
<1>6. CASE Submit
  <2>1. ops' \in [state : {"none", "approved", "changes"}, on : 0..MaxHead]
    BY <1>6, PullRequestAssumption DEF Submit, PrTypeOK
  <2> QED BY <1>6, <2>1 DEF Submit, PrTypeOK
<1>7. CASE SubmissionFails
  BY <1>0, <1>7 DEF SubmissionFails, Throws, PrTypeOK
<1>8. CASE HoldBlocked
  BY <1>8, HumanType DEF HoldBlocked, PrTypeOK
<1>9. CASE ReadOwner
  BY <1>9 DEF ReadOwner, PrTypeOK
<1>10. CASE LiftHold
  BY <1>0, <1>10, HumanType DEF LiftHold, Throws, PrTypeOK
<1>11. CASE EndReview
  BY <1>0, <1>11 DEF EndReview, PrTypeOK
<1>12. CASE ReportFailure
  BY <1>0, <1>12, HumanType DEF ReportFailure, PrTypeOK
<1>13. CASE ReviewKilled
  <2>1. review' \in ReviewRecord
    BY <1>0, <1>13 DEF ReviewKilled
  <2> QED BY <1>0, <1>13, <2>1 DEF ReviewKilled, PrTypeOK
<1> QED
  BY <1>1, <1>2, <1>3, <1>4, <1>5, <1>6, <1>7, <1>8, <1>9, <1>10, <1>11, <1>12, <1>13
     DEF ReviewStep

LEMMA FixType == TypeOK /\ FixStep => PrTypeOK' /\ fix' \in FixRecord
<1> SUFFICES ASSUME TypeOK, FixStep PROVE PrTypeOK' /\ fix' \in FixRecord
  OBVIOUS
<1> USE DEF TypeOK, RunnersTypeOK, FixRecord, branchVars, labelVars, otherVars, prVars
<1>0. PrTypeOK /\ NoFix \in FixRecord
  BY NoJobType
<1>1. CASE StartFix
  BY <1>1 DEF StartFix, PrTypeOK
<1>2. CASE FixerPushes
  <2>1. PICK still \in BOOLEAN : NewHead(still)
    BY <1>2 DEF FixerPushes, PrTypeOK
  <2>2. fix' \in FixRecord
    BY <1>0, <1>2 DEF FixerPushes
  <2> QED BY <1>2, <2>1, <2>2, NewHeadType DEF FixerPushes, PrTypeOK
<1>3. CASE FixerGivesUp
  BY <1>0, <1>3 DEF FixerGivesUp, PrTypeOK
<1>4. CASE AskReview
  BY <1>4 DEF AskReview, Queued, PrTypeOK, PrLabel
<1>5. CASE EndFix
  BY <1>0, <1>5 DEF EndFix, PrTypeOK
<1>6. CASE FixKilled
  BY <1>0, <1>6 DEF FixKilled, PrTypeOK
<1> QED BY <1>1, <1>2, <1>3, <1>4, <1>5, <1>6 DEF FixStep

-----------------------------------------------------------------------------
(* The pass                                                                *)

\* What a verdict may be, and where the plan leaves the pass.
LEMMA PlanType ==
  ASSUME pass \in [Pass -> PassRecord], NEW p \in Pass,
         NEW S, S.head \in 1..MaxHead, PlanOn(p, S)
  PROVE  pass' \in [Pass -> PassRecord]
<1> DEFINE verdict == Verdict(S)
           decided == [NoPass EXCEPT !.pc = "write", !.verdict = verdict, !.head = S.head,
                                     !.red = FailingChecks(S)]
<1>1. FailingChecks(S) \in SUBSET Check
  BY DEF FailingChecks
<1>2. pass' = [pass EXCEPT ![p] = IF verdict \notin Writing THEN NoPass ELSE decided]
  BY DEF PlanOn
<1> HIDE DEF verdict
<1>3. verdict \in Writing => decided \in PassRecord
  BY <1>1, NoPassType DEF PassRecord
<1> QED BY <1>2, <1>3, NoPassType

LEMMA SnapshotHead ==
  ASSUME NEW p, NEW failed
  PROVE  Snapshot(p, failed).head = pass[p].seen.head
BY DEF Snapshot

\* What a list of PRs may say.
LEMMA ListedNow ==
  ASSUME TypeOK, NEW p \in Pass, NEW own \in BOOLEAN, ReadPr(p, own)
  PROVE  pass' \in [Pass -> PassRecord]
<1>1. PICK mergeable \in {"MERGEABLE", "CONFLICTING", "UNKNOWN"},
           state \in {"CLEAN", "BEHIND", "BLOCKED", "DIRTY", "UNSTABLE", "UNKNOWN"},
           mainRed \in SUBSET Check :
        pass' = [pass EXCEPT ![p] = [NoPass EXCEPT !.pc = "rest",
                                                   !.seen = Seen(own, mergeable, state, mainRed)]]
  <2> DEFINE State == {"CLEAN", "BEHIND", "BLOCKED", "DIRTY", "UNSTABLE", "UNKNOWN"}
             mergeables == {IF conflict THEN "CONFLICTING" ELSE "MERGEABLE"}
                             \union May("unsettled", {"UNKNOWN"})
             states == {IF own /\ MergeState = "CLEAN" THEN "UNSTABLE" ELSE MergeState}
                         \union May("oldstate", {"CLEAN"})
             mains == {main} \union May("mainchecks", {{}})
  <2>1. mergeables \subseteq {"MERGEABLE", "CONFLICTING", "UNKNOWN"}
    BY DEF May
  <2>2. MergeState \in State
    BY DEF MergeState
  <2>3. states \subseteq State
    BY <2>2 DEF May
  <2>4. mains \subseteq SUBSET Check
    BY DEF May, TypeOK, PrTypeOK
  <2>5. \E mergeable \in mergeables, state \in states, mainRed \in mains :
          pass' = [pass EXCEPT ![p] = [NoPass EXCEPT !.pc = "rest",
                                                   !.seen = Seen(own, mergeable, state, mainRed)]]
    BY DEF ReadPr, Mergeable
  <2> HIDE DEF mergeables, states, mains
  <2> QED BY <2>1, <2>3, <2>4, <2>5
<1> DEFINE undecided == ReviewRequired /\ ops.state = "none"
<1>2. undecided \in BOOLEAN
  OBVIOUS
<1> HIDE DEF undecided
<1>3. [labels |-> labels \ {"review"}, checks |-> checks, main |-> mainRed, head |-> head,
       mergeable |-> mergeable, state |-> state, armed |-> armed,
       undecided |-> undecided, own |-> own] \in ListedType
  BY <1>2 DEF TypeOK, PrTypeOK, ListedType
<1>4. Seen(own, mergeable, state, mainRed) \in ListedType
  BY <1>3 DEF Seen, undecided
<1> QED BY <1>1, <1>4, NoPassType DEF TypeOK, PassTypeOK, PassRecord

LEMMA PassStepType == TypeOK /\ PassStep => PrTypeOK' /\ PassTypeOK'
<1> SUFFICES ASSUME TypeOK, NEW p \in Pass,
                    (\E own \in BOOLEAN : ReadPr(p, own)) \/ PassGoesOn(p)
             PROVE  PrTypeOK' /\ PassTypeOK'
  BY DEF PassStep
<1> USE DEF TypeOK, branchVars, labelVars, otherVars, prVars
<1>d. ASSUME Done(p) PROVE pass' \in [Pass -> PassRecord]
  BY <1>d, NoPassType DEF Done, PassTypeOK
<1>1. ASSUME NEW own \in BOOLEAN, ReadPr(p, own) PROVE PrTypeOK' /\ PassTypeOK'
  <2>1. pass' \in [Pass -> PassRecord]
    BY <1>1, ListedNow
  <2>2. UNCHANGED <<prVars, retries>>
    BY <1>1 DEF ReadPr
  <2>3. PrTypeOK'
    BY <2>2 DEF PrTypeOK
  <2> QED BY <2>1, <2>2, <2>3 DEF PassTypeOK
<1>2. CASE ReadRest(p)
  <2>1. PICK failed : PlanOn(p, Snapshot(p, failed))
    BY <1>2 DEF ReadRest
  <2>2. Snapshot(p, failed).head \in 1..MaxHead
    BY SnapshotHead DEF PassTypeOK, PassRecord, ListedType
  <2> QED BY <1>2, <2>1, <2>2, PlanType DEF ReadRest, PrTypeOK, PassTypeOK
<1>3. CASE Arm(p)
  BY <1>3, <1>d DEF Arm, PrTypeOK, PassTypeOK
<1>4. CASE DirectMerge(p)
  BY <1>4, <1>d DEF DirectMerge, PrTypeOK, PassTypeOK
<1>5. CASE Disarm(p)
  BY <1>5, <1>d DEF Disarm, PrTypeOK, PassTypeOK
<1>6. CASE UpdateBranch(p)
  <2>1. /\ head' \in 1..MaxHead /\ checks' \in [Check \ Plumbing -> CheckState]
        /\ conflict' \in BOOLEAN
    BY <1>6, NewHeadType DEF UpdateBranch
  <2> QED BY <1>6, <1>d, <2>1 DEF UpdateBranch, PrTypeOK, PassTypeOK
<1>7. CASE Refused(p)
  BY <1>7, <1>d DEF Refused, PrTypeOK, PassTypeOK
<1>8. CASE Rerun(p)
  <2>1. checks' \in [Check \ Plumbing -> CheckState]
    BY <1>8 DEF Rerun, PrTypeOK, CheckState
  <2>2. pass' \in [Pass -> PassRecord]
    BY <1>8, NoPassType DEF Rerun, PassTypeOK, PassRecord
  <2> QED BY <1>8, <2>1, <2>2 DEF Rerun, PrTypeOK, PassTypeOK
<1>9. CASE MarkRerun(p)
  BY <1>9, <1>d DEF MarkRerun, PrTypeOK, PassTypeOK
<1>10. CASE ApplyFix(p)
  <2>1. pass' \in [Pass -> PassRecord]
    BY <1>10 DEF ApplyFix, PassTypeOK, PassRecord
  <2> QED BY <1>10, <2>1 DEF ApplyFix, Queued, PrTypeOK, PassTypeOK, PrLabel
<1>11. CASE DispatchFix(p)
  <2>1. fixJobs' \in 0..1
    BY <1>11 DEF DispatchFix, PrTypeOK
  <2> QED BY <1>11, <1>d, <2>1 DEF DispatchFix, PrTypeOK, PassTypeOK
<1>12. CASE Escalate(p)
  BY <1>12, <1>d, HumanType DEF Escalate, PrTypeOK, PassTypeOK
<1>13. CASE PassKilled(p)
  BY <1>13, <1>d DEF PassKilled, PrTypeOK, PassTypeOK
<1> QED
  BY <1>1, <1>2, <1>3, <1>4, <1>5, <1>6, <1>7, <1>8, <1>9, <1>10, <1>11, <1>12, <1>13
     DEF PassGoesOn, Write

LEMMA HistoryType == Remember => raced' \in BOOLEAN /\ unheld' \in BOOLEAN
BY Zenon DEF Remember

\* A step of Next or a stutter, by who takes it.
LEMMA Steps ==
  ASSUME [Next]_vars
  PROVE  \/ Outside /\ UNCHANGED <<review, fix, passVars>> /\ Remember
         \/ ReviewStep /\ UNCHANGED passVars /\ Remember
         \/ FixStep /\ UNCHANGED passVars /\ Remember
         \/ PassStep /\ Remember
         \/ UNCHANGED vars
BY DEF Next

\* The jobs leave each other alone, and the pass leaves both.
LEMMA Apart ==
  /\ ReviewStep => fix' = fix
  /\ FixStep => review' = review
  /\ PassStep => review' = review /\ fix' = fix
<1>1. ReviewStep => fix' = fix
  BY DEF ReviewStep, StartReview, ReviewerJudges, ReviewerPushes, ReviewerFails, Withhold, Submit,
         SubmissionFails, HoldBlocked, ReadOwner, LiftHold, EndReview, ReportFailure, ReviewKilled
<1>2. FixStep => review' = review
  BY DEF FixStep, StartFix, FixerPushes, FixerGivesUp, AskReview, EndFix, FixKilled
<1>3. PassStep => review' = review /\ fix' = fix
  BY DEF PassStep, PassGoesOn, Write, ReadPr, ReadRest, Arm, DirectMerge, Disarm, UpdateBranch,
         Refused, Rerun, MarkRerun, ApplyFix, DispatchFix, Escalate, PassKilled
<1> QED BY <1>1, <1>2, <1>3

LEMMA TypeNext == TypeOK /\ [Next]_vars => TypeOK'
<1> SUFFICES ASSUME TypeOK, [Next]_vars PROVE TypeOK'
  OBVIOUS
<1> USE DEF TypeOK, RunnersTypeOK
<1>1. CASE Outside /\ UNCHANGED <<review, fix, passVars>> /\ Remember
  <2>1. PrTypeOK' /\ raced' \in BOOLEAN /\ unheld' \in BOOLEAN
    BY <1>1, OutsideType, HistoryType
  <2> QED BY <1>1, <2>1 DEF PassTypeOK, passVars
<1>2. CASE ReviewStep /\ UNCHANGED passVars /\ Remember
  <2>1. /\ PrTypeOK' /\ review' \in ReviewRecord /\ fix' = fix
        /\ raced' \in BOOLEAN /\ unheld' \in BOOLEAN
    BY <1>2, ReviewType, HistoryType, Apart
  <2> QED BY <1>2, <2>1 DEF PassTypeOK, passVars
<1>3. CASE FixStep /\ UNCHANGED passVars /\ Remember
  <2>1. /\ PrTypeOK' /\ fix' \in FixRecord /\ review' = review
        /\ raced' \in BOOLEAN /\ unheld' \in BOOLEAN
    BY <1>3, FixType, HistoryType, Apart
  <2> QED BY <1>3, <2>1 DEF PassTypeOK, passVars
<1>4. CASE PassStep /\ Remember
  <2>1. /\ PrTypeOK' /\ PassTypeOK' /\ review' = review /\ fix' = fix
        /\ raced' \in BOOLEAN /\ unheld' \in BOOLEAN
    BY <1>4, PassStepType, HistoryType, Apart
  <2> QED BY <2>1
<1>5. CASE UNCHANGED vars
  BY <1>5 DEF vars, prVars, branchVars, labelVars, otherVars, runnerVars, passVars, PrTypeOK,
              PassTypeOK
<1> QED BY <1>1, <1>2, <1>3, <1>4, <1>5, Steps

\* The type invariant of the pull request, its jobs and the passes: the label
\* needs:human and the one who applied it agree, whoever applies and drops it.
THEOREM PrTypeCorrect == Spec => []TypeOK
<1>1. Init => TypeOK
  BY TypeInit
<1>2. TypeOK /\ [Next]_vars => TypeOK'
  BY TypeNext
<1> QED BY <1>1, <1>2, PTL DEF Spec

-----------------------------------------------------------------------------
(* Holds                                                                   *)

\* Who takes needs:human off: a person, or a verdict that lifts its own hold.
LEMMA WhoDrops ==
  ASSUME TypeOK, Outside \/ ReviewStep \/ FixStep \/ PassStep,
         "human" \in labels, "human" \notin labels'
  PROVE  moves' > moves \/ (review.pc = "lift" /\ LiftHold)
<1> USE DEF labelVars, prVars
<1>1. CASE Outside
  <2>1. ASSUME NEW c \in Check \ Plumbing, CheckStarts(c) \/ CheckEnds(c) \/ MainTurns(c)
        PROVE  FALSE
    BY <2>1 DEF CheckStarts, CheckEnds, MainTurns
  <2>2. PersonReleases
    BY <1>1, <2>1 DEF Outside, GithubMerges, MainMoves, Push, PersonHolds, AddHuman, IssueHold,
                      Objects, AsksReview, PersonCloses
  <2> QED BY <2>2, PullRequestAssumption DEF PersonReleases, Move, TypeOK, PrTypeOK
<1>2. CASE ReviewStep
  <2>1. LiftHold
    BY <1>2 DEF ReviewStep, StartReview, ReviewerJudges, ReviewerPushes, ReviewerFails, Withhold,
                Submit, SubmissionFails, HoldBlocked, AddHuman, ReadOwner, EndReview,
                ReportFailure, ReviewKilled
  <2> QED BY <2>1 DEF LiftHold
<1>3. CASE FixStep
  BY <1>3 DEF FixStep, StartFix, FixerPushes, FixerGivesUp, AskReview, EndFix, FixKilled
<1>4. CASE PassStep
  BY <1>4 DEF PassStep, PassGoesOn, Write, ReadPr, ReadRest, Arm, DirectMerge, Disarm,
              UpdateBranch, Refused, Rerun, MarkRerun, ApplyFix, DispatchFix, Escalate, AddHuman,
              PassKilled
<1> QED BY <1>1, <1>2, <1>3, <1>4

\* What a verdict that is about to lift a hold found, and only a race can have changed.
Lifting == review.pc = "lift" /\ holder = "person" => raced

\* The steps of a review that do not bring it near the lifting of a hold.
LEMMA Elsewhere ==
  ASSUME TypeOK, ReviewStep, ~Submit, ~ReadOwner
  PROVE  review'.pc \notin {"owner", "lift"}
<1> USE DEF TypeOK, RunnersTypeOK, ReviewRecord, Goto
<1>1. CASE StartReview
  BY <1>1 DEF StartReview, NoReview
<1>2. CASE ReviewerJudges
  <2>1. PICK clean : review' = [NoReview EXCEPT !.pc = "submit", !.clean = clean]
    BY <1>2 DEF ReviewerJudges
  <2> QED BY <2>1 DEF NoReview
<1>3. CASE ReviewerPushes
  <2>1. PICK clean, verified :
          review' = [NoReview EXCEPT !.pc = "submit", !.clean = clean, !.verified = verified]
    BY <1>3 DEF ReviewerPushes
  <2> QED BY <2>1 DEF NoReview
<1>4. CASE ReviewerFails \/ Withhold \/ SubmissionFails \/ HoldBlocked
  BY <1>4 DEF ReviewerFails, Withhold, SubmissionFails, HoldBlocked, Throws, Died, Reporting,
              NoReview
<1>5. CASE LiftHold \/ EndReview
  BY <1>5 DEF LiftHold, EndReview, Throws, Died, Reporting, NoReview
<1>6. CASE ReportFailure \/ ReviewKilled
  BY <1>6 DEF ReportFailure, ReviewKilled, Died, NoReview
<1> QED BY <1>1, <1>2, <1>3, <1>4, <1>5, <1>6 DEF ReviewStep

\* A review comes to lift a hold from the reading of the timeline.
LEMMA ToLift ==
  ASSUME TypeOK, ReviewStep, review.pc # "lift", review'.pc = "lift"
  PROVE  holder = "ops" /\ holder' = holder
<1> USE DEF TypeOK, RunnersTypeOK, ReviewRecord, prVars, labelVars, Goto
<1>1. ReadOwner
  BY Elsewhere DEF Submit
<1> QED BY <1>1 DEF ReadOwner

LEMMA LiftingNext == TypeOK /\ Lifting /\ [Next]_vars => Lifting'
<1> SUFFICES ASSUME TypeOK, Lifting, [Next]_vars, review'.pc = "lift", holder' = "person"
             PROVE  raced'
  BY DEF Lifting
<1>1. CASE UNCHANGED vars
  BY <1>1 DEF vars, prVars, labelVars, runnerVars, Lifting
<1>2. CASE Remember
  <2>1. CASE review.pc = "lift"
    BY <1>2, <2>1, Zenon DEF Remember, Lifting
  <2>2. CASE review.pc # "lift"
    BY <1>1, <2>2, ToLift, Apart, Steps
  <2> QED BY <2>1, <2>2
<1> QED BY <1>1, <1>2, Steps

\* A hold of a person is taken off by a person, or lost to the race.
THEOREM PersonsHoldStands == Spec => HoldStands
<1>1. Init => Lifting
  BY DEF Init, RunnersInit, NoReview, Died, Lifting
<1>2. ASSUME TypeOK, Lifting, [Next]_vars
      PROVE  [holder = "person" /\ "human" \notin labels' => moves' > moves \/ raced]_vars
  <2> SUFFICES ASSUME holder = "person", "human" \notin labels', ~UNCHANGED vars
               PROVE  moves' > moves \/ raced
    OBVIOUS
  <2>1. "human" \in labels
    BY <1>2 DEF TypeOK, PrTypeOK
  <2>2. Outside \/ ReviewStep \/ FixStep \/ PassStep
    BY <1>2, Steps
  <2>3. moves' > moves \/ review.pc = "lift"
    BY <1>2, <2>1, <2>2, WhoDrops
  <2> QED BY <1>2, <2>3 DEF Lifting
<1>3. TypeOK /\ Lifting /\ [Next]_vars => Lifting'
  BY LiftingNext
<1> QED BY <1>1, <1>2, <1>3, PrTypeCorrect, PTL DEF Spec, HoldStands

\* The steps that may lift a hold follow an approval.
Approving == review.pc \in {"owner", "lift"} => ops.state = "approved"

\* Only the submission of a verdict changes the approver's opinion.
LEMMA OpinionStays ==
  /\ Outside \/ FixStep \/ PassStep => ops' = ops
  /\ ReviewStep => ops' = ops \/ Submit
<1> USE DEF prVars
<1>1. Outside => ops' = ops
  BY DEF Outside, CheckStarts, CheckEnds, MainTurns, GithubMerges, MainMoves, Push, PersonHolds,
         PersonReleases, IssueHold, Objects, AsksReview, PersonCloses
<1>2. FixStep => ops' = ops
  BY DEF FixStep, StartFix, FixerPushes, FixerGivesUp, AskReview, EndFix, FixKilled
<1>3. PassStep => ops' = ops
  BY DEF PassStep, PassGoesOn, Write, ReadPr, ReadRest, Arm, DirectMerge, Disarm, UpdateBranch,
         Refused, Rerun, MarkRerun, ApplyFix, DispatchFix, Escalate, PassKilled
<1>4. ReviewStep => ops' = ops \/ Submit
  BY DEF ReviewStep, StartReview, ReviewerJudges, ReviewerPushes, ReviewerFails, Withhold,
         SubmissionFails, HoldBlocked, ReadOwner, LiftHold, EndReview, ReportFailure, ReviewKilled
<1> QED BY <1>1, <1>2, <1>3, <1>4

\* After a submission the job applies the hold, or reads whose hold it is.
LEMMA AfterSubmit ==
  ASSUME TypeOK, Submit
  PROVE  \/ ops'.state = "approved" /\ review'.pc = "owner"
         \/ ops'.state = "changes" /\ review'.pc = "hold"
BY DEF Submit, Goto, TypeOK, RunnersTypeOK, ReviewRecord

\* Where a job comes from that is about to read or lift a hold.
LEMMA ToOwner ==
  ASSUME TypeOK, ReviewStep, review'.pc \in {"owner", "lift"}
  PROVE  Submit \/ review.pc \in {"owner", "lift"}
BY Elsewhere DEF ReadOwner

LEMMA ApprovingNext == TypeOK /\ Approving /\ [Next]_vars => Approving'
<1> SUFFICES ASSUME TypeOK, Approving, [Next]_vars, review'.pc \in {"owner", "lift"}
             PROVE  ops'.state = "approved"
  BY DEF Approving
<1>1. CASE UNCHANGED vars
  BY <1>1 DEF vars, prVars, runnerVars, Approving
<1>2. CASE ReviewStep
  BY <1>2, ToOwner, AfterSubmit, OpinionStays DEF Approving
<1>3. CASE Outside /\ UNCHANGED <<review, fix, passVars>>
  BY <1>3, OpinionStays DEF Approving
<1>4. CASE FixStep \/ PassStep
  BY <1>4, OpinionStays, Apart DEF Approving
<1> QED BY <1>1, <1>2, <1>3, <1>4, Steps

\* A job that owes the hold applies it, or goes on owing it, or dies: it is killed, or
\* fails and reports nothing.
LEMMA FromHold ==
  ASSUME TypeOK, ReviewStep, review.pc \in {"hold", "report"}
  PROVE  \/ review'.pc \in {"hold", "report"}
         \/ "human" \in labels'
         \/ review'.pc = "dead"
BY DEF TypeOK, RunnersTypeOK, ReviewRecord, Goto, ReviewStep, StartReview,
       ReviewerJudges, ReviewerPushes, ReviewerFails, Withhold, Submit, SubmissionFails,
       HoldBlocked, ReadOwner, LiftHold, EndReview, ReportFailure, ReviewKilled, NoReview, Died,
       Reporting, Throws, AddHuman

LEMMA HeldNext == TypeOK /\ Approving /\ BlockedIsHeld /\ [Next]_vars => BlockedIsHeld'
<1> SUFFICES ASSUME TypeOK, Approving, BlockedIsHeld, [Next]_vars, ops'.state = "changes"
             PROVE  "human" \in labels' \/ unheld' \/ review'.pc \in {"hold", "report"}
  BY DEF BlockedIsHeld
<1>1. CASE UNCHANGED vars
  BY <1>1 DEF vars, prVars, labelVars, runnerVars, BlockedIsHeld
<1>2. CASE Submit
  BY <1>2, AfterSubmit
<1>3. CASE ops' = ops /\ Remember /\ ~UNCHANGED vars
  <2>1. CASE unheld
    BY <1>3, <2>1, Zenon DEF Remember
  <2>2. CASE "human" \in labels /\ "human" \notin labels'
    <3>1. moves' > moves
      BY <1>3, <2>2, WhoDrops, Steps DEF Approving
    <3> QED BY <1>3, <2>2, <3>1 DEF Remember
  <2>3. CASE review.pc \in {"hold", "report"}
    <3>1. CASE review' = review
      BY <2>3, <3>1
    <3>2. CASE ReviewStep
      BY <1>3, <2>3, <3>2, FromHold, Zenon DEF Remember
    <3> QED BY <1>3, <3>1, <3>2, Steps, Apart
  <2> QED BY <1>3, <2>1, <2>2, <2>3 DEF BlockedIsHeld
<1> QED BY <1>1, <1>2, <1>3, Steps, OpinionStays

\* A pull request whose last verdict blocks is held: whatever call fails between the verdict
\* and the hold of a review job, whatever people, passes and the fixer do meanwhile, the job
\* still owes the hold.  Only a person's own release ends that, or the death of the job: the
\* implement runner, whose verdict is the first, reports no failure and dies of any.
THEOREM BlockedStaysHeld == Spec => []BlockedIsHeld
<1>1. ASSUME Init PROVE Approving /\ BlockedIsHeld
  <2>1. review.pc \in {"dead", "submit"}
    BY <1>1 DEF Init, RunnersInit, NoReview, Died
  <2>2. ops.state = "none"
    BY <1>1 DEF Init, PrInit
  <2> QED BY <2>1, <2>2 DEF Approving, BlockedIsHeld
<1>2. TypeOK /\ Approving /\ [Next]_vars => Approving'
  BY ApprovingNext
<1>3. TypeOK /\ Approving /\ BlockedIsHeld /\ [Next]_vars => BlockedIsHeld'
  BY HeldNext
<1> QED BY <1>1, <1>2, <1>3, PrTypeCorrect, PTL DEF Spec

-----------------------------------------------------------------------------
(* The repair budget                                                       *)

\* Passes do not overlap, and the timeline can be read.
CountsRight == (\A p, q \in Pass : p = q) /\ "history" \notin Faults

\* A dispatch that was decided and not yet made is within the budget still.
Counted ==
  \A p \in Pass : pass[p].pc = "write" /\ pass[p].verdict = "repair" => fixes < RepairBudget

LEMMA RepairWithin ==
  ASSUME NEW S, Verdict(S) = "repair"
  PROVE  S.fixes < RepairBudget
<1>1. RepairVerdict(S) = "repair"
  BY DEF Verdict
<1>2. PlanRepair(S) = "repair"
  BY <1>1 DEF RepairVerdict
<1> QED BY <1>2 DEF PlanRepair, WithinBudget

LEMMA SnapshotFixes ==
  ASSUME NEW p, NEW failed, "history" \notin failed
  PROVE  Snapshot(p, failed).fixes = fixes
BY DEF Snapshot, RepairsRead, RepairAttempts

\* Who labels for a fix: the pass that decided it.
LEMMA WhoLabels ==
  ASSUME TypeOK, Outside \/ ReviewStep \/ FixStep \/ PassStep, fixes' # fixes
  PROVE  \E p \in Pass : ApplyFix(p)
<1> USE DEF labelVars, prVars
<1>1. ~Outside
  <2>1. ASSUME NEW c \in Check \ Plumbing, CheckStarts(c) \/ CheckEnds(c) \/ MainTurns(c)
        PROVE  FALSE
    BY <2>1 DEF CheckStarts, CheckEnds, MainTurns
  <2> QED BY <2>1 DEF Outside, GithubMerges, MainMoves, Push, PersonHolds, PersonReleases, IssueHold,
                      Objects, AsksReview, PersonCloses
<1>2. ~ReviewStep
  BY DEF ReviewStep, StartReview, ReviewerJudges, ReviewerPushes, ReviewerFails, Withhold, Submit,
         SubmissionFails, HoldBlocked, ReadOwner, LiftHold, EndReview, ReportFailure, ReviewKilled
<1>3. ~FixStep
  BY DEF FixStep, StartFix, FixerPushes, FixerGivesUp, AskReview, EndFix, FixKilled
<1> QED BY <1>1, <1>2, <1>3 DEF PassStep, PassGoesOn, Write, ReadPr, ReadRest, Arm, DirectMerge,
           Disarm, UpdateBranch, Refused, Rerun, MarkRerun, DispatchFix, Escalate, PassKilled

\* A pass comes to a dispatch from the reading of the timeline.
LEMMA ToRepair ==
  ASSUME TypeOK, CountsRight, PassStep, NEW p \in Pass,
         pass'[p].pc = "write", pass'[p].verdict = "repair", pass'[p] # pass[p]
  PROVE  fixes < RepairBudget
<1> USE DEF TypeOK, PassTypeOK, PassRecord, Done, NoPass
<1>1. \A q \in Pass : q = p
  BY DEF CountsRight
<1>2. ReadRest(p)
  <2>1. ~\E own \in BOOLEAN : ReadPr(p, own)
    <3> SUFFICES ASSUME NEW own \in BOOLEAN, ReadPr(p, own) PROVE FALSE
      OBVIOUS
    <3>1. PICK seen : pass' = [pass EXCEPT ![p] = [NoPass EXCEPT !.pc = "rest", !.seen = seen]]
      BY DEF ReadPr
    <3>2. pass'[p].pc = "rest"
      BY <3>1
    <3> QED BY <3>2
  <2>2. pass'[p] # NoPass
    OBVIOUS
  <2>3. ~Done(p)
    BY <2>2
  <2>4. ~Rerun(p)
    <3> SUFFICES ASSUME Rerun(p) PROVE FALSE
      OBVIOUS
    <3>1. pass'[p] = [pass[p] EXCEPT !.pc = "mark"] \/ pass'[p] = NoPass
      BY DEF Rerun
    <3> QED BY <3>1
  <2>5. ~ApplyFix(p)
    BY DEF ApplyFix
  <2> QED
    BY ONLY <1>1, <2>1, <2>3, <2>4, <2>5, PassStep
    DEF PassStep, PassGoesOn, Write, Arm, DirectMerge, Disarm, UpdateBranch, Refused, MarkRerun,
        DispatchFix, Escalate, PassKilled
<1>3. PICK failed : /\ failed \in {{}, Unreadable} \union {{r} : r \in Unreadable}
                    /\ PlanOn(p, Snapshot(p, failed))
  BY <1>2 DEF ReadRest
<1>4. "history" \notin failed
  BY <1>3 DEF Unreadable, CountsRight
<1>5. Verdict(Snapshot(p, failed)) = "repair"
  BY <1>3 DEF PlanOn
<1> QED BY <1>4, <1>5, RepairWithin, SnapshotFixes

LEMMA CountedNext ==
  ASSUME CountsRight
  PROVE  TypeOK /\ Counted /\ [Next]_vars => Counted'
<1> SUFFICES ASSUME TypeOK, Counted, [Next]_vars, NEW p \in Pass,
                    pass'[p].pc = "write", pass'[p].verdict = "repair"
             PROVE  fixes' < RepairBudget
  BY DEF Counted
<1>1. CASE pass'[p] = pass[p]
  <2>1. fixes' = fixes
    <3>1. ASSUME NEW q \in Pass, ApplyFix(q) PROVE FALSE
      BY <1>1, <3>1 DEF CountsRight, ApplyFix, Decided, TypeOK, PassTypeOK, PassRecord
    <3> QED BY <3>1, WhoLabels, Steps DEF vars, prVars, labelVars
  <2> QED BY <1>1, <2>1 DEF Counted
<1>2. CASE pass'[p] # pass[p]
  <2>1. PassStep
    BY <1>2, Steps DEF passVars, vars
  <2>2. fixes' = fixes
    <3>1. ASSUME NEW q \in Pass, ApplyFix(q) PROVE FALSE
      BY <3>1 DEF CountsRight, ApplyFix, TypeOK, PassTypeOK, PassRecord
    <3> QED BY <2>1, <3>1, WhoLabels
  <2> QED BY <1>2, <2>1, <2>2, ToRepair
<1> QED BY <1>1, <1>2

\* Where passes do not overlap and the timeline can be read, a pull request gets no more
\* dispatches of agent:fix than its budget, whatever jobs, people and failures do.
THEOREM RepairsEnd ==
  ASSUME CountsRight
  PROVE  Spec => RepairBounded
<1>1. Init => Counted
  BY DEF Init, PassInit, NoPass, Counted
<1>2. ASSUME TypeOK, Counted, [Next]_vars
      PROVE  [fixes' > fixes => fixes < RepairBudget]_vars
  <2> SUFFICES ASSUME fixes' > fixes, ~UNCHANGED vars PROVE fixes < RepairBudget
    OBVIOUS
  <2>1. PICK p \in Pass : ApplyFix(p)
    BY <1>2, WhoLabels, Steps DEF TypeOK, PrTypeOK
  <2> QED BY <1>2, <2>1 DEF ApplyFix, Decided, Counted
<1>3. TypeOK /\ Counted /\ [Next]_vars => Counted'
  BY CountedNext
<1> QED BY <1>1, <1>2, <1>3, TypeInit, TypeNext, PTL DEF Spec, RepairBounded

-----------------------------------------------------------------------------
(* The gate                                                                *)

\* Blockers that a pass may leave to GitHub, which waits for the running checks.
Waiting == {"checks-pending", "required-check-not-green", "merge-state"}

\* Blockers that a fix of the branch may remove.
Mendable == {"required-check-not-green", "checks-failing", "conflict", "merge-state"}

\* All that protection cannot ask for, or does not ask for everywhere.
Approved(S) ==
  /\ S.unfit = {}
  /\ "human" \notin S.labels /\ ~S.issueHeld
  /\ S.ops.state = "approved" /\ S.ops.on = S.head
  /\ ~S.objection /\ ~S.undecided

LEMMA UnblockedIsApproved ==
  ASSUME NEW S, Blockers(S) \subseteq Waiting \union Mendable,
         S.unfit \intersect (Waiting \union Mendable) = {}
  PROVE  Approved(S)
<1> DEFINE B == Blockers(S)
<1>1. /\ S.unfit \subseteq B
      /\ When("needs-human", "human" \in S.labels) \subseteq B
      /\ When("needs-human-issue", S.issueHeld) \subseteq B
      /\ ReviewBlockers(S) \subseteq B
  BY DEF Blockers
<1> HIDE DEF B
<1>2. B \subseteq {"checks-pending", "required-check-not-green", "merge-state", "checks-failing",
                   "conflict"}
  BY DEF B, Waiting, Mendable
<1>3. S.unfit = {}
  BY <1>1 DEF B
<1>4. "human" \notin S.labels /\ ~S.issueHeld
  BY <1>1, <1>2 DEF When
<1>5. ReviewBlockers(S) \intersect {"review-changes-requested", "review-required",
                                    "approval-missing", "approval-stale"} = {}
  BY <1>1, <1>2
<1>6. /\ S.ops.state = "approved" /\ S.ops.on = S.head
      /\ ~S.objection /\ ~S.undecided
  <2>1. /\ When("review-changes-requested", S.objection \/ S.ops.state = "changes") = {}
        /\ When("review-required", S.undecided) = {}
        /\ When("approval-missing",
                "approver-unknown" \notin S.unfit /\ S.ops.state # "approved") = {}
        /\ When("approval-stale", /\ "approver-unknown" \notin S.unfit
                                  /\ S.ops.state = "approved"
                                  /\ S.ops.on # S.head) = {}
    BY <1>5 DEF ReviewBlockers, When
  <2> QED BY <1>3, <2>1 DEF When
<1> QED BY <1>3, <1>4, <1>6 DEF Approved

LEMMA RepairVerdictType ==
  ASSUME NEW S
  PROVE  RepairVerdict(S) \in {"none", "escalate", "repair", "retry"}
BY DEF RepairVerdict, PlanRepair, WithinBudget

\* What is armed or merged has no blocker, or only such as wait.
LEMMA MergingIsUnblocked ==
  ASSUME NEW S, Verdict(S) \in Merging
  PROVE  /\ ~S.armed
         /\ Blockers(S) \subseteq PendingShaped(S)
         /\ Verdict(S) = "merge" => Blockers(S) = {}
<1> DEFINE real == Blockers(S) \ PendingShaped(S)
<1>1. RepairVerdict(S) = "none"
  BY RepairVerdictType DEF Verdict, Merging
<1>2. real = {} /\ ~S.armed
  BY <1>1 DEF Verdict, Merging
<1>3. Verdict(S) = "merge" => Blockers(S) = {}
  BY <1>1, <1>2 DEF Verdict
<1> QED BY <1>2, <1>3

\* The gate is stricter than protection.  What it arms or merges is approved at its head by
\* the approver, with no objection and no hold on it or on its issue; no check is red, every
\* required one reports, and they are green when the pass merges by itself.
THEOREM GateIsStrict ==
  ASSUME NEW S, S.rollup \in [Check -> CheckState],
         S.unfit \intersect (Waiting \union Mendable) = {},
         Verdict(S) \in Merging
  PROVE  /\ Approved(S)
         /\ S.mergeable \notin {"CONFLICTING", "UNKNOWN"}
         /\ \A c \in Check \ Plumbing : S.rollup[c] \notin Failing
         /\ \A c \in Required : S.rollup[c] \in {"green", "pending"}
         /\ Verdict(S) = "merge" => /\ \A c \in Required : S.rollup[c] = "green"
                                    /\ \A c \in Check \ Plumbing : S.rollup[c] # "pending"
<1> DEFINE B == Blockers(S)
           states == {S.rollup[c] : c \in Check \ Plumbing}
<1>1. PendingShaped(S) \subseteq Waiting
  BY DEF PendingShaped, When, Waiting
<1>2. B \subseteq Waiting /\ (Verdict(S) = "merge" => B = {})
  BY <1>1, MergingIsUnblocked
<1>3. CheckBlockers(S) \subseteq B /\ MergeBlockers(S) \subseteq B
  BY DEF Blockers
<1>4. Approved(S)
  BY <1>2, UnblockedIsApproved DEF Waiting, Mendable
<1> HIDE DEF B
<1>5. S.mergeable \notin {"CONFLICTING", "UNKNOWN"}
  <2>1. /\ When("conflict", S.mergeable = "CONFLICTING") \subseteq MergeBlockers(S)
        /\ When("mergeable-unsettled", S.mergeable = "UNKNOWN") \subseteq MergeBlockers(S)
    BY DEF MergeBlockers
  <2>2. "conflict" \notin B /\ "mergeable-unsettled" \notin B
    BY <1>2 DEF Waiting
  <2> QED BY <1>3, <2>1, <2>2 DEF When
<1>6. /\ When("required-check-missing", SomeRequired(S, {"missing"})) \subseteq B
      /\ When("required-check-unverified", SomeRequired(S, {"skipped"})) \subseteq B
      /\ When("required-check-not-green", SomeRequired(S, Failing \union {"pending"})) \subseteq B
      /\ When("checks-failing", ChecksVerdict(S.rollup) = "failing") \subseteq B
      /\ When("checks-pending", ChecksVerdict(S.rollup) = "pending") \subseteq B
  BY <1>3 DEF CheckBlockers
<1>7. states \intersect Failing = {}
  <2>1. ChecksVerdict(S.rollup) # "failing"
    BY <1>2, <1>6 DEF When, Waiting
  <2> QED BY <2>1 DEF ChecksVerdict
<1>8. \A c \in Check \ Plumbing : S.rollup[c] \notin Failing
  BY <1>7
<1>9. \A c \in Required : S.rollup[c] \in {"green", "pending"}
  <2>1. ~SomeRequired(S, {"missing"}) /\ ~SomeRequired(S, {"skipped"})
    BY <1>2, <1>6 DEF When, Waiting
  <2>2. \A c \in Required : S.rollup[c] \in CheckState /\ c \in Check \ Plumbing
    BY GateAssumption
  <2> QED BY <1>8, <2>1, <2>2 DEF SomeRequired, CheckState, Failing
<1>10. ASSUME Verdict(S) = "merge"
       PROVE  /\ \A c \in Required : S.rollup[c] = "green"
              /\ \A c \in Check \ Plumbing : S.rollup[c] # "pending"
  <2>1. ~SomeRequired(S, Failing \union {"pending"}) /\ ChecksVerdict(S.rollup) # "pending"
    BY <1>2, <1>6, <1>10 DEF When
  <2>2. "pending" \notin states
    BY <1>7, <2>1 DEF ChecksVerdict
  <2> QED BY <1>9, <2>1, <2>2 DEF SomeRequired
<1> QED BY <1>4, <1>5, <1>8, <1>9, <1>10

\* "Disarm outranks every other verdict", and a PR is repaired for its own sake only: what
\* the pass retries, repairs or escalates is approved and not held, so that only its red
\* checks or its conflict stand in the way, and GitHub does not hold the trigger meanwhile.
THEOREM RepairIsGated ==
  ASSUME NEW S, S.unfit \intersect (Waiting \union Mendable) = {},
         Verdict(S) \in {"retry", "repair", "escalate"}
  PROVE  /\ Approved(S)
         /\ ~S.armed
         /\ "fix" \notin S.labels
         /\ S.mergeable = "CONFLICTING" \/ ChecksVerdict(S.rollup) = "failing"
<1>1. RepairVerdict(S) # "none"
  BY DEF Verdict
<1>2. RepairCandidate(S) /\ PlanRepair(S) # "none"
  BY <1>1 DEF RepairVerdict
<1>3. "fix" \notin S.labels
  BY <1>2 DEF PlanRepair
<1>4. S.mergeable = "CONFLICTING" \/ ChecksVerdict(S.rollup) = "failing"
  BY <1>2 DEF RepairCandidate
<1>5. Blockers(S) \subseteq Mendable
  BY <1>2 DEF RepairCandidate, RepairableOnly, When, Mendable
<1>6. When("conflict", S.mergeable = "CONFLICTING") \subseteq Blockers(S)
  BY DEF Blockers, MergeBlockers
<1>7. When("checks-failing", ChecksVerdict(S.rollup) = "failing") \subseteq Blockers(S)
  BY DEF Blockers, CheckBlockers
<1>8. "conflict" \in Blockers(S) \/ "checks-failing" \in Blockers(S)
  BY <1>4, <1>6, <1>7 DEF When
<1>9. "conflict" \notin PendingShaped(S) /\ "checks-failing" \notin PendingShaped(S)
  BY DEF PendingShaped, When
<1>10. Blockers(S) \ PendingShaped(S) # {}
  BY <1>8, <1>9
<1>11. ~S.armed
  BY <1>10 DEF Verdict
<1> QED BY <1>3, <1>4, <1>5, <1>11, UnblockedIsApproved

\* A pass comes to its verdict when it has read the rest.
LEMMA ToVerdict ==
  ASSUME TypeOK, PassStep, NEW p \in Pass, pass[p].pc = "rest", pass'[p].pc = "write"
  PROVE  ReadRest(p)
<1> USE DEF TypeOK, PassTypeOK
<1>1. PICK q \in Pass : (\E own \in BOOLEAN : ReadPr(q, own)) \/ PassGoesOn(q)
  BY DEF PassStep
<1>2. q = p
  BY <1>1 DEF PassGoesOn, Write, ReadPr, ReadRest, PlanOn, Arm, DirectMerge, Disarm, UpdateBranch,
              Refused, Rerun, MarkRerun, ApplyFix, DispatchFix, Escalate, PassKilled, Done
<1>3. ~ (pass'[p] = NoPass)
  BY DEF NoPass
<1>4. ~Done(p)
  BY <1>3 DEF Done
<1> QED
  BY <1>1, <1>2, <1>4 DEF PassGoesOn, Write, ReadPr, Arm, DirectMerge, Disarm, UpdateBranch, Refused,
              Rerun, MarkRerun, ApplyFix, DispatchFix, Escalate, PassKilled, Decided

LEMMA SnapshotRollup ==
  ASSUME TypeOK, NEW p \in Pass, NEW failed
  PROVE  /\ Snapshot(p, failed).rollup \in [Check -> CheckState]
         /\ \A c \in Check \ Plumbing :
              Snapshot(p, failed).rollup[c] \notin Failing =>
                Snapshot(p, failed).rollup[c] = pass[p].seen.checks[c]
<1>1. pass[p].seen \in ListedType
  BY DEF TypeOK, PassTypeOK, PassRecord
<1>2. pass[p].seen.checks \in [Check \ Plumbing -> CheckState]
  BY <1>1 DEF ListedType
<1>3. Snapshot(p, failed).rollup = Rollup(pass[p].seen, failed)
  BY DEF Snapshot
<1> QED BY <1>2, <1>3 DEF Rollup, CheckState, Failing

\* Whatever reads fail and whatever moves between them, for any checks and any number of
\* passes: a pass arms or merges only what its reads show fit to merge.  A read that fails
\* makes the gate refuse, save that of the issue.
THEOREM MergesAreJudged == Spec => MergesJudged
<1>1. ASSUME TypeOK, [Next]_vars, NEW p \in Pass, DecidesToMerge(p)
      PROVE  FitToMerge(pass[p].seen, pass'[p].verdict)
  <2> USE <1>1 DEF DecidesToMerge
  <2>1. pass'[p] # pass[p]
    BY <1>1
  <2>2. PassStep
    BY <1>1, <2>1, Steps DEF passVars, vars
  <2>3. PICK failed : /\ failed \in {{}, Unreadable} \union {{r} : r \in Unreadable}
                      /\ PlanOn(p, Snapshot(p, failed))
    BY <1>1, <2>2, ToVerdict DEF ReadRest
  <2> DEFINE S == Snapshot(p, failed)
             seen == pass[p].seen
  <2>4. pass'[p].verdict = Verdict(S)
    BY <1>1, <2>3 DEF PlanOn, TypeOK, PassTypeOK, NoPass
  <2>5. /\ S.unfit = Unfit(failed) /\ S.labels = seen.labels /\ S.head = seen.head
        /\ S.mergeable = seen.mergeable /\ S.issueHeld = LinkedHold(failed)
        /\ S.ops = Opinion(failed) /\ S.objection = (objection /\ "reviews" \notin failed)
    BY DEF Snapshot
  <2>6. seen \in ListedType /\ seen.mergeable \in {"MERGEABLE", "CONFLICTING", "UNKNOWN"}
    BY <1>1 DEF TypeOK, PassTypeOK, PassRecord, ListedType
  <2>7. S.unfit \intersect (Waiting \union Mendable) = {}
    BY <2>5 DEF Unfit, When, Waiting, Mendable
  <2>8. /\ S.rollup \in [Check -> CheckState]
        /\ \A c \in Check \ Plumbing : S.rollup[c] \notin Failing => S.rollup[c] = seen.checks[c]
    BY <1>1, SnapshotRollup
  <2> HIDE DEF S, seen
  <2>9. /\ Approved(S)
        /\ S.mergeable \notin {"CONFLICTING", "UNKNOWN"}
        /\ \A c \in Check \ Plumbing : S.rollup[c] \notin Failing
        /\ \A c \in Required : S.rollup[c] \in {"green", "pending"}
        /\ Verdict(S) = "merge" => \A c \in Required : S.rollup[c] = "green"
    BY <1>1, <2>4, <2>7, <2>8, GateIsStrict
  <2>10. "reviews" \notin failed /\ ops.state = "approved" /\ ops.on = seen.head /\ ~objection
    <3>1. "reviews" \in failed => S.ops.state = "none"
      BY <2>5 DEF Opinion
    <3>2. "reviews" \notin failed
      BY <2>9, <3>1 DEF Approved
    <3>3. S.ops = ops /\ (S.objection <=> objection)
      BY <2>5, <3>2 DEF Opinion
    <3> QED BY <2>5, <2>9, <3>2, <3>3 DEF Approved
  <2>11. ops = [state |-> "approved", on |-> seen.head]
    BY <1>1, <2>10 DEF TypeOK, PrTypeOK
  <2>12. issueHeld => "issue" \in Faults
    BY <2>3, <2>5, <2>9 DEF LinkedHold, Unreadable, Approved
  <2>13. \A c \in Check \ Plumbing : seen.checks[c] = S.rollup[c]
    BY <2>8, <2>9
  <2>14. pass'[p].verdict = "arm" \/ Verdict(S) = "merge"
    BY <1>1, <2>4 DEF Merging
  <2>15. \A c \in Required : seen.checks[c] \in {"green"} \union
                               (IF pass'[p].verdict = "arm" THEN {"pending"} ELSE {})
    BY <2>9, <2>13, <2>14, GateAssumption
  <2> QED BY <2>5, <2>6, <2>9, <2>10, <2>11, <2>12, <2>13, <2>15 DEF seen, FitToMerge, Approved
<1>2. TypeOK /\ [Next]_vars =>
        [\A p \in Pass : DecidesToMerge(p) => FitToMerge(pass[p].seen, pass'[p].verdict)]_vars
  BY <1>1
<1> QED BY <1>2, PrTypeCorrect, PTL DEF Spec, MergesJudged
=============================================================================
