------------------------------ MODULE AutoMerge ------------------------------
(***************************************************************************)
(* The auto-merge and repair pass over one pull request,                   *)
(* scripts/factory/auto-merge.mjs, beside the jobs of PrRunners, people,   *)
(* CI and GitHub's own auto-merge.  A pass lists the PRs, then reads the   *)
(* rest of each, computes the whole fleet's plan and only then writes.     *)
(* The passes of one repository's shim are serial; the scheduled pass over *)
(* the fleet belongs to another concurrency group (auto-merge.yml), so     *)
(* Pass may have two members.                                              *)
(***************************************************************************)
EXTENDS PrRunners

CONSTANTS
  Pass,             \* the passes that may run beside each other
  AutoMergeAllowed  \* the repository's setting

ASSUME AutoMergeAssumption == AutoMergeAllowed \in BOOLEAN

VARIABLES
  pass,    \* pass[p]: program counter, what the list said, and the verdict
  retries  \* comments with the marker of a free re-run

passVars == <<pass, retries>>
vars == <<prVars, runnerVars, passVars>>

Listed == [labels |-> {}, checks |-> [c \in Check \ Plumbing |-> "missing"], main |-> {}, head |-> 1,
           mergeable |-> "UNKNOWN", state |-> "UNKNOWN", armed |-> FALSE, undecided |-> FALSE,
           own |-> FALSE]
NoPass == [pc |-> "idle", seen |-> Listed, verdict |-> "none", head |-> 1, red |-> {}]

Merging == {"arm", "merge"}
Writing == Merging \union {"disarm", "update-branch", "retry", "repair", "escalate"}

ListedType ==
  [labels : SUBSET PrLabel, checks : [Check \ Plumbing -> CheckState], main : SUBSET Check,
   head : 1..MaxHead, mergeable : {"MERGEABLE", "CONFLICTING", "UNKNOWN"},
   state : {"CLEAN", "BEHIND", "BLOCKED", "DIRTY", "UNSTABLE", "UNKNOWN"}, armed : BOOLEAN,
   undecided : BOOLEAN, own : BOOLEAN]

PassRecord ==
  [pc : {"idle", "rest", "write", "mark", "dispatch"}, seen : ListedType,
   verdict : Writing \union {"none"}, head : 1..MaxHead, red : SUBSET Check]

PassTypeOK ==
  /\ pass \in [Pass -> PassRecord]
  /\ retries \in Nat

PassInit ==
  /\ pass = [p \in Pass |-> NoPass]
  /\ retries = 0

May(fault, S) == IF fault \in Faults THEN S ELSE {}

-----------------------------------------------------------------------------
(* The reads                                                               *)

\* What the list says of the PR now.  (The gate does not ask for agent:review.)
Seen(own, mergeable, state, mainRed) ==
  [labels |-> labels \ {"review"}, checks |-> checks, main |-> mainRed, head |-> head,
   mergeable |-> mergeable, state |-> state, armed |-> armed,
   undecided |-> ReviewRequired /\ ops.state = "none", own |-> own]

\* A mergeable that is UNKNOWN is polled, and the poll may run out.
Mergeable ==
  {IF conflict THEN "CONFLICTING" ELSE "MERGEABLE"} \union May("unsettled", {"UNKNOWN"})

\* main's checks, then the list of PRs.  GitHub computes the merge state in the
\* background, and may answer with that of the checks before.  own: a pull_request event
\* started the pass, so its own job is a check that is pending.
ReadPr(p, own) ==
  /\ pass[p].pc = "idle"
  /\ \E mergeable \in Mergeable,
        state \in {IF own /\ MergeState = "CLEAN" THEN "UNSTABLE" ELSE MergeState}
                    \union May("oldstate", {"CLEAN"}),
        mainRed \in {main} \union May("mainchecks", {{}}) :
       pass' = [pass EXCEPT ![p] = [NoPass EXCEPT !.pc = "rest",
                                                  !.seen = Seen(own, mergeable, state, mainRed)]]
  /\ UNCHANGED <<prVars, review, fix, retries>>

\* Mutant of RepairAttempts: only the label that is on the PR counts.
RepairAttemptsNow == IF "fix" \in labels THEN 1 ELSE 0

\* Every labeled event of agent:fix in the timeline is an attempt.
RepairAttempts == fixes

\* The reads of a pass that may fail: one of them, or all.
Unreadable ==
  Faults \intersect {"policy", "settings", "approver", "reviews", "issue", "logs", "history",
                     "comments"}

\* readRepoPolicy: what of a repository's settings makes the gate refuse, and the one
\* that decides between arming and merging.
Unfit(failed) ==
  When("policy-unreadable", "policy" \in failed)
    \union When("approver-unknown", "approver" \in failed)
Allowed(failed) == AutoMergeAllowed /\ "settings" \notin failed

\* The reviews, and the labels of the issue that the PR closes: what cannot be read
\* leaves an empty answer.
Opinion(failed) == IF "reviews" \in failed THEN [state |-> "none", on |-> 0] ELSE ops
LinkedHold(failed) == issueHeld /\ "issue" \notin failed

\* Logs that cannot be read make a failure genuine.
Rollup(seen, failed) ==
  [c \in Check |-> IF c \in Plumbing THEN IF seen.own THEN "pending" ELSE "missing"
                   ELSE IF seen.checks[c] = "flaky" /\ "logs" \in failed THEN "red"
                   ELSE seen.checks[c]]

\* Both budgets count from nothing when their history cannot be read.
RepairsRead(failed) == IF "history" \in failed THEN 0 ELSE RepairAttempts
RetriesRead(failed) == IF "comments" \in failed THEN 0 ELSE retries

\* The plan sees what the list said and what was read after it.
Snapshot(p, failed) ==
  LET seen == pass[p].seen
  IN  [unfit |-> Unfit(failed), allowed |-> Allowed(failed),
       labels |-> seen.labels, main |-> seen.main, head |-> seen.head,
       mergeable |-> seen.mergeable, state |-> seen.state, armed |-> seen.armed,
       undecided |-> seen.undecided,
       issueHeld |-> LinkedHold(failed), rollup |-> Rollup(seen, failed),
       ops |-> Opinion(failed), objection |-> objection /\ "reviews" \notin failed,
       fixes |-> RepairsRead(failed), retries |-> RetriesRead(failed)]

PlanOn(p, S) ==
  LET verdict == Verdict(S)
  IN  pass' = [pass EXCEPT ![p] =
                 IF verdict \notin Writing THEN NoPass
                 ELSE [NoPass EXCEPT !.pc = "write", !.verdict = verdict, !.head = S.head,
                                     !.red = FailingChecks(S)]]

ReadRest(p) ==
  /\ pass[p].pc = "rest"
  /\ \E failed \in {{}, Unreadable} \union {{r} : r \in Unreadable} :
       PlanOn(p, Snapshot(p, failed))
  /\ UNCHANGED <<prVars, review, fix, retries>>

-----------------------------------------------------------------------------
(* The writes                                                              *)

Decided(p, verdict) == pass[p].pc = "write" /\ pass[p].verdict = verdict

Done(p) == pass' = [pass EXCEPT ![p] = NoPass]

\* Neither the arming nor the merge names the commit that was judged.
Arm(p) ==
  /\ Decided(p, "arm")
  /\ armed' = TRUE
  /\ Done(p)
  /\ UNCHANGED <<pr, branchVars, labelVars, otherVars, ops, moves, review, fix, retries>>

DirectMerge(p) ==
  /\ Decided(p, "merge")
  /\ ProtectionHolds
  /\ pr' = "merged"
  /\ Done(p)
  /\ UNCHANGED <<branchVars, labelVars, otherVars, armed, ops, moves, review, fix, retries>>

Disarm(p) ==
  /\ Decided(p, "disarm")
  /\ armed' = FALSE
  /\ Done(p)
  /\ UNCHANGED <<pr, branchVars, labelVars, otherVars, ops, moves, review, fix, retries>>

\* The update names the head that was judged.  (MaxHead is a bound of the model.)
Updatable(p) == head = pass[p].head /\ behind /\ ~conflict /\ head < MaxHead

UpdateBranch(p) ==
  /\ Decided(p, "update-branch")
  /\ Updatable(p)
  /\ NewHead(FALSE)
  /\ behind' = FALSE
  /\ Done(p)
  /\ UNCHANGED <<pr, labelVars, otherVars, armed, ops, moves, review, fix, retries>>

\* GitHub says no, or the call fails, or the cap of merges per pass is reached; disarm
\* and repair are not capped.
Refused(p) ==
  /\ pass[p].pc = "write"
  /\ \/ "write" \in Faults
     \/ Decided(p, "merge") /\ ~ProtectionHolds
     \/ Decided(p, "update-branch") /\ ~Updatable(p)
     \/ "cap" \in Faults /\ pass[p].verdict \in Merging
  /\ Done(p)
  /\ UNCHANGED <<prVars, review, fix, retries>>

\* The failed jobs of the checks that were red run again, if the head still has them.
\* One that runs already makes the call fail, and a failed call leaves no marker.
Rerun(p) ==
  /\ Decided(p, "retry")
  /\ checks' = [c \in DOMAIN checks |->
                  IF c \in pass[p].red /\ checks[c] \in Failing THEN "pending" ELSE checks[c]]
  /\ LET found == {c \in pass[p].red : checks[c] # "missing"}
     IN  pass' = [pass EXCEPT ![p] = IF found # {} /\ \A c \in found : checks[c] \in Failing
                                     THEN [@ EXCEPT !.pc = "mark"] ELSE NoPass]
  /\ UNCHANGED <<pr, head, behind, conflict, labelVars, otherVars, armed, ops, moves, review, fix,
                 retries>>

MarkRerun(p) ==
  /\ pass[p].pc = "mark"
  /\ retries' = retries + 1
  /\ Done(p)
  /\ UNCHANGED <<prVars, review, fix>>

ApplyFix(p) ==
  /\ Decided(p, "repair")
  /\ labels' = labels \union {"fix"}
  /\ fixes' = IF "fix" \in labels THEN fixes ELSE fixes + 1
  /\ fixJobs' = Queued("fix", fixJobs)
  /\ pass' = [pass EXCEPT ![p].pc = "dispatch"]
  /\ UNCHANGED <<pr, branchVars, holder, reviewJobs, otherVars, armed, ops, moves, review, fix,
                 retries>>

\* The workflow is dispatched besides; its guard looks for the label.  A dispatch that
\* fails is a warning.
DispatchFix(p) ==
  /\ pass[p].pc = "dispatch"
  /\ \E accepted \in {TRUE} \union May("dispatch", {FALSE}) :
       fixJobs' = IF accepted /\ "fix" \in labels THEN 1 ELSE fixJobs
  /\ Done(p)
  /\ UNCHANGED <<pr, branchVars, labels, holder, fixes, reviewJobs, otherVars, armed, ops, moves,
                 review, fix, retries>>

Escalate(p) ==
  /\ Decided(p, "escalate")
  /\ AddHuman("ops")
  /\ Done(p)
  /\ UNCHANGED <<pr, branchVars, fixes, reviewJobs, fixJobs, otherVars, armed, ops, moves, review,
                 fix, retries>>

\* The job's cap, a cancellation, or a label that cannot be applied, which nothing
\* catches: the pass ends where it stands.
PassKilled(p) ==
  /\ "killed" \in Faults
  /\ pass[p].pc # "idle"
  /\ Done(p)
  /\ UNCHANGED <<prVars, review, fix, retries>>

Write(p) ==
  \/ Arm(p)
  \/ DirectMerge(p)
  \/ Disarm(p)
  \/ UpdateBranch(p)
  \/ Rerun(p)
  \/ ApplyFix(p)
  \/ Escalate(p)

PassGoesOn(p) ==
  \/ ReadRest(p)
  \/ Write(p)
  \/ Refused(p)
  \/ MarkRerun(p)
  \/ DispatchFix(p)
  \/ PassKilled(p)

PassStep == \E p \in Pass : (\E own \in BOOLEAN : ReadPr(p, own)) \/ PassGoesOn(p)

Init == PrInit /\ RunnersInit /\ PassInit

\* Nothing that happens after the PR is merged or closed matters here.
Next ==
  /\ pr = "open"
  /\ \/ Outside /\ UNCHANGED <<review, fix, passVars>>
     \/ ReviewStep /\ UNCHANGED passVars
     \/ FixStep /\ UNCHANGED passVars
     \/ PassStep
  /\ Remember

\* CI reports, GitHub merges what it may within moments, jobs have caps, the cron starts
\* passes for ever, and a call that keeps being tried succeeds now and then.
Step(A) == pr = "open" /\ A /\ Remember

CiReports == \E c \in Check \ Plumbing : CheckStarts(c) \/ CheckEnds(c)

Fairness ==
  /\ WF_vars(Step(CiReports /\ UNCHANGED <<review, fix, passVars>>))
  /\ SF_vars(Step(GithubMerges /\ UNCHANGED <<review, fix, passVars>>))
  /\ WF_vars(Step(ReviewStep /\ UNCHANGED passVars))
  /\ WF_vars(Step(FixStep /\ UNCHANGED passVars))
  /\ \A p \in Pass :
       /\ SF_vars(Step(ReadPr(p, FALSE)))
       /\ WF_vars(Step(PassGoesOn(p)))
       /\ SF_vars(Step(Write(p)))

Spec == Init /\ [][Next]_vars /\ Fairness

-----------------------------------------------------------------------------
(* Properties                                                              *)

TypeOK == PrTypeOK /\ RunnersTypeOK /\ PassTypeOK

\* needs:human is a human control point: one that a person applied is taken off by a
\* person only.  (A hold applied in the moment between the reading of the timeline and
\* the deletion of the label is lost: raced.)
HoldStands ==
  [][holder = "person" /\ "human" \notin labels' => moves' > moves \/ raced]_vars

\* A blocking verdict and its hold are separate writes, with every failure in between; a PR
\* whose last verdict blocks carries needs:human, or the job is about to apply it, unless a
\* person took it off.  The exception is a job that died between the two (unheld): one that
\* was killed, or the implement runner, which reports no failure.
BlockedIsHeld ==
  ops.state = "changes" =>
    "human" \in labels \/ unheld \/ review.pc \in {"hold", "report"}

\* A PR gets so many dispatches of agent:fix, counted from its timeline.
RepairBounded == [][fixes' > fixes => fixes < RepairBudget]_vars

\* "This pass is the stricter gate": whichever of its reads fail, what it arms or merges
\* is approved at the head it listed, nobody objects, no hold is on the PR or could be read
\* on its issue, every required check reports, none is red, and what it merges is green.
FitToMerge(seen, verdict) ==
  /\ ops = [state |-> "approved", on |-> seen.head]
  /\ ~objection
  /\ "human" \notin seen.labels
  /\ issueHeld => "issue" \in Faults
  /\ \A c \in Required :
       seen.checks[c] \in {"green"} \union (IF verdict = "arm" THEN {"pending"} ELSE {})
  /\ \A c \in Check \ Plumbing : seen.checks[c] \notin Failing
  /\ seen.mergeable = "MERGEABLE"

DecidesToMerge(p) ==
  pass[p].pc = "rest" /\ pass'[p].pc = "write" /\ pass'[p].verdict \in Merging

MergesJudged ==
  [][\A p \in Pass : DecidesToMerge(p) => FitToMerge(pass[p].seen, pass'[p].verdict)]_vars

\* Something protection cannot see forbids the merge.
Forbidden ==
  \/ "human" \in labels
  \/ issueHeld
  \/ objection
  \/ ops # [state |-> "approved", on |-> head]

\* GitHub is not left holding the trigger of a PR that must not merge.
DisarmedInTime == pr = "open" /\ armed /\ Forbidden ~> ~(pr = "open" /\ armed /\ Forbidden)

\* What the passes can still do something about.
Unhindered == pr = "open" /\ ~Forbidden

\* A PR that has all it needs does not stay open.
Ready == Unhindered /\ ~behind /\ ~conflict /\ \A c \in Check \ Plumbing : checks[c] = "green"
ReadyMerges == Ready ~> ~Ready

\* A conflict is given to the fixer, or to a human: it does not just stay.  (On a head
\* that conflicts from the start no check ever reports, and nothing is done about it.)
Conflicting == Unhindered /\ conflict /\ \A c \in Check \ Plumbing : checks[c] # "missing"
ConflictAnswered == Conflicting ~> ~Conflicting

\* update-branch: "the next pass merges".  An approved PR that is only behind is merged,
\* or somebody or something gets in the way.
Behind == Unhindered /\ behind
Stopped == "human" \in labels \/ issueHeld \/ objection \/ ops.state # "approved" \/ conflict
BehindMerges == Behind ~> pr # "open" \/ Stopped
=============================================================================
