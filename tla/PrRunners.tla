------------------------------ MODULE PrRunners ------------------------------
(***************************************************************************)
(* The jobs that work on a pull request: agent-review.yml with             *)
(* agent-review-pr.ts and review-verdict.ts, and agent-fix.yml with        *)
(* agent-fix-pr.ts.  Each runs one at a time per PR, but the two run       *)
(* beside each other, and beside the auto-merge pass.  The first verdict   *)
(* is that of the implement runner, agent-implement-issue.ts, which        *)
(* submits it by the same function when it has opened the PR.              *)
(***************************************************************************)
EXTENDS PullRequest

VARIABLES
  review,  \* the job that submits a verdict: the implement runner, then agent-review.yml
  fix,     \* the job of agent-fix.yml that runs
  raced,   \* history: a person held the PR while a verdict was lifting its own hold
  unheld   \* history: since the last verdict a person took needs:human off, or the job
           \* that was to apply it died

runnerVars == <<review, fix, raced, unheld>>

NoReview == [pc |-> "idle", base |-> 1, clean |-> FALSE, verified |-> TRUE, reports |-> TRUE]
NoFix    == [pc |-> "idle", base |-> 1]

Died      == [NoReview EXCEPT !.pc = "dead"]
Reporting == [NoReview EXCEPT !.pc = "report"]

ReviewRecord ==
  [pc : {"idle", "dead", "work", "submit", "hold", "owner", "lift", "unlabel", "report"},
   base : 1..MaxHead, clean : BOOLEAN, verified : BOOLEAN,
   reports : BOOLEAN]  \* a failure is reported: not by the implement runner

FixRecord == [pc : {"idle", "work", "label", "clear"}, base : 1..MaxHead]

RunnersTypeOK ==
  /\ review \in ReviewRecord
  /\ fix \in FixRecord
  /\ raced \in BOOLEAN
  /\ unheld \in BOOLEAN

\* The implement runner is about to submit its verdict, or died before.
RunnersInit ==
  /\ \/ review = Died
     \/ \E clean \in BOOLEAN :
          review = [NoReview EXCEPT !.pc = "submit", !.clean = clean, !.reports = FALSE]
  /\ fix = NoFix
  /\ raced = FALSE
  /\ unheld = FALSE

\* What the history variables remember of a step.
Remember ==
  /\ raced' = /\ review.pc = "lift" /\ review'.pc = "lift"
              /\ raced \/ (holder' = "person" /\ holder # "person")
  /\ unheld' = /\ ops' = ops
               /\ \/ unheld
                  \/ moves' > moves /\ "human" \in labels \ labels'
                  \/ review.pc \in {"hold", "report"} /\ review'.pc = "dead"

-----------------------------------------------------------------------------
(* The review job                                                          *)

Goto(step) == review' = [review EXCEPT !.pc = step]

\* A call throws.  agent-review-pr.ts catches that and reports it; in
\* agent-implement-issue.ts nothing does, and its workflow has no step for it.
Throws == review' = IF review.reports THEN Reporting ELSE Died

\* The head is fetched; what is pushed after this is not reviewed.  (A job that was asked
\* for while the implement runner submits is still setting up.)
StartReview ==
  /\ review.pc \in {"idle", "dead"}
  /\ reviewJobs = 1
  /\ reviewJobs' = 0
  /\ review' = [NoReview EXCEPT !.pc = "work", !.base = head]
  /\ UNCHANGED <<pr, branchVars, labels, holder, fixes, fixJobs, otherVars, armed, ops, moves, fix>>

\* The reviewer finds the PR clean or not, and has nothing to push.
ReviewerJudges ==
  /\ review.pc = "work"
  /\ \E clean \in BOOLEAN : review' = [NoReview EXCEPT !.pc = "submit", !.clean = clean]
  /\ UNCHANGED <<prVars, fix>>

\* It pushes refinements.  The push lands only on the commit that was fetched, and
\* the branch may not be seen to move within a minute.
ReviewerPushes ==
  /\ review.pc = "work"
  /\ head = review.base
  /\ NewHead(conflict)
  /\ \E clean \in BOOLEAN, verified \in {TRUE} \union (IF "lag" \in Faults THEN {FALSE} ELSE {}) :
       review' = [NoReview EXCEPT !.pc = "submit", !.clean = clean, !.verified = verified]
  /\ UNCHANGED <<pr, labelVars, otherVars, armed, ops, moves, fix>>

\* A verdict malformed twice, an agent that throws, a push that is refused.
ReviewerFails ==
  /\ review.pc = "work"
  /\ "reviewer" \in Faults \/ head # review.base
  /\ review' = Reporting
  /\ UNCHANGED <<prVars, fix>>

\* A clean verdict of a job that is about to fail is not submitted.
Withhold ==
  /\ review.pc = "submit"
  /\ review.clean
  /\ ~review.verified
  /\ review' = Reporting
  /\ UNCHANGED <<prVars, fix>>

\* The review names no commit: GitHub files it under the head of the moment.
Submit ==
  /\ review.pc = "submit"
  /\ ~review.clean \/ review.verified
  /\ ops' = [state |-> IF review.clean THEN "approved" ELSE "changes", on |-> head]
  /\ review' = [review EXCEPT !.pc = IF review.clean THEN "owner" ELSE "hold", !.clean = FALSE]
  /\ UNCHANGED <<pr, branchVars, labelVars, otherVars, armed, moves, fix>>

\* Any write of the submission may fail, the review being there or not.
SubmissionFails ==
  /\ "submit" \in Faults
  /\ review.pc \in {"submit", "hold", "lift", "unlabel"}
  /\ Throws
  /\ UNCHANGED <<prVars, fix>>

HoldBlocked ==
  /\ review.pc = "hold"
  /\ AddHuman("ops")
  /\ Goto("unlabel")
  /\ UNCHANGED <<pr, branchVars, fixes, reviewJobs, fixJobs, otherVars, armed, ops, moves, fix>>

\* Mutant of ReadOwner: a hold is lifted whoever applied it.
ReadOwnerNever ==
  /\ review.pc = "owner"
  /\ Goto(IF "human" \in labels THEN "lift" ELSE "unlabel")
  /\ UNCHANGED <<prVars, fix>>

\* The timeline says who applied needs:human; unreadable, it says nobody did.
ReadOwner ==
  /\ review.pc = "owner"
  /\ \/ Goto(IF holder = "ops" THEN "lift" ELSE "unlabel")
     \/ "timeline" \in Faults /\ Goto("unlabel")
  /\ UNCHANGED <<prVars, fix>>

\* Deleting a label that is gone is an error.
LiftHold ==
  /\ review.pc = "lift"
  /\ DropHuman
  /\ IF "human" \in labels THEN Goto("unlabel") ELSE Throws
  /\ UNCHANGED <<pr, branchVars, fixes, reviewJobs, fixJobs, otherVars, armed, ops, moves, fix>>

EndReview ==
  /\ review.pc = "unlabel"
  /\ labels' = labels \ {"review"}
  /\ review' = IF review.verified THEN NoReview ELSE Reporting
  /\ UNCHANGED <<pr, branchVars, holder, fixes, reviewJobs, fixJobs, otherVars, armed, ops, moves,
                 fix>>

\* Mutant of ReportFailure: the comment alone has to do.
ReportFailureQuietly ==
  /\ review.pc = "report"
  /\ review' = NoReview
  /\ UNCHANGED <<prVars, fix>>

\* reportReviewRunFailure: a comment, which nothing reads back, and needs:human.
ReportFailure ==
  /\ review.pc = "report"
  /\ AddHuman("ops")
  /\ review' = NoReview
  /\ UNCHANGED <<pr, branchVars, fixes, reviewJobs, fixJobs, otherVars, armed, ops, moves, fix>>

\* The job's cap, or a cancellation.  A report whose label cannot be applied, which is
\* only logged, ends the same way.
ReviewKilled ==
  /\ "killed" \in Faults
  /\ review.pc \notin {"idle", "dead"}
  /\ review' = Died
  /\ UNCHANGED <<prVars, fix>>

ReviewStep ==
  \/ StartReview
  \/ ReviewerJudges
  \/ ReviewerPushes
  \/ ReviewerFails
  \/ Withhold
  \/ Submit
  \/ SubmissionFails
  \/ HoldBlocked
  \/ ReadOwner
  \/ LiftHold
  \/ EndReview
  \/ ReportFailure
  \/ ReviewKilled

-----------------------------------------------------------------------------
(* The fix job                                                             *)

StartFix ==
  /\ fix.pc = "idle"
  /\ fixJobs = 1
  /\ fixJobs' = 0
  /\ fix' = [pc |-> "work", base |-> head]
  /\ UNCHANGED <<pr, branchVars, labels, holder, fixes, reviewJobs, otherVars, armed, ops, moves,
                 review>>

FixerPushes ==
  /\ fix.pc = "work"
  /\ head = fix.base
  /\ \E still \in {FALSE, conflict} : NewHead(still)
  /\ \E seen \in {TRUE} \union (IF "lag" \in Faults THEN {FALSE} ELSE {}) :
       fix' = [NoFix EXCEPT !.pc = IF seen THEN "label" ELSE "clear"]
  /\ UNCHANGED <<pr, labelVars, otherVars, armed, ops, moves, review>>

\* It changes nothing, or throws, or its push is refused.
FixerGivesUp ==
  /\ fix.pc = "work"
  /\ fix' = [NoFix EXCEPT !.pc = "clear"]
  /\ UNCHANGED <<prVars, review>>

\* The new head needs a verdict; a label that cannot be added is only logged.
AskReview ==
  /\ fix.pc = "label"
  /\ \/ /\ labels' = labels \union {"review"}
        /\ reviewJobs' = Queued("review", reviewJobs)
     \/ "submit" \in Faults /\ UNCHANGED <<labels, reviewJobs>>
  /\ fix' = [fix EXCEPT !.pc = "clear"]
  /\ UNCHANGED <<pr, branchVars, holder, fixes, fixJobs, otherVars, armed, ops, moves, review>>

\* removeAgentFixLabel, whatever the outcome.
EndFix ==
  /\ fix.pc = "clear"
  /\ labels' = labels \ {"fix"}
  /\ fix' = NoFix
  /\ UNCHANGED <<pr, branchVars, holder, fixes, reviewJobs, fixJobs, otherVars, armed, ops, moves,
                 review>>

FixKilled ==
  /\ "killed" \in Faults
  /\ fix.pc # "idle"
  /\ fix' = NoFix
  /\ UNCHANGED <<prVars, review>>

FixStep ==
  \/ StartFix
  \/ FixerPushes
  \/ FixerGivesUp
  \/ AskReview
  \/ EndFix
  \/ FixKilled
=============================================================================
