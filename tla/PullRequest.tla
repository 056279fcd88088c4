----------------------------- MODULE PullRequest -----------------------------
(***************************************************************************)
(* One factory pull request as GitHub keeps it, and what moves it besides  *)
(* the factory: its CI, the base branch, people, and GitHub's own          *)
(* auto-merge.  The auto-merge pass and the review and fix runners act on  *)
(* these variables.                                                        *)
(***************************************************************************)
EXTENDS AutoMergeGate

CONSTANTS
  MaxHead,         \* commits the head of the PR may be at
  MaxMoves,        \* what people and the base branch may do
  ReviewRequired,  \* protection wants an approval
  Faults           \* what may go wrong, and which people's moves happen

ASSUME PullRequestAssumption ==
  /\ MaxHead \in Nat \ {0}
  /\ MaxMoves \in Nat
  /\ ReviewRequired \in BOOLEAN

VARIABLES
  pr,         \* open, merged or closed
  head,       \* the commit at the head of its branch
  behind,     \* main has moved since
  conflict,   \* it conflicts with main
  checks,     \* checks[c]: the state of check c on the head
  main,       \* checks that fail on main
  armed,      \* GitHub is to merge it as soon as protection allows
  ops,        \* the factory-ops approver's latest opinion, and its commit
  objection,  \* a person requests changes
  labels,     \* its labels
  holder,     \* who applied the needs:human it carries
  issueHeld,  \* its issue carries needs:human
  fixes,      \* labeled events of agent:fix
  reviewJobs, \* jobs of agent-review.yml that wait for their turn
  fixJobs,    \* jobs of agent-fix.yml that wait for their turn
  moves       \* moves people and main made

branchVars == <<head, checks, behind, conflict>>
labelVars  == <<labels, holder, fixes, reviewJobs, fixJobs>>
otherVars  == <<main, issueHeld, objection>>
prVars     == <<pr, branchVars, labelVars, otherVars, armed, ops, moves>>

PrTypeOK ==
  /\ pr \in {"open", "merged", "closed"}
  /\ head \in 1..MaxHead
  /\ behind \in BOOLEAN
  /\ conflict \in BOOLEAN
  /\ checks \in [Check \ Plumbing -> CheckState]
  /\ main \subseteq Check \ Plumbing
  /\ armed \in BOOLEAN
  /\ ops \in [state : {"none", "approved", "changes"}, on : 0..MaxHead]
  /\ objection \in BOOLEAN
  /\ labels \subseteq PrLabel
  /\ holder \in {"none", "ops", "person"}
  /\ issueHeld \in BOOLEAN
  /\ fixes \in Nat
  /\ reviewJobs \in 0..1
  /\ fixJobs \in 0..1
  /\ moves \in 0..MaxMoves
  /\ (holder = "none") <=> ("human" \notin labels)

\* The implement runner opened the PR.
PrInit ==
  /\ pr = "open"
  /\ head = 1
  /\ behind = FALSE
  /\ conflict = FALSE
  /\ checks = [c \in Check \ Plumbing |-> "missing"]
  /\ main = {}
  /\ armed = FALSE
  /\ objection = FALSE
  /\ issueHeld = FALSE
  /\ fixes = 0
  /\ reviewJobs = 0
  /\ fixJobs = 0
  /\ moves = 0
  /\ ops = [state |-> "none", on |-> 0]
  /\ labels = {}
  /\ holder = "none"

-----------------------------------------------------------------------------
(* Effects the actors share                                                *)

\* A commit arrives.  No check has reported on it, and it does or does not still
\* conflict.
NewHead(stillConflicts) ==
  /\ head < MaxHead
  /\ head' = head + 1
  /\ checks' = [c \in Check \ Plumbing |-> "missing"]
  /\ behind' \in {FALSE, behind}
  /\ conflict' = stillConflicts

\* An absent label is applied, and the timeline names who did; a label that is
\* there already stays whose it was.
AddHuman(who) ==
  /\ labels' = labels \union {"human"}
  /\ holder' = IF "human" \in labels THEN holder ELSE who

\* Mutant of DropHuman: who applied the label is remembered.
DropHumanOnly ==
  /\ labels' = labels \ {"human"}
  /\ holder' = holder

DropHuman ==
  /\ labels' = labels \ {"human"}
  /\ holder' = "none"

\* The event of an absent label queues a job, and one job can wait: a further one
\* takes its place.  On a PR that conflicts GitHub starts no pull_request workflow.
Queued(label, jobs) == IF label \notin labels /\ ~conflict THEN 1 ELSE jobs

-----------------------------------------------------------------------------
(* CI, GitHub, main and people                                             *)

CheckStarts(c) ==
  /\ checks[c] = "missing"
  /\ ~conflict
  /\ checks' = [checks EXCEPT ![c] = "pending"]
  /\ UNCHANGED <<pr, head, behind, conflict, labelVars, otherVars, armed, ops, moves>>

CheckEnds(c) ==
  /\ checks[c] = "pending"
  /\ \E result \in {"green"} \union ({"red", "flaky", "skipped"} \intersect Faults) :
       checks' = [checks EXCEPT ![c] = result]
  /\ UNCHANGED <<pr, head, behind, conflict, labelVars, otherVars, armed, ops, moves>>

\* Branch protection, strict: what GitHub enforces when it merges.
ProtectionHolds ==
  /\ ~conflict
  /\ ~behind
  /\ \A c \in Required : checks[c] \in {"green", "skipped"}
  /\ ReviewRequired => ops.state = "approved" /\ ~objection

GithubMerges ==
  /\ armed
  /\ ProtectionHolds
  /\ pr' = "merged"
  /\ UNCHANGED <<branchVars, labelVars, otherVars, armed, ops, moves>>

\* What GitHub answers when it is asked for the merge state.
MergeState ==
  IF conflict THEN "DIRTY"
  ELSE IF behind THEN "BEHIND"
  ELSE IF ~ProtectionHolds THEN "BLOCKED"
  ELSE IF \E c \in Check \ Plumbing : checks[c] \in Failing \union {"pending"} THEN "UNSTABLE"
  ELSE "CLEAN"

Move == moves < MaxMoves /\ moves' = moves + 1

\* Another PR merges: this one is behind, and may conflict.
MainMoves ==
  /\ Move
  /\ behind' = TRUE
  /\ conflict' \in {conflict} \union (IF "conflict" \in Faults THEN {TRUE} ELSE {})
  /\ UNCHANGED <<pr, head, checks, labelVars, otherVars, armed, ops>>

MainTurns(c) ==
  /\ "main" \in Faults
  /\ Move
  /\ main' = IF c \in main THEN main \ {c} ELSE main \union {c}
  /\ UNCHANGED <<pr, branchVars, labelVars, issueHeld, objection, armed, ops>>

Push ==
  /\ "push" \in Faults
  /\ Move
  /\ \E still \in {FALSE, conflict} : NewHead(still)
  /\ UNCHANGED <<pr, labelVars, otherVars, armed, ops>>

PersonHolds ==
  /\ Move
  /\ AddHuman("person")
  /\ UNCHANGED <<pr, branchVars, fixes, reviewJobs, fixJobs, otherVars, armed, ops>>

PersonReleases ==
  /\ Move
  /\ "human" \in labels
  /\ DropHuman
  /\ UNCHANGED <<pr, branchVars, fixes, reviewJobs, fixJobs, otherVars, armed, ops>>

IssueHold ==
  /\ "issueheld" \in Faults
  /\ Move
  /\ issueHeld' = ~issueHeld
  /\ UNCHANGED <<pr, branchVars, labelVars, main, objection, armed, ops>>

Objects ==
  /\ "objection" \in Faults
  /\ Move
  /\ objection' = ~objection
  /\ UNCHANGED <<pr, branchVars, labelVars, main, issueHeld, armed, ops>>

AsksReview ==
  /\ Move
  /\ labels' = labels \union {"review"}
  /\ reviewJobs' = Queued("review", reviewJobs)
  /\ UNCHANGED <<pr, branchVars, holder, fixes, fixJobs, otherVars, armed, ops>>

PersonCloses ==
  /\ Move
  /\ pr' = "closed"
  /\ UNCHANGED <<branchVars, labelVars, otherVars, armed, ops>>

Outside ==
  \/ \E c \in Check \ Plumbing : CheckStarts(c) \/ CheckEnds(c) \/ MainTurns(c)
  \/ GithubMerges
  \/ MainMoves
  \/ Push
  \/ PersonHolds
  \/ PersonReleases
  \/ IssueHold
  \/ Objects
  \/ AsksReview
  \/ PersonCloses
=============================================================================
