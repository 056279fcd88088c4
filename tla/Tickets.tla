------------------------------- MODULE Tickets -------------------------------
(***************************************************************************)
(* What the factory's ticket automation shares: the tickets of the fleet   *)
(* as GitHub holds them, the agent:implement runs those tickets fire       *)
(* (.github/workflows/agent-implement.yml and the runner it starts,        *)
(* .sandcastle/agent-implement-issue.ts), and the people who edit them.    *)
(* Dispatcher and Reaper extend this module with the state of their own    *)
(* passes; nothing but this state connects them.                           *)
(*                                                                         *)
(* Tickets are numbers because the dispatcher takes children in the order  *)
(* of their canonical ids.  Time is counted in ticks: only the order of    *)
(* the reaper's grace period, the job's cap and the repeat window matters. *)
(***************************************************************************)
EXTENDS Naturals, FiniteSets

CONSTANTS
  Ticket,      \* the tickets, in canonical order
  Parents,     \* tickets that have sub-issues: the guard refuses them
  MaxCycles,   \* bound: how often one ticket can be labeled agent:implement
  Grace,       \* NO_RUN_GRACE_MINUTES, in ticks
  JobCap,      \* the implement job's timeout-minutes, in ticks
  Faults       \* the misfortunes this instance allows, named below

\* "webhook"   an issues.labeled event never reaches the workflow
\* "write"     a write of a pass fails (runWrite records it and goes on)
\* "runs"      the reaper's workflow-run list cannot be read
\* "late"      a run of a fresh labeling does not show in the run list yet
\* "ticket"    a read about one ticket fails: comments, timeline, jobs, branch
\* "issues"    a repository's issue list cannot be read
\* "prs"       a repository's PR list cannot be read
\* "rest"      the dispatcher cannot fetch one issue it needs
\* "branch"    a push:early fails, or a branch is deleted with its PR
\* "claim"     a run that dies has commented that its work is on the branch
\* "killed"    a pass is cut off: its job's own cap, or a lost machine
\* "guard"     one of the reads of the workflow's guard job fails
\* "relabel"   a person takes agent:implement off or puts it on by hand
\* "331open"   toon-meta#331 is still open when the instance starts
FaultName == {"webhook", "write", "runs", "late", "ticket", "issues", "prs", "rest",
              "branch", "claim", "killed", "guard", "relabel", "331open"}

ASSUME TicketAssumption ==
  /\ Ticket \subseteq Nat
  /\ Parents \subseteq Ticket
  /\ Faults \subseteq FaultName
  /\ MaxCycles \in Nat
  /\ Grace \in Nat
  /\ JobCap \in Nat

Label == {"implement", "human", "tracking"}

\* The labels of EXCLUDED_LABELS a ticket can carry.
Excluded == {"human", "tracking"}

IssueState == {"open", "completed", "not_planned"}
PrState    == {"none", "open", "merged", "closed"}

\* A run of agent:implement.  "waiting": the guard said yes, the job has not
\* started; "committed": the implementer is done, the review runs; "published":
\* the PR is open and the job still runs; "refused": the guard said no and the
\* implement job was skipped; "empty": success without a commit; "done": success
\* with a PR; "failed" also stands for a cancelled or timed-out job.
RunState == {"none", "queued", "waiting", "running", "committed", "published",
             "refused", "empty", "done", "failed"}
Live     == {"queued", "waiting", "running", "committed", "published"}
InJob    == {"running", "committed", "published"}

Cycle == 1..MaxCycles

VARIABLES
  issue,     \* issue[t]: the issue's state
  labels,    \* labels[t]: the labels of this protocol it carries
  bullet,    \* tickets whose "## Blocked by" names toon-meta#331
  fix331,    \* the state of toon-meta#331
  cycle,     \* cycle[t]: how often agent:implement was applied so far
  labelAge,  \* labelAge[t]: ticks since the last labeling, up to Grace
  runs,      \* runs[t][c]: the run that the c-th labeling fired
  runAge,    \* runAge[t]: ticks since the run in the job started
  branch,    \* tickets whose branch exists on origin
  claim,     \* tickets with a comment that names their branch
  pr,        \* pr[t]: the PR of the ticket's branch
  released   \* tickets let go by a person, or by #331 closing, since the
             \* reaper last parked them (an observer: no action reads it)

ticketVars == <<issue, labels, bullet, fix331, cycle, labelAge, runs, runAge,
                branch, claim, pr, released>>

TicketTypeOK ==
  /\ issue \in [Ticket -> IssueState]
  /\ labels \in [Ticket -> SUBSET Label]
  /\ bullet \in SUBSET Ticket
  /\ fix331 \in IssueState
  /\ cycle \in [Ticket -> 0..MaxCycles]
  /\ labelAge \in [Ticket -> 0..Grace]
  /\ runs \in [Ticket -> [Cycle -> RunState]]
  /\ runAge \in [Ticket -> 0..JobCap]
  /\ branch \in SUBSET Ticket
  /\ claim \in SUBSET Ticket
  /\ pr \in [Ticket -> PrState]
  /\ released \in SUBSET Ticket

TicketInit ==
  /\ issue = [t \in Ticket |-> "open"]
  /\ labels = [t \in Ticket |-> {}]
  /\ bullet = {}
  /\ fix331 = IF "331open" \in Faults THEN "open" ELSE "completed"
  /\ cycle = [t \in Ticket |-> 0]
  /\ labelAge = [t \in Ticket |-> 0]
  /\ runs = [t \in Ticket |-> [c \in Cycle |-> "none"]]
  /\ runAge = [t \in Ticket |-> 0]
  /\ branch = {}
  /\ claim = {}
  /\ pr = [t \in Ticket |-> "none"]
  /\ released = {}

-----------------------------------------------------------------------------
(* GitHub: what applying and removing agent:implement does.                *)

\* Adding a label that is present changes nothing and fires no event; adding an
\* absent one starts a labeling cycle, whose event fires a run unless it is lost.
\* A person who applies it lets the ticket go (hand).
ApplyImplement(t, hand) ==
  IF "implement" \in labels[t]
  THEN UNCHANGED <<labels, cycle, labelAge, runs, released>>
  ELSE /\ cycle[t] < MaxCycles
       /\ labels' = [labels EXCEPT ![t] = @ \union {"implement"}]
       /\ cycle' = [cycle EXCEPT ![t] = @ + 1]
       /\ labelAge' = [labelAge EXCEPT ![t] = 0]
       /\ \E fired \in {"queued"} \union (IF "webhook" \in Faults THEN {"none"} ELSE {}) :
            runs' = [runs EXCEPT ![t][cycle[t] + 1] = fired]
       /\ released' = IF hand THEN released \union {t} ELSE released

-----------------------------------------------------------------------------
(* The agent:implement workflow and its runner.                            *)

\* The guard refuses held tickets and parents.  An unreadable permission refuses
\* any ticket, unreadable labels fail the job, and without the count of its
\* sub-issues a parent goes on.
GuardVerdicts(t) ==
  {IF labels[t] \intersect Excluded # {} \/ t \in Parents THEN "refused" ELSE "waiting"}
    \union {v \in {"refused", "failed", "waiting"} :
              "guard" \in Faults /\ (v = "waiting" => labels[t] \intersect Excluded = {})}

\* The guard job: it reads the labels now, not those of the event, and is outside
\* the implement job's concurrency group.
Guard(t, c) ==
  /\ runs[t][c] = "queued"
  /\ \E verdict \in GuardVerdicts(t) : runs' = [runs EXCEPT ![t][c] = verdict]
  /\ UNCHANGED <<issue, labels, bullet, fix331, cycle, labelAge, runAge, branch, claim,
                 pr, released>>

\* The implement job: one per issue at a time, never cancelled.
StartJob(t, c) ==
  /\ runs[t][c] = "waiting"
  /\ \A d \in Cycle : runs[t][d] \notin InJob
  /\ runs' = [runs EXCEPT ![t][c] = "running"]
  /\ runAge' = [runAge EXCEPT ![t] = 0]
  /\ UNCHANGED <<issue, labels, bullet, fix331, cycle, labelAge, branch, claim, pr,
                 released>>

\* The implementer produced no commit: the runner exits 0, the label stays.
NoCommits(t, c) ==
  /\ runs[t][c] = "running"
  /\ runs' = [runs EXCEPT ![t][c] = "empty"]
  /\ runAge' = [runAge EXCEPT ![t] = 0]
  /\ UNCHANGED <<issue, labels, bullet, fix331, cycle, labelAge, branch, claim, pr,
                 released>>

\* The implementer committed; push:early is best effort.
Commit(t, c) ==
  /\ runs[t][c] = "running"
  /\ runs' = [runs EXCEPT ![t][c] = "committed"]
  /\ branch' \in {branch \union {t}} \union (IF "branch" \in Faults THEN {branch} ELSE {})
  /\ UNCHANGED <<issue, labels, bullet, fix331, cycle, labelAge, runAge, claim, pr,
                 released>>

\* push:final, then the PR, unless one is open for the branch already.
OpenPr(t, c) ==
  /\ runs[t][c] = "committed"
  /\ branch' = branch \union {t}
  /\ pr' = [pr EXCEPT ![t] = "open"]
  /\ runs' = [runs EXCEPT ![t][c] = "published"]
  /\ UNCHANGED <<issue, labels, bullet, fix331, cycle, labelAge, runAge, claim, released>>

\* The verdict is submitted and the job succeeds.
FinishJob(t, c) ==
  /\ runs[t][c] = "published"
  /\ runs' = [runs EXCEPT ![t][c] = "done"]
  /\ runAge' = [runAge EXCEPT ![t] = 0]
  /\ UNCHANGED <<issue, labels, bullet, fix331, cycle, labelAge, branch, claim, pr,
                 released>>

\* The job fails, is cancelled or hits its cap; the agent may have left a comment
\* that says its work is on the branch.
FailJob(t, c) ==
  /\ runs[t][c] \in InJob
  /\ runs' = [runs EXCEPT ![t][c] = "failed"]
  /\ runAge' = [runAge EXCEPT ![t] = 0]
  /\ claim' \in {claim} \union (IF "claim" \in Faults THEN {claim \union {t}} ELSE {})
  /\ UNCHANGED <<issue, labels, bullet, fix331, cycle, labelAge, branch, pr, released>>

Runner(t, c) ==
  \/ Guard(t, c)
  \/ StartJob(t, c)
  \/ NoCommits(t, c)
  \/ Commit(t, c)
  \/ OpenPr(t, c)
  \/ FinishJob(t, c)
  \/ FailJob(t, c)

\* A tick passes; the cap ends every job that has reached it first.
Tick ==
  /\ \A t \in Ticket : runAge[t] = JobCap => \A c \in Cycle : runs[t][c] \notin InJob
  /\ labelAge' = [t \in Ticket |-> IF "implement" \in labels[t] /\ labelAge[t] < Grace
                                   THEN labelAge[t] + 1 ELSE labelAge[t]]
  /\ runAge' = [t \in Ticket |-> IF \E c \in Cycle : runs[t][c] \in InJob
                                 THEN runAge[t] + 1 ELSE runAge[t]]
  /\ UNCHANGED <<issue, labels, bullet, fix331, cycle, runs, branch, claim, pr, released>>

-----------------------------------------------------------------------------
(* The world: people, and the merge that closes a ticket.                  *)

\* A merge closes the issue the PR names; its branch may be deleted with it.
Merge(t) ==
  /\ pr[t] = "open"
  /\ pr' = [pr EXCEPT ![t] = "merged"]
  /\ issue' = [issue EXCEPT ![t] = IF @ = "open" THEN "completed" ELSE @]
  /\ branch' \in {branch} \union (IF "branch" \in Faults THEN {branch \ {t}} ELSE {})
  /\ UNCHANGED <<labels, bullet, fix331, cycle, labelAge, runs, runAge, claim, released>>

\* A person closes the PR without merging it.
ClosePr(t) ==
  /\ pr[t] = "open"
  /\ pr' = [pr EXCEPT ![t] = "closed"]
  /\ branch' \in {branch} \union (IF "branch" \in Faults THEN {branch \ {t}} ELSE {})
  /\ UNCHANGED <<issue, labels, bullet, fix331, cycle, labelAge, runs, runAge, claim,
                 released>>

\* A person drops the ticket.
CloseNotPlanned(t) ==
  /\ issue[t] = "open"
  /\ issue' = [issue EXCEPT ![t] = "not_planned"]
  /\ UNCHANGED <<labels, bullet, fix331, cycle, labelAge, runs, runAge, branch, claim, pr,
                 released>>

\* A person holds a ticket.
Hold(t) ==
  /\ labels[t] \intersect Excluded = {}
  /\ labels' = [labels EXCEPT ![t] = @ \union {"human"}]
  /\ UNCHANGED <<issue, bullet, fix331, cycle, labelAge, runs, runAge, branch, claim, pr,
                 released>>

\* A person takes a held ticket out of the hold.
Release(t) ==
  /\ labels[t] \intersect Excluded # {}
  /\ labels' = [labels EXCEPT ![t] = @ \ Excluded]
  /\ released' = released \union {t}
  /\ UNCHANGED <<issue, bullet, fix331, cycle, labelAge, runs, runAge, branch, claim, pr>>

\* A person removes agent:implement to retry, or applies it.
Unlabel(t) ==
  /\ "relabel" \in Faults
  /\ "implement" \in labels[t]
  /\ labels' = [labels EXCEPT ![t] = @ \ {"implement"}]
  /\ released' = released \union {t}
  /\ UNCHANGED <<issue, bullet, fix331, cycle, labelAge, runs, runAge, branch, claim, pr>>

HandLabel(t) ==
  /\ "relabel" \in Faults
  /\ "implement" \notin labels[t]
  /\ ApplyImplement(t, TRUE)
  /\ UNCHANGED <<issue, bullet, fix331, runAge, branch, claim, pr>>

\* toon-meta#331 closes as completed: the tickets it blocked are let go.
Fix331 ==
  /\ fix331 = "open"
  /\ fix331' = "completed"
  /\ released' = released \union bullet
  /\ UNCHANGED <<issue, labels, bullet, cycle, labelAge, runs, runAge, branch, claim, pr>>

World ==
  \/ \E t \in Ticket :
       \/ Merge(t)
       \/ ClosePr(t)
       \/ CloseNotPlanned(t)
       \/ Hold(t)
       \/ Release(t)
       \/ Unlabel(t)
       \/ HandLabel(t)
  \/ Fix331
=============================================================================
