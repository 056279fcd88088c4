# The software factory, in TLA+

`toon-meta` is the hub of the TOON protocol's repositories. Most of it is prose (skills, templates,
docs); the part that *runs* is the software factory: scheduled passes (`scripts/factory/*.mjs`,
started by `.github/workflows/*.yml`) that label tickets, fire agent runs
(`.sandcastle/*.ts`), merge what they produce and clean up after the ones that die. The passes
share no process and no database. All they share is GitHub: issue states, labels, comments,
branches, pull requests and the list of workflow runs, which each of them reads piece by piece,
minutes before it writes. That is where this project looks.

## 1. The system

| Component | Source | State it keeps | Operations | What makes it correct |
|---|---|---|---|---|
| Tickets and agent runs | `agent-implement.yml`, `agent-implement-issue.ts` | issue state, labels, runs, branch, PR | guard, implement job, push, PR, verdict; failure or cap at any point | one job per issue; a refused or failed run changes nothing else |
| Dependency rules | `unblock-evaluator.mjs` | none (pure) | `parseBlockedBy`, `detectCycles`, `isReady` | undecidable never means ready |
| Unblock dispatcher | `unblock-dispatcher.mjs`, `dispatch-evaluator.mjs` | a snapshot and a plan per pass; its marker comments | read fleet, plan, label, flag | one ticket in flight per epic; never before its blockers; an idle epic goes on |
| Dead-label reaper | `reap-dead-labels.mjs`, `reap-evaluator.mjs` | a snapshot per pass; its marker comments | list tickets, PRs and runs; judge; pair, remove, comment | spare what lives; free what is dead; never let a dead ticket spin |
| Write report | `write-report.mjs` | the failures of a pass | `runWrite` | one failing write does not stop the pass |
| Epic completion | `unblock-dispatcher.mjs`, `completion-evaluator.mjs` | marker comments | close or escalate an epic | no epic closed over an open or dropped child; a finished one is closed |
| Auto-merge and repair | `auto-merge.mjs`, `automerge-evaluator.mjs`, `repair-evaluator.mjs`, `pr-signals.mjs` | labels, markers, budgets counted from timelines and comments | merge, arm, disarm, update the branch, re-run, repair, escalate | what must not merge is not left armed; what is ready merges; repairs end |
| Review and fix runners | `agent-review-pr.ts`, `review-verdict.ts`, `needs-human-evaluator.mjs`, `agent-fix-pr.ts` and their workflows | the verdict, `needs:human`, trigger labels | review, push, submit, hold and lift the hold; fix, push, ask for a review | a machine never lifts a person's hold; a blocked PR has a human |
| PR housekeeping | `pr-housekeeping.mjs` | fix tickets with a marker | list, settle, search, file a fix ticket or escalate | one open fix ticket, so many in all, then a human |
| Ticket hygiene | `ticket-hygiene.mjs`, `hygiene-evaluator.mjs` | the label `stale`, marker comments | close what is done, warn and close what is dormant | hands off what is in work; a person's reopening is final |
| Daily digest, fork watch, gates | the rest of `scripts/factory` and `.github/workflows` | one issue, or nothing | reports | — |

How they meet. The dispatcher adds `agent:implement`; the `issues.labeled` event fires a run, whose
guard reads the labels *of that moment*; the run ends with a PR, without one, or dead. To the
dispatcher the label means "in flight", so a dead run blocks its epic until the reaper takes the
label off; and because a ticket without the label is a ticket the dispatcher takes again, the reaper
first parks it (`needs:human`, `tracking`, or a `## Blocked by` bullet on toon-meta#331), so that
the dispatcher's own readiness rule declines it. People hold, release, close, label and unlabel at
any time; merges close tickets; events get lost; reads and writes fail one by one.

A run that succeeds leaves a pull request and a verdict. From there on the auto-merge pass, the
review job, the fix job and GitHub's own auto-merge work on it beside each other: the pass decides
from a snapshot that was read in pieces; a review makes an approval that counts for one commit; a
fix makes another commit. `needs:human` is the control point of people, and the review job may lift
it only where the factory itself had applied it. Two janitors come after: housekeeping files a
close-and-reimplement ticket for a PR that is stuck, and counts these tickets; hygiene closes
tickets, those of housekeeping included.

Hard in this code: snapshots of different ages combined in one judgement, writes planned on them
minutes later, overlapping passes, failures that read as "nothing there", passes cut off between two
writes, and two pieces of code parsing one section of text. `PROJECT.json` lists these hazards at
their lines, with the properties that watch them.

## 2. The modules

```
Tickets ──┬── DispatchPlan ── Dispatcher ──┬── Factory ── MCFactory
          │     └ Readiness     ├ MCDispatcher
          │                     ├ Dispatcher_proofs ── Tickets_proofs
          │                     └┄┄▷ EpicLanes
          ├── Reaper ──────────────────────┘        └ Factory_proofs
          │     ├ MCReaper
          │     └ Reaper_proofs ── Tickets_proofs
Readiness ── BlockedBySection ── Section_proofs

EpicPromise ◁┄┄ Completion ──┬── MCCompletion
                             └── Completion_proofs

AutoMergeGate ── PullRequest ── PrRunners ── AutoMerge ──┬── MCAutoMerge
                                                         └── AutoMerge_proofs

Backlog ── Housekeeping ── Hygiene ── Sweeps ──┬── MCSweeps
                                               └── Sweeps_proofs
```

A line is EXTENDS, to the right; `◁┄┄` and `┄┄▷` are "implements". The three groups share no variables: they
meet in the labels, and each group has its own view of those it reads.

**Tickets** – what the passes share. `issue`, `labels`, `bullet` (tickets whose section names #331),
`fix331`, `cycle` (how often a ticket was labeled), `labelAge`, `runs[t][c]` (the run of the c-th
labeling), `runAge`, `branch`, `claim`, `pr`, and the observer `released` (the ticket was let go, by
a person or by the closing of #331, since the reaper last parked it; no action reads it). Actions:
`Guard`, `StartJob`, `NoCommits`, `Commit`, `OpenPr`, `FinishJob`, `FailJob` follow
`agent-implement.yml` and the runner; `Tick` is time, and lets no job outlive its cap; `Merge`,
`ClosePr`, `CloseNotPlanned`, `Hold`, `Release`, `Unlabel`, `HandLabel`, `Fix331` are GitHub and
people. `Faults` names the misfortunes an instance allows, so that each run says what it assumes.

**Readiness** – `isReady` and `detectCycles` as pure operators; a cycle is a strongly connected set.

**DispatchPlan** – `planDispatch`: membership, busy epics, the verdict on each child in the order of
the source, and the serialization loop stated by what it computes (`IsDispatch`).

**Dispatcher** – one pass per `p \in Pass`: `StartPass`, then per repository `ListIssues` (or
`IssuesUnreadable`, which reads as empty) and `ListAgentPrs`, then `Plan` with the single-issue
reads, then one write at a time: `Dispatch`, `Flag` and `FlagComment`, `AlreadyFlagged`;
`DispatchWriteFails` is `runWrite`, `PassKilled` the job's timeout. Nothing is read between plan and
write, and neither does the code.

**EpicLanes** – what the factory promises about the tickets of its epics, without labels, runs and
passes: a ticket is waiting, taken, working, completed or not planned. It is taken only when all that
blocks it is completed and nothing else of its epics is in flight (`Take`); it goes back to waiting
when nothing works on it any more (`GiveBack`), or on the close of a PR whose label was already taken
off (`Stop`). `Dispatcher` and `Factory` implement it (`LanesKept`): `Stage` reads the stage of a
ticket off its state, its runs, its PR and its label, in that order. It promises nothing about
labeling by hand, which ignores every rule of the plan.

**Reaper** – the sweep of one repository: `ListTickets`, `ListPrs`, `FetchRuns` (each its own step,
in the code's order, each able to fail its own way), `Judge` with its four reads of the ticket, then
`Pair`, `Remove`, `Comment`; a failing write ends the ticket's turn. `Evaluate`, `Outcome` and
`ChoosePairing` are `evaluateTicket`, `classifyOutcome` and `choosePairing`. `Redispatch` stands for
the dispatcher: one atomic step with its readiness rule.

**Factory** – Reaper and Dispatcher over one `Tickets`, with the real dispatcher's stale reads in
place of nothing: here `Redispatch` is not used. The reaper sweeps all tickets at once.

**BlockedBySection** – a ticket body as a sequence of line kinds; `parseBlockedBy` and
`appendBlockerRef`, each with its own idea of where an item ends and what declares `None`, and the
tickets' life under repeated reaps.

**Completion** – the pass that follows each dispatch pass, over state of its own: `child` (the
issues with a `Part of` line), `closed`, `held` and `escalated` epics. A pass lists the issues
repository by repository (`ListIssues`, `IssuesUnreadable`), reads the timeline of every open epic it
saw (`ReadTimeline`, `TimelineUnreadable`; `ShownOn` says on which timelines a child shows, which may
be more than its epic's), then fetches missing close reasons and decides (`PlanCompletion` with
`Candidate`, `Tally` and `Verdict`, which are the candidate map and `planCompletion`), and writes:
`CloseEpic`, `Escalate` and `EscalationComment`, `AlreadyEscalated`; `WriteFails` and `PassKilled` as
above. Children are filed, closed and reopened and epics held, released and reopened between any
two of these steps. The field `moved` of a pass observes the children that were filed or reopened
since it started.

**EpicPromise** – what the completion pass promises, with no pass in it: epics, children and an
observer `late` of the children that were filed or reopened while a pass is under way. An epic is
closed over children that are completed *at the moment of the write*, or late; it is announced as
reduced only over a child that is dropped at that moment, or late. `Completion` implements it
(`PromiseKept`, with `Late` for `late`).

**AutoMergeGate** – pure: what the pass decides about one PR from a snapshot. `Blockers` is the list
of blockers of `evaluatePr`; `RepairableOnly`, `StaleRed`, `RepairCandidate` and `PlanRepair` are the
gate to repair and `planRepair`; `PendingShaped` and `Verdict` the order in which the code prefers
disarming, repair, update, arming and merging. A check is a name with one of six states; plumbing
checks are left out as `pr-signals.mjs` does.

**PullRequest** – one PR as GitHub keeps it: head commit (a number), `behind`, `conflict`, checks on
the head, `armed`, the latest opinion of the factory's approver and the commit it is filed under,
labels with who applied `needs:human`, and the events that wait for a job. Its actions are external:
CI, branch protection, GitHub's merge of an armed PR, main, people.

**PrRunners** – the review job (`StartReview` fetches the head; then a judgement or a push, the
submission, hold or reading of the timeline and lifting, the removal of the label, the report of a
failure) and the fix job, each step a call the code makes, each able to fail or to be the last one.
The first verdict is that of the implement runner: `RunnersInit` has it about to submit, by the same
function and so by the same actions, or dead before. What differs is `Throws`: the review job catches
a failure and reports it, the implement runner dies of it (`reports`).

**AutoMerge** – the pass: `ReadPr` (main's checks, the list, the poll), `ReadRest` (every further read,
each of which may fail its own way: `Unfit`, `Opinion`, `LinkedHold`, `Rollup`, `RepairsRead`,
`RetriesRead`), which computes the plan, and one write: `Arm`, `DirectMerge`, `Disarm`,
`UpdateBranch`, `Rerun` and `MarkRerun`, `ApplyFix` and `DispatchFix`, `Escalate`; `Refused` is a
call that fails and the cap, `PassKilled` the job's end. `raced` and `unheld` are observers.

**Backlog** – what the janitors share: tickets with the dates and marks that decide about them, one
factory PR, people, days, and `due`: an event has asked for a housekeeping pass (`Events` of the PR
itself, `OtherEvent` elsewhere in the repository, which may never come). **Housekeeping** – a pass
`Starts` when one is due, which is one running and one queued; `ListPrs` or `Unlisted`, `Settle` or
`Unsettled`, `SearchPriors`, then `FileFix`, or `LabelHuman` and `CommentHuman`; `PassFails`. A pass
that did not get to judge ends "cut" and not "idle". What the list said is judged as it is, however
old; only a mergeable that was unknown is read again (`Conflicts`). **Hygiene** – `ListIssues`, then three
loops over that list (`JudgeMerged`, `JudgeRemediation`, `JudgeStale`), each ticket with its own
reads and writes: `CloseObsolete`; `MarkStale` and `Warn`; `CloseStale`; `Unstale`; `SweepFails`.
**Sweeps** – both together. `fresh` observes the tickets somebody touched while a sweep ran.

Every pass is modelled as it runs with its `*_APPLY` variable set; without, it only prints.

Definitions named `...By...`, `Evaluate...`, `Judge...` and so on with a comment "Mutant of X" are
plausible bugs of X; each one breaks the property it is paired with in `PROJECT.json`, which shows
that the property depends on that piece of the code.

## 3. The runs

| Run | Instance | Shows |
|---|---|---|
| `reaper_safety` | one ticket, two labelings, ten kinds of fault | `LiveRunSpared`: no ticket is parked while its run lives. `NoRespin`: no reaped ticket is labeled again unless let go, whatever read or write fails. `TypeOK` |
| `reaper_live` | one ticket, two labelings; lost webhooks, unreadable run list, labeling by hand | `DeadLabelFreed`: a dead label does not hold its epic for ever |
| `reaper_bare` | three labelings, no fault at all | violates `NeverBare` (finding 1, 2) |
| `dispatcher_live` | two siblings, the second waits for the first; failed writes, issue lists and single-issue reads, cut-off passes | `IdleEpicResumes`: a ticket that could be taken in an idle epic is not left, whatever passes failed or were cut off before. `OnlyUnblocked`: labeled only with its blockers closed as completed. `FleetTypeOK` |
| `factory_respin` | both passes, three labelings, #331 open at first | `RespinFree`: what `NoRespin` says, with the dispatcher's reads as old as its pass. `RepeatDeathHeld`: after two deaths in the window a ticket is labeled again only after somebody let it go |
| `factory_serial` | both passes, two siblings in two repositories, one of them a parent that guards refuse, one labeling each; lost events, late run lists, failed writes, cut-off passes | `OneInFlight`: no two open tickets of an epic are worked on at once, though the reaper takes labels off between the reads and the writes of the dispatcher. `LanesKept`: the two implement `EpicLanes`. `LiveRunSpared` |
| `completion_pass` | one epic, two siblings in two repositories; all seven kinds of fault | `ClosedOverDone`: no epic is closed over a child that is open or dropped. `DoneEpicCloses`: a finished epic is closed. `DroppedScopeSurfaced`: a dropped child is surfaced, whatever work is left. `PromiseKept`: it implements `EpicPromise`. `TypeOK` |
| `pr_gate` | one PR of two commits from the implement runner's verdict on, one check, one pass beside both runners; two moves of people or main; fifteen kinds of fault | `HoldStands`: no machine lifts a person's hold. `BlockedIsHeld`: a blocking verdict has its hold, unless the job died before it applied it. `RepairBounded`: no more dispatches of the fixer than the budget. `MergesJudged`: whatever read fails, what is armed or merged is approved at the head that was listed, not held, not objected to and not red. `TypeOK` |
| `pr_live` | the same with one move; flaky checks, conflicts, pushes, a red main, holds on the issue, objections, failing writes, an old merge state | `DisarmedInTime`: a PR that must not merge is not left armed. `ReadyMerges`: a ready PR does not stay open. `ConflictAnswered`: a conflict is repaired or escalated |
| `pr_stranded` | one move, no fault | violates `BehindMerges` (finding 3) |
| `sweeps` | one PR, up to three fix tickets, one of them of the retired sweep, one ticket of a person; one move of a person or failing call; events that come or never come | `OneFixTicket`, `CapHolds`: one open fix ticket, and so many in all. `HandsOff`: a ticket closed as dormant was warned and left alone. `AttemptsKept`: no fix ticket of an open PR is closed. `ReopenRespected`: no obsolete ticket is closed again. `StuckAnswered`: a PR that is stuck when an event asks for a pass is answered by one, unless it is cut off. `DormantCloses`: a dormant ticket does not just stay. `TypeOK` |
| `section_append` | every body of up to five lines, reaped up to twice | `Declined`: the appended blocker always holds the ticket. `ListExtended`: a clean list of blockers gains that one and loses nothing |

All runs but those of `Completion` and `Sweeps`, which never rest, say `CHECK_DEADLOCK FALSE`:
labelings are bounded and a merged PR is the end, so an instance may come to rest.

**Bounds.** `MaxCycles` (labelings of one ticket): a respin needs two, a repeated death two and a
third labeling to betray it. `Grace` 1 and `JobCap` 2 keep the order of the code's 75 and 180
minutes; `RepeatWindow` 2 lets a death fall inside and outside the window. Only the order of these
numbers is read. The dispatcher's instance has no clock (`Grace` and `JobCap` 0: it reads none).
One ticket is enough for the reaper, whose decisions never relate two tickets; that several tickets
in one sweep do not disturb each other is proved, not checked. Two siblings are the least that can
collide in an epic. `factory_serial` gives each of the two one labeling, which is what the reaper can
take off under a pass; a second one is `factory_respin`'s. With both passes and two tickets it is the
largest instance, and the constraint `Unreleased` (of `MCFactory`) ends it where a person or the closing
of #331 has let a ticket go: what comes after is checked in `factory_respin` with one ticket and
proved for any number (without the constraint it has more than 13 million states). The one sweep of
its reaper takes both repositories, where the code sweeps one after the other; since a sweep may be cut
off after any ticket, the code's order is among the model's. `MaxLines` 5 holds a heading, a blocker, a
continuation, a `None` and the heading that follows; `MaxReaps` 2 is the first repetition. One epic is
enough for the completion pass, which relates two epics only through a child on both timelines
(remark 4). Overlapping completion passes are covered by the proof.

For the PR, `MaxHead` 2 is the least with a stale approval; the budgets are 1, the least that can be
used up and exceeded; one check is required and one is the pass's own job, which tells the two kinds
apart. Two moves are a hold and its release, or a hold and a branch that falls behind. `pr_live` has
one move, since its properties speak of what is done about a state, not of how it came about; that
and the kinds of fault are divided over the two runs, as all together are beyond TLC. A mergeable
that does not settle is in neither: that nothing is armed or merged on one is proved (`GateIsStrict`).

For the backlog, `StaleDays` and `GraceDays` 1 keep "before" and "after" apart; `MaxFix` 3 with
`RetryCap` 2 is one ticket more than the cap; `MaxMoves` 1 is one intervention between any two steps
of two janitors that go on for ever. (With two moves and the safety properties alone the instance has
10.3 million states and passes too.)

**Fairness.** `Fairness` of the reaper and `FleetFairness` say: the hourly cron starts passes for
ever; a pass that runs goes on; a read or a write that keeps being tried succeeds in the end (strong
fairness on `ListPrs`, `Pair`, `Remove`, `ListIssues`, `Dispatch`, `Flag`, and on the plan of a pass
that read all epics and every issue it asked for), because GitHub's outages end; dispatch passes are
not cut off for ever, since only an accident makes one last as long as its job's timeout; a run ends,
because its job has a cap; time goes on. Nothing is assumed of people, merges or events: a lost
`issues.closed` may stay lost, and the liveness runs never use one. `Completion` has more reads in a
row, and states the end of the outages directly: from some moment on every step is a good step of a
pass or a step of the world. Until then anything may fail in any order, so its liveness says that no
failure leaves anything behind; a timeline may omit close reasons for ever.

`AutoMerge`: CI reports on a head that can be merged; GitHub merges what is armed whenever protection
keeps allowing it (strong: people and checks may come in between); both jobs run on, as they have
caps; the cron starts passes for ever, and among them passes that no PR event started, whose own job
is no check of the PR (strong, since other passes run in between); a pass goes on, and a write that
keeps being tried succeeds now and then. Nothing is assumed of people, of which head the reviewer
finds clean, or of the fixer. `Sweeps`: days go by, the cron starts hygiene, and jobs end; all of it
weak. Housekeeping has no schedule (pr-housekeeping.yml:62-85 and the shims): a pass that an event
asked for starts, since a queued job runs, but no event has to come, and an event may be lost.
`StuckAnswered` therefore begins with a PR that is stuck *and* a pass that is due. Failures there
take from the moves, so they end.

## 4. What is proved

`Reaper_proofs` (with the lemmas of `Tickets_proofs`), for every set of tickets, every bound and
every set of faults unless stated:

- `ReaperTypeCorrect`: `Spec => []TypeOK`.
- `ReaperNeverRespins`: `Spec => NoRespin`. The inductive invariant is `Parked`: a ticket that was
  labeled before and carries `agent:implement` no more is held by a label, or by its bullet on
  #331, or was let go; and a pass that has paired a ticket, and is about to remove its label, keeps
  it so. It is needed because `NoRespin` speaks of the moment of labeling, while what makes it true
  was written by an earlier step, possibly of a pass that was cut off right after it. The order
  pair, remove, comment, and that a failing write ends the turn, are exactly what the proof uses.
- `ReaperSparesLiveRuns`: under `Reliable` (a readable run list, no labeling by hand),
  `Spec => []LiveRunSpared`. The invariant `Informed` relates the run snapshot to the runs: what was
  over when it was read is over now, a labeling that is still to be judged and whose run it does not
  show is younger than the grace period, and the ticket at hand was judged on it. What it does need of the
  grace period is in `Unseen`: a run shows in the list within it. What it does not need is that it
  exceeds the job's cap, which is where the code gets it from: with a readable list the cap is
  irrelevant, and without one (remark 2) the cap is all there is, and it is wrong.

`Completion_proofs`, for every set of children, epics, repositories, overlapping passes and faults:

- `CompletionTypeCorrect`: `Spec => []TypeOK`, with `Underway` (a pass about to comment is at an
  escalation).
- `CompletionClosesOverDone`: under `OneTimeline` (a child shows on the timeline of its one epic
  only), `Spec => ClosedOverDone`. The invariant `Informed` has four parts, and the one that matters
  is `SeenTogether`: a pass that knows one child of an epic from a timeline knows all of them, but for
  those filed since. That is why a failed timeline does no harm: the epic then has no known child but
  open ones. `OneTimeline` is what it rests on, and the code does not see to it (remark 4).
- `CompletionKeepsPromise`: `Spec => PromiseKept` under `OneTimeline`, for any number of overlapping
  passes. Initial states map to initial states; each action of a pass maps to one step of the promise
  or to a stutter. Closing is `Informed`; announcing needs the like of it, `Warned`: what a pass knows
  or is about to announce as dropped is dropped still, or late, because a dropped child changes only
  by being reopened.

`AutoMerge_proofs`, for every set of checks, every budget, bound and set of faults, and any number of
overlapping passes:

- `PrTypeCorrect`: `Spec => []TypeOK`; it includes that `holder` is set exactly while the label is on.
- `PersonsHoldStands`: `Spec => HoldStands`. The only step of the factory that takes `needs:human`
  off is `LiftHold`; the invariant `Lifting` says that while a job is about to do that, the hold is
  not a person's unless it came after the timeline was read (`raced`). That window is real, and the
  exception in the property is the window and no more.
- `BlockedStaysHeld`: `Spec => []BlockedIsHeld`, from `Approving`: whoever lifts a hold has just
  submitted an approval, and nothing but the same job changes that opinion. It makes no assumption
  about which writes fail, and the implement runner's submission is among the behaviours. It shows
  that every failing path of the review job ends in the report, and the report in the label, and that
  the ways to a PR that is blocked and not held are three: a person takes the hold off, a job is
  killed between review and label (or its report fails as well, which is only logged), or the
  implement runner's call for the label fails (remark 15).

- `RepairsEnd`: under `CountsRight` (passes do not overlap, the timeline can be read),
  `Spec => RepairBounded`. `Counted` says that a dispatch that was decided and not yet made is within
  the budget still: nothing but the pass itself adds to the count between its reading and its write.
  With two passes, or with a timeline that reads as empty, it does not hold (remark 10).
- `GateIsStrict` and `RepairIsGated`, of the gate as a function: for every snapshot, what `Verdict`
  arms or merges is `Approved` (approved at its head, no objection, no hold, nothing unfit), settled,
  without a red check and with every required check reporting; and green when it is merged without
  GitHub. What it retries, repairs or escalates is `Approved` and not armed: "disarm outranks every
  other verdict", and of an armed PR it takes the place of every repair, because whatever makes a PR a
  candidate for repair is a blocker that does not wait. Their hypothesis is that the codes of the static blockers are not those
  of the checks and the merge state.
- `MergesAreJudged`: `Spec => MergesJudged`, from the type invariant and `GateIsStrict`, for all
  combinations of failing reads. Approval, objection, policy, approver and logs fail closed: without
  the reviews there is no approval either. The issue of the PR is the exception, and the property
  names it: one that cannot be read counts as not held (remark 10).

`Dispatcher_proofs` (with the lemmas of `Tickets_proofs`), for every set of tickets, epics,
repositories and overlapping passes, every bound and set of faults unless stated:

- `FleetTypeCorrect`: `FleetSpec => []FleetTypeOK`, with `Commenting` (a pass comments on a ticket of
  its plan), because a pass finds the ticket of its turn anew at every step.
- `DispatchesUnblocked`: where nobody labels by hand, `FleetSpec => OnlyUnblocked`, for overlapping
  passes and failing reads too. `Unblocked` says that what a pass still has to send is free: a read
  that fails leaves a blocker unknown, never completed, and a completed one is not opened again.
- `EpicsSerial`: under `Serial` (passes do not overlap, issue lists can be read, nobody labels by
  hand), `FleetSpec => []OneInFlight`. The invariant `Serialized` is about labels, not work: what
  works carries the label (`Labeled`), no two open tickets of an epic carry it (`OneLabeled`), a
  pass's view of the labels in the repositories it has listed is still true (`Knows`: only the pass
  itself labels), and what it still has to send has no epic in common with anything labeled or with
  each other (`Sends`). So PR lists that cannot be read, events that are lost and passes that are cut
  off do no harm. Each assumption of `Serial` is needed: with `"issues"` or `"relabel"` among the
  faults of an instance with two siblings TLC finds `OneInFlight` violated, and with a second pass
  (remark 3). The run that checks it is `factory_serial`, whose behaviours include those in which the
  reaper never starts.
- `LanesAreSafe`: `EpicLanes` implies that no two tickets of an epic are in flight, and that none is
  before its blockers are done; so the promise holds what `OneInFlight` and `OnlyUnblocked` say of open
  tickets, and its implementations inherit it.
- `FleetKeepsLanes`: under `Serial`, `FleetSpec => LanesKept`. Each action maps to one step of
  `EpicLanes` or to a stutter. The only hard one is the label: from `Unblocked` and `Serialized` the
  ticket a pass labels may be taken at the moment of the write (`MayTake`), and as what works carries
  the label (`Labeled`), "nothing labeled shares an epic with it" is "nothing in flight does".
- `PlanIsDeterministic` and `PlanSettles`, of the plan as a function: for every snapshot there is
  exactly one `D` with `IsDispatch(S, D)`. So the definition, which says what the serialization loop
  computes and not how, determines it, `Plan` is never blocked, and "same state, same pick" of
  unblock-dispatcher.yml:44 holds. Two plans that differ do so on a least ticket, and up to there they
  have taken the same epics; a plan up to each number exists, since none can be the least without.
  `PlanSettles`: once the labels of a plan are written, and before any work ends, the next plan is empty.

`Factory_proofs` (with the lemmas of both), for every set of tickets, epics and repositories, every
bound and set of faults unless stated:

- `FactoryTypeCorrect`: `FactorySpec => []FactoryTypeOK`.
- `FactoryNeverRespins`: where dispatch passes do not overlap and nobody labels by hand,
  `FactorySpec => RespinFree`: what `ReaperNeverRespins` shows of a dispatcher that reads and labels
  at once holds of one whose reads are minutes old. Three invariants carry it: `Parked`, of the
  reaper; `Careful`, that what is on the reaper's sheet carries the label until the reaper takes it
  off, so that it parks nothing that is out of flight; and `Evidence`, that a ticket a pass saw out
  of flight is so still, and was let go, or the pass saw the hold or the bullet. With a second pass,
  or with `"relabel"`, TLC refutes it: a ticket is parked anew between the read of a pass and its
  write.
- `FactoryHoldsRepeatDeaths`: under the same two assumptions, `FactorySpec => RepeatDeathHeld`. The
  invariant `Warned` goes with a ticket from the second death to the next labeling: a ticket with a
  death in the window is never parked by a bullet, which #331 may already have satisfied
  (`Heedful`), so that out of flight it is held by a label or was let go (`Escalated`); a pass that
  read it so saw the hold (`SeenDead`) and does not send it (`SentDead`). Whichever of the reaper's
  reads fail: the bullet needs a claim, and who can read the comments for a claim can read the
  earlier death among them.
- `FactoryDispatchesUnblocked` and `FactorySparesLiveRuns`: what `DispatchesUnblocked` and
  `ReaperSparesLiveRuns` show of each pass alone holds of both together, under the same assumptions
  and with any number of dispatch passes. `Unblocked`, `Parked` and `Informed` are kept by the steps
  of the other pass too; for `Informed` that is since a ticket still to be judged carries the label,
  and a label that is there is not given anew.
- `FactoryKeepsLanes`, and from it and `LanesAreSafe` `FactoryEpicsSerial`: under `Orderly`,
  `FactorySpec => LanesKept` and `FactorySpec => []OneInFlight`. `EpicsSerial` does not carry over: its
  `Labeled` fails here, since the reaper takes the label off a ticket whose PR it read too early
  (remark 1). `Cautious` replaces it. A live run is that of the last labeling, under its label
  (`OneRun`, from `Informed`); what a pass has read of a repository shows all that is in flight there,
  by the label or by the PR (`Covers`: labels are read first, and what works without one has an open
  PR by then, which the list that is read next shows); and what a pass still has to
  send has no epic in common with anything in flight (`Clear`). `Orderly` is `Serial`, `Reliable` and
  PR lists that can be read. The last is what this theorem needs and `EpicsSerial` did not: TLC refutes
  it without (remark 1).

`Section_proofs`, for bodies of every length and any number of reaps (the run has five lines and two):

- `PairingDeclines`: `Spec => []Declined`. `Paired` says that a section that was reaped is `Guarded`:
  it is undecidable, or it has the edge to #331. The lemma that carries it is `SectionSplice`: what
  `appendBlockerRef` puts between the heading it finds and the next one is what `parseBlockedBy`
  reads there, so that the two agree on where the section is, though not on what declares `None`.
- `ListsExtended`: `Spec => ListExtended`. Where only clean references start an item there is no
  prose, so the bullet comes last and the edit takes nothing away.

`Sweeps_proofs`, for every set of tickets, every bound and set of faults, and any number of
overlapping housekeeping passes unless stated:

- `SweepsTypeCorrect`: `Spec => []TypeOK`, with `Known` (a sweep deals with tickets of its list, and
  what is on its list was filed).
- `LastWordStands`: where comments can be read, `Spec => ReopenRespected`. `Marked` says that what was
  closed as obsolete carries the marker, and that a ticket about to be closed so carries none. It
  rests on one fact about gh: the comment goes out before the close.
- `FixTicketsOne` and `FixTicketsCapped`: under `Alone` (housekeeping passes do not overlap, searches
  work) and with no more legacy tickets than the cap, `Spec => []OneFixTicket` and
  `Spec => []CapHolds`. `Room` says that a pass about to file found no open ticket but reopened ones,
  and room under the cap, whatever hygiene and people closed since.
- `AttemptsStand` and `StaleClosesDue`: `Spec => AttemptsKept`, and `Spec => HandsOff` where the open
  pull requests can be listed. The sweep lists once and closes much later. `Sheet` says what of the
  list holds still: a link that was listed, and all of a ticket that nobody touched and the sweep did
  not deal with. `Over` and `Due` carry that to the write that was decided, across whatever happens
  before it is made. The exception `fresh` of both properties is the window between list and write.

Every safety property that a passing run checks is the statement of a theorem. Only model-checked is
liveness (`DeadLabelFreed`, `IdleEpicResumes`, `DoneEpicCloses`, `DroppedScopeSurfaced`,
`DisarmedInTime`, `ReadyMerges`, `ConflictAnswered`, `StuckAnswered`, `DormantCloses`), which needs
ENABLED and fairness and is beyond the prover. The counterexamples of the two runs that expect a
violation are TLC's as well.

## 5. Findings

1. **A reap that declines nothing** (`reaper_bare`). A lost push is parked with a bullet on
   toon-meta#331, whatever the state of #331. Once #331 is closed as completed the bullet is
   satisfied, and the dispatcher labels the ticket again at once. `NoRespin` has that as its one
   exception, and `NeverBare` is the promise without it.
2. **The reaper takes its own comment for a claim** (`reaper_bare`, same trace). A "lost push" is a
   failed run whose comments name a canonical branch that does not exist. The reaper's own comment
   names both canonical branches, so after a first reap every later failure without a branch counts
   as a lost push.
3. **An update strands an approved PR** (`pr_stranded`). An approved PR that is only behind main has
   its branch updated. The update is a new head, the approval stays with the old one, and the gate
   calls it stale from then on. The fix runner asks for a new review after its push for this very
   reason (agent-fix-pr.ts:227); after an update nobody does, and the next pass does not merge.

Remarks: what the models show, or showed with another instance, and no run of the list argues about.
On tickets and epics:

1. *The PR list is older than the run list.* A run that opens its PR and finishes between
   `ListPrs` and `FetchRuns` is seen finished and without a PR; its ticket is parked. Its siblings
   still wait for that PR (`FactoryEpicsSerial`), as long as it can be listed: a list of PRs that the
   dispatcher cannot read is empty (unblock-dispatcher.mjs:177), and then the sibling is sent although
   the epic has a PR in flight (`OneInFlight` in `factory_serial` with the fault "prs"). The reaper had
   the same `?? []` in this place and no longer has (reap-dead-labels.mjs:247).
2. *Grace period and job cap.* The reaper takes the job's cap to be 60 minutes
   (reap-evaluator.mjs:159); the workflow says 180. An unreadable run list reads as an empty one, and
   then a working run of more than 75 minutes is parked: `LiveRunSpared` fails with the fault "runs".
3. *Overlapping dispatch passes.* The header of the workflow calls the race safe because the plan is
   deterministic. It is (`PlanIsDeterministic`), but two passes that read at different times plan
   differently: one sees sibling 1 held and takes 2, the other sees it released and takes 1 (`OneInFlight` with two members of `Pass`).
4. *Half of an epic.* A timeline that cannot be read counts as one without children. A child whose
   text names a second epic is found on that one's timeline; if it is completed and its siblings
   were on the unread timeline only, the epic is closed, over a sibling that was dropped
   (`ClosedOverDone` without `OneTimeline`).
5. *Marked once.* The needs-human marker of the dispatcher is keyed on the ticket alone. A ticket
   flagged for a failed read and released by a person gets neither label nor comment when its
   blocker is later dropped (`AlreadyFlagged`). An epic with the escalation marker is never
   escalated again.
6. *Two writes.* Label and comment of a flag, of an escalated epic, or of an escalated PR
   (pr-housekeeping.mjs:276) are two writes. When the second fails, the next pass sees the label and
   takes it for a human's: the comment is never written.
7. *None as a bullet.* `parseBlockedBy` takes a bullet `- None` for a declaration, and
   `appendBlockerRef` does not look for it there; the appended blocker contradicts it, and the ticket
   goes to a human instead of resuming when #331 closes. `Declined` holds all the same.
8. A run that the guard refused because of a passing hold is parked under `tracking` like a parent
   with sub-issues. A ticket closed while its run works does not count for its epic any more, so the
   next one may be dispatched while the first run still opens its PR; `OneInFlight` speaks of open
   tickets, as the evaluator does.

On pull requests:

9. *What a review saw.* `submitFactoryOpsVerdict` names no commit: an approval is filed under the
   head of the moment, which may be one the reviewer did not see (`Submit` with a `base` that is not
   `head`). Merge and arming do not name the judged commit either; only the branch update does.
10. *Fail open.* Both budgets count from zero when their history cannot be read, so `RepairBounded`
    fails with the fault "history"; two passes that overlap (the shim's and the fleet's are in
    different concurrency groups) each dispatch once, and it fails too. An issue that cannot be read
    counts as not held, so that its `needs:human` does not stop the merge (`MergesJudged` excepts it).
11. *A red check is more than one blocker.* On a PR whose required check is red GitHub's merge state
    is BLOCKED, which is no repairable blocker: the PR is repaired only while the merge state is an
    older one. A head that conflicts from the start never gets a check, and so is never repaired.
12. *A fix that died.* `agent:fix` stays on the PR when its job is killed or was never started, and
    every later pass takes it for a fix in flight; auto-merge.mjs:654 counts on a later pass to
    dispatch again.
13. *Two fixes and none.* A repair labels a PR and dispatches the workflow; on a PR that can be merged
    both start a job. Asking for a review on a PR that conflicts starts none.
14. A pass that a PR event started sees its own job pending and its PR therefore UNSTABLE: it arms or
    waits; it is the cron's passes that merge directly.
15. *Blocked and not held.* The review job catches what its submission throws and reports it with the
    label (agent-review-pr.ts:312). The implement runner calls the same function outside any `try`
    (agent-implement-issue.ts:418), and its workflow has no step for a failure: if the review is
    posted (review-verdict.ts:589) and the label is not (:619), the PR is blocked, nothing marks it
    for a human, and nothing comes back to it. A job that is killed in between leaves the same.
    `BlockedIsHeld` excepts both and nothing else. A hold that a person applies between the
    reading of the timeline and the deletion is lost; `HoldStands` excepts it.

On the backlog:

16. *Second fix tickets.* Housekeeping's search answers nothing when it fails, and lags when it works:
    then a second fix ticket is filed (`OneFixTicket` with the fault "search"). So it is by two
    overlapping passes, the fleet's and a repository's.
17. *Half a close.* `gh issue close --comment` comments first. If the close of an obsolete ticket
    fails, the marker is there, the ticket is open, and every later sweep reports it as reopened by a
    human. If that of a stale one fails, the comment is activity like any other, and the ticket loses
    its label and starts anew.
18. *Unread comments, unread lists.* Comments that cannot be read are none, and then a reopened ticket
    is closed again (`ReopenRespected` with the fault "comments"). A list of open PRs that cannot be
    read is empty, and then a ticket in work is closed as dormant (`HandsOff` with "prs"); the header
    promises the opposite (ticket-hygiene.mjs:66).
19. *Stale for ever.* If the warning comment fails after its label, the ticket is "unmanaged" from
    then on. An obsolete ticket that was reopened is dealt with before the stale loop and never goes
    dormant. An edit within the hour after a warning is no activity.
20. Housekeeping's ticket asks for the PR to be closed and done again, while the auto-merge pass has
    the fixer repair it: both may be at work on one PR. Nothing in either looks at the other.
21. *Silence until the next event.* Housekeeping has no cron. A pass that is cut off, cannot list the
    PRs or meets a mergeable that does not settle is repeated by no one, and that a PR went three
    days without activity is announced by no event. In a quiet repository such a PR stays until
    another is merged or a factory branch's CI reports. `StuckAnswered` without `due`, or without
    `Excused`, is refuted. "Every run re-scans the whole repo, so dropped duplicates lose nothing"
    (pr-housekeeping.yml:105) does hold where a run was queued: that is `StuckAnswered`.

## 6. What is left out, and why

*Tickets.* They are not reopened and `epic` labels do not change while a pass runs; a PR belongs to
the one ticket its branch names; the fleet is the repository list of the dispatcher, so "outside
fleet" does not occur. The runner's AUTO-MERGE mode is off in the workflow. Lists are read whole
(their limits are in the hundreds). An epic that is itself a child of an epic is left out of
`Completion`. A run is matched to its labeling exactly: the time-window tier of `findRunForLabel` and
decoy runs are planned. Reaper passes do not overlap: the concurrency group is per calling
repository, and toon-meta is the only caller that has the trigger. A bullet's trailing annotation in
parentheses is left out of `BlockedBySection`.

*Pull requests.* One PR: the pass judges each on its own, and what two share is the cap on merges,
which is one of the reasons of `Refused`. Blockers that do not change while a PR is open (fork, draft,
base, branch name, author) are one set, `unfit`. That one source of required checks is read and
another is not is left out; the pass then requires less than protection, which GitHub enforces. What
an agent does in its sandbox is its outcome: clean, blocking, a push, a failure. Drafts, renamed
branches and squash against merge are left out. The implement runner submits for a PR it has just
opened; that it runs again on one that is open already is left out, and so is a review job that
overtakes its submission, which takes seconds while the job sets up. The approver's token is the
factory's: one that is a person's own login (review-verdict.ts:327), for which a person's hold and the
factory's are one, is left out.

*Backlog.* Similar titles are clustered into a report for people and change nothing; list limits and
the opt-in label of housekeeping, which its workflow never sets, are left out. Search results
answer with what is there unless the fault says otherwise.

*Not modelled at all:* the daily digest (it reads the fleet and rewrites one issue; nothing reads it
back, though a second digest of the same day replaces the escalations of the first), the
fork-approval watch, the gates, credential plumbing, the demo dashboard, the benchmark prototype,
skills, templates and docs; they decide nothing that another part reads back.

## 7. Plan

1. `RunCorrelation`: both tiers of `findRunForLabel` against a reference, with decoys and limits.
2. `Reaper` with overlapping passes, for the day the trigger exists in a second repository.
3. Two pull requests in one pass, for the cap and for a merge that puts the other behind.
4. Proofs: the plan of the completion pass and of the sweep as functions of their snapshots, as for
   the gate and the dispatch plan; a promise for the reaper, as `EpicPromise` is one for epics.
