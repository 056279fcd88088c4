---------------------------- MODULE AutoMergeGate ----------------------------
(***************************************************************************)
(* What the auto-merge pass decides about one pull request, as a function  *)
(* of what it read: scripts/factory/automerge-evaluator.mjs with           *)
(* repair-evaluator.mjs and pr-signals.mjs.  A snapshot S is a record:     *)
(*   unfit       blockers that do not change while the PR is open: the     *)
(*               repository, the branch, the identities                    *)
(*   labels      of the PR; issueHeld: its issue carries needs:human       *)
(*   rollup      the state of every check on the head                      *)
(*   main        checks that fail on main                                  *)
(*   ops         latest opinionated review of the factory-ops approver     *)
(*   objection   another reviewer requests changes; undecided: protection  *)
(*               still asks for a review                                   *)
(*   allowed     the repository lets GitHub merge on its own               *)
(*   head, mergeable, state, armed, fixes, retries                         *)
(***************************************************************************)
EXTENDS Naturals, FiniteSets

CONSTANTS
  Check,            \* names in a PR's check rollup
  Plumbing,         \* those of the factory's own jobs
  Required,         \* those branch protection requires
  RepairBudget,     \* dispatches of agent:fix a PR gets
  RetryBudget       \* free re-runs a PR gets

ASSUME GateAssumption ==
  /\ Plumbing \subseteq Check
  /\ Required \subseteq Check \ Plumbing
  /\ RepairBudget \in Nat
  /\ RetryBudget \in Nat

\* missing: the check has not reported on this head.  red and flaky have failed,
\* flaky with a transport error in a download step.
CheckState == {"missing", "pending", "skipped", "green", "red", "flaky"}
Failing == {"red", "flaky"}

PrLabel == {"human", "fix", "review"}

-----------------------------------------------------------------------------
(* pr-signals.mjs                                                          *)

ChecksVerdict(rollup) ==
  LET states == {rollup[c] : c \in Check \ Plumbing}
  IN  IF states \intersect Failing # {} THEN "failing"
      ELSE IF "pending" \in states THEN "pending"
      ELSE IF "green" \in states THEN "passed"
      ELSE "unverified"

FailingChecks(S) == {c \in Check \ Plumbing : S.rollup[c] \in Failing}

-----------------------------------------------------------------------------
(* The blockers of a PR.                                                   *)

When(code, condition) == IF condition THEN {code} ELSE {}

\* Mutant of SomeRequired: the factory's own jobs are required as well.
SomeRequiredAll(S, states) == \E c \in Check : S.rollup[c] \in states

SomeRequired(S, states) == \E c \in Required : S.rollup[c] \in states

CheckBlockers(S) ==
  UNION {When("required-check-missing", SomeRequired(S, {"missing"})),
         When("required-check-unverified", SomeRequired(S, {"skipped"})),
         When("required-check-not-green", SomeRequired(S, Failing \union {"pending"})),
         When("checks-failing", ChecksVerdict(S.rollup) = "failing"),
         When("checks-pending", ChecksVerdict(S.rollup) = "pending"),
         When("checks-unverified", ChecksVerdict(S.rollup) = "unverified")}

\* Mutant of ReviewBlockers: an approval of any commit counts.
ReviewBlockersAnyHead(S) ==
  UNION {When("review-changes-requested", S.objection \/ S.ops.state = "changes"),
         When("review-required", S.undecided),
         When("approval-missing", "approver-unknown" \notin S.unfit /\ S.ops.state # "approved")}

\* An approval counts for the commit it was given for.
ReviewBlockers(S) ==
  UNION {When("review-changes-requested", S.objection \/ S.ops.state = "changes"),
         When("review-required", S.undecided),
         When("approval-missing", "approver-unknown" \notin S.unfit /\ S.ops.state # "approved"),
         When("approval-stale", /\ "approver-unknown" \notin S.unfit
                                /\ S.ops.state = "approved"
                                /\ S.ops.on # S.head)}

MergeBlockers(S) ==
  UNION {When("conflict", S.mergeable = "CONFLICTING"),
         When("mergeable-unsettled", S.mergeable = "UNKNOWN"),
         When("merge-state", S.state \notin {"CLEAN", "BEHIND"})}

Blockers(S) ==
  UNION {S.unfit,
         When("needs-human", "human" \in S.labels),
         When("needs-human-issue", S.issueHeld),
         CheckBlockers(S), ReviewBlockers(S), MergeBlockers(S)}

-----------------------------------------------------------------------------
(* repair-evaluator.mjs and the gate to it                                 *)

\* Only what red checks or a conflict bring about stands in the way.
RepairableOnly(S) ==
  /\ Blockers(S) # {}
  /\ Blockers(S) \subseteq {"required-check-not-green", "checks-failing", "conflict"}
                           \union When("merge-state", S.state = "DIRTY")

\* Red checks of a branch that is behind say nothing about what would be merged.
StaleRed(S) ==
  /\ RepairableOnly(S)
  /\ S.state = "BEHIND"
  /\ S.mergeable # "CONFLICTING"
  /\ ChecksVerdict(S.rollup) = "failing"

RepairCandidate(S) ==
  /\ RepairableOnly(S)
  /\ \/ S.mergeable = "CONFLICTING"
     \/ ChecksVerdict(S.rollup) = "failing" /\ S.state # "BEHIND"

Transient(S) == FailingChecks(S) # {} /\ \A c \in FailingChecks(S) : S.rollup[c] = "flaky"

WithinBudget(spent, budget, verdict) == IF spent < budget THEN verdict ELSE "escalate"

\* Mutant of PlanRepair: a spent budget ends in silence.
PlanRepairSilent(S) ==
  IF "fix" \in S.labels THEN "none"
  ELSE IF S.mergeable = "CONFLICTING" THEN IF S.fixes < RepairBudget THEN "repair" ELSE "none"
  ELSE IF FailingChecks(S) = {} THEN "none"
  ELSE IF FailingChecks(S) \intersect S.main # {} THEN "escalate"
  ELSE IF Transient(S) THEN WithinBudget(S.retries, RetryBudget, "retry")
  ELSE WithinBudget(S.fixes, RepairBudget, "repair")

\* What planRepair answers for a candidate.
PlanRepair(S) ==
  IF "fix" \in S.labels THEN "none"
  ELSE IF S.mergeable = "CONFLICTING" THEN WithinBudget(S.fixes, RepairBudget, "repair")
  ELSE IF FailingChecks(S) = {} THEN "none"
  ELSE IF FailingChecks(S) \intersect S.main # {} THEN "escalate"
  ELSE IF Transient(S) THEN WithinBudget(S.retries, RetryBudget, "retry")
  ELSE WithinBudget(S.fixes, RepairBudget, "repair")

RepairVerdict(S) == IF RepairCandidate(S) THEN PlanRepair(S) ELSE "none"

-----------------------------------------------------------------------------
(* planAutoMerge for one PR                                                *)

\* The blockers that go away by themselves when the running checks succeed.
PendingShaped(S) ==
  UNION {{"checks-pending"},
         When("required-check-not-green",
              \A c \in Required : S.rollup[c] \in {"green", "pending"}),
         When("merge-state", /\ S.state \in {"UNSTABLE", "BLOCKED"}
                             /\ ChecksVerdict(S.rollup) = "pending")}

\* Mutant of Verdict: an armed PR is left to GitHub.
VerdictTrusting(S) ==
  LET blockers == Blockers(S)
      real     == blockers \ PendingShaped(S)
      repair   == RepairVerdict(S)
  IN  IF repair # "none" THEN repair
      ELSE IF StaleRed(S) \/ (blockers = {} /\ S.state = "BEHIND") THEN "update-branch"
      ELSE IF real # {} THEN "blocked"
      ELSE IF S.armed THEN "already-armed"
      ELSE IF S.allowed THEN "arm"
      ELSE IF blockers = {} THEN "merge" ELSE "blocked"

\* arm: the action is enable-auto-merge (verdicts merge and arm-pending); merge: the
\* action is merge, where the repository does not let GitHub do it.
Verdict(S) ==
  LET blockers == Blockers(S)
      real     == blockers \ PendingShaped(S)
      repair   == RepairVerdict(S)
  IN  IF S.armed /\ real # {} THEN "disarm"
      ELSE IF repair # "none" THEN repair
      ELSE IF StaleRed(S) \/ (blockers = {} /\ S.state = "BEHIND") THEN "update-branch"
      ELSE IF real # {} THEN "blocked"
      ELSE IF S.armed THEN "already-armed"
      ELSE IF S.allowed THEN "arm"
      ELSE IF blockers = {} THEN "merge" ELSE "blocked"
=============================================================================
