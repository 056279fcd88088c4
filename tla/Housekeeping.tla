---------------------------- MODULE Housekeeping -----------------------------
(***************************************************************************)
(* pr-housekeeping.mjs: one pass over the pull request.  It lists, waits   *)
(* for mergeability to settle, looks for the fix tickets there are, and    *)
(* files one, or hands the pull request to a human.                        *)
(***************************************************************************)
EXTENDS Backlog

CONSTANTS
  Pass,      \* passes that may run at once
  RetryCap   \* fix tickets for one pull request

ASSUME HousekeepingAssumption == RetryCap \in Nat \ {0}

VARIABLE hk  \* hk[p]: what pass p does next, and what its list said of the pull request

NoPass == [pc |-> "idle", mergeable |-> "unknown", checks |-> "pending", idle |-> FALSE]

HousekeepingTypeOK ==
  hk \in [Pass -> [pc : {"idle", "cut", "settle", "search", "file", "label", "comment"},
                   mergeable : {"mergeable", "conflicting", "unknown"},
                   checks : {"failing", "pending", "passed", "unverified"}, idle : BOOLEAN]]

HousekeepingInit == hk = [p \in Pass |-> NoPass]

May(fault, outcomes) == IF fault \in Faults THEN outcomes ELSE {}

At(p, step) == hk[p].pc = step
Goto(p, step) == hk' = [hk EXCEPT ![p] = [NoPass EXCEPT !.pc = step]]

\* A pass ended, one way or the other: "cut" is the end of one that did not get to judge.
AtRest(p) == At(p, "idle") \/ At(p, "cut")
Starts(p) == AtRest(p) /\ due /\ due' = FALSE

\* Drafts and what a human has already are left alone.  GitHub may still be working out
\* whether the pull request can be merged.
ListPrs(p) ==
  /\ Starts(p)
  /\ IF pr.state = "open" /\ ~pr.draft /\ ~pr.human
     THEN \E mergeable \in {"unknown", IF pr.conflict THEN "conflicting" ELSE "mergeable"} :
            hk' = [hk EXCEPT ![p] = [pc |-> "settle", mergeable |-> mergeable,
                                     checks |-> pr.checks, idle |-> pr.idle]]
     ELSE Goto(p, "idle")
  /\ UNCHANGED <<tickets, pr, moves, fresh>>

\* A list that cannot be read is empty.
Unlisted(p) ==
  /\ "unlisted" \in Faults
  /\ Starts(p)
  /\ Goto(p, "cut")
  /\ Moved
  /\ UNCHANGED <<tickets, pr, fresh>>

\* Stuck: a conflict, a red check, or nothing for days.  An empty check set is reported,
\* and no reason by itself.
StuckReasons(conflict, checks, idle) ==
  (IF conflict THEN {"merge conflict"} ELSE {})
    \union (IF checks = "failing" THEN {"failing checks"} ELSE {})
    \union (IF idle THEN {"stale"} ELSE {})

\* What was listed is judged, however old by now; only a mergeable that was unknown is read
\* again.
Conflicts(p) ==
  IF hk[p].mergeable = "unknown" THEN pr.conflict ELSE hk[p].mergeable = "conflicting"

Settle(p) ==
  /\ At(p, "settle")
  /\ Goto(p, IF StuckReasons(Conflicts(p), hk[p].checks, hk[p].idle) = {} THEN "idle"
             ELSE "search")
  /\ UNCHANGED backlogVars

Unsettled(p) ==
  /\ "unsettled" \in Faults
  /\ At(p, "settle") /\ hk[p].mergeable = "unknown"
  /\ Goto(p, "cut")
  /\ Moved
  /\ UNCHANGED <<tickets, pr, due, fresh>>

\* Mutants of Priors: the closed ones only count, or those of the older pass do not.
PriorsClosed(failed) == {f \in Filed \ failed : ~OpenNow(f)}
PriorsOwn(failed) == Filed \ (failed \union LegacyFix)

\* The two searches, open and closed tickets alike.  One that fails finds nothing, and a
\* ticket filed a moment ago may not be in the index.
Priors(failed) == Filed \ failed

\* Mutant of NextOf: a pull request at the cap is only reported.
NextOfReported(priors) ==
  IF \E f \in priors : OpenNow(f) THEN "idle"
  ELSE IF Cardinality(priors) >= RetryCap THEN "idle" ELSE "file"

\* One open fix ticket is enough, and the cap ends the loop: a human takes over.
NextOf(priors) ==
  IF \E f \in priors : OpenNow(f) THEN "idle"
  ELSE IF Cardinality(priors) >= RetryCap THEN "label" ELSE "file"

SearchPriors(p) ==
  /\ At(p, "search")
  /\ \E failed \in {{}} \union May("search", {LegacyFix, Fix \ LegacyFix}) :
       Goto(p, NextOf(Priors(failed)))
  /\ UNCHANGED backlogVars

\* (The model has so many tickets.)
FileFix(p) ==
  /\ At(p, "file")
  /\ Filed # Fix
  /\ tickets' = [tickets EXCEPT ![CHOOSE f \in Fix \ Filed : TRUE] = OpenTicket]
  /\ Goto(p, "idle")
  /\ UNCHANGED <<pr, due, moves, fresh>>

LabelHuman(p) ==
  /\ At(p, "label")
  /\ pr' = [pr EXCEPT !.human = TRUE, !.idle = FALSE]
  /\ Goto(p, "comment")
  /\ UNCHANGED <<tickets, due, moves, fresh>>

CommentHuman(p) ==
  /\ At(p, "comment")
  /\ pr' = [pr EXCEPT !.idle = FALSE]
  /\ Goto(p, "idle")
  /\ UNCHANGED <<tickets, due, moves, fresh>>

\* A write that fails ends the sweep of the repository, the job's cap ends any.
PassFails(p) ==
  /\ \/ "killed" \in Faults /\ ~AtRest(p)
     \/ "write" \in Faults /\ hk[p].pc \in {"file", "label", "comment"}
  /\ Goto(p, "cut")
  /\ Moved
  /\ UNCHANGED <<tickets, pr, due, fresh>>

HkWrite(p) == FileFix(p) \/ LabelHuman(p) \/ CommentHuman(p)

HkStep(p) ==
  \/ ListPrs(p)
  \/ Unlisted(p)
  \/ Settle(p)
  \/ Unsettled(p)
  \/ SearchPriors(p)
  \/ HkWrite(p)
  \/ PassFails(p)
=============================================================================
