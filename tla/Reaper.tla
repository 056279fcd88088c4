------------------------------- MODULE Reaper --------------------------------
(***************************************************************************)
(* The dead-label reaper: scripts/factory/reap-dead-labels.mjs (the shell: *)
(* what is read, in which order, and what is written) and                  *)
(* reap-evaluator.mjs (the decision).  One pass lists the tickets that     *)
(* carry agent:implement, lists the open PRs, fetches the workflow runs,   *)
(* and then takes the tickets one by one: it judges a ticket on those      *)
(* snapshots and on fresh reads of the ticket's timeline and comments and, *)
(* if the label is dead, parks the ticket, removes the label and comments, *)
(* in three separate writes.  Everything else can happen between any two   *)
(* of these steps.  reap-dead-labels.yml runs one pass at a time: its      *)
(* group is per calling repository, and toon-meta is the only caller that  *)
(* has the trigger so far (its header).                                    *)
(***************************************************************************)
EXTENDS Tickets

CONSTANT RepeatWindow   \* REPEAT_WINDOW_HOURS, in ticks

ASSUME ReaperAssumption == RepeatWindow \in Nat \ {0}

VARIABLES
  reap,    \* the pass: its program counter, its snapshots, the ticket at hand
  marks    \* marks[t][c]: age of the reap comment of t's c-th labeling cycle

reapVars == <<reap, marks>>
vars     == <<ticketVars, reapVars>>

\* Ages stop at RepeatWindow: the comment is outside the window.
NoMark == RepeatWindow + 1

\* appendBlockerRef's pairing is a bullet; the other two are labels.
Parking == {"human", "tracking", "blocker"}
Pairing == Parking \union {"none"}

Idle == [pc |-> "idle", todo |-> {}, prs |-> {}, runs |-> [t \in Ticket |-> "none"],
         known |-> [t \in Ticket |-> 0], at |-> {}, pairing |-> "none", key |-> 0]

PassRecord ==
  [pc : {"idle", "prs", "runs", "judge", "pair", "remove", "comment"},
   todo : SUBSET Ticket, prs : SUBSET Ticket, runs : [Ticket -> RunState],
   known : [Ticket -> 0..MaxCycles], at : SUBSET Ticket, pairing : Pairing,
   key : 0..MaxCycles]

ReaperTypeOK ==
  /\ reap \in PassRecord
  /\ reap.pc \in {"pair", "remove", "comment"} => reap.pairing \in Parking
  /\ marks \in [Ticket -> [Cycle -> 0..NoMark]]

ReaperInit ==
  /\ reap = Idle
  /\ marks = [t \in Ticket |-> [c \in Cycle |-> NoMark]]

-----------------------------------------------------------------------------
(* reap-evaluator.mjs                                                      *)

\* findRunForLabel, exact tier: the run of this very labeling, if the snapshot
\* holds it ("none" when it does not).  A run of an earlier cycle never matches.
FindRun(t, c) == IF reap.known[t] = c THEN reap.runs[t] ELSE "none"

\* classifyOutcome, down to what choosePairing tells apart.
Outcome(run, claimed, exists) ==
  CASE run = "none" -> "no-run-found"
    [] run = "refused" -> "guard-skipped"
    [] run \in {"empty", "done"} -> "succeeded-with-no-changes"
    [] run = "failed" /\ claimed /\ ~exists -> "pushed-nothing"
    [] run = "failed" /\ ~(claimed /\ ~exists) -> "failed"

ChoosePairing(outcome) ==
  CASE outcome = "guard-skipped" -> "tracking"
    [] outcome = "pushed-nothing" -> "blocker"
    [] OTHER -> "human"

\* Mutant of Evaluate: no grace period for a label without a run.
EvaluateNoGrace(hasOpenPr, run, age, claimed, exists, repeated) ==
  CASE hasOpenPr -> "open-pr"
    [] ~hasOpenPr /\ run \in Live -> "in-progress"
    [] OTHER -> IF repeated THEN "human" ELSE ChoosePairing(Outcome(run, claimed, exists))

\* Mutant of Evaluate: the first death and the next are paired alike.
EvaluateForgetful(hasOpenPr, run, age, claimed, exists, repeated) ==
  CASE hasOpenPr -> "open-pr"
    [] ~hasOpenPr /\ run \in Live -> "in-progress"
    [] ~hasOpenPr /\ run = "none" /\ age < Grace -> "too-recent"
    [] OTHER -> ChoosePairing(Outcome(run, claimed, exists))

\* evaluateTicket: an open PR or a live run ends it, a label without a run is
\* reaped only past the grace period, a second death in the window goes to a human.
Evaluate(hasOpenPr, run, age, claimed, exists, repeated) ==
  CASE hasOpenPr -> "open-pr"
    [] ~hasOpenPr /\ run \in Live -> "in-progress"
    [] ~hasOpenPr /\ run = "none" /\ age < Grace -> "too-recent"
    [] OTHER -> IF repeated THEN "human" ELSE ChoosePairing(Outcome(run, claimed, exists))

-----------------------------------------------------------------------------
(* reap-dead-labels.mjs, sweepRepo                                         *)

ListTickets ==
  /\ reap.pc = "idle"
  /\ LET ticketed == {t \in Ticket : issue[t] = "open" /\ "implement" \in labels[t]}
     IN  /\ ticketed # {}
         /\ reap' = [reap EXCEPT !.pc = "prs", !.todo = ticketed]
  /\ UNCHANGED <<ticketVars, marks>>

ListPrs ==
  /\ reap.pc = "prs"
  /\ reap' = [reap EXCEPT !.pc = "runs", !.prs = {t \in Ticket : pr[t] = "open"}]
  /\ UNCHANGED <<ticketVars, marks>>

\* An unreadable PR list skips the whole repository.
PrsUnreadable ==
  /\ "prs" \in Faults
  /\ reap.pc = "prs"
  /\ reap' = Idle
  /\ UNCHANGED <<ticketVars, marks>>

\* The pass is cut off.  What it wrote stays, and the next pass starts afresh.
Killed ==
  /\ "killed" \in Faults
  /\ reap.pc # "idle"
  /\ reap' = Idle
  /\ UNCHANGED <<ticketVars, marks>>

\* A run shows in the list within the grace period of its labeling.
Unseen == {t \in Ticket : "late" \in Faults /\ labelAge[t] < Grace}

FetchRuns ==
  /\ reap.pc = "runs"
  /\ \E unseen \in SUBSET Unseen :
       reap' = [reap EXCEPT !.pc = "judge",
                  !.known = [t \in Ticket |-> IF t \in unseen THEN 0 ELSE cycle[t]],
                  !.runs = [t \in Ticket |-> IF cycle[t] = 0 THEN "none"
                                             ELSE runs[t][cycle[t]]]]
  /\ UNCHANGED <<ticketVars, marks>>

\* An unreadable run list reads as a list without runs.
RunsUnreadable ==
  /\ "runs" \in Faults
  /\ reap.pc = "runs"
  /\ reap' = [reap EXCEPT !.pc = "judge"]
  /\ UNCHANGED <<ticketVars, marks>>

\* The rest of a ticket's turn is over: on to the next one, or the pass ends.
NextTicket(t) ==
  IF reap.todo = {t} THEN Idle
  ELSE [reap EXCEPT !.pc = "judge", !.todo = @ \ {t}, !.at = {}, !.pairing = "none",
                    !.key = 0]

\* What a ticket's turn reads about it, and may fail to.
TicketRead == {"timeline", "comments", "jobs", "branch"}

\* The reap comments of t that can be seen.
OwnComments(t, failed) == {c \in Cycle : "comments" \notin failed /\ marks[t][c] # NoMark}

\* Comments that cannot be read count as none, for the claim and for the repeat
\* detection; unreadable jobs hide a refusal; a branch that cannot be read does
\* not exist.  Any comment that names the branch is a claim, the reaper's own
\* included.
VerdictOn(t, failed) ==
  LET run == FindRun(t, cycle[t])
      own == OwnComments(t, failed)
  IN  Evaluate(t \in reap.prs,
               IF run = "refused" /\ "jobs" \in failed THEN "empty" ELSE run,
               labelAge[t],
               "comments" \notin failed /\ (t \in claim \/ own # {}),
               t \in branch /\ "branch" \notin failed,
               \E c \in own : marks[t][c] < RepeatWindow)

\* Mutant of Judge: the marker is keyed on the ticket, not on its labeling cycle.
JudgeOnce(t) ==
  /\ reap.pc = "judge"
  /\ t \in reap.todo
  /\ \E failed \in SUBSET (IF "ticket" \in Faults THEN TicketRead ELSE {}) :
       reap' = IF \/ "timeline" \in failed
                  \/ VerdictOn(t, failed) \notin Parking
                  \/ OwnComments(t, failed) # {}
               THEN NextTicket(t)
               ELSE [reap EXCEPT !.pc = "pair", !.at = {t}, !.key = cycle[t],
                                 !.pairing = VerdictOn(t, failed)]
  /\ UNCHANGED <<ticketVars, marks>>

\* The timeline gives the labeling's age and cycle; without it the ticket is left,
\* and so is one whose cycle has its comment already.
Judge(t) ==
  /\ reap.pc = "judge"
  /\ t \in reap.todo
  /\ \E failed \in SUBSET (IF "ticket" \in Faults THEN TicketRead ELSE {}) :
       reap' = IF \/ "timeline" \in failed
                  \/ VerdictOn(t, failed) \notin Parking
                  \/ cycle[t] \in OwnComments(t, failed)
               THEN NextTicket(t)
               ELSE [reap EXCEPT !.pc = "pair", !.at = {t}, !.key = cycle[t],
                                 !.pairing = VerdictOn(t, failed)]
  /\ UNCHANGED <<ticketVars, marks>>

\* Mutant of WriteFails: each write is caught on its own, and the next one follows.
WriteFailsApart(t) ==
  /\ "write" \in Faults
  /\ reap.pc \in {"pair", "remove", "comment"}
  /\ t \in reap.at
  /\ reap' = CASE reap.pc = "pair"    -> [reap EXCEPT !.pc = "remove"]
               [] reap.pc = "remove"  -> [reap EXCEPT !.pc = "comment"]
               [] reap.pc = "comment" -> NextTicket(t)
  /\ UNCHANGED <<ticketVars, marks>>

\* A failed write ends the ticket's turn with what was written so far.
WriteFails(t) ==
  /\ "write" \in Faults
  /\ reap.pc \in {"pair", "remove", "comment"}
  /\ t \in reap.at
  /\ reap' = NextTicket(t)
  /\ UNCHANGED <<ticketVars, marks>>

\* Mutant of Pair: every pairing is applied as a label.
PairByLabel(t) ==
  /\ reap.pc = "pair"
  /\ t \in reap.at
  /\ labels' = [labels EXCEPT ![t] = @ \union {reap.pairing}]
  /\ released' = released \ {t}
  /\ reap' = [reap EXCEPT !.pc = "remove"]
  /\ UNCHANGED <<issue, bullet, fix331, cycle, labelAge, runs, runAge, branch, claim, pr,
                 marks>>

\* The pairing comes first.
Pair(t) ==
  /\ reap.pc = "pair"
  /\ t \in reap.at
  /\ IF reap.pairing = "blocker"
     THEN bullet' = bullet \union {t} /\ UNCHANGED labels
     ELSE labels' = [labels EXCEPT ![t] = @ \union {reap.pairing}] /\ UNCHANGED bullet
  /\ released' = released \ {t}
  /\ reap' = [reap EXCEPT !.pc = "remove"]
  /\ UNCHANGED <<issue, fix331, cycle, labelAge, runs, runAge, branch, claim, pr, marks>>

Remove(t) ==
  /\ reap.pc = "remove"
  /\ t \in reap.at
  /\ labels' = [labels EXCEPT ![t] = @ \ {"implement"}]
  /\ reap' = [reap EXCEPT !.pc = "comment"]
  /\ UNCHANGED <<issue, bullet, fix331, cycle, labelAge, runs, runAge, branch, claim, pr,
                 released, marks>>

\* The comment carries the cycle's marker, and names both canonical branches.
Comment(t) ==
  /\ reap.pc = "comment"
  /\ t \in reap.at
  /\ marks' = [marks EXCEPT ![t][reap.key] = 0]
  /\ reap' = NextTicket(t)
  /\ UNCHANGED ticketVars

ReaperStep ==
  \/ ListTickets
  \/ ListPrs
  \/ PrsUnreadable
  \/ Killed
  \/ FetchRuns
  \/ RunsUnreadable
  \/ \E t \in Ticket :
       \/ Judge(t)
       \/ Pair(t)
       \/ Remove(t)
       \/ Comment(t)
       \/ WriteFails(t)

\* A pass takes minutes and reads its clock once: no tick falls inside it.
ReaperTick ==
  /\ reap.pc = "idle"
  /\ Tick
  /\ marks' = [t \in Ticket |-> [c \in Cycle |->
                 IF marks[t][c] < RepeatWindow THEN marks[t][c] + 1 ELSE marks[t][c]]]
  /\ UNCHANGED reap

\* A dispatcher that reads and labels in one step: what Dispatcher does to a
\* ticket without other blockers, alone in its epic.
Redispatch(t) ==
  /\ issue[t] = "open"
  /\ labels[t] = {}
  /\ pr[t] # "open"
  /\ ~(t \in bullet /\ fix331 # "completed")
  /\ ApplyImplement(t, FALSE)
  /\ UNCHANGED <<issue, bullet, fix331, runAge, branch, claim, pr, reap, marks>>

Outside ==
  \/ World
  \/ \E t \in Ticket, c \in Cycle : Runner(t, c)

Init == TicketInit /\ ReaperInit

Next ==
  \/ ReaperStep
  \/ ReaperTick
  \/ \E t \in Ticket : Redispatch(t)
  \/ Outside /\ UNCHANGED reapVars

\* The hourly cron starts passes for ever and time goes on; a read or a write
\* that keeps being tried succeeds in the end, because an outage ends.
Fairness ==
  /\ SF_vars(ReaperTick)
  /\ WF_vars(ListTickets)
  /\ SF_vars(ListPrs)
  /\ WF_vars(FetchRuns \/ RunsUnreadable)
  /\ WF_vars((\E t \in Ticket, c \in Cycle : Runner(t, c)) /\ UNCHANGED reapVars)
  /\ \A t \in Ticket :
       /\ WF_vars(Judge(t))
       /\ SF_vars(Pair(t))
       /\ SF_vars(Remove(t))
       /\ WF_vars(Comment(t) \/ WriteFails(t))

Spec == Init /\ [][Next]_vars /\ Fairness

-----------------------------------------------------------------------------
(* Properties                                                              *)

TypeOK == TicketTypeOK /\ ReaperTypeOK

\* Never reap bare: a ticket that was labeled before is labeled again by the
\* factory only after somebody let it go, or on the one route the pairing of a
\* lost push leaves open, #331 being closed.  It takes a pairing, its readiness
\* rule and three separate writes, any of which may fail, to hold.
Relabeled(t) == cycle'[t] > cycle[t] /\ cycle[t] > 0

NoRespin ==
  [][\A t \in Ticket : Relabeled(t) =>
       t \in released' \/ (t \in bullet /\ fix331 = "completed")]_vars

\* The same without the escape: what the evaluator's header asks of every reap
\* (the pairing makes the dispatcher decline the ticket).
NeverBare == [][\A t \in Ticket : Relabeled(t) => t \in released']_vars

\* A second death within the repeat window ends the loop: no ticket with two
\* young reap comments is labeled again unless somebody let it go.
RepeatDeathHeld ==
  [][\A t \in Ticket : Relabeled(t) =>
       \/ t \in released'
       \/ Cardinality({c \in Cycle : marks[t][c] < RepeatWindow}) <= 1]_vars

\* A ticket is parked only when the run of its labeling is over: whatever moved
\* since the run list was read, no run that could still open a PR is parked.
LiveRunSpared ==
  \A t \in reap.at : reap.pc = "pair" => runs[t][cycle[t]] \notin Live

\* A dead label: the ticket is in flight for the dispatcher and nothing works on it.
Dead(t) ==
  /\ issue[t] = "open"
  /\ "implement" \in labels[t]
  /\ pr[t] # "open"
  /\ \A c \in Cycle : runs[t][c] \notin Live

\* A dead label does not hold its epic's slot for ever.
DeadLabelFreed == \A t \in Ticket : Dead(t) ~> ~Dead(t)
=============================================================================
