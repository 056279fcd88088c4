------------------------------- MODULE Hygiene -------------------------------
(***************************************************************************)
(* ticket-hygiene.mjs with hygiene-evaluator.mjs: the weekly sweep of one  *)
(* repository.  It lists once, then goes through the tickets three times:  *)
(* those a merged pull request closes by keyword, the fix tickets of a     *)
(* pull request that is done, and those that are dormant.                  *)
(***************************************************************************)
EXTENDS Housekeeping

VARIABLE sweep

\* What the three lists say about a ticket.
Listed == [open : BOOLEAN, protected : BOOLEAN, stale : BOOLEAN, quiet : 0..StaleDays,
           touched : BOOLEAN, referenced : BOOLEAN, linked : BOOLEAN]

Nothing == [open |-> FALSE, protected |-> FALSE, stale |-> FALSE, quiet |-> 0,
            touched |-> FALSE, referenced |-> FALSE, linked |-> FALSE]

NoSweep == [pass |-> "idle", todo |-> {}, handled |-> {}, write |-> "none", on |-> {},
            seen |-> [t \in Ticket |-> Nothing]]

HygieneTypeOK ==
  /\ sweep \in [pass : {"idle", "merged", "remediation", "stale"},
             todo : SUBSET Ticket, handled : SUBSET Ticket,
             write : {"none", "obsolete", "mark", "warn", "close", "unstale"},
             on : SUBSET Ticket,
             seen : [Ticket -> Listed]]
  /\ (sweep.write = "none") <=> (sweep.on = {})
  /\ sweep.todo \intersect sweep.handled = {}

HygieneInit == sweep = NoSweep

Sweeping == sweep.pass # "idle"

-----------------------------------------------------------------------------
(* The evaluator                                                           *)

\* Open tickets a merged pull request claims to close; a protected one is reported only.
Closable(seen) == {t \in Ticket : seen[t].open /\ seen[t].linked /\ ~seen[t].protected}

\* Mutant of RemediationOver: what cannot be read is not open.
RemediationOverUnlessOpen(state) == state # "open"

\* The verdict for a fix ticket from the state of its pull request, or from none.
RemediationOver(state) == state \in {"merged", "closed"}

\* Mutant of EvaluateStale: what happened since the warning is not looked at.
EvaluateStaleDeaf(t, s, warned, active) ==
  CASE s.protected \/ t \in Fix               -> "skip"
    [] s.stale /\ warned >= GraceDays         -> "close"
    [] s.stale                                -> "wait"
    [] s.referenced \/ s.quiet < StaleDays    -> "skip"
    [] OTHER                                  -> "mark"

\* The verdict for a ticket: s as listed; warned and active from its comments.
EvaluateStale(t, s, warned, active) ==
  CASE s.protected \/ t \in Fix               -> "skip"
    [] s.stale /\ s.referenced                -> "unstale"
    [] s.stale /\ warned = Unwarned           -> "unmanaged"
    [] s.stale /\ active                      -> "unstale"
    [] s.stale /\ warned >= GraceDays         -> "close"
    [] s.stale                                -> "wait"
    [] s.referenced \/ s.quiet < StaleDays    -> "skip"
    [] OTHER                                  -> "mark"

-----------------------------------------------------------------------------
(* The sweep                                                               *)

\* A list that cannot be read is empty.
ListIssues ==
  /\ ~Sweeping
  /\ \E failed \in {{}} \union May("prs", {{"prs"}}) \union May("merged", {{"merged"}}) :
       LET seen == [t \in Ticket |->
              IF ~OpenNow(t) THEN Nothing
              ELSE [open |-> TRUE, protected |-> tickets[t].protected,
                    stale |-> tickets[t].stale, quiet |-> tickets[t].quiet,
                    touched |-> tickets[t].touched,
                    referenced |-> tickets[t].referenced /\ "prs" \notin failed,
                    linked |-> tickets[t].linked /\ "merged" \notin failed]]
       IN  sweep' = [NoSweep EXCEPT !.pass = "merged", !.todo = Closable(seen), !.seen = seen]
  /\ fresh' = {}
  /\ UNCHANGED <<tickets, pr, due, moves, hk>>

\* Mutant of Left: a ticket that was dealt with comes up again.
LeftAll == {t \in Ticket : sweep.seen[t].open}

\* The tickets that the loops before did not deal with.
Left == {t \in Ticket : sweep.seen[t].open} \ sweep.handled

\* The next loop over the list; protected fix tickets and those dealt with are skipped.
NextLoop ==
  /\ Sweeping /\ sweep.todo = {} /\ sweep.write = "none"
  /\ sweep' = CASE sweep.pass = "merged" ->
                     [sweep EXCEPT !.pass = "remediation",
                                   !.todo = {t \in Left \intersect Fix :
                                               ~sweep.seen[t].protected}]
                [] sweep.pass = "remediation" ->
                     [sweep EXCEPT !.pass = "stale", !.todo = Left]
                [] sweep.pass = "stale" -> NoSweep
  /\ fresh' = IF sweep.pass = "stale" THEN {} ELSE fresh
  /\ UNCHANGED <<tickets, pr, due, moves, hk>>

\* What the sweep decides about ticket t, and the write it goes on to.
Skip(t) == [sweep EXCEPT !.todo = @ \ {t}]
Handled(t) == [Skip(t) EXCEPT !.handled = @ \union {t}]
Writes(t, what) == [Handled(t) EXCEPT !.write = what, !.on = {t}]

\* The comments of a ticket; those that cannot be read are none.
Guards(t) == {tickets[t].guard} \union May("comments", {FALSE})

JudgeMerged(t) ==
  /\ sweep.pass = "merged"
  /\ \E guard \in Guards(t) : sweep' = IF guard THEN Handled(t) ELSE Writes(t, "obsolete")

\* A pull request that cannot be read is reported, and the ticket goes on to the next loop.
JudgeRemediation(t) ==
  /\ sweep.pass = "remediation"
  /\ \E state \in {pr.state} \union May("view", {"unreadable"}), guard \in Guards(t) :
       sweep' = IF ~RemediationOver(state) THEN Skip(t)
                ELSE IF guard THEN Handled(t) ELSE Writes(t, "obsolete")

\* An edit since the list is not seen, a comment is.
JudgeStale(t) ==
  /\ sweep.pass = "stale"
  /\ \E warned \in {tickets[t].warned} \union May("comments", {Unwarned}),
        active \in {sweep.seen[t].touched, tickets[t].touched} :
       LET verdict == EvaluateStale(t, sweep.seen[t], warned, active)
       IN  sweep' = IF verdict \in {"mark", "close", "unstale"} THEN Writes(t, verdict)
                    ELSE Skip(t)

Judge ==
  /\ sweep.write = "none"
  /\ \E t \in sweep.todo : JudgeMerged(t) \/ JudgeRemediation(t) \/ JudgeStale(t)
  /\ UNCHANGED <<backlogVars, hk>>

\* The writes.  Each updates the ticket; a label that is there already changes nothing.
Write(what, next) ==
  /\ sweep.write = what
  /\ sweep' = [sweep EXCEPT !.write = next, !.on = IF next = "none" THEN {} ELSE @]
  /\ UNCHANGED <<pr, due, moves, fresh, hk>>

OnTicket(Change(_)) == tickets' = [t \in Ticket |-> IF t \in sweep.on THEN Change(tickets[t])
                                                   ELSE tickets[t]]

\* gh leaves a ticket that is closed alone.
CloseCall(r, comment, who) == IF r.state = "closed" THEN r ELSE Closed(comment, who)

\* Mutant of GuardComment: the comment has no marker.
PlainComment(r) == Active(r, FALSE)

\* gh posts the comment, with the marker, and closes then.
GuardComment(r) == [Active(r, FALSE) EXCEPT !.guard = TRUE]
CloseObsolete ==
  /\ OnTicket(LAMBDA r : CloseCall(r, GuardComment(r), "obsolete"))
  /\ Write("obsolete", "none")

MarkStale ==
  /\ OnTicket(LAMBDA r : IF r.stale THEN r ELSE [Active(r, FALSE) EXCEPT !.stale = TRUE])
  /\ Write("mark", "warn")

\* Mutant of Warn: the warning counts as activity after the warning.
WarnAsActivity ==
  /\ OnTicket(LAMBDA r : [Updated(r) EXCEPT !.warned = 0, !.touched = TRUE])
  /\ Write("warn", "none")

\* The warning starts the clock anew.
Warn ==
  /\ OnTicket(LAMBDA r : [Updated(r) EXCEPT !.warned = 0, !.touched = FALSE])
  /\ Write("warn", "none")

CloseStale ==
  /\ OnTicket(LAMBDA r : CloseCall(r, r, "stale"))
  /\ Write("close", "none")

Unstale ==
  /\ OnTicket(LAMBDA r : [Active(r, FALSE) EXCEPT !.stale = FALSE])
  /\ Write("unstale", "none")

HygieneWrite == CloseObsolete \/ MarkStale \/ Warn \/ CloseStale \/ Unstale

\* The comment that goes before a close.  That of a stale ticket has no marker.
ClosingComment(r) == IF sweep.write = "obsolete" THEN GuardComment(r) ELSE Active(r, FALSE)

\* A write that fails, or the job's cap, ends the sweep of the repository; a close may
\* fail after its comment.
SweepFails ==
  /\ Sweeping
  /\ \/ "killed" \in Faults
     \/ "write" \in Faults /\ sweep.write # "none"
  /\ \/ UNCHANGED tickets
     \/ /\ "halfclose" \in Faults /\ sweep.write \in {"obsolete", "close"}
        /\ OnTicket(LAMBDA r : IF r.state = "open" THEN ClosingComment(r) ELSE r)
  /\ sweep' = NoSweep
  /\ fresh' = {}
  /\ Moved
  /\ UNCHANGED <<pr, due, hk>>

HygieneGoesOn == NextLoop \/ Judge \/ HygieneWrite \/ SweepFails
=============================================================================
