------------------------------- MODULE Sweeps --------------------------------
(***************************************************************************)
(* The two janitors at work on one backlog: housekeeping passes that file  *)
(* fix tickets, the hygiene sweep that closes tickets, and people.         *)
(***************************************************************************)
EXTENDS Hygiene

vars == <<backlogVars, hk, sweep>>

Init == BacklogInit /\ HousekeepingInit /\ HygieneInit

DayPasses == Day /\ UNCHANGED <<hk, sweep>>

People ==
  /\ \/ \E t \in Ticket : TicketMoves(t, Sweeping)
     \/ PrMoves(Sweeping)
  /\ UNCHANGED <<hk, sweep>>

Housekeeps == \E p \in Pass : HkStep(p) /\ UNCHANGED sweep

Elsewhere == OtherEvent /\ UNCHANGED <<hk, sweep>>

Next == DayPasses \/ People \/ Elsewhere \/ Housekeeps \/ ListIssues \/ HygieneGoesOn

\* Days go by; the cron starts hygiene; jobs end.  Housekeeping has no schedule: a pass that
\* an event asked for starts, but no event needs to come.
Fairness ==
  /\ WF_vars(DayPasses)
  /\ \A p \in Pass : WF_vars(HkStep(p) /\ UNCHANGED sweep)
  /\ WF_vars(ListIssues)
  /\ WF_vars(HygieneGoesOn)

Spec == Init /\ [][Next]_vars /\ Fairness

-----------------------------------------------------------------------------
(* Properties                                                              *)

TypeOK == BacklogTypeOK /\ HousekeepingTypeOK /\ HygieneTypeOK

\* "Exactly one open fix ticket per stuck PR": whatever people and hygiene close in
\* between, no second one is filed while one is open.  (A person may reopen an old one.)
OneFixTicket ==
  \A f, g \in Fix : OpenNow(f) /\ OpenNow(g) /\ f # g =>
    tickets[f].reopened \/ tickets[g].reopened

\* "LOOP-BOUNDED": the tickets of the retired triage-sweep and those hygiene closed count
\* for the cap.
CapHolds == Cardinality(Filed) <= RetryCap

\* Only what happens while the sweep runs can escape it: a ticket it closes as stale was
\* warned, was left alone since for the whole of the grace, and is neither protected nor
\* in work, nor a fix ticket.
ClosesStale(t) == OpenNow(t) /\ ~OpenNow(t)' /\ tickets'[t].by = "stale"
HandsOff ==
  [][\A t \in Ticket \ fresh : ClosesStale(t) =>
       /\ tickets[t].stale /\ tickets[t].warned = GraceDays /\ ~tickets[t].touched
       /\ ~tickets[t].protected /\ ~tickets[t].referenced /\ t \in Issue]_vars

\* Closing a fix ticket of a pull request that is still open would have housekeeping
\* file the next one and burn an attempt: hygiene closes one only if its pull request is
\* done, or a merged one says it closes it.
AttemptsKept ==
  [][\A f \in Fix \ fresh : OpenNow(f) /\ ~OpenNow(f)' /\ tickets'[f].by = "obsolete"
       => pr.state # "open" \/ tickets[f].linked]_vars

\* "The sweep will not close it again": a person has the last word about an obsolete
\* ticket, although its evidence never goes away.
ReopenRespected ==
  [][\A t \in Ticket : tickets[t].by = "obsolete" /\ tickets[t].reopened /\ OpenNow(t)
       => ~(~OpenNow(t)' /\ tickets'[t].by = "obsolete")]_vars

\* "If red, file the fix ticket now": a pull request that is stuck when an event asks for a
\* pass, even while another one runs on an older list, gets a fix ticket or a human from it.
\* The one excuse is a pass that came after the last event and was cut off before it judged:
\* that is silence until the next event.
Stuck == /\ pr.state = "open" /\ ~pr.draft
         /\ StuckReasons(pr.conflict, pr.checks, pr.idle) # {}
Answered == pr.human \/ \E f \in Fix : OpenNow(f)
Excused == ~due /\ \E p \in Pass : At(p, "cut")
StuckAnswered == Stuck /\ due ~> ~Stuck \/ Answered \/ Excused

\* A ticket nobody wants is closed in the end.  (One with the label and no warning is a
\* person's; one that was closed as obsolete and reopened is reported for ever.)
Dormant(t) ==
  /\ OpenNow(t)
  /\ ~tickets[t].protected /\ ~tickets[t].referenced
  /\ ~(tickets[t].linked /\ tickets[t].guard)
  /\ tickets[t].stale => tickets[t].warned # Unwarned
DormantCloses == \A t \in Issue : Dormant(t) ~> ~Dormant(t)
=============================================================================
