---------------------------- MODULE Sweeps_proofs ----------------------------
(***************************************************************************)
(* Proofs about Sweeps, for every set of tickets and every value of the    *)
(* bounds.                                                                 *)
(*   SweepsTypeCorrect the type invariant, from Known: a sweep deals with  *)
(*                     tickets of its list, which were filed;              *)
(*   LastWordStands    ReopenRespected, from Marked: what was closed as    *)
(*                     obsolete carries the marker, what is about to be    *)
(*                     closed so does not;                                 *)
(*   FixTicketsOne,    OneFixTicket and CapHolds, from Room: a pass about  *)
(*   FixTicketsCapped  to file found no open ticket, and room;             *)
(*   AttemptsStand,    AttemptsKept and HandsOff, from Sheet, which says   *)
(*   StaleClosesDue    what of a list holds still, and from Over and Due,  *)
(*                     which say it of the write that was decided.         *)
(***************************************************************************)
EXTENDS Sweeps, FiniteSetTheorems, TLAPS

-----------------------------------------------------------------------------
(* Updates of a ticket                                                     *)

\* What an update leaves alone, or only ever turns on.
Grows(r, s) ==
  /\ r.guard => s.guard
  /\ r.linked => s.linked
  /\ r.reopened => s.reopened
  /\ s.state # "none"

\* The update of an update.
Kin(r, s) == s \in TicketRecord /\ Grows(r, s)

LEMMA Bounds ==
  /\ 0 \in 0..StaleDays
  /\ 0 \in 0..GraceDays
BY BacklogAssumption

LEMMA OpenTicketType == NoTicket \in TicketRecord /\ OpenTicket \in TicketRecord
BY Bounds DEF NoTicket, OpenTicket, TicketRecord

LEMMA ActiveKin ==
  ASSUME NEW r \in TicketRecord, NEW slack \in BOOLEAN, r.state # "none"
  PROVE  Kin(r, Active(r, slack)) /\ Active(r, slack).state = r.state
                                  /\ Active(r, slack).by = r.by
                                  /\ Active(r, slack).guard = r.guard
<1>1. Updated(r) \in TicketRecord
  BY Bounds DEF Updated, TicketRecord
<1>2. Active(r, slack) = [r EXCEPT !.quiet = 0, !.touched = Active(r, slack).touched]
  BY DEF Active, Updated, TicketRecord
<1>3. Active(r, slack).touched \in BOOLEAN
  BY <1>1 DEF Active, Updated, TicketRecord
<1> QED BY <1>2, <1>3, Bounds DEF Kin, Grows, TicketRecord

LEMMA ClosedKin ==
  ASSUME NEW r \in TicketRecord, NEW who \in {"person", "stale", "obsolete"}, r.state # "none"
  PROVE  Kin(r, Closed(r, who)) /\ Closed(r, who).by = who
<1> DEFINE a == Active(r, FALSE)
<1>1. Kin(r, a) /\ Closed(r, who) = [a EXCEPT !.state = "closed", !.by = who]
  BY ActiveKin DEF Closed
<1> HIDE DEF a
<1> QED BY <1>1 DEF Kin, Grows, TicketRecord

LEMMA GuardKin ==
  ASSUME NEW r \in TicketRecord, r.state # "none"
  PROVE  Kin(r, GuardComment(r)) /\ GuardComment(r).guard /\ GuardComment(r).state = r.state
                                 /\ GuardComment(r).by = r.by
<1> DEFINE a == Active(r, FALSE)
<1>1. Kin(r, a) /\ a.state = r.state /\ a.by = r.by /\ GuardComment(r) = [a EXCEPT !.guard = TRUE]
  BY ActiveKin DEF GuardComment
<1> HIDE DEF a
<1> QED BY <1>1 DEF Kin, Grows, TicketRecord

LEMMA TouchesKin ==
  ASSUME NEW r \in TicketRecord, r.state # "none", NEW s \in Touches(r) \union Mentions(r)
  PROVE  /\ Kin(r, s)
         /\ s.guard = r.guard
         /\ s.by = r.by \/ s.by = "person"
         /\ r.state = "open" => s.state = "open" \/ s.by = "person"
         /\ s.state = "open" => r.state = "open" \/ s.reopened
<1> DEFINE a == Active(r, FALSE)
<1>1. Kin(r, a) /\ a.state = r.state /\ a.by = r.by /\ a.guard = r.guard
  BY ActiveKin
<1>2. CASE s \in Mentions(r)
  BY <1>2 DEF Mentions, Kin, Grows, TicketRecord
<1>3. CASE s = [a EXCEPT !.state = "open", !.reopened = TRUE]
  <2> HIDE DEF a
  <2> QED BY <1>1, <1>3 DEF Kin, Grows, TicketRecord
<1>4. CASE s = a
  <2> HIDE DEF a
  <2> QED BY <1>1, <1>4
<1>5. CASE s = Closed(r, "person")
  <2>1. s.state = "closed" /\ s.guard = r.guard
    BY <1>1, <1>5 DEF Closed, Kin, TicketRecord
  <2> QED BY <1>5, <2>1, ClosedKin
<1>6. CASE \E slack \in BOOLEAN : s = [Active(r, slack) EXCEPT !.protected = ~@]
  <2>1. PICK slack \in BOOLEAN : s = [Active(r, slack) EXCEPT !.protected = ~@]
    BY <1>6
  <2> DEFINE b == Active(r, slack)
  <2>2. Kin(r, b) /\ b.state = r.state /\ b.by = r.by /\ b.guard = r.guard
    BY ActiveKin
  <2>3. s = [b EXCEPT !.protected = ~b.protected]
    BY <2>1
  <2> HIDE DEF b
  <2>4. (~b.protected) \in BOOLEAN
    OBVIOUS
  <2> QED BY <2>2, <2>3, <2>4 DEF Kin, Grows, TicketRecord
<1>7. CASE s = [a EXCEPT !.stale = TRUE]
  <2> HIDE DEF a
  <2> QED BY <1>1, <1>7 DEF Kin, Grows, TicketRecord
<1> QED BY <1>2, <1>3, <1>4, <1>5, <1>6, <1>7 DEF Touches

-----------------------------------------------------------------------------
(* The steps                                                               *)

\* What a pass of housekeeping does without filing a ticket.
Quietly(p) ==
  \/ ListPrs(p)
  \/ Unlisted(p)
  \/ Settle(p)
  \/ Unsettled(p)
  \/ SearchPriors(p)
  \/ LabelHuman(p)
  \/ CommentHuman(p)
  \/ PassFails(p)

\* What a sweep of hygiene does without a write.
Reads == ListIssues \/ NextLoop \/ Judge

LEMMA StepsOf ==
  ASSUME [Next]_vars
  PROVE  \/ UNCHANGED vars
         \/ Day /\ UNCHANGED <<hk, sweep>>
         \/ \E t \in Ticket : TicketMoves(t, Sweeping) /\ UNCHANGED <<hk, sweep>>
         \/ PrMoves(Sweeping) /\ UNCHANGED <<hk, sweep>>
         \/ OtherEvent /\ UNCHANGED <<hk, sweep>>
         \/ \E p \in Pass : Quietly(p) /\ UNCHANGED sweep
         \/ \E p \in Pass : FileFix(p) /\ UNCHANGED sweep
         \/ Reads
         \/ HygieneWrite
         \/ SweepFails
<1>1. ASSUME NEW p \in Pass, HkStep(p) PROVE FileFix(p) \/ Quietly(p)
  BY <1>1 DEF HkStep, HkWrite, Quietly
<1> QED BY <1>1 DEF Next, DayPasses, People, Elsewhere, Housekeeps, HygieneGoesOn, Reads

LEMMA QuietTickets ==
  ASSUME NEW p, Quietly(p)
  PROVE  UNCHANGED tickets
BY DEF Quietly, ListPrs, Unlisted, Settle, Unsettled, SearchPriors, LabelHuman, CommentHuman, PassFails,
       backlogVars

LEMMA ReadTickets ==
  ASSUME Reads
  PROVE  UNCHANGED <<tickets, pr, hk>>
BY DEF Reads, ListIssues, NextLoop, Judge, backlogVars

-----------------------------------------------------------------------------
(* Types                                                                   *)

LEMMA TicketsInit == Init => BacklogTypeOK
<1> SUFFICES ASSUME Init PROVE BacklogTypeOK
  OBVIOUS
<1>1. tickets \in [Ticket -> TicketRecord]
  <2>1. PICK linked \in SUBSET Issue :
           tickets = [t \in Ticket |->
                        IF t \in Issue THEN [OpenTicket EXCEPT !.linked = t \in linked]
                        ELSE IF t \in LegacyFix
                             THEN [NoTicket EXCEPT !.state = "closed", !.by = "person"]
                             ELSE NoTicket]
    BY DEF Init, BacklogInit
  <2>2. ASSUME NEW b \in BOOLEAN PROVE [OpenTicket EXCEPT !.linked = b] \in TicketRecord
    BY OpenTicketType DEF TicketRecord
  <2>3. [NoTicket EXCEPT !.state = "closed", !.by = "person"] \in TicketRecord
    BY OpenTicketType DEF TicketRecord
  <2>4. ASSUME NEW t \in Ticket PROVE (t \in linked) \in BOOLEAN
    OBVIOUS
  <2>5. ASSUME NEW t \in Ticket PROVE [OpenTicket EXCEPT !.linked = t \in linked] \in TicketRecord
    BY <2>2, <2>4
  <2> QED BY <2>1, <2>3, <2>5, OpenTicketType
<1>2. pr \in PrRecord
  BY DEF Init, BacklogInit, PrRecord
<1>3. due = FALSE /\ moves = 0 /\ fresh = {}
  BY DEF Init, BacklogInit
<1>4. due \in BOOLEAN
  BY <1>3, Zenon
<1>5. moves \in 0..MaxMoves /\ fresh \subseteq Ticket
  BY <1>3, BacklogAssumption
<1> QED BY <1>1, <1>2, <1>4, <1>5, Zenon DEF BacklogTypeOK

\* What a sweep deals with is on its list, what is on its list was filed, and a ticket
\* that was not filed is blank.
Known ==
  /\ \A t \in Ticket : tickets[t].state = "none" => tickets[t] = NoTicket
  /\ \A t \in Ticket : sweep.seen[t].open => tickets[t].state # "none"
  /\ \A t \in sweep.todo \union sweep.on : sweep.seen[t].open

\* How each step changes a ticket.
Ages(r, s) ==
  /\ s \in TicketRecord
  /\ s.state = r.state /\ s.by = r.by /\ s.guard = r.guard /\ s.linked = r.linked
  /\ s.reopened = r.reopened /\ s.protected = r.protected /\ s.stale = r.stale
  /\ s.touched = r.touched /\ s.referenced = r.referenced
  /\ r.warned = GraceDays => s.warned = GraceDays

LEMMA DayAges ==
  ASSUME BacklogTypeOK, Day, NEW t \in Ticket
  PROVE  tickets'[t] = tickets[t] \/ (OpenNow(t) /\ Ages(tickets[t], tickets'[t]))
<1>0. ~OpenNow(t) => tickets'[t] = tickets[t]
  BY DEF Day
<1> SUFFICES ASSUME OpenNow(t) PROVE Ages(tickets[t], tickets'[t])
  BY <1>0
<1> DEFINE r == tickets[t]
           quiet == IF r.quiet < StaleDays THEN r.quiet + 1 ELSE r.quiet
           warned == IF r.warned \in 0..(GraceDays - 1) THEN r.warned + 1 ELSE r.warned
<1>1. r \in TicketRecord
  BY DEF BacklogTypeOK
<1>2. /\ quiet \in 0..StaleDays /\ warned \in {Unwarned} \union 0..GraceDays
      /\ r.warned = GraceDays => warned = GraceDays
  BY <1>1, BacklogAssumption DEF TicketRecord, Unwarned
<1>3. tickets'[t] = [r EXCEPT !.quiet = quiet, !.warned = warned]
  BY DEF Day, BacklogTypeOK
<1> HIDE DEF r, quiet, warned
<1>4. Ages(r, tickets'[t])
  BY <1>1, <1>2, <1>3 DEF Ages, TicketRecord
<1> QED BY <1>4 DEF r

LEMMA MoveKin ==
  ASSUME BacklogTypeOK, NEW u \in Ticket, NEW sweeping, TicketMoves(u, sweeping), NEW t \in Ticket
  PROVE  \/ tickets'[t] = tickets[t]
         \/ /\ t = u /\ tickets[t].state # "none"
            /\ Kin(tickets[t], tickets'[t])
            /\ tickets'[t].guard = tickets[t].guard
            /\ tickets'[t].by = tickets[t].by \/ tickets'[t].by = "person"
            /\ OpenNow(t) => tickets'[t].state = "open" \/ tickets'[t].by = "person"
            /\ tickets'[t].state = "open" => tickets[t].state = "open" \/ tickets'[t].reopened
<1>1. tickets[u] \in TicketRecord /\ tickets[u].state # "none"
  BY DEF BacklogTypeOK, TicketMoves
<1>2. PICK s \in Touches(tickets[u]) \union Mentions(tickets[u]) :
         tickets' = [tickets EXCEPT ![u] = s]
  BY DEF TicketMoves
<1> QED BY <1>1, <1>2, TouchesKin DEF BacklogTypeOK, OpenNow

LEMMA FileBlank ==
  ASSUME BacklogTypeOK, Known, NEW p, FileFix(p), NEW t \in Ticket
  PROVE  \/ tickets'[t] = tickets[t]
         \/ t \in Fix /\ tickets[t] = NoTicket /\ tickets'[t] = OpenTicket
<1> DEFINE f == CHOOSE f \in Fix \ Filed : TRUE
<1>1. f \in Fix \ Filed
  BY DEF FileFix, Filed
<1>2. tickets[f] = NoTicket
  BY <1>1 DEF Filed, Known, Ticket
<1>3. tickets' = [tickets EXCEPT ![f] = OpenTicket]
  BY DEF FileFix
<1> HIDE DEF f
<1> QED BY <1>1, <1>2, <1>3 DEF BacklogTypeOK, Ticket

LEMMA WriteKin ==
  ASSUME BacklogTypeOK, HygieneTypeOK, Known, HygieneWrite, NEW t \in Ticket
  PROVE  \/ tickets'[t] = tickets[t]
         \/ /\ t \in sweep.on /\ tickets[t].state # "none"
            /\ Kin(tickets[t], tickets'[t])
            /\ tickets'[t].state = "open" => tickets[t].state = "open"
            /\ \/ tickets'[t].by = tickets[t].by /\ tickets'[t].state = tickets[t].state
               \/ tickets'[t].by = "stale" /\ CloseStale
               \/ tickets'[t].by = "obsolete" /\ tickets'[t].guard /\ CloseObsolete
<1> DEFINE r == tickets[t]
<1>1. t \in sweep.on => r \in TicketRecord /\ r.state # "none"
  BY DEF BacklogTypeOK, HygieneTypeOK, Known
<1>2. t \in sweep.on => Kin(r, r) /\ Kin(r, Active(r, FALSE)) /\ Active(r, FALSE).state = r.state
                        /\ Active(r, FALSE).by = r.by
  BY <1>1, ActiveKin DEF Kin, Grows
<1>3. CASE CloseObsolete
  <2> DEFINE g == GuardComment(r)
  <2>1. t \in sweep.on => Kin(r, g) /\ g.guard /\ g.state = r.state
    BY <1>1, GuardKin
  <2>2. t \in sweep.on => Kin(g, Closed(g, "obsolete")) /\ Closed(g, "obsolete").by = "obsolete"
                          /\ Closed(g, "obsolete").state = "closed"
    <3>1. t \in sweep.on => g \in TicketRecord /\ g.state # "none"
      BY <1>1, <2>1 DEF Kin
    <3>2. t \in sweep.on => Active(g, FALSE) \in TicketRecord
      BY <3>1, ActiveKin DEF Kin
    <3> QED BY <3>1, <3>2, ClosedKin DEF Closed, TicketRecord
  <2>3. tickets'[t] = IF t \in sweep.on THEN CloseCall(r, g, "obsolete") ELSE r
    BY <1>3 DEF CloseObsolete, OnTicket
  <2> QED BY <1>1, <1>2, <1>3, <2>1, <2>2, <2>3 DEF CloseCall, Kin, Grows
<1>4. CASE CloseStale
  <2>1. tickets'[t] = IF t \in sweep.on THEN CloseCall(r, r, "stale") ELSE r
    BY <1>4 DEF CloseStale, OnTicket
  <2>2. t \in sweep.on => Kin(r, Closed(r, "stale")) /\ Closed(r, "stale").by = "stale"
                          /\ Closed(r, "stale").state = "closed"
    <3>1. t \in sweep.on => Active(r, FALSE) \in TicketRecord
      BY <1>2 DEF Kin
    <3> QED BY <1>1, <3>1, ClosedKin DEF Closed, TicketRecord
  <2> QED BY <1>1, <1>4, <2>1, <2>2 DEF CloseCall
<1>5. CASE MarkStale \/ Unstale
  <2> DEFINE a == Active(r, FALSE)
  <2>1. \/ tickets'[t] = r
        \/ t \in sweep.on /\ \E b \in BOOLEAN : tickets'[t] = [a EXCEPT !.stale = b]
    BY <1>5 DEF MarkStale, Unstale, OnTicket
  <2>2. t \in sweep.on => Kin(r, a) /\ a.state = r.state /\ a.by = r.by
    BY <1>2
  <2> HIDE DEF a
  <2>3. ASSUME t \in sweep.on, NEW b \in BOOLEAN, tickets'[t] = [a EXCEPT !.stale = b]
        PROVE  Kin(r, tickets'[t]) /\ tickets'[t].state = r.state /\ tickets'[t].by = r.by
    BY <2>2, <2>3 DEF Kin, Grows, TicketRecord
  <2> QED BY <1>1, <2>1, <2>3
<1>6. CASE Warn
  <2>1. \/ tickets'[t] = r
        \/ t \in sweep.on /\ tickets'[t] = [r EXCEPT !.quiet = 0, !.warned = 0, !.touched = FALSE]
    BY <1>6 DEF Warn, OnTicket, Updated
  <2> HIDE DEF r
  <2>2. CASE t \in sweep.on /\ tickets'[t] = [r EXCEPT !.quiet = 0, !.warned = 0, !.touched = FALSE]
    <3>0. tickets'[t] \in TicketRecord
      BY <1>1, <2>2, Bounds DEF TicketRecord
    <3>1. Kin(r, tickets'[t]) /\ tickets'[t].state = r.state /\ tickets'[t].by = r.by
      BY <1>1, <2>2, Bounds DEF Kin, Grows, TicketRecord
    <3> QED BY <1>1, <2>2, <3>1 DEF r
  <2> QED BY <2>1, <2>2 DEF r
<1> QED BY <1>3, <1>4, <1>5, <1>6 DEF HygieneWrite

\* Only the close of an obsolete ticket writes the marker.
LEMMA OthersMark ==
  ASSUME BacklogTypeOK, HygieneTypeOK, Known, HygieneWrite, ~CloseObsolete, NEW t \in Ticket
  PROVE  tickets'[t].guard => tickets[t].guard
<1> DEFINE r == tickets[t]
           a == Active(r, FALSE)
<1>1. r \in TicketRecord
  BY DEF BacklogTypeOK
<1>2. t \in sweep.on => a \in TicketRecord /\ a.guard = r.guard
  BY <1>1, ActiveKin DEF Known, HygieneTypeOK, Kin
<1>3. CASE MarkStale \/ Unstale
  <2>1. \/ tickets'[t] = r
        \/ t \in sweep.on /\ \E b \in BOOLEAN : tickets'[t] = [a EXCEPT !.stale = b]
    BY <1>3 DEF MarkStale, Unstale, OnTicket
  <2> HIDE DEF a
  <2> QED BY <1>2, <2>1 DEF TicketRecord
<1>4. CASE Warn
  <2>1. \/ tickets'[t] = r
        \/ tickets'[t] = [r EXCEPT !.quiet = 0, !.warned = 0, !.touched = FALSE]
    BY <1>4 DEF Warn, OnTicket, Updated
  <2> HIDE DEF r
  <2>2. tickets'[t].guard => r.guard
    BY <1>1, <2>1 DEF TicketRecord
  <2> QED BY <2>2 DEF r
<1>5. CASE CloseStale
  <2>1. \/ tickets'[t] = r
        \/ t \in sweep.on /\ tickets'[t] = [a EXCEPT !.state = "closed", !.by = "stale"]
    BY <1>5 DEF CloseStale, OnTicket, CloseCall, Closed
  <2> HIDE DEF a
  <2> QED BY <1>2, <2>1 DEF TicketRecord
<1> QED BY <1>3, <1>4, <1>5 DEF HygieneWrite

LEMMA FailKin ==
  ASSUME BacklogTypeOK, HygieneTypeOK, Known, SweepFails, NEW t \in Ticket
  PROVE  \/ tickets'[t] = tickets[t]
         \/ /\ t \in sweep.on /\ tickets[t].state # "none"
            /\ Kin(tickets[t], tickets'[t])
            /\ tickets'[t].state = tickets[t].state
            /\ tickets'[t].by = tickets[t].by
<1> DEFINE r == tickets[t]
<1>1. \/ tickets'[t] = r
      \/ t \in sweep.on /\ r.state = "open" /\ tickets'[t] = ClosingComment(r)
  BY DEF SweepFails, OnTicket
<1>2. r \in TicketRecord
  BY DEF BacklogTypeOK
<1>3. r.state = "open" => /\ Kin(r, ClosingComment(r))
                          /\ ClosingComment(r).state = r.state
                          /\ ClosingComment(r).by = r.by
  BY <1>2, ActiveKin, GuardKin DEF ClosingComment
<1> QED BY <1>1, <1>3

\* What a step makes of a ticket.
Evolves(r, s) == s = r \/ Kin(r, s)

LEMMA TicketsNext ==
  ASSUME TypeOK, Known, [Next]_vars, NEW t \in Ticket
  PROVE  Evolves(tickets[t], tickets'[t])
<1> USE DEF Evolves, TypeOK
<1>1. tickets[t] \in TicketRecord
  BY DEF BacklogTypeOK
<1>2. CASE Day
  BY <1>2, DayAges DEF Ages, Kin, Grows, OpenNow
<1>3. CASE \E p \in Pass : FileFix(p)
  <2>1. Kin(NoTicket, OpenTicket)
    BY OpenTicketType DEF Kin, Grows, NoTicket, OpenTicket
  <2> QED BY <1>3, <2>1, FileBlank
<1>4. CASE \E u \in Ticket : TicketMoves(u, Sweeping)
  BY <1>4, MoveKin
<1>5. CASE UNCHANGED tickets
  BY <1>5
<1>6. CASE HygieneWrite
  BY <1>6, WriteKin
<1>7. CASE SweepFails
  BY <1>7, FailKin
<1> QED
  BY <1>2, <1>3, <1>4, <1>5, <1>6, <1>7, StepsOf, QuietTickets, ReadTickets
  DEF PrMoves, OtherEvent, vars, backlogVars

LEMMA BacklogNext ==
  ASSUME TypeOK, Known, [Next]_vars
  PROVE  BacklogTypeOK'
<1>1. \A t \in Ticket : tickets'[t] \in TicketRecord
  BY TicketsNext DEF TypeOK, BacklogTypeOK, Evolves, Kin
<1>2. tickets' = [t \in Ticket |-> tickets'[t]]
  <2>1. CASE HygieneWrite
    BY <2>1 DEF HygieneWrite, CloseObsolete, MarkStale, Warn, CloseStale, Unstale, OnTicket
  <2>2. CASE SweepFails
    BY <2>2 DEF SweepFails, OnTicket, TypeOK, BacklogTypeOK
  <2>3. CASE Day
    BY <2>3 DEF Day
  <2> QED
    BY <2>1, <2>2, <2>3, StepsOf, QuietTickets, ReadTickets
    DEF TypeOK, BacklogTypeOK, PrMoves, OtherEvent, TicketMoves, FileFix, vars, backlogVars
<1>3. moves' \in 0..MaxMoves
  <2>1. ASSUME Moved PROVE moves' \in 0..MaxMoves
    BY <2>1, BacklogAssumption DEF Moved, TypeOK, BacklogTypeOK
  <2>2. Moved \/ UNCHANGED moves
    <3>1. ASSUME NEW p, Quietly(p) PROVE Moved \/ UNCHANGED moves
      BY <3>1 DEF Quietly, ListPrs, Unlisted, Settle, Unsettled, SearchPriors, LabelHuman,
                  CommentHuman, PassFails, backlogVars
    <3>2. HygieneWrite => UNCHANGED moves
      BY DEF HygieneWrite, CloseObsolete, MarkStale, Warn, CloseStale, Unstale, Write
    <3> QED
      BY <3>1, <3>2, StepsOf
      DEF Day, TicketMoves, PrMoves, OtherEvent, FileFix, Reads, ListIssues, NextLoop, Judge,
          SweepFails, vars, backlogVars
  <2> QED BY <2>1, <2>2 DEF TypeOK, BacklogTypeOK
<1>4. fresh' \subseteq Ticket
  <2>1. ASSUME NEW p, Quietly(p) PROVE UNCHANGED fresh
    BY <2>1 DEF Quietly, ListPrs, Unlisted, Settle, Unsettled, SearchPriors, LabelHuman,
                CommentHuman, PassFails, backlogVars
  <2>2. HygieneWrite => UNCHANGED fresh
    BY DEF HygieneWrite, CloseObsolete, MarkStale, Warn, CloseStale, Unstale, Write
  <2> QED
    BY <2>1, <2>2, StepsOf
    DEF TypeOK, BacklogTypeOK, Ticket, Day, TicketMoves, PrMoves, OtherEvent, FileFix, Reads,
        ListIssues, NextLoop, Judge, SweepFails, vars, backlogVars
<1>5. pr' \in PrRecord
  <2>1. pr \in PrRecord
    BY DEF TypeOK, BacklogTypeOK
  <2>2. CASE Day
    <3>1. (pr.state = "open") \in BOOLEAN
      OBVIOUS
    <3> QED BY <2>1, <2>2, <3>1 DEF Day, PrRecord
  <2>3. CASE PrMoves(Sweeping)
    <3>1. ASSUME NEW b PROVE (~b) \in BOOLEAN
      OBVIOUS
    <3>2. PICK new : /\ \/ \E state \in {"open", "merged", "closed"} : new = [pr EXCEPT !.state = state]
                        \/ new = [pr EXCEPT !.draft = ~pr.draft]
                        \/ new = [pr EXCEPT !.human = ~pr.human]
                        \/ new = [pr EXCEPT !.conflict = ~pr.conflict]
                        \/ \E c \in {"failing", "passed", "unverified"} : new = [pr EXCEPT !.checks = c]
                     /\ pr' = new \/ pr' = [new EXCEPT !.idle = FALSE]
      BY <2>3 DEF PrMoves, Events, Edits
    <3>3. new \in PrRecord
      BY <2>1, <3>1, <3>2 DEF PrRecord
    <3> QED BY <3>2, <3>3 DEF PrRecord
  <2>4. ASSUME NEW p, Quietly(p) PROVE pr' \in PrRecord
    BY <2>1, <2>4 DEF Quietly, ListPrs, Unlisted, Settle, Unsettled, SearchPriors, LabelHuman,
                      CommentHuman, PassFails, backlogVars, PrRecord
  <2>5. HygieneWrite => UNCHANGED pr
    BY DEF HygieneWrite, CloseObsolete, MarkStale, Warn, CloseStale, Unstale, Write
  <2> QED
    BY <2>1, <2>2, <2>3, <2>4, <2>5, StepsOf, ReadTickets
    DEF TicketMoves, OtherEvent, FileFix, SweepFails, vars, backlogVars
<1>6. due' \in BOOLEAN
  <2>1. due \in BOOLEAN
    BY DEF TypeOK, BacklogTypeOK
  <2>2. ASSUME NEW p, Quietly(p) PROVE due' = due \/ due' = FALSE
    BY <2>2 DEF Quietly, ListPrs, Unlisted, Starts, Settle, Unsettled, SearchPriors, LabelHuman,
                CommentHuman, PassFails, backlogVars
  <2>3. HygieneWrite => UNCHANGED due
    BY DEF HygieneWrite, CloseObsolete, MarkStale, Warn, CloseStale, Unstale, Write
  <2>4. \/ due' = due
        \/ due' = TRUE
        \/ due' = FALSE
    BY <2>2, <2>3, StepsOf
    DEF Day, TicketMoves, PrMoves, OtherEvent, FileFix, Reads, ListIssues, NextLoop, Judge,
        SweepFails, vars, backlogVars
  <2> QED BY <2>1, <2>4
<1> QED BY <1>1, <1>2, <1>3, <1>4, <1>5, <1>6 DEF BacklogTypeOK

LEMMA HousekeepingNext ==
  ASSUME TypeOK, [Next]_vars
  PROVE  HousekeepingTypeOK'
<1> USE DEF TypeOK, HousekeepingTypeOK
<1>1. ASSUME NEW p \in Pass,
             NEW step \in {"idle", "cut", "settle", "search", "file", "label", "comment"}, Goto(p, step)
      PROVE  HousekeepingTypeOK'
  BY <1>1 DEF Goto, NoPass
<1>2. ASSUME NEW p \in Pass, ListPrs(p) PROVE HousekeepingTypeOK'
  <2>1. \/ Goto(p, "idle")
        \/ \E mergeable \in {"mergeable", "conflicting", "unknown"} :
             hk' = [hk EXCEPT ![p] = [pc |-> "settle", mergeable |-> mergeable,
                                      checks |-> pr.checks, idle |-> pr.idle]]
    BY <1>2 DEF ListPrs
  <2>2. pr.checks \in {"failing", "pending", "passed", "unverified"} /\ pr.idle \in BOOLEAN
    BY DEF BacklogTypeOK, PrRecord
  <2> QED BY <1>1, <2>1, <2>2
<1>3. ASSUME NEW p \in Pass, SearchPriors(p) PROVE HousekeepingTypeOK'
  <2>1. ASSUME NEW priors PROVE NextOf(priors) \in {"idle", "file", "label"}
    BY DEF NextOf
  <2> QED BY <1>1, <1>3, <2>1 DEF SearchPriors
<1>4. ASSUME NEW p \in Pass, Settle(p) PROVE HousekeepingTypeOK'
  BY <1>1, <1>4 DEF Settle
<1>5. ASSUME NEW p \in Pass,
             \/ Unlisted(p) \/ Unsettled(p) \/ LabelHuman(p) \/ CommentHuman(p) \/ PassFails(p)
             \/ FileFix(p)
      PROVE  HousekeepingTypeOK'
  BY <1>1, <1>5 DEF Unlisted, Unsettled, LabelHuman, CommentHuman, PassFails, FileFix
<1>6. HygieneWrite => UNCHANGED hk
  BY DEF HygieneWrite, CloseObsolete, MarkStale, Warn, CloseStale, Unstale, Write
<1> QED
  BY <1>2, <1>3, <1>4, <1>5, <1>6, StepsOf, ReadTickets DEF Quietly, SweepFails, vars

LEMMA NoSweepType ==
  ASSUME sweep' = NoSweep
  PROVE  HygieneTypeOK'
BY BacklogAssumption DEF HygieneTypeOK, NoSweep, Listed, Nothing

\* Steps of a sweep keep its record what it is, and on its list.
OnList == \A t \in sweep.todo \union sweep.on : sweep.seen[t].open

LEMMA JudgeWrites ==
  ASSUME HygieneTypeOK, OnList, sweep.write = "none", NEW t \in sweep.todo,
         NEW what \in {"obsolete", "mark", "warn", "close", "unstale"},
         sweep' \in {Skip(t), Handled(t), Writes(t, what)}
  PROVE  (HygieneTypeOK /\ OnList)' /\ sweep'.seen = sweep.seen
<1> DEFINE Rest == /\ sweep.pass \in {"idle", "merged", "remediation", "stale"}
                   /\ sweep.todo \subseteq Ticket /\ sweep.handled \subseteq Ticket
                   /\ sweep.on = {} /\ sweep.seen \in [Ticket -> Listed]
                   /\ sweep.todo \intersect sweep.handled = {}
<1>1. Rest
  BY DEF HygieneTypeOK
<1>2. CASE sweep' = Skip(t)
  <2>1. sweep' = [sweep EXCEPT !.todo = @ \ {t}]
    BY <1>2 DEF Skip
  <2>2. HygieneTypeOK'
    BY <1>1, <2>1 DEF HygieneTypeOK
  <2> QED BY <1>1, <2>1, <2>2 DEF HygieneTypeOK, OnList
<1>3. CASE sweep' = Handled(t)
  <2>1. sweep' = [sweep EXCEPT !.todo = @ \ {t}, !.handled = @ \union {t}]
    BY <1>3 DEF Handled, Skip, HygieneTypeOK
  <2>2. HygieneTypeOK'
    BY <1>1, <2>1 DEF HygieneTypeOK
  <2> QED BY <1>1, <2>1, <2>2 DEF HygieneTypeOK, OnList
<1>4. CASE sweep' = Writes(t, what)
  <2>1. sweep' = [sweep EXCEPT !.todo = @ \ {t}, !.handled = @ \union {t}, !.write = what,
                               !.on = {t}]
    BY <1>4 DEF Writes, Handled, Skip, HygieneTypeOK
  <2>2. HygieneTypeOK'
    BY <1>1, <2>1 DEF HygieneTypeOK
  <2> QED BY <1>1, <2>1, <2>2 DEF HygieneTypeOK, OnList
<1> QED BY <1>2, <1>3, <1>4

LEMMA JudgeNext ==
  ASSUME HygieneTypeOK, OnList, Judge
  PROVE  (HygieneTypeOK /\ OnList)' /\ sweep'.seen = sweep.seen
<1>1. PICK t \in sweep.todo : JudgeMerged(t) \/ JudgeRemediation(t) \/ JudgeStale(t)
  BY DEF Judge
<1>2. \E what \in {"obsolete", "mark", "warn", "close", "unstale"} :
         sweep' \in {Skip(t), Handled(t), Writes(t, what)}
  BY <1>1 DEF JudgeMerged, JudgeRemediation, JudgeStale
<1> QED BY <1>2, JudgeWrites DEF Judge

\* The next loop of a sweep goes over tickets that no loop before dealt with.
LEMMA NextLoopType ==
  ASSUME HygieneTypeOK, OnList, NEW T, T \subseteq Left, Left \subseteq Ticket, NextLoop,
         NEW loop \in {"remediation", "stale"},
         sweep' = [sweep EXCEPT !.pass = loop, !.todo = T]
  PROVE  (HygieneTypeOK /\ OnList)' /\ sweep'.seen = sweep.seen
<1>1. T \intersect sweep.handled = {} /\ \A t \in T : sweep.seen[t].open
  BY DEF Left
<1>2. T \subseteq Ticket
  OBVIOUS
<1>3. /\ sweep'.pass = loop /\ sweep'.todo = T /\ sweep'.handled = sweep.handled
      /\ sweep'.write = sweep.write /\ sweep'.on = sweep.on /\ sweep'.seen = sweep.seen
  BY DEF HygieneTypeOK
<1>4. HygieneTypeOK'
  BY <1>1, <1>2 DEF HygieneTypeOK
<1>5. sweep.write = "none"
  BY DEF NextLoop
<1> QED BY <1>1, <1>3, <1>4, <1>5 DEF HygieneTypeOK, OnList

LEMMA LoopNext ==
  ASSUME HygieneTypeOK, OnList, NextLoop
  PROVE  (HygieneTypeOK /\ OnList)' /\ (sweep'.seen = sweep.seen \/ sweep' = NoSweep)
<1>1. CASE sweep.pass = "merged"
  <2>1. sweep' = [sweep EXCEPT !.pass = "remediation",
                               !.todo = {t \in Left \intersect Fix : ~sweep.seen[t].protected}]
    BY <1>1 DEF NextLoop
  <2>2. PICK T : T = {t \in Left \intersect Fix : ~sweep.seen[t].protected}
    OBVIOUS
  <2>3. T \subseteq Left /\ Left \subseteq Ticket
    BY <2>2 DEF Left
  <2>4. sweep' = [sweep EXCEPT !.pass = "remediation", !.todo = T]
    BY <2>1, <2>2
  <2> QED BY <2>3, <2>4, NextLoopType
<1>2. CASE sweep.pass = "remediation"
  <2>1. sweep' = [sweep EXCEPT !.pass = "stale", !.todo = Left]
    BY <1>2 DEF NextLoop
  <2>2. Left \subseteq Ticket
    BY DEF Left
  <2> QED BY <2>1, <2>2, NextLoopType
<1>3. CASE sweep.pass = "stale"
  <2>1. sweep' = NoSweep
    BY <1>3 DEF NextLoop
  <2> QED BY <2>1, NoSweepType DEF NoSweep, OnList
<1> QED BY <1>1, <1>2, <1>3 DEF NextLoop, HygieneTypeOK, Sweeping

\* The ticket is as the list says.
AsSeen(s, r) ==
  /\ r.protected = s.protected /\ r.stale = s.stale /\ r.touched = s.touched
  /\ "prs" \notin Faults => r.referenced = s.referenced

LEMMA ListNext ==
  ASSUME BacklogTypeOK, ListIssues
  PROVE  /\ (HygieneTypeOK /\ OnList)'
         /\ sweep'.pass = "merged" /\ sweep'.write = "none" /\ sweep'.on = {}
         /\ sweep'.todo = Closable(sweep'.seen)
         /\ \A t \in Ticket : /\ sweep'.seen[t].open => OpenNow(t)
                              /\ sweep'.seen[t].linked => tickets[t].linked
                              /\ sweep'.seen[t].open => AsSeen(sweep'.seen[t], tickets[t])
<1>1. PICK failed \in {{}} \union May("prs", {{"prs"}}) \union May("merged", {{"merged"}}) :
        LET seen == [t \in Ticket |->
              IF ~OpenNow(t) THEN Nothing
              ELSE [open |-> TRUE, protected |-> tickets[t].protected,
                    stale |-> tickets[t].stale, quiet |-> tickets[t].quiet,
                    touched |-> tickets[t].touched,
                    referenced |-> tickets[t].referenced /\ "prs" \notin failed,
                    linked |-> tickets[t].linked /\ "merged" \notin failed]]
        IN  sweep' = [NoSweep EXCEPT !.pass = "merged", !.todo = Closable(seen), !.seen = seen]
  BY DEF ListIssues
<1> DEFINE Line(t) == [open |-> TRUE, protected |-> tickets[t].protected,
                       stale |-> tickets[t].stale, quiet |-> tickets[t].quiet,
                       touched |-> tickets[t].touched,
                       referenced |-> tickets[t].referenced /\ "prs" \notin failed,
                       linked |-> tickets[t].linked /\ "merged" \notin failed]
           seen == [t \in Ticket |-> IF ~OpenNow(t) THEN Nothing ELSE Line(t)]
<1>2. ASSUME NEW t \in Ticket
      PROVE  /\ seen[t] \in Listed
             /\ seen[t].open => OpenNow(t)
             /\ seen[t].linked => tickets[t].linked
             /\ seen[t].open => AsSeen(seen[t], tickets[t])
  <2>1. Nothing \in Listed /\ Nothing.open = FALSE /\ Nothing.linked = FALSE
    BY BacklogAssumption DEF Nothing, Listed
  <2>2. tickets[t] \in TicketRecord
    BY DEF BacklogTypeOK
  <2>3. /\ (tickets[t].referenced /\ "prs" \notin failed) \in BOOLEAN
        /\ (tickets[t].linked /\ "merged" \notin failed) \in BOOLEAN
    OBVIOUS
  <2>4. Line(t) \in Listed
    BY <2>2, <2>3 DEF TicketRecord, Listed
  <2>5. "prs" \notin Faults => "prs" \notin failed
    BY DEF May
  <2>6. AsSeen(Line(t), tickets[t])
    BY <2>2, <2>5 DEF AsSeen, TicketRecord
  <2> QED BY <2>1, <2>4, <2>6
<1>3. sweep' = [NoSweep EXCEPT !.pass = "merged", !.todo = Closable(seen), !.seen = seen]
  BY <1>1
<1>4. seen \in [Ticket -> Listed]
  BY <1>2
<1> HIDE DEF seen, Line
<1>5. sweep' = [pass |-> "merged", todo |-> Closable(seen), handled |-> {}, write |-> "none",
                on |-> {}, seen |-> seen]
  BY <1>3 DEF NoSweep
<1> QED BY <1>2, <1>4, <1>5 DEF HygieneTypeOK, OnList, Closable

LEMMA WriteNext ==
  ASSUME HygieneTypeOK, OnList, HygieneWrite
  PROVE  (HygieneTypeOK /\ OnList)' /\ sweep'.seen = sweep.seen
<1>1. \/ sweep' = [sweep EXCEPT !.write = "none", !.on = {}]
      \/ sweep.write = "mark" /\ sweep' = [sweep EXCEPT !.write = "warn"]
  BY DEF HygieneWrite, CloseObsolete, MarkStale, Warn, CloseStale, Unstale, Write, HygieneTypeOK
<1> QED BY <1>1 DEF HygieneTypeOK, OnList

LEMMA AtFirst ==
  ASSUME Init, NEW t \in Ticket
  PROVE  /\ tickets[t].by # "obsolete"
         /\ tickets[t].state = "none" => tickets[t] = NoTicket
         /\ t \in Fix => ~OpenNow(t)
         /\ t \in Filed => t \in LegacyFix
<1>1. PICK linked \in SUBSET Issue :
         tickets = [u \in Ticket |->
                      IF u \in Issue THEN [OpenTicket EXCEPT !.linked = u \in linked]
                      ELSE IF u \in LegacyFix
                           THEN [NoTicket EXCEPT !.state = "closed", !.by = "person"]
                           ELSE NoTicket]
  BY DEF Init, BacklogInit
<1>2. /\ [OpenTicket EXCEPT !.linked = t \in linked].state = "open"
      /\ [OpenTicket EXCEPT !.linked = t \in linked].by = "nobody"
  BY DEF OpenTicket, NoTicket
<1>3. /\ [NoTicket EXCEPT !.state = "closed", !.by = "person"].state = "closed"
      /\ [NoTicket EXCEPT !.state = "closed", !.by = "person"].by = "person"
      /\ NoTicket.state = "none" /\ NoTicket.by = "nobody"
  BY DEF NoTicket
<1> QED BY <1>1, <1>2, <1>3, BacklogAssumption DEF OpenNow, Filed

LEMMA Initially == Init => TypeOK /\ Known
<1> SUFFICES ASSUME Init PROVE TypeOK /\ Known
  OBVIOUS
<1>1. BacklogTypeOK
  BY TicketsInit
<1>2. HousekeepingTypeOK
  BY DEF Init, HousekeepingInit, HousekeepingTypeOK, NoPass
<1>3. HygieneTypeOK /\ OnList /\ \A t \in Ticket : ~sweep.seen[t].open
  BY BacklogAssumption
  DEF Init, HygieneInit, HygieneTypeOK, NoSweep, Nothing, Listed, OnList
<1> QED BY <1>1, <1>2, <1>3, AtFirst DEF TypeOK, Known, OnList

LEMMA SweepNext ==
  ASSUME TypeOK, Known, [Next]_vars
  PROVE  /\ (HygieneTypeOK /\ OnList)'
         /\ \/ sweep'.seen = sweep.seen
            \/ sweep' = NoSweep
            \/ ListIssues
<1>1. HygieneTypeOK /\ OnList /\ BacklogTypeOK
  BY DEF TypeOK, Known, OnList
<1>2. CASE UNCHANGED sweep
  BY <1>1, <1>2 DEF HygieneTypeOK, OnList
<1>3. CASE SweepFails
  BY <1>3, NoSweepType DEF SweepFails, OnList, NoSweep
<1> QED
  BY <1>1, <1>2, <1>3, StepsOf, ListNext, LoopNext, JudgeNext, WriteNext DEF Reads, vars

LEMMA KnownNext ==
  ASSUME TypeOK, Known, [Next]_vars
  PROVE  Known'
<1>1. ASSUME NEW t \in Ticket, tickets'[t].state = "none" PROVE tickets'[t] = NoTicket
  BY <1>1, TicketsNext DEF Evolves, Kin, Grows, Known
<1>2. ASSUME NEW t \in Ticket, sweep'.seen[t].open PROVE tickets'[t].state # "none"
  <2>1. tickets[t].state # "none"
    <3>1. CASE sweep' = NoSweep
      BY <1>2, <3>1 DEF NoSweep, Nothing
    <3>2. CASE ListIssues
      BY <1>2, <3>2, ListNext DEF TypeOK, OpenNow
    <3> QED BY <1>2, <3>1, <3>2, SweepNext DEF Known
  <2> QED BY <2>1, TicketsNext DEF Evolves, Kin, Grows
<1> QED BY <1>1, <1>2, SweepNext DEF Known, OnList

LEMMA Typed == TypeOK /\ Known /\ [Next]_vars => (TypeOK /\ Known)'
BY BacklogNext, HousekeepingNext, SweepNext, KnownNext DEF TypeOK

\* Every variable of the janitors keeps its type.
THEOREM SweepsTypeCorrect == Spec => []TypeOK
<1> QED BY Initially, Typed, PTL DEF Spec

-----------------------------------------------------------------------------
(* A person's last word                                                    *)

\* What hygiene closed as obsolete carries its marker; what it is about to close does not.
Marked ==
  /\ \A t \in Ticket : tickets[t].by = "obsolete" => tickets[t].guard
  /\ \A t \in sweep.on : sweep.write = "obsolete" => ~tickets[t].guard

\* Who closes a ticket, and who marks one.
LEMMA Closes ==
  ASSUME TypeOK, Known, [Next]_vars, NEW t \in Ticket
  PROVE  /\ tickets[t].guard => tickets'[t].guard
         /\ tickets'[t].guard => tickets[t].guard \/ CloseObsolete \/ SweepFails
         /\ tickets'[t].by = "obsolete" =>
              \/ tickets[t].by = "obsolete"
              \/ tickets'[t].guard /\ CloseObsolete /\ t \in sweep.on
         /\ OpenNow(t) /\ tickets'[t].state # "open" =>
              \/ tickets'[t].by = "person"
              \/ tickets'[t].by = "stale" /\ CloseStale /\ t \in sweep.on
              \/ tickets'[t].by = "obsolete" /\ CloseObsolete /\ t \in sweep.on
<1> USE DEF TypeOK, OpenNow
<1>1. CASE Day
  BY <1>1, DayAges DEF Ages
<1>2. CASE \E p \in Pass : FileFix(p)
  BY <1>2, FileBlank DEF NoTicket, OpenTicket
<1>3. CASE \E u \in Ticket : TicketMoves(u, Sweeping)
  BY <1>3, MoveKin DEF Kin, Grows
<1>4. CASE UNCHANGED tickets
  BY <1>4
<1>5. CASE HygieneWrite
  <2>1. CASE CloseObsolete
    BY <1>5, <2>1, WriteKin DEF Kin, Grows
  <2>2. CASE ~CloseObsolete
    <3>1. tickets'[t].guard => tickets[t].guard
      BY <1>5, <2>2, OthersMark
    <3> QED BY <1>5, <2>2, <3>1, WriteKin DEF Kin, Grows
  <2> QED BY <2>1, <2>2
<1>6. CASE SweepFails
  BY <1>6, FailKin DEF Kin, Grows
<1> QED
  BY <1>1, <1>2, <1>3, <1>4, <1>5, <1>6, StepsOf, QuietTickets, ReadTickets
  DEF PrMoves, OtherEvent, vars, backlogVars

LEMMA MarkedNext ==
  ASSUME "comments" \notin Faults, TypeOK, Known, Marked, [Next]_vars
  PROVE  Marked'
<1>1. ASSUME NEW t \in Ticket, tickets'[t].by = "obsolete" PROVE tickets'[t].guard
  BY <1>1, Closes DEF Marked
<1>2. ASSUME NEW t \in sweep'.on, sweep'.write = "obsolete" PROVE ~tickets'[t].guard
  <2>1. CASE UNCHANGED sweep
    <3>1. t \in Ticket
      BY <1>2, <2>1 DEF TypeOK, HygieneTypeOK
    <3>2. ~CloseObsolete /\ ~SweepFails
      <4>1. CloseObsolete => sweep'.write = "none"
        BY DEF CloseObsolete, Write, TypeOK, HygieneTypeOK
      <4>2. SweepFails => sweep'.write = "none"
        BY DEF SweepFails, NoSweep
      <4> QED BY <1>2, <4>1, <4>2
    <3> QED BY <1>2, <2>1, <3>1, <3>2, Closes DEF Marked
  <2>2. CASE ListIssues
    BY <1>2, <2>2, ListNext DEF TypeOK
  <2>3. CASE NextLoop
    BY <1>2, <2>3 DEF NextLoop, NoSweep, TypeOK, HygieneTypeOK, Sweeping
  <2>4. CASE Judge
    <3>1. ASSUME NEW u \in Ticket PROVE Guards(u) = {tickets[u].guard}
      BY DEF Guards, May
    <3>2. PICK u \in sweep.todo : JudgeMerged(u) \/ JudgeRemediation(u) \/ JudgeStale(u)
      BY <2>4 DEF Judge
    <3>3. u \in Ticket /\ UNCHANGED tickets /\ sweep.write = "none"
      BY <2>4, <3>2 DEF Judge, TypeOK, HygieneTypeOK, backlogVars
    <3>4. \/ sweep'.write = "none"
          \/ sweep'.on = {u} /\ ~tickets[u].guard
          \/ sweep'.write \in {"mark", "close", "unstale"}
      <4>1. /\ Skip(u).write = "none" /\ Handled(u).write = "none"
            /\ \A what : Writes(u, what).write = what /\ Writes(u, what).on = {u}
        BY <3>3 DEF Skip, Handled, Writes, TypeOK, HygieneTypeOK
      <4>2. CASE JudgeMerged(u)
        BY <3>1, <3>3, <4>1, <4>2 DEF JudgeMerged
      <4>3. CASE JudgeRemediation(u)
        BY <3>1, <3>3, <4>1, <4>3 DEF JudgeRemediation
      <4>4. CASE JudgeStale(u)
        <5>1. \/ sweep' = Skip(u)
              \/ \E verdict \in {"mark", "close", "unstale"} : sweep' = Writes(u, verdict)
          BY <4>4 DEF JudgeStale
        <5> QED BY <4>1, <5>1
      <4> QED BY <3>2, <4>2, <4>3, <4>4
    <3> QED BY <1>2, <3>3, <3>4
  <2>5. CASE HygieneWrite
    BY <1>2, <2>5
    DEF HygieneWrite, CloseObsolete, MarkStale, Warn, CloseStale, Unstale, Write, TypeOK,
        HygieneTypeOK
  <2>6. CASE SweepFails
    BY <1>2, <2>6 DEF SweepFails, NoSweep
  <2> QED BY <2>1, <2>2, <2>3, <2>4, <2>5, <2>6, StepsOf DEF Reads, vars
<1> QED BY <1>1, <1>2 DEF Marked

\* Where comments can be read, the sweep never closes again as obsolete what a person
\* reopened, for any number of tickets and passes and whatever fails otherwise.
THEOREM LastWordStands ==
  ASSUME "comments" \notin Faults
  PROVE  Spec => ReopenRespected
<1>1. Init => Marked
  BY AtFirst DEF Marked, Init, HygieneInit, NoSweep
<1>2. TypeOK /\ Known /\ Marked /\ [Next]_vars => Marked'
  BY MarkedNext
<1>3. ASSUME TypeOK, Known, Marked, [Next]_vars,
             NEW t \in Ticket, tickets[t].by = "obsolete", OpenNow(t)
      PROVE  ~(~OpenNow(t)' /\ tickets'[t].by = "obsolete")
  BY <1>3, Closes DEF Marked, CloseObsolete, Write, OpenNow
<1>4. TypeOK /\ Known /\ Marked /\ [Next]_vars =>
        [\A t \in Ticket : tickets[t].by = "obsolete" /\ tickets[t].reopened /\ OpenNow(t)
           => ~(~OpenNow(t)' /\ tickets'[t].by = "obsolete")]_vars
  BY <1>3
<1> QED BY <1>1, <1>2, <1>4, Initially, Typed, PTL DEF Spec, ReopenRespected

-----------------------------------------------------------------------------
(* The fix tickets of a pull request                                       *)

\* Passes of housekeeping do not overlap, and its searches find what was filed.
Alone == (\A p, q \in Pass : p = q) /\ "search" \notin Faults

\* A pass about to file a ticket has room for it.
Room ==
  \A p \in Pass : hk[p].pc = "file" =>
    /\ Cardinality(Filed) < RetryCap
    /\ \A f \in Fix : OpenNow(f) => tickets[f].reopened

LEMMA FiledFinite == IsFiniteSet(Filed) /\ Cardinality(Filed) \in Nat
<1>1. IsFiniteSet(Fix)
  BY BacklogAssumption, FS_Interval DEF Fix
<1>2. Filed \subseteq Fix
  BY DEF Filed
<1> QED BY <1>1, <1>2, FS_Subset, FS_CardinalityType

\* Nothing but housekeeping files a fix ticket, and nobody but a person opens one again.
LEMMA FixStays ==
  ASSUME TypeOK, Known, [Next]_vars, ~\E p \in Pass : FileFix(p)
  PROVE  /\ Filed' = Filed
         /\ \A f \in Fix : /\ tickets[f].reopened => tickets'[f].reopened
                           /\ OpenNow(f)' => OpenNow(f) \/ tickets'[f].reopened
<1> USE DEF TypeOK, OpenNow
<1>1. ASSUME NEW f \in Fix
      PROVE  /\ (tickets'[f].state = "none") <=> (tickets[f].state = "none")
             /\ tickets[f].reopened => tickets'[f].reopened
             /\ tickets'[f].state = "open" => tickets[f].state = "open" \/ tickets'[f].reopened
  <2>1. f \in Ticket
    BY DEF Ticket
  <2>2. CASE Day
    BY <2>1, <2>2, DayAges DEF Ages
  <2>3. CASE \E u \in Ticket : TicketMoves(u, Sweeping)
    BY <2>1, <2>3, MoveKin DEF Kin, Grows
  <2>4. CASE UNCHANGED tickets
    BY <2>4
  <2>5. CASE HygieneWrite
    BY <2>1, <2>5, WriteKin DEF Kin, Grows
  <2>6. CASE SweepFails
    BY <2>1, <2>6, FailKin DEF Kin, Grows
  <2> QED
    BY <2>2, <2>3, <2>4, <2>5, <2>6, StepsOf, QuietTickets, ReadTickets
    DEF PrMoves, OtherEvent, vars, backlogVars
<1> QED BY <1>1 DEF Filed

LEMMA Filing ==
  ASSUME TypeOK, Known, NEW p \in Pass, FileFix(p)
  PROVE  \E f \in Fix \ Filed :
           /\ Filed' = Filed \union {f}
           /\ \A g \in Fix : g # f => tickets'[g] = tickets[g]
<1> DEFINE f == CHOOSE f \in Fix \ Filed : TRUE
<1>1. f \in Fix \ Filed /\ tickets' = [tickets EXCEPT ![f] = OpenTicket]
  BY DEF FileFix, Filed
<1> HIDE DEF f
<1>2. \A g \in Fix : g # f => tickets'[g] = tickets[g]
  BY <1>1 DEF TypeOK, BacklogTypeOK, Ticket
<1>3. tickets'[f].state = "open"
  BY <1>1 DEF TypeOK, BacklogTypeOK, Ticket, OpenTicket, NoTicket
<1>4. Filed' = Filed \union {f}
  BY <1>1, <1>2, <1>3 DEF Filed
<1> QED BY <1>1, <1>2, <1>4

LEMMA RoomNext ==
  ASSUME Alone, TypeOK, Known, Room, [Next]_vars
  PROVE  Room'
<1> SUFFICES ASSUME NEW p \in Pass, hk'[p].pc = "file"
             PROVE  /\ Cardinality(Filed') < RetryCap
                    /\ \A f \in Fix : OpenNow(f)' => tickets'[f].reopened
  BY DEF Room
<1> USE DEF TypeOK, HousekeepingTypeOK
<1>1. ~\E q \in Pass : FileFix(q)
  BY DEF FileFix, Goto, NoPass, Alone
<1>2. /\ Filed' = Filed
      /\ \A f \in Fix : /\ tickets[f].reopened => tickets'[f].reopened
                        /\ OpenNow(f)' => OpenNow(f) \/ tickets'[f].reopened
  BY <1>1, FixStays
<1>3. \/ hk[p].pc = "file"
      \/ /\ Cardinality(Filed) < RetryCap
         /\ \A f \in Fix : ~OpenNow(f)
  <2>1. CASE UNCHANGED hk
    BY <2>1
  <2>2. CASE SearchPriors(p)
    <3>1. Goto(p, NextOf(Priors({})))
      BY <2>2 DEF SearchPriors, May, Alone
    <3>2. NextOf(Filed) = "file"
      BY <3>1 DEF Goto, NoPass, Priors
    <3>3. /\ ~\E f \in Filed : OpenNow(f)
          /\ ~(Cardinality(Filed) >= RetryCap)
      BY <3>2 DEF NextOf
    <3> QED BY <3>3, FiledFinite, HousekeepingAssumption DEF Filed, OpenNow
  <2>3. ~ListPrs(p) /\ ~Unlisted(p) /\ ~Settle(p)
    BY DEF ListPrs, Unlisted, Settle, Goto, NoPass
  <2>4. ~Unsettled(p) /\ ~LabelHuman(p) /\ ~CommentHuman(p) /\ ~PassFails(p)
    BY DEF Unsettled, LabelHuman, CommentHuman, PassFails, Goto, NoPass
  <2>5. HygieneWrite => UNCHANGED hk
    BY DEF HygieneWrite, CloseObsolete, MarkStale, Warn, CloseStale, Unstale, Write
  <2>6. \A q \in Pass : q = p
    BY DEF Alone
  <2> QED
    BY <1>1, <2>1, <2>2, <2>3, <2>4, <2>5, <2>6, StepsOf, ReadTickets DEF Quietly, SweepFails, vars
<1>4. /\ Cardinality(Filed) < RetryCap
      /\ \A f \in Fix : OpenNow(f) => tickets[f].reopened
  BY <1>3 DEF Room
<1>5. ASSUME NEW f \in Fix, OpenNow(f)' PROVE tickets'[f].reopened
  <2>1. OpenNow(f) \/ tickets'[f].reopened
    BY <1>2, <1>5
  <2>2. OpenNow(f) => tickets[f].reopened
    BY <1>4
  <2> QED BY <1>2, <2>1, <2>2
<1> QED BY <1>2, <1>4, <1>5

LEMMA OneNext ==
  ASSUME Alone, TypeOK, Known, Room, OneFixTicket, CapHolds, [Next]_vars
  PROVE  (OneFixTicket /\ CapHolds)'
<1>1. CASE ~\E p \in Pass : FileFix(p)
  <2>1. /\ Filed' = Filed
        /\ \A f \in Fix : /\ tickets[f].reopened => tickets'[f].reopened
                          /\ OpenNow(f)' => OpenNow(f) \/ tickets'[f].reopened
    BY <1>1, FixStays
  <2>2. CapHolds'
    BY <2>1 DEF CapHolds
  <2>3. OneFixTicket'
    <3> SUFFICES ASSUME NEW f \in Fix, NEW g \in Fix, OpenNow(f)', OpenNow(g)', f # g
                 PROVE  tickets'[f].reopened \/ tickets'[g].reopened
      BY DEF OneFixTicket
    <3>1. /\ OpenNow(f) \/ tickets'[f].reopened
          /\ OpenNow(g) \/ tickets'[g].reopened
      BY <2>1
    <3>2. OpenNow(f) /\ OpenNow(g) => tickets[f].reopened \/ tickets[g].reopened
      BY DEF OneFixTicket
    <3> QED BY <2>1, <3>1, <3>2
  <2> QED BY <2>2, <2>3
<1>2. ASSUME NEW p \in Pass, FileFix(p) PROVE (OneFixTicket /\ CapHolds)'
  <2>1. PICK f \in Fix \ Filed : /\ Filed' = Filed \union {f}
                                 /\ \A g \in Fix : g # f => tickets'[g] = tickets[g]
    BY <1>2, Filing
  <2>2. /\ Cardinality(Filed) < RetryCap
        /\ \A g \in Fix : OpenNow(g) => tickets[g].reopened
    BY <1>2 DEF Room, FileFix, At
  <2>3. Cardinality(Filed') = Cardinality(Filed) + 1
    BY <2>1, FiledFinite, FS_AddElement
  <2>4. Cardinality(Filed') <= RetryCap
    BY <2>2, <2>3, FiledFinite, HousekeepingAssumption
  <2>5. ASSUME NEW g \in Fix, NEW h \in Fix, OpenNow(g)', OpenNow(h)', g # h
        PROVE  tickets'[g].reopened \/ tickets'[h].reopened
    BY <2>1, <2>2, <2>5 DEF OpenNow
  <2> QED BY <2>4, <2>5 DEF OneFixTicket, CapHolds
<1> QED BY <1>1, <1>2

LEMMA OneAtFirst ==
  ASSUME Cardinality(LegacyFix) <= RetryCap
  PROVE  Init => Room /\ OneFixTicket /\ CapHolds
<1> SUFFICES ASSUME Init PROVE Room /\ OneFixTicket /\ CapHolds
  OBVIOUS
<1>1. \A f \in Fix : ~OpenNow(f)
  BY AtFirst DEF Ticket
<1>2. Filed \subseteq LegacyFix /\ IsFiniteSet(LegacyFix)
  <2>1. IsFiniteSet(Fix)
    BY BacklogAssumption, FS_Interval DEF Fix
  <2> QED BY <2>1, AtFirst, FS_Subset, BacklogAssumption DEF Ticket, Filed
<1>3. Cardinality(Filed) <= Cardinality(LegacyFix)
  BY <1>2, FS_Subset
<1>4. Cardinality(Filed) <= RetryCap
  BY <1>2, <1>3, FiledFinite, FS_CardinalityType, HousekeepingAssumption
<1> QED BY <1>1, <1>4 DEF Room, OneFixTicket, CapHolds, Init, HousekeepingInit, NoPass

\* Where passes do not overlap and the searches work, a pull request has one open fix
\* ticket at most, beside what a person reopened, whatever hygiene and people close.
THEOREM FixTicketsOne ==
  ASSUME Alone, Cardinality(LegacyFix) <= RetryCap
  PROVE  Spec => []OneFixTicket
<1>1. Init => Room /\ OneFixTicket /\ CapHolds
  BY OneAtFirst
<1>2. TypeOK /\ Known /\ Room /\ OneFixTicket /\ CapHolds /\ [Next]_vars
        => (Room /\ OneFixTicket /\ CapHolds)'
  BY RoomNext, OneNext
<1> QED BY <1>1, <1>2, Initially, Typed, PTL DEF Spec

\* There, it also gets no more of them than the cap in all its life, those of the retired
\* triage-sweep included.
THEOREM FixTicketsCapped ==
  ASSUME Alone, Cardinality(LegacyFix) <= RetryCap
  PROVE  Spec => []CapHolds
<1>1. Init => Room /\ OneFixTicket /\ CapHolds
  BY OneAtFirst
<1>2. TypeOK /\ Known /\ Room /\ OneFixTicket /\ CapHolds /\ [Next]_vars
        => (Room /\ OneFixTicket /\ CapHolds)'
  BY RoomNext, OneNext
<1> QED BY <1>1, <1>2, Initially, Typed, PTL DEF Spec

-----------------------------------------------------------------------------
(* What the sweep goes by                                                  *)

\* Outside a sweep there is nothing to go by; in one, what it wrote on it has dealt with,
\* a link that was listed is one, and a ticket nobody touched is as listed.
Sheet ==
  /\ ~Sweeping => sweep = NoSweep
  /\ sweep.on \subseteq sweep.handled
  /\ \A t \in Ticket : sweep.seen[t].linked => tickets[t].linked
  /\ sweep.pass = "merged" => \A t \in sweep.todo : sweep.seen[t].linked
  /\ \A t \in Ticket \ (fresh \union sweep.handled) :
       sweep.seen[t].open => AsSeen(sweep.seen[t], tickets[t])

LEMMA IdleSheet ==
  ASSUME sweep' = NoSweep
  PROVE  Sheet'
BY DEF Sheet, NoSweep, Nothing, Sweeping

LEMMA ListSheet ==
  ASSUME TypeOK, ListIssues
  PROVE  Sheet'
<1>1. UNCHANGED tickets /\ sweep'.pass = "merged"
  BY ListNext DEF ListIssues, TypeOK
<1> QED BY <1>1, ListNext DEF Sheet, Sweeping, Closable, TypeOK

\* A ticket on the list that nobody touched changes by the sweep only.
LEMMA Untouched ==
  ASSUME TypeOK, Known, Sheet, [Next]_vars, ~ListIssues, sweep' # NoSweep,
         NEW t \in Ticket, t \notin fresh', sweep.seen[t].open
  PROVE  /\ t \notin fresh
         /\ t \notin sweep.on => tickets'[t] = tickets[t] \/ Ages(tickets[t], tickets'[t])
<1> USE DEF TypeOK
<1>1. CASE Day
  BY <1>1, DayAges DEF Day
<1>2. CASE \E u \in Ticket : TicketMoves(u, Sweeping) /\ UNCHANGED sweep
  <2>1. PICK u \in Ticket : TicketMoves(u, Sweeping) /\ UNCHANGED sweep
    BY <1>2
  <2>2. Sweeping
    BY <2>1 DEF Sheet
  <2>3. t # u /\ t \notin fresh
    BY <2>1, <2>2 DEF TicketMoves
  <2> QED BY <2>1, <2>3, MoveKin
<1>3. CASE \E p \in Pass : FileFix(p)
  <2>1. tickets[t] # NoTicket
    BY DEF Known, NoTicket
  <2> QED BY <1>3, <2>1, FileBlank DEF FileFix
<1>4. CASE PrMoves(Sweeping)
  BY <1>4 DEF PrMoves
<1>5. CASE HygieneWrite
  <2>1. UNCHANGED fresh
    BY <1>5 DEF HygieneWrite, CloseObsolete, MarkStale, Warn, CloseStale, Unstale, Write
  <2> QED BY <1>5, <2>1, WriteKin
<1>6. CASE Judge
  BY <1>6 DEF Judge, backlogVars
<1>7. CASE NextLoop
  BY <1>7 DEF NextLoop
<1>8. ASSUME NEW p, Quietly(p) PROVE UNCHANGED <<tickets, fresh>>
  BY <1>8 DEF Quietly, ListPrs, Unlisted, Settle, Unsettled, SearchPriors, LabelHuman,
              CommentHuman, PassFails, backlogVars
<1>9. ~SweepFails
  BY DEF SweepFails
<1> QED
  BY <1>1, <1>2, <1>3, <1>4, <1>5, <1>6, <1>7, <1>8, <1>9, StepsOf
  DEF Reads, OtherEvent, vars, backlogVars

\* What the sweep may do to its own record.
LEMMA OwnRecord ==
  ASSUME TypeOK, Known, Sheet, [Next]_vars, ~ListIssues, sweep' # NoSweep
  PROVE  \/ UNCHANGED sweep
         \/ /\ Sweeping /\ sweep'.pass = sweep.pass
            /\ sweep'.todo \subseteq sweep.todo
            /\ sweep.handled \subseteq sweep'.handled
            /\ sweep'.on \subseteq sweep.on \union sweep'.handled
            /\ sweep'.seen = sweep.seen
         \/ /\ NextLoop /\ sweep'.pass \in {"remediation", "stale"}
            /\ sweep'.handled = sweep.handled /\ sweep'.on = sweep.on
            /\ sweep'.seen = sweep.seen
<1> USE DEF TypeOK, HygieneTypeOK
<1>1. CASE NextLoop
  BY <1>1 DEF NextLoop, Sweeping
<1>2. CASE Judge
  <2>1. PICK t \in sweep.todo : JudgeMerged(t) \/ JudgeRemediation(t) \/ JudgeStale(t)
    BY <1>2 DEF Judge
  <2>2. Sweeping
    BY <2>1 DEF JudgeMerged, JudgeRemediation, JudgeStale, Sweeping
  <2>3. \/ sweep' = Skip(t)
        \/ sweep' = Handled(t)
        \/ \E what : sweep' = Writes(t, what)
    BY <2>1 DEF JudgeMerged, JudgeRemediation, JudgeStale
  <2>4. CASE sweep' = Skip(t)
    BY <2>2, <2>4 DEF Skip
  <2>5. CASE sweep' = Handled(t)
    BY <2>2, <2>5 DEF Handled, Skip
  <2>6. CASE \E what : sweep' = Writes(t, what)
    BY <2>2, <2>6 DEF Writes, Handled, Skip
  <2> QED BY <2>3, <2>4, <2>5, <2>6
<1>3. CASE HygieneWrite
  <2>1. /\ sweep.write # "none"
        /\ \/ sweep' = [sweep EXCEPT !.write = "none", !.on = {}]
           \/ sweep' = [sweep EXCEPT !.write = "warn"]
    BY <1>3 DEF HygieneWrite, CloseObsolete, MarkStale, Warn, CloseStale, Unstale, Write
  <2>2. Sweeping
    BY <2>1 DEF Sheet, NoSweep
  <2> QED BY <2>1, <2>2 DEF Sheet
<1>4. ~SweepFails
  BY DEF SweepFails
<1> QED BY <1>1, <1>2, <1>3, <1>4, StepsOf DEF Reads, vars

LEMMA SheetNext ==
  ASSUME TypeOK, Known, Sheet, [Next]_vars
  PROVE  Sheet'
<1>1. CASE sweep' = NoSweep
  BY <1>1, IdleSheet
<1>2. CASE ListIssues
  BY <1>2, ListSheet
<1>3. CASE sweep' # NoSweep /\ ~ListIssues
  <2>1. sweep'.seen = sweep.seen /\ sweep.handled \subseteq sweep'.handled
        /\ sweep'.on \subseteq sweep'.handled /\ (Sweeping)'
        /\ (sweep'.pass = "merged" => sweep.pass = "merged" /\ sweep'.todo \subseteq sweep.todo)
    <3>1. Sweeping
      BY <1>3, OwnRecord DEF Sheet, NextLoop
    <3> QED BY <1>3, <3>1, OwnRecord DEF Sheet, Sweeping
  <2>2. ASSUME NEW t \in Ticket, sweep'.seen[t].linked PROVE tickets'[t].linked
    BY <2>1, <2>2, TicketsNext DEF Sheet, Evolves, Kin, Grows
  <2>3. ASSUME NEW t \in Ticket, t \notin fresh', t \notin sweep'.handled, sweep'.seen[t].open
        PROVE  AsSeen(sweep'.seen[t], tickets'[t])
    <3>1. t \notin sweep.on /\ sweep.seen[t].open
      BY <2>1, <2>3 DEF Sheet
    <3>2. t \notin fresh /\ (tickets'[t] = tickets[t] \/ Ages(tickets[t], tickets'[t]))
      BY <1>3, <2>3, <3>1, Untouched
    <3>3. AsSeen(sweep.seen[t], tickets[t])
      BY <2>1, <2>3, <3>1, <3>2 DEF Sheet
    <3> QED BY <2>1, <3>2, <3>3 DEF AsSeen, Ages
  <2> QED BY <2>1, <2>2, <2>3 DEF Sheet
<1> QED BY <1>1, <1>2, <1>3

-----------------------------------------------------------------------------
(* What the sweep is about to close                                        *)

\* A fix ticket is over, or a merged pull request says so.
Over ==
  sweep.write = "obsolete" =>
    \A f \in (sweep.on \intersect Fix) \ fresh : pr.state # "open" \/ tickets[f].linked

\* A ticket is due.
DueNow(t) ==
  /\ tickets[t].stale /\ tickets[t].warned = GraceDays /\ ~tickets[t].touched
  /\ ~tickets[t].protected /\ ~tickets[t].referenced /\ t \notin Fix
Due == sweep.write = "close" => \A t \in sweep.on \ fresh : DueNow(t)

\* A decided write that a step leaves to be made was decided before, or is decided by it.
LEMMA Decides ==
  ASSUME TypeOK, Known, Sheet, [Next]_vars, sweep'.write \in {"obsolete", "close"}
  PROVE  \/ Judge
         \/ /\ ~HygieneWrite /\ ~SweepFails /\ ~ListIssues
            /\ sweep'.write = sweep.write /\ sweep'.on = sweep.on
<1> USE DEF TypeOK, HygieneTypeOK
<1>1. ~ListIssues
  BY ListNext
<1>2. ~HygieneWrite
  <2>1. HygieneWrite => sweep'.write \in {"none", "warn"}
    BY DEF HygieneWrite, CloseObsolete, MarkStale, Warn, CloseStale, Unstale, Write
  <2> QED BY <2>1
<1>3. ~SweepFails
  BY DEF SweepFails, NoSweep
<1>4. CASE NextLoop
  <2>1. sweep' # NoSweep
    BY DEF NoSweep
  <2> QED BY <1>1, <1>2, <1>3, <1>4, <2>1, OwnRecord DEF NextLoop, Sweeping
<1> QED BY <1>1, <1>2, <1>3, <1>4, StepsOf DEF Reads, vars

\* A step that leaves a write to be made changes nothing of the ticket it is for, but by age.
LEMMA Waits ==
  ASSUME TypeOK, Known, Sheet, [Next]_vars, ~Judge, sweep'.write \in {"obsolete", "close"},
         NEW t \in sweep.on, t \notin fresh'
  PROVE  /\ t \in Ticket /\ t \notin fresh
         /\ tickets'[t] = tickets[t] \/ Ages(tickets[t], tickets'[t])
<1>1. t \in Ticket /\ sweep.seen[t].open /\ ~ListIssues /\ sweep' # NoSweep
  BY Decides DEF TypeOK, HygieneTypeOK, Known, NoSweep
<1>2. t \notin fresh
  BY <1>1, Untouched
<1>3. CASE Day
  BY <1>1, <1>2, <1>3, DayAges DEF TypeOK
<1>4. CASE \E u \in Ticket : TicketMoves(u, Sweeping)
  <2>1. PICK u \in Ticket : TicketMoves(u, Sweeping)
    BY <1>4
  <2>2. Sweeping
    BY <1>1 DEF Sheet, NoSweep
  <2>3. t # u
    BY <2>1, <2>2 DEF TicketMoves
  <2> QED BY <1>1, <1>2, <2>1, <2>3, MoveKin DEF TypeOK
<1>5. CASE \E p \in Pass : FileFix(p)
  <2>1. tickets[t] # NoTicket
    BY <1>1 DEF Known, NoTicket
  <2> QED BY <1>1, <1>2, <1>5, <2>1, FileBlank DEF TypeOK
<1>6. CASE UNCHANGED tickets
  BY <1>1, <1>2, <1>6
<1> QED
  BY <1>1, <1>2, <1>3, <1>4, <1>5, <1>6, Decides, StepsOf, QuietTickets, ReadTickets
  DEF PrMoves, OtherEvent, vars, backlogVars

LEMMA PrStays ==
  ASSUME TypeOK, Known, Sheet, [Next]_vars, sweep'.write = "obsolete", ~Judge,
         pr.state # "open"
  PROVE  pr'.state # "open" \/ Fix \subseteq fresh'
<1>1. Sweeping
  BY Decides DEF Sheet, NoSweep
<1>2. CASE PrMoves(Sweeping)
  BY <1>1, <1>2 DEF PrMoves
<1>3. CASE Day
  BY <1>3 DEF Day, TypeOK, BacklogTypeOK, PrRecord
<1>4. ASSUME NEW p, Quietly(p) PROVE pr'.state = pr.state
  BY <1>4 DEF Quietly, ListPrs, Unlisted, Settle, Unsettled, SearchPriors, LabelHuman,
              CommentHuman, PassFails, backlogVars, TypeOK, BacklogTypeOK, PrRecord
<1> QED
  BY <1>2, <1>3, <1>4, Decides, StepsOf, ReadTickets
  DEF TicketMoves, OtherEvent, FileFix, vars, backlogVars

\* What a judgement about t decides.
LEMMA JudgeDecides ==
  ASSUME TypeOK, Judge, sweep'.write # "none"
  PROVE  \E t \in sweep.todo :
           /\ sweep'.on = {t}
           /\ \/ JudgeMerged(t) /\ sweep'.write = "obsolete"
              \/ /\ JudgeRemediation(t) /\ sweep'.write = "obsolete"
                 /\ pr.state # "open"
              \/ JudgeStale(t) /\ sweep' = Writes(t, sweep'.write)
<1>1. PICK t \in sweep.todo : JudgeMerged(t) \/ JudgeRemediation(t) \/ JudgeStale(t)
  BY DEF Judge
<1>2. /\ Skip(t).write = "none" /\ Handled(t).write = "none"
      /\ \A what : Writes(t, what).write = what /\ Writes(t, what).on = {t}
  BY DEF Judge, Skip, Handled, Writes, TypeOK, HygieneTypeOK
<1>3. CASE JudgeMerged(t)
  BY <1>2, <1>3 DEF JudgeMerged
<1>4. CASE JudgeRemediation(t)
  <2>1. PICK state \in {pr.state} \union May("view", {"unreadable"}) :
           \/ ~RemediationOver(state) /\ sweep' = Skip(t)
           \/ RemediationOver(state) /\ sweep' = Handled(t)
           \/ RemediationOver(state) /\ sweep' = Writes(t, "obsolete")
    BY <1>4 DEF JudgeRemediation
  <2>2. RemediationOver(state) /\ sweep' = Writes(t, "obsolete")
    BY <1>2, <2>1
  <2>3. state = pr.state /\ pr.state # "open"
    BY <2>1, <2>2 DEF RemediationOver, May
  <2> QED BY <1>2, <1>4, <2>2, <2>3
<1>5. CASE JudgeStale(t)
  <2>1. sweep' = Skip(t) \/ \E what : sweep' = Writes(t, what)
    BY <1>5 DEF JudgeStale
  <2> QED BY <1>2, <1>5, <2>1
<1> QED BY <1>1, <1>3, <1>4, <1>5

LEMMA OverNext ==
  ASSUME TypeOK, Known, Sheet, Over, [Next]_vars
  PROVE  Over'
<1> SUFFICES ASSUME sweep'.write = "obsolete",
                    NEW f \in (sweep'.on \intersect Fix), f \notin fresh'
             PROVE  pr'.state # "open" \/ tickets'[f].linked
  BY DEF Over
<1>1. CASE Judge
  <2>1. PICK t \in sweep.todo :
           /\ sweep'.on = {t}
           /\ \/ JudgeMerged(t) /\ sweep'.write = "obsolete"
              \/ /\ JudgeRemediation(t) /\ sweep'.write = "obsolete"
                 /\ pr.state # "open"
              \/ JudgeStale(t) /\ sweep' = Writes(t, sweep'.write)
    BY <1>1, JudgeDecides
  <2>2. UNCHANGED <<tickets, pr>> /\ f = t /\ t \in Ticket
    BY <1>1, <2>1 DEF Judge, backlogVars, TypeOK, HygieneTypeOK
  <2>3. ~JudgeStale(t)
    <3> SUFFICES ASSUME JudgeStale(t) PROVE FALSE
      OBVIOUS
    <3>1. \A what : Writes(t, what).write = what /\ Skip(t).write = sweep.write
      BY DEF Skip, Handled, Writes, TypeOK, HygieneTypeOK
    <3>2. sweep' = Skip(t) \/ \E what \in {"mark", "close", "unstale"} : sweep' = Writes(t, what)
      BY DEF JudgeStale
    <3> QED BY <1>1, <3>1, <3>2 DEF Judge
  <2>4. JudgeMerged(t) => tickets[t].linked
    BY <2>1, <2>2 DEF JudgeMerged, Sheet
  <2> QED BY <2>1, <2>2, <2>3, <2>4
<1>2. CASE ~Judge
  <2>1. sweep.write = "obsolete" /\ sweep'.on = sweep.on
    BY <1>2, Decides
  <2>2. /\ f \in Ticket /\ f \notin fresh
        /\ tickets'[f] = tickets[f] \/ Ages(tickets[f], tickets'[f])
    BY <1>2, <2>1, Waits
  <2>3. pr.state # "open" \/ tickets[f].linked
    BY <2>1, <2>2 DEF Over
  <2>4. tickets[f].linked => tickets'[f].linked
    BY <2>2 DEF Ages
  <2> QED BY <1>2, <2>3, <2>4, PrStays
<1> QED BY <1>1, <1>2

\* The sweep never costs a pull request that is open an attempt: a fix ticket it closes as
\* obsolete belongs to one that is done, or a merged one closes it by keyword, unless
\* somebody came in between.
THEOREM AttemptsStand == Spec => AttemptsKept
<1>1. Init => Sheet /\ Over
  BY DEF Init, HygieneInit, NoSweep, Nothing, Sheet, Over, Sweeping
<1>2. TypeOK /\ Known /\ Sheet /\ Over /\ [Next]_vars => (Sheet /\ Over)'
  BY SheetNext, OverNext
<1>3. ASSUME TypeOK, Known, Sheet, Over, [Next]_vars,
             NEW f \in Fix \ fresh, OpenNow(f), ~OpenNow(f)', tickets'[f].by = "obsolete"
      PROVE  pr.state # "open" \/ tickets[f].linked
  <2>1. CloseObsolete /\ f \in sweep.on
    BY <1>3, Closes DEF Ticket, OpenNow
  <2> QED BY <1>3, <2>1 DEF Over, CloseObsolete, Write
<1>4. TypeOK /\ Known /\ Sheet /\ Over /\ [Next]_vars =>
        [\A f \in Fix \ fresh : OpenNow(f) /\ ~OpenNow(f)' /\ tickets'[f].by = "obsolete"
           => pr.state # "open" \/ tickets[f].linked]_vars
  BY <1>3
<1> QED BY <1>1, <1>2, <1>4, Initially, Typed, PTL DEF Spec, AttemptsKept

LEMMA CloseVerdict ==
  ASSUME NEW t, NEW s, NEW warned, NEW active, EvaluateStale(t, s, warned, active) = "close"
  PROVE  /\ ~s.protected /\ t \notin Fix /\ s.stale /\ ~s.referenced
         /\ warned # Unwarned /\ ~active /\ warned >= GraceDays
<1>1. ~(s.protected \/ t \in Fix)
  BY DEF EvaluateStale
<1>2. s.stale
  BY <1>1 DEF EvaluateStale
<1>3. ~s.referenced
  BY <1>1, <1>2 DEF EvaluateStale
<1>4. warned # Unwarned
  BY <1>1, <1>2, <1>3 DEF EvaluateStale
<1>5. ~active
  BY <1>1, <1>2, <1>3, <1>4 DEF EvaluateStale
<1>6. warned >= GraceDays
  BY <1>1, <1>2, <1>3, <1>4, <1>5 DEF EvaluateStale
<1> QED BY <1>1, <1>2, <1>3, <1>4, <1>5, <1>6

LEMMA DueNext ==
  ASSUME "prs" \notin Faults, TypeOK, Known, Sheet, Due, [Next]_vars
  PROVE  Due'
<1> SUFFICES ASSUME sweep'.write = "close", NEW t \in sweep'.on, t \notin fresh'
             PROVE  DueNow(t)'
  BY DEF Due
<1>1. CASE Judge
  <2>1. PICK u \in sweep.todo :
           /\ sweep'.on = {u}
           /\ JudgeStale(u) /\ sweep' = Writes(u, "close")
    BY <1>1, JudgeDecides
  <2>2. UNCHANGED <<tickets, fresh>> /\ u = t /\ t \in Ticket
    BY <1>1, <2>1 DEF Judge, backlogVars, TypeOK, HygieneTypeOK
  <2>3. \A what : Writes(t, what).write = what /\ Skip(t).write = sweep.write
    BY <2>2 DEF Skip, Handled, Writes, TypeOK, HygieneTypeOK
  <2>4. PICK warned \in {tickets[t].warned} \union May("comments", {Unwarned}),
             active \in {sweep.seen[t].touched, tickets[t].touched} :
           EvaluateStale(t, sweep.seen[t], warned, active) = "close"
    <3>1. PICK warned \in {tickets[t].warned} \union May("comments", {Unwarned}),
               active \in {sweep.seen[t].touched, tickets[t].touched} :
             \/ sweep' = Writes(t, EvaluateStale(t, sweep.seen[t], warned, active))
             \/ sweep' = Skip(t)
      BY <2>1, <2>2 DEF JudgeStale
    <3> QED BY <1>1, <2>3, <3>1 DEF Judge
  <2>5. AsSeen(sweep.seen[t], tickets[t])
    BY <2>1, <2>2 DEF Sheet, Known, TypeOK, HygieneTypeOK
  <2>6. /\ ~sweep.seen[t].protected /\ t \notin Fix /\ sweep.seen[t].stale
        /\ ~sweep.seen[t].referenced /\ warned # Unwarned /\ ~active /\ warned >= GraceDays
    BY <2>4, CloseVerdict
  <2>7. warned = tickets[t].warned
    BY <2>4, <2>6 DEF May
  <2>8. tickets[t].warned = GraceDays
    <3>1. tickets[t].warned \in 0..GraceDays
      BY <2>2, <2>6, <2>7 DEF TypeOK, BacklogTypeOK, TicketRecord
    <3> QED BY <2>6, <2>7, <3>1, BacklogAssumption
  <2>9. DueNow(t)
    BY <2>4, <2>5, <2>6, <2>8 DEF DueNow, AsSeen
  <2> QED BY <2>2, <2>9 DEF DueNow
<1>2. CASE ~Judge
  <2>1. sweep.write = "close" /\ sweep'.on = sweep.on
    BY <1>2, Decides
  <2>2. /\ t \in Ticket /\ t \notin fresh
        /\ tickets'[t] = tickets[t] \/ Ages(tickets[t], tickets'[t])
    BY <1>2, <2>1, Waits
  <2>3. DueNow(t)
    BY <2>1, <2>2 DEF Due
  <2> QED BY <2>2, <2>3 DEF DueNow, Ages
<1> QED BY <1>1, <1>2

\* Where the open pull requests can be listed, a ticket that the sweep closes as stale was
\* warned and left alone for the whole of the grace, and is nobody's, unless somebody
\* touched it while the sweep ran.
THEOREM StaleClosesDue ==
  ASSUME "prs" \notin Faults
  PROVE  Spec => HandsOff
<1>1. Init => Sheet /\ Due
  BY DEF Init, HygieneInit, NoSweep, Nothing, Sheet, Due, Sweeping
<1>2. TypeOK /\ Known /\ Sheet /\ Due /\ [Next]_vars => (Sheet /\ Due)'
  BY SheetNext, DueNext
<1>3. ASSUME TypeOK, Known, Sheet, Due, [Next]_vars,
             NEW t \in Ticket \ fresh, ClosesStale(t)
      PROVE  /\ tickets[t].stale /\ tickets[t].warned = GraceDays /\ ~tickets[t].touched
             /\ ~tickets[t].protected /\ ~tickets[t].referenced /\ t \in Issue
  <2>1. CloseStale /\ t \in sweep.on
    BY <1>3, Closes DEF ClosesStale, OpenNow
  <2>2. DueNow(t)
    BY <1>3, <2>1 DEF Due, CloseStale, Write
  <2> QED BY <2>2 DEF DueNow, Ticket
<1>4. TypeOK /\ Known /\ Sheet /\ Due /\ [Next]_vars =>
        [\A t \in Ticket \ fresh : ClosesStale(t) =>
           /\ tickets[t].stale /\ tickets[t].warned = GraceDays /\ ~tickets[t].touched
           /\ ~tickets[t].protected /\ ~tickets[t].referenced /\ t \in Issue]_vars
  BY <1>3
<1> QED BY <1>1, <1>2, <1>4, Initially, Typed, PTL DEF Spec, HandsOff
=============================================================================
