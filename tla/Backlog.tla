------------------------------- MODULE Backlog -------------------------------
(***************************************************************************)
(* What the two janitors of the backlog share: the tickets of a            *)
(* repository, one factory pull request, and what people and time do to    *)
(* them.  pr-housekeeping files a fix ticket for a pull request that is    *)
(* stuck; ticket-hygiene closes tickets that are dormant or done.          *)
(***************************************************************************)
EXTENDS Integers, FiniteSets

CONSTANTS
  Issue,      \* tickets people filed
  MaxFix,     \* fix tickets there may be for the pull request
  LegacyFix,  \* those of the retired triage-sweep, with its own marker
  StaleDays,  \* days of silence before the warning
  GraceDays,  \* days between the warning and the close
  MaxMoves,   \* what people may do, and calls that may fail and end a sweep
  Faults      \* calls that may fail, and the moves of people that happen

Fix == 1..MaxFix
Ticket == Issue \union Fix
Unwarned == -1

ASSUME BacklogAssumption ==
  /\ MaxFix \in Nat
  /\ LegacyFix \subseteq Fix
  /\ StaleDays \in Nat \ {0}
  /\ GraceDays \in Nat \ {0}
  /\ MaxMoves \in Nat
  /\ Issue \intersect Fix = {}

VARIABLES
  tickets,  \* tickets[t]: see TicketRecord
  pr,       \* the pull request: see PrRecord
  due,      \* an event has asked for a housekeeping pass, and none started since
  moves,    \* moves people made, and sweeps that failed
  fresh     \* tickets somebody touched while a hygiene sweep ran

backlogVars == <<tickets, pr, due, moves, fresh>>

TicketRecord ==
  [state      : {"none", "open", "closed"},
   by         : {"nobody", "person", "stale", "obsolete"},  \* who closed it last
   reopened   : BOOLEAN,                  \* a person reopened it once
   protected  : BOOLEAN,                  \* epic, tracking or needs:human
   stale      : BOOLEAN,                  \* the label
   quiet      : 0..StaleDays,             \* days since its last update
   warned     : {Unwarned} \union 0..GraceDays,  \* days since the last warning comment
   touched    : BOOLEAN,                  \* updated or commented since that warning
   guard      : BOOLEAN,                  \* a comment carries the obsolete marker
   linked     : BOOLEAN,                  \* a merged pull request closes it by keyword
   referenced : BOOLEAN]                  \* an open pull request mentions it

PrRecord ==
  [state    : {"open", "merged", "closed"},
   draft    : BOOLEAN,
   conflict : BOOLEAN,
   checks   : {"failing", "pending", "passed", "unverified"},
   idle     : BOOLEAN,                    \* no update for three days
   human    : BOOLEAN]                    \* the label needs:human

NoTicket ==
  [state |-> "none", by |-> "nobody", reopened |-> FALSE, protected |-> FALSE, stale |-> FALSE,
   quiet |-> 0, warned |-> Unwarned, touched |-> FALSE, guard |-> FALSE, linked |-> FALSE,
   referenced |-> FALSE]

OpenTicket == [NoTicket EXCEPT !.state = "open"]

Filed == {f \in Fix : tickets[f].state # "none"}
OpenNow(t) == tickets[t].state = "open"

BacklogTypeOK ==
  /\ tickets \in [Ticket -> TicketRecord]
  /\ pr \in PrRecord
  /\ due \in BOOLEAN
  /\ moves \in 0..MaxMoves
  /\ fresh \subseteq Ticket

\* A backlog in use, before the first sweep of either kind.
BacklogInit ==
  /\ \E linked \in SUBSET Issue :
       tickets = [t \in Ticket |->
                    IF t \in Issue THEN [OpenTicket EXCEPT !.linked = t \in linked]
                    ELSE IF t \in LegacyFix
                         THEN [NoTicket EXCEPT !.state = "closed", !.by = "person"]
                         ELSE NoTicket]
  /\ pr = [state |-> "open", draft |-> FALSE, conflict |-> FALSE, checks |-> "pending",
           idle |-> FALSE, human |-> FALSE]
  /\ due = FALSE
  /\ moves = 0
  /\ fresh = {}

-----------------------------------------------------------------------------
(* Updates of a ticket                                                     *)

\* Any update bumps updatedAt.
Updated(r) == [r EXCEPT !.quiet = 0]

\* An update within the slack (an hour) of the warning does not count as activity; a
\* comment, and any update after that, does.
Active(r, slack) ==
  [Updated(r) EXCEPT !.touched = @ \/ (r.warned # Unwarned /\ (r.warned > 0 \/ ~slack))]

Closed(r, who) == [Active(r, FALSE) EXCEPT !.state = "closed", !.by = who]

\* The forms a comment, a label, a close and a reopening take.
Touches(r) ==
  IF r.state = "closed"
  THEN {[Active(r, FALSE) EXCEPT !.state = "open", !.reopened = TRUE]}
  ELSE {Active(r, FALSE), Closed(r, "person")}
         \union {[Active(r, slack) EXCEPT !.protected = ~@] : slack \in BOOLEAN}
         \union (IF "staled" \in Faults THEN {[Active(r, FALSE) EXCEPT !.stale = TRUE]} ELSE {})

\* What other pull requests say about a ticket does not update it.
Mentions(r) == {[r EXCEPT !.referenced = ~@], [r EXCEPT !.linked = TRUE]}

-----------------------------------------------------------------------------
(* What happens besides the sweeps                                         *)

Moved == moves < MaxMoves /\ moves' = moves + 1

TicketMoves(t, sweeping) ==
  /\ tickets[t].state # "none"
  /\ \E r \in Touches(tickets[t])
              \union (IF OpenNow(t) /\ "mention" \in Faults THEN Mentions(tickets[t]) ELSE {}) :
       tickets' = [tickets EXCEPT ![t] = r]
  /\ fresh' = IF sweeping THEN fresh \union {t} ELSE fresh
  /\ Moved
  /\ UNCHANGED <<pr, due>>

\* What starts a housekeeping pass besides: main moves, and CI reports.
Events ==
  IF pr.state # "open" THEN {}
  ELSE {[pr EXCEPT !.state = "merged"], [pr EXCEPT !.conflict = ~@]}
         \union {[pr EXCEPT !.checks = c] : c \in {"failing", "passed", "unverified"}}

\* What does not: people draft, label, close and reopen the pull request.
Edits ==
  IF pr.state # "open" THEN {[pr EXCEPT !.state = "open"]}
  ELSE {[pr EXCEPT !.state = "closed"], [pr EXCEPT !.draft = ~@], [pr EXCEPT !.human = ~@]}

\* The event may be lost, or be of a workflow that the shim does not list.  An edit is an
\* update of the pull request; a report is none, unless a push was behind it.
PrMoves(sweeping) ==
  /\ pr.state # "merged"
  /\ \/ /\ \E new \in Events : pr' \in {new, [new EXCEPT !.idle = FALSE]}
        /\ due' \in {due, TRUE}
     \/ /\ \E new \in Edits : pr' = [new EXCEPT !.idle = FALSE]
        /\ UNCHANGED due
  /\ fresh' = IF sweeping THEN fresh \union Fix ELSE fresh
  /\ Moved
  /\ UNCHANGED tickets

\* (The ages are capped where nothing tells them apart any more.)
Day ==
  /\ tickets' = [t \in Ticket |->
       IF ~OpenNow(t) THEN tickets[t]
       ELSE [tickets[t] EXCEPT !.quiet = IF @ < StaleDays THEN @ + 1 ELSE @,
                               !.warned = IF @ \in 0..(GraceDays - 1) THEN @ + 1 ELSE @]]
  /\ pr' = [pr EXCEPT !.idle = pr.state = "open"]
  /\ UNCHANGED <<due, moves, fresh>>

\* Another pull request of the repository is merged, or its CI reports; or somebody starts
\* the workflow by hand.  There is no schedule.
OtherEvent ==
  /\ ~due
  /\ due' = TRUE
  /\ UNCHANGED <<tickets, pr, moves, fresh>>
=============================================================================
