------------------------------ MODULE EpicLanes ------------------------------
(***************************************************************************)
(* What the factory promises about the tickets of its epics, without       *)
(* labels, runs and passes: a ticket is taken only when all that blocks it *)
(* is done and nothing else of its epics is in flight, goes back only when *)
(* nothing works on it any more, and is done only after work on it.        *)
(***************************************************************************)
CONSTANTS
  Ticket,        \* the tickets
  PartOf,        \* PartOf[t]: the epics of a ticket
  BlockedBy,     \* BlockedBy[t]: the tickets that must be done before it
  Unresolvable   \* tickets with a blocker that no ticket is

VARIABLE stage   \* stage[t]: how far the ticket is

InFlight(t) == stage[t] \in {"taken", "working"}

Init == stage = [t \in Ticket |-> "waiting"]

\* The ticket goes to an agent.  Its work begins at once, or never when the event that
\* would start it is lost.
Take(t) ==
  /\ stage[t] = "waiting"
  /\ t \notin Unresolvable
  /\ \A b \in BlockedBy[t] : stage[b] = "completed"
  /\ \A u \in Ticket : InFlight(u) => PartOf[t] \intersect PartOf[u] = {}
  /\ \E s \in {"taken", "working"} : stage' = [stage EXCEPT ![t] = s]

\* The run is over without a PR, or the PR is closed; the ticket still counts as in
\* flight, unless it was given back while its PR was open.
Stop(t) ==
  /\ stage[t] = "working"
  /\ \E s \in {"taken", "waiting"} : stage' = [stage EXCEPT ![t] = s]

\* Nothing works on the ticket: it may be taken again, or another one of its epics.
GiveBack(t) ==
  /\ stage[t] = "taken"
  /\ stage' = [stage EXCEPT ![t] = "waiting"]

Finish(t) ==
  /\ stage[t] = "working"
  /\ stage' = [stage EXCEPT ![t] = "completed"]

Drop(t) ==
  /\ stage[t] \in {"waiting", "taken", "working"}
  /\ stage' = [stage EXCEPT ![t] = "not_planned"]

Next == \E t \in Ticket : Take(t) \/ Stop(t) \/ GiveBack(t) \/ Finish(t) \/ Drop(t)

Spec == Init /\ [][Next]_stage

-----------------------------------------------------------------------------
(* What follows                                                            *)

\* No two tickets of an epic are in flight.
Alone ==
  \A t, u \in Ticket :
    InFlight(t) /\ InFlight(u) /\ t # u => PartOf[t] \intersect PartOf[u] = {}

\* What is in flight or done comes after all that blocks it.
InOrder ==
  \A t \in Ticket : InFlight(t) \/ stage[t] = "completed" =>
    t \notin Unresolvable /\ \A b \in BlockedBy[t] : stage[b] = "completed"
=============================================================================
