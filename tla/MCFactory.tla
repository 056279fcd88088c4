------------------------------ MODULE MCFactory -------------------------------
(***************************************************************************)
(* Instances of Factory for TLC.                                           *)
(***************************************************************************)
EXTENDS Factory

OneTicket  == {1}
TwoTickets == {1, 2}
EpicA      == 101
OneEpic    == {EpicA}
Siblings   == [t \in Ticket |-> {EpicA}]
NoBlockers == [t \in Ticket |-> {}]
InOneRepo  == [i \in Ticket \union Epic |-> 1]
\* Ticket 1 lives in another repository than its epic and its sibling.
OneAbroad  == [i \in Ticket \union Epic |-> IF i = 1 THEN 2 ELSE 1]

\* Bound of the instance with two tickets: states after a release are not explored further.
Unreleased == released = {}
=============================================================================
