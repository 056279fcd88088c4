----------------------------- MODULE MCDispatcher -----------------------------
(***************************************************************************)
(* Instances of Dispatcher for TLC.                                        *)
(***************************************************************************)
EXTENDS Dispatcher

TwoTickets   == {1, 2}

EpicA        == 101
OneEpic      == {EpicA}
OneRepo      == {1}
OnePass      == {1}

\* Both tickets belong to one epic.
Siblings == [t \in Ticket |-> {EpicA}]

TwoWaitsOne  == [t \in Ticket |-> IF t = 2 THEN {1} ELSE {}]

InOneRepo    == [i \in Ticket \union Epic |-> 1]
=============================================================================
