------------------------------ MODULE MCCompletion -----------------------------
(***************************************************************************)
(* Instances of Completion for TLC.                                        *)
(***************************************************************************)
EXTENDS Completion

OneEpic     == {1}
TwoChildren == {11, 12}
OnePass     == {1}
OneRepo     == {1}
TwoRepos    == {1, 2}

Siblings == [c \in Child |-> {1}]

InOneRepo == [i \in Child \union Epic |-> 1]
\* Child 12 lives in another repository than its epic and its sibling.
OneAbroad == [i \in Child \union Epic |-> IF i = 12 THEN 2 ELSE 1]
=============================================================================
