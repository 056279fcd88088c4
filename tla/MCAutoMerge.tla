----------------------------- MODULE MCAutoMerge -----------------------------
(***************************************************************************)
(* Instances of AutoMerge for TLC.                                         *)
(***************************************************************************)
EXTENDS AutoMerge

\* One check of the repository, and the pass's own job.
Gate == "gate"
OwnJob == "automerge"
GateAndJob == {Gate, OwnJob}
OnlyGate == {Gate}
OnlyJob == {OwnJob}

OnePass == {1}
=============================================================================
