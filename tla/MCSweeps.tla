------------------------------ MODULE MCSweeps -------------------------------
(***************************************************************************)
(* Instances of Sweeps for TLC.                                            *)
(***************************************************************************)
EXTENDS Sweeps

OnePass == {1}
OneLegacy == {1}
=============================================================================
