----------------------------- MODULE MCSessionLog -----------------------------
(***************************************************************************)
(* Instance of SessionLog for TLC.                                         *)
(***************************************************************************)
EXTENDS SessionLog, TLC

\* Tasks differ in nothing.
TaskSymmetry == Permutations(Tasks)
=============================================================================
