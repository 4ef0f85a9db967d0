----------------------------- MODULE MCTaskLife ------------------------------
(***************************************************************************)
(* Instances of TaskLife for TLC.  Tasks are interchangeable.              *)
(***************************************************************************)
EXTENDS TaskLife, TLC

TaskSymmetry == Permutations(Tasks)
=============================================================================
