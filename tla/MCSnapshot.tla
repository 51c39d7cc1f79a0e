----------------------------- MODULE MCSnapshot -----------------------------
(***************************************************************************)
(* Snapshot for TLC: the slots of jobs are interchangeable.                 *)
(***************************************************************************)
EXTENDS Snapshot, TLC

MCSymmetry == Permutations(Jobs)

===============================================================================
