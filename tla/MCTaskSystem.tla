---------------------------- MODULE MCTaskSystem ----------------------------
(* The instances of TaskSystem that TLC checks. *)
EXTENDS TaskSystem, TLC

\* Tasks and workers are interchangeable: the model compares them only for equality.
Symmetry == Permutations(Task) \cup Permutations(Worker)
=============================================================================
