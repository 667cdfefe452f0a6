------------------------------- MODULE MCTimer ------------------------------
(* Small instances of Timer for TLC. *)
EXTENDS Timer, TLC

\* Instances are interchangeable.
Symmetry == Permutations(Ids)
=============================================================================
