------------------------------- MODULE MCCore -------------------------------
(* Small instances of Core for TLC. *)
EXTENDS Core, TLC

\* Threads, messages and metric names are interchangeable.
Symmetry == Permutations(Controllers) \cup Permutations(Producers)
              \cup Permutations(Messages) \cup Permutations(Names)
=============================================================================
