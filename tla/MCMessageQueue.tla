--------------------------- MODULE MCMessageQueue ---------------------------
(* Small instances of MessageQueue for TLC. *)
EXTENDS MessageQueue, TLC

\* Producers and messages are interchangeable.
Symmetry == Permutations(Producers) \cup Permutations(Messages)
=============================================================================
