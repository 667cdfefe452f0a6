---------------------------- MODULE MCDurations -----------------------------
(* Small instances of Durations for TLC. *)
EXTENDS Durations

\* Nothing, the smallest durations, some that no coarser unit divides, and cycles
\* that a double does not hold exactly.
SomeDurations ==
    {Dur(0, "TICK"), Dur(5, "TICK"), Dur(301, "TICK"), Dur(7, "NSEC"), Dur(3, "USEC"),
     Dur(2, "MSEC"), Dur(1, "SEC")}
=============================================================================
