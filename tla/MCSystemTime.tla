---------------------------- MODULE MCSystemTime ----------------------------
(* Small instances of SystemTime for TLC. *)
EXTENDS SystemTime

\* The source is chosen by the processor, or misspelt: CLOCK_REALTIME.
SomeEnvironments == {"unset", "RDTCS"}
WithTsc == {[invariant_tsc |-> TRUE, rdtscp |-> TRUE, monotonic |-> TRUE]}
=============================================================================
