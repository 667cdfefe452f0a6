------------------------------ MODULE TscClock ------------------------------
(***************************************************************************)
(* The library's clock while the program is loaded,                        *)
(* src/src/chrono/tsc_clock.cpp: the source is chosen, and the number of   *)
(* cycles per nanosecond is measured, before main() is entered.            *)
(***************************************************************************)
EXTENDS Rationals, Sequences, FiniteSets

CONSTANTS Environments,     \* values of HANDY_CLOCK_SOURCE; "unset" if there is none
          Processors,       \* what the processor and the system may provide
          TrueRate,         \* cycles per nanosecond
          SleepTimes,       \* nanoseconds that nanosleep() may take
          Delays,           \* cycles that may pass between two readings
          CYCLES_DELTA, TESTS_COUNT

ASSUME TscClockAssumption ==
    /\ {TrueRate, CYCLES_DELTA, TESTS_COUNT} \subseteq Nat \ {0}
    /\ SleepTimes \subseteq Nat \ {0}
    /\ 0 \in Delays /\ Delays \subseteq Nat

VARIABLES clock_source, cycles_tests, cycles_per_nanosec

clockVars == <<clock_source, cycles_tests, cycles_per_nanosec>>

Sources == {"RDTSC", "RDTSCP", "CLOCK_MONOTONIC", "CLOCK_REALTIME"}
TscSources == {"RDTSC", "RDTSCP"}

get_available_clock_source(environment, processor) ==
    IF environment # "unset"
    THEN IF environment \in Sources THEN environment ELSE "CLOCK_REALTIME"
    ELSE IF processor.invariant_tsc
    THEN IF processor.rdtscp THEN "RDTSCP" ELSE "RDTSC"
    ELSE IF processor.monotonic THEN "CLOCK_MONOTONIC" ELSE "CLOCK_REALTIME"

\* Defective variant: the pair is not checked to be simultaneous.
Simultaneous_any(before, after) == TRUE

\* The readings of the cycles around that of the nanoseconds are close;
\* otherwise get_simultaneous_pair() starts again.
Simultaneous(before, after) == before + after < CYCLES_DELTA

\* What get_simultaneous_pair() returns when it begins at this cycle.
Pairs(cycle) ==
    {[cycles |-> cycle + (delay[1] + delay[2]) \div 2,
      nanoseconds |-> (cycle + delay[1]) \div TrueRate,
      ended |-> cycle + delay[1] + delay[2]] :
        delay \in {d \in Delays \X Delays : Simultaneous(d[1], d[2])}}

\* What get_cycles_frequency() returns.
Frequencies ==
    UNION {{Ratio(end.cycles - start.cycles, end.nanoseconds - start.nanoseconds) :
                end \in Pairs(start.ended + sleep * TrueRate)} :
           start \in UNION {Pairs(cycle) : cycle \in 0 .. TrueRate - 1},
           sleep \in SleepTimes}

\* The value in the middle of the tests, were they sorted: at most half of
\* them come before it, and more than half do not come after it.
Median(tests) ==
    LET half == Len(tests) \div 2
    IN  CHOOSE m \in {tests[i] : i \in DOMAIN tests} :
            /\ Cardinality({i \in DOMAIN tests : Less(tests[i], m)}) <= half
            /\ Cardinality({i \in DOMAIN tests : Leq(tests[i], m)}) > half

Calibrated == cycles_per_nanosec # Zero

ClockInit ==
    /\ clock_source \in {get_available_clock_source(e, p) :
                            e \in Environments, p \in Processors}
    /\ cycles_tests = << >>
    /\ cycles_per_nanosec = IF clock_source \in TscSources THEN Zero ELSE Rat(3)

\* estimate_cycles_frequency(), one test at a time.
Test(frequency) ==
    /\ ~Calibrated
    /\ Len(cycles_tests) < TESTS_COUNT
    /\ cycles_tests' = Append(cycles_tests, frequency)
    /\ UNCHANGED <<clock_source, cycles_per_nanosec>>

ChooseMedian ==
    /\ ~Calibrated
    /\ Len(cycles_tests) = TESTS_COUNT
    /\ cycles_per_nanosec' = Median(cycles_tests)
    /\ cycles_tests' = << >>
    /\ UNCHANGED clock_source

Load == ChooseMedian \/ \E frequency \in Frequencies : Test(frequency)

-----------------------------------------------------------------------------
\* A duration of sleep time that is converted with the measured rate is
\* wrong by no more than the pairs may be apart, on either side, and one
\* nanosecond, whatever came between the readings.
RateAccurate ==
    Calibrated /\ clock_source \in TscSources =>
        \E sleep \in SleepTimes :
            LET wrong == Times(Minus(cycles_per_nanosec, Rat(TrueRate)), Rat(sleep))
                allowed == Rat(CYCLES_DELTA + 2 * TrueRate)
            IN  Leq(wrong, allowed) /\ Leq(Minus(Zero, allowed), wrong)
=============================================================================
