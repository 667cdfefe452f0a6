---------------------------- MODULE Conversions -----------------------------
(***************************************************************************)
(* The representation of chrono::duration (include/handystats/chrono.hpp)  *)
(* and its conversions (src/src/chrono.cpp): signed counts of a unit, of a *)
(* fixed width, converted in unsigned arithmetic, or in floating point     *)
(* when cycles are involved.                                               *)
(*                                                                         *)
(* How floating point rounds is left open, as it depends on the build: a   *)
(* conversion has a set of results, those within the error of its          *)
(* operations. Everything else is exact.                                   *)
(***************************************************************************)
EXTENDS Integers

CONSTANTS Limit,            \* counts are in -Limit .. Limit - 1, 2^63 in the code
          Step,             \* ratio of adjacent units from NSEC on, e.g. 1000
          Cycles, Nanosecs, \* cycles_per_nanosec = Cycles / Nanosecs
          Mantissa,         \* of a double, 2^53
          ExtendedMantissa  \* of a long double, 2^64

\* The code's numbers may be scaled down together.
ASSUME ConversionsAssumption ==
    /\ Limit \in Nat \ {0}
    /\ Step \in Nat /\ Step >= 3
    /\ Cycles \in Nat \ {0} /\ Nanosecs \in Nat \ {0}
    /\ Mantissa \in Nat /\ Mantissa >= 3
    /\ ExtendedMantissa \in Nat /\ ExtendedMantissa >= 3

\* std::less<time_unit>: from fine to coarse. TICK counts cycles. MIN, HOUR and
\* DAY add no case.
precision_class == [TICK |-> 1, NSEC |-> 2, USEC |-> 3, MSEC |-> 4, SEC |-> 5]

Unit == DOMAIN precision_class

nsec_factor ==
    [NSEC |-> 1, USEC |-> Step, MSEC |-> Step * Step, SEC |-> Step * Step * Step]

Dur(rep, unit) == [rep |-> rep, unit |-> unit]

\* Conversions of C++ integers: without and with a sign.
Unsigned(n) == n % (2 * Limit)
Signed(n) == ((n + Limit) % (2 * Limit)) - Limit

\* n / k in floating point, converted to an integer, towards zero. There are at
\* most three operations with a rounding, each of which changes the result by
\* at most one part in mantissa.
Floating(n, k, mantissa) ==
    LET quotients(m) == (m * (mantissa - 3)) \div (k * mantissa)
                          .. (m * (mantissa + 3)) \div (k * mantissa)
    IN  IF n < 0 THEN {-q : q \in quotients(-n)} ELSE quotients(n)

\* Defective variant: the quotient of the factors is taken first.
counts_early(to, x) ==
    IF to = "TICK"
    THEN Floating((Cycles \div Nanosecs) * nsec_factor[x.unit] * x.rep, 1, ExtendedMantissa)
    ELSE IF x.unit = "TICK"
    THEN Floating(x.rep, nsec_factor[to] * (Cycles \div Nanosecs), Mantissa)
    ELSE {Signed(Unsigned(nsec_factor[x.unit] * x.rep) \div nsec_factor[to])}

\* The counts that the conversion to another unit may have: through a long
\* double to cycles, through a double from them, else as an unsigned integer.
counts(to, x) ==
    IF to = "TICK"
    THEN Floating(Cycles * nsec_factor[x.unit] * x.rep, Nanosecs, ExtendedMantissa)
    ELSE IF x.unit = "TICK"
    THEN Floating(x.rep * Nanosecs, nsec_factor[to] * Cycles, Mantissa)
    ELSE {Signed(Unsigned(nsec_factor[x.unit] * x.rep) \div nsec_factor[to])}

convert_to(to, x) ==
    IF x.unit = to THEN {x} ELSE {Dur(q, to) : q \in counts(to, x)}

-----------------------------------------------------------------------------
(* What a conversion should be, and by how much it is not. *)

\* Length of a unit and of a duration in parts of a nanosecond that both cycles
\* and nanoseconds are multiples of.
UnitLength(unit) ==
    IF unit = "TICK" THEN Nanosecs ELSE Cycles * nsec_factor[unit]

Length(x) == x.rep * UnitLength(x.unit)

\* To cycles and from them conversions keep the sign, and to nanoseconds the
\* divisor is one; otherwise a negative count is divided as the huge unsigned
\* one, and the result is longer by as many nanoseconds as that has values.
KeepsSign(x, to) ==
    x.rep >= 0 \/ x.unit \in {"TICK", to} \/ to \in {"TICK", "NSEC"}

Surplus(x, to) == IF KeepsSign(x, to) THEN 0 ELSE 2 * Limit * Cycles

\* Error of up to three roundings of x.
Rounding(x, mantissa) ==
    (3 * (IF Length(x) < 0 THEN -Length(x) ELSE Length(x))) \div mantissa

\* Truncation to the new unit, and rounding.
Loss(x, to) ==
    IF x.unit = to THEN 0
    ELSE UnitLength(to) + (IF to = "TICK" THEN Rounding(x, ExtendedMantissa)
                           ELSE IF x.unit = "TICK" THEN Rounding(x, Mantissa)
                           ELSE 0)
=============================================================================
