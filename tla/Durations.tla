----------------------------- MODULE Durations ------------------------------
(***************************************************************************)
(* The operators of chrono::duration, include/handystats/chrono.hpp, with  *)
(* the conversions they make. A calculator applies them one after another  *)
(* to one duration; exact keeps what the result should be.                 *)
(***************************************************************************)
EXTENDS Conversions

CONSTANTS Operands,         \* durations the calculator is given
          MaxSteps          \* bound of the model: number of operations

VARIABLES
    d,          \* the duration
    exact,      \* auxiliary: its exact length
    error,      \* auxiliary: by how much truncation and rounding may have
                \* changed it
    surplus,    \* auxiliary: by how much it is too long because a negative
                \* count was divided as an unsigned one
    steps       \* auxiliary: number of operations

vars == <<d, exact, error, surplus, steps>>

common_unit(u, v) == IF precision_class[u] <= precision_class[v] THEN u ELSE v

\* Division of signed integers, towards zero.
Quotient(n, k) == IF n < 0 THEN -((-n) \div k) ELSE n \div k

-----------------------------------------------------------------------------
(* The results that the operators may have.                                 *)

\* Compound assignments keep the unit of the left operand.
PlusAssign(x, y) == {Dur(Signed(x.rep + c.rep), x.unit) : c \in convert_to(x.unit, y)}
MinusAssign(x, y) == {Dur(Signed(x.rep - c.rep), x.unit) : c \in convert_to(x.unit, y)}

\* Binary operators and comparisons are made in the finer of the two units.
In(x, y) == {c.rep : c \in convert_to(common_unit(x.unit, y.unit), x)}

Add(x, y) ==
    {Dur(Signed(a + b), common_unit(x.unit, y.unit)) : a \in In(x, y), b \in In(y, x)}
Subtract(x, y) ==
    {Dur(Signed(a - b), common_unit(x.unit, y.unit)) : a \in In(x, y), b \in In(y, x)}

\* Defective variant: compares in the unit of the left operand.
LessThan_left(x, y) ==
    {t \in BOOLEAN : \E c \in convert_to(x.unit, y) : t <=> x.rep < c.rep}

LessThan(x, y) ==
    {t \in BOOLEAN : \E a \in In(x, y), b \in In(y, x) : t <=> a < b}
Equal(x, y) ==
    {t \in BOOLEAN : \E a \in In(x, y), b \in In(y, x) : t <=> a = b}

Negated(x) == Dur(Signed(-x.rep), x.unit)
DividedBy(x, n) == Dur(Quotient(x.rep, n), x.unit)

-----------------------------------------------------------------------------
\* The length is representable in nanoseconds and in cycles.
Fits(length) ==
    LET smaller == IF Nanosecs < Cycles THEN Nanosecs ELSE Cycles
    IN  -(Limit * smaller) < length /\ length < Limit * smaller

\* What the calculator is given it can represent. Negative durations are what
\* it computes.
ASSUME OperandsAssumption ==
    /\ Operands \subseteq [rep : Nat, unit : Unit]
    /\ \A y \in Operands : Fits(Length(y))

Init ==
    /\ d \in Operands
    /\ exact = Length(d)
    /\ error = 0
    /\ surplus = 0
    /\ steps = 0

\* d = one of results, which should have this length up to this loss, and
\* with this surplus. A duration with a surplus is not calculated with.
Becomes(results, length, loss, more) ==
    /\ steps < MaxSteps
    /\ steps' = steps + 1
    /\ surplus = 0
    /\ Fits(length - error - loss) /\ Fits(length + error + loss)
    /\ d' \in results
    /\ exact' = length
    /\ error' = error + loss
    /\ surplus' = more

ApplyPlusAssign(y) ==
    Becomes(PlusAssign(d, y), exact + Length(y), Loss(y, d.unit), 0)

ApplyMinusAssign(y) ==
    Becomes(MinusAssign(d, y), exact - Length(y), Loss(y, d.unit), 0)

LossBinary(x, y) ==
    LET u == common_unit(x.unit, y.unit) IN Loss(x, u) + Loss(y, u)

ApplyAdd(y) ==
    Becomes(Add(d, y), exact + Length(y), LossBinary(d, y),
            Surplus(d, common_unit(d.unit, y.unit)))

ApplySubtract(y) ==
    Becomes(Subtract(d, y), exact - Length(y), LossBinary(d, y),
            Surplus(d, common_unit(d.unit, y.unit)))

ApplyNegate == Becomes({Negated(d)}, -exact, 0, 0)

\* Halving halves the error too, and loses less than a unit.
ApplyHalve == Becomes({DividedBy(d, 2)}, exact \div 2, UnitLength(d.unit) + 1, 0)

Convert(to) == Becomes(convert_to(to, d), exact, Loss(d, to), Surplus(d, to))

Arithmetic ==
    \/ \E y \in Operands :
        \/ ApplyPlusAssign(y)
        \/ ApplyMinusAssign(y)
        \/ ApplyAdd(y)
        \/ ApplySubtract(y)
    \/ ApplyNegate
    \/ ApplyHalve

Next == Arithmetic \/ \E to \in Unit : Convert(to)

Spec == Init /\ [][Next]_vars

-----------------------------------------------------------------------------
\* A chain of operations on durations in different units is wrong by no more
\* than the truncations and roundings in it: no intermediate result wraps. A
\* negative duration converted to a coarser unit than nanoseconds, or added to
\* one in such a unit, comes out too long by 2 * Limit nanoseconds, neither
\* more nor less (chrono.cpp:51-63).
Accurate == Length(d) - (exact + surplus) \in -error .. error

\* Comparisons across units follow the lengths, but for what is lost in the
\* conversion of the coarser duration to the finer unit; and a negative
\* duration that loses its sign there is not less than any operand
\* (chrono.hpp:235-288).
CompareSound ==
    surplus = 0 =>
        \A y \in Operands :
            LET u == common_unit(d.unit, y.unit)
                loss == LossBinary(d, y)
            IN  IF KeepsSign(d, u)
                THEN /\ TRUE \in LessThan(d, y) => Length(d) + UnitLength(u) <= Length(y) + loss
                     /\ TRUE \in LessThan(y, d) => Length(y) + UnitLength(u) <= Length(d) + loss
                     /\ FALSE \in LessThan(d, y) => Length(y) <= Length(d) + loss
                     /\ FALSE \in LessThan(y, d) => Length(d) <= Length(y) + loss
                     /\ TRUE \in Equal(d, y) => Length(d) - Length(y) \in -loss .. loss
                ELSE LessThan(d, y) = {FALSE}

\* The inductive invariant behind Accurate and CompareSound.
IInv ==
    /\ d \in [rep : Int, unit : Unit]
    /\ exact \in Int /\ error \in Nat
    /\ surplus \in {0, 2 * Limit * Cycles}
    /\ surplus = 0 => Fits(Length(d))
    /\ Accurate
=============================================================================
