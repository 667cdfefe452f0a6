----------------------------- MODULE Rationals ------------------------------
(***************************************************************************)
(* Exact fractions, kept in lowest terms as <<numerator, denominator>>.    *)
(* They stand for the doubles of the statistics; rounding, and the epsilon *)
(* of math_utils::cmp that absorbs it, are abstracted away.                *)
(***************************************************************************)
EXTENDS Integers

\* Of a pair <<m, n>>.
gcd[p \in Nat \X Nat] ==
    IF p[2] = 0 THEN p[1] ELSE gcd[<<p[2], p[1] % p[2]>>]

Magnitude(n) == IF n < 0 THEN -n ELSE n

\* The fraction n / d.
Ratio(n, d) ==
    LET g == gcd[<<Magnitude(n), Magnitude(d)>>]
        s == IF d < 0 THEN -1 ELSE 1
    IN  <<s * (n \div g), s * (d \div g)>>

Rat(n) == <<n, 1>>
Zero == Rat(0)
One == Rat(1)

\* \div rounds towards minus infinity, but g divides n and d.
Plus(a, b) == Ratio(a[1] * b[2] + b[1] * a[2], a[2] * b[2])
Minus(a, b) == Ratio(a[1] * b[2] - b[1] * a[2], a[2] * b[2])
Times(a, b) == Ratio(a[1] * b[1], a[2] * b[2])
Over(a, b) == Ratio(a[1] * b[2], a[2] * b[1])
Less(a, b) == a[1] * b[2] < b[1] * a[2]
Leq(a, b) == ~Less(b, a)

IsRat(a) == a[1] \in Int /\ a[2] \in Nat \ {0}
=============================================================================
