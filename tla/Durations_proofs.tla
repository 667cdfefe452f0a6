-------------------------- MODULE Durations_proofs ---------------------------
(***************************************************************************)
(* Proofs about Conversions and Durations for any width of the counts,     *)
(* ratio of the units, number of cycles per nanosecond and precision of    *)
(* floating point: a result that can be represented is wrong by no more    *)
(* than the truncations and roundings that led to it, but for the known    *)
(* surplus of a negative count that loses its sign, and comparisons follow *)
(* the lengths.                                                            *)
(***************************************************************************)
EXTENDS Durations, TLAPS

-----------------------------------------------------------------------------
(* Arithmetic. *)

LEMMA Products ==
    /\ \A a, b \in Int : a * b \in Int
    /\ \A a, b \in Int : a * b = b * a
    /\ \A a, b, c \in Int : a * (b * c) = (a * b) * c
    /\ \A a, b, c \in Int : (a + b) * c = a * c + b * c
    /\ \A a, b, c \in Int : (a - b) * c = a * c - b * c
    /\ \A a, b \in Nat : a * b \in Nat
    /\ \A a, b \in Nat \ {0} : a * b \in Nat \ {0}
  OBVIOUS

LEMMA Monotone ==
    ASSUME NEW a \in Int, NEW b \in Int, NEW c \in Nat \ {0}
    PROVE  /\ a <= b => a * c <= b * c
           /\ a < b => a * c < b * c
           /\ a * c < b * c => a < b
  OBVIOUS

\* A remainder is unique.
LEMMA Remainder ==
    ASSUME NEW n \in Int, NEW m \in Nat \ {0}, NEW k \in Int, 0 <= n - k * m, n - k * m < m
    PROVE  n % m = n - k * m /\ n \div m = k
<1> DEFINE q == n \div m
           r == n % m
<1>1. q \in Int /\ r \in Int /\ 0 <= r /\ r < m /\ n = m * q + r
  OBVIOUS
<1> HIDE DEF q, r
<1>2. m * q = q * m /\ q * m - k * m = (q - k) * m
  BY <1>1, Products
<1>3. /\ (q - k) * m < m /\ -m < (q - k) * m
  BY <1>1, <1>2, Products
<1>4. q - k < 1 /\ -1 < q - k
  <2>1. 1 * m = m /\ (-1) * m = -m
    OBVIOUS
  <2> QED
    BY <1>1, <1>3, <2>1, Monotone
<1>5. q = k
  BY <1>1, <1>4
<1> QED
  BY <1>1, <1>2, <1>5 DEF q, r

\* Remainders of what is at most one period away.
LEMMA RemainderNear ==
    ASSUME NEW n \in Int, NEW m \in Nat \ {0}
    PROVE  /\ 0 <= n /\ n < m => n % m = n
           /\ -m <= n /\ n < 0 => n % m = n + m
           /\ m <= n /\ n < m + m => n % m = n - m
<1> DEFINE before == -1
           same == 0
           after == 1
<1>1. /\ before \in Int /\ same \in Int /\ after \in Int
      /\ n - same * m = n /\ n - before * m = n + m /\ n - after * m = n - m
  OBVIOUS
<1> HIDE DEF before, same, after
<1>2. 0 <= n /\ n < m => n % m = n - same * m
  BY <1>1, Remainder
<1>3. ASSUME -m <= n, n < 0 PROVE n % m = n + m
  <2>1. 0 <= n - before * m /\ n - before * m < m
    BY <1>1, <1>3
  <2>2. n % m = n - before * m
    BY <1>1, <2>1, Remainder
  <2> QED
    BY <1>1, <2>2
<1>4. ASSUME m <= n, n < m + m PROVE n % m = n - m
  <2>1. 0 <= n - after * m /\ n - after * m < m
    BY <1>1, <1>4
  <2>2. n % m = n - after * m
    BY <1>1, <2>1, Remainder
  <2> QED
    BY <1>1, <2>2
<1> QED
  BY <1>1, <1>2, <1>3, <1>4

LEMMA SignedSmall ==
    ASSUME NEW n \in Int, -Limit <= n, n < Limit
    PROVE  Signed(n) = n
<1> DEFINE m == 2 * Limit
           k == n + Limit
<1>1. m \in Nat \ {0} /\ k \in Int /\ 0 <= k /\ k < m /\ k - Limit = n
  BY ConversionsAssumption
<1>2. Signed(n) = (k % m) - Limit
  BY DEF Signed
<1> HIDE DEF m, k
<1>3. k % m = k
  BY <1>1, RemainderNear
<1> QED
  BY <1>1, <1>2, <1>3

LEMMA UnsignedSmall ==
    ASSUME NEW n \in Int, -Limit <= n, n < Limit
    PROVE  /\ n >= 0 => Unsigned(n) = n
           /\ n < 0 => Unsigned(n) = n + 2 * Limit
<1> DEFINE m == 2 * Limit
<1>1. m \in Nat \ {0} /\ -m <= n /\ n < m
  BY ConversionsAssumption
<1> HIDE DEF m
<1>2. /\ n >= 0 => n % m = n
      /\ n < 0 => n % m = n + m
  BY <1>1, RemainderNear
<1> QED
  BY <1>2 DEF Unsigned, m

LEMMA SignedUnsigned ==
    ASSUME NEW n \in Int, -Limit <= n, n < Limit
    PROVE  Signed(Unsigned(n)) = n
<1>1. CASE n >= 0
  BY <1>1, SignedSmall, UnsignedSmall
<1>2. CASE n < 0
  <2> DEFINE m == 2 * Limit
             k == n + m + Limit
  <2>1. /\ m \in Nat \ {0} /\ k \in Int /\ m <= k /\ k < m + m
        /\ k - m - Limit = n
    BY <1>2, ConversionsAssumption
  <2>2. Signed(Unsigned(n)) = (k % m) - Limit
    BY <1>2, UnsignedSmall DEF Signed
  <2> HIDE DEF m, k
  <2>3. k % m = k - m
    BY <2>1, RemainderNear
  <2> QED
    BY <2>1, <2>2, <2>3
<1> QED
  BY <1>1, <1>2

\* Division truncates towards zero.
LEMMA QuotientBounds ==
    ASSUME NEW n \in Int, NEW k \in Nat \ {0}
    PROVE  /\ Quotient(n, k) \in Int
           /\ -k < Quotient(n, k) * k - n /\ Quotient(n, k) * k - n < k
           /\ n >= 0 => Quotient(n, k) >= 0 /\ Quotient(n, k) * k <= n
<1>1. ASSUME NEW m \in Nat
      PROVE  /\ m \div k \in Nat
             /\ (m \div k) * k <= m /\ m < (m \div k) * k + k
  OBVIOUS
<1>2. CASE n >= 0
  BY <1>1, <1>2 DEF Quotient
<1>3. CASE n < 0
  <2>1. -n \in Nat
    BY <1>3
  <2>2. (-((-n) \div k)) * k = -(((-n) \div k) * k)
    BY <1>1, <2>1
  <2> QED
    BY <1>1, <1>3, <2>1, <2>2 DEF Quotient
<1> QED
  BY <1>2, <1>3

\* What truncation and the roundings of floating point make of n / k.
LEMMA FloatingNatural ==
    ASSUME NEW n \in Nat, NEW k \in Nat \ {0}, NEW m \in Nat, m >= 3,
           NEW q \in Int, NEW S \in Int, S = (3 * n) \div m,
           (n * (m - 3)) \div (k * m) <= q, q <= (n * (m + 3)) \div (k * m)
    PROVE  -(k + S) <= q * k - n /\ q * k - n <= k + S
<1> DEFINE K == k * m
           A == n * (m - 3)
           B == n * (m + 3)
           a == A \div K
           b == B \div K
           t == 3 * n
<1>1. K \in Nat \ {0} /\ m \in Nat \ {0} /\ t \in Nat
  BY Products
<1>2. A \in Nat /\ B \in Nat /\ A = n * m - t /\ B = n * m + t /\ n * m \in Int
  <2>1. m - 3 \in Nat /\ m + 3 \in Nat /\ 3 \in Int /\ n \in Int /\ m \in Int
    OBVIOUS
  <2>2. A = (m - 3) * n /\ B = (m + 3) * n /\ A \in Nat /\ B \in Nat
    BY <2>1, Products
  <2>3. (m - 3) * n = m * n - 3 * n /\ (m + 3) * n = m * n + 3 * n /\ m * n = n * m
    BY <2>1, Products
  <2> QED
    BY <2>1, <2>2, <2>3, Products
<1>3. a \in Int /\ b \in Int /\ a <= q /\ q <= b
  BY <1>1, <1>2
<1> HIDE DEF K, A, B, t
<1>4. /\ b * K <= B
      /\ A < a * K + K
      /\ S * m <= t /\ t < S * m + m
  <2>1. \A j \in Nat, h \in Nat \ {0} : (j \div h) * h <= j /\ j < (j \div h) * h + h
    OBVIOUS
  <2> QED
    BY <1>1, <1>2, <2>1 DEF t
<1> HIDE DEF a, b
<1>5. a * K <= q * K /\ q * K <= b * K /\ q * K \in Int /\ a * K \in Int /\ b * K \in Int
  BY <1>1, <1>3, Monotone, Products
<1>6. q * K = (q * k) * m /\ K = k * m /\ q * k \in Int
  BY Products DEF K
<1>7. S * m \in Int /\ k * m \in Int /\ m \in Int
  BY Products
<1>8. /\ (q * k) * m < n * m + S * m + m
      /\ n * m < (q * k) * m + k * m + S * m + m
  BY <1>1, <1>2, <1>4, <1>5, <1>6, <1>7
<1>9. /\ n * m + S * m + m = (n + S + 1) * m
      /\ (q * k) * m + k * m + S * m + m = (q * k + k + S + 1) * m
  <2> DEFINE p == q * k
  <2>1. p \in Int
    BY <1>6
  <2> HIDE DEF p
  <2>2. /\ n * m + S * m + m = (n + S + 1) * m
        /\ p * m + k * m + S * m + m = (p + k + S + 1) * m
    BY <2>1
  <2> QED
    BY <2>2 DEF p
<1>10. q * k < n + S + 1 /\ n < q * k + k + S + 1
  <2> DEFINE p == q * k
             e == n + S + 1
             f == p + k + S + 1
  <2>1. p \in Int /\ e \in Int /\ f \in Int /\ n \in Int
    BY <1>6
  <2>2. p * m < e * m /\ n * m < f * m
    BY <1>8, <1>9
  <2> HIDE DEF p, e, f
  <2>3. p < e /\ n < f
    BY <1>1, <2>1, <2>2, Monotone
  <2> QED
    BY <2>3 DEF p, e, f
<1> QED
  BY <1>6, <1>10

LEMMA FloatingBounds ==
    ASSUME NEW n \in Int, NEW k \in Nat \ {0}, NEW m \in Nat, m >= 3,
           NEW q \in Floating(n, k, m)
    PROVE  LET S == (3 * (IF n < 0 THEN -n ELSE n)) \div m
           IN  q \in Int /\ -(k + S) <= q * k - n /\ q * k - n <= k + S
<1> DEFINE lower(j) == (j * (m - 3)) \div (k * m)
           upper(j) == (j * (m + 3)) \div (k * m)
           R(j) == (3 * j) \div m
<1>1. ASSUME NEW j \in Nat PROVE lower(j) \in Int /\ upper(j) \in Int /\ R(j) \in Int
  <2>1. k * m \in Nat \ {0} /\ j * (m - 3) \in Int /\ j * (m + 3) \in Int /\ 3 * j \in Int
    BY Products
  <2> QED
    BY <2>1
<1>2. ASSUME NEW j \in Nat, NEW p \in Int, lower(j) <= p, p <= upper(j)
      PROVE  -(k + R(j)) <= p * k - j /\ p * k - j <= k + R(j)
  BY <1>1, <1>2, FloatingNatural
<1>3. CASE n >= 0
  <2>1. q \in lower(n) .. upper(n)
    BY <1>3 DEF Floating
  <2> HIDE DEF lower, upper, R
  <2>2. n \in Nat /\ q \in Int /\ lower(n) <= q /\ q <= upper(n)
    BY <1>1, <1>3, <2>1
  <2>3. -(k + R(n)) <= q * k - n /\ q * k - n <= k + R(n)
    BY <1>2, <2>2
  <2> QED
    BY <1>3, <2>2, <2>3 DEF R
<1>4. CASE n < 0
  <2>1. PICK p \in lower(-n) .. upper(-n) : q = -p
    BY <1>4 DEF Floating
  <2> HIDE DEF lower, upper
  <2>2. -n \in Nat /\ p \in Int /\ lower(-n) <= p /\ p <= upper(-n)
    BY <1>1, <1>4, <2>1
  <2>3. -(k + R(-n)) <= p * k - (-n) /\ p * k - (-n) <= k + R(-n)
    BY <1>2, <2>2
  <2>4. q * k = -(p * k) /\ p * k \in Int /\ R(-n) \in Int
    BY <1>1, <2>1, <2>2
  <2> HIDE DEF R
  <2>5. q \in Int /\ -(k + R(-n)) <= q * k - n /\ q * k - n <= k + R(-n)
    BY <2>1, <2>2, <2>3, <2>4
  <2> QED
    BY <1>4, <2>5 DEF R
<1> QED
  BY <1>3, <1>4

-----------------------------------------------------------------------------
(* Units and lengths. *)

LEMMA Constants ==
    /\ Limit \in Nat \ {0} /\ Cycles \in Nat \ {0} /\ Nanosecs \in Nat \ {0}
    /\ Unit = {"TICK", "NSEC", "USEC", "MSEC", "SEC"}
    /\ \A u \in Unit : u # "TICK" => nsec_factor[u] \in Nat \ {0}
    /\ nsec_factor["NSEC"] = 1
<1>1. Step * Step \in Nat \ {0} /\ Step * Step * Step \in Nat \ {0} /\ Step \in Nat \ {0}
  BY ConversionsAssumption, Products
<1>2. Unit = {"TICK", "NSEC", "USEC", "MSEC", "SEC"}
  BY DEF Unit, precision_class
<1> QED
  BY <1>1, <1>2, ConversionsAssumption DEF nsec_factor

LEMMA Factors ==
    ASSUME NEW u \in Unit, u # "TICK"
    PROVE  IF u = "NSEC" THEN nsec_factor[u] = 1 ELSE nsec_factor[u] >= 3
<1>1. Step * Step >= Step /\ Step * Step \in Nat
  BY ConversionsAssumption
<1>2. Step * Step * Step >= Step
  <2> DEFINE p == Step * Step
  <2>1. p \in Nat /\ p >= 1 /\ Step \in Nat
    BY <1>1, ConversionsAssumption
  <2> HIDE DEF p
  <2>2. p * Step >= 1 * Step
    BY <2>1
  <2> QED
    BY <2>1, <2>2 DEF p
<1> QED
  BY <1>1, <1>2, Constants, ConversionsAssumption DEF nsec_factor

LEMMA UnitLengths ==
    ASSUME NEW u \in Unit
    PROVE  UnitLength(u) \in Nat \ {0}
  BY Constants, Products DEF UnitLength

\* A length that fits is that of a count that does.
LEMMA FitsCount ==
    ASSUME NEW n \in Int, NEW u \in Unit, Fits(n * UnitLength(u))
    PROVE  -Limit < n /\ n < Limit
<1> DEFINE s == IF Nanosecs < Cycles THEN Nanosecs ELSE Cycles
           l == UnitLength(u)
<1>1. s \in Nat \ {0} /\ l \in Nat \ {0} /\ s <= l
  <2>1. u # "TICK" => Cycles <= Cycles * nsec_factor[u]
    <3>1. SUFFICES ASSUME u # "TICK" PROVE 1 * Cycles <= nsec_factor[u] * Cycles
      BY Constants, Products
    <3> QED
      BY <3>1, Constants, Monotone
  <2>2. l = IF u = "TICK" THEN Nanosecs ELSE Cycles * nsec_factor[u]
    BY DEF UnitLength
  <2> QED
    BY <2>1, <2>2, Constants, UnitLengths
<1>2. -(Limit * s) < n * l /\ n * l < Limit * s
  BY DEF Fits
<1> HIDE DEF s, l
<1>3. Limit * s <= Limit * l
  BY <1>1, Constants, Products, Monotone
<1>4. /\ Limit * l \in Int /\ n * l \in Int /\ Limit * s \in Int
      /\ (-Limit) * l = -(Limit * l)
  BY <1>1, Constants
<1>5. (-Limit) * l < n * l /\ n * l < Limit * l
  BY <1>2, <1>3, <1>4
<1> QED
  BY <1>1, <1>5, Constants, Monotone

\* What lies between two lengths that fit does.
LEMMA FitsBetween ==
    ASSUME NEW a \in Int, NEW b \in Int, NEW c \in Int, a <= c, c <= b, Fits(a), Fits(b)
    PROVE  Fits(c)
<1> DEFINE m == Limit * (IF Nanosecs < Cycles THEN Nanosecs ELSE Cycles)
<1>1. m \in Int
  BY Constants, Products
<1>2. \A x : Fits(x) <=> -m < x /\ x < m
  BY DEF Fits
<1> HIDE DEF m
<1> QED
  BY <1>1, <1>2

-----------------------------------------------------------------------------
(* Conversions. *)

Duration == [rep : Int, unit : Unit]

\* y is x in another unit, up to the loss and the surplus.
Converted(x, y) ==
    /\ y \in Duration
    /\ -Loss(x, y.unit) <= Length(y) - (Length(x) + Surplus(x, y.unit))
    /\ Length(y) - (Length(x) + Surplus(x, y.unit)) <= Loss(x, y.unit)

\* The product that a conversion without cycles makes fits its width.
ProductFits(x, to) ==
    \/ "TICK" \in {x.unit, to}
    \/ -Limit < nsec_factor[x.unit] * x.rep /\ nsec_factor[x.unit] * x.rep < Limit

\* By the length of the unit alone.
LEMMA ConvertedBy ==
    ASSUME NEW x \in Duration, NEW q \in Int, NEW to \in Unit,
           NEW l \in Int, l = Length(x) + Surplus(x, to), NEW u \in Int, u = UnitLength(to),
           NEW e \in Int, e = Loss(x, to),
           -e <= q * u - l, q * u - l <= e
    PROVE  Converted(x, Dur(q, to))
<1>1. Length(Dur(q, to)) = q * u /\ Dur(q, to) \in Duration /\ Dur(q, to).unit = to
  BY DEF Length, Dur, Duration
<1> QED
  BY <1>1 DEF Converted

LEMMA ToTicks ==
    ASSUME NEW x \in Duration, x.unit # "TICK", NEW y \in convert_to("TICK", x)
    PROVE  Converted(x, y)
<1> DEFINE n == Cycles * nsec_factor[x.unit] * x.rep
           m == ExtendedMantissa
           S == (3 * (IF n < 0 THEN -n ELSE n)) \div m
<1>1. x.rep \in Int /\ x.unit \in Unit /\ nsec_factor[x.unit] \in Nat \ {0}
  BY Constants DEF Duration
<1>2. Cycles * nsec_factor[x.unit] \in Nat \ {0}
  BY <1>1, Constants, Products
<1>3. n \in Int /\ n = Length(x)
  BY <1>1, <1>2, Products DEF Length, UnitLength
<1>4. Nanosecs \in Nat \ {0} /\ Nanosecs = UnitLength("TICK") /\ "TICK" \in Unit
      /\ m \in Nat /\ m >= 3
  BY Constants, ConversionsAssumption DEF UnitLength
<1>5. PICK q \in Floating(n, Nanosecs, m) : y = Dur(q, "TICK")
  BY DEF convert_to, counts
<1>6. Surplus(x, "TICK") = 0 /\ Loss(x, "TICK") = Nanosecs + S
  BY <1>3, <1>4 DEF Surplus, KeepsSign, Loss, Rounding
<1>7. S \in Int
  BY <1>3, <1>4
<1> HIDE DEF n
<1>8. q \in Int /\ -(Nanosecs + S) <= q * Nanosecs - n /\ q * Nanosecs - n <= Nanosecs + S
  BY <1>3, <1>4, <1>5, FloatingBounds
<1> HIDE DEF S
<1>9. Converted(x, Dur(q, "TICK"))
  <2> DEFINE e == Nanosecs + S
  <2>1. e \in Int /\ e = Loss(x, "TICK") /\ -e <= q * Nanosecs - n /\ q * Nanosecs - n <= e
    BY <1>4, <1>6, <1>7, <1>8
  <2>2. n = Length(x) + Surplus(x, "TICK")
    BY <1>3, <1>6
  <2> HIDE DEF e
  <2> QED
    BY <1>3, <1>4, <1>8, <2>1, <2>2, ConvertedBy
<1> QED
  BY <1>5, <1>9

LEMMA FromTicks ==
    ASSUME NEW x \in Duration, x.unit = "TICK", NEW to \in Unit, to # "TICK",
           NEW y \in convert_to(to, x)
    PROVE  Converted(x, y)
<1> DEFINE n == x.rep * Nanosecs
           u == nsec_factor[to] * Cycles
           m == Mantissa
           S == (3 * (IF n < 0 THEN -n ELSE n)) \div m
<1>1. x.rep \in Int /\ nsec_factor[to] \in Nat \ {0} /\ Nanosecs \in Nat \ {0}
      /\ m \in Nat /\ m >= 3
  BY Constants, ConversionsAssumption DEF Duration
<1>2. u \in Nat \ {0} /\ u = UnitLength(to)
  BY <1>1, Constants, Products DEF UnitLength
<1>3. n \in Int /\ n = Length(x)
  BY <1>1, Products DEF Length, UnitLength
<1>4. PICK q \in Floating(n, u, m) : y = Dur(q, to)
  BY DEF convert_to, counts
<1>5. Surplus(x, to) = 0 /\ Loss(x, to) = u + S
  BY <1>2, <1>3 DEF Surplus, KeepsSign, Loss, Rounding
<1>6. S \in Int
  BY <1>1, <1>3
<1> HIDE DEF n, u
<1>7. q \in Int /\ -(u + S) <= q * u - n /\ q * u - n <= u + S
  BY <1>1, <1>2, <1>3, <1>4, FloatingBounds
<1> HIDE DEF S
<1>8. Converted(x, Dur(q, to))
  <2> DEFINE e == u + S
  <2>1. e \in Int /\ e = Loss(x, to) /\ -e <= q * u - n /\ q * u - n <= e
    BY <1>2, <1>5, <1>6, <1>7
  <2>2. n = Length(x) + Surplus(x, to)
    BY <1>3, <1>5
  <2> HIDE DEF e
  <2> QED
    BY <1>2, <1>3, <1>7, <2>1, <2>2, ConvertedBy
<1> QED
  BY <1>4, <1>8

\* Between units of time the count is the quotient of the product, or of the
\* product plus 2 * Limit if that is negative and the divisor is not one.
LEMMA UnsignedQuotient ==
    ASSUME NEW n \in Int, -Limit < n, n < Limit, NEW g \in Nat \ {0}, g = 1 \/ g >= 3,
           NEW v \in Int, v = (IF n >= 0 \/ g = 1 THEN n ELSE n + 2 * Limit),
           NEW q, q = Signed(Unsigned(n) \div g)
    PROVE  /\ q \in Int /\ -Limit <= q /\ q < Limit
           /\ q * g <= v /\ v < q * g + g
           /\ v >= 0 => q >= 0
<1>1. Limit \in Nat \ {0} /\ -Limit <= n
  BY Constants
<1>2. CASE n < 0 /\ g = 1
  <2>1. Unsigned(n) \in Int
    BY <1>1, <1>2, UnsignedSmall
  <2>2. Unsigned(n) \div g = Unsigned(n)
    BY <1>2, <2>1
  <2>3. q = n
    BY <1>1, <2>2, SignedUnsigned
  <2> QED
    BY <1>1, <1>2, <2>3
<1>3. CASE n >= 0 \/ g >= 3
  <2> DEFINE r == v \div g
  <2>1. v \in Nat /\ Unsigned(n) = v /\ v < 2 * Limit
    BY <1>1, <1>3, UnsignedSmall
  <2>2. r \in Nat /\ r * g <= v /\ v < r * g + g
    BY <2>1
  <2>3. r < Limit
    <3>1. CASE n >= 0
      <4>1. v = n
        BY <3>1
      <4> HIDE DEF r
      <4>2. r * g \in Int /\ r <= r * g
        BY <2>2, Products
      <4> QED
        BY <1>1, <2>2, <4>1, <4>2
    <3>2. CASE g >= 3
      <4> HIDE DEF r
      <4>1. r * 2 <= r * g
        BY <2>2, <3>2
      <4>2. r * g \in Int
        BY <2>2, Products
      <4> QED
        BY <1>1, <2>1, <2>2, <4>1, <4>2
    <3> QED
      BY <1>3, <3>1, <3>2
  <2>4. q = Signed(r)
    BY <2>1
  <2> HIDE DEF r
  <2>5. q = r
    BY <1>1, <2>2, <2>3, <2>4, SignedSmall
  <2> QED
    BY <1>1, <2>2, <2>3, <2>5
<1> QED
  BY <1>2, <1>3

LEMMA BetweenUnits ==
    ASSUME NEW x \in Duration, x.unit # "TICK", NEW to \in Unit, to # "TICK", to # x.unit,
           ProductFits(x, to), NEW y \in convert_to(to, x)
    PROVE  /\ Converted(x, y)
           /\ ~KeepsSign(x, to) => /\ y.rep >= 0
                                   /\ y.rep * nsec_factor[to] < 2 * Limit
                                   /\ Limit < y.rep * nsec_factor[to] + nsec_factor[to]
                                   /\ nsec_factor[to] >= 3
<1> DEFINE n == nsec_factor[x.unit] * x.rep
           g == nsec_factor[to]
           u == Cycles * g
           q == Signed(Unsigned(n) \div g)
           v == IF n >= 0 \/ g = 1 THEN n ELSE n + 2 * Limit
<1>1. /\ x.rep \in Int /\ x.unit \in Unit /\ nsec_factor[x.unit] \in Nat \ {0}
      /\ g \in Nat \ {0} /\ Limit \in Nat \ {0} /\ Cycles \in Nat \ {0}
      /\ IF to = "NSEC" THEN g = 1 ELSE g >= 3
  BY Constants, Factors DEF Duration
<1>2. u \in Nat \ {0} /\ u = UnitLength(to)
  BY <1>1, Constants, Products DEF UnitLength
<1>3. n \in Int /\ n * Cycles = Length(x) /\ (x.rep >= 0 <=> n >= 0)
  <2>1. n \in Int /\ (x.rep >= 0 <=> n >= 0)
    <3>1. n \in Int /\ (x.rep >= 0 => n >= 0)
      BY <1>1, Products
    <3>2. x.rep < 0 => n < 0
      <4> DEFINE z == 0
      <4>1. z \in Int /\ z * nsec_factor[x.unit] = 0 /\ x.rep * nsec_factor[x.unit] = n
        BY <1>1, Products
      <4> HIDE DEF z
      <4>2. x.rep < z => x.rep * nsec_factor[x.unit] < z * nsec_factor[x.unit]
        BY <1>1, <4>1, Monotone
      <4> QED
        BY <4>1, <4>2 DEF z
    <3> QED
      BY <1>1, <3>1, <3>2
  <2>2. Length(x) = x.rep * (Cycles * nsec_factor[x.unit])
    BY DEF Length, UnitLength
  <2>3. n * Cycles = x.rep * (Cycles * nsec_factor[x.unit])
    BY <1>1, Constants
  <2> QED
    BY <2>1, <2>2, <2>3
<1>4. -Limit < n /\ n < Limit
  BY DEF ProductFits
<1>5. y = Dur(q, to)
  BY DEF convert_to, counts
<1>6. v \in Int /\ (KeepsSign(x, to) <=> n >= 0 \/ g = 1)
  BY <1>1, <1>3 DEF KeepsSign
<1> HIDE DEF n, g
<1>7. /\ q \in Int /\ q * g <= v /\ v < q * g + g
      /\ v >= 0 => q >= 0
  BY <1>1, <1>3, <1>4, <1>6, UnsignedQuotient
<1> HIDE DEF q
<1>8. q * u <= v * Cycles /\ v * Cycles < q * u + u
  <2> HIDE DEF v
  <2>1. /\ (q * g) * Cycles <= v * Cycles
        /\ v * Cycles < (q * g + g) * Cycles
    BY <1>1, <1>6, <1>7, Products, Monotone
  <2>2. (q * g) * Cycles = q * u /\ (q * g + g) * Cycles = q * u + u
    BY <1>1, <1>7
  <2> QED
    BY <2>1, <2>2
<1>9. v * Cycles = Length(x) + Surplus(x, to) /\ v * Cycles \in Int
  <2>1. CASE KeepsSign(x, to)
    BY <1>1, <1>3, <1>6, <2>1, Products DEF Surplus
  <2>2. CASE ~KeepsSign(x, to)
    <3>1. v = n + 2 * Limit /\ Surplus(x, to) = 2 * Limit * Cycles
      BY <1>6, <2>2 DEF Surplus
    <3>2. (n + 2 * Limit) * Cycles = n * Cycles + 2 * Limit * Cycles
          /\ (n + 2 * Limit) * Cycles \in Int
      BY <1>1, <1>3
    <3> QED
      BY <1>3, <3>1, <3>2
  <2> QED
    BY <2>1, <2>2
<1>10. Loss(x, to) = u
  BY <1>2 DEF Loss
<1>11. q * u \in Int
  BY <1>2, <1>7, Products
<1>12. Converted(x, Dur(q, to))
  <2> DEFINE l == v * Cycles
  <2>1. l \in Int /\ l = Length(x) + Surplus(x, to) /\ -u <= q * u - l /\ q * u - l <= u
    BY <1>2, <1>8, <1>9, <1>11
  <2> HIDE DEF l, u
  <2> QED
    BY <1>2, <1>7, <1>10, <2>1, ConvertedBy
<1>13. ASSUME ~KeepsSign(x, to)
       PROVE  q >= 0 /\ q * g < 2 * Limit /\ Limit < q * g + g /\ g >= 3
  <2>1. n < 0 /\ g # 1 /\ v = n + 2 * Limit
    BY <1>3, <1>6, <1>13
  <2>2. q * g \in Int
    BY <1>1, <1>7, Products
  <2> QED
    BY <1>1, <1>3, <1>4, <1>7, <2>1, <2>2
<1> QED
  BY <1>5, <1>12, <1>13 DEF Dur, g

LEMMA Conversion ==
    ASSUME NEW x \in Duration, NEW to \in Unit, ProductFits(x, to),
           NEW y \in convert_to(to, x)
    PROVE  y.unit = to /\ Converted(x, y)
<1>1. CASE x.unit = to
  <2>1. y = x /\ Loss(x, x.unit) = 0 /\ Surplus(x, x.unit) = 0
    BY <1>1 DEF convert_to, Loss, Surplus, KeepsSign
  <2>2. Length(x) \in Int
    BY UnitLengths, Products DEF Length, Duration
  <2> QED
    BY <1>1, <2>1, <2>2 DEF Converted
<1>2. CASE x.unit # to
  <2>1. y.unit = to
    BY <1>2 DEF convert_to, Dur
  <2>2. CASE to = "TICK"
    BY <1>2, <2>1, <2>2, ToTicks
  <2>3. CASE x.unit = "TICK"
    BY <1>2, <2>1, <2>3, FromTicks
  <2>4. CASE x.unit # "TICK" /\ to # "TICK"
    BY <1>2, <2>1, <2>4, BetweenUnits
  <2> QED
    BY <2>2, <2>3, <2>4
<1> QED
  BY <1>1, <1>2

\* A duration with a length that fits can be converted to any unit.
LEMMA FitsProduct ==
    ASSUME NEW x \in Duration, Fits(Length(x)), NEW to \in Unit
    PROVE  ProductFits(x, to)
<1> SUFFICES ASSUME x.unit # "TICK" PROVE ProductFits(x, to)
  BY DEF ProductFits
<1> DEFINE n == nsec_factor[x.unit] * x.rep
<1>1. x.rep \in Int /\ x.unit \in Unit /\ nsec_factor[x.unit] \in Nat \ {0}
  BY Constants DEF Duration
<1>2. n \in Int
  BY <1>1, Products
<1>3. n * Cycles = Length(x)
  BY <1>1, Constants DEF Length, UnitLength
<1>4. "NSEC" \in Unit /\ UnitLength("NSEC") = Cycles
  BY Constants DEF UnitLength
<1>5. -Limit < n /\ n < Limit
  <2> HIDE DEF n
  <2> QED
    BY <1>2, <1>3, <1>4, FitsCount
<1> QED
  BY <1>5 DEF ProductFits

-----------------------------------------------------------------------------
(* Operations. *)

LEMMA Lengths ==
    ASSUME NEW x \in Duration
    PROVE  /\ Length(x) = x.rep * UnitLength(x.unit) /\ Length(x) \in Int
           /\ x.rep \in Int /\ x.unit \in Unit
  BY UnitLengths, Products DEF Length, Duration

LEMMA Losses ==
    ASSUME NEW x \in Duration, NEW to \in Unit
    PROVE  Loss(x, to) \in Nat
<1> DEFINE l == IF Length(x) < 0 THEN -Length(x) ELSE Length(x)
<1>1. l \in Nat
  BY Lengths
<1> HIDE DEF l
<1>2. \A m \in Nat \ {0} : (3 * l) \div m \in Nat
  BY <1>1
<1>3. Rounding(x, Mantissa) \in Nat /\ Rounding(x, ExtendedMantissa) \in Nat
  BY <1>2, ConversionsAssumption DEF Rounding, l
<1> QED
  BY <1>3, UnitLengths DEF Loss

LEMMA CommonUnit ==
    ASSUME NEW u \in Unit, NEW v \in Unit
    PROVE  /\ common_unit(u, v) \in {u, v}
           /\ common_unit(v, u) = common_unit(u, v)
  BY Constants DEF common_unit, precision_class

\* Operands can be converted to any unit.
LEMMA OperandFacts ==
    ASSUME NEW y \in Operands
    PROVE  /\ y \in Duration /\ y.rep >= 0 /\ Fits(Length(y))
           /\ \A u \in Unit : Surplus(y, u) = 0
  BY OperandsAssumption DEF Surplus, KeepsSign, Duration

\* A count is not changed by its width if its length is close enough to one
\* that fits.
LEMMA CountFits ==
    ASSUME NEW n \in Int, NEW u \in Unit, NEW length \in Int, NEW e \in Nat,
           Fits(length - e), Fits(length + e),
           length - e <= n * UnitLength(u), n * UnitLength(u) <= length + e
    PROVE  Signed(n) = n /\ Fits(n * UnitLength(u))
<1>1. n * UnitLength(u) \in Int
  BY UnitLengths, Products
<1>2. Fits(n * UnitLength(u))
  BY <1>1, FitsBetween
<1>3. -Limit < n /\ n < Limit
  BY <1>2, FitsCount
<1>4. -Limit <= n
  BY <1>3, Constants
<1>5. Signed(n) = n
  BY <1>3, <1>4, SignedSmall
<1> QED
  BY <1>2, <1>5

LEMMA DurFacts ==
    ASSUME NEW n \in Int, NEW u \in Unit
    PROVE  /\ Dur(n, u) \in Duration /\ Dur(n, u).rep = n /\ Dur(n, u).unit = u
           /\ Length(Dur(n, u)) = n * UnitLength(u) /\ n * UnitLength(u) \in Int
  BY UnitLengths, Products DEF Dur, Duration, Length

LEMMA SurplusType ==
    ASSUME NEW x, NEW to
    PROVE  /\ Surplus(x, to) \in {0, 2 * Limit * Cycles}
           /\ Surplus(x, to) \in Nat
           /\ KeepsSign(x, to) <=> Surplus(x, to) = 0
<1>1. 2 * Limit * Cycles \in Nat \ {0}
  BY Constants, Products
<1> QED
  BY <1>1 DEF Surplus

\* The invariant of a state with duration r.
LEMMA BecomesInv ==
    ASSUME IInv, NEW results, NEW length \in Int, NEW loss \in Nat,
           NEW more \in {0, 2 * Limit * Cycles}, more \in Nat,
           Becomes(results, length, loss, more),
           \A r \in results : /\ r \in Duration
                              /\ more = 0 => Fits(Length(r))
                              /\ length + more - error - loss <= Length(r)
                              /\ Length(r) <= length + more + error + loss
    PROVE  IInv'
<1>1. PICK r \in results : d' = r
  BY DEF Becomes
<1>2. /\ r \in Duration /\ (more = 0 => Fits(Length(r))) /\ Length(r) \in Int
      /\ length + more - error - loss <= Length(r)
      /\ Length(r) <= length + more + error + loss
  BY <1>1, Lengths
<1>3. error \in Nat
  BY DEF IInv
<1>4. exact' = length /\ error' = error + loss /\ surplus' = more
  BY DEF Becomes
<1>5. Length(d)' = Length(r)
  BY <1>1 DEF Length, UnitLength
<1>6. Accurate'
  BY <1>2, <1>3, <1>4, <1>5 DEF Accurate
<1>7. (surplus = 0 => Fits(Length(d)))'
  BY <1>2, <1>4, <1>5 DEF Fits
<1> QED
  BY <1>1, <1>2, <1>3, <1>4, <1>6, <1>7 DEF IInv, Duration

\* One count of the unit, without a surplus.
LEMMA CountBecomes ==
    ASSUME IInv, NEW length \in Int, NEW loss \in Nat,
           Fits(length - error - loss), Fits(length + error + loss),
           NEW u \in Unit, NEW n \in Int,
           length - error - loss <= n * UnitLength(u),
           n * UnitLength(u) <= length + error + loss
    PROVE  /\ Dur(Signed(n), u) = Dur(n, u) /\ Dur(n, u) \in Duration
           /\ Fits(Length(Dur(n, u)))
           /\ length - error - loss <= Length(Dur(n, u))
           /\ Length(Dur(n, u)) <= length + error + loss
<1> DEFINE e == error + loss
<1>1. error \in Nat /\ e \in Nat /\ length - e = length - error - loss
      /\ length + e = length + error + loss
  BY DEF IInv
<1>2. Fits(length - e) /\ Fits(length + e)
  BY <1>1
<1> HIDE DEF e
<1>3. Signed(n) = n /\ Fits(n * UnitLength(u))
  BY <1>1, <1>2, CountFits
<1> QED
  BY <1>3, DurFacts

LEMMA DFacts ==
    ASSUME IInv
    PROVE  /\ d \in Duration /\ exact \in Int /\ error \in Nat
           /\ surplus = 0 => /\ Length(d) - exact <= error /\ exact - Length(d) <= error
                             /\ Fits(Length(d))
  BY Lengths DEF IInv, Accurate, Duration

\* The same without a surplus.
LEMMA PlainBecomes ==
    ASSUME IInv, NEW results, NEW length \in Int, NEW loss \in Nat,
           Becomes(results, length, loss, 0),
           \A r \in results : /\ r \in Duration /\ Fits(Length(r))
                              /\ length - error - loss <= Length(r)
                              /\ Length(r) <= length + error + loss
    PROVE  IInv'
<1> DEFINE more == 0
<1>1. more \in {0, 2 * Limit * Cycles} /\ more \in Nat /\ Becomes(results, length, loss, more)
  OBVIOUS
<1>2. length + more - error - loss = length - error - loss
      /\ length + more + error + loss = length + error + loss
  BY DFacts
<1> HIDE DEF more
<1>3. \A r \in results : /\ r \in Duration
                         /\ more = 0 => Fits(Length(r))
                         /\ length + more - error - loss <= Length(r)
                         /\ Length(r) <= length + more + error + loss
  BY <1>2
<1> QED
  BY <1>1, <1>3, BecomesInv

\* What is known of an operand that was converted.
LEMMA OperandConversion ==
    ASSUME NEW y \in Operands, NEW u \in Unit, NEW c \in convert_to(u, y)
    PROVE  /\ c \in Duration /\ c.rep \in Int /\ c.unit = u
           /\ Length(c) = c.rep * UnitLength(u) /\ Length(c) \in Int /\ Length(y) \in Int
           /\ Loss(y, u) \in Nat
           /\ -Loss(y, u) <= Length(c) - Length(y) /\ Length(c) - Length(y) <= Loss(y, u)
<1>1. y \in Duration /\ Fits(Length(y)) /\ Surplus(y, u) = 0
  BY OperandFacts
<1>2. ProductFits(y, u)
  BY <1>1, FitsProduct
<1>3. c.unit = u /\ Converted(y, c)
  BY <1>1, <1>2, Conversion
<1>4. c \in Duration
  BY <1>3 DEF Converted
<1>5. Loss(y, u) \in Nat /\ Length(y) \in Int
  BY <1>1, Losses, Lengths
<1> QED
  BY <1>1, <1>3, <1>4, <1>5, Lengths DEF Converted

\* Adding or subtracting a converted operand.
LEMMA AssignStep ==
    ASSUME IInv, NEW y \in Operands, ApplyPlusAssign(y) \/ ApplyMinusAssign(y)
    PROVE  IInv'
<1> DEFINE u == d.unit
           U == UnitLength(u)
           loss == Loss(y, u)
<1>1. /\ d \in Duration /\ u \in Unit /\ d.rep \in Int /\ surplus = 0
      /\ Length(d) = d.rep * U /\ Length(d) \in Int /\ U \in Nat \ {0}
      /\ exact \in Int /\ error \in Nat
      /\ Length(d) - exact <= error /\ exact - Length(d) <= error
  BY DFacts, Lengths, UnitLengths DEF ApplyPlusAssign, ApplyMinusAssign, Becomes
<1>2. loss \in Nat /\ Length(y) \in Int
  BY <1>1, OperandFacts, Losses, Lengths
<1>3. ASSUME NEW c \in convert_to(u, y)
      PROVE  /\ c.rep \in Int
             /\ (d.rep + c.rep) * U = Length(d) + Length(c)
             /\ (d.rep - c.rep) * U = Length(d) - Length(c)
             /\ Length(c) \in Int
             /\ -loss <= Length(c) - Length(y) /\ Length(c) - Length(y) <= loss
  <2>1. /\ c.rep \in Int /\ Length(c) = c.rep * U /\ Length(c) \in Int
        /\ -loss <= Length(c) - Length(y) /\ Length(c) - Length(y) <= loss
    BY <1>1, OperandConversion
  <2> HIDE DEF u, U, loss
  <2> QED
    BY <1>1, <2>1, Products
<1>4. CASE ApplyPlusAssign(y)
  <2> DEFINE length == exact + Length(y)
  <2>1. Becomes(PlusAssign(d, y), length, loss, 0) /\ length \in Int
    BY <1>1, <1>2, <1>4 DEF ApplyPlusAssign
  <2>2. Fits(length - error - loss) /\ Fits(length + error + loss)
    BY <2>1 DEF Becomes
  <2>3. ASSUME NEW r \in PlusAssign(d, y)
        PROVE  /\ r \in Duration /\ Fits(Length(r))
               /\ length - error - loss <= Length(r) /\ Length(r) <= length + error + loss
    <3>1. PICK c \in convert_to(u, y) : r = Dur(Signed(d.rep + c.rep), u)
      BY <2>3 DEF PlusAssign
    <3> DEFINE n == d.rep + c.rep
    <3>2. n \in Int /\ length - error - loss <= n * U /\ n * U <= length + error + loss
      BY <1>1, <1>2, <1>3
    <3> HIDE DEF n, length, loss
    <3>3. r = Dur(Signed(n), u)
      BY <3>1 DEF n
    <3> QED
      BY <1>1, <1>2, <2>1, <2>2, <3>2, <3>3, CountBecomes
  <2> HIDE DEF length, loss
  <2> QED
    BY <1>2, <2>1, <2>3, PlainBecomes
<1>5. CASE ApplyMinusAssign(y)
  <2> DEFINE length == exact - Length(y)
  <2>1. Becomes(MinusAssign(d, y), length, loss, 0) /\ length \in Int
    BY <1>1, <1>2, <1>5 DEF ApplyMinusAssign
  <2>2. Fits(length - error - loss) /\ Fits(length + error + loss)
    BY <2>1 DEF Becomes
  <2>3. ASSUME NEW r \in MinusAssign(d, y)
        PROVE  /\ r \in Duration /\ Fits(Length(r))
               /\ length - error - loss <= Length(r) /\ Length(r) <= length + error + loss
    <3>1. PICK c \in convert_to(u, y) : r = Dur(Signed(d.rep - c.rep), u)
      BY <2>3 DEF MinusAssign
    <3> DEFINE n == d.rep - c.rep
    <3>2. n \in Int /\ length - error - loss <= n * U /\ n * U <= length + error + loss
      BY <1>1, <1>2, <1>3
    <3> HIDE DEF n, length, loss
    <3>3. r = Dur(Signed(n), u)
      BY <3>1 DEF n
    <3> QED
      BY <1>1, <1>2, <2>1, <2>2, <3>2, <3>3, CountBecomes
  <2> HIDE DEF length, loss
  <2> QED
    BY <1>2, <2>1, <2>3, PlainBecomes
<1> QED
  BY <1>4, <1>5

\* The operand x of a binary operator, in the common unit.
LEMMA InFacts ==
    ASSUME NEW x \in Duration, NEW y \in Duration, Fits(Length(x)),
           NEW u, u = common_unit(x.unit, y.unit), NEW a \in In(x, y)
    PROVE  /\ a \in Int /\ u \in Unit
           /\ -Loss(x, u) <= a * UnitLength(u) - (Length(x) + Surplus(x, u))
           /\ a * UnitLength(u) - (Length(x) + Surplus(x, u)) <= Loss(x, u)
           /\ ~KeepsSign(x, u) => /\ u = y.unit /\ u # "TICK"
                                  /\ a >= 0
                                  /\ a * nsec_factor[u] < 2 * Limit
                                  /\ Limit < a * nsec_factor[u] + nsec_factor[u]
                                  /\ nsec_factor[u] >= 3
<1>1. u \in Unit /\ u \in {x.unit, y.unit}
  BY CommonUnit DEF Duration
<1>2. PICK c \in convert_to(u, x) : a = c.rep
  BY DEF In
<1>3. ProductFits(x, u)
  BY <1>1, FitsProduct
<1>4. c.unit = u /\ Converted(x, c)
  BY <1>1, <1>3, Conversion
<1>5. a \in Int /\ Length(c) = a * UnitLength(u)
  BY <1>2, <1>4, Lengths DEF Converted
<1>6. ASSUME ~KeepsSign(x, u)
      PROVE  /\ u = y.unit /\ u # "TICK"
             /\ a >= 0
             /\ a * nsec_factor[u] < 2 * Limit
             /\ Limit < a * nsec_factor[u] + nsec_factor[u]
             /\ nsec_factor[u] >= 3
  <2>1. x.unit # "TICK" /\ u # "TICK" /\ u # x.unit
    BY <1>6 DEF KeepsSign
  <2> QED
    BY <1>1, <1>2, <1>3, <1>6, <2>1, BetweenUnits
<1> QED
  BY <1>1, <1>4, <1>5, <1>6 DEF Converted

\* The operand that has the common unit is not converted.
LEMMA InSame ==
    ASSUME NEW x \in Duration, NEW y \in Duration, Fits(Length(x)), x.rep >= 0,
           x.unit = common_unit(x.unit, y.unit), x.unit # "TICK", NEW a \in In(x, y)
    PROVE  a = x.rep /\ a \in Nat /\ a * nsec_factor[x.unit] < Limit
<1>1. a = x.rep
  BY DEF In, convert_to
<1>2. /\ x.rep \in Nat /\ nsec_factor[x.unit] \in Nat \ {0}
      /\ "NSEC" \in Unit
  BY Lengths, Constants
<1>3. ProductFits(x, "NSEC")
  BY <1>2, FitsProduct
<1>4. nsec_factor[x.unit] * x.rep < Limit
  BY <1>3 DEF ProductFits
<1> QED
  BY <1>1, <1>2, <1>4, Products

\* A sum or a difference with an operand that lost its sign fits its width.
LEMMA SignLostFits ==
    ASSUME NEW a \in Nat, NEW b \in Nat, NEW g \in Nat, g >= 3,
           a * g < 2 * Limit, b * g < Limit
    PROVE  Signed(a + b) = a + b /\ Signed(a - b) = a - b
<1>1. a * 3 <= a * g /\ b * 3 <= b * g /\ a * g \in Int /\ b * g \in Int
  OBVIOUS
<1>2. a * 3 < 2 * Limit /\ b * 3 < Limit
  BY <1>1, Constants
<1>3. a + b < Limit /\ a - b < Limit /\ -Limit <= a + b /\ -Limit <= a - b
      /\ a + b \in Int /\ a - b \in Int
  BY <1>2, Constants
<1> QED
  BY <1>3, SignedSmall

\* What the binary operators compute with.
LEMMA BinaryFacts ==
    ASSUME IInv, surplus = 0, NEW y \in Operands, NEW a \in In(d, y), NEW b \in In(y, d),
           NEW u, u = common_unit(d.unit, y.unit),
           NEW U, U = UnitLength(u), NEW loss, loss = LossBinary(d, y),
           NEW more, more = Surplus(d, u)
    PROVE  /\ a \in Int /\ b \in Int
           /\ -loss <= (a + b) * U - (Length(d) + more + Length(y))
           /\ (a + b) * U - (Length(d) + more + Length(y)) <= loss
           /\ -loss <= (a - b) * U - (Length(d) + more - Length(y))
           /\ (a - b) * U - (Length(d) + more - Length(y)) <= loss
           /\ more # 0 => Signed(a + b) = a + b /\ Signed(a - b) = a - b
<1>1. /\ d \in Duration /\ Fits(Length(d)) /\ Length(d) \in Int /\ d.unit \in Unit
      /\ y \in Duration /\ Fits(Length(y)) /\ Length(y) \in Int /\ y.unit \in Unit /\ y.rep >= 0
  BY DFacts, OperandFacts, Lengths
<1>2. u \in Unit /\ U \in Nat \ {0} /\ u = common_unit(y.unit, d.unit)
  BY <1>1, CommonUnit, UnitLengths
<1>3. Loss(d, u) \in Nat /\ Loss(y, u) \in Nat /\ loss = Loss(d, u) + Loss(y, u)
      /\ more \in Nat
  BY <1>1, <1>2, Losses, SurplusType DEF LossBinary
<1>4. /\ a \in Int
      /\ -Loss(d, u) <= a * U - (Length(d) + more)
      /\ a * U - (Length(d) + more) <= Loss(d, u)
  BY <1>1, InFacts
<1>5. Surplus(y, u) = 0
  BY <1>2, OperandFacts
<1>6. /\ b \in Int
      /\ -Loss(y, u) <= b * U - (Length(y) + 0)
      /\ b * U - (Length(y) + 0) <= Loss(y, u)
  BY <1>1, <1>2, <1>5, InFacts
<1>7. /\ (a + b) * U = a * U + b * U /\ (a - b) * U = a * U - b * U
      /\ a * U \in Int /\ b * U \in Int
  BY <1>2, <1>4, <1>6, Products
<1>8. ASSUME more # 0
      PROVE  Signed(a + b) = a + b /\ Signed(a - b) = a - b
  <2>1. ~KeepsSign(d, u)
    BY <1>8, SurplusType
  <2>2. /\ u = y.unit /\ u # "TICK"
        /\ a >= 0 /\ a * nsec_factor[u] < 2 * Limit
        /\ nsec_factor[u] >= 3
    BY <1>1, <2>1, InFacts
  <2>3. b \in Nat /\ b * nsec_factor[u] < Limit
    BY <1>1, <1>2, <2>2, InSame
  <2>4. a \in Nat /\ nsec_factor[u] \in Nat
    BY <1>2, <1>4, <2>2, Constants
  <2> QED
    BY <2>2, <2>3, <2>4, SignLostFits
<1>9. /\ -loss <= (a * U + b * U) - (Length(d) + more + Length(y))
      /\ (a * U + b * U) - (Length(d) + more + Length(y)) <= loss
      /\ -loss <= (a * U - b * U) - (Length(d) + more - Length(y))
      /\ (a * U - b * U) - (Length(d) + more - Length(y)) <= loss
  <2> DEFINE p == a * U
             q == b * U
             e == Loss(d, u)
             f == Loss(y, u)
  <2>1. p \in Int /\ q \in Int /\ e \in Nat /\ f \in Nat /\ loss = e + f
        /\ -e <= p - (Length(d) + more) /\ p - (Length(d) + more) <= e
        /\ -f <= q - (Length(y) + 0) /\ q - (Length(y) + 0) <= f
    BY <1>3, <1>4, <1>6, <1>7
  <2> HIDE DEF p, q, e, f
  <2>2. /\ -loss <= (p + q) - (Length(d) + more + Length(y))
        /\ (p + q) - (Length(d) + more + Length(y)) <= loss
        /\ -loss <= (p - q) - (Length(d) + more - Length(y))
        /\ (p - q) - (Length(d) + more - Length(y)) <= loss
    BY <1>1, <1>3, <2>1
  <2> QED
    BY <2>2 DEF p, q
<1> QED
  BY <1>4, <1>6, <1>7, <1>8, <1>9

\* One result of a binary operator: a count n of the common unit.
LEMMA BinaryResult ==
    ASSUME IInv, NEW length \in Int, NEW loss \in Nat, NEW more \in Nat,
           Fits(length - error - loss), Fits(length + error + loss),
           NEW u \in Unit, NEW n \in Int,
           length + more - error - loss <= n * UnitLength(u),
           n * UnitLength(u) <= length + more + error + loss,
           more # 0 => Signed(n) = n
    PROVE  /\ Dur(Signed(n), u) \in Duration
           /\ more = 0 => Fits(Length(Dur(Signed(n), u)))
           /\ length + more - error - loss <= Length(Dur(Signed(n), u))
           /\ Length(Dur(Signed(n), u)) <= length + more + error + loss
<1>1. CASE more = 0
  <2>1. /\ length + more - error - loss = length - error - loss
        /\ length + more + error + loss = length + error + loss
    BY <1>1, DFacts
  <2>2. length - error - loss <= n * UnitLength(u) /\ n * UnitLength(u) <= length + error + loss
    BY <2>1
  <2>3. /\ Dur(Signed(n), u) = Dur(n, u) /\ Dur(n, u) \in Duration
        /\ Fits(Length(Dur(n, u)))
        /\ length - error - loss <= Length(Dur(n, u))
        /\ Length(Dur(n, u)) <= length + error + loss
    BY <2>2, CountBecomes
  <2> QED
    BY <2>1, <2>3
<1>2. CASE more # 0
  BY <1>2, DurFacts
<1> QED
  BY <1>1, <1>2

LEMMA BinaryStep ==
    ASSUME IInv, NEW y \in Operands, ApplyAdd(y) \/ ApplySubtract(y)
    PROVE  IInv'
<1> DEFINE u == common_unit(d.unit, y.unit)
           U == UnitLength(u)
           loss == LossBinary(d, y)
           more == Surplus(d, u)
<1>1. /\ d \in Duration /\ d.unit \in Unit /\ surplus = 0 /\ Length(d) \in Int
      /\ exact \in Int /\ error \in Nat
      /\ Length(d) - exact <= error /\ exact - Length(d) <= error
      /\ y \in Duration /\ y.unit \in Unit /\ Length(y) \in Int
  BY DFacts, OperandFacts, Lengths DEF ApplyAdd, ApplySubtract, Becomes
<1>2. /\ u \in Unit /\ U \in Nat \ {0}
      /\ more \in {0, 2 * Limit * Cycles} /\ more \in Nat
  BY <1>1, CommonUnit, UnitLengths, SurplusType
<1>3. loss \in Nat
  BY <1>1, <1>2, Losses DEF LossBinary
<1>4. ASSUME NEW a \in In(d, y), NEW b \in In(y, d)
      PROVE  /\ a \in Int /\ b \in Int
             /\ -loss <= (a + b) * U - (Length(d) + more + Length(y))
             /\ (a + b) * U - (Length(d) + more + Length(y)) <= loss
             /\ -loss <= (a - b) * U - (Length(d) + more - Length(y))
             /\ (a - b) * U - (Length(d) + more - Length(y)) <= loss
             /\ more # 0 => Signed(a + b) = a + b /\ Signed(a - b) = a - b
  <2> HIDE DEF u, U, loss, more
  <2> QED
    BY <1>1, BinaryFacts DEF u, U, loss, more
<1>5. CASE ApplyAdd(y)
  <2> DEFINE length == exact + Length(y)
  <2>1. /\ Becomes(Add(d, y), length, loss, more) /\ length \in Int
        /\ Fits(length - error - loss) /\ Fits(length + error + loss)
    BY <1>1, <1>5 DEF ApplyAdd, Becomes
  <2>2. ASSUME NEW r \in Add(d, y)
        PROVE  /\ r \in Duration
               /\ more = 0 => Fits(Length(r))
               /\ length + more - error - loss <= Length(r)
               /\ Length(r) <= length + more + error + loss
    <3>1. PICK a \in In(d, y), b \in In(y, d) : r = Dur(Signed(a + b), u)
      BY DEF Add
    <3> DEFINE n == a + b
    <3>2. /\ n \in Int /\ n * U \in Int
          /\ -loss <= n * U - (Length(d) + more + Length(y))
          /\ n * U - (Length(d) + more + Length(y)) <= loss
          /\ more # 0 => Signed(n) = n
      BY <1>2, <1>4, Products
    <3> HIDE DEF n, loss, more, U
    <3>3. length + more - error - loss <= n * U /\ n * U <= length + more + error + loss
      BY <1>1, <1>2, <1>3, <3>2
    <3>4. r = Dur(Signed(n), u)
      BY <3>1 DEF n
    <3> HIDE DEF length, u
    <3>5. U = UnitLength(u)
      BY DEF U
    <3> QED
      BY <1>2, <1>3, <2>1, <3>2, <3>3, <3>4, <3>5, BinaryResult
  <2> HIDE DEF length, loss, more
  <2> QED
    BY <1>2, <1>3, <2>1, <2>2, BecomesInv
<1>6. CASE ApplySubtract(y)
  <2> DEFINE length == exact - Length(y)
  <2>1. /\ Becomes(Subtract(d, y), length, loss, more) /\ length \in Int
        /\ Fits(length - error - loss) /\ Fits(length + error + loss)
    BY <1>1, <1>6 DEF ApplySubtract, Becomes
  <2>2. ASSUME NEW r \in Subtract(d, y)
        PROVE  /\ r \in Duration
               /\ more = 0 => Fits(Length(r))
               /\ length + more - error - loss <= Length(r)
               /\ Length(r) <= length + more + error + loss
    <3>1. PICK a \in In(d, y), b \in In(y, d) : r = Dur(Signed(a - b), u)
      BY DEF Subtract
    <3> DEFINE n == a - b
    <3>2. /\ n \in Int /\ n * U \in Int
          /\ -loss <= n * U - (Length(d) + more - Length(y))
          /\ n * U - (Length(d) + more - Length(y)) <= loss
          /\ more # 0 => Signed(n) = n
      BY <1>2, <1>4, Products
    <3> HIDE DEF n, loss, more, U
    <3>3. length + more - error - loss <= n * U /\ n * U <= length + more + error + loss
      BY <1>1, <1>2, <1>3, <3>2
    <3>4. r = Dur(Signed(n), u)
      BY <3>1 DEF n
    <3> HIDE DEF length, u
    <3>5. U = UnitLength(u)
      BY DEF U
    <3> QED
      BY <1>2, <1>3, <2>1, <3>2, <3>3, <3>4, <3>5, BinaryResult
  <2> HIDE DEF length, loss, more
  <2> QED
    BY <1>2, <1>3, <2>1, <2>2, BecomesInv
<1> QED
  BY <1>5, <1>6

LEMMA NegateStep ==
    ASSUME IInv, ApplyNegate
    PROVE  IInv'
<1> DEFINE n == -d.rep
           u == d.unit
           length == -exact
           loss == 0
<1>1. /\ d \in Duration /\ d.rep \in Int /\ u \in Unit /\ Length(d) \in Int
      /\ Length(d) = d.rep * UnitLength(u) /\ UnitLength(u) \in Nat
      /\ exact \in Int /\ error \in Nat
      /\ Length(d) - exact <= error /\ exact - Length(d) <= error
  BY DFacts, Lengths, UnitLengths DEF ApplyNegate, Becomes
<1>2. n \in Int /\ length \in Int /\ n * UnitLength(u) = -Length(d) /\ loss \in Nat
  BY <1>1
<1>3. /\ Becomes({Dur(Signed(n), u)}, length, loss, 0)
      /\ Fits(length - error - loss) /\ Fits(length + error + loss)
  BY DEF ApplyNegate, Negated, Becomes
<1>4. length - error - loss <= -Length(d) /\ -Length(d) <= length + error + loss
  BY <1>1
<1> HIDE DEF n, length, u, loss
<1>5. length - error - loss <= n * UnitLength(u) /\ n * UnitLength(u) <= length + error + loss
  BY <1>2, <1>4
<1>6. /\ Dur(Signed(n), u) \in Duration /\ Fits(Length(Dur(Signed(n), u)))
      /\ length - error - loss <= Length(Dur(Signed(n), u))
      /\ Length(Dur(Signed(n), u)) <= length + error + loss
  <2>1. /\ Dur(Signed(n), u) = Dur(n, u) /\ Dur(n, u) \in Duration
        /\ Fits(Length(Dur(n, u)))
        /\ length - error - loss <= Length(Dur(n, u))
        /\ Length(Dur(n, u)) <= length + error + loss
    BY <1>1, <1>2, <1>3, <1>5, CountBecomes
  <2> QED
    BY <2>1
<1> QED
  BY <1>2, <1>3, <1>6, PlainBecomes

LEMMA HalveStep ==
    ASSUME IInv, ApplyHalve
    PROVE  IInv'
<1> DEFINE u == d.unit
           U == UnitLength(u)
           q == Quotient(d.rep, 2)
           length == exact \div 2
           loss == U + 1
<1>1. /\ d \in Duration /\ d.rep \in Int /\ u \in Unit /\ Length(d) \in Int
      /\ Length(d) = d.rep * U /\ U \in Nat \ {0} /\ loss \in Nat
      /\ exact \in Int /\ error \in Nat
      /\ Length(d) - exact <= error /\ exact - Length(d) <= error
  BY DFacts, Lengths, UnitLengths DEF ApplyHalve, Becomes
<1>2. q \in Int /\ d.rep - 1 <= q * 2 /\ q * 2 <= d.rep + 1
  <2> DEFINE two == 2
             rep == d.rep
  <2>1. two \in Nat \ {0} /\ rep \in Int
    BY <1>1
  <2> HIDE DEF two, rep, q
  <2>2. /\ Quotient(rep, two) \in Int /\ -two < Quotient(rep, two) * two - rep
        /\ Quotient(rep, two) * two - rep < two
    BY <2>1, QuotientBounds
  <2>3. q = Quotient(rep, two)
    BY DEF q, two, rep
  <2> QED
    BY <2>1, <2>2, <2>3 DEF two, rep
<1>3. length \in Int /\ 2 * length <= exact /\ exact <= 2 * length + 1
  BY <1>1
<1>4. /\ Dur(q, u) \in Duration /\ Length(Dur(q, u)) = q * U
      /\ Becomes({Dur(q, u)}, length, loss, 0)
      /\ Fits(length - error - loss) /\ Fits(length + error + loss)
  BY <1>1, <1>2, DurFacts DEF ApplyHalve, DividedBy, Becomes
<1> HIDE DEF u, q, length
<1>5. q * U \in Int /\ (q * 2) * U = 2 * (q * U)
  BY <1>1, <1>2
<1>6. Length(d) - U <= 2 * (q * U) /\ 2 * (q * U) <= Length(d) + U
  <2>1. (d.rep - 1) * U = Length(d) - U /\ (d.rep + 1) * U = Length(d) + U
    BY <1>1
  <2>2. (d.rep - 1) * U <= (q * 2) * U /\ (q * 2) * U <= (d.rep + 1) * U
    BY <1>1, <1>2, Monotone
  <2> QED
    BY <1>5, <2>1, <2>2
<1>7. length - error - loss <= q * U /\ q * U <= length + error + loss
  <2> DEFINE p == q * U
  <2>1. p \in Int /\ Length(d) - U <= 2 * p /\ 2 * p <= Length(d) + U
    BY <1>5, <1>6
  <2> HIDE DEF p, U
  <2>2. length - error - loss <= p /\ p <= length + error + loss
    BY <1>1, <1>3, <2>1
  <2> QED
    BY <2>2 DEF p
<1> HIDE DEF U, loss
<1>8. Fits(q * U)
  <2> DEFINE low == length - error - loss
             high == length + error + loss
  <2>1. low \in Int /\ high \in Int /\ low <= q * U /\ q * U <= high
        /\ Fits(low) /\ Fits(high)
    BY <1>1, <1>3, <1>4, <1>7
  <2> HIDE DEF low, high
  <2> QED
    BY <1>5, <2>1, FitsBetween
<1> QED
  BY <1>1, <1>3, <1>4, <1>7, <1>8, PlainBecomes

LEMMA ConvertStep ==
    ASSUME IInv, NEW to \in Unit, Convert(to)
    PROVE  IInv'
<1> DEFINE loss == Loss(d, to)
           more == Surplus(d, to)
           low == exact - error - loss
           high == exact + error + loss
<1>1. /\ d \in Duration /\ Length(d) \in Int /\ Fits(Length(d))
      /\ exact \in Int /\ error \in Nat
      /\ Length(d) - exact <= error /\ exact - Length(d) <= error
  BY DFacts, Lengths DEF Convert, Becomes
<1>2. loss \in Nat /\ more \in {0, 2 * Limit * Cycles} /\ more \in Nat
  BY <1>1, Losses, SurplusType
<1>3. /\ Becomes(convert_to(to, d), exact, loss, more)
      /\ Fits(low) /\ Fits(high) /\ low \in Int /\ high \in Int
  BY <1>1, <1>2 DEF Convert, Becomes
<1>4. ASSUME NEW r \in convert_to(to, d)
      PROVE  /\ r \in Duration
             /\ more = 0 => Fits(Length(r))
             /\ exact + more - error - loss <= Length(r)
             /\ Length(r) <= exact + more + error + loss
  <2>1. r.unit = to /\ Converted(d, r)
    BY <1>1, FitsProduct, Conversion
  <2>2. /\ r \in Duration /\ Length(r) \in Int
        /\ -loss <= Length(r) - (Length(d) + more)
        /\ Length(r) - (Length(d) + more) <= loss
    BY <2>1, Lengths DEF Converted
  <2> HIDE DEF loss, more
  <2>3. exact + more - error - loss <= Length(r) /\ Length(r) <= exact + more + error + loss
    BY <1>1, <1>2, <2>2
  <2>4. ASSUME more = 0 PROVE Fits(Length(r))
    <3>1. low <= Length(r) /\ Length(r) <= high
      BY <1>1, <1>2, <2>3, <2>4
    <3> HIDE DEF low, high
    <3> QED
      BY <1>3, <2>2, <3>1, FitsBetween
  <2> QED
    BY <2>2, <2>3, <2>4
<1> HIDE DEF loss, more
<1> QED
  BY <1>1, <1>2, <1>3, <1>4, BecomesInv

LEMMA InitIInv ==
    ASSUME Init
    PROVE  IInv
<1>1. d \in Duration /\ Fits(Length(d)) /\ exact = Length(d) /\ error = 0 /\ surplus = 0
  BY OperandFacts DEF Init
<1>2. exact \in Int /\ Length(d) - (exact + surplus) = 0
  BY <1>1, Lengths
<1> QED
  BY <1>1, <1>2 DEF IInv, Accurate, Duration

LEMMA NextIInv ==
    ASSUME IInv, [Next]_vars
    PROVE  IInv'
<1>1. CASE Arithmetic
  BY <1>1, AssignStep, BinaryStep, NegateStep, HalveStep DEF Arithmetic
<1>2. CASE \E to \in Unit : Convert(to)
  BY <1>2, ConvertStep
<1>3. CASE UNCHANGED vars
  BY <1>3 DEF vars, IInv, Accurate, Fits, Length, UnitLength
<1> QED
  BY <1>1, <1>2, <1>3 DEF Next

-----------------------------------------------------------------------------
(* The theorems. *)

\* However the operators of chrono::duration (chrono.hpp:128-229) are chained,
\* and whatever convert_to() does in between (chrono.cpp:51-63), the count fits
\* its width, unless a negative one has just lost its sign, and the result is
\* as far from the exact length, or from that and the surplus, as the
\* truncations and the roundings of floating point allow.
THEOREM Invariance == Spec => []IInv
  BY InitIInv, NextIInv, PTL DEF Spec

\* A chain of the operators of chrono::duration and of convert_to(), in any
\* order and through any units, is wrong by no more than its truncations and
\* roundings, as long as what it should compute can be represented; where a
\* negative count loses its sign, by 2 * Limit nanoseconds more.
THEOREM AccurateHolds == Spec => []Accurate
<1>1. IInv => Accurate
  BY DEF IInv
<1> QED
  BY <1>1, Invariance, PTL

\* What the counts m and n of a common unit tell of the lengths x and y.
LEMMA Comparison ==
    ASSUME NEW m \in Int, NEW n \in Int, NEW U \in Nat \ {0}, NEW x \in Int, NEW y \in Int,
           NEW e \in Nat, NEW f \in Nat, NEW loss \in Nat, loss = e + f,
           -e <= m * U - x, m * U - x <= e, -f <= n * U - y, n * U - y <= f
    PROVE  /\ m < n => x + U <= y + loss
           /\ n < m => y + U <= x + loss
           /\ ~(m < n) => y <= x + loss
           /\ ~(n < m) => x <= y + loss
           /\ m = n => x - y \in -loss .. loss
<1> DEFINE p == m * U
           q == n * U
<1>1. /\ p \in Int /\ q \in Int
      /\ m < n => p + U <= q
      /\ n < m => q + U <= p
      /\ n <= m => q <= p
      /\ m <= n => p <= q
  <2>1. (m + 1) * U = m * U + U /\ (n + 1) * U = n * U + U
    OBVIOUS
  <2>2. m + 1 \in Int /\ n + 1 \in Int /\ (m < n => m + 1 <= n) /\ (n < m => n + 1 <= m)
    OBVIOUS
  <2> QED
    BY <2>1, <2>2, Monotone, Products
<1>2. -e <= p - x /\ p - x <= e /\ -f <= q - y /\ q - y <= f
  OBVIOUS
<1>3. m = n => p = q
  OBVIOUS
<1> HIDE DEF p, q
<1> QED
  BY <1>1, <1>2, <1>3

\* An operand that lost its sign is not less than any other.
LEMMA SignLostLarge ==
    ASSUME NEW a \in Nat, NEW b \in Nat, NEW g \in Nat \ {0}, Limit < a * g + g, b * g < Limit
    PROVE  ~(a < b)
<1> SUFFICES ASSUME a + 1 <= b PROVE FALSE
  OBVIOUS
<1>1. (a + 1) * g = a * g + g /\ (a + 1) * g \in Int /\ b * g \in Int
  BY Products
<1>2. (a + 1) * g <= b * g
  BY Monotone
<1> QED
  BY <1>1, <1>2, Constants

\* Whatever was computed before, operator< and operator== agree with the
\* lengths up to what the conversions to the finer unit lose
\* (chrono.hpp:235-288).
THEOREM CompareSoundHolds == Spec => []CompareSound
<1>1. ASSUME IInv PROVE CompareSound
  <2> SUFFICES ASSUME surplus = 0, NEW y \in Operands,
                      NEW u, u = common_unit(d.unit, y.unit),
                      NEW loss, loss = LossBinary(d, y), NEW U, U = UnitLength(u)
               PROVE  IF KeepsSign(d, u)
                      THEN /\ TRUE \in LessThan(d, y) => Length(d) + U <= Length(y) + loss
                           /\ TRUE \in LessThan(y, d) => Length(y) + U <= Length(d) + loss
                           /\ FALSE \in LessThan(d, y) => Length(y) <= Length(d) + loss
                           /\ FALSE \in LessThan(y, d) => Length(d) <= Length(y) + loss
                           /\ TRUE \in Equal(d, y) => Length(d) - Length(y) \in -loss .. loss
                      ELSE LessThan(d, y) = {FALSE}
    BY DEF CompareSound
  <2>1. /\ d \in Duration /\ Fits(Length(d)) /\ d.unit \in Unit /\ Length(d) \in Int
        /\ y \in Duration /\ y.rep >= 0 /\ Fits(Length(y)) /\ y.unit \in Unit
        /\ Length(y) \in Int
    BY <1>1, DFacts, OperandFacts, Lengths
  <2>2. u \in Unit /\ U \in Nat \ {0} /\ u = common_unit(y.unit, d.unit)
        /\ Surplus(y, u) = 0 /\ u \in {d.unit, y.unit}
    BY <2>1, CommonUnit, UnitLengths, OperandFacts
  <2>3. Loss(d, u) \in Nat /\ Loss(y, u) \in Nat /\ loss = Loss(d, u) + Loss(y, u)
        /\ loss \in Nat
    BY <2>1, <2>2, Losses DEF LossBinary
  <2>4. CASE KeepsSign(d, u)
    <3>1. ASSUME NEW a \in In(d, y), NEW b \in In(y, d)
          PROVE  /\ a < b => Length(d) + U <= Length(y) + loss
                 /\ b < a => Length(y) + U <= Length(d) + loss
                 /\ ~(a < b) => Length(y) <= Length(d) + loss
                 /\ ~(b < a) => Length(d) <= Length(y) + loss
                 /\ a = b => Length(d) - Length(y) \in -loss .. loss
      <4>1. Surplus(d, u) = 0
        BY <2>4, SurplusType
      <4>2. /\ a \in Int
            /\ -Loss(d, u) <= a * U - (Length(d) + Surplus(d, u))
            /\ a * U - (Length(d) + Surplus(d, u)) <= Loss(d, u)
        BY <2>1, InFacts
      <4>3. /\ b \in Int
            /\ -Loss(y, u) <= b * U - (Length(y) + Surplus(y, u))
            /\ b * U - (Length(y) + Surplus(y, u)) <= Loss(y, u)
        BY <2>1, <2>2, InFacts
      <4>4. Length(d) + Surplus(d, u) = Length(d) /\ Length(y) + Surplus(y, u) = Length(y)
        BY <2>1, <2>2, <4>1
      <4>5. /\ -Loss(d, u) <= a * U - Length(d) /\ a * U - Length(d) <= Loss(d, u)
            /\ -Loss(y, u) <= b * U - Length(y) /\ b * U - Length(y) <= Loss(y, u)
        BY <4>2, <4>3, <4>4
      <4> QED
        BY <2>1, <2>2, <2>3, <4>2, <4>3, <4>5, Comparison
    <3>2. /\ TRUE \in LessThan(d, y) => \E a \in In(d, y), b \in In(y, d) : a < b
          /\ FALSE \in LessThan(d, y) => \E a \in In(d, y), b \in In(y, d) : ~(a < b)
      BY Zenon DEF LessThan
    <3>3. /\ TRUE \in LessThan(y, d) => \E a \in In(d, y), b \in In(y, d) : b < a
          /\ FALSE \in LessThan(y, d) => \E a \in In(d, y), b \in In(y, d) : ~(b < a)
      BY Zenon DEF LessThan
    <3>4. TRUE \in Equal(d, y) => \E a \in In(d, y), b \in In(y, d) : a = b
      BY Zenon DEF Equal
    <3> QED
      BY <2>4, <3>1, <3>2, <3>3, <3>4
  <2>5. CASE ~KeepsSign(d, u)
    <3>1. ASSUME NEW a \in In(d, y), NEW b \in In(y, d)
          PROVE  ~(a < b)
      <4>1. /\ a \in Int /\ u = y.unit /\ u # "TICK" /\ a >= 0
            /\ Limit < a * nsec_factor[u] + nsec_factor[u]
        BY <2>1, <2>5, InFacts
      <4>2. b \in Nat /\ b * nsec_factor[u] < Limit
        BY <2>1, <2>2, <4>1, InSame
      <4>3. nsec_factor[u] \in Nat \ {0} /\ a \in Nat
        BY <2>2, <4>1, Constants
      <4> QED
        BY <4>1, <4>2, <4>3, SignLostLarge
    <3>2. (\E a \in In(d, y) : TRUE) /\ (\E b \in In(y, d) : TRUE)
      <4>1. u # d.unit /\ u = y.unit /\ d.unit # "TICK" /\ u # "TICK"
        BY <2>2, <2>5 DEF KeepsSign
      <4>2. convert_to(u, y) = {y}
        BY <4>1 DEF convert_to
      <4>3. \E c : c \in convert_to(u, d)
        BY <4>1 DEF convert_to, counts
      <4> QED
        BY <2>2, <4>2, <4>3 DEF In
    <3>3. TRUE \notin LessThan(d, y)
      BY <3>1, Zenon DEF LessThan
    <3>4. FALSE \in LessThan(d, y)
      BY <3>1, <3>2, Zenon DEF LessThan
    <3>5. \A t \in LessThan(d, y) : t \in BOOLEAN
      BY Zenon DEF LessThan
    <3>6. LessThan(d, y) = {FALSE}
      BY <3>3, <3>4, <3>5, Zenon
    <3> QED
      BY <2>5, <3>6
  <2> QED
    BY <2>4, <2>5
<1> QED
  BY <1>1, Invariance, PTL
=============================================================================
