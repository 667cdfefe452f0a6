-------------------------- MODULE Rationals_proofs ---------------------------
(***************************************************************************)
(* Lemmas on the fractions of Rationals: gcd is the greatest common        *)
(* divisor, fractions in lowest terms are equal when their values are, and *)
(* the laws of arithmetic and order that follow.                           *)
(***************************************************************************)
EXTENDS Rationals, FiniteSetTheorems, TLAPS

-----------------------------------------------------------------------------
(* Induction on numbers, without a predicate as a parameter.                *)

\* A set of natural numbers has a least element: the intervals 0 .. m of its
\* elements are well-founded by inclusion.
LEMMA LeastNatural ==
    ASSUME NEW T, T \subseteq Nat, T # {}
    PROVE  \E n \in T : \A m \in T : n <= m
<1>1. PICK k \in T : TRUE
  OBVIOUS
<1> DEFINE S == 0 .. k
           F == {s \in SUBSET S : \E m \in T : s = 0 .. m}
           R == StrictSubsetOrdering(S)
<1>2. IsWellFoundedOn(R, SUBSET S)
  <2>1. IsFiniteSet(S)
    BY <1>1, FS_Interval
  <2> QED
    BY <2>1, FS_FiniteSubsetsOfFinite, FS_StrictSubsetOrderingWellFounded
<1>3. F \subseteq SUBSET S /\ F # {}
  BY <1>1
<1>4. \E s \in F : \A t \in F : <<t, s>> \notin R
  <2> HIDE DEF F, R, S
  <2> QED
    BY <1>2, <1>3, WFMin
<1>5. PICK s \in F : \A t \in F : <<t, s>> \notin R
  BY <1>4
<1>6. PICK n \in T : s = 0 .. n
  OBVIOUS
<1>7. ASSUME NEW m \in T, m < n
      PROVE  FALSE
  <2>1. n \in s /\ n \notin 0 .. m
    BY <1>6, <1>7
  <2>2. 0 .. m \subseteq s /\ 0 .. m # s
    BY <1>6, <1>7, <2>1
  <2>3. 0 .. m \in F /\ <<0 .. m, s>> \in R
    BY <2>2 DEF StrictSubsetOrdering
  <2> QED
    BY <2>3, <1>5
<1>8. n \in Nat /\ \A m \in T : m \in Nat
  OBVIOUS
<1> QED
  BY <1>7, <1>8

\* So has a set of numbers with a greatest one, from above.
LEMMA GreatestNatural ==
    ASSUME NEW T, T \subseteq Nat, T # {}, NEW b \in Nat, \A m \in T : m <= b
    PROVE  \E n \in T : \A m \in T : m <= n
<1> DEFINE U == {b - m : m \in T}
<1>1. U \subseteq Nat /\ U # {}
  <2>1. \A m \in T : m \in Nat /\ m <= b
    OBVIOUS
  <2>2. \A m \in T : b - m \in Nat
    BY <2>1
  <2> QED
    BY <2>2
<1>2. PICK k \in U : \A m \in U : k <= m
  <2> HIDE DEF U
  <2> QED
    BY <1>1, LeastNatural
<1>3. PICK n \in T : k = b - n
  OBVIOUS
<1>4. ASSUME NEW m \in T
      PROVE  m <= n
  <2>1. b - m \in U
    OBVIOUS
  <2>2. b - n <= b - m
    BY <1>2, <1>3, <2>1
  <2> QED
    BY <2>2
<1> QED
  BY <1>4

-----------------------------------------------------------------------------
(* gcd is the greatest common divisor.                                      *)

Divides(d, n) == \E k \in Int : n = k * d

CommonDivisors(m, n) == {d \in Nat \ {0} : Divides(d, m) /\ Divides(d, n)}

Top(S) == CHOOSE d \in S : \A e \in S : e <= d

Greatest(m, n) == IF m = 0 /\ n = 0 THEN 0 ELSE Top(CommonDivisors(m, n))

\* Integers are a commutative ring, ordered.
LEMMA Products ==
    /\ \A a, b \in Int : a * b \in Int /\ a * b = b * a
    /\ \A a, b, c \in Int : a * (b * c) = (a * b) * c
    /\ \A a, b, c \in Int : (a + b) * c = a * c + b * c
    /\ \A a, b, c \in Int : (a - b) * c = a * c - b * c
    /\ \A a, b \in Nat : a * b \in Nat
    /\ \A a, b \in Nat \ {0} : a * b \in Nat \ {0}
  OBVIOUS

\* Products with a positive number keep the order.
LEMMA Monotone ==
    ASSUME NEW a \in Int, NEW b \in Int, NEW c \in Nat \ {0}
    PROVE  /\ a <= b <=> a * c <= b * c
           /\ a < b <=> a * c < b * c
           /\ a = b <=> a * c = b * c
<1>1. a < b => a * c < b * c
  OBVIOUS
<1>2. b < a => b * c < a * c
  OBVIOUS
<1>3. a * c \in Int /\ b * c \in Int
  OBVIOUS
<1> QED
  BY <1>1, <1>2, <1>3

LEMMA Cancel ==
    ASSUME NEW a \in Int, NEW b \in Int, NEW c \in Int \ {0}, a * c = b * c
    PROVE  a = b
<1>1. CASE c > 0
  BY <1>1, Monotone
<1>2. CASE c < 0
  <2>1. a * (-c) = b * (-c) /\ -c \in Nat \ {0}
    BY <1>2
  <2> QED
    BY <2>1, Monotone
<1> QED
  BY <1>1, <1>2

LEMMA DivisorBound ==
    ASSUME NEW d \in Nat \ {0}, NEW n \in Nat \ {0}, Divides(d, n)
    PROVE  d <= n
<1>1. PICK k \in Int : n = k * d
  BY DEF Divides
<1>2. k > 0
  <2>1. CASE k <= 0
    <3>1. k * d <= 0 * d
      BY <2>1, Monotone
    <3> QED
      BY <1>1, <3>1
  <2> QED
    BY <2>1
<1>3. 1 * d <= k * d
  BY <1>2, Monotone
<1> QED
  BY <1>1, <1>3

LEMMA Remainder ==
    ASSUME NEW m \in Nat, NEW n \in Nat \ {0}
    PROVE  /\ m % n \in Nat /\ m % n < n
           /\ m \div n \in Int
           /\ m = (m \div n) * n + (m % n)
<1> DEFINE q == m \div n
           r == m % n
<1>1. q \in Int /\ r \in Int /\ 0 <= r /\ r < n /\ m = n * q + r
  OBVIOUS
<1> HIDE DEF q, r
<1>2. r \in Nat /\ m = q * n + r
  BY <1>1, Products
<1> QED
  BY <1>1, <1>2 DEF q, r

\* One step of Euclid's algorithm keeps the common divisors.
LEMMA EuclidStep ==
    ASSUME NEW m \in Nat, NEW n \in Nat \ {0}
    PROVE  CommonDivisors(m, n) = CommonDivisors(n, m % n)
<1> DEFINE q == m \div n
           r == m % n
<1>1. q \in Int /\ r \in Int /\ m = q * n + r
  BY Remainder
<1> HIDE DEF q, r
<1>2. ASSUME NEW d \in Nat \ {0}, Divides(d, n)
      PROVE  Divides(d, m) <=> Divides(d, r)
  <2>1. PICK k \in Int : n = k * d
    BY <1>2 DEF Divides
  <2>2. q * n = (q * k) * d /\ q * k \in Int
    BY <2>1, <1>1, Products
  <2>3. ASSUME NEW j \in Int, m = j * d
        PROVE  r = (j - q * k) * d /\ j - q * k \in Int
    BY <1>1, <2>2, <2>3, Products
  <2>4. ASSUME NEW j \in Int, r = j * d
        PROVE  m = (q * k + j) * d /\ q * k + j \in Int
    BY <1>1, <2>2, <2>4, Products
  <2> QED
    BY <2>3, <2>4 DEF Divides
<1>3. CommonDivisors(n, m % n) = CommonDivisors(n, r)
  BY DEF r
<1> QED
  BY <1>2, <1>3 DEF CommonDivisors

LEMMA GreatestFacts ==
    ASSUME NEW m \in Nat, NEW n \in Nat, m # 0 \/ n # 0
    PROVE  /\ Greatest(m, n) \in CommonDivisors(m, n)
           /\ \A e \in CommonDivisors(m, n) : e <= Greatest(m, n)
<1> DEFINE C == CommonDivisors(m, n)
<1>1. 1 \in C
  <2>1. \A k \in Int : Divides(1, k)
    BY DEF Divides
  <2> QED
    BY <2>1 DEF CommonDivisors
<1>2. \A e \in C : e <= m + n
  BY DivisorBound DEF CommonDivisors
<1>3. \E d \in C : \A e \in C : e <= d
  <2> DEFINE b == m + n
  <2>1. C \subseteq Nat /\ C # {} /\ b \in Nat
    BY <1>1 DEF CommonDivisors
  <2>2. \A e \in C : e <= b
    BY <1>2
  <2> HIDE DEF C, b
  <2> QED
    BY <2>1, <2>2, GreatestNatural
<1> HIDE DEF C
<1>4. Greatest(m, n) = CHOOSE d \in C : \A e \in C : e <= d
  BY DEF Greatest, Top, C
<1> QED
  BY <1>3, <1>4 DEF C

LEMMA GreatestRecursion ==
    ASSUME NEW m \in Nat, NEW n \in Nat
    PROVE  Greatest(m, n) = IF n = 0 THEN m ELSE Greatest(n, m % n)
<1>1. CASE n = 0 /\ m = 0
  BY <1>1 DEF Greatest
<1>2. CASE n = 0 /\ m # 0
  <2>0. m = 1 * m /\ 0 = 0 * m
    OBVIOUS
  <2>1. m \in CommonDivisors(m, n)
    BY <1>2, <2>0 DEF CommonDivisors, Divides
  <2>2. \A e \in CommonDivisors(m, n) : e <= m
    BY <1>2, DivisorBound DEF CommonDivisors
  <2>3. /\ Greatest(m, n) \in CommonDivisors(m, n)
        /\ m <= Greatest(m, n)
    BY <1>2, <2>1, GreatestFacts
  <2>4. Greatest(m, n) \in Nat
    BY <2>3 DEF CommonDivisors
  <2> QED
    BY <1>2, <2>2, <2>3, <2>4
<1>3. CASE n # 0
  BY <1>3, EuclidStep, Remainder DEF Greatest
<1> QED
  BY <1>1, <1>2, <1>3

\* gcd satisfies its recursion: there is a function that does.
LEMMA GcdRecursion ==
    ASSUME NEW m \in Nat, NEW n \in Nat
    PROVE  gcd[<<m, n>>] = IF n = 0 THEN m ELSE gcd[<<n, m % n>>]
<1> DEFINE G == [p \in Nat \X Nat |-> Greatest(p[1], p[2])]
<1>1. G = [p \in Nat \X Nat |->
              IF p[2] = 0 THEN p[1] ELSE G[<<p[2], p[1] % p[2]>>]]
  <2>1. ASSUME NEW p \in Nat \X Nat
        PROVE  G[p] = IF p[2] = 0 THEN p[1] ELSE G[<<p[2], p[1] % p[2]>>]
    <3>1. p[1] \in Nat /\ p[2] \in Nat
      OBVIOUS
    <3>2. CASE p[2] = 0
      BY <3>1, <3>2, GreatestRecursion
    <3>3. CASE p[2] # 0
      <4>1. p[1] % p[2] \in Nat
        BY <3>1, <3>3, Remainder
      <4>2. G[<<p[2], p[1] % p[2]>>] = Greatest(p[2], p[1] % p[2])
        BY <3>1, <4>1
      <4> QED
        BY <3>1, <3>3, <4>2, GreatestRecursion
    <3> QED
      BY <3>2, <3>3
  <2> QED
    BY <2>1
<1>2. gcd = [p \in Nat \X Nat |->
                IF p[2] = 0 THEN p[1] ELSE gcd[<<p[2], p[1] % p[2]>>]]
  <2> HIDE DEF G
  <2> QED
    BY <1>1 DEF gcd
<1>3. <<m, n>> \in Nat \X Nat /\ <<m, n>>[1] = m /\ <<m, n>>[2] = n
  OBVIOUS
<1> QED
  BY <1>2, <1>3

LEMMA GcdIsGreatest ==
    ASSUME NEW m \in Nat, NEW n \in Nat
    PROVE  gcd[<<m, n>>] = Greatest(m, n)
<1> DEFINE T == {y \in Nat : \E x \in Nat : gcd[<<x, y>>] # Greatest(x, y)}
<1>1. SUFFICES ASSUME T # {} PROVE FALSE
  OBVIOUS
<1>2. PICK y \in T : \A z \in T : y <= z
  <2>1. T \subseteq Nat
    OBVIOUS
  <2> HIDE DEF T
  <2> QED
    BY <1>1, <2>1, LeastNatural
<1>3. PICK x \in Nat : gcd[<<x, y>>] # Greatest(x, y)
  OBVIOUS
<1>4. CASE y = 0
  BY <1>3, <1>4, GcdRecursion, GreatestRecursion
<1>5. CASE y # 0
  <2>1. x % y \in Nat /\ x % y < y /\ y \in Nat
    BY <1>5, Remainder
  <2>2. gcd[<<y, x % y>>] = Greatest(y, x % y)
    BY <1>2, <2>1
  <2> QED
    BY <1>3, <1>5, <2>1, <2>2, GcdRecursion, GreatestRecursion
<1> QED
  BY <1>4, <1>5

-----------------------------------------------------------------------------
(* Fractions in lowest terms.                                               *)

Rational ==
    {a \in Int \X (Nat \ {0}) :
        \A e \in Nat \ {0} : Divides(e, a[1]) /\ Divides(e, a[2]) => e = 1}

LEMMA ExactQuotient ==
    ASSUME NEW g \in Nat \ {0}, NEW k \in Int
    PROVE  (k * g) \div g = k
<1> DEFINE n == k * g
           q == n \div g
           r == n % g
<1>1. n \in Int /\ q \in Int /\ r \in Int /\ 0 <= r /\ r < g /\ n = g * q + r
  OBVIOUS
<1>2. n = k * g
  OBVIOUS
<1> HIDE DEF n, q, r
<1>3. (k - q) * g = r
  BY <1>1, <1>2, Products
<1>4. 0 * g <= (k - q) * g /\ (k - q) * g < 1 * g
  BY <1>1, <1>3
<1>5. 0 <= k - q /\ k - q < 1
  BY <1>1, <1>4, Monotone
<1>6. q = k
  BY <1>1, <1>5
<1> QED
  BY <1>6 DEF n, q

\* Ratio(n, d) has the value n / d.
LEMMA RatioFacts ==
    ASSUME NEW n \in Int, NEW d \in Int \ {0}
    PROVE  /\ Ratio(n, d) \in Rational
           /\ Ratio(n, d)[1] * d = n * Ratio(n, d)[2]
<1> DEFINE m == Magnitude(n)
           l == Magnitude(d)
           g == gcd[<<m, l>>]
           s == IF d < 0 THEN -1 ELSE 1
<1>1. m \in Nat /\ l \in Nat \ {0} /\ s \in {-1, 1}
  BY DEF Magnitude
<1>2. /\ g \in CommonDivisors(m, l)
      /\ \A e \in CommonDivisors(m, l) : e <= g
  BY <1>1, GcdIsGreatest, GreatestFacts
<1>3. Ratio(n, d) = <<s * (n \div g), s * (d \div g)>>
  BY DEF Ratio
<1>4. PICK i \in Int, j \in Int : g \in Nat \ {0} /\ n = i * g /\ d = j * g
  <2>1. g \in Nat \ {0} /\ Divides(g, m) /\ Divides(g, l)
    BY <1>2 DEF CommonDivisors
  <2>2. ASSUME NEW x \in Int, Divides(g, Magnitude(x))
        PROVE  \E k \in Int : x = k * g
    <3>1. PICK k \in Int : Magnitude(x) = k * g
      BY <2>2 DEF Divides
    <3>2. x = k * g \/ x = (-k) * g
      BY <2>1, <3>1 DEF Magnitude
    <3> QED
      BY <3>2
  <2> QED
    BY <2>1, <2>2
<1>5. s * j > 0
  <2>1. (j > 0 <=> d > 0) /\ (j = 0 => d = 0)
    <3>1. j > 0 <=> j * g > 0 * g
      BY <1>4, Monotone
    <3> QED
      BY <1>4, <3>1
  <2> QED
    BY <1>4, <2>1
<1> DEFINE a == <<s * i, s * j>>
<1>6. Ratio(n, d) = a
  BY <1>3, <1>4, ExactQuotient
<1>7. a \in Int \X (Nat \ {0})
  BY <1>1, <1>5
<1>8. a[1] * d = n * a[2]
  BY <1>4, <1>1
<1>9. ASSUME NEW e \in Nat \ {0}, Divides(e, a[1]), Divides(e, a[2])
      PROVE  e = 1
  <2>1. PICK u \in Int, v \in Int : s * i = u * e /\ s * j = v * e
    BY <1>9 DEF Divides
  <2>2. /\ m = u * (e * g) \/ m = (-u) * (e * g)
        /\ l = v * (e * g) \/ l = (-v) * (e * g)
    <3>1. /\ m = n \/ m = -n
          /\ l = d \/ l = -d
      BY DEF Magnitude
    <3>2. /\ n = (s * i) * (s * g)
          /\ d = (s * j) * (s * g)
      BY <1>1, <1>4
    <3>3. /\ n = u * (e * g) \/ n = (-u) * (e * g)
          /\ d = v * (e * g) \/ d = (-v) * (e * g)
      BY <1>1, <1>4, <2>1, <3>2
    <3>4. \A k, w \in Int : /\ -(k * w) = (-k) * w
                            /\ -((-k) * w) = k * w
      OBVIOUS
    <3>5. e * g \in Int
      BY <1>4, Products
    <3> HIDE DEF m, l, g
    <3> QED
      BY <3>1, <3>3, <3>4, <3>5
  <2>3. e * g \in CommonDivisors(m, l)
    <3>1. e * g \in Nat \ {0} /\ -u \in Int /\ -v \in Int
      BY <1>4, Products
    <3> HIDE DEF m, l, g
    <3> QED
      BY <2>2, <3>1 DEF CommonDivisors, Divides
  <2>4. e * g <= 1 * g
    BY <1>2, <1>4, <2>3
  <2> QED
    BY <1>4, <2>4, Monotone
<1> QED
  BY <1>6, <1>7, <1>8, <1>9 DEF Rational

\* Fractions in lowest terms with the same value are the same: each is the
\* one with the least denominator.
LEMMA LowestTerms ==
    ASSUME NEW a \in Rational, NEW b \in Rational, a[1] * b[2] = b[1] * a[2]
    PROVE  a = b
<1> DEFINE D == {q \in Nat \ {0} : \E p \in Int : a[1] * q = p * a[2]}
<1>1. /\ a[1] \in Int /\ a[2] \in Nat \ {0}
      /\ b[1] \in Int /\ b[2] \in Nat \ {0}
      /\ a = <<a[1], a[2]>> /\ b = <<b[1], b[2]>>
  BY DEF Rational
<1>2. PICK k \in D : \A q \in D : k <= q
  <2>1. a[2] \in D
    BY <1>1
  <2>2. D \subseteq Nat /\ D # {}
    BY <2>1
  <2> HIDE DEF D
  <2> QED
    BY <2>2, LeastNatural
<1>3. PICK n \in Int : k \in Nat \ {0} /\ a[1] * k = n * a[2]
  OBVIOUS
<1>4. ASSUME NEW c \in Rational, a[1] * c[2] = c[1] * a[2]
      PROVE  c = <<n, k>>
  <2>1. c[1] \in Int /\ c[2] \in Nat \ {0} /\ c = <<c[1], c[2]>>
    BY DEF Rational
  <2> DEFINE t == c[2] \div k
             r == c[2] % k
             s == c[1] - t * n
  <2>2. t \in Int /\ r \in Nat /\ r < k /\ c[2] = t * k + r
    BY <1>3, <2>1, Remainder
  <2> HIDE DEF t, r
  <2>3. a[1] * r = s * a[2]
    <3>1. a[1] * (t * k + r) = t * (a[1] * k) + a[1] * r
      BY <1>1, <1>3, <2>2
    <3>2. (c[1] - t * n) * a[2] = c[1] * a[2] - t * (n * a[2])
      BY <1>1, <1>3, <2>1, <2>2
    <3> QED
      BY <1>1, <1>3, <1>4, <2>1, <2>2, <3>1, <3>2
  <2>4. s \in Int
    BY <1>3, <2>1, <2>2
  <2> HIDE DEF s
  <2>5. r = 0
    <3>1. CASE r # 0
      <4>1. r \in D
        BY <2>2, <2>3, <2>4, <3>1
      <4> QED
        BY <1>2, <1>3, <2>2, <4>1
    <3> QED
      BY <3>1
  <2>6. s = 0
    <3>1. s * a[2] = 0 * a[2]
      BY <1>1, <2>3, <2>5
    <3> QED
      BY <1>1, <2>4, <3>1, Monotone
  <2>7. c[1] = n * t /\ c[2] = k * t
    <3>1. t * n = n * t /\ t * k = k * t /\ t * n \in Int /\ t * k \in Int
      BY <1>3, <2>2, Products
    <3>2. c[1] - t * n = 0 /\ c[2] = t * k + 0
      BY <2>2, <2>5, <2>6 DEF s
    <3> QED
      BY <2>1, <3>1, <3>2
  <2>8. t > 0
    <3>1. t * k > 0 * k
      BY <1>3, <2>1, <2>2, <2>5
    <3> QED
      BY <1>3, <2>2, <3>1, Monotone
  <2>9. t = 1
    <3>1. t \in Nat \ {0}
      BY <2>2, <2>8
    <3>2. Divides(t, c[1]) /\ Divides(t, c[2])
      BY <1>3, <2>7 DEF Divides
    <3> QED
      BY <3>1, <3>2 DEF Rational
  <2> QED
    BY <1>3, <2>1, <2>7, <2>9
<1>5. a = <<n, k>>
  BY <1>4
<1>6. b = <<n, k>>
  BY <1>4
<1> QED
  BY <1>5, <1>6

-----------------------------------------------------------------------------
(* Arithmetic. A fraction x is known by any n and d with x = n / d.         *)

IsQuotient(x, n, d) == x[1] * d = n * x[2]

LEMMA Parts ==
    ASSUME NEW x \in Rational
    PROVE  /\ x[1] \in Int /\ x[2] \in Nat \ {0} /\ x[2] \in Int
           /\ IsQuotient(x, x[1], x[2])
  BY DEF Rational, IsQuotient

LEMMA SameQuotient ==
    ASSUME NEW x \in Rational, NEW y \in Rational,
           NEW n \in Int, NEW d \in Int \ {0},
           IsQuotient(x, n, d), IsQuotient(y, n, d)
    PROVE  x = y
<1>1. /\ x[1] \in Int /\ x[2] \in Int /\ y[1] \in Int /\ y[2] \in Int
      /\ x[1] * d = n * x[2] /\ y[1] * d = n * y[2]
  BY Parts DEF IsQuotient
<1>2. (x[1] * y[2]) * d = (y[1] * x[2]) * d
  <2>1. (x[1] * y[2]) * d = (x[1] * d) * y[2]
    BY <1>1
  <2>2. (y[1] * x[2]) * d = (y[1] * d) * x[2]
    BY <1>1
  <2>3. (n * x[2]) * y[2] = (n * y[2]) * x[2]
    BY <1>1
  <2> QED
    BY <1>1, <2>1, <2>2, <2>3
<1>3. x[1] * y[2] = y[1] * x[2]
  <2>1. x[1] * y[2] \in Int /\ y[1] * x[2] \in Int
    BY <1>1, Products
  <2> QED
    BY <1>2, <2>1, Cancel
<1> QED
  BY <1>3, LowestTerms

LEMMA RatioIsQuotient ==
    ASSUME NEW p \in Int, NEW q \in Int \ {0},
           NEW n \in Int, NEW d \in Int, p * d = n * q
    PROVE  Ratio(p, q) \in Rational /\ IsQuotient(Ratio(p, q), n, d)
<1> DEFINE r == Ratio(p, q)
<1>1. r \in Rational /\ r[1] * q = p * r[2]
  BY RatioFacts
<1>2. r[1] \in Int /\ r[2] \in Int
  BY <1>1, Parts
<1> HIDE DEF r
<1>3. (r[1] * d) * q = (n * r[2]) * q
  <2>1. (r[1] * d) * q = (r[1] * q) * d
    BY <1>2
  <2>2. (p * r[2]) * d = (p * d) * r[2]
    BY <1>2
  <2>3. (n * q) * r[2] = (n * r[2]) * q
    BY <1>2
  <2> QED
    BY <1>1, <2>1, <2>2, <2>3
<1>4. r[1] * d \in Int /\ n * r[2] \in Int
  BY <1>2, Products
<1>5. r[1] * d = n * r[2]
  BY <1>3, <1>4, Cancel
<1> QED
  BY <1>1, <1>5 DEF r, IsQuotient

LEMMA ArithmeticFacts ==
    ASSUME NEW x \in Rational, NEW y \in Rational,
           NEW n \in Int, NEW d \in Nat \ {0}, IsQuotient(x, n, d),
           NEW m \in Int, NEW e \in Nat \ {0}, IsQuotient(y, m, e)
    PROVE  /\ Plus(x, y) \in Rational
           /\ IsQuotient(Plus(x, y), n * e + m * d, d * e)
           /\ Minus(x, y) \in Rational
           /\ IsQuotient(Minus(x, y), n * e - m * d, d * e)
           /\ Times(x, y) \in Rational
           /\ IsQuotient(Times(x, y), n * m, d * e)
           /\ m # 0 => /\ Over(x, y) \in Rational
                       /\ IsQuotient(Over(x, y), n * e, d * m)
<1> DEFINE x1 == x[1]
           x2 == x[2]
           y1 == y[1]
           y2 == y[2]
<1>1. /\ x1 \in Int /\ x2 \in Nat \ {0} /\ x2 \in Int
      /\ y1 \in Int /\ y2 \in Nat \ {0} /\ y2 \in Int
      /\ x1 * d = n * x2 /\ y1 * e = m * y2
  BY Parts DEF IsQuotient
<1>2. /\ Plus(x, y) = Ratio(x1 * y2 + y1 * x2, x2 * y2)
      /\ Minus(x, y) = Ratio(x1 * y2 - y1 * x2, x2 * y2)
      /\ Times(x, y) = Ratio(x1 * y1, x2 * y2)
      /\ Over(x, y) = Ratio(x1 * y2, x2 * y1)
  BY DEF Plus, Minus, Times, Over
<1> HIDE DEF x1, x2, y1, y2
<1>3. /\ x2 * y2 \in Int \ {0}
      /\ x1 * y2 \in Int /\ y1 * x2 \in Int /\ x1 * y1 \in Int /\ x2 * y1 \in Int
      /\ n * e \in Int /\ m * d \in Int /\ n * m \in Int /\ d * e \in Int /\ d * m \in Int
  BY <1>1, Products
<1>4. (x1 * y2) * (d * e) = (n * e) * (x2 * y2)
  <2>1. (x1 * y2) * (d * e) = (x1 * d) * (y2 * e)
    BY <1>1
  <2>2. (n * x2) * (y2 * e) = (n * e) * (x2 * y2)
    BY <1>1
  <2> QED
    BY <1>1, <2>1, <2>2
<1>5. (y1 * x2) * (d * e) = (m * d) * (x2 * y2)
  <2>1. (y1 * x2) * (d * e) = (y1 * e) * (x2 * d)
    BY <1>1
  <2>2. (m * y2) * (x2 * d) = (m * d) * (x2 * y2)
    BY <1>1
  <2> QED
    BY <1>1, <2>1, <2>2
<1>6. Plus(x, y) \in Rational /\ IsQuotient(Plus(x, y), n * e + m * d, d * e)
  <2>1. (x1 * y2 + y1 * x2) * (d * e) = (n * e + m * d) * (x2 * y2)
    BY <1>3, <1>4, <1>5, Products
  <2>2. x1 * y2 + y1 * x2 \in Int /\ n * e + m * d \in Int
    BY <1>3
  <2> QED
    BY <1>2, <1>3, <2>1, <2>2, RatioIsQuotient
<1>7. Minus(x, y) \in Rational /\ IsQuotient(Minus(x, y), n * e - m * d, d * e)
  <2>1. (x1 * y2 - y1 * x2) * (d * e) = (n * e - m * d) * (x2 * y2)
    BY <1>3, <1>4, <1>5, Products
  <2>2. x1 * y2 - y1 * x2 \in Int /\ n * e - m * d \in Int
    BY <1>3
  <2> QED
    BY <1>2, <1>3, <2>1, <2>2, RatioIsQuotient
<1>8. Times(x, y) \in Rational /\ IsQuotient(Times(x, y), n * m, d * e)
  <2>1. (x1 * y1) * (d * e) = (x1 * d) * (y1 * e)
    BY <1>1
  <2>2. (n * x2) * (m * y2) = (n * m) * (x2 * y2)
    BY <1>1
  <2> QED
    BY <1>1, <1>2, <1>3, <2>1, <2>2, RatioIsQuotient
<1>9. ASSUME m # 0
      PROVE  Over(x, y) \in Rational /\ IsQuotient(Over(x, y), n * e, d * m)
  <2>1. y1 # 0
    <3>1. m * y2 # 0 * y2
      BY <1>1, <1>9, Monotone
    <3> QED
      BY <1>1, <3>1
  <2>2. x2 * y1 \in Int \ {0}
    <3>1. y1 * x2 # 0 * x2
      BY <1>1, <2>1, Monotone
    <3> QED
      BY <1>1, <3>1, Products
  <2>3. (x1 * y2) * (d * m) = (n * e) * (x2 * y1)
    <3>1. (x1 * y2) * (d * m) = (x1 * d) * (m * y2)
      BY <1>1
    <3>2. (n * x2) * (y1 * e) = (n * e) * (x2 * y1)
      BY <1>1
    <3> QED
      BY <1>1, <3>1, <3>2
  <2> QED
    BY <1>2, <1>3, <2>2, <2>3, RatioIsQuotient
<1> QED
  BY <1>6, <1>7, <1>8, <1>9

LEMMA OrderFacts ==
    ASSUME NEW x \in Rational, NEW y \in Rational,
           NEW n \in Int, NEW d \in Nat \ {0}, IsQuotient(x, n, d),
           NEW m \in Int, NEW e \in Nat \ {0}, IsQuotient(y, m, e)
    PROVE  /\ Less(x, y) <=> n * e < m * d
           /\ Leq(x, y) <=> n * e <= m * d
<1> DEFINE x1 == x[1]
           x2 == x[2]
           y1 == y[1]
           y2 == y[2]
<1>1. /\ x1 \in Int /\ x2 \in Nat \ {0} /\ x2 \in Int
      /\ y1 \in Int /\ y2 \in Nat \ {0} /\ y2 \in Int
      /\ x1 * d = n * x2 /\ y1 * e = m * y2
  BY Parts DEF IsQuotient
<1>2. Less(x, y) <=> x1 * y2 < y1 * x2
  BY DEF Less
<1> HIDE DEF x1, x2, y1, y2
<1>3. (x1 * y2) * (d * e) = (n * e) * (x2 * y2)
  <2>1. (x1 * y2) * (d * e) = (x1 * d) * (y2 * e)
    BY <1>1
  <2>2. (n * x2) * (y2 * e) = (n * e) * (x2 * y2)
    BY <1>1
  <2> QED
    BY <1>1, <2>1, <2>2
<1>4. (y1 * x2) * (d * e) = (m * d) * (x2 * y2)
  <2>1. (y1 * x2) * (d * e) = (y1 * e) * (x2 * d)
    BY <1>1
  <2>2. (m * y2) * (x2 * d) = (m * d) * (x2 * y2)
    BY <1>1
  <2> QED
    BY <1>1, <2>1, <2>2
<1>5. /\ d * e \in Nat \ {0} /\ x2 * y2 \in Nat \ {0}
      /\ x1 * y2 \in Int /\ y1 * x2 \in Int /\ n * e \in Int /\ m * d \in Int
  BY <1>1, Products
<1>6. x1 * y2 < y1 * x2 <=> (x1 * y2) * (d * e) < (y1 * x2) * (d * e)
  BY <1>5, Monotone
<1>7. n * e < m * d <=> (n * e) * (x2 * y2) < (m * d) * (x2 * y2)
  BY <1>5, Monotone
<1>8. Less(x, y) <=> n * e < m * d
  BY <1>2, <1>3, <1>4, <1>6, <1>7
\* Leq is the negation of Less the other way round.
<1>9. Less(y, x) <=> y1 * x2 < x1 * y2
  BY DEF Less, x1, x2, y1, y2
<1>10. y1 * x2 < x1 * y2 <=> (y1 * x2) * (d * e) < (x1 * y2) * (d * e)
  BY <1>5, Monotone
<1>11. m * d < n * e <=> (m * d) * (x2 * y2) < (n * e) * (x2 * y2)
  BY <1>5, Monotone
<1>12. Less(y, x) <=> m * d < n * e
  BY <1>3, <1>4, <1>9, <1>10, <1>11
<1> QED
  BY <1>5, <1>8, <1>12 DEF Leq

LEMMA RatFacts ==
    ASSUME NEW n \in Int
    PROVE  Rat(n) \in Rational /\ IsQuotient(Rat(n), n, 1)
<1>1. \A e \in Nat \ {0} : Divides(e, 1) => e = 1
  BY DivisorBound
<1> QED
  BY <1>1 DEF Rat, Rational, IsQuotient

LEMMA TimesLaws ==
    ASSUME NEW x \in Rational, NEW y \in Rational, NEW z \in Rational
    PROVE  /\ Times(x, y) \in Rational
           /\ Times(x, y) = Times(y, x)
           /\ Times(Times(x, y), z) = Times(x, Times(y, z))
           /\ Times(x, Zero) = Zero
           /\ Times(x, One) = x
<1> DEFINE n == x[1]
           d == x[2]
           m == y[1]
           e == y[2]
           k == z[1]
           f == z[2]
<1>1. /\ n \in Int /\ d \in Nat \ {0} /\ IsQuotient(x, n, d)
      /\ m \in Int /\ e \in Nat \ {0} /\ IsQuotient(y, m, e)
      /\ k \in Int /\ f \in Nat \ {0} /\ IsQuotient(z, k, f)
  BY Parts
<1> HIDE DEF n, d, m, e, k, f
<1>2. /\ d * e \in Nat \ {0} /\ e * f \in Nat \ {0} /\ d * (e * f) \in Nat \ {0}
      /\ n * m \in Int /\ m * k \in Int /\ n * (m * k) \in Int
      /\ n * m = m * n /\ d * e = e * d
      /\ (n * m) * k = n * (m * k) /\ (d * e) * f = d * (e * f)
  BY <1>1, Products
<1>3. Times(x, y) \in Rational /\ IsQuotient(Times(x, y), n * m, d * e)
  BY <1>1, ArithmeticFacts
<1>4. Times(y, x) \in Rational /\ IsQuotient(Times(y, x), m * n, e * d)
  BY <1>1, ArithmeticFacts
<1>5. Times(x, y) = Times(y, x)
  BY <1>2, <1>3, <1>4, SameQuotient
<1>6. Times(y, z) \in Rational /\ IsQuotient(Times(y, z), m * k, e * f)
  BY <1>1, ArithmeticFacts
<1>7. /\ Times(Times(x, y), z) \in Rational
      /\ IsQuotient(Times(Times(x, y), z), (n * m) * k, (d * e) * f)
  BY <1>1, <1>2, <1>3, ArithmeticFacts
<1>8. /\ Times(x, Times(y, z)) \in Rational
      /\ IsQuotient(Times(x, Times(y, z)), n * (m * k), d * (e * f))
  BY <1>1, <1>2, <1>6, ArithmeticFacts
<1>9. Times(Times(x, y), z) = Times(x, Times(y, z))
  <2> DEFINE p == n * (m * k)
             q == d * (e * f)
             l == Times(Times(x, y), z)
             r == Times(x, Times(y, z))
  <2>1. /\ l \in Rational /\ r \in Rational /\ p \in Int /\ q \in Int \ {0}
        /\ IsQuotient(l, p, q) /\ IsQuotient(r, p, q)
    BY <1>2, <1>7, <1>8
  <2> HIDE DEF p, q, l, r
  <2>2. l = r
    BY <2>1, SameQuotient
  <2> QED
    BY <2>2 DEF l, r
<1>10. Times(x, Zero) = Zero
  <2>1. Zero \in Rational /\ IsQuotient(Zero, 0, 1)
    BY RatFacts DEF Zero
  <2>2. Times(x, Zero) \in Rational /\ IsQuotient(Times(x, Zero), n * 0, d * 1)
    BY <1>1, <2>1, ArithmeticFacts
  <2>3. n * 0 = 0 /\ d * 1 = d /\ d \in Int \ {0}
    BY <1>1
  <2>4. IsQuotient(Zero, 0, d)
    BY <1>1 DEF IsQuotient, Zero, Rat
  <2> QED
    BY <2>1, <2>2, <2>3, <2>4, SameQuotient
<1>11. Times(x, One) = x
  <2>1. One \in Rational /\ IsQuotient(One, 1, 1)
    BY RatFacts DEF One
  <2>2. Times(x, One) \in Rational /\ IsQuotient(Times(x, One), n * 1, d * 1)
    BY <1>1, <2>1, ArithmeticFacts
  <2>3. n * 1 = n /\ d * 1 = d /\ d \in Int \ {0}
    BY <1>1
  <2> QED
    BY <1>1, <2>2, <2>3, SameQuotient
<1> QED
  BY <1>3, <1>5, <1>9, <1>10, <1>11

LEMMA PlusLaws ==
    ASSUME NEW x \in Rational, NEW y \in Rational, NEW z \in Rational
    PROVE  /\ Plus(x, y) \in Rational
           /\ Plus(x, y) = Plus(y, x)
           /\ Plus(x, Zero) = x
           /\ Times(Plus(x, y), z) = Plus(Times(x, z), Times(y, z))
<1> DEFINE n == x[1]
           d == x[2]
           m == y[1]
           e == y[2]
           k == z[1]
           f == z[2]
<1>1. /\ n \in Int /\ d \in Nat \ {0} /\ IsQuotient(x, n, d)
      /\ m \in Int /\ e \in Nat \ {0} /\ IsQuotient(y, m, e)
      /\ k \in Int /\ f \in Nat \ {0} /\ IsQuotient(z, k, f)
  BY Parts
<1> HIDE DEF n, d, m, e, k, f
<1>2. /\ Plus(x, y) \in Rational /\ IsQuotient(Plus(x, y), n * e + m * d, d * e)
      /\ Plus(y, x) \in Rational /\ IsQuotient(Plus(y, x), m * d + n * e, e * d)
  BY <1>1, ArithmeticFacts
<1>3. /\ d * e \in Nat \ {0} /\ d * e = e * d
      /\ n * e \in Int /\ m * d \in Int /\ n * e + m * d \in Int
      /\ m * d + n * e = n * e + m * d
  <2>1. d * e \in Nat \ {0} /\ d * e = e * d /\ n * e \in Int /\ m * d \in Int
    BY <1>1, Products
  <2> QED
    BY <2>1
<1>4. Plus(x, y) = Plus(y, x)
  BY <1>2, <1>3, SameQuotient
<1>5. Plus(x, Zero) = x
  <2>1. Zero \in Rational /\ IsQuotient(Zero, 0, 1)
    BY RatFacts DEF Zero
  <2>2. Plus(x, Zero) \in Rational /\ IsQuotient(Plus(x, Zero), n * 1 + 0 * d, d * 1)
    BY <1>1, <2>1, ArithmeticFacts
  <2>3. n * 1 + 0 * d = n /\ d * 1 = d /\ d \in Int \ {0}
    BY <1>1
  <2> QED
    BY <1>1, <2>2, <2>3, SameQuotient
<1>6. Times(Plus(x, y), z) = Plus(Times(x, z), Times(y, z))
  <2> DEFINE p == n * e + m * d
             l == Times(Plus(x, y), z)
             r == Plus(Times(x, z), Times(y, z))
  <2>1. /\ l \in Rational
        /\ IsQuotient(l, p * k, (d * e) * f)
    BY <1>1, <1>2, <1>3, ArithmeticFacts
  <2>2. /\ Times(x, z) \in Rational /\ IsQuotient(Times(x, z), n * k, d * f)
        /\ Times(y, z) \in Rational /\ IsQuotient(Times(y, z), m * k, e * f)
        /\ n * k \in Int /\ m * k \in Int /\ d * f \in Nat \ {0} /\ e * f \in Nat \ {0}
    BY <1>1, ArithmeticFacts, Products
  <2>3. /\ r \in Rational
        /\ IsQuotient(r, (n * k) * (e * f) + (m * k) * (d * f), (d * f) * (e * f))
    BY <2>2, ArithmeticFacts
  <2> DEFINE q == (d * e) * f
             u == p * k
  <2>4. /\ (n * k) * (e * f) + (m * k) * (d * f) = u * f
        /\ (d * f) * (e * f) = q * f
        /\ q \in Int \ {0} /\ u \in Int
    <3>1. (n * k) * (e * f) = ((n * e) * k) * f /\ (m * k) * (d * f) = ((m * d) * k) * f
      BY <1>1
    <3>2. ((n * e) * k) * f + ((m * d) * k) * f = ((n * e + m * d) * k) * f
      BY <1>1, <1>3, Products
    <3>3. (d * f) * (e * f) = ((d * e) * f) * f
      BY <1>1
    <3>4. (d * e) * f \in Nat \ {0} /\ (n * e + m * d) * k \in Int
      BY <1>1, <1>3, Products
    <3> QED
      BY <3>1, <3>2, <3>3, <3>4
  <2>5. IsQuotient(r, u * f, q * f)
    BY <2>3, <2>4
  <2> HIDE DEF l, r, q, u
  <2>6. IsQuotient(r, u, q)
    <3>1. r[1] \in Int /\ r[2] \in Int /\ r[1] * (q * f) = (u * f) * r[2]
      BY <2>3, <2>5, Parts DEF IsQuotient
    <3>2. (r[1] * q) * f = (u * r[2]) * f
      BY <1>1, <2>4, <3>1
    <3>3. r[1] * q \in Int /\ u * r[2] \in Int
      BY <2>4, <3>1, Products
    <3>4. r[1] * q = u * r[2]
      BY <1>1, <3>2, <3>3, Cancel
    <3> QED
      BY <3>4 DEF IsQuotient
  <2>7. l = r
    <3>1. IsQuotient(l, u, q)
      BY <2>1 DEF u, q
    <3> QED
      BY <2>1, <2>3, <2>4, <2>6, <3>1, SameQuotient
  <2> QED
    BY <2>7 DEF l, r
<1> QED
  BY <1>2, <1>4, <1>5, <1>6
\* Zero and One are fractions, and no fraction but Zero has the numerator 0.
LEMMA ZeroFacts ==
    /\ Zero \in Rational /\ IsQuotient(Zero, 0, 1)
    /\ One \in Rational /\ IsQuotient(One, 1, 1)
    /\ \A x \in Rational : x[1] = 0 => x = Zero
<1>1. Zero \in Rational /\ IsQuotient(Zero, 0, 1) /\ One \in Rational /\ IsQuotient(One, 1, 1)
  BY RatFacts DEF Zero, One
<1>2. ASSUME NEW x \in Rational, x[1] = 0
      PROVE  x = Zero
  <2>1. x[1] = 0 /\ x[2] \in Nat \ {0} /\ x[1] * 1 = 0 * x[2]
    BY <1>2, Parts
  <2>2. IsQuotient(x, 0, 1)
    BY <2>1 DEF IsQuotient
  <2> QED
    BY <1>1, <2>2, SameQuotient
<1> QED
  BY <1>1, <1>2

LEMMA Signs ==
    ASSUME NEW x \in Rational
    PROVE  /\ Leq(Zero, x) <=> 0 <= x[1]
           /\ Less(Zero, x) <=> 0 < x[1]
<1>1. x[1] \in Int /\ x[2] \in Nat \ {0} /\ IsQuotient(x, x[1], x[2])
  BY Parts
<1>2. /\ Less(Zero, x) <=> 0 * x[2] < x[1] * 1
      /\ Leq(Zero, x) <=> 0 * x[2] <= x[1] * 1
  BY <1>1, ZeroFacts, OrderFacts
<1> QED
  BY <1>1, <1>2

\* The order is total, and sums and products with what is not negative keep it.
LEMMA OrderLaws ==
    ASSUME NEW x \in Rational, NEW y \in Rational, NEW z \in Rational
    PROVE  /\ Leq(x, x)
           /\ Leq(x, y) \/ Leq(y, x)
           /\ Less(x, y) => Leq(x, y)
           /\ Leq(x, y) /\ Leq(y, z) => Leq(x, z)
           /\ Less(x, y) /\ Leq(y, z) => Less(x, z)
           /\ Leq(x, y) /\ Less(y, z) => Less(x, z)
           /\ Leq(x, y) => Leq(Plus(x, z), Plus(y, z))
           /\ Leq(x, y) /\ Leq(Zero, z) => Leq(Times(x, z), Times(y, z))
<1> DEFINE n == x[1]
           d == x[2]
           m == y[1]
           e == y[2]
           k == z[1]
           f == z[2]
<1>1. /\ n \in Int /\ d \in Nat \ {0} /\ IsQuotient(x, n, d)
      /\ m \in Int /\ e \in Nat \ {0} /\ IsQuotient(y, m, e)
      /\ k \in Int /\ f \in Nat \ {0} /\ IsQuotient(z, k, f)
  BY Parts
<1>2. Leq(Zero, z) <=> 0 <= k
  BY Signs
<1> HIDE DEF n, d, m, e, k, f
<1>3. /\ Less(x, y) <=> n * e < m * d
      /\ Leq(x, y) <=> n * e <= m * d
      /\ Leq(y, x) <=> m * d <= n * e
      /\ Leq(x, x) <=> n * d <= n * d
      /\ Less(y, z) <=> m * f < k * e
      /\ Leq(y, z) <=> m * f <= k * e
      /\ Less(x, z) <=> n * f < k * d
      /\ Leq(x, z) <=> n * f <= k * d
  BY <1>1, OrderFacts
\* x and y over the common denominator d e f, z likewise.
<1> DEFINE a == (n * e) * f
           b == (m * d) * f
           c == (k * d) * e
<1>4. /\ n * e \in Int /\ m * d \in Int /\ n * d \in Int /\ m * f \in Int /\ k * e \in Int
      /\ n * f \in Int /\ k * d \in Int
      /\ a \in Int /\ b \in Int /\ c \in Int
  BY <1>1, Products
<1>5. /\ (m * f) * d = b /\ (k * e) * d = c
      /\ (n * f) * e = a /\ (k * d) * e = c
  BY <1>1
<1>6. /\ n * e < m * d <=> a < b
      /\ n * e <= m * d <=> a <= b
      /\ m * f < k * e <=> b < c
      /\ m * f <= k * e <=> b <= c
      /\ n * f < k * d <=> a < c
      /\ n * f <= k * d <=> a <= c
  BY <1>1, <1>4, <1>5, Monotone
<1> HIDE DEF a, b, c
<1>7. /\ Leq(x, x) /\ (Leq(x, y) \/ Leq(y, x)) /\ (Less(x, y) => Leq(x, y))
      /\ Leq(x, y) /\ Leq(y, z) => Leq(x, z)
      /\ Less(x, y) /\ Leq(y, z) => Less(x, z)
      /\ Leq(x, y) /\ Less(y, z) => Less(x, z)
  BY <1>3, <1>4, <1>6
<1>8. ASSUME Leq(x, y)
      PROVE  Leq(Plus(x, z), Plus(y, z))
  <2>1. /\ Plus(x, z) \in Rational /\ IsQuotient(Plus(x, z), n * f + k * d, d * f)
        /\ Plus(y, z) \in Rational /\ IsQuotient(Plus(y, z), m * f + k * e, e * f)
    BY <1>1, ArithmeticFacts
  <2>2. /\ n * f + k * d \in Int /\ m * f + k * e \in Int
        /\ d * f \in Nat \ {0} /\ e * f \in Nat \ {0}
    BY <1>1, <1>4, Products
  <2>3. Leq(Plus(x, z), Plus(y, z))
          <=> (n * f + k * d) * (e * f) <= (m * f + k * e) * (d * f)
    BY <2>1, <2>2, OrderFacts
  <2>4. /\ (n * f + k * d) * (e * f) = (n * f) * (e * f) + (k * d) * (e * f)
        /\ (m * f + k * e) * (d * f) = (m * f) * (d * f) + (k * e) * (d * f)
    BY <1>4, <2>2, Products
  <2>5. (k * d) * (e * f) = (k * e) * (d * f)
    BY <1>1
  <2>6. (n * f) * (e * f) = a * f /\ (m * f) * (d * f) = b * f
    BY <1>1 DEF a, b
  <2>7. a * f <= b * f
    BY <1>1, <1>3, <1>4, <1>6, <1>8, Monotone
  <2>8. a * f \in Int /\ b * f \in Int /\ (k * e) * (d * f) \in Int
    BY <1>1, <1>4, <2>2, Products
  <2> QED
    BY <2>3, <2>4, <2>5, <2>6, <2>7, <2>8
<1>9. ASSUME Leq(x, y), Leq(Zero, z)
      PROVE  Leq(Times(x, z), Times(y, z))
  <2>1. /\ Times(x, z) \in Rational /\ IsQuotient(Times(x, z), n * k, d * f)
        /\ Times(y, z) \in Rational /\ IsQuotient(Times(y, z), m * k, e * f)
    BY <1>1, ArithmeticFacts
  <2>2. /\ n * k \in Int /\ m * k \in Int
        /\ d * f \in Nat \ {0} /\ e * f \in Nat \ {0}
    BY <1>1, Products
  <2>3. Leq(Times(x, z), Times(y, z)) <=> (n * k) * (e * f) <= (m * k) * (d * f)
    BY <2>1, <2>2, OrderFacts
  <2>4. (n * k) * (e * f) = a * k /\ (m * k) * (d * f) = b * k
    BY <1>1 DEF a, b
  <2>5. a <= b /\ 0 <= k
    BY <1>2, <1>3, <1>6, <1>9
  <2>6. a * k <= b * k
    <3>1. CASE k = 0
      BY <1>4, <3>1
    <3>2. CASE k # 0
      BY <1>1, <1>4, <2>5, <3>2, Monotone
    <3> QED
      BY <3>1, <3>2
  <2> QED
    BY <2>3, <2>4, <2>6
<1> QED
  BY <1>7, <1>8, <1>9

\* Dividing by what is positive.
LEMMA OverLaws ==
    ASSUME NEW x \in Rational, NEW y \in Rational, NEW z \in Rational, Less(Zero, z)
    PROVE  /\ Over(y, z) \in Rational
           /\ Leq(x, Over(y, z)) <=> Leq(Times(x, z), y)
           /\ Leq(Over(y, z), x) <=> Leq(y, Times(x, z))
<1> DEFINE n == x[1]
           d == x[2]
           m == y[1]
           e == y[2]
           k == z[1]
           f == z[2]
<1>1. /\ n \in Int /\ d \in Nat \ {0} /\ IsQuotient(x, n, d)
      /\ m \in Int /\ e \in Nat \ {0} /\ IsQuotient(y, m, e)
      /\ k \in Int /\ f \in Nat \ {0} /\ IsQuotient(z, k, f)
  BY Parts
<1>2. k \in Nat \ {0}
  BY <1>1, Signs
<1> HIDE DEF n, d, m, e, k, f
<1>3. /\ Over(y, z) \in Rational /\ IsQuotient(Over(y, z), m * f, e * k)
      /\ Times(x, z) \in Rational /\ IsQuotient(Times(x, z), n * k, d * f)
  BY <1>1, <1>2, ArithmeticFacts
<1>4. /\ m * f \in Int /\ n * k \in Int
      /\ e * k \in Nat \ {0} /\ d * f \in Nat \ {0}
  BY <1>1, <1>2, Products
<1>5. /\ Leq(x, Over(y, z)) <=> n * (e * k) <= (m * f) * d
      /\ Leq(Over(y, z), x) <=> (m * f) * d <= n * (e * k)
      /\ Leq(Times(x, z), y) <=> (n * k) * e <= m * (d * f)
      /\ Leq(y, Times(x, z)) <=> m * (d * f) <= (n * k) * e
  BY <1>1, <1>3, <1>4, OrderFacts
<1>6. n * (e * k) = (n * k) * e /\ (m * f) * d = m * (d * f)
  BY <1>1, <1>2
<1> QED
  BY <1>3, <1>5, <1>6

LEMMA OverTimes ==
    ASSUME NEW y \in Rational, NEW z \in Rational, Less(Zero, z)
    PROVE  Times(Over(y, z), z) = y
<1> DEFINE m == y[1]
           e == y[2]
           k == z[1]
           f == z[2]
           q == Over(y, z)
<1>1. /\ m \in Int /\ e \in Nat \ {0} /\ e \in Int /\ IsQuotient(y, m, e)
      /\ k \in Int /\ f \in Nat \ {0} /\ f \in Int /\ IsQuotient(z, k, f)
      /\ 0 < k /\ k \in Nat \ {0} /\ k # 0
  BY Parts, Signs
<1>2. y[1] * e = m * y[2]
  BY <1>1 DEF IsQuotient
<1> HIDE DEF m, e, k, f
<1>3. q \in Rational /\ IsQuotient(q, m * f, e * k)
  BY <1>1, ArithmeticFacts
<1>4. m * f \in Int /\ e * k \in Nat \ {0} /\ (e * k) * f \in Nat \ {0}
  BY <1>1, Products
<1> HIDE DEF q
<1>5. Times(q, z) \in Rational /\ IsQuotient(Times(q, z), (m * f) * k, (e * k) * f)
  BY <1>1, <1>3, <1>4, ArithmeticFacts
<1>6. IsQuotient(y, (m * f) * k, (e * k) * f)
  <2> DEFINE a == y[1]
             b == y[2]
  <2>1. a \in Int /\ b \in Int /\ a * e = m * b
    BY <1>2, Parts
  <2> HIDE DEF a, b
  <2>2. a * ((e * k) * f) = (a * e) * (k * f)
    BY <1>1, <2>1
  <2>3. ((m * f) * k) * b = (m * b) * (k * f)
    BY <1>1, <2>1
  <2> QED
    BY <2>1, <2>2, <2>3 DEF IsQuotient, a, b
<1>7. (m * f) * k \in Int /\ (e * k) * f \in Int \ {0}
  BY <1>1, <1>4
<1> QED
  BY <1>5, <1>6, <1>7, SameQuotient DEF q

LEMMA MinusTyped ==
    ASSUME NEW x \in Rational, NEW y \in Rational
    PROVE  Minus(x, y) \in Rational
<1>1. /\ x[1] \in Int /\ x[2] \in Nat \ {0} /\ IsQuotient(x, x[1], x[2])
      /\ y[1] \in Int /\ y[2] \in Nat \ {0} /\ IsQuotient(y, y[1], y[2])
  BY Parts
<1> QED
  BY <1>1, ArithmeticFacts

\* Quotients of quotients.
LEMMA RatioChain ==
    ASSUME NEW a \in Int, NEW b \in Nat \ {0}, NEW c \in Nat \ {0}
    PROVE  /\ Ratio(a, c) \in Rational /\ Ratio(b, c) \in Rational /\ Ratio(a, b) \in Rational
           /\ Times(Ratio(b, c), Ratio(a, b)) = Ratio(a, c)
<1>1. /\ Ratio(a, c) \in Rational /\ IsQuotient(Ratio(a, c), a, c)
      /\ Ratio(b, c) \in Rational /\ IsQuotient(Ratio(b, c), b, c)
      /\ Ratio(a, b) \in Rational /\ IsQuotient(Ratio(a, b), a, b)
      /\ IsQuotient(Ratio(a, c), b * a, c * b)
  <2>1. a * (c * b) = (b * a) * c
    OBVIOUS
  <2>2. c * b \in Int /\ b * a \in Int
    BY Products
  <2> QED
    BY <2>1, <2>2, RatioIsQuotient
<1>2. /\ Times(Ratio(b, c), Ratio(a, b)) \in Rational
      /\ IsQuotient(Times(Ratio(b, c), Ratio(a, b)), b * a, c * b)
  BY <1>1, ArithmeticFacts
<1>3. b * a \in Int /\ c * b \in Nat \ {0}
  BY Products
<1> QED
  BY <1>1, <1>2, <1>3, SameQuotient
-----------------------------------------------------------------------------
(* Sums of the first fractions of a sequence or function.                   *)

LEMMA Induction ==
    ASSUME NEW N \in Nat, NEW S, 0 \in S, \A n \in 0 .. N - 1 : n \in S => n + 1 \in S
    PROVE  \A n \in 0 .. N : n \in S
<1> DEFINE T == {n \in 0 .. N : n \notin S}
<1>1. SUFFICES ASSUME T # {}
               PROVE  FALSE
  OBVIOUS
<1>2. T \subseteq Nat
  OBVIOUS
<1>3. PICK n \in T : \A m \in T : n <= m
  <2> HIDE DEF T
  <2> QED
    BY <1>1, <1>2, LeastNatural
<1>4. n \in 0 .. N /\ n \notin S /\ n # 0
  BY <1>3
<1>5. n - 1 \in 0 .. N - 1 /\ n - 1 \in 0 .. N /\ (n - 1) + 1 = n /\ ~(n <= n - 1)
  BY <1>4
<1>6. n - 1 \notin S
  BY <1>4, <1>5
<1>7. n - 1 \in T
  BY <1>5, <1>6
<1> QED
  BY <1>3, <1>5, <1>7

PartialSums(w, N) ==
    {f \in [0 .. N -> Rational] :
        f[0] = Zero /\ \A k \in 1 .. N : f[k] = Plus(f[k - 1], w[k])}

SumTo(w, n) == (CHOOSE f : f \in PartialSums(w, n))[n]

LEMMA SumsExist ==
    ASSUME NEW w, NEW N \in Nat, \A i \in 1 .. N : w[i] \in Rational
    PROVE  \E f : f \in PartialSums(w, N)
<1> DEFINE S == {n \in 0 .. N : \E f : f \in PartialSums(w, n)}
<1>1. 0 \in S
  <2> DEFINE f == [k \in 0 .. 0 |-> Zero]
  <2>1. f \in [0 .. 0 -> Rational] /\ f[0] = Zero /\ 1 .. 0 = {}
    BY ZeroFacts
  <2>2. f \in PartialSums(w, 0)
    BY <2>1 DEF PartialSums
  <2> QED
    BY <2>2
<1>2. ASSUME NEW n \in 0 .. N - 1, n \in S
      PROVE  n + 1 \in S
  <2>1. PICK f : f \in PartialSums(w, n)
    BY <1>2
  <2>2. /\ f \in [0 .. n -> Rational] /\ f[0] = Zero
        /\ \A k \in 1 .. n : f[k] = Plus(f[k - 1], w[k])
    BY <2>1 DEF PartialSums
  <2> DEFINE s == Plus(f[n], w[n + 1])
             g == [k \in 0 .. n + 1 |-> IF k = n + 1 THEN s ELSE f[k]]
  <2>3. n \in Nat /\ n + 1 \in 1 .. N /\ n \in 0 .. n
    OBVIOUS
  <2>4. s \in Rational
    <3>1. f[n] \in Rational /\ w[n + 1] \in Rational
      BY <2>2, <2>3
    <3> QED
      BY <3>1, PlusLaws
  <2>5. g[n + 1] = s /\ \A k \in 0 .. n : g[k] = f[k]
    BY <2>3
  <2>6. g \in [0 .. n + 1 -> Rational]
    BY <2>2, <2>3, <2>4
  <2>7. ASSUME NEW k \in 1 .. n + 1
        PROVE  g[k] = Plus(g[k - 1], w[k])
    <3> HIDE DEF g
    <3>1. CASE k = n + 1
      <4>1. k - 1 = n
        BY <2>3, <3>1
      <4> QED
        BY <2>3, <2>5, <3>1, <4>1
    <3>2. CASE k # n + 1
      <4>1. k \in 1 .. n /\ k \in 0 .. n /\ k - 1 \in 0 .. n
        BY <2>3, <3>2
      <4> QED
        BY <2>2, <2>5, <4>1
    <3> QED
      BY <3>1, <3>2
  <2>8. g[0] = Zero
    BY <2>2, <2>3, <2>5
  <2> HIDE DEF g
  <2>9. g \in PartialSums(w, n + 1)
    BY <2>6, <2>7, <2>8 DEF PartialSums
  <2> QED
    BY <2>3, <2>9
<1>3. \A n \in 0 .. N : n \in S
  <2> HIDE DEF S
  <2> QED
    BY <1>1, <1>2, Induction
<1> QED
  BY <1>3

LEMMA SumsUnique ==
    ASSUME NEW w, NEW v, NEW N \in Nat, NEW M \in Nat, N <= M,
           \A i \in 1 .. N : w[i] = v[i],
           NEW f \in PartialSums(w, N), NEW g \in PartialSums(v, M)
    PROVE  \A n \in 0 .. N : f[n] = g[n]
<1> DEFINE S == {n \in 0 .. N : f[n] = g[n]}
<1>1. /\ f[0] = Zero /\ g[0] = Zero
      /\ \A k \in 1 .. N : f[k] = Plus(f[k - 1], w[k])
      /\ \A k \in 1 .. M : g[k] = Plus(g[k - 1], v[k])
  BY DEF PartialSums
<1>2. 0 \in S
  BY <1>1
<1>3. ASSUME NEW n \in 0 .. N - 1, n \in S
      PROVE  n + 1 \in S
  <2> DEFINE k == n + 1
  <2>1. k \in 1 .. N /\ k \in 1 .. M /\ k - 1 = n /\ k \in 0 .. N
    OBVIOUS
  <2> HIDE DEF k
  <2>2. f[k] = Plus(f[n], w[k]) /\ g[k] = Plus(g[n], v[k]) /\ w[k] = v[k]
    BY <1>1, <2>1
  <2> QED
    BY <1>3, <2>1, <2>2 DEF k
<1>4. \A n \in 0 .. N : n \in S
  <2> HIDE DEF S
  <2> QED
    BY <1>2, <1>3, Induction
<1> QED
  BY <1>4

LEMMA SumFacts ==
    ASSUME NEW w, NEW N \in Nat, \A i \in 1 .. N : w[i] \in Rational
    PROVE  /\ SumTo(w, 0) = Zero
           /\ \A n \in 0 .. N : SumTo(w, n) \in Rational
           /\ \A n \in 1 .. N : SumTo(w, n) = Plus(SumTo(w, n - 1), w[n])
<1>1. PICK f : f \in PartialSums(w, N)
  BY SumsExist
<1>2. /\ f \in [0 .. N -> Rational] /\ f[0] = Zero
      /\ \A k \in 1 .. N : f[k] = Plus(f[k - 1], w[k])
  BY <1>1 DEF PartialSums
<1>3. ASSUME NEW n \in 0 .. N
      PROVE  SumTo(w, n) = f[n]
  <2> DEFINE g == CHOOSE h : h \in PartialSums(w, n)
  <2>1. n \in Nat /\ n <= N /\ n \in 0 .. n /\ \A i \in 1 .. n : i \in 1 .. N
    OBVIOUS
  <2>2. g \in PartialSums(w, n)
    <3>1. \E h : h \in PartialSums(w, n)
      BY <2>1, SumsExist
    <3> QED
      BY <3>1
  <2>3. SumTo(w, n) = g[n]
    BY DEF SumTo
  <2> HIDE DEF g
  <2>4. g[n] = f[n]
    BY <1>1, <2>1, <2>2, SumsUnique
  <2> QED
    BY <2>3, <2>4
<1>4. 0 \in 0 .. N /\ \A n \in 1 .. N : n \in 0 .. N /\ n - 1 \in 0 .. N
  OBVIOUS
<1> QED
  BY <1>2, <1>3, <1>4

\* Any function that sums up.
LEMMA SumIs ==
    ASSUME NEW w, NEW N \in Nat, \A i \in 1 .. N : w[i] \in Rational,
           NEW f, f[0] = Zero, \A k \in 1 .. N : f[k] = Plus(f[k - 1], w[k])
    PROVE  \A n \in 0 .. N : f[n] = SumTo(w, n)
<1> DEFINE S == {n \in 0 .. N : f[n] = SumTo(w, n)}
<1>1. 0 \in S
  BY SumFacts
<1>2. ASSUME NEW n \in 0 .. N - 1, n \in S
      PROVE  n + 1 \in S
  <2> DEFINE k == n + 1
  <2>1. k \in 1 .. N /\ k - 1 = n /\ k \in 0 .. N
    OBVIOUS
  <2> HIDE DEF k
  <2>2. SumTo(w, k) = Plus(SumTo(w, n), w[k]) /\ f[k] = Plus(f[n], w[k])
    BY <2>1, SumFacts
  <2> QED
    BY <1>2, <2>1, <2>2 DEF k
<1>3. \A n \in 0 .. N : n \in S
  <2> HIDE DEF S
  <2> QED
    BY <1>1, <1>2, Induction
<1> QED
  BY <1>3

\* The sums of the same numbers, and what follows a place where only zeros are.
LEMMA SumSame ==
    ASSUME NEW w, NEW v, NEW N \in Nat,
           \A i \in 1 .. N : w[i] \in Rational /\ v[i] = w[i]
    PROVE  SumTo(v, N) = SumTo(w, N)
<1> DEFINE f == [n \in 0 .. N |-> SumTo(v, n)]
<1>1. /\ SumTo(v, 0) = Zero
      /\ \A n \in 1 .. N : SumTo(v, n) = Plus(SumTo(v, n - 1), v[n])
  BY SumFacts
<1>2. f[0] = Zero /\ \A k \in 1 .. N : f[k] = Plus(f[k - 1], w[k])
  <2>1. \A k \in 1 .. N : k \in 0 .. N /\ k - 1 \in 0 .. N
    OBVIOUS
  <2> QED
    BY <1>1, <2>1
<1>3. f[N] = SumTo(v, N) /\ N \in 0 .. N
  OBVIOUS
<1> HIDE DEF f
<1> QED
  BY <1>2, <1>3, SumIs

LEMMA SumZeros ==
    ASSUME NEW w, NEW N \in Nat, \A i \in 1 .. N : w[i] \in Rational,
           NEW a \in 0 .. N, \A i \in a + 1 .. N : w[i] = Zero
    PROVE  SumTo(w, N) = SumTo(w, a)
<1> DEFINE S == {n \in 0 .. N : n >= a => SumTo(w, n) = SumTo(w, a)}
<1>1. 0 \in S
  OBVIOUS
<1>2. ASSUME NEW n \in 0 .. N - 1, n \in S
      PROVE  n + 1 \in S
  <2> DEFINE k == n + 1
  <2>1. k \in 1 .. N /\ k - 1 = n /\ k \in 0 .. N
    OBVIOUS
  <2>2. n >= a => k \in a + 1 .. N
    OBVIOUS
  <2>3. k >= a => n >= a \/ k = a
    OBVIOUS
  <2> HIDE DEF k
  <2>4. SumTo(w, k) = Plus(SumTo(w, n), w[k]) /\ SumTo(w, n) \in Rational
    BY <2>1, SumFacts
  <2>5. Plus(SumTo(w, n), Zero) = SumTo(w, n)
    BY <2>4, ZeroFacts, PlusLaws
  <2> QED
    BY <1>2, <2>1, <2>2, <2>3, <2>4, <2>5 DEF k
<1>3. \A n \in 0 .. N : n \in S
  <2> HIDE DEF S
  <2> QED
    BY <1>1, <1>2, Induction
<1>4. N \in S /\ N >= a
  BY <1>3
<1> QED
  BY <1>4

LEMMA PlusAssociates ==
    ASSUME NEW x \in Rational, NEW y \in Rational, NEW z \in Rational
    PROVE  /\ Plus(Plus(x, y), z) = Plus(x, Plus(y, z))
           /\ Plus(Plus(x, y), z) = Plus(Plus(x, z), y)
<1> DEFINE n == x[1]
           d == x[2]
           m == y[1]
           e == y[2]
           k == z[1]
           f == z[2]
           a == Plus(Plus(x, y), z)
           b == Plus(x, Plus(y, z))
           c == Plus(Plus(x, z), y)
           p == (n * (e * f) + m * (d * f)) + k * (d * e)
           q == d * (e * f)
<1>1. /\ n \in Int /\ d \in Nat \ {0} /\ IsQuotient(x, n, d)
      /\ m \in Int /\ e \in Nat \ {0} /\ IsQuotient(y, m, e)
      /\ k \in Int /\ f \in Nat \ {0} /\ IsQuotient(z, k, f)
  BY Parts
<1> HIDE DEF n, d, m, e, k, f
<1>2. /\ d * e \in Nat \ {0} /\ e * f \in Nat \ {0} /\ d * f \in Nat \ {0}
      /\ (d * e) * f = q /\ d * (e * f) = q /\ (d * f) * e = q /\ q \in Nat \ {0}
  BY <1>1, Products
<1>3. /\ Plus(x, y) \in Rational /\ IsQuotient(Plus(x, y), n * e + m * d, d * e)
      /\ Plus(y, z) \in Rational /\ IsQuotient(Plus(y, z), m * f + k * e, e * f)
      /\ Plus(x, z) \in Rational /\ IsQuotient(Plus(x, z), n * f + k * d, d * f)
  BY <1>1, ArithmeticFacts
<1>4. n * e + m * d \in Int /\ m * f + k * e \in Int /\ n * f + k * d \in Int
  BY <1>1
<1>5. /\ a \in Rational /\ IsQuotient(a, (n * e + m * d) * f + k * (d * e), (d * e) * f)
      /\ b \in Rational /\ IsQuotient(b, n * (e * f) + (m * f + k * e) * d, d * (e * f))
      /\ c \in Rational /\ IsQuotient(c, (n * f + k * d) * e + m * (d * f), (d * f) * e)
  BY <1>1, <1>2, <1>3, <1>4, ArithmeticFacts
<1>6. p \in Int
  BY <1>1
<1>7. (n * e + m * d) * f + k * (d * e) = p
  BY <1>1
<1>8. n * (e * f) + (m * f + k * e) * d = p
  BY <1>1
<1>9. (n * f + k * d) * e + m * (d * f) = p
  BY <1>1
<1>10. IsQuotient(a, p, q) /\ IsQuotient(b, p, q) /\ IsQuotient(c, p, q)
  BY <1>2, <1>5, <1>7, <1>8, <1>9
<1> HIDE DEF a, b, c, p, q
<1> QED
  BY <1>2, <1>5, <1>6, <1>10, SameQuotient DEF a, b, c

\* A number is put in at place k.
LEMMA SumInserted ==
    ASSUME NEW w, NEW N \in Nat, \A i \in 1 .. N : w[i] \in Rational,
           NEW e \in Rational, NEW k \in 1 .. N + 1, NEW v,
           \A i \in 1 .. N + 1 : v[i] = IF i < k THEN w[i] ELSE IF i = k THEN e ELSE w[i - 1]
    PROVE  SumTo(v, N + 1) = Plus(SumTo(w, N), e)
<1> DEFINE M == N + 1
           S == {n \in 0 .. M : SumTo(v, n) = IF n < k THEN SumTo(w, n)
                                              ELSE Plus(SumTo(w, n - 1), e)}
<1>1. M \in Nat /\ M \in 0 .. M /\ ~(M < k) /\ M - 1 = N /\ k \in Int /\ 0 < k
  OBVIOUS
<1>2. \A i \in 1 .. M : v[i] \in Rational
  <2>1. \A i \in 1 .. M : (i < k => i \in 1 .. N) /\ (i > k => i - 1 \in 1 .. N)
    OBVIOUS
  <2> QED
    BY <2>1
<1>3. /\ SumTo(v, 0) = Zero /\ SumTo(w, 0) = Zero
      /\ \A n \in 0 .. N : SumTo(w, n) \in Rational
      /\ \A n \in 1 .. N : SumTo(w, n) = Plus(SumTo(w, n - 1), w[n])
  BY <1>1, <1>2, SumFacts
<1>4. \A n \in 1 .. M : SumTo(v, n) = Plus(SumTo(v, n - 1), v[n])
  <2> HIDE DEF M
  <2> QED
    BY <1>1, <1>2, SumFacts
<1>5. 0 \in S
  BY <1>1, <1>3
<1>6. ASSUME NEW n \in 0 .. M - 1, n \in S
      PROVE  n + 1 \in S
  <2> DEFINE j == n + 1
  <2>1. j \in 1 .. M /\ j - 1 = n /\ j \in 0 .. M /\ n \in 0 .. N
    OBVIOUS
  <2>2. /\ n \in Int /\ j \in Int /\ (n < k <=> j <= k)
        /\ (j < k => j \in 1 .. N) /\ (j > k => n \in 1 .. N /\ n - 1 \in 0 .. N)
    OBVIOUS
  <2> HIDE DEF j
  <2>3. SumTo(v, j) = Plus(SumTo(v, n), v[j])
    BY <1>4, <2>1
  <2>4. v[j] = IF j < k THEN w[j] ELSE IF j = k THEN e ELSE w[n]
    BY <2>1
  <2>5. SumTo(v, n) = IF n < k THEN SumTo(w, n) ELSE Plus(SumTo(w, n - 1), e)
    BY <1>6
  <2>6. SumTo(v, j) = IF j < k THEN SumTo(w, j) ELSE Plus(SumTo(w, n), e)
    <3>1. CASE j < k
      <4>1. SumTo(w, j) = Plus(SumTo(w, n), w[j])
        BY <1>3, <2>1, <2>2, <3>1
      <4> QED
        BY <2>2, <2>3, <2>4, <2>5, <3>1, <4>1
    <3>2. CASE j = k
      BY <2>2, <2>3, <2>4, <2>5, <3>2
    <3>3. CASE j > k
      <4> DEFINE x == SumTo(w, n - 1)
      <4>1. SumTo(w, n) = Plus(x, w[n]) /\ x \in Rational /\ w[n] \in Rational
        BY <1>3, <2>2, <3>3
      <4>2. SumTo(v, j) = Plus(Plus(x, e), w[n])
        BY <2>2, <2>3, <2>4, <2>5, <3>3
      <4> HIDE DEF x
      <4>3. Plus(Plus(x, e), w[n]) = Plus(Plus(x, w[n]), e)
        BY <4>1, PlusAssociates
      <4> QED
        BY <2>2, <3>3, <4>1, <4>2, <4>3
    <3> QED
      BY <2>2, <3>1, <3>2, <3>3
  <2> QED
    BY <2>1, <2>6 DEF j
<1>7. \A n \in 0 .. M : n \in S
  <2> HIDE DEF S, M
  <2> QED
    BY <1>1, <1>5, <1>6, Induction
<1>8. M \in S
  BY <1>1, <1>7
<1> QED
  BY <1>1, <1>8

\* Two neighbours are replaced by their sum.
LEMMA SumMerged ==
    ASSUME NEW w, NEW N \in Nat, \A i \in 1 .. N : w[i] \in Rational,
           NEW k \in 1 .. N - 1, NEW v,
           \A i \in 1 .. N - 1 : v[i] = IF i < k THEN w[i]
                                        ELSE IF i = k THEN Plus(w[k], w[k + 1]) ELSE w[i + 1]
    PROVE  SumTo(v, N - 1) = SumTo(w, N)
<1> DEFINE M == N - 1
           S == {n \in 0 .. M : SumTo(v, n) = IF n < k THEN SumTo(w, n) ELSE SumTo(w, n + 1)}
<1>1. M \in Nat /\ M \in 0 .. M /\ ~(M < k) /\ M + 1 = N /\ k \in Int /\ 0 < k
  OBVIOUS
<1>2. \A i \in 1 .. M : v[i] \in Rational
  <2>1. \A i \in 1 .. M : i \in 1 .. N /\ i + 1 \in 1 .. N
    OBVIOUS
  <2>2. k \in 1 .. N /\ k + 1 \in 1 .. N
    OBVIOUS
  <2>3. Plus(w[k], w[k + 1]) \in Rational
    BY <2>2, PlusLaws
  <2> QED
    BY <2>1, <2>3
<1>3. /\ SumTo(v, 0) = Zero /\ SumTo(w, 0) = Zero
      /\ \A n \in 0 .. N : SumTo(w, n) \in Rational
      /\ \A n \in 1 .. N : SumTo(w, n) = Plus(SumTo(w, n - 1), w[n])
  BY <1>1, <1>2, SumFacts
<1>4. \A n \in 1 .. M : SumTo(v, n) = Plus(SumTo(v, n - 1), v[n])
  <2> HIDE DEF M
  <2> QED
    BY <1>1, <1>2, SumFacts
<1>5. 0 \in S
  BY <1>1, <1>3
<1>6. ASSUME NEW n \in 0 .. M - 1, n \in S
      PROVE  n + 1 \in S
  <2> DEFINE j == n + 1
             l == j + 1
  <2>1. /\ j \in 1 .. M /\ j - 1 = n /\ j \in 0 .. M /\ n \in 0 .. N
        /\ l \in 1 .. N /\ l - 1 = j /\ j \in 1 .. N
    OBVIOUS
  <2>2. n \in Int /\ j \in Int /\ (n < k <=> j <= k)
    OBVIOUS
  <2>3. l = j + 1 /\ n + 1 = j
    OBVIOUS
  <2> HIDE DEF j, l
  <2>4. SumTo(v, j) = Plus(SumTo(v, n), v[j])
    BY <1>4, <2>1
  <2>5. v[j] = IF j < k THEN w[j] ELSE IF j = k THEN Plus(w[j], w[l]) ELSE w[l]
    BY <2>1, <2>3
  <2>6. SumTo(v, n) = IF n < k THEN SumTo(w, n) ELSE SumTo(w, j)
    BY <1>6, <2>3
  <2>7. /\ SumTo(w, j) = Plus(SumTo(w, n), w[j]) /\ SumTo(w, l) = Plus(SumTo(w, j), w[l])
        /\ SumTo(w, n) \in Rational /\ w[j] \in Rational /\ w[l] \in Rational
    BY <1>3, <2>1
  <2>8. Plus(SumTo(w, n), Plus(w[j], w[l])) = Plus(Plus(SumTo(w, n), w[j]), w[l])
    BY <2>7, PlusAssociates
  <2>9. SumTo(v, j) = IF j < k THEN SumTo(w, j) ELSE SumTo(w, l)
    BY <2>2, <2>4, <2>5, <2>6, <2>7, <2>8
  <2> QED
    BY <2>1, <2>3, <2>9
<1>7. \A n \in 0 .. M : n \in S
  <2> HIDE DEF S, M
  <2> QED
    BY <1>1, <1>5, <1>6, Induction
<1>8. M \in S
  BY <1>1, <1>7
<1> QED
  BY <1>1, <1>8

\* A bound on each number is one on the sum.
LEMMA SumBound ==
    ASSUME NEW w, NEW N \in Nat, NEW v, NEW F \in Rational,
           \A i \in 1 .. N : /\ w[i] \in Rational /\ v[i] \in Rational
                             /\ Leq(v[i], Times(w[i], F))
    PROVE  Leq(SumTo(v, N), Times(SumTo(w, N), F))
<1> DEFINE S == {n \in 0 .. N : Leq(SumTo(v, n), Times(SumTo(w, n), F))}
<1>1. /\ SumTo(w, 0) = Zero
      /\ \A n \in 0 .. N : SumTo(w, n) \in Rational
      /\ \A n \in 1 .. N : SumTo(w, n) = Plus(SumTo(w, n - 1), w[n])
  BY SumFacts
<1>2. /\ SumTo(v, 0) = Zero
      /\ \A n \in 0 .. N : SumTo(v, n) \in Rational
      /\ \A n \in 1 .. N : SumTo(v, n) = Plus(SumTo(v, n - 1), v[n])
  BY SumFacts
<1>3. 0 \in S
  <2>1. Times(Zero, F) = Zero /\ Leq(Zero, Zero)
    BY ZeroFacts, TimesLaws, OrderLaws
  <2> QED
    BY <1>1, <1>2, <2>1
<1>4. ASSUME NEW n \in 0 .. N - 1, n \in S
      PROVE  n + 1 \in S
  <2> DEFINE j == n + 1
             a == SumTo(v, n)
             b == v[j]
             c == SumTo(w, n)
             d == w[j]
  <2>1. j \in 1 .. N /\ j - 1 = n /\ j \in 0 .. N /\ n \in 0 .. N
    OBVIOUS
  <2> HIDE DEF j
  <2>2. /\ a \in Rational /\ b \in Rational /\ c \in Rational /\ d \in Rational
        /\ SumTo(v, j) = Plus(a, b) /\ SumTo(w, j) = Plus(c, d)
        /\ Leq(b, Times(d, F))
    BY <1>1, <1>2, <2>1
  <2>3. Leq(a, Times(c, F))
    BY <1>4
  <2> HIDE DEF a, b, c, d
  <2>4. /\ Times(c, F) \in Rational /\ Times(d, F) \in Rational
        /\ Times(Plus(c, d), F) = Plus(Times(c, F), Times(d, F))
    BY <2>2, TimesLaws, PlusLaws
  <2>5. Leq(Plus(a, b), Plus(Times(c, F), Times(d, F)))
    <3> DEFINE x == Times(c, F)
               y == Times(d, F)
    <3>1. x \in Rational /\ y \in Rational /\ Leq(a, x) /\ Leq(b, y)
      BY <2>2, <2>3, <2>4
    <3> HIDE DEF x, y
    <3>2. Leq(Plus(a, b), Plus(x, b)) /\ Leq(Plus(b, x), Plus(y, x))
      BY <2>2, <3>1, OrderLaws
    <3>3. /\ Plus(b, x) = Plus(x, b) /\ Plus(y, x) = Plus(x, y)
          /\ Plus(a, b) \in Rational /\ Plus(x, b) \in Rational /\ Plus(x, y) \in Rational
      BY <2>2, <3>1, PlusLaws
    <3>4. Leq(Plus(a, b), Plus(x, y))
      BY <3>2, <3>3, OrderLaws
    <3> QED
      BY <3>4 DEF x, y
  <2>6. Leq(SumTo(v, j), Times(SumTo(w, j), F))
    BY <2>2, <2>4, <2>5
  <2> QED
    BY <2>1, <2>6 DEF j
<1>5. \A n \in 0 .. N : n \in S
  <2> HIDE DEF S
  <2> QED
    BY <1>3, <1>4, Induction
<1> QED
  BY <1>5

-----------------------------------------------------------------------------
(* Differences. *)

LEMMA MinusLaws ==
    ASSUME NEW x \in Rational, NEW y \in Rational, NEW z \in Rational
    PROVE  /\ Minus(x, y) \in Rational
           /\ Plus(Minus(x, y), y) = x
           /\ Minus(Plus(x, y), y) = x
           /\ Minus(x, Plus(y, z)) = Minus(Minus(x, y), z)
<1> DEFINE n == x[1]
           d == x[2]
           m == y[1]
           e == y[2]
           k == z[1]
           f == z[2]
<1>1. /\ n \in Int /\ d \in Nat \ {0} /\ IsQuotient(x, n, d)
      /\ m \in Int /\ e \in Nat \ {0} /\ IsQuotient(y, m, e)
      /\ k \in Int /\ f \in Nat \ {0} /\ IsQuotient(z, k, f)
  BY Parts
<1> HIDE DEF n, d, m, e, k, f
<1>2. /\ d * e \in Nat \ {0} /\ e * f \in Nat \ {0}
      /\ (d * e) * e \in Nat \ {0} /\ (d * e) * e \in Int \ {0}
      /\ (d * e) * f \in Nat \ {0} /\ (d * e) * f \in Int \ {0}
      /\ (d * e) * f = d * (e * f)
  BY <1>1, Products
<1>3. /\ Minus(x, y) \in Rational /\ IsQuotient(Minus(x, y), n * e - m * d, d * e)
      /\ Plus(x, y) \in Rational /\ IsQuotient(Plus(x, y), n * e + m * d, d * e)
      /\ Plus(y, z) \in Rational /\ IsQuotient(Plus(y, z), m * f + k * e, e * f)
  BY <1>1, ArithmeticFacts
<1>4. n * e - m * d \in Int /\ n * e + m * d \in Int /\ m * f + k * e \in Int
  BY <1>1
<1>5. IsQuotient(x, n * (e * e), (d * e) * e)
  <2>1. x[1] \in Int /\ x[2] \in Int /\ x[1] * d = n * x[2]
    BY Parts DEF IsQuotient, n, d
  <2> DEFINE a == x[1]
             b == x[2]
  <2>2. a \in Int /\ b \in Int /\ a * d = n * b
    BY <2>1
  <2> HIDE DEF a, b
  <2>3. a * ((d * e) * e) = (a * d) * (e * e)
    BY <1>1, <2>2
  <2>4. (n * (e * e)) * b = (n * b) * (e * e)
    BY <1>1, <2>2
  <2>5. a * ((d * e) * e) = (n * (e * e)) * b
    BY <2>2, <2>3, <2>4
  <2> QED
    BY <2>5 DEF IsQuotient, a, b
<1>6. Plus(Minus(x, y), y) = x
  <2> DEFINE l == Plus(Minus(x, y), y)
  <2>1. l \in Rational /\ IsQuotient(l, (n * e - m * d) * e + m * (d * e), (d * e) * e)
    BY <1>1, <1>2, <1>3, <1>4, ArithmeticFacts
  <2>2. (n * e - m * d) * e + m * (d * e) = n * (e * e) /\ n * (e * e) \in Int
    BY <1>1
  <2> HIDE DEF l
  <2>3. IsQuotient(l, n * (e * e), (d * e) * e)
    BY <2>1, <2>2
  <2>4. l = x
    BY <1>2, <1>5, <2>1, <2>2, <2>3, SameQuotient
  <2> QED
    BY <2>4 DEF l
<1>7. Minus(Plus(x, y), y) = x
  <2> DEFINE l == Minus(Plus(x, y), y)
  <2>1. l \in Rational /\ IsQuotient(l, (n * e + m * d) * e - m * (d * e), (d * e) * e)
    BY <1>1, <1>2, <1>3, <1>4, ArithmeticFacts
  <2>2. (n * e + m * d) * e - m * (d * e) = n * (e * e) /\ n * (e * e) \in Int
    BY <1>1
  <2> HIDE DEF l
  <2>3. IsQuotient(l, n * (e * e), (d * e) * e)
    BY <2>1, <2>2
  <2>4. l = x
    BY <1>2, <1>5, <2>1, <2>2, <2>3, SameQuotient
  <2> QED
    BY <2>4 DEF l
<1>8. Minus(x, Plus(y, z)) = Minus(Minus(x, y), z)
  <2> DEFINE l == Minus(x, Plus(y, z))
             r == Minus(Minus(x, y), z)
             p == n * (e * f) - (m * f + k * e) * d
  <2>1. /\ l \in Rational
        /\ IsQuotient(l, n * (e * f) - (m * f + k * e) * d, d * (e * f))
    BY <1>1, <1>2, <1>3, <1>4, ArithmeticFacts
  <2>2. /\ r \in Rational
        /\ IsQuotient(r, (n * e - m * d) * f - k * (d * e), (d * e) * f)
    BY <1>1, <1>2, <1>3, <1>4, ArithmeticFacts
  <2>3. (n * e - m * d) * f - k * (d * e) = p /\ p \in Int
    BY <1>1
  <2>4. IsQuotient(l, p, (d * e) * f)
    BY <1>2, <2>1
  <2>5. IsQuotient(r, p, (d * e) * f)
    BY <2>2, <2>3
  <2> HIDE DEF l, r, p
  <2>6. l = r
    BY <1>2, <2>1, <2>2, <2>3, <2>4, <2>5, SameQuotient
  <2> QED
    BY <2>6 DEF l, r
<1> QED
  BY <1>3, <1>6, <1>7, <1>8

LEMMA MinusOrder ==
    ASSUME NEW x \in Rational, NEW y \in Rational, NEW z \in Rational
    PROVE  /\ Less(x, y) => Less(Plus(x, z), Plus(y, z))
           /\ Less(x, y) => Less(Minus(x, z), Minus(y, z))
           /\ Leq(Zero, Minus(x, y)) <=> Leq(y, x)
<1>1. ASSUME NEW a \in Rational, NEW b \in Rational, NEW c \in Rational,
             Leq(Plus(a, c), Plus(b, c))
      PROVE  Leq(a, b)
  <2> DEFINE n == Minus(Zero, c)
  <2>1. n \in Rational /\ Plus(n, c) = Zero
    BY ZeroFacts, MinusLaws
  <2> HIDE DEF n
  <2>2. Plus(a, c) \in Rational /\ Plus(b, c) \in Rational /\ Plus(c, n) = Zero
    BY <2>1, PlusLaws
  <2>3. Leq(Plus(Plus(a, c), n), Plus(Plus(b, c), n))
    BY <1>1, <2>1, <2>2, OrderLaws
  <2>4. Plus(Plus(a, c), n) = Plus(a, Plus(c, n)) /\ Plus(Plus(b, c), n) = Plus(b, Plus(c, n))
    BY <2>1, PlusAssociates
  <2>5. Plus(a, Zero) = a /\ Plus(b, Zero) = b
    BY PlusLaws
  <2> QED
    BY <2>2, <2>3, <2>4, <2>5
<1>2. Less(x, y) => Less(Plus(x, z), Plus(y, z))
  BY <1>1 DEF Leq
<1>3. Less(x, y) => Less(Minus(x, z), Minus(y, z))
  <2> DEFINE a == Minus(x, z)
             b == Minus(y, z)
  <2>1. a \in Rational /\ b \in Rational /\ Plus(a, z) = x /\ Plus(b, z) = y
    BY MinusLaws
  <2> HIDE DEF a, b
  <2>2. Leq(b, a) => Leq(y, x)
    BY <2>1, OrderLaws
  <2>3. Less(x, y) => Less(a, b)
    BY <2>2 DEF Leq
  <2> QED
    BY <2>3 DEF a, b
<1>4. Leq(Zero, Minus(x, y)) <=> Leq(y, x)
  <2> DEFINE a == Minus(x, y)
  <2>1. a \in Rational /\ Plus(a, y) = x
    BY MinusLaws
  <2> HIDE DEF a
  <2>2. Zero \in Rational /\ Plus(Zero, y) = y
    BY ZeroFacts, PlusLaws
  <2>3. Leq(Zero, a) => Leq(y, x)
    BY <2>1, <2>2, OrderLaws
  <2>4. Leq(y, x) => Leq(Zero, a)
    BY <1>1, <2>1, <2>2
  <2> QED
    BY <2>3, <2>4 DEF a
<1> QED
  BY <1>2, <1>3, <1>4

\* Multiplying by what is positive.
LEMMA TimesStrict ==
    ASSUME NEW x \in Rational, NEW y \in Rational, NEW z \in Rational,
           Less(x, y), Less(Zero, z)
    PROVE  Less(Times(x, z), Times(y, z))
<1> DEFINE a == Times(x, z)
           q == Over(a, z)
<1>1. a \in Rational /\ Times(y, z) \in Rational
  BY TimesLaws
<1>2. /\ q \in Rational
      /\ Leq(y, q) <=> Leq(Times(y, z), a)
      /\ Leq(q, x) <=> Leq(a, Times(x, z))
  <2> HIDE DEF a
  <2> QED
    BY <1>1, OverLaws
<1>3. Leq(a, Times(x, z))
  BY <1>1, OrderLaws
<1> HIDE DEF a, q
<1>4. ~Leq(y, x)
  BY DEF Leq
<1>5. ~Leq(Times(y, z), a)
  BY <1>2, <1>3, <1>4, OrderLaws
<1> QED
  BY <1>5 DEF Leq, a

\* Halves and doubles.
LEMMA HalfFacts ==
    /\ Ratio(1, 2) \in Rational /\ Less(Zero, Ratio(1, 2))
    /\ \A x \in Rational : /\ Times(Ratio(1, 2), x) \in Rational
                           /\ Plus(Times(Ratio(1, 2), x), Times(Ratio(1, 2), x)) = x
                           /\ Times(Rat(2), x) = Plus(x, x)
                           /\ Plus(Times(Rat(-2), x), Plus(x, x)) = Zero
                           /\ Times(Rat(-2), x) \in Rational
<1> DEFINE H == Ratio(1, 2)
<1>1. H \in Rational /\ IsQuotient(H, 1, 2)
  BY RatioIsQuotient
<1> HIDE DEF H
<1>2. Less(Zero, H)
  <2>1. Zero \in Rational /\ IsQuotient(Zero, 0, 1)
    BY ZeroFacts
  <2>2. Less(Zero, H) <=> 0 * 2 < 1 * 1
    BY <1>1, <2>1, OrderFacts
  <2> QED
    BY <2>2
<1>3. One \in Rational /\ IsQuotient(One, 1, 1) /\ IsQuotient(One, 4, 4)
  BY ZeroFacts DEF One, Rat, IsQuotient
<1>4. Plus(H, H) = One
  <2>1. Plus(H, H) \in Rational /\ IsQuotient(Plus(H, H), 1 * 2 + 1 * 2, 2 * 2)
    BY <1>1, ArithmeticFacts
  <2>2. 1 * 2 + 1 * 2 = 4 /\ 2 * 2 = 4
    OBVIOUS
  <2>3. IsQuotient(Plus(H, H), 4, 4)
    BY <2>1, <2>2
  <2> QED
    BY <1>3, <2>1, <2>3, SameQuotient
<1>5. Rat(2) \in Rational /\ IsQuotient(Rat(2), 2, 1) /\ Rat(-2) \in Rational /\ IsQuotient(Rat(-2), -2, 1)
  BY RatFacts
<1>6. Plus(One, One) = Rat(2)
  <2>1. Plus(One, One) \in Rational /\ IsQuotient(Plus(One, One), 1 * 1 + 1 * 1, 1 * 1)
    BY <1>3, ArithmeticFacts
  <2>2. 1 * 1 + 1 * 1 = 2 /\ 1 * 1 = 1
    OBVIOUS
  <2>3. IsQuotient(Plus(One, One), 2, 1)
    BY <2>1, <2>2
  <2> QED
    BY <1>5, <2>1, <2>3, SameQuotient
<1>7. Plus(Rat(-2), Rat(2)) = Zero
  <2>1. /\ Plus(Rat(-2), Rat(2)) \in Rational
        /\ IsQuotient(Plus(Rat(-2), Rat(2)), (-2) * 1 + 2 * 1, 1 * 1)
    BY <1>5, ArithmeticFacts
  <2>2. (-2) * 1 + 2 * 1 = 0 /\ 1 * 1 = 1
    OBVIOUS
  <2>3. IsQuotient(Plus(Rat(-2), Rat(2)), 0, 1)
    BY <2>1, <2>2
  <2> QED
    BY <2>1, <2>3, ZeroFacts, SameQuotient
<1>8. ASSUME NEW x \in Rational
      PROVE  /\ Times(H, x) \in Rational
             /\ Plus(Times(H, x), Times(H, x)) = x
             /\ Times(Rat(2), x) = Plus(x, x)
             /\ Plus(Times(Rat(-2), x), Plus(x, x)) = Zero
             /\ Times(Rat(-2), x) \in Rational
  <2>1. Times(One, x) = x /\ Times(Zero, x) = Zero
    BY <1>3, ZeroFacts, TimesLaws
  <2>2. Times(Plus(H, H), x) = Plus(Times(H, x), Times(H, x))
    BY <1>1, PlusLaws
  <2>3. Times(Plus(One, One), x) = Plus(Times(One, x), Times(One, x))
    BY <1>3, PlusLaws
  <2>4. Times(Plus(Rat(-2), Rat(2)), x) = Plus(Times(Rat(-2), x), Times(Rat(2), x))
    BY <1>5, PlusLaws
  <2>5. Times(H, x) \in Rational /\ Times(Rat(-2), x) \in Rational
    BY <1>1, <1>5, TimesLaws
  <2> QED
    BY <1>4, <1>6, <1>7, <2>1, <2>2, <2>3, <2>4, <2>5
<1> QED
  BY <1>1, <1>2, <1>8 DEF H
=============================================================================
