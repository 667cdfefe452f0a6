-------------------------- MODULE Statistics_proofs --------------------------
(***************************************************************************)
(* Proofs about Statistics for any values, times, moving interval, number  *)
(* of bins and configurations of tags: everything that a configured tag    *)
(* needs is computed, the quantities over the moving interval expire with  *)
(* it and decay alike, the histogram keeps its shape and its contents, and *)
(* quantiles are found in it. The lemmas about the quantities over the     *)
(* interval and about the histogram come first: shifting multiplies by a   *)
(* factor, and factors compose; every operation keeps the bins in order,   *)
(* within the values and within the configured number, and the amount of   *)
(* data and its mean.                                                      *)
(***************************************************************************)
EXTENDS Statistics, Rationals_proofs, SequenceTheorems, TLAPS

-----------------------------------------------------------------------------
(* Quantities over the interval. *)

\* What is not negative: amounts of data.
Amount == {x \in Rational : Leq(Zero, x)}

\* What shift_interval_data() leaves of a quantity.
Factor(data_timestamp, m_timestamp, timestamp) ==
    IF timestamp <= m_timestamp THEN One
    ELSE IF stale_interval(data_timestamp, timestamp) <= 0 THEN Zero
    ELSE Ratio(stale_interval(data_timestamp, timestamp),
               Covered(data_timestamp, m_timestamp))

LEMMA AmountFacts ==
    /\ Amount \subseteq Rational /\ Zero \in Amount /\ One \in Amount
    /\ \A x, y \in Amount : Plus(x, y) \in Amount /\ Times(x, y) \in Amount
    /\ \A n \in Nat, d \in Nat \ {0} : Ratio(n, d) \in Amount
<1>1. Zero \in Rational /\ One \in Rational /\ Leq(Zero, Zero) /\ Leq(Zero, One)
  <2>1. Zero \in Rational /\ One \in Rational /\ Zero[1] = 0 /\ One[1] = 1
    BY ZeroFacts DEF Zero, One, Rat
  <2> QED
    BY <2>1, Signs
<1>2. ASSUME NEW x \in Amount, NEW y \in Amount
      PROVE  Plus(x, y) \in Amount /\ Times(x, y) \in Amount
  <2>1. x \in Rational /\ y \in Rational /\ Leq(Zero, x) /\ Leq(Zero, y)
    BY DEF Amount
  <2>2. /\ Plus(x, y) \in Rational /\ Plus(Zero, y) = y
        /\ Times(x, y) \in Rational /\ Times(Zero, y) = Zero
    BY <1>1, <2>1, PlusLaws, TimesLaws
  <2>3. Leq(y, Plus(x, y)) /\ Leq(Zero, Times(x, y))
    BY <1>1, <2>1, <2>2, OrderLaws
  <2>4. Leq(Zero, Plus(x, y))
    BY <1>1, <2>1, <2>2, <2>3, OrderLaws
  <2> QED
    BY <2>2, <2>3, <2>4 DEF Amount
<1>3. ASSUME NEW n \in Nat, NEW d \in Nat \ {0}
      PROVE  Ratio(n, d) \in Amount
  <2>1. Ratio(n, d) \in Rational /\ IsQuotient(Ratio(n, d), n, d)
    BY RatioIsQuotient
  <2>2. Leq(Zero, Ratio(n, d)) <=> 0 * d <= n * 1
    BY <2>1, ZeroFacts, OrderFacts
  <2> QED
    BY <2>1, <2>2 DEF Amount
<1> QED
  BY <1>1, <1>2, <1>3 DEF Amount

\* Shifting multiplies by a factor that does not depend on the quantity.
LEMMA ShiftIsTimes ==
    ASSUME NEW d \in Int, NEW m \in Int, NEW t \in Int
    PROVE  /\ Factor(d, m, t) \in Amount
           /\ \A x \in Rational : shift_interval_data(x, d, m, t) = Times(x, Factor(d, m, t))
<1>1. MovingInterval \in Nat \ {0}
  BY IntervalAssumption
<1>2. CASE t <= m
  BY <1>2, AmountFacts, TimesLaws, ZeroFacts DEF Factor, shift_interval_data
<1>3. CASE ~(t <= m) /\ stale_interval(d, t) <= 0
  BY <1>3, AmountFacts, TimesLaws, ZeroFacts DEF Factor, shift_interval_data
<1>4. CASE ~(t <= m) /\ ~(stale_interval(d, t) <= 0)
  <2>1. stale_interval(d, t) \in Nat /\ Covered(d, m) \in Nat \ {0}
    BY <1>1, <1>4 DEF stale_interval, Covered
  <2> QED
    BY <1>4, <2>1, AmountFacts DEF Factor, shift_interval_data
<1> QED
  BY <1>2, <1>3, <1>4

LEMMA ShiftTyped ==
    ASSUME NEW d \in Int, NEW m \in Int, NEW t \in Int
    PROVE  /\ \A x \in Rational : shift_interval_data(x, d, m, t) \in Rational
           /\ \A x \in Amount : shift_interval_data(x, d, m, t) \in Amount
<1> DEFINE k == Factor(d, m, t)
<1>1. /\ k \in Amount /\ k \in Rational
      /\ \A x \in Rational : shift_interval_data(x, d, m, t) = Times(x, k)
  BY ShiftIsTimes DEF Amount
<1>2. \A x \in Rational : Times(x, k) \in Rational
  BY <1>1, TimesLaws
<1> QED
  BY <1>1, <1>2, AmountFacts

\* A shift to a later time by way of an earlier one.
LEMMA FactorComposes ==
    ASSUME NEW d \in Int, NEW m \in Int, NEW t1 \in Int, NEW t2 \in Int, m < t1, t1 < t2
    PROVE  Times(Factor(d, m, t1), Factor(d, t1, t2)) = Factor(d, m, t2)
<1>1. MovingInterval \in Nat \ {0}
  BY IntervalAssumption
<1> DEFINE a == stale_interval(d, t1)
           b == stale_interval(d, t2)
           c == Covered(d, m)
<1>2. /\ a \in Int /\ b \in Int /\ c \in Int /\ b < a /\ a < c
      /\ Covered(d, t1) = a
  BY <1>1 DEF stale_interval, Covered
<1>3. /\ Factor(d, m, t1) = IF a <= 0 THEN Zero ELSE Ratio(a, c)
      /\ Factor(d, t1, t2) = IF b <= 0 THEN Zero ELSE Ratio(b, a)
      /\ Factor(d, m, t2) = IF b <= 0 THEN Zero ELSE Ratio(b, c)
  BY <1>2 DEF Factor
<1> HIDE DEF a, b, c
<1>4. CASE b <= 0
  <2>1. Factor(d, m, t1) \in Rational
    BY ShiftIsTimes, AmountFacts
  <2> QED
    BY <1>3, <1>4, <2>1, TimesLaws, ZeroFacts
<1>5. CASE ~(b <= 0)
  <2>1. a \in Nat \ {0} /\ c \in Nat \ {0} /\ ~(a <= 0)
    BY <1>2, <1>5
  <2>2. Times(Ratio(a, c), Ratio(b, a)) = Ratio(b, c)
    BY <1>2, <2>1, RatioChain
  <2> QED
    BY <1>3, <1>5, <2>1, <2>2
<1> QED
  BY <1>4, <1>5

LEMMA ShiftComposes ==
    ASSUME NEW d \in Int, NEW m \in Int, NEW t1 \in Int, NEW t2 \in Int, m < t1, t1 < t2,
           NEW x \in Rational
    PROVE  shift_interval_data(shift_interval_data(x, d, m, t1), d, t1, t2)
               = shift_interval_data(x, d, m, t2)
<1> DEFINE p == Factor(d, m, t1)
           q == Factor(d, t1, t2)
           y == Times(x, p)
<1>1. p \in Rational /\ q \in Rational /\ y \in Rational
  BY ShiftIsTimes, AmountFacts, TimesLaws
<1>2. /\ shift_interval_data(x, d, m, t1) = y
      /\ shift_interval_data(y, d, t1, t2) = Times(y, q)
      /\ shift_interval_data(x, d, m, t2) = Times(x, Factor(d, m, t2))
  BY <1>1, ShiftIsTimes
<1>3. Times(y, q) = Times(x, Times(p, q)) /\ Times(p, q) = Factor(d, m, t2)
  BY <1>1, TimesLaws, FactorComposes
<1> QED
  BY <1>2, <1>3

\* The sum s of c values, c a fraction, lies between c times the smallest and
\* c times the largest of the values V.
Between(V, c, s) ==
    /\ c \in Amount /\ s \in Rational
    /\ \/ c = Zero /\ s = Zero
       \/ /\ \E v \in V : Leq(Times(Rat(v), c), s)
          /\ \E v \in V : Leq(s, Times(Rat(v), c))

LEMMA BetweenScaled ==
    ASSUME NEW V \in SUBSET Int, NEW c, NEW s, Between(V, c, s), NEW k \in Amount
    PROVE  Between(V, Times(c, k), Times(s, k))
<1>1. c \in Amount /\ c \in Rational /\ s \in Rational /\ k \in Rational /\ Leq(Zero, k)
  BY DEF Between, Amount
<1>2. Times(c, k) \in Amount /\ Times(s, k) \in Rational /\ Times(c, k) \in Rational
  BY <1>1, AmountFacts, TimesLaws
<1>3. CASE c = Zero /\ s = Zero
  <2>1. Times(Zero, k) = Zero
    BY <1>1, ZeroFacts, TimesLaws
  <2> QED
    BY <1>2, <1>3, <2>1 DEF Between
<1>4. ASSUME NEW v \in V
      PROVE  /\ Leq(Times(Rat(v), c), s) => Leq(Times(Rat(v), Times(c, k)), Times(s, k))
             /\ Leq(s, Times(Rat(v), c)) => Leq(Times(s, k), Times(Rat(v), Times(c, k)))
  <2>1. Rat(v) \in Rational
    BY RatFacts
  <2>2. /\ Times(Rat(v), c) \in Rational
        /\ Times(Times(Rat(v), c), k) = Times(Rat(v), Times(c, k))
    BY <1>1, <2>1, TimesLaws
  <2> QED
    BY <1>1, <2>2, OrderLaws
<1> QED
  BY <1>2, <1>3, <1>4 DEF Between

LEMMA BetweenAdded ==
    ASSUME NEW V \in SUBSET Int, NEW c, NEW s, Between(V, c, s), NEW v \in Int
    PROVE  Between(V \cup {v}, Plus(Rat(1), c), Plus(Rat(v), s))
<1>1. /\ c \in Amount /\ c \in Rational /\ s \in Rational /\ Leq(Zero, c)
      /\ Rat(1) = One /\ One \in Amount /\ One \in Rational /\ Rat(v) \in Rational
  BY AmountFacts, RatFacts DEF Between, Amount, One
<1>2. Plus(One, c) \in Amount /\ Plus(One, c) \in Rational /\ Plus(Rat(v), s) \in Rational
  BY <1>1, AmountFacts, PlusLaws
<1>3. CASE c = Zero /\ s = Zero
  <2>1. Plus(One, Zero) = One /\ Plus(Rat(v), Zero) = Rat(v) /\ Times(Rat(v), One) = Rat(v)
    BY <1>1, PlusLaws, TimesLaws
  <2>2. Leq(Rat(v), Rat(v))
    BY <1>1, OrderLaws
  <2> QED
    BY <1>1, <1>2, <1>3, <2>1, <2>2 DEF Between
\* Between v and w, the sum moves no further than the new value or the old bound.
<1>4. ASSUME NEW w \in V
      PROVE  /\ Leq(Times(Rat(w), c), s) =>
                  \E u \in {v, w} : Leq(Times(Rat(u), Plus(One, c)), Plus(Rat(v), s))
             /\ Leq(s, Times(Rat(w), c)) =>
                  \E u \in {v, w} : Leq(Plus(Rat(v), s), Times(Rat(u), Plus(One, c)))
  <2>1. ASSUME NEW u \in Int
        PROVE  /\ Rat(u) \in Rational /\ Times(Rat(u), c) \in Rational
               /\ Times(Rat(u), Plus(One, c)) = Plus(Rat(u), Times(Rat(u), c))
               /\ Plus(Rat(u), Times(Rat(u), c)) \in Rational
    <3>1. Rat(u) \in Rational
      BY RatFacts
    <3>2. /\ Times(Rat(u), c) \in Rational /\ Times(c, Rat(u)) = Times(Rat(u), c)
          /\ Times(One, Rat(u)) = Rat(u)
          /\ Times(Rat(u), Plus(One, c)) = Times(Plus(One, c), Rat(u))
      BY <1>1, <1>2, <3>1, TimesLaws
    <3>3. /\ Times(Plus(One, c), Rat(u)) = Plus(Times(One, Rat(u)), Times(c, Rat(u)))
          /\ Plus(Rat(u), Times(Rat(u), c)) \in Rational
      BY <1>1, <3>1, <3>2, PlusLaws
    <3> QED
      BY <3>1, <3>2, <3>3
  <2>2. ASSUME NEW x \in Int, NEW y \in Int, x <= y
        PROVE  Leq(Rat(x), Rat(y)) /\ Leq(Times(Rat(x), c), Times(Rat(y), c))
    <3>1. Leq(Rat(x), Rat(y))
      <4>1. /\ Rat(x) \in Rational /\ IsQuotient(Rat(x), x, 1)
            /\ Rat(y) \in Rational /\ IsQuotient(Rat(y), y, 1)
        BY RatFacts
      <4>2. Leq(Rat(x), Rat(y)) <=> x * 1 <= y * 1
        BY <4>1, OrderFacts
      <4> QED
        BY <2>2, <4>2
    <3> QED
      BY <1>1, <2>1, <3>1, OrderLaws
\* Sums keep the order on both sides.
  <2>3. ASSUME NEW x \in Rational, NEW y \in Rational, NEW x1 \in Rational,
               NEW y1 \in Rational, Leq(x, y), Leq(x1, y1)
        PROVE  Leq(Plus(x, x1), Plus(y, y1))
    <3>1. /\ Leq(Plus(x, x1), Plus(y, x1)) /\ Leq(Plus(x1, y), Plus(y1, y))
      BY <2>3, OrderLaws
    <3>2. /\ Plus(x, x1) \in Rational /\ Plus(y, x1) \in Rational /\ Plus(y, y1) \in Rational
          /\ Plus(x1, y) = Plus(y, x1) /\ Plus(y1, y) = Plus(y, y1)
      BY PlusLaws
    <3> QED
      BY <3>1, <3>2, OrderLaws
  <2>4. w \in Int /\ (v <= w \/ w <= v)
    OBVIOUS
  <2>5. Leq(Rat(v), Rat(v)) /\ Leq(Rat(w), Rat(w))
    BY <2>1, <2>4, OrderLaws
  <2>6. ASSUME Leq(Times(Rat(w), c), s)
        PROVE  \E u \in {v, w} : Leq(Times(Rat(u), Plus(One, c)), Plus(Rat(v), s))
    <3>1. CASE v <= w
      <4>1. Leq(Times(Rat(v), c), s)
        BY <1>1, <2>1, <2>2, <2>4, <2>6, <3>1, OrderLaws
      <4>2. Leq(Plus(Rat(v), Times(Rat(v), c)), Plus(Rat(v), s))
        BY <1>1, <2>1, <2>3, <2>5, <4>1
      <4> QED
        BY <2>1, <4>2
    <3>2. CASE w <= v
      <4>1. Leq(Plus(Rat(w), Times(Rat(w), c)), Plus(Rat(v), s))
        BY <1>1, <2>1, <2>2, <2>3, <2>4, <2>6, <3>2
      <4> QED
        BY <2>1, <2>4, <4>1
    <3> QED
      BY <2>4, <3>1, <3>2
  <2>7. ASSUME Leq(s, Times(Rat(w), c))
        PROVE  \E u \in {v, w} : Leq(Plus(Rat(v), s), Times(Rat(u), Plus(One, c)))
    <3>1. CASE w <= v
      <4>1. Leq(s, Times(Rat(v), c))
        BY <1>1, <2>1, <2>2, <2>4, <2>7, <3>1, OrderLaws
      <4>2. Leq(Plus(Rat(v), s), Plus(Rat(v), Times(Rat(v), c)))
        BY <1>1, <2>1, <2>3, <2>5, <4>1
      <4> QED
        BY <2>1, <4>2
    <3>2. CASE v <= w
      <4>1. Leq(Plus(Rat(v), s), Plus(Rat(w), Times(Rat(w), c)))
        BY <1>1, <2>1, <2>2, <2>3, <2>4, <2>7, <3>2
      <4> QED
        BY <2>1, <2>4, <4>1
    <3> QED
      BY <2>4, <3>1, <3>2
  <2> QED
    BY <2>6, <2>7
<1> QED
  BY <1>1, <1>2, <1>3, <1>4 DEF Between

\* moving_count and moving_sum decay together, and take a value together.
LEMMA BetweenShifted ==
    ASSUME NEW V \in SUBSET Int, NEW c, NEW s, Between(V, c, s),
           NEW d \in Int, NEW m \in Int, NEW t \in Int
    PROVE  Between(V, shift_interval_data(c, d, m, t), shift_interval_data(s, d, m, t))
<1> DEFINE k == Factor(d, m, t)
<1>1. /\ k \in Amount
      /\ shift_interval_data(c, d, m, t) = Times(c, k)
      /\ shift_interval_data(s, d, m, t) = Times(s, k)
  BY ShiftIsTimes DEF Between, Amount
<1> QED
  BY <1>1, BetweenScaled

LEMMA BetweenUpdated ==
    ASSUME NEW V \in SUBSET Int, NEW c, NEW s, Between(V, c, s), NEW v \in Int,
           NEW d \in Int, NEW m \in Int, NEW t \in Int
    PROVE  Between(V \cup {v}, update_interval_data(c, d, 1, m, t),
                               update_interval_data(s, d, v, m, t))
<1> DEFINE x == shift_interval_data(c, d, m, t)
           y == shift_interval_data(s, d, m, t)
<1>1. Between(V, x, y)
  BY BetweenShifted
<1>2. CASE t < m - MovingInterval
  BY <1>2 DEF Between, update_interval_data
<1>3. CASE ~(t < m - MovingInterval)
  <2>1. Between(V \cup {v}, Plus(Rat(1), x), Plus(Rat(v), y))
    BY <1>1, BetweenAdded
  <2> QED
    BY <1>3, <2>1 DEF update_interval_data
<1> QED
  BY <1>2, <1>3

-----------------------------------------------------------------------------
(* Histograms. *)

\* The fractions from the smallest to the largest of the values V.
Hull(V) == {x \in Rational : /\ \E v \in V : Leq(Rat(v), x)
                             /\ \E v \in V : Leq(x, Rat(v))}

BinOver(V) == [center : Hull(V), count : Amount, timestamp : Int]

Ordered(h) == \A i, j \in DOMAIN h : i <= j => Leq(h[i].center, h[j].center)

HistogramOver(V) == {h \in Seq(BinOver(V)) : Ordered(h)}

LEMMA BinFacts ==
    ASSUME NEW V, NEW bin \in BinOver(V)
    PROVE  /\ bin.center \in Hull(V) /\ bin.center \in Rational
           /\ bin.count \in Amount /\ bin.count \in Rational /\ Leq(Zero, bin.count)
           /\ bin.timestamp \in Int
  BY DEF BinOver, Hull, Amount

LEMMA BinsOf ==
    ASSUME NEW V, NEW h \in HistogramOver(V)
    PROVE  /\ h \in Seq(BinOver(V)) /\ Len(h) \in Nat /\ DOMAIN h = 1 .. Len(h)
           /\ \A i \in DOMAIN h : h[i] \in BinOver(V)
           /\ Ordered(h)
  BY DEF HistogramOver

LEMMA NewBinTyped ==
    ASSUME NEW V \in SUBSET Int, NEW v \in V, NEW t \in Int
    PROVE  NewBin(v, t) \in BinOver(V)
<1>1. Rat(v) \in Rational /\ Leq(Rat(v), Rat(v))
  BY RatFacts, OrderLaws
<1> QED
  BY <1>1, AmountFacts DEF NewBin, BinOver, Hull

LEMMA MoreValues ==
    ASSUME NEW V, NEW W, V \subseteq W
    PROVE  HistogramOver(V) \subseteq HistogramOver(W)
<1>1. BinOver(V) \subseteq BinOver(W)
  BY DEF BinOver, Hull
<1> QED
  BY <1>1, SeqMonotonic DEF HistogramOver

LEMMA ShiftHistogram ==
    ASSUME NEW V, NEW h \in HistogramOver(V), NEW m \in Int, NEW t \in Int
    PROVE  LET g == shift_histogram(h, m, t) IN
           /\ g \in HistogramOver(V)
           /\ Len(g) = Len(h) /\ DOMAIN g = DOMAIN h
           /\ \A i \in DOMAIN h :
                /\ g[i].center = h[i].center /\ g[i].timestamp = h[i].timestamp
                /\ g[i].count = shift_interval_data(h[i].count, h[i].timestamp, m, t)
<1> DEFINE g == shift_histogram(h, m, t)
           n == Len(h)
<1>1. /\ h \in Seq(BinOver(V)) /\ n \in Nat /\ DOMAIN h = 1 .. n /\ Ordered(h)
      /\ \A i \in DOMAIN h : h[i] \in BinOver(V)
  BY BinsOf
<1>2. ASSUME NEW i \in DOMAIN h
      PROVE  /\ g[i] \in BinOver(V)
             /\ g[i].center = h[i].center /\ g[i].timestamp = h[i].timestamp
             /\ g[i].count = shift_interval_data(h[i].count, h[i].timestamp, m, t)
  <2> DEFINE c == shift_interval_data(h[i].count, h[i].timestamp, m, t)
  <2>1. g[i] = [h[i] EXCEPT !.count = c]
    BY DEF shift_histogram
  <2>2. c \in Amount
    BY <1>1, BinFacts, ShiftTyped
  <2> HIDE DEF c, g
  <2>3. h[i] \in BinOver(V)
    BY <1>1
  <2>4. /\ g[i] \in BinOver(V)
        /\ g[i].center = h[i].center /\ g[i].timestamp = h[i].timestamp
        /\ g[i].count = c
    BY <2>1, <2>2, <2>3 DEF BinOver
  <2> QED
    BY <2>4 DEF c
<1>3. DOMAIN g = DOMAIN h /\ g = [i \in 1 .. n |-> g[i]]
  BY <1>1 DEF shift_histogram
<1> HIDE DEF g, n
<1>4. g \in Seq(BinOver(V)) /\ Len(g) = n
  BY <1>1, <1>2, <1>3
<1>5. Ordered(g)
  BY <1>1, <1>2, <1>3 DEF Ordered
<1> QED
  BY <1>2, <1>3, <1>4, <1>5 DEF HistogramOver, g, n

\* Shifting twice is shifting once.
LEMMA ShiftHistogramComposes ==
    ASSUME NEW V, NEW h \in HistogramOver(V), NEW m \in Int, NEW t1 \in Int, NEW t2 \in Int,
           m < t1, t1 < t2
    PROVE  shift_histogram(shift_histogram(h, m, t1), t1, t2) = shift_histogram(h, m, t2)
<1> DEFINE g == shift_histogram(h, m, t1)
           l == shift_histogram(g, t1, t2)
           r == shift_histogram(h, m, t2)
<1>1. /\ g \in HistogramOver(V) /\ DOMAIN g = DOMAIN h
      /\ \A i \in DOMAIN h :
            /\ g[i].center = h[i].center /\ g[i].timestamp = h[i].timestamp
            /\ g[i].count = shift_interval_data(h[i].count, h[i].timestamp, m, t1)
  BY ShiftHistogram
<1> HIDE DEF g
<1>2. /\ l \in HistogramOver(V) /\ Len(l) = Len(g) /\ DOMAIN l = DOMAIN g
      /\ \A i \in DOMAIN g :
            /\ l[i].center = g[i].center /\ l[i].timestamp = g[i].timestamp
            /\ l[i].count = shift_interval_data(g[i].count, g[i].timestamp, t1, t2)
  BY <1>1, ShiftHistogram
<1>3. /\ r \in HistogramOver(V) /\ Len(r) = Len(h) /\ DOMAIN r = DOMAIN h
      /\ \A i \in DOMAIN h :
            /\ r[i].center = h[i].center /\ r[i].timestamp = h[i].timestamp
            /\ r[i].count = shift_interval_data(h[i].count, h[i].timestamp, m, t2)
  BY ShiftHistogram
<1> HIDE DEF l, r
<1>4. ASSUME NEW i \in DOMAIN h
      PROVE  l[i] = r[i]
  <2>1. h[i] \in BinOver(V) /\ l[i] \in BinOver(V) /\ r[i] \in BinOver(V)
    BY <1>1, <1>2, <1>3, BinsOf
  <2>2. l[i].count = r[i].count
    <3>1. h[i].count \in Rational /\ h[i].timestamp \in Int
      BY <2>1, BinFacts
    <3> QED
      BY <1>1, <1>2, <1>3, <3>1, ShiftComposes
  <2> QED
    BY <1>1, <1>2, <1>3, <2>1, <2>2 DEF BinOver
<1>5. l = r
  <2>1. l \in Seq(BinOver(V)) /\ r \in Seq(BinOver(V)) /\ Len(l) = Len(r) /\ DOMAIN h = 1 .. Len(l)
    BY <1>1, <1>2, <1>3, BinsOf
  <2> QED
    BY <1>4, <2>1, SeqEqual
<1> QED
  BY <1>5 DEF g, l, r

LEMMA InsertAtFacts ==
    ASSUME NEW S, NEW s \in Seq(S), NEW i \in 1 .. Len(s) + 1, NEW e \in S
    PROVE  /\ InsertAt(s, i, e) \in Seq(S)
           /\ Len(InsertAt(s, i, e)) = Len(s) + 1
           /\ \A j \in 1 .. Len(s) + 1 :
                InsertAt(s, i, e)[j] = IF j < i THEN s[j] ELSE IF j = i THEN e ELSE s[j - 1]
<1> DEFINE a == SubSeq(s, 1, i - 1)
           b == SubSeq(s, i, Len(s))
<1>1. Len(s) \in Nat /\ \A j \in 1 .. Len(s) : s[j] \in S
  OBVIOUS
<1>2. /\ a \in Seq(S) /\ Len(a) = i - 1
      /\ \A j \in 1 .. i - 1 : a[j] = s[j]
  BY <1>1, SubSeqProperties
<1>3. /\ b \in Seq(S) /\ Len(b) = Len(s) - i + 1
      /\ \A j \in 1 .. Len(s) - i + 1 : b[j] = s[i + j - 1]
  BY <1>1, SubSeqProperties
<1>4. InsertAt(s, i, e) = (a \o <<e>>) \o b
  BY DEF InsertAt
<1> HIDE DEF a, b
<1>5. /\ a \o <<e>> \in Seq(S) /\ Len(a \o <<e>>) = i
      /\ \A j \in 1 .. i : (a \o <<e>>)[j] = IF j < i THEN s[j] ELSE e
  <2>1. <<e>> \in Seq(S) /\ Len(<<e>>) = 1 /\ <<e>>[1] = e
    OBVIOUS
  <2> QED
    BY <1>1, <1>2, <2>1, ConcatProperties
<1>6. /\ (a \o <<e>>) \o b \in Seq(S)
      /\ Len((a \o <<e>>) \o b) = Len(s) + 1
      /\ \A j \in 1 .. Len(s) + 1 :
            ((a \o <<e>>) \o b)[j] = IF j <= i THEN (a \o <<e>>)[j] ELSE b[j - i]
  <2> DEFINE c == a \o <<e>>
  <2>1. c \in Seq(S) /\ b \in Seq(S) /\ Len(c) = i /\ i + Len(b) = Len(s) + 1
    BY <1>1, <1>3, <1>5
  <2> HIDE DEF c
  <2>2. /\ c \o b \in Seq(S) /\ Len(c \o b) = Len(c) + Len(b)
        /\ \A j \in 1 .. Len(c) + Len(b) :
              (c \o b)[j] = IF j <= Len(c) THEN c[j] ELSE b[j - Len(c)]
    BY <2>1, ConcatProperties
  <2>3. /\ c \o b \in Seq(S) /\ Len(c \o b) = Len(s) + 1
        /\ \A j \in 1 .. Len(s) + 1 : (c \o b)[j] = IF j <= i THEN c[j] ELSE b[j - i]
    BY <2>1, <2>2
  <2> QED
    BY <2>3 DEF c
<1>7. \A j \in 1 .. Len(s) + 1 : j > i => b[j - i] = s[j - 1]
  BY <1>1, <1>3
<1> QED
  BY <1>1, <1>4, <1>5, <1>6, <1>7

LEMMA RemoveAtFacts ==
    ASSUME NEW S, NEW s \in Seq(S), NEW i \in 1 .. Len(s)
    PROVE  /\ RemoveAt(s, i) \in Seq(S)
           /\ Len(RemoveAt(s, i)) = Len(s) - 1
           /\ \A j \in 1 .. Len(s) - 1 :
                RemoveAt(s, i)[j] = IF j < i THEN s[j] ELSE s[j + 1]
<1> DEFINE a == SubSeq(s, 1, i - 1)
           b == SubSeq(s, i + 1, Len(s))
<1>1. Len(s) \in Nat /\ \A j \in 1 .. Len(s) : s[j] \in S
  OBVIOUS
<1>2. /\ a \in Seq(S) /\ Len(a) = i - 1
      /\ \A j \in 1 .. i - 1 : a[j] = s[j]
  BY <1>1, SubSeqProperties
<1>3. /\ b \in Seq(S) /\ Len(b) = Len(s) - i
      /\ \A j \in 1 .. Len(s) - i : b[j] = s[i + j]
  <2>1. /\ b \in Seq(S) /\ Len(b) = IF i + 1 <= Len(s) THEN Len(s) - (i + 1) + 1 ELSE 0
        /\ \A j \in 1 .. Len(s) - (i + 1) + 1 : b[j] = s[(i + 1) + j - 1]
    BY <1>1, SubSeqProperties
  <2> QED
    BY <1>1, <2>1
<1>4. RemoveAt(s, i) = a \o b
  BY DEF RemoveAt
<1> HIDE DEF a, b
<1>5. /\ a \o b \in Seq(S) /\ Len(a \o b) = Len(s) - 1
      /\ \A j \in 1 .. Len(s) - 1 : (a \o b)[j] = IF j <= i - 1 THEN a[j] ELSE b[j - (i - 1)]
  <2>1. Len(a) + Len(b) = Len(s) - 1
    BY <1>1, <1>2, <1>3
  <2>2. /\ a \o b \in Seq(S) /\ Len(a \o b) = Len(a) + Len(b)
        /\ \A j \in 1 .. Len(a) + Len(b) :
              (a \o b)[j] = IF j <= Len(a) THEN a[j] ELSE b[j - Len(a)]
    BY <1>2, <1>3, ConcatProperties
  <2> QED
    BY <1>2, <2>1, <2>2
<1>6. ASSUME NEW j \in 1 .. Len(s) - 1, ~(j <= i - 1)
      PROVE  b[j - (i - 1)] = s[j + 1]
  <2> DEFINE k == j - (i - 1)
  <2>1. k \in 1 .. Len(s) - i /\ i + k = j + 1
    BY <1>1, <1>6
  <2> HIDE DEF k
  <2>2. b[k] = s[i + k]
    BY <1>3, <2>1
  <2> QED
    BY <2>1, <2>2 DEF k
<1>7. ASSUME NEW j \in 1 .. Len(s) - 1
      PROVE  (a \o b)[j] = IF j < i THEN s[j] ELSE s[j + 1]
  <2>1. CASE j < i
    <3>1. j <= i - 1 /\ j \in 1 .. i - 1
      BY <1>1, <2>1
    <3> QED
      BY <1>2, <1>5, <2>1, <3>1
  <2>2. CASE ~(j < i)
    <3>1. ~(j <= i - 1)
      BY <1>1, <2>2
    <3> QED
      BY <1>5, <1>6, <2>2, <3>1
  <2> QED
    BY <2>1, <2>2
<1> QED
  BY <1>4, <1>5, <1>7

\* Before() compares the centres first: the number of bins before a new bin
\* is a place that keeps the order, whatever the order of the counts.
LEMMA InsertPlace ==
    ASSUME NEW V, NEW h \in HistogramOver(V), NEW bin \in BinOver(V)
    PROVE  LET k == Cardinality({i \in DOMAIN h : Before(h[i], bin)}) IN
           /\ k \in 0 .. Len(h)
           /\ \A i \in 1 .. k : Leq(h[i].center, bin.center)
           /\ \A i \in k + 1 .. Len(h) : Leq(bin.center, h[i].center)
<1> DEFINE n == Len(h)
           P == {i \in DOMAIN h : Before(h[i], bin)}
           k == Cardinality(P)
<1>1. /\ n \in Nat /\ DOMAIN h = 1 .. n /\ Ordered(h)
      /\ \A i \in 1 .. n : h[i] \in BinOver(V) /\ h[i].center \in Rational
      /\ bin.center \in Rational
  BY BinsOf, BinFacts
<1>2. IsFiniteSet(1 .. n) /\ Cardinality(1 .. n) = n
  BY <1>1, FS_Interval
<1>3. IsFiniteSet(P) /\ k \in Nat /\ k <= n
  BY <1>1, <1>2, FS_Subset, FS_CardinalityType
<1>4. ASSUME NEW i \in 1 .. n
      PROVE  /\ Before(h[i], bin) => Leq(h[i].center, bin.center)
             /\ Less(h[i].center, bin.center) => Before(h[i], bin)
  BY <1>1, OrderLaws DEF Before
<1>5. ASSUME NEW i \in 1 .. k, ~Leq(h[i].center, bin.center)
      PROVE  FALSE
  <2>1. i \in 1 .. n
    BY <1>1, <1>3
  <2>2. \A j \in i .. n : ~Leq(h[j].center, bin.center)
    <3>1. SUFFICES ASSUME NEW j \in i .. n, Leq(h[j].center, bin.center)
                   PROVE  FALSE
      OBVIOUS
    <3>2. j \in 1 .. n /\ Leq(h[i].center, h[j].center)
      BY <1>1, <2>1 DEF Ordered
    <3> QED
      BY <1>1, <1>5, <2>1, <3>1, <3>2, OrderLaws
  <2>3. P \subseteq 1 .. i - 1
    BY <1>1, <1>4, <2>1, <2>2
  <2>4. IsFiniteSet(1 .. i - 1) /\ Cardinality(1 .. i - 1) = i - 1
    BY <2>1, FS_Interval
  <2>5. k <= i - 1
    BY <2>3, <2>4, FS_Subset
  <2> QED
    BY <1>3, <2>5
<1>6. ASSUME NEW i \in k + 1 .. n, ~Leq(bin.center, h[i].center)
      PROVE  FALSE
  <2>1. i \in 1 .. n
    BY <1>1, <1>3
  <2>2. \A j \in 1 .. i : Less(h[j].center, bin.center)
    <3>1. Less(h[i].center, bin.center)
      BY <1>6 DEF Leq
    <3>2. ASSUME NEW j \in 1 .. i
          PROVE  Less(h[j].center, bin.center)
      <4>1. j \in 1 .. n /\ Leq(h[j].center, h[i].center)
        BY <1>1, <2>1 DEF Ordered
      <4> QED
        BY <1>1, <2>1, <3>1, <4>1, OrderLaws
    <3> QED
      BY <3>2
  <2>3. 1 .. i \subseteq P
    BY <1>1, <1>4, <2>1, <2>2
  <2>4. Cardinality(1 .. i) = i
    BY <2>1, FS_Interval
  <2>5. i <= k
    BY <1>3, <2>3, <2>4, FS_Subset
  <2> QED
    BY <1>3, <2>1, <2>5
<1> QED
  BY <1>3, <1>5, <1>6

LEMMA InsertTyped ==
    ASSUME NEW V, NEW h \in HistogramOver(V), NEW bin \in BinOver(V)
    PROVE  /\ Inserted(h, bin) \in HistogramOver(V)
           /\ Len(Inserted(h, bin)) = Len(h) + 1
<1> DEFINE n == Len(h)
           k == Cardinality({i \in DOMAIN h : Before(h[i], bin)})
           g == Inserted(h, bin)
<1>1. /\ h \in Seq(BinOver(V)) /\ n \in Nat /\ DOMAIN h = 1 .. n
      /\ \A i, j \in 1 .. n : i <= j => Leq(h[i].center, h[j].center)
  BY BinsOf DEF Ordered
<1>2. /\ k \in 0 .. n
      /\ \A i \in 1 .. k : Leq(h[i].center, bin.center)
      /\ \A i \in k + 1 .. n : Leq(bin.center, h[i].center)
  BY InsertPlace
<1>3. g = InsertAt(h, k + 1, bin)
  BY DEF Inserted
<1> HIDE DEF k, g
<1>4. /\ g \in Seq(BinOver(V)) /\ Len(g) = n + 1
      /\ \A j \in 1 .. n + 1 :
            g[j] = IF j < k + 1 THEN h[j] ELSE IF j = k + 1 THEN bin ELSE h[j - 1]
  <2> DEFINE p == k + 1
  <2>1. p \in 1 .. Len(h) + 1
    BY <1>1, <1>2
  <2> HIDE DEF p
  <2>2. /\ InsertAt(h, p, bin) \in Seq(BinOver(V))
        /\ Len(InsertAt(h, p, bin)) = Len(h) + 1
        /\ \A j \in 1 .. Len(h) + 1 :
              InsertAt(h, p, bin)[j]
                  = IF j < p THEN h[j] ELSE IF j = p THEN bin ELSE h[j - 1]
    BY <1>1, <2>1, InsertAtFacts
  <2> QED
    BY <1>3, <2>2 DEF p
<1>5. Leq(bin.center, bin.center)
  BY BinFacts, OrderLaws
<1>6. Ordered(g)
  <2>1. DOMAIN g = 1 .. n + 1
    BY <1>1, <1>4
  <2>2. ASSUME NEW i \in 1 .. n + 1, NEW j \in 1 .. n + 1, i <= j
        PROVE  Leq(g[i].center, g[j].center)
    <3>1. CASE j < k + 1
      <4>1. i \in 1 .. n /\ j \in 1 .. n /\ g[i] = h[i] /\ g[j] = h[j]
        BY <1>1, <1>2, <1>4, <2>2, <3>1
      <4> QED
        BY <1>1, <2>2, <4>1
    <3>2. CASE j = k + 1
      <4>1. g[j] = bin
        BY <1>1, <1>2, <1>4, <3>2
      <4>2. CASE i = k + 1
        BY <1>5, <3>2, <4>1, <4>2
      <4>3. CASE i < k + 1
        <5>1. g[i] = h[i] /\ i \in 1 .. k
          BY <1>1, <1>2, <1>4, <4>3
        <5> QED
          BY <1>2, <4>1, <5>1
      <4> QED
        BY <1>1, <1>2, <2>2, <3>2, <4>2, <4>3
    <3>3. CASE j > k + 1
      <4>1. j - 1 \in k + 1 .. n /\ j - 1 \in 1 .. n /\ g[j] = h[j - 1]
        BY <1>1, <1>2, <1>4, <3>3
      <4>2. CASE i < k + 1
        <5>1. i \in 1 .. n /\ g[i] = h[i] /\ i <= j - 1
          BY <1>1, <1>2, <1>4, <2>2, <3>3, <4>2
        <5> QED
          BY <1>1, <4>1, <5>1
      <4>3. CASE i = k + 1
        BY <1>2, <1>4, <4>1, <4>3
      <4>4. CASE i > k + 1
        <5>1. i - 1 \in 1 .. n /\ g[i] = h[i - 1] /\ i - 1 <= j - 1
          BY <1>1, <1>2, <1>4, <2>2, <4>4
        <5> QED
          BY <1>1, <4>1, <5>1
      <4> QED
        BY <1>2, <4>2, <4>3, <4>4
    <3> QED
      BY <1>2, <3>1, <3>2, <3>3
  <2> QED
    BY <2>1, <2>2 DEF Ordered
<1> QED
  BY <1>4, <1>6 DEF HistogramOver, g

\* remove_empty_bins() numbers the bins that it keeps.
LEMMA Ranks ==
    ASSUME NEW L \in Nat, NEW K \in SUBSET (1 .. L)
    PROVE  /\ IsFiniteSet(K) /\ Cardinality(K) \in 0 .. L
           /\ \A n \in 1 .. Cardinality(K) :
                \E i \in K : Cardinality({j \in K : j <= i}) = n
           /\ \A i, j \in K :
                Cardinality({k \in K : k <= i}) < Cardinality({k \in K : k <= j}) => i < j
<1> DEFINE Upto(i) == {j \in K : j <= i}
<1>0. \A j \in K : j \in Int /\ 1 <= j /\ j <= L
  OBVIOUS
<1>1. IsFiniteSet(K) /\ Cardinality(K) \in 0 .. L
  <2>1. IsFiniteSet(1 .. L) /\ Cardinality(1 .. L) = L
    BY FS_Interval
  <2>2. IsFiniteSet(K) /\ Cardinality(K) <= L
    BY <2>1, FS_Subset
  <2> QED
    BY <2>2, FS_CardinalityType
<1>2. ASSUME NEW i \in Int
      PROVE  IsFiniteSet(Upto(i)) /\ Cardinality(Upto(i)) \in Nat
  BY <1>1, FS_Subset, FS_CardinalityType
<1>3. ASSUME NEW n \in 1 .. Cardinality(K)
      PROVE  \E i \in K : Cardinality(Upto(i)) = n
  <2> DEFINE S == {i \in 0 .. L : n <= Cardinality(Upto(i))}
  <2>1. L \in S
    <3>1. Upto(L) = K
      BY <1>0
    <3>2. n <= Cardinality(K) /\ L \in 0 .. L
      BY <1>1
    <3> QED
      BY <3>1, <3>2
  <2>2. PICK i \in S : \A m \in S : i <= m
    <3>1. S \subseteq Nat /\ S # {}
      <4>1. 0 .. L \subseteq Nat
        OBVIOUS
      <4> QED
        BY <2>1, <4>1
    <3> HIDE DEF S
    <3> QED
      BY <3>1, LeastNatural
  <2>3. i \in 0 .. L /\ n <= Cardinality(Upto(i))
    BY <2>2
  <2>4. i # 0
    <3>1. Upto(0) = {}
      <4>1. \A j \in K : ~(j <= 0)
        BY <1>0
      <4> QED
        BY <4>1
    <3>2. Cardinality(Upto(0)) = 0
      BY <3>1, FS_EmptySet
    <3> QED
      BY <1>1, <2>3, <3>2
  <2>5. i - 1 \in 0 .. L /\ i - 1 \in Int /\ i - 1 \notin S
    <3>1. i - 1 \in 0 .. L /\ i \in Int /\ i - 1 \in Int /\ ~(i <= i - 1)
      BY <2>3, <2>4
    <3> HIDE DEF S
    <3> QED
      BY <2>2, <3>1
  <2>6. Cardinality(Upto(i - 1)) < n
    <3>1. Cardinality(Upto(i - 1)) \in Nat
      BY <1>2, <2>5
    <3>2. n \in Int
      BY <1>1
    <3>3. ~(n <= Cardinality(Upto(i - 1)))
      BY <2>5
    <3> HIDE DEF Upto
    <3> QED
      BY <3>1, <3>2, <3>3
  <2>7. i \in K
    <3>1. SUFFICES ASSUME i \notin K
                   PROVE  FALSE
      OBVIOUS
    <3>2. Upto(i) = Upto(i - 1)
      <4>1. \A j \in K : j <= i <=> j <= i - 1
        BY <1>0, <2>3, <3>1
      <4> QED
        BY <4>1
    <3>3. Cardinality(Upto(i - 1)) \in Nat
      BY <1>2, <2>5
    <3>4. n \in Int
      BY <1>1
    <3> HIDE DEF Upto
    <3> QED
      BY <2>3, <2>6, <3>2, <3>3, <3>4
  <2>8. Upto(i) = Upto(i - 1) \cup {i} /\ i \notin Upto(i - 1)
    <3>1. /\ \A j \in K : j <= i <=> j <= i - 1 \/ j = i
          /\ ~(i <= i - 1) /\ i <= i
      BY <1>0, <2>3
    <3> QED
      BY <2>7, <3>1
  <2>9. IsFiniteSet(Upto(i - 1)) /\ Cardinality(Upto(i - 1)) \in Nat
    BY <1>2, <2>5
  <2> HIDE DEF Upto
  <2>10. Cardinality(Upto(i)) = Cardinality(Upto(i - 1)) + 1
    BY <2>8, <2>9, FS_AddElement
  <2>11. Cardinality(Upto(i)) = n
    BY <1>1, <2>3, <2>6, <2>9, <2>10
  <2> QED
    BY <2>7, <2>11
<1>4. ASSUME NEW i \in K, NEW j \in K, Cardinality(Upto(i)) < Cardinality(Upto(j))
      PROVE  i < j
  <2>1. SUFFICES ASSUME j <= i
                 PROVE  FALSE
    BY <1>0
  <2>2. Upto(j) \subseteq Upto(i)
    <3>1. i \in Int /\ j \in Int /\ \A k \in K : k <= j => k <= i
      BY <1>0, <2>1
    <3> QED
      BY <3>1
  <2>3. /\ IsFiniteSet(Upto(i))
        /\ Cardinality(Upto(i)) \in Nat /\ Cardinality(Upto(j)) \in Nat
    BY <1>2
  <2> HIDE DEF Upto
  <2>4. Cardinality(Upto(j)) <= Cardinality(Upto(i))
    BY <2>2, <2>3, FS_Subset
  <2> QED
    BY <1>4, <2>3, <2>4
<1> QED
  BY <1>1, <1>3, <1>4

\* Some of the bins of h, in their order.
Selected(h, K) ==
    [n \in 1 .. Cardinality(K) |->
        h[CHOOSE i \in K : Cardinality({j \in K : j <= i}) = n]]

LEMMA SelectedTyped ==
    ASSUME NEW V, NEW h \in HistogramOver(V), NEW K \in SUBSET DOMAIN h
    PROVE  Selected(h, K) \in HistogramOver(V) /\ Len(Selected(h, K)) = Cardinality(K)
           /\ Cardinality(K) <= Len(h)
<1> DEFINE C == Cardinality(K)
           Rank(i) == Cardinality({j \in K : j <= i})
           pick(n) == CHOOSE i \in K : Rank(i) = n
           g == Selected(h, K)
<1>1. /\ Len(h) \in Nat /\ DOMAIN h = 1 .. Len(h)
      /\ \A i \in DOMAIN h : h[i] \in BinOver(V)
      /\ Ordered(h)
  BY BinsOf
<1>2. /\ C \in 0 .. Len(h)
      /\ \A n \in 1 .. C : \E i \in K : Rank(i) = n
      /\ \A i, j \in K : Rank(i) < Rank(j) => i < j
  BY <1>1, Ranks
<1>3. g = [n \in 1 .. C |-> h[pick(n)]]
  BY DEF Selected
<1> HIDE DEF g, C, Rank
<1>4. \A n \in 1 .. C : pick(n) \in K /\ Rank(pick(n)) = n
  BY <1>2
<1> HIDE DEF pick
<1>5. \A n \in 1 .. C : pick(n) \in DOMAIN h /\ h[pick(n)] \in BinOver(V)
  BY <1>1, <1>4
<1>6. g \in Seq(BinOver(V)) /\ Len(g) = C /\ DOMAIN g = 1 .. C
  BY <1>2, <1>3, <1>5
<1>7. ASSUME NEW i \in 1 .. C, NEW j \in 1 .. C, i <= j
      PROVE  Leq(g[i].center, g[j].center)
  <2>1. pick(i) <= pick(j)
    <3>1. pick(i) \in DOMAIN h /\ pick(j) \in DOMAIN h
      BY <1>5
    <3>2. CASE i = j
      BY <1>1, <3>1, <3>2
    <3>3. CASE i < j
      <4>1. pick(i) < pick(j)
        BY <1>2, <1>4, <3>3
      <4> QED
        BY <1>1, <3>1, <4>1
    <3> QED
      BY <1>2, <1>7, <3>2, <3>3
  <2>2. g[i] = h[pick(i)] /\ g[j] = h[pick(j)]
    BY <1>3
  <2> QED
    BY <1>1, <1>5, <2>1, <2>2 DEF Ordered
<1> QED
  BY <1>1, <1>2, <1>6, <1>7 DEF HistogramOver, Ordered, g, C

LEMMA RemoveTyped ==
    ASSUME NEW V, NEW h \in HistogramOver(V)
    PROVE  remove_empty_bins(h) \in HistogramOver(V) /\ Len(remove_empty_bins(h)) <= Len(h)
<1> DEFINE F == {i \in DOMAIN h : Nonempty(h[i])}
           K == {i \in DOMAIN h :
                    /\ \E j, k \in F : j <= i /\ i <= k
                    /\ \E j \in F : j \in {i - 1, i, i + 1}}
<1>1. remove_empty_bins(h) = Selected(h, K)
  BY DEF remove_empty_bins, Selected
<1>2. K \in SUBSET DOMAIN h
  OBVIOUS
<1> HIDE DEF K
<1> QED
  BY <1>1, <1>2, SelectedTyped

\* There is a first smallest of finitely many fractions.
LEMMA FirstSmallest ==
    ASSUME NEW N \in Nat \ {0}, NEW D \in [1 .. N -> Rational]
    PROVE  \E i \in 1 .. N : /\ \A j \in 1 .. N : Leq(D[i], D[j])
                             /\ \A j \in 1 .. N : j < i => Less(D[i], D[j])
<1> DEFINE Best(i, n) == /\ \A j \in 1 .. n : Leq(D[i], D[j])
                         /\ \A j \in 1 .. n : j < i => Less(D[i], D[j])
           Bad == {n \in 1 .. N : ~ \E i \in 1 .. n : Best(i, n)}
<1>1. SUFFICES Bad = {}
  <2>1. N \in 1 .. N
    OBVIOUS
  <2>2. N \notin Bad => \E i \in 1 .. N : Best(i, N)
    BY <2>1
  <2> QED
    BY <2>2
<1>2. SUFFICES ASSUME Bad # {}
               PROVE  FALSE
  OBVIOUS
<1>3. PICK n \in Bad : \A m \in Bad : n <= m
  <2>1. Bad \subseteq Nat
    OBVIOUS
  <2> HIDE DEF Bad
  <2> QED
    BY <1>2, <2>1, LeastNatural
<1>4. n \in 1 .. N /\ ~ \E i \in 1 .. n : Best(i, n)
  BY <1>3
<1>5. n # 1
  <2>1. D[1] \in Rational
    OBVIOUS
  <2>2. Leq(D[1], D[1])
    BY <2>1, OrderLaws
  <2>3. Best(1, 1)
    BY <2>2
  <2> QED
    BY <1>4, <2>3
<1>6. PICK i \in 1 .. n - 1 : Best(i, n - 1)
  <2>1. n - 1 \in 1 .. N /\ n \in Int /\ ~(n <= n - 1)
    BY <1>4, <1>5
  <2>2. n - 1 \notin Bad
    <3> HIDE DEF Bad
    <3> QED
      BY <1>3, <2>1
  <2> QED
    BY <2>1, <2>2
<1>7. /\ i \in 1 .. N /\ i < n /\ D[i] \in Rational /\ D[n] \in Rational
      /\ \A j \in 1 .. n : j \in 1 .. n - 1 \/ j = n
      /\ \A j \in 1 .. n : D[j] \in Rational
  BY <1>4, <1>6
<1>8. CASE Leq(D[i], D[n])
  <2>1. Best(i, n)
    BY <1>6, <1>7, <1>8
  <2> QED
    BY <1>4, <1>7, <2>1
<1>9. CASE ~Leq(D[i], D[n])
  <2>1. Less(D[n], D[i]) /\ Leq(D[n], D[n])
    BY <1>7, <1>9, OrderLaws DEF Leq
  <2>2. \A j \in 1 .. n - 1 : Less(D[n], D[j]) /\ Leq(D[n], D[j])
    <3>1. ASSUME NEW j \in 1 .. n - 1
          PROVE  Less(D[n], D[j]) /\ Leq(D[n], D[j])
      <4>1. D[j] \in Rational /\ Leq(D[i], D[j])
        BY <1>4, <1>6
      <4> QED
        BY <1>7, <2>1, <4>1, OrderLaws
    <3> QED
      BY <3>1
  <2>3. Best(n, n)
    <3>1. \A j \in 1 .. n : Leq(D[n], D[j])
      BY <1>7, <2>1, <2>2
    <3>2. \A j \in 1 .. n : j < n => Less(D[n], D[j])
      BY <1>4, <1>7, <2>2
    <3> QED
      BY <3>1, <3>2
  <2> QED
    BY <1>4, <2>3
<1> QED
  BY <1>8, <1>9

LEMMA BestMergeIndex ==
    ASSUME NEW V, NEW h \in HistogramOver(V), Len(h) > 1
    PROVE  BestMerge(h) \in 1 .. Len(h) - 1
<1> DEFINE N == Len(h) - 1
           D == [i \in 1 .. N |-> bin_merge_criteria(h[i], h[i + 1])]
           First(i) == /\ \A j \in 1 .. N : Leq(D[i], D[j])
                       /\ \A j \in 1 .. N : j < i => Less(D[i], D[j])
<1>1. /\ N \in Nat \ {0} /\ DOMAIN h = 1 .. N + 1
      /\ \A i \in DOMAIN h : h[i].center \in Rational
  <2>1. Len(h) \in Nat /\ DOMAIN h = 1 .. Len(h)
    BY BinsOf
  <2>2. \A i \in DOMAIN h : h[i] \in BinOver(V)
    BY BinsOf
  <2>3. \A i \in DOMAIN h : h[i].center \in Rational
    BY <2>2, BinFacts
  <2> QED
    BY <2>1, <2>3
<1>2. D \in [1 .. N -> Rational]
  <2>1. ASSUME NEW i \in 1 .. N
        PROVE  bin_merge_criteria(h[i], h[i + 1]) \in Rational
    <3>1. h[i].center \in Rational /\ h[i + 1].center \in Rational
      BY <1>1
    <3> QED
      BY <3>1, MinusTyped DEF bin_merge_criteria
  <2> QED
    BY <2>1
<1>3. BestMerge(h) = CHOOSE i \in 1 .. N : First(i)
  BY DEF BestMerge
<1>4. \E i \in 1 .. N : First(i)
  <2> HIDE DEF D, N
  <2> QED
    BY <1>1, <1>2, FirstSmallest
<1> HIDE DEF First
<1>5. BestMerge(h) \in 1 .. N
  BY <1>3, <1>4
<1> QED
  BY <1>5

\* A weighted average lies between what is averaged.
LEMMA AverageBetween ==
    ASSUME NEW x \in Rational, NEW y \in Rational, Leq(x, y),
           NEW u \in Amount, NEW w \in Amount, Less(Zero, u) \/ Less(Zero, w)
    PROVE  /\ weighted_average(x, u, y, w) \in Rational
           /\ Leq(x, weighted_average(x, u, y, w))
           /\ Leq(weighted_average(x, u, y, w), y)
<1> DEFINE z == Plus(u, w)
           s == Plus(Times(x, u), Times(y, w))
<1>1. /\ u \in Rational /\ w \in Rational /\ Leq(Zero, u) /\ Leq(Zero, w)
      /\ Zero \in Rational
  BY ZeroFacts DEF Amount
<1>2. /\ Times(x, u) \in Rational /\ Times(x, w) \in Rational
      /\ Times(y, u) \in Rational /\ Times(y, w) \in Rational
      /\ z \in Rational /\ z = Plus(w, u)
  BY <1>1, TimesLaws, PlusLaws
<1>3. s \in Rational
  BY <1>2, PlusLaws
<1>4. Less(Zero, z)
  <2>1. Leq(Plus(Zero, u), Plus(w, u)) /\ Leq(Plus(Zero, w), Plus(u, w))
    BY <1>1, OrderLaws
  <2>2. Plus(Zero, u) = u /\ Plus(Zero, w) = w
    BY <1>1, PlusLaws
  <2> QED
    BY <1>1, <1>2, <2>1, <2>2, OrderLaws
<1>5. /\ Times(x, z) = Plus(Times(x, u), Times(x, w))
      /\ Times(y, z) = Plus(Times(y, u), Times(y, w))
  <2>1. /\ Times(z, x) = Plus(Times(u, x), Times(w, x))
        /\ Times(z, y) = Plus(Times(u, y), Times(w, y))
    BY <1>1, PlusLaws
  <2> QED
    BY <1>1, <1>2, <2>1, TimesLaws
<1>6. Leq(Times(x, u), Times(y, u)) /\ Leq(Times(x, w), Times(y, w))
  BY <1>1, OrderLaws
<1>7. Leq(Plus(Times(x, w), Times(x, u)), Plus(Times(y, w), Times(x, u)))
  BY <1>2, <1>6, OrderLaws
<1>8. Leq(Plus(Times(x, u), Times(y, w)), Plus(Times(y, u), Times(y, w)))
  BY <1>2, <1>6, OrderLaws
<1>9. /\ Plus(Times(x, w), Times(x, u)) = Plus(Times(x, u), Times(x, w))
      /\ Plus(Times(y, w), Times(x, u)) = s
  BY <1>2, PlusLaws
<1>10. Leq(Times(x, z), s) /\ Leq(s, Times(y, z))
  BY <1>5, <1>7, <1>8, <1>9
<1>11. weighted_average(x, u, y, w) = Over(s, z)
  BY DEF weighted_average
<1> HIDE DEF s, z
<1> QED
  BY <1>2, <1>3, <1>4, <1>10, <1>11, OverLaws

LEMMA MergedTyped ==
    ASSUME NEW V \in SUBSET Int, NEW left \in BinOver(V), NEW right \in BinOver(V),
           Leq(left.center, right.center)
    PROVE  /\ Merged(left, right) \in BinOver(V)
           /\ Leq(left.center, Merged(left, right).center)
           /\ Leq(Merged(left, right).center, right.center)
<1> DEFINE x == left.center
           y == right.center
           e == Plus(left.count, right.count)
           a == weighted_average(x, left.count, y, right.count)
           b == weighted_average(x, One, y, One)
<1>1. /\ x \in Hull(V) /\ y \in Hull(V) /\ x \in Rational /\ y \in Rational
      /\ left.count \in Amount /\ right.count \in Amount
      /\ left.timestamp \in Int /\ right.timestamp \in Int
  BY BinFacts
<1>2. /\ \E v \in V : Leq(Rat(v), x)
      /\ \E v \in V : Leq(y, Rat(v))
      /\ \A v \in V : Rat(v) \in Rational
  BY <1>1, RatFacts DEF Hull
<1>3. ASSUME NEW z \in Rational, Leq(x, z), Leq(z, y)
      PROVE  z \in Hull(V)
  <2>1. \A v \in V : Leq(Rat(v), x) => Leq(Rat(v), z)
    BY <1>1, <1>2, <1>3, OrderLaws
  <2>2. \A v \in V : Leq(y, Rat(v)) => Leq(z, Rat(v))
    BY <1>1, <1>2, <1>3, OrderLaws
  <2> HIDE DEF x, y
  <2> QED
    BY <1>2, <2>1, <2>2 DEF Hull
<1>4. e \in Amount /\ Zero \in Amount /\ One \in Amount
  BY <1>1, AmountFacts
<1>5. CASE ~Nonempty(left) /\ ~Nonempty(right)
  <2>1. Less(Zero, One)
    BY ZeroFacts, Signs DEF One, Rat
  <2>2. b \in Rational /\ Leq(x, b) /\ Leq(b, y)
    BY <1>1, <1>4, <2>1, AverageBetween
  <2>3. Merged(left, right) = [center |-> b, count |-> Zero, timestamp |-> 0]
    BY <1>5 DEF Merged
  <2> HIDE DEF x, y, b
  <2>4. b \in Hull(V)
    BY <1>3, <2>2
  <2> QED
    BY <1>4, <2>2, <2>3, <2>4 DEF BinOver, x, y
<1>6. CASE ~(~Nonempty(left) /\ ~Nonempty(right))
  <2> DEFINE t == IF left.timestamp < right.timestamp THEN right.timestamp ELSE left.timestamp
  <2>1. a \in Rational /\ Leq(x, a) /\ Leq(a, y)
    BY <1>1, <1>6, AverageBetween DEF Nonempty
  <2>2. Merged(left, right) = [center |-> a, count |-> e, timestamp |-> t]
    BY <1>6 DEF Merged
  <2>3. t \in Int
    BY <1>1
  <2> HIDE DEF x, y, a, e, t
  <2>4. a \in Hull(V)
    BY <1>3, <2>1
  <2> QED
    BY <1>4, <2>1, <2>2, <2>3, <2>4 DEF BinOver, x, y
<1> QED
  BY <1>5, <1>6

LEMMA MergeTyped ==
    ASSUME NEW V \in SUBSET Int, NEW h \in HistogramOver(V), Len(h) > 1
    PROVE  MergeBest(h) \in HistogramOver(V) /\ Len(MergeBest(h)) = Len(h) - 1
<1> DEFINE n == Len(h)
           i == BestMerge(h)
           bin == Merged(h[i], h[i + 1])
           g == [h EXCEPT ![i] = bin]
           r == MergeBest(h)
<1>1. /\ h \in Seq(BinOver(V)) /\ n \in Nat /\ DOMAIN h = 1 .. n
      /\ \A j \in 1 .. n : h[j] \in BinOver(V)
      /\ \A j, k \in 1 .. n : j <= k => Leq(h[j].center, h[k].center)
  BY BinsOf DEF Ordered
<1>2. i \in 1 .. n - 1
  BY BestMergeIndex
<1>3. r = RemoveAt(g, i + 1)
  BY DEF MergeBest
<1> HIDE DEF i, r
<1>4. i \in 1 .. n /\ i + 1 \in 1 .. n /\ i <= i + 1
  BY <1>1, <1>2
<1>5. /\ bin \in BinOver(V)
      /\ Leq(h[i].center, bin.center) /\ Leq(bin.center, h[i + 1].center)
  BY <1>1, <1>4, MergedTyped
<1> HIDE DEF bin
<1>6. /\ g \in Seq(BinOver(V)) /\ Len(g) = n
      /\ \A j \in 1 .. n : g[j] = IF j = i THEN bin ELSE h[j]
  BY <1>1, <1>4, <1>5, ExceptSeq
<1> HIDE DEF g
<1>7. /\ r \in Seq(BinOver(V)) /\ Len(r) = n - 1
      /\ \A j \in 1 .. n - 1 : r[j] = IF j < i + 1 THEN g[j] ELSE g[j + 1]
  <2> DEFINE k == i + 1
  <2>1. k \in 1 .. Len(g)
    BY <1>4, <1>6
  <2> HIDE DEF k
  <2>2. /\ RemoveAt(g, k) \in Seq(BinOver(V))
        /\ Len(RemoveAt(g, k)) = Len(g) - 1
        /\ \A j \in 1 .. Len(g) - 1 : RemoveAt(g, k)[j] = IF j < k THEN g[j] ELSE g[j + 1]
    BY <1>6, <2>1, RemoveAtFacts
  <2> QED
    BY <1>3, <1>6, <2>2 DEF k
<1>8. \A j \in 1 .. n - 1 :
         /\ j < i => r[j] = h[j]
         /\ j = i => r[j] = bin
         /\ j > i => r[j] = h[j + 1]
  BY <1>1, <1>2, <1>6, <1>7
<1>9. \A j \in 1 .. n : h[j].center \in Rational
  BY <1>1, BinFacts
<1>10. bin.center \in Rational /\ Leq(bin.center, bin.center)
  BY <1>5, BinFacts, OrderLaws
<1>11. ASSUME NEW j \in 1 .. n - 1, NEW k \in 1 .. n - 1, j <= k
       PROVE  Leq(r[j].center, r[k].center)
  <2>1. /\ j \in 1 .. n /\ k \in 1 .. n /\ j + 1 \in 1 .. n /\ k + 1 \in 1 .. n
        /\ j <= k + 1 /\ j + 1 <= k + 1
    BY <1>1, <1>11
  <2>2. /\ Leq(h[j].center, h[k].center) /\ Leq(h[j].center, h[k + 1].center)
        /\ Leq(h[j + 1].center, h[k + 1].center)
    BY <1>1, <1>11, <2>1
  <2>3. j < i => Leq(h[j].center, bin.center)
    <3>1. j < i => Leq(h[j].center, h[i].center)
      BY <1>1, <1>4, <2>1
    <3> QED
      BY <1>4, <1>5, <1>9, <1>10, <2>1, <3>1, OrderLaws
  <2>4. k > i => Leq(bin.center, h[k + 1].center)
    <3>1. k > i => Leq(h[i + 1].center, h[k + 1].center)
      BY <1>1, <1>4, <2>1
    <3> QED
      BY <1>4, <1>5, <1>9, <1>10, <2>1, <3>1, OrderLaws
  <2>5. CASE k < i
    BY <1>8, <1>11, <2>2, <2>5, <1>2
  <2>6. CASE k = i
    <3>1. CASE j = i
      BY <1>8, <1>10, <2>6, <3>1
    <3>2. CASE j < i
      BY <1>8, <2>3, <2>6, <3>2
    <3> QED
      BY <1>2, <1>11, <2>6, <3>1, <3>2
  <2>7. CASE k > i
    <3>1. CASE j < i
      BY <1>8, <2>2, <2>7, <3>1
    <3>2. CASE j = i
      BY <1>8, <2>4, <2>7, <3>2
    <3>3. CASE j > i
      BY <1>8, <2>2, <2>7, <3>3
    <3> QED
      BY <1>2, <3>1, <3>2, <3>3
  <2> QED
    BY <1>2, <2>5, <2>6, <2>7
<1>12. DOMAIN r = 1 .. n - 1
  BY <1>7
<1> QED
  BY <1>7, <1>11, <1>12 DEF HistogramOver, Ordered, r

\* One value more: the histogram stays in order, within the values and within
\* the configured number of bins.
LEMMA UpdateHistogramTyped ==
    ASSUME NEW V \in SUBSET Int, NEW h \in HistogramOver(V), Len(h) <= HistogramBins,
           NEW v \in Int, NEW m \in Int, NEW t \in Int
    PROVE  /\ update_histogram(h, v, m, t) \in HistogramOver(V \cup {v})
           /\ Len(update_histogram(h, v, m, t)) <= HistogramBins
<1> DEFINE W == V \cup {v}
           a == Inserted(h, NewBin(v, t))
           b == shift_histogram(a, m, t)
           c == IF Len(b) > HistogramBins THEN remove_empty_bins(b) ELSE b
<1>1. HistogramBins \in Nat \ {0} /\ W \in SUBSET Int /\ h \in HistogramOver(W)
  BY HistogramAssumption, MoreValues
<1>2. a \in HistogramOver(W) /\ Len(a) = Len(h) + 1
  BY <1>1, NewBinTyped, InsertTyped
<1>3. b \in HistogramOver(W) /\ Len(b) = Len(a)
  BY <1>2, ShiftHistogram
<1>4. update_histogram(h, v, m, t) = IF Len(c) > HistogramBins THEN MergeBest(c) ELSE c
  BY DEF update_histogram
<1>5. Len(h) \in Nat
  BY BinsOf
<1> HIDE DEF a, b
<1>6. c \in HistogramOver(W) /\ Len(c) <= HistogramBins + 1 /\ Len(c) \in Nat
  <2>1. /\ Len(b) \in Nat /\ Len(b) <= HistogramBins + 1
        /\ remove_empty_bins(b) \in HistogramOver(W)
        /\ Len(remove_empty_bins(b)) <= Len(b) /\ Len(remove_empty_bins(b)) \in Nat
    BY <1>1, <1>2, <1>3, <1>5, RemoveTyped, BinsOf
  <2> QED
    BY <1>1, <1>3, <2>1
<1> HIDE DEF c, W
<1>7. CASE Len(c) > HistogramBins
  <2>1. MergeBest(c) \in HistogramOver(W) /\ Len(MergeBest(c)) = Len(c) - 1
    BY <1>1, <1>6, <1>7, MergeTyped
  <2> QED
    BY <1>1, <1>4, <1>6, <1>7, <2>1 DEF W
<1>8. CASE ~(Len(c) > HistogramBins)
  BY <1>1, <1>4, <1>6, <1>8 DEF W
<1> QED
  BY <1>7, <1>8

-----------------------------------------------------------------------------
(* What the bins hold together. *)

\* The numbers w of a set of indices, added up as a fold does it.
AddsUp(w, N, g) ==
    g = [s \in SUBSET (1 .. N) |->
            IF s = {} THEN Zero ELSE Plus(g[s \ {Max(s)}], w[Max(s)])]

LEMMA MaxFacts ==
    ASSUME NEW N \in Nat, NEW s \in SUBSET (1 .. N), s # {}
    PROVE  Max(s) \in s /\ \A y \in s : y <= Max(s)
<1>1. s \subseteq Nat /\ \A n \in s : n \in Int /\ n <= N
  OBVIOUS
<1>2. \E x \in s : \A y \in s : y <= x
  BY <1>1, GreatestNatural
<1>3. Max(s) = CHOOSE x \in s : \A y \in s : x >= y
  BY DEF Max
<1>4. \E x \in s : \A y \in s : x >= y
  BY <1>1, <1>2
<1> QED
  BY <1>1, <1>3, <1>4

LEMMA AddsUpExists ==
    ASSUME NEW N \in Nat, NEW w, \A i \in 1 .. N : w[i] \in Rational
    PROVE  \E g : AddsUp(w, N, g)
<1> DEFINE Mask(s) == [i \in 1 .. N |-> IF i \in s THEN w[i] ELSE Zero]
           g == [s \in SUBSET (1 .. N) |-> SumTo(Mask(s), N)]
<1>1. \A s : \A i \in 1 .. N : /\ Mask(s)[i] \in Rational
                               /\ Mask(s)[i] = IF i \in s THEN w[i] ELSE Zero
  BY ZeroFacts
<1> HIDE DEF Mask
<1>2. ASSUME NEW s \in SUBSET (1 .. N)
      PROVE  g[s] = IF s = {} THEN Zero ELSE Plus(g[s \ {Max(s)}], w[Max(s)])
  <2>1. CASE s = {}
    <3>1. 0 \in 0 .. N /\ \A i \in 0 + 1 .. N : Mask(s)[i] = Zero
      BY <1>1, <2>1
    <3>2. SumTo(Mask(s), N) = SumTo(Mask(s), 0)
      BY <1>1, <3>1, SumZeros
    <3>3. SumTo(Mask(s), 0) = Zero
      BY <1>1, SumFacts
    <3> QED
      BY <2>1, <3>2, <3>3
  <2>2. CASE s # {}
    <3> DEFINE x == Max(s)
               t == s \ {x}
               v == Mask(s)
               u == Mask(t)
               a == x - 1
    <3>1. x \in s /\ \A y \in s : y <= x
      BY <2>2, MaxFacts
    <3> HIDE DEF x
    <3>2. /\ x \in 1 .. N /\ x \in 0 .. N /\ a \in 0 .. N /\ a + 1 = x
          /\ \A i \in 1 .. a : i \in 1 .. N /\ i # x
          /\ \A i \in x + 1 .. N : i \in 1 .. N /\ i \notin s
          /\ \A i \in x .. N : i \in 1 .. N /\ i \notin t
      BY <3>1
    <3>3. /\ \A i \in 1 .. N : v[i] \in Rational /\ u[i] \in Rational
          /\ \A i \in x + 1 .. N : v[i] = Zero
          /\ \A i \in a + 1 .. N : u[i] = Zero
          /\ \A i \in 1 .. a : v[i] \in Rational /\ u[i] = v[i]
          /\ v[x] = w[x]
      BY <1>1, <3>1, <3>2
    <3> HIDE DEF v, u, a
    <3>4. SumTo(v, N) = SumTo(v, x) /\ SumTo(u, N) = SumTo(u, a)
      BY <3>2, <3>3, SumZeros
    <3>5. SumTo(v, x) = Plus(SumTo(v, a), w[x])
      <4>1. SumTo(v, x) = Plus(SumTo(v, x - 1), v[x])
        BY <3>2, <3>3, SumFacts
      <4> QED
        BY <3>3, <4>1 DEF a
    <3>6. SumTo(u, a) = SumTo(v, a)
      <4>1. a \in Nat
        BY <3>2
      <4> QED
        BY <3>3, <4>1, SumSame
    <3>7. g[s] = SumTo(v, N) /\ g[t] = SumTo(u, N)
      BY DEF v, u
    <3> HIDE DEF g
    <3>8. g[s] = Plus(g[t], w[x])
      BY <3>4, <3>5, <3>6, <3>7
    <3> QED
      BY <2>2, <3>8 DEF x
  <2> QED
    BY <2>1, <2>2
<1>3. g = [s \in SUBSET (1 .. N) |-> g[s]]
  OBVIOUS
<1> HIDE DEF g
<1>4. AddsUp(w, N, g)
  BY <1>2, <1>3 DEF AddsUp
<1> QED
  BY <1>4

LEMMA AddsUpSum ==
    ASSUME NEW N \in Nat, NEW w, \A i \in 1 .. N : w[i] \in Rational,
           NEW g, AddsUp(w, N, g)
    PROVE  g[1 .. N] = SumTo(w, N)
<1> DEFINE f == [n \in 0 .. N |-> g[1 .. n]]
<1>1. ASSUME NEW s \in SUBSET (1 .. N)
      PROVE  g[s] = IF s = {} THEN Zero ELSE Plus(g[s \ {Max(s)}], w[Max(s)])
  BY DEF AddsUp
<1>2. f[0] = Zero
  <2>1. 1 .. 0 = {} /\ 0 \in 0 .. N
    OBVIOUS
  <2> QED
    BY <1>1, <2>1
<1>3. ASSUME NEW k \in 1 .. N
      PROVE  f[k] = Plus(f[k - 1], w[k])
  <2> DEFINE s == 1 .. k
  <2>1. /\ s \in SUBSET (1 .. N) /\ s # {} /\ k \in s
        /\ k \in 0 .. N /\ k - 1 \in 0 .. N
        /\ \A y \in s : y <= k /\ y \in Int
    OBVIOUS
  <2>2. s \ {k} = 1 .. k - 1
    OBVIOUS
  <2> HIDE DEF s
  <2>3. Max(s) \in s /\ \A y \in s : y <= Max(s)
    BY <2>1, MaxFacts
  <2>4. Max(s) = k
    <3> DEFINE x == Max(s)
    <3>1. x \in s /\ k <= x /\ x <= k /\ x \in Int
      BY <2>1, <2>3
    <3> HIDE DEF x
    <3>2. x = k
      BY <3>1
    <3> QED
      BY <3>2 DEF x
  <2>5. g[s] = Plus(g[s \ {k}], w[k])
    BY <1>1, <2>1, <2>4
  <2> QED
    BY <2>1, <2>2, <2>5 DEF s
<1>4. N \in 0 .. N
  OBVIOUS
<1> HIDE DEF f
<1>5. f[N] = SumTo(w, N)
  BY <1>2, <1>3, <1>4, SumIs
<1> QED
  BY <1>4, <1>5 DEF f

Counts(h) == [i \in DOMAIN h |-> h[i].count]

LEMMA TotalIsSum ==
    ASSUME NEW V, NEW h \in Seq(BinOver(V))
    PROVE  Total(h) = SumTo(Counts(h), Len(h))
<1> DEFINE N == Len(h)
           w == Counts(h)
<1>1. N \in Nat /\ DOMAIN h = 1 .. N /\ \A i \in 1 .. N : h[i] \in BinOver(V)
  OBVIOUS
<1>2. \A i \in 1 .. N : w[i] = h[i].count /\ w[i] \in Rational
  BY <1>1, BinFacts DEF Counts
<1> DEFINE Sums(g) == g = [s \in SUBSET DOMAIN h |->
                            IF s = {} THEN Zero ELSE Plus(g[s \ {Max(s)}], h[Max(s)].count)]
<1>3. Total(h) = (CHOOSE g : Sums(g))[DOMAIN h]
  BY DEF Total, FoldLeft, MapThenFoldSet
<1>4. \A s \in SUBSET (1 .. N) : s # {} => w[Max(s)] = h[Max(s)].count
  BY <1>1, <1>2, MaxFacts
<1> HIDE DEF w, N
<1>5. ASSUME NEW g
      PROVE  Sums(g) <=> AddsUp(w, N, g)
  BY <1>1, <1>4 DEF AddsUp
<1> HIDE DEF Sums
<1>6. \E g : Sums(g)
  BY <1>1, <1>2, <1>5, AddsUpExists
<1>7. AddsUp(w, N, CHOOSE g : Sums(g))
  BY <1>5, <1>6
<1>8. (CHOOSE g : Sums(g))[1 .. N] = SumTo(w, N)
  BY <1>1, <1>2, <1>7, AddsUpSum
<1> QED
  BY <1>1, <1>3, <1>8 DEF w, N

\* Ranks grow from one element to the next.
LEMMA RankSteps ==
    ASSUME NEW L \in Nat, NEW K \in SUBSET (1 .. L)
    PROVE  /\ Cardinality({j \in K : j <= 0}) = 0
           /\ {j \in K : j <= L} = K
           /\ \A n \in 0 .. L : Cardinality({j \in K : j <= n}) \in 0 .. Cardinality(K)
           /\ \A n \in 1 .. L : Cardinality({j \in K : j <= n})
                 = IF n \in K THEN Cardinality({j \in K : j <= n - 1}) + 1
                   ELSE Cardinality({j \in K : j <= n - 1})
           /\ \A i, j \in K :
                Cardinality({k \in K : k <= i}) = Cardinality({k \in K : k <= j}) => i = j
<1> DEFINE Upto(n) == {j \in K : j <= n}
<1>0. \A j \in K : j \in Int /\ 1 <= j /\ j <= L /\ j \in 1 .. L
  OBVIOUS
<1>1. IsFiniteSet(K) /\ Cardinality(K) \in Nat
  BY Ranks
<1>2. ASSUME NEW n \in Int
      PROVE  /\ IsFiniteSet(Upto(n)) /\ Cardinality(Upto(n)) \in Nat
             /\ Cardinality(Upto(n)) <= Cardinality(K)
  <2>1. Upto(n) \in SUBSET K
    OBVIOUS
  <2> HIDE DEF Upto
  <2> QED
    BY <1>1, <2>1, FS_Subset, FS_CardinalityType
<1>3. Upto(0) = {} /\ Upto(L) = K
  <2>1. \A j \in K : ~(j <= 0)
    BY <1>0
  <2> QED
    BY <1>0, <2>1
<1>4. ASSUME NEW n \in 1 .. L
      PROVE  Cardinality(Upto(n)) = IF n \in K THEN Cardinality(Upto(n - 1)) + 1
                                    ELSE Cardinality(Upto(n - 1))
  <2>1. /\ \A j \in K : j <= n <=> j <= n - 1 \/ j = n
        /\ ~(n <= n - 1) /\ n <= n /\ n - 1 \in Int
    BY <1>0
  <2>2. /\ n \in K => Upto(n) = Upto(n - 1) \cup {n}
        /\ n \notin K => Upto(n) = Upto(n - 1)
        /\ n \notin Upto(n - 1)
    BY <2>1
  <2>3. IsFiniteSet(Upto(n - 1))
    BY <1>2, <2>1
  <2> HIDE DEF Upto
  <2> QED
    BY <2>2, <2>3, FS_AddElement
<1>5. ASSUME NEW i \in K, NEW j \in K, i < j
      PROVE  Cardinality(Upto(i)) # Cardinality(Upto(j))
  <2>1. Upto(i) \in SUBSET Upto(j) /\ j \in Upto(j) /\ j \notin Upto(i)
    <3>1. \A k \in K : k <= i => k <= j
      BY <1>0, <1>5
    <3>2. j <= j /\ ~(j <= i)
      BY <1>0, <1>5
    <3> QED
      BY <3>1, <3>2
  <2>2. IsFiniteSet(Upto(j))
    BY <1>0, <1>2
  <2> HIDE DEF Upto
  <2> QED
    BY <2>1, <2>2, FS_Subset
<1>6. ASSUME NEW i \in K, NEW j \in K, Cardinality(Upto(i)) = Cardinality(Upto(j))
      PROVE  i = j
  <2>1. i < j \/ j < i \/ i = j
    BY <1>0
  <2> HIDE DEF Upto
  <2> QED
    BY <1>5, <1>6, <2>1
<1>7. \A n \in 0 .. L : Cardinality(Upto(n)) \in 0 .. Cardinality(K)
  <2>1. \A n \in 0 .. L : n \in Int
    OBVIOUS
  <2> HIDE DEF Upto
  <2> QED
    BY <1>1, <1>2, <2>1
<1>8. Cardinality(Upto(0)) = 0
  BY <1>3, FS_EmptySet
<1> QED
  BY <1>3, <1>4, <1>6, <1>7, <1>8

\* Leaving out zeros.
LEMMA SumSelected ==
    ASSUME NEW N \in Nat, NEW w, \A i \in 1 .. N : w[i] \in Rational,
           NEW K \in SUBSET (1 .. N), \A i \in 1 .. N : i \notin K => w[i] = Zero,
           NEW v, \A i \in K : v[Cardinality({j \in K : j <= i})] = w[i]
    PROVE  SumTo(v, Cardinality(K)) = SumTo(w, N)
<1> DEFINE C == Cardinality(K)
           Rank(n) == Cardinality({j \in K : j <= n})
           S == {n \in 0 .. N : SumTo(v, Rank(n)) = SumTo(w, n)}
<1>1. /\ C \in Nat
      /\ \A n \in 1 .. C : \E i \in K : Rank(i) = n
  <2>1. Cardinality(K) \in 0 .. N
    BY Ranks
  <2>2. \A n \in 1 .. Cardinality(K) :
            \E i \in K : Cardinality({j \in K : j <= i}) = n
    BY Ranks
  <2> QED
    BY <2>1, <2>2
<1>2. /\ Rank(0) = 0 /\ Rank(N) = C
      /\ \A n \in 0 .. N : Rank(n) \in 0 .. C
      /\ \A n \in 1 .. N : Rank(n) = IF n \in K THEN Rank(n - 1) + 1 ELSE Rank(n - 1)
  BY RankSteps
<1>3. \A i \in K : i \in 1 .. N /\ v[Rank(i)] = w[i]
  OBVIOUS
<1> HIDE DEF C, Rank
<1>4. \A n \in 1 .. C : v[n] \in Rational
  BY <1>1, <1>3
<1>5. /\ SumTo(v, 0) = Zero /\ SumTo(w, 0) = Zero
      /\ \A n \in 0 .. N : SumTo(w, n) \in Rational
      /\ \A n \in 1 .. N : SumTo(w, n) = Plus(SumTo(w, n - 1), w[n])
      /\ \A n \in 1 .. C : SumTo(v, n) = Plus(SumTo(v, n - 1), v[n])
  BY <1>1, <1>4, SumFacts
<1>6. 0 \in S
  BY <1>2, <1>5
<1>7. ASSUME NEW n \in 0 .. N - 1, n \in S
      PROVE  n + 1 \in S
  <2> DEFINE j == n + 1
             c == Rank(j)
  <2>1. j \in 1 .. N /\ j - 1 = n /\ j \in 0 .. N /\ n \in 0 .. N
    OBVIOUS
  <2> HIDE DEF j
  <2>2. /\ c \in 0 .. C /\ Rank(n) \in 0 .. C
        /\ c = IF j \in K THEN Rank(n) + 1 ELSE Rank(n)
        /\ SumTo(w, j) = Plus(SumTo(w, n), w[j]) /\ SumTo(w, n) \in Rational
    BY <1>2, <1>5, <2>1
  <2>3. SumTo(v, Rank(n)) = SumTo(w, n)
    BY <1>7
  <2>4. CASE j \in K
    <3>1. c \in 1 .. C /\ c - 1 = Rank(n)
      BY <1>1, <2>2, <2>4
    <3>2. v[c] = w[j]
      BY <1>3, <2>4
    <3>3. SumTo(v, c) = SumTo(w, j)
      <4> HIDE DEF c
      <4> QED
        BY <1>5, <2>2, <2>3, <3>1, <3>2
    <3> QED
      BY <2>1, <3>3 DEF j
  <2>5. CASE j \notin K
    <3>1. w[j] = Zero /\ Plus(SumTo(w, n), Zero) = SumTo(w, n)
      BY <2>1, <2>2, <2>5, ZeroFacts, PlusLaws
    <3>2. SumTo(v, c) = SumTo(w, j)
      BY <2>2, <2>3, <2>5, <3>1
    <3> QED
      BY <2>1, <3>2 DEF j
  <2> QED
    BY <2>4, <2>5
<1>8. \A n \in 0 .. N : n \in S
  <2> HIDE DEF S
  <2> QED
    BY <1>6, <1>7, Induction
<1>9. N \in S
  BY <1>8
<1> QED
  BY <1>2, <1>9 DEF C

\* Where the operations leave the bins.
LEMMA InsertedBins ==
    ASSUME NEW V, NEW h \in HistogramOver(V), NEW bin \in BinOver(V)
    PROVE  \E k \in 1 .. Len(h) + 1 : \A j \in 1 .. Len(h) + 1 :
              Inserted(h, bin)[j] = IF j < k THEN h[j] ELSE IF j = k THEN bin ELSE h[j - 1]
<1> DEFINE c == Cardinality({i \in DOMAIN h : Before(h[i], bin)})
           k == c + 1
<1>1. h \in Seq(BinOver(V)) /\ Len(h) \in Nat
  BY BinsOf
<1>2. c \in 0 .. Len(h)
  BY InsertPlace
<1>3. Inserted(h, bin) = InsertAt(h, k, bin)
  BY DEF Inserted
<1> HIDE DEF c
<1>4. k \in 1 .. Len(h) + 1
  BY <1>1, <1>2
<1> HIDE DEF k
<1>5. \A j \in 1 .. Len(h) + 1 :
         InsertAt(h, k, bin)[j] = IF j < k THEN h[j] ELSE IF j = k THEN bin ELSE h[j - 1]
  BY <1>1, <1>4, InsertAtFacts
<1> QED
  BY <1>3, <1>4, <1>5

LEMMA MergedBins ==
    ASSUME NEW V, NEW h \in HistogramOver(V), Len(h) > 1
    PROVE  \E i \in 1 .. Len(h) - 1 : \A j \in 1 .. Len(h) - 1 :
              MergeBest(h)[j] = IF j < i THEN h[j]
                                ELSE IF j = i THEN Merged(h[i], h[i + 1]) ELSE h[j + 1]
<1> DEFINE n == Len(h)
           i == BestMerge(h)
           k == i + 1
           bin == Merged(h[i], h[i + 1])
           g == [h EXCEPT ![i] = bin]
           S == BinOver(V) \cup {bin}
<1>1. /\ h \in Seq(BinOver(V)) /\ n \in Nat /\ DOMAIN h = 1 .. n
      /\ \A j \in 1 .. n : h[j] \in BinOver(V)
  BY BinsOf
<1>2. i \in 1 .. n - 1
  BY BestMergeIndex
<1>3. MergeBest(h) = RemoveAt(g, k)
  BY DEF MergeBest
<1>4. i \in 1 .. n /\ k \in 1 .. n /\ i < k
  BY <1>1, <1>2
<1>5. /\ \A j \in 1 .. n - 1 : /\ j \in 1 .. n /\ j + 1 \in 1 .. n
                               /\ j < k <=> j < i \/ j = i
                               /\ j = i => ~(j < i)
                               /\ ~(j < k) => j + 1 # i
  BY <1>1, <1>2
<1> HIDE DEF i, k
<1>6. h \in Seq(S) /\ bin \in S
  <2>1. BinOver(V) \subseteq S
    OBVIOUS
  <2> HIDE DEF S, bin
  <2>2. h \in Seq(S)
    BY <1>1, <2>1, SeqMonotonic
  <2> QED
    BY <2>2 DEF S
<1> HIDE DEF S, bin
<1>7. /\ g \in Seq(S) /\ Len(g) = n
      /\ \A j \in 1 .. n : g[j] = IF j = i THEN bin ELSE h[j]
  BY <1>1, <1>4, <1>6, ExceptSeq
<1> HIDE DEF g
<1>8. \A j \in 1 .. n - 1 : RemoveAt(g, k)[j] = IF j < k THEN g[j] ELSE g[j + 1]
  <2>1. g \in Seq(S) /\ k \in 1 .. Len(g) /\ Len(g) = n
    BY <1>4, <1>7
  <2>2. \A j \in 1 .. Len(g) - 1 :
           RemoveAt(g, k)[j] = IF j < k THEN g[j] ELSE g[j + 1]
    BY <2>1, RemoveAtFacts
  <2> QED
    BY <2>1, <2>2
<1>9. \A j \in 1 .. n - 1 :
         MergeBest(h)[j] = IF j < i THEN h[j] ELSE IF j = i THEN bin ELSE h[j + 1]
  BY <1>3, <1>5, <1>7, <1>8
<1> QED
  BY <1>2, <1>9 DEF bin

LEMMA SelectedBins ==
    ASSUME NEW V, NEW h \in HistogramOver(V), NEW K \in SUBSET DOMAIN h
    PROVE  \A i \in K : Selected(h, K)[Cardinality({j \in K : j <= i})] = h[i]
<1> DEFINE L == Len(h)
           Rank(i) == Cardinality({j \in K : j <= i})
<1>1. L \in Nat /\ K \in SUBSET (1 .. L)
  BY BinsOf
<1>2. /\ \A n \in 0 .. L : Rank(n) \in 0 .. Cardinality(K)
      /\ \A n \in 1 .. L : Rank(n) = IF n \in K THEN Rank(n - 1) + 1 ELSE Rank(n - 1)
  BY <1>1, RankSteps
<1>3. \A i, j \in K : Rank(i) = Rank(j) => i = j
  BY <1>1, RankSteps
<1>4. Selected(h, K) = [n \in 1 .. Cardinality(K) |-> h[CHOOSE i \in K : Rank(i) = n]]
  BY DEF Selected
<1>5. Cardinality(K) \in Nat
  BY <1>1, Ranks
<1> HIDE DEF Rank
<1>6. ASSUME NEW i \in K
      PROVE  Selected(h, K)[Rank(i)] = h[i]
  <2>1. i \in 1 .. L /\ i \in 0 .. L /\ i - 1 \in 0 .. L
    BY <1>1
  <2>2. Rank(i) \in 1 .. Cardinality(K)
    <3>1. /\ Rank(i - 1) \in 0 .. Cardinality(K) /\ Rank(i) \in 0 .. Cardinality(K)
          /\ Rank(i) = Rank(i - 1) + 1
      BY <1>2, <2>1
    <3> QED
      BY <1>5, <3>1
  <2>3. (CHOOSE j \in K : Rank(j) = Rank(i)) = i
    <3>1. (CHOOSE j \in K : Rank(j) = Rank(i)) \in K
      OBVIOUS
    <3>2. Rank(CHOOSE j \in K : Rank(j) = Rank(i)) = Rank(i)
      OBVIOUS
    <3> QED
      BY <1>3, <3>1, <3>2
  <2> QED
    BY <1>4, <2>2, <2>3
<1> QED
  BY <1>6 DEF Rank

\* A bin weighs its count, and moves the mean by its centre times its count.
LEMMA MergedSums ==
    ASSUME NEW V, NEW left \in BinOver(V), NEW right \in BinOver(V)
    PROVE  LET bin == Merged(left, right) IN
           /\ bin.count = Plus(left.count, right.count)
           /\ Times(bin.center, bin.count)
                  = Plus(Times(left.center, left.count), Times(right.center, right.count))
<1> DEFINE x == left.center
           y == right.center
           u == left.count
           w == right.count
           z == Plus(u, w)
           s == Plus(Times(x, u), Times(y, w))
           bin == Merged(left, right)
<1>1. /\ x \in Rational /\ y \in Rational /\ u \in Rational /\ w \in Rational
      /\ Leq(Zero, u) /\ Leq(Zero, w)
  BY BinFacts
<1>2. CASE ~Nonempty(left) /\ ~Nonempty(right)
  <2>1. u = Zero /\ w = Zero
    <3>1. ASSUME NEW v \in Rational, Leq(Zero, v), ~Less(Zero, v)
          PROVE  v = Zero
      <4>1. v[1] = 0
        <5>1. v[1] \in Int /\ 0 <= v[1] /\ ~(0 < v[1])
          BY <3>1, Signs, Parts
        <5> QED
          BY <5>1
      <4> QED
        BY <4>1, ZeroFacts
    <3> QED
      BY <1>1, <1>2, <3>1 DEF Nonempty
  <2>2. bin.count = Zero /\ bin.center = weighted_average(x, One, y, One)
    BY <1>2 DEF Merged
  <2>3. weighted_average(x, One, y, One) \in Rational
    <3>1. Less(Zero, Plus(One, One))
      <4>1. One \in Rational /\ IsQuotient(One, 1, 1)
        BY ZeroFacts
      <4>2. Plus(One, One) \in Rational /\ IsQuotient(Plus(One, One), 1 * 1 + 1 * 1, 1 * 1)
        BY <4>1, ArithmeticFacts
      <4>3. IsQuotient(Plus(One, One), 2, 1) /\ IsQuotient(Zero, 0, 1) /\ Zero \in Rational
        BY <4>2, ZeroFacts
      <4>4. Less(Zero, Plus(One, One)) <=> 0 * 1 < 2 * 1
        BY <4>2, <4>3, OrderFacts
      <4> QED
        BY <4>4
    <3>2. Plus(Times(x, One), Times(y, One)) \in Rational /\ Plus(One, One) \in Rational
      BY <1>1, ZeroFacts, TimesLaws, PlusLaws
    <3> QED
      BY <3>1, <3>2, OverLaws DEF weighted_average
  <2>4. Plus(Zero, Zero) = Zero /\ \A v \in Rational : Times(v, Zero) = Zero
    BY ZeroFacts, PlusLaws, TimesLaws
  <2> QED
    BY <1>1, <2>1, <2>2, <2>3, <2>4
<1>3. CASE ~(~Nonempty(left) /\ ~Nonempty(right))
  <2>1. bin.count = z /\ bin.center = Over(s, z)
    BY <1>3 DEF Merged, weighted_average
  <2>2. z \in Rational /\ z = Plus(w, u) /\ s \in Rational
    <3>1. Times(x, u) \in Rational /\ Times(y, w) \in Rational
      BY <1>1, TimesLaws
    <3> QED
      BY <1>1, <3>1, PlusLaws
  <2>3. Less(Zero, z)
    <3>1. Less(Zero, u) \/ Less(Zero, w)
      BY <1>3 DEF Nonempty
    <3>2. Leq(Plus(Zero, u), Plus(w, u)) /\ Leq(Plus(Zero, w), Plus(u, w))
      BY <1>1, ZeroFacts, OrderLaws
    <3>3. Plus(Zero, u) = u /\ Plus(Zero, w) = w
      BY <1>1, ZeroFacts, PlusLaws
    <3> QED
      BY <1>1, <2>2, <3>1, <3>2, <3>3, ZeroFacts, OrderLaws
  <2> HIDE DEF s, z, bin
  <2>4. Times(Over(s, z), z) = s
    BY <2>2, <2>3, OverTimes
  <2> QED
    BY <2>1, <2>4 DEF s, z, bin
<1> QED
  BY <1>2, <1>3

Moments(h) == [i \in DOMAIN h |-> Times(h[i].center, h[i].count)]

\* Histograms of the same amount of data with the same mean.
SameSums(g, h) ==
    /\ SumTo(Counts(g), Len(g)) = SumTo(Counts(h), Len(h))
    /\ SumTo(Moments(g), Len(g)) = SumTo(Moments(h), Len(h))

LEMMA Weights ==
    ASSUME NEW V, NEW h \in Seq(BinOver(V))
    PROVE  /\ Len(h) \in Nat /\ DOMAIN h = 1 .. Len(h)
           /\ \A i \in 1 .. Len(h) :
                /\ h[i] \in BinOver(V)
                /\ Counts(h)[i] = h[i].count /\ Counts(h)[i] \in Rational
                /\ Moments(h)[i] = Times(h[i].center, h[i].count)
                /\ Moments(h)[i] \in Rational
<1>1. Len(h) \in Nat /\ DOMAIN h = 1 .. Len(h)
  OBVIOUS
<1>2. ASSUME NEW i \in 1 .. Len(h)
      PROVE  /\ h[i] \in BinOver(V)
             /\ Counts(h)[i] = h[i].count /\ Counts(h)[i] \in Rational
             /\ Moments(h)[i] = Times(h[i].center, h[i].count)
             /\ Moments(h)[i] \in Rational
  <2>1. h[i] \in BinOver(V)
    OBVIOUS
  <2>2. h[i].count \in Rational /\ h[i].center \in Rational
    BY <2>1, BinFacts
  <2>3. Times(h[i].center, h[i].count) \in Rational
    BY <2>2, TimesLaws
  <2> QED
    BY <1>1, <2>1, <2>2, <2>3 DEF Counts, Moments
<1> QED
  BY <1>1, <1>2

LEMMA RemoveConserves ==
    ASSUME NEW V, NEW h \in HistogramOver(V)
    PROVE  SameSums(remove_empty_bins(h), h)
<1> DEFINE F == {i \in DOMAIN h : Nonempty(h[i])}
           K == {i \in DOMAIN h :
                    /\ \E j, k \in F : j <= i /\ i <= k
                    /\ \E j \in F : j \in {i - 1, i, i + 1}}
           g == remove_empty_bins(h)
           n == Len(h)
<1>1. g = Selected(h, K) /\ K \in SUBSET DOMAIN h
  BY DEF remove_empty_bins, Selected
<1>2. /\ h \in Seq(BinOver(V)) /\ n \in Nat /\ DOMAIN h = 1 .. n
      /\ \A i \in 1 .. n :
            /\ h[i] \in BinOver(V)
            /\ Counts(h)[i] = h[i].count /\ Counts(h)[i] \in Rational
            /\ Moments(h)[i] = Times(h[i].center, h[i].count)
            /\ Moments(h)[i] \in Rational
  BY BinsOf, Weights
<1>3. ASSUME NEW i \in 1 .. n, i \notin K
      PROVE  Counts(h)[i] = Zero /\ Moments(h)[i] = Zero
  <2>1. i \notin F
    <3>1. i \in Int /\ i <= i /\ i \in DOMAIN h
      BY <1>2
    <3> QED
      BY <1>3, <3>1
  <2>2. /\ h[i].count \in Rational /\ h[i].center \in Rational
        /\ Leq(Zero, h[i].count) /\ ~Less(Zero, h[i].count)
    <3>1. h[i] \in BinOver(V) /\ i \in DOMAIN h
      BY <1>2
    <3> QED
      BY <2>1, <3>1, BinFacts DEF Nonempty
  <2>3. h[i].count = Zero
    <3> DEFINE c == h[i].count
    <3>1. c[1] \in Int /\ 0 <= c[1] /\ ~(0 < c[1])
      BY <2>2, Signs, Parts
    <3>2. c \in Rational
      BY <2>2
    <3> HIDE DEF c
    <3>3. c[1] = 0
      BY <3>1
    <3>4. c = Zero
      BY <3>2, <3>3, ZeroFacts
    <3> QED
      BY <3>4 DEF c
  <2>4. Times(h[i].center, Zero) = Zero
    BY <2>2, ZeroFacts, TimesLaws
  <2> QED
    BY <1>2, <2>3, <2>4
<1>4. \A i \in K : g[Cardinality({j \in K : j <= i})] = h[i]
  BY <1>1, SelectedBins
<1>5. g \in HistogramOver(V) /\ Len(g) = Cardinality(K)
  BY <1>1, SelectedTyped
<1> HIDE DEF g, K
<1>6. /\ g \in Seq(BinOver(V)) /\ Len(g) \in Nat
      /\ \A i \in 1 .. Len(g) :
            /\ Counts(g)[i] = g[i].count
            /\ Moments(g)[i] = Times(g[i].center, g[i].count)
  BY <1>5, BinsOf, Weights
<1>7. K \in SUBSET (1 .. n)
  BY <1>1, <1>2
<1>8. \A i \in K : Cardinality({j \in K : j <= i}) \in 1 .. Len(g)
  <2> DEFINE Rank(i) == Cardinality({j \in K : j <= i})
  <2>1. /\ \A m \in 0 .. n : Rank(m) \in 0 .. Cardinality(K)
        /\ \A m \in 1 .. n : Rank(m) = IF m \in K THEN Rank(m - 1) + 1 ELSE Rank(m - 1)
    BY <1>2, <1>7, RankSteps
  <2> HIDE DEF Rank
  <2>2. ASSUME NEW i \in K
        PROVE  Rank(i) \in 1 .. Len(g)
    <3>1. i \in 1 .. n /\ i \in 0 .. n /\ i - 1 \in 0 .. n
      BY <1>2, <1>7
    <3>2. /\ Rank(i - 1) \in 0 .. Len(g) /\ Rank(i) \in 0 .. Len(g)
          /\ Rank(i) = Rank(i - 1) + 1
      BY <1>5, <2>1, <3>1
    <3> QED
      BY <1>6, <3>2
  <2> QED
    BY <2>2 DEF Rank
<1>9. \A i \in K : /\ Counts(g)[Cardinality({j \in K : j <= i})] = Counts(h)[i]
                   /\ Moments(g)[Cardinality({j \in K : j <= i})] = Moments(h)[i]
  BY <1>2, <1>4, <1>6, <1>7, <1>8
<1>10. SumTo(Counts(g), Cardinality(K)) = SumTo(Counts(h), n)
  BY <1>2, <1>3, <1>7, <1>9, SumSelected
<1>11. SumTo(Moments(g), Cardinality(K)) = SumTo(Moments(h), n)
  BY <1>2, <1>3, <1>7, <1>9, SumSelected
<1> QED
  BY <1>5, <1>10, <1>11 DEF SameSums, g

LEMMA MergeConserves ==
    ASSUME NEW V \in SUBSET Int, NEW h \in HistogramOver(V), Len(h) > 1
    PROVE  SameSums(MergeBest(h), h)
<1> DEFINE n == Len(h)
           g == MergeBest(h)
<1>1. /\ h \in Seq(BinOver(V)) /\ n \in Nat
      /\ \A i \in 1 .. n :
            /\ h[i] \in BinOver(V)
            /\ Counts(h)[i] = h[i].count /\ Counts(h)[i] \in Rational
            /\ Moments(h)[i] = Times(h[i].center, h[i].count)
            /\ Moments(h)[i] \in Rational
  BY BinsOf, Weights
<1>2. PICK k \in 1 .. n - 1 : \A j \in 1 .. n - 1 :
          g[j] = IF j < k THEN h[j] ELSE IF j = k THEN Merged(h[k], h[k + 1]) ELSE h[j + 1]
  BY MergedBins
<1>3. g \in HistogramOver(V) /\ Len(g) = n - 1
  BY MergeTyped
<1> HIDE DEF g
<1>4. /\ g \in Seq(BinOver(V))
      /\ \A i \in 1 .. n - 1 :
            /\ Counts(g)[i] = g[i].count
            /\ Moments(g)[i] = Times(g[i].center, g[i].count)
  <2>1. g \in Seq(BinOver(V))
    BY <1>3, BinsOf
  <2> QED
    BY <1>3, <2>1, Weights
<1>5. /\ k \in 1 .. n /\ k + 1 \in 1 .. n
      /\ \A j \in 1 .. n - 1 : j \in 1 .. n /\ j + 1 \in 1 .. n
  BY <1>1
<1>6. LET bin == Merged(h[k], h[k + 1]) IN
      /\ bin.count = Plus(h[k].count, h[k + 1].count)
      /\ Times(bin.center, bin.count)
             = Plus(Times(h[k].center, h[k].count), Times(h[k + 1].center, h[k + 1].count))
  BY <1>1, <1>5, MergedSums
<1>7. \A j \in 1 .. n - 1 :
         Counts(g)[j] = IF j < k THEN Counts(h)[j]
                        ELSE IF j = k THEN Plus(Counts(h)[k], Counts(h)[k + 1])
                        ELSE Counts(h)[j + 1]
  BY <1>1, <1>2, <1>4, <1>5, <1>6
<1>8. \A j \in 1 .. n - 1 :
         Moments(g)[j] = IF j < k THEN Moments(h)[j]
                         ELSE IF j = k THEN Plus(Moments(h)[k], Moments(h)[k + 1])
                         ELSE Moments(h)[j + 1]
  BY <1>1, <1>2, <1>4, <1>5, <1>6
<1>9. SumTo(Counts(g), n - 1) = SumTo(Counts(h), n)
  BY <1>1, <1>7, SumMerged
<1>10. SumTo(Moments(g), n - 1) = SumTo(Moments(h), n)
  BY <1>1, <1>8, SumMerged
<1> QED
  BY <1>3, <1>9, <1>10 DEF SameSums, g

\* What a bin becomes when it is shifted.
ShiftedBin(bin, m, t) ==
    [bin EXCEPT !.count = shift_interval_data(bin.count, bin.timestamp, m, t)]

LEMMA ShiftBin ==
    ASSUME NEW V, NEW bin \in BinOver(V), NEW m \in Int, NEW t \in Int
    PROVE  /\ ShiftedBin(bin, m, t) \in BinOver(V)
           /\ ShiftedBin(bin, m, t).center = bin.center
           /\ ShiftedBin(bin, m, t).timestamp = bin.timestamp
           /\ ShiftedBin(bin, m, t).count
                  = shift_interval_data(bin.count, bin.timestamp, m, t)
<1> DEFINE c == shift_interval_data(bin.count, bin.timestamp, m, t)
<1>1. c \in Amount
  BY BinFacts, ShiftTyped
<1>2. ShiftedBin(bin, m, t) = [bin EXCEPT !.count = c]
  BY DEF ShiftedBin
<1> HIDE DEF c
<1> QED
  BY <1>1, <1>2 DEF BinOver, c

LEMMA ShiftBins ==
    ASSUME NEW V, NEW h \in Seq(BinOver(V)), NEW m \in Int, NEW t \in Int
    PROVE  /\ shift_histogram(h, m, t) \in Seq(BinOver(V))
           /\ Len(shift_histogram(h, m, t)) = Len(h)
           /\ \A i \in 1 .. Len(h) : shift_histogram(h, m, t)[i] = ShiftedBin(h[i], m, t)
<1> DEFINE g == shift_histogram(h, m, t)
           n == Len(h)
<1>1. n \in Nat /\ DOMAIN h = 1 .. n /\ \A i \in 1 .. n : h[i] \in BinOver(V)
  OBVIOUS
<1>2. g = [i \in 1 .. n |-> ShiftedBin(h[i], m, t)]
  BY <1>1 DEF shift_histogram, ShiftedBin
<1>3. \A i \in 1 .. n : ShiftedBin(h[i], m, t) \in BinOver(V)
  BY <1>1, ShiftBin
<1> HIDE DEF g, n
<1>4. g \in Seq(BinOver(V)) /\ Len(g) = n
  BY <1>1, <1>2, <1>3
<1> QED
  BY <1>2, <1>4 DEF g, n

\* The place of the new bin does not matter for the sums.
LEMMA InsertConserves ==
    ASSUME NEW V, NEW h \in HistogramOver(V), NEW bin \in BinOver(V),
           NEW m \in Int, NEW t \in Int
    PROVE  SameSums(shift_histogram(Inserted(h, bin), m, t),
                    shift_histogram(Append(h, bin), m, t))
<1> DEFINE n == Len(h)
           N == n + 1
           s == shift_histogram(h, m, t)
           e == ShiftedBin(bin, m, t)
           x == Inserted(h, bin)
           y == Append(h, bin)
           g == shift_histogram(x, m, t)
           l == shift_histogram(y, m, t)
<1>1. h \in Seq(BinOver(V)) /\ n \in Nat /\ N \in 1 .. N
  BY BinsOf
<1>2. PICK k \in 1 .. N : \A j \in 1 .. N :
          x[j] = IF j < k THEN h[j] ELSE IF j = k THEN bin ELSE h[j - 1]
  <2> HIDE DEF s, e, y, g, l
  <2>1. h \in HistogramOver(V) /\ bin \in BinOver(V)
    OBVIOUS
  <2> QED
    BY <2>1, InsertedBins
<1>3. x \in Seq(BinOver(V)) /\ Len(x) = N
  <2>1. x \in HistogramOver(V) /\ Len(x) = N
    BY InsertTyped
  <2> HIDE DEF x
  <2> QED
    BY <2>1, BinsOf
<1>4. /\ y \in Seq(BinOver(V)) /\ Len(y) = N
      /\ \A j \in 1 .. N : y[j] = IF j < N THEN h[j] ELSE bin
  <2>1. bin \in BinOver(V)
    OBVIOUS
  <2> HIDE DEF s, e, x, g, l
  <2>2. /\ y \in Seq(BinOver(V)) /\ Len(y) = Len(h) + 1
        /\ \A j \in 1 .. Len(h) : y[j] = h[j]
        /\ y[Len(h) + 1] = bin
    BY <1>1, <2>1, AppendProperties
  <2> HIDE DEF y
  <2>3. \A j \in 1 .. N : (j < N => j \in 1 .. Len(h)) /\ (~(j < N) => j = Len(h) + 1)
    BY <1>1
  <2> QED
    BY <2>2, <2>3
<1> HIDE DEF x, y
<1>5. /\ s \in Seq(BinOver(V)) /\ Len(s) = n
      /\ \A i \in 1 .. n : s[i] = ShiftedBin(h[i], m, t)
  BY <1>1, ShiftBins
<1>6. /\ g \in Seq(BinOver(V)) /\ Len(g) = N
      /\ \A i \in 1 .. N : g[i] = ShiftedBin(x[i], m, t)
  BY <1>3, ShiftBins
<1>7. /\ l \in Seq(BinOver(V)) /\ Len(l) = N
      /\ \A i \in 1 .. N : l[i] = ShiftedBin(y[i], m, t)
  BY <1>4, ShiftBins
<1> HIDE DEF s, g, l
<1>8. /\ \A j \in 1 .. N : g[j] = IF j < k THEN s[j] ELSE IF j = k THEN e ELSE s[j - 1]
      /\ \A j \in 1 .. N : l[j] = IF j < N THEN s[j] ELSE IF j = N THEN e ELSE s[j - 1]
  <2>1. \A j \in 1 .. N : /\ j < k => j \in 1 .. n
                          /\ j < N => j \in 1 .. n
                          /\ ~(j < k) /\ j # k => j - 1 \in 1 .. n
                          /\ ~(j < N) => j = N
    BY <1>1
  <2> HIDE DEF N, n
  <2>2. \A i \in 1 .. n : s[i] = ShiftedBin(h[i], m, t)
    BY <1>5
  <2> HIDE DEF e
  <2>3. \A j \in 1 .. N : g[j] = IF j < k THEN s[j] ELSE IF j = k THEN e ELSE s[j - 1]
    <3> SUFFICES ASSUME NEW j \in 1 .. N
                 PROVE  g[j] = IF j < k THEN s[j] ELSE IF j = k THEN e ELSE s[j - 1]
      OBVIOUS
    <3>1. /\ g[j] = ShiftedBin(x[j], m, t)
          /\ x[j] = IF j < k THEN h[j] ELSE IF j = k THEN bin ELSE h[j - 1]
      BY <1>2, <1>6
    <3> QED
      BY <2>1, <2>2, <3>1, Zenon DEF e
  <2>4. \A j \in 1 .. N : l[j] = IF j < N THEN s[j] ELSE IF j = N THEN e ELSE s[j - 1]
    <3> SUFFICES ASSUME NEW j \in 1 .. N
                 PROVE  l[j] = IF j < N THEN s[j] ELSE IF j = N THEN e ELSE s[j - 1]
      OBVIOUS
    <3>1. /\ l[j] = ShiftedBin(y[j], m, t)
          /\ y[j] = IF j < N THEN h[j] ELSE bin
      BY <1>4, <1>7
    <3> QED
      BY <2>1, <2>2, <3>1, Zenon DEF e
  <2> QED
    BY <2>3, <2>4
<1>9. e \in BinOver(V)
  BY ShiftBin
<1> HIDE DEF e
<1> DEFINE c == e.count
           d == Times(e.center, e.count)
<1>10. c \in Rational /\ d \in Rational
  BY <1>9, BinFacts, TimesLaws
<1>11. \A i \in 1 .. n : /\ Counts(s)[i] = s[i].count /\ Counts(s)[i] \in Rational
                         /\ Moments(s)[i] = Times(s[i].center, s[i].count)
                         /\ Moments(s)[i] \in Rational
  BY <1>5, Weights
<1>12. \A i \in 1 .. N : /\ Counts(g)[i] = g[i].count
                         /\ Moments(g)[i] = Times(g[i].center, g[i].count)
  BY <1>6, Weights
<1>13. \A i \in 1 .. N : /\ Counts(l)[i] = l[i].count
                         /\ Moments(l)[i] = Times(l[i].center, l[i].count)
  BY <1>7, Weights
<1>14. \A j \in 1 .. N : /\ j < k => j \in 1 .. n
                         /\ j < N => j \in 1 .. n
                         /\ ~(j < k) /\ j # k => j - 1 \in 1 .. n
                         /\ ~(j < N) => j = N
  BY <1>1
<1>15. SumTo(Counts(g), N) = Plus(SumTo(Counts(s), n), c)
  <2>1. \A j \in 1 .. N : Counts(g)[j] = IF j < k THEN Counts(s)[j]
                                         ELSE IF j = k THEN c ELSE Counts(s)[j - 1]
    BY <1>8, <1>11, <1>12, <1>14
  <2> DEFINE w == Counts(s)
             v == Counts(g)
             K == k
  <2>2. /\ n \in Nat /\ N = n + 1 /\ K \in 1 .. n + 1 /\ c \in Rational
        /\ \A i \in 1 .. n : w[i] \in Rational
    BY <1>1, <1>10, <1>11
  <2>3. \A j \in 1 .. n + 1 : v[j] = IF j < K THEN w[j]
                                    ELSE IF j = K THEN c ELSE w[j - 1]
    BY <2>1
  <2> HIDE DEF c, w, v, K, n, N
  <2>4. SumTo(v, n + 1) = Plus(SumTo(w, n), c)
    BY <2>2, <2>3, SumInserted
  <2> QED
    BY <2>2, <2>4 DEF w, v
<1>16. SumTo(Moments(g), N) = Plus(SumTo(Moments(s), n), d)
  <2>1. \A j \in 1 .. N : Moments(g)[j] = IF j < k THEN Moments(s)[j]
                                          ELSE IF j = k THEN d ELSE Moments(s)[j - 1]
    BY <1>8, <1>11, <1>12, <1>14
  <2> DEFINE w == Moments(s)
             v == Moments(g)
             K == k
  <2>2. /\ n \in Nat /\ N = n + 1 /\ K \in 1 .. n + 1 /\ d \in Rational
        /\ \A i \in 1 .. n : w[i] \in Rational
    BY <1>1, <1>10, <1>11
  <2>3. \A j \in 1 .. n + 1 : v[j] = IF j < K THEN w[j]
                                    ELSE IF j = K THEN d ELSE w[j - 1]
    BY <2>1
  <2> HIDE DEF d, w, v, K, n, N
  <2>4. SumTo(v, n + 1) = Plus(SumTo(w, n), d)
    BY <2>2, <2>3, SumInserted
  <2> QED
    BY <2>2, <2>4 DEF w, v
<1>17. SumTo(Counts(l), N) = Plus(SumTo(Counts(s), n), c)
  <2>1. \A j \in 1 .. N : Counts(l)[j] = IF j < N THEN Counts(s)[j]
                                         ELSE IF j = N THEN c ELSE Counts(s)[j - 1]
    BY <1>8, <1>11, <1>13, <1>14
  <2> DEFINE w == Counts(s)
             v == Counts(l)
             K == N
  <2>2. /\ n \in Nat /\ N = n + 1 /\ K \in 1 .. n + 1 /\ c \in Rational
        /\ \A i \in 1 .. n : w[i] \in Rational
    BY <1>1, <1>10, <1>11
  <2>3. \A j \in 1 .. n + 1 : v[j] = IF j < K THEN w[j]
                                    ELSE IF j = K THEN c ELSE w[j - 1]
    BY <2>1
  <2> HIDE DEF c, w, v, K, n, N
  <2>4. SumTo(v, n + 1) = Plus(SumTo(w, n), c)
    BY <2>2, <2>3, SumInserted
  <2> QED
    BY <2>2, <2>4 DEF w, v
<1>18. SumTo(Moments(l), N) = Plus(SumTo(Moments(s), n), d)
  <2>1. \A j \in 1 .. N : Moments(l)[j] = IF j < N THEN Moments(s)[j]
                                          ELSE IF j = N THEN d ELSE Moments(s)[j - 1]
    BY <1>8, <1>11, <1>13, <1>14
  <2> DEFINE w == Moments(s)
             v == Moments(l)
             K == N
  <2>2. /\ n \in Nat /\ N = n + 1 /\ K \in 1 .. n + 1 /\ d \in Rational
        /\ \A i \in 1 .. n : w[i] \in Rational
    BY <1>1, <1>10, <1>11
  <2>3. \A j \in 1 .. n + 1 : v[j] = IF j < K THEN w[j]
                                    ELSE IF j = K THEN d ELSE w[j - 1]
    BY <2>1
  <2> HIDE DEF d, w, v, K, n, N
  <2>4. SumTo(v, n + 1) = Plus(SumTo(w, n), d)
    BY <2>2, <2>3, SumInserted
  <2> QED
    BY <2>2, <2>4 DEF w, v
<1> QED
  BY <1>6, <1>7, <1>15, <1>16, <1>17, <1>18 DEF SameSums, g, l, x, y

\* Dropping empty bins and merging close ones keeps what there is.
LEMMA UpdateConserves ==
    ASSUME NEW V \in SUBSET Int, NEW h \in HistogramOver(V), NEW v \in Int,
           NEW m \in Int, NEW t \in Int
    PROVE  SameSums(update_histogram(h, v, m, t),
                    shift_histogram(Append(h, NewBin(v, t)), m, t))
<1> DEFINE W == V \cup {v}
           bin == NewBin(v, t)
           b == shift_histogram(Inserted(h, bin), m, t)
           l == shift_histogram(Append(h, bin), m, t)
           c == IF Len(b) > HistogramBins THEN remove_empty_bins(b) ELSE b
<1>1. /\ W \in SUBSET Int /\ h \in HistogramOver(W) /\ bin \in BinOver(W)
      /\ HistogramBins \in Nat \ {0}
  BY MoreValues, NewBinTyped, HistogramAssumption
<1>2. update_histogram(h, v, m, t) = IF Len(c) > HistogramBins THEN MergeBest(c) ELSE c
  BY DEF update_histogram
<1>3. SameSums(b, l)
  <2> HIDE DEF bin, W
  <2> QED
    BY <1>1, InsertConserves
<1>4. b \in HistogramOver(W)
  <2>1. Inserted(h, bin) \in HistogramOver(W)
    BY <1>1, InsertTyped
  <2> QED
    BY <2>1, ShiftHistogram
<1> HIDE DEF b, l, W
<1>5. SameSums(c, l) /\ c \in HistogramOver(W)
  BY <1>3, <1>4, RemoveConserves, RemoveTyped DEF SameSums
<1> HIDE DEF c
<1>6. Len(c) > HistogramBins => SameSums(MergeBest(c), c)
  <2>1. Len(c) \in Nat
    BY <1>5, BinsOf
  <2>2. Len(c) > HistogramBins => Len(c) > 1
    BY <1>1, <2>1
  <2> QED
    BY <1>1, <1>5, <2>2, MergeConserves
<1> QED
  BY <1>2, <1>5, <1>6 DEF SameSums, l

-----------------------------------------------------------------------------
(* The bins decay at least as fast as the moving quantities do.             *)

\* Older data decay faster, and a datum of the moment of the shift is left as
\* it is or shrinks.
LEMMA FactorMonotone ==
    ASSUME NEW a \in Int, NEW d \in Int, a <= d, NEW m \in Int, NEW t \in Int
    PROVE  Leq(Factor(a, m, t), Factor(d, m, t))
<1>1. MovingInterval \in Nat \ {0}
  BY IntervalAssumption
<1> DEFINE x == stale_interval(a, t)
           y == stale_interval(d, t)
           u == Covered(a, m)
           w == Covered(d, m)
<1>2. /\ x \in Int /\ y \in Int /\ u \in Int /\ w \in Int
      /\ x <= y /\ y - x = w - u /\ (t > m => x < u /\ y < w)
  BY <1>1 DEF stale_interval, Covered
<1>3. /\ Factor(a, m, t) = IF t <= m THEN One ELSE IF x <= 0 THEN Zero ELSE Ratio(x, u)
      /\ Factor(d, m, t) = IF t <= m THEN One ELSE IF y <= 0 THEN Zero ELSE Ratio(y, w)
  BY DEF Factor
<1>4. /\ Factor(a, m, t) \in Rational /\ Factor(d, m, t) \in Rational
      /\ Leq(Zero, Factor(d, m, t))
  BY ShiftIsTimes DEF Amount
<1> HIDE DEF x, y, u, w
<1>5. CASE t <= m
  BY <1>3, <1>4, <1>5, OrderLaws
<1>6. CASE ~(t <= m) /\ x <= 0
  BY <1>3, <1>4, <1>6
<1>7. CASE ~(t <= m) /\ ~(x <= 0)
  <2>1. /\ x \in Nat \ {0} /\ y \in Nat \ {0} /\ u \in Nat \ {0} /\ w \in Nat \ {0}
        /\ ~(y <= 0) /\ x <= u
    BY <1>2, <1>7
  <2>2. /\ Ratio(x, u) \in Rational /\ IsQuotient(Ratio(x, u), x, u)
        /\ Ratio(y, w) \in Rational /\ IsQuotient(Ratio(y, w), y, w)
    BY <2>1, RatioIsQuotient
  <2>3. Leq(Ratio(x, u), Ratio(y, w)) <=> x * w <= y * u
    BY <2>1, <2>2, OrderFacts
  <2>4. x * w <= y * u
    <3> DEFINE k == y - x
    <3>1. k \in Nat /\ y = x + k /\ w = u + k
      BY <1>2, <2>1
    <3> HIDE DEF k
    <3>2. x * w = x * u + x * k /\ y * u = x * u + u * k
      BY <2>1, <3>1
    <3>3. x * k <= u * k
      BY <2>1, <3>1, Monotone
    <3>4. x * u \in Int /\ x * k \in Int /\ u * k \in Int
      BY <2>1, <3>1
    <3> QED
      BY <3>2, <3>3, <3>4
  <2> QED
    BY <1>3, <1>7, <2>1, <2>3, <2>4
<1> QED
  BY <1>5, <1>6, <1>7

LEMMA FactorOfNew ==
    ASSUME NEW m \in Int, NEW t \in Int
    PROVE  Leq(Factor(t, m, t), One)
<1>1. MovingInterval \in Nat \ {0}
  BY IntervalAssumption
<1> DEFINE y == stale_interval(t, t)
           w == Covered(t, m)
<1>2. /\ y = MovingInterval /\ w \in Int /\ (t > m => y < w)
  BY <1>1 DEF stale_interval, Covered
<1>3. Factor(t, m, t) = IF t <= m THEN One ELSE IF y <= 0 THEN Zero ELSE Ratio(y, w)
  BY DEF Factor
<1> HIDE DEF y, w
<1>4. CASE t <= m
  BY <1>3, <1>4, ZeroFacts, OrderLaws
<1>5. CASE ~(t <= m)
  <2>1. y \in Nat \ {0} /\ w \in Nat \ {0} /\ y <= w /\ ~(y <= 0)
    BY <1>1, <1>2, <1>5
  <2>2. /\ Ratio(y, w) \in Rational /\ IsQuotient(Ratio(y, w), y, w)
        /\ One \in Rational /\ IsQuotient(One, 1, 1)
    BY <2>1, RatioIsQuotient, ZeroFacts
  <2>3. Leq(Ratio(y, w), One) <=> y * 1 <= 1 * w
    BY <2>1, <2>2, OrderFacts
  <2> QED
    BY <1>3, <1>5, <2>1, <2>3
<1> QED
  BY <1>4, <1>5

\* No bin is newer than B.
NotAfter(h, B) == \A i \in DOMAIN h : h[i].timestamp <= B

LEMMA ShiftedSum ==
    ASSUME NEW V, NEW h \in Seq(BinOver(V)), NEW B \in Int, NotAfter(h, B),
           NEW m \in Int, NEW t \in Int
    PROVE  LET g == shift_histogram(h, m, t) IN
           Leq(SumTo(Counts(g), Len(g)), Times(SumTo(Counts(h), Len(h)), Factor(B, m, t)))
<1> DEFINE g == shift_histogram(h, m, t)
           n == Len(h)
           F == Factor(B, m, t)
<1>1. F \in Rational
  BY ShiftIsTimes DEF Amount
<1>2. /\ n \in Nat /\ DOMAIN h = 1 .. n
      /\ \A i \in 1 .. n : /\ h[i] \in BinOver(V) /\ Counts(h)[i] = h[i].count
                           /\ Counts(h)[i] \in Rational
  BY Weights
<1>3. /\ g \in Seq(BinOver(V)) /\ Len(g) = n
      /\ \A i \in 1 .. n : g[i] = ShiftedBin(h[i], m, t)
  BY ShiftBins
<1> HIDE DEF g, n, F
<1>4. \A i \in 1 .. n : Counts(g)[i] = g[i].count /\ Counts(g)[i] \in Rational
  BY <1>3, Weights
<1>5. ASSUME NEW i \in 1 .. n
      PROVE  Leq(Counts(g)[i], Times(Counts(h)[i], F))
  <2> DEFINE c == h[i].count
             a == h[i].timestamp
             f == Factor(a, m, t)
  <2>1. c \in Rational /\ Leq(Zero, c) /\ a \in Int /\ a <= B
    <3>1. h[i] \in BinOver(V) /\ i \in DOMAIN h
      BY <1>2
    <3>2. h[i].timestamp <= B
      BY <3>1 DEF NotAfter
    <3> QED
      BY <3>1, <3>2, BinFacts
  <2>2. Counts(g)[i] = shift_interval_data(c, a, m, t)
    <3>1. h[i] \in BinOver(V)
      BY <1>2
    <3>2. ShiftedBin(h[i], m, t).count = shift_interval_data(c, a, m, t)
      BY <3>1, ShiftBin
    <3> QED
      BY <1>3, <1>4, <3>2
  <2>3. Counts(h)[i] = c
    BY <1>2
  <2> HIDE DEF c, a
  <2>4. shift_interval_data(c, a, m, t) = Times(c, f) /\ f \in Rational
    BY <2>1, ShiftIsTimes DEF Amount
  <2>5. Leq(f, F)
    BY <2>1, FactorMonotone DEF F
  <2> HIDE DEF f
  <2>6. Leq(Times(f, c), Times(F, c))
    BY <1>1, <2>1, <2>4, <2>5, OrderLaws
  <2>7. Times(f, c) = Times(c, f) /\ Times(F, c) = Times(c, F)
    BY <1>1, <2>1, <2>4, TimesLaws
  <2> QED
    BY <2>2, <2>3, <2>4, <2>6, <2>7
<1>6. Leq(SumTo(Counts(g), n), Times(SumTo(Counts(h), n), F))
  BY <1>1, <1>2, <1>4, <1>5, SumBound
<1> QED
  BY <1>3, <1>6 DEF g, n, F

LEMMA UpdateNotAfter ==
    ASSUME NEW V \in SUBSET Int, NEW h \in HistogramOver(V), NEW v \in Int,
           NEW m \in Int, NEW t \in Int, NEW B \in Nat, t <= B, NotAfter(h, B)
    PROVE  NotAfter(update_histogram(h, v, m, t), B)
<1> DEFINE W == V \cup {v}
           bin == NewBin(v, t)
           a == Inserted(h, bin)
           b == shift_histogram(a, m, t)
           c == IF Len(b) > HistogramBins THEN remove_empty_bins(b) ELSE b
<1>1. /\ W \in SUBSET Int /\ h \in HistogramOver(W) /\ bin \in BinOver(W)
      /\ bin.timestamp = t /\ HistogramBins \in Nat \ {0}
  BY MoreValues, NewBinTyped, HistogramAssumption DEF NewBin
<1>2. update_histogram(h, v, m, t) = IF Len(c) > HistogramBins THEN MergeBest(c) ELSE c
  BY DEF update_histogram
<1> HIDE DEF bin, W
<1>3. a \in HistogramOver(W) /\ Len(a) = Len(h) + 1
  BY <1>1, InsertTyped
<1>4. NotAfter(a, B)
  <2>1. Len(h) \in Nat /\ DOMAIN h = 1 .. Len(h) /\ DOMAIN a = 1 .. Len(h) + 1
    <3> HIDE DEF a
    <3> QED
      BY <1>3, BinsOf
  <2>2. PICK k \in 1 .. Len(h) + 1 : \A j \in 1 .. Len(h) + 1 :
            a[j] = IF j < k THEN h[j] ELSE IF j = k THEN bin ELSE h[j - 1]
    BY <1>1, InsertedBins
  <2> HIDE DEF a
  <2>3. \A j \in 1 .. Len(h) + 1 : /\ j < k => j \in DOMAIN h
                                   /\ ~(j < k) /\ j # k => j - 1 \in DOMAIN h
    BY <2>1
  <2> QED
    BY <1>1, <2>1, <2>2, <2>3 DEF NotAfter
<1> HIDE DEF a
<1>5. b \in HistogramOver(W) /\ NotAfter(b, B)
  <2>1. /\ b \in HistogramOver(W) /\ DOMAIN b = DOMAIN a
        /\ \A i \in DOMAIN a : b[i].timestamp = a[i].timestamp
    BY <1>3, ShiftHistogram
  <2> HIDE DEF b
  <2> QED
    BY <1>4, <2>1 DEF NotAfter
<1> HIDE DEF b
<1>6. c \in HistogramOver(W) /\ NotAfter(c, B)
  <2> DEFINE F == {i \in DOMAIN b : Nonempty(b[i])}
             K == {i \in DOMAIN b :
                      /\ \E j, k \in F : j <= i /\ i <= k
                      /\ \E j \in F : j \in {i - 1, i, i + 1}}
             r == remove_empty_bins(b)
             L == Len(b)
  <2>1. r = Selected(b, K) /\ K \in SUBSET DOMAIN b
    BY DEF remove_empty_bins, Selected
  <2>2. r \in HistogramOver(W)
    BY <1>5, RemoveTyped
  <2>3. Len(r) = Cardinality(K) /\ L \in Nat /\ K \in SUBSET (1 .. L)
    BY <1>5, <2>1, SelectedTyped, BinsOf
  <2>4. \A i \in K : r[Cardinality({j \in K : j <= i})] = b[i]
    BY <1>5, <2>1, SelectedBins
  <2>5. \A n \in 1 .. Cardinality(K) :
            \E i \in K : Cardinality({j \in K : j <= i}) = n
    BY <2>3, Ranks
  <2> HIDE DEF r, K
  <2>6. DOMAIN r = 1 .. Cardinality(K)
    BY <2>2, <2>3, BinsOf
  <2>7. \A n \in DOMAIN r : \E i \in DOMAIN b : r[n] = b[i]
    BY <2>1, <2>4, <2>5, <2>6
  <2>8. NotAfter(r, B)
    BY <1>5, <2>7 DEF NotAfter
  <2> QED
    BY <1>5, <2>2, <2>8 DEF r
<1> HIDE DEF c
<1>7. Len(c) > HistogramBins => NotAfter(MergeBest(c), B)
  <2>1. SUFFICES ASSUME Len(c) > HistogramBins
                 PROVE  NotAfter(MergeBest(c), B)
    OBVIOUS
  <2> DEFINE n == Len(c)
             g == MergeBest(c)
  <2>2. /\ n \in Nat /\ n > 1 /\ DOMAIN c = 1 .. n
        /\ \A i \in DOMAIN c : c[i] \in BinOver(W)
    BY <1>1, <1>6, <2>1, BinsOf
  <2>3. PICK k \in 1 .. n - 1 : \A j \in 1 .. n - 1 :
            g[j] = IF j < k THEN c[j] ELSE IF j = k THEN Merged(c[k], c[k + 1]) ELSE c[j + 1]
    BY <1>6, <2>2, MergedBins
  <2>4. DOMAIN g = 1 .. n - 1
    <3>1. g \in HistogramOver(W) /\ Len(g) = n - 1
      BY <1>1, <1>6, <2>2, MergeTyped
    <3> HIDE DEF g
    <3> QED
      BY <3>1, BinsOf
  <2>5. \A j \in 1 .. n - 1 : j \in DOMAIN c /\ j + 1 \in DOMAIN c
    BY <2>2
  <2>6. Merged(c[k], c[k + 1]).timestamp \in {0, c[k].timestamp, c[k + 1].timestamp}
    BY DEF Merged
  <2>7. 0 <= B
    OBVIOUS
  <2> HIDE DEF n, g
  <2> QED
    BY <1>6, <2>3, <2>4, <2>5, <2>6, <2>7 DEF NotAfter, g
<1> QED
  BY <1>2, <1>6, <1>7

\* With a value more, the bins hold at most one more than the quantity c does
\* that is shifted alike, if they held no more than c before.
LEMMA UpdateSum ==
    ASSUME NEW V \in SUBSET Int, NEW h \in HistogramOver(V), NEW v \in Int,
           NEW m \in Int, NEW t \in Int, NEW B \in Int, NotAfter(h, B),
           NEW c \in Rational, Leq(SumTo(Counts(h), Len(h)), c)
    PROVE  LET g == update_histogram(h, v, m, t) IN
           Leq(SumTo(Counts(g), Len(g)), Plus(One, shift_interval_data(c, B, m, t)))
<1> DEFINE W == V \cup {v}
           n == Len(h)
           N == n + 1
           bin == NewBin(v, t)
           g == update_histogram(h, v, m, t)
           z == Append(h, bin)
           l == shift_histogram(z, m, t)
           s == shift_histogram(h, m, t)
           e == ShiftedBin(bin, m, t).count
           F == Factor(B, m, t)
           S == SumTo(Counts(h), n)
<1>1. /\ h \in HistogramOver(W) /\ bin \in BinOver(W)
      /\ bin.count = One /\ bin.timestamp = t
  BY MoreValues, NewBinTyped DEF NewBin
<1>2. h \in Seq(BinOver(W)) /\ n \in Nat
  BY <1>1, BinsOf
<1>3. SumTo(Counts(g), Len(g)) = SumTo(Counts(l), Len(l))
  BY UpdateConserves DEF SameSums
<1> HIDE DEF bin, W, g
<1>4. /\ z \in Seq(BinOver(W)) /\ Len(z) = N
      /\ \A j \in 1 .. N : z[j] = IF j < N THEN h[j] ELSE bin
  BY <1>1, <1>2
<1> HIDE DEF z
<1>5. /\ l \in Seq(BinOver(W)) /\ Len(l) = N
      /\ \A j \in 1 .. N : l[j] = ShiftedBin(z[j], m, t)
  BY <1>4, ShiftBins
<1>6. /\ s \in Seq(BinOver(W)) /\ Len(s) = n
      /\ \A j \in 1 .. n : s[j] = ShiftedBin(h[j], m, t)
  BY <1>2, ShiftBins
<1>7. Leq(SumTo(Counts(s), Len(s)), Times(SumTo(Counts(h), Len(h)), F))
  BY <1>2, ShiftedSum
<1> HIDE DEF l, s, n
<1>8. e \in Rational /\ Leq(e, One)
  <2>1. ShiftedBin(bin, m, t).count = shift_interval_data(One, t, m, t)
    BY <1>1, ShiftBin
  <2>2. /\ shift_interval_data(One, t, m, t) = Times(One, Factor(t, m, t))
        /\ Factor(t, m, t) \in Rational /\ One \in Rational
    BY ZeroFacts, ShiftIsTimes DEF Amount
  <2>3. Times(One, Factor(t, m, t)) = Factor(t, m, t)
    BY <2>2, TimesLaws
  <2> QED
    BY <2>1, <2>2, <2>3, FactorOfNew
<1>9. /\ \A j \in 1 .. n : Counts(s)[j] = s[j].count /\ Counts(s)[j] \in Rational
      /\ \A j \in 1 .. N : Counts(l)[j] = l[j].count
  BY <1>5, <1>6, Weights
<1>10. \A j \in 1 .. N : Counts(l)[j] = IF j < N THEN Counts(s)[j]
                                        ELSE IF j = N THEN e ELSE Counts(s)[j - 1]
  <2>1. N \in Int /\ \A j \in 1 .. N : (j < N => j \in 1 .. n) /\ (~(j < N) => j = N)
    BY <1>2
  <2> HIDE DEF N, e
  <2> QED
    BY <1>4, <1>5, <1>6, <1>9, <2>1 DEF e
<1>11. SumTo(Counts(l), N) = Plus(SumTo(Counts(s), n), e)
  <2>1. N \in 1 .. N
    BY <1>2
  <2> HIDE DEF e
  <2> QED
    BY <1>2, <1>8, <1>9, <1>10, <2>1, SumInserted
<1> DEFINE a == SumTo(Counts(s), n)
           x == Times(S, F)
           y == Times(c, F)
<1>12. a \in Rational /\ S \in Rational
  <2>1. n \in 0 .. n /\ \A j \in 1 .. n : Counts(h)[j] \in Rational
    BY <1>2, Weights DEF n
  <2> QED
    BY <1>2, <1>9, <2>1, SumFacts
<1>13. F \in Rational /\ Leq(Zero, F) /\ y = shift_interval_data(c, B, m, t)
  BY ShiftIsTimes DEF Amount
<1>14. Leq(a, x) /\ Leq(S, c)
  BY <1>6, <1>7 DEF n
<1> HIDE DEF S, F, e
<1>15. x \in Rational /\ y \in Rational /\ Leq(x, y)
  BY <1>12, <1>13, <1>14, TimesLaws, OrderLaws
<1> HIDE DEF a, x, y
<1>16. Leq(a, y)
  BY <1>12, <1>14, <1>15, OrderLaws
<1>17. Leq(Plus(a, e), Plus(y, e)) /\ Leq(Plus(e, y), Plus(One, y))
  BY <1>8, <1>12, <1>15, <1>16, ZeroFacts, OrderLaws
<1>18. /\ Plus(a, e) \in Rational /\ Plus(y, e) \in Rational /\ Plus(One, y) \in Rational
       /\ Plus(e, y) = Plus(y, e)
  BY <1>8, <1>12, <1>15, ZeroFacts, PlusLaws
<1>19. Leq(Plus(a, e), Plus(One, y))
  BY <1>17, <1>18, OrderLaws
<1> QED
  BY <1>3, <1>5, <1>11, <1>13, <1>19 DEF a, g

-----------------------------------------------------------------------------
(* Quantiles: the gaps between the bins. *)

\* The volumes, the first of which is that of gap 0.
Volumes(h) == [i \in 1 .. Len(h) + 1 |-> Volume(h, i - 1)]

LEMMA VolumesTyped ==
    ASSUME NEW V, NEW h \in Seq(BinOver(V))
    PROVE  /\ \A k : CountAt(h, k) \in Rational /\ Leq(Zero, CountAt(h, k))
           /\ \A k : Volume(h, k) \in Rational
           /\ \A i \in 1 .. Len(h) + 1 : /\ Volumes(h)[i] = Volume(h, i - 1)
                                         /\ Volumes(h)[i] \in Rational
<1>1. ASSUME NEW k
      PROVE  CountAt(h, k) \in Rational /\ Leq(Zero, CountAt(h, k))
  <2>1. CASE k \in DOMAIN h
    <3>1. h[k] \in BinOver(V)
      BY <2>1
    <3>2. h[k].count \in Rational /\ Leq(Zero, h[k].count)
      BY <3>1, BinFacts
    <3> QED
      BY <2>1, <3>2 DEF CountAt
  <2>2. CASE k \notin DOMAIN h
    <3>1. Zero \in Rational /\ Leq(Zero, Zero)
      BY ZeroFacts, OrderLaws
    <3> QED
      BY <2>2, <3>1 DEF CountAt
  <2> QED
    BY <2>1, <2>2
<1>2. ASSUME NEW k
      PROVE  Volume(h, k) \in Rational
  <2>1. Plus(CountAt(h, k), CountAt(h, k + 1)) \in Rational
    BY <1>1, PlusLaws
  <2> QED
    BY <2>1, HalfFacts DEF Volume
<1>3. \A i \in 1 .. Len(h) + 1 : Volumes(h)[i] = Volume(h, i - 1)
  BY DEF Volumes
<1> QED
  BY <1>1, <1>2, <1>3

\* Up to half of the last bin, the gaps hold what the bins hold.
LEMMA VolumesSum ==
    ASSUME NEW V, NEW h \in Seq(BinOver(V))
    PROVE  SumTo(Volumes(h), Len(h) + 1) = Total(h)
<1> DEFINE N == Len(h)
           v == Volumes(h)
           w == Counts(h)
           Half(x) == Times(Ratio(1, 2), x)
           C(k) == CountAt(h, k)
           M == N + 1
           S == {n \in 0 .. N : Plus(SumTo(v, n), Half(C(n))) = SumTo(w, n)}
<1>1. /\ N \in Nat /\ M \in Nat /\ M \in 1 .. M /\ M - 1 = N
      /\ DOMAIN h = 1 .. N /\ \A k \in 0 .. N : k \in 0 .. M
  OBVIOUS
<1>2. /\ \A k : C(k) \in Rational
      /\ \A i \in 1 .. M : v[i] = Half(Plus(C(i - 1), C(i - 1 + 1))) /\ v[i] \in Rational
  BY VolumesTyped DEF Volume
<1>3. /\ SumTo(v, 0) = Zero
      /\ \A n \in 0 .. M : SumTo(v, n) \in Rational
      /\ \A n \in 1 .. M : SumTo(v, n) = Plus(SumTo(v, n - 1), v[n])
  <2> HIDE DEF v, M
  <2> QED
    BY <1>1, <1>2, SumFacts
<1>4. \A i \in 1 .. N : w[i] = C(i) /\ w[i] \in Rational
  BY <1>1, Weights DEF CountAt
<1>5. /\ SumTo(w, 0) = Zero
      /\ \A n \in 0 .. N : SumTo(w, n) \in Rational
      /\ \A n \in 1 .. N : SumTo(w, n) = Plus(SumTo(w, n - 1), w[n])
  <2> HIDE DEF w, C, N
  <2> QED
    BY <1>1, <1>4, SumFacts
<1>6. \A x, y \in Rational : /\ Half(x) \in Rational /\ Plus(Half(x), Half(x)) = x
                             /\ Half(Plus(x, y)) = Plus(Half(x), Half(y))
  <2>1. \A x \in Rational : Half(x) \in Rational /\ Plus(Half(x), Half(x)) = x
    BY HalfFacts
  <2>2. ASSUME NEW x \in Rational, NEW y \in Rational
        PROVE  Half(Plus(x, y)) = Plus(Half(x), Half(y))
    <3>1. Ratio(1, 2) \in Rational /\ Plus(x, y) \in Rational
      BY HalfFacts, PlusLaws
    <3>2. Times(Plus(x, y), Ratio(1, 2)) = Plus(Times(x, Ratio(1, 2)), Times(y, Ratio(1, 2)))
      BY <3>1, PlusLaws
    <3> QED
      BY <3>1, <3>2, TimesLaws
  <2> QED
    BY <2>1, <2>2
<1>7. C(0) = Zero /\ C(M) = Zero
  BY <1>1 DEF CountAt
<1> HIDE DEF Half, C
<1>8. 0 \in S
  <2>1. Zero \in Rational /\ Plus(Zero, Zero) = Zero
    BY ZeroFacts, PlusLaws
  <2>2. Half(Zero) = Zero
    BY HalfFacts, TimesLaws, <2>1 DEF Half
  <2> QED
    BY <1>1, <1>3, <1>5, <1>7, <2>1, <2>2
<1>9. ASSUME NEW n \in 0 .. N - 1, n \in S
      PROVE  n + 1 \in S
  <2> DEFINE j == n + 1
             s == SumTo(v, n)
             x == Half(C(n))
             y == Half(C(j))
             c == C(j)
  <2>1. /\ j \in 1 .. N /\ j \in 1 .. M /\ j - 1 = n /\ j - 1 + 1 = j
        /\ j \in 0 .. N /\ n \in 0 .. N /\ n \in 0 .. M
    BY <1>1
  <2> HIDE DEF j
  <2>2. /\ s \in Rational /\ x \in Rational /\ y \in Rational /\ c \in Rational
        /\ Plus(y, y) = c
    BY <1>2, <1>3, <1>6, <2>1
  <2>3. v[j] = Plus(x, y)
    BY <1>2, <1>6, <2>1
  <2>4. SumTo(v, j) = Plus(s, Plus(x, y))
    BY <1>3, <2>1, <2>3
  <2>5. SumTo(w, j) = Plus(Plus(s, x), c)
    BY <1>4, <1>5, <1>9, <2>1
  <2> HIDE DEF s, x, y, c
  <2>6. Plus(x, y) \in Rational
    BY <2>2, PlusLaws
  <2>7. Plus(Plus(s, Plus(x, y)), y) = Plus(s, Plus(Plus(x, y), y))
    BY <2>2, <2>6, PlusAssociates
  <2>8. Plus(Plus(x, y), y) = Plus(x, c)
    BY <2>2, PlusAssociates
  <2>9. Plus(s, Plus(x, c)) = Plus(Plus(s, x), c)
    BY <2>2, PlusAssociates
  <2>10. Plus(SumTo(v, j), y) = SumTo(w, j)
    BY <2>4, <2>5, <2>7, <2>8, <2>9
  <2>11. j \in S
    BY <2>1, <2>10 DEF y
  <2> QED
    BY <2>11 DEF j
<1>10. \A n \in 0 .. N : n \in S
  <2> HIDE DEF S
  <2> QED
    BY <1>1, <1>8, <1>9, Induction
<1>11. Plus(SumTo(v, N), Half(C(N))) = SumTo(w, N)
  BY <1>1, <1>10
<1>12. SumTo(v, M) = Plus(SumTo(v, N), Half(Plus(C(N), C(M))))
  BY <1>1, <1>2, <1>3
<1>13. Plus(C(N), Zero) = C(N)
  BY <1>2, ZeroFacts, PlusLaws
<1>14. Total(h) = SumTo(w, N)
  BY TotalIsSum
<1> QED
  BY <1>7, <1>11, <1>12, <1>13, <1>14

LEMMA RequiredIs ==
    ASSUME NEW V, NEW h \in Seq(BinOver(V)), NEW p \in Rational
    PROVE  /\ Times(Total(h), p) \in Rational /\ Total(h) \in Rational
           /\ \A k \in 0 .. Len(h) + 1 :
                /\ Required(h, p)[k] = Minus(Times(Total(h), p), SumTo(Volumes(h), k))
                /\ Required(h, p)[k] \in Rational
                /\ SumTo(Volumes(h), k) \in Rational
           /\ Required(h, p)[0] = Times(Total(h), p)
           /\ \A k \in 0 .. Len(h) :
                Required(h, p)[k + 1] = Minus(Required(h, p)[k], Volume(h, k))
<1> DEFINE M == Len(h) + 1
           v == Volumes(h)
           all == Times(Total(h), p)
           f == [k \in 0 .. M |-> Minus(all, SumTo(v, k))]
           Solves(g) == g = [k \in 0 .. M |-> IF k = 0 THEN all
                                              ELSE Minus(g[k - 1], Volume(h, k - 1))]
<1>1. /\ M \in Nat /\ M - 1 = Len(h) /\ 0 \in 0 .. M
      /\ \A k \in 1 .. M : k - 1 \in 0 .. M /\ k \in 0 .. M
      /\ \A k \in 0 .. Len(h) : k + 1 \in 1 .. M /\ k + 1 \in 0 .. M /\ k \in 0 .. M
                                /\ k + 1 # 0 /\ (k + 1) - 1 = k
  OBVIOUS
<1>2. /\ \A k : Volume(h, k) \in Rational
      /\ \A i \in 1 .. M : v[i] = Volume(h, i - 1) /\ v[i] \in Rational
  BY VolumesTyped
<1>3. /\ SumTo(v, 0) = Zero
      /\ \A k \in 0 .. M : SumTo(v, k) \in Rational
      /\ \A k \in 1 .. M : SumTo(v, k) = Plus(SumTo(v, k - 1), v[k])
  <2> HIDE DEF v, M
  <2> QED
    BY <1>1, <1>2, SumFacts
<1>4. Total(h) \in Rational
  <2>1. SumTo(v, M) = Total(h) /\ M \in 0 .. M
    BY <1>1, VolumesSum
  <2> QED
    BY <1>3, <2>1
<1>5. all \in Rational
  BY <1>4, TimesLaws
<1>6. Required(h, p) = CHOOSE g : Solves(g)
  BY DEF Required
<1> HIDE DEF v, M, all
<1>7. Minus(all, Zero) = all
  <2>1. Minus(Plus(all, Zero), Zero) = all /\ Plus(all, Zero) = all
    BY <1>5, ZeroFacts, PlusLaws, MinusLaws
  <2> QED
    BY <2>1
<1>8. ASSUME NEW k \in 0 .. M
      PROVE  f[k] = IF k = 0 THEN all ELSE Minus(f[k - 1], Volume(h, k - 1))
  <2>1. CASE k = 0
    BY <1>3, <1>7, <2>1
  <2>2. CASE k # 0
    <3> DEFINE l == k - 1
               s == SumTo(v, l)
               u == Volume(h, l)
    <3>1. k \in 1 .. M /\ l \in 0 .. M
      BY <1>1, <2>2
    <3>2. s \in Rational /\ u \in Rational /\ SumTo(v, k) = Plus(s, u) /\ f[l] = Minus(all, s)
      BY <1>2, <1>3, <3>1
    <3>3. f[k] = Minus(all, Plus(s, u))
      BY <3>2
    <3> HIDE DEF s, u, f
    <3>4. Minus(all, Plus(s, u)) = Minus(Minus(all, s), u)
      BY <1>5, <3>2, MinusLaws
    <3>5. f[k] = Minus(f[l], u)
      BY <3>2, <3>3, <3>4
    <3> QED
      BY <2>2, <3>5 DEF u
  <2> QED
    BY <2>1, <2>2
<1>9. Solves(f)
  <2> DEFINE g == [k \in 0 .. M |-> IF k = 0 THEN all ELSE Minus(f[k - 1], Volume(h, k - 1))]
  <2>1. \A k \in 0 .. M : f[k] = g[k]
    <3> HIDE DEF f
    <3> QED
      BY <1>8
  <2> QED
    BY <2>1
<1> DEFINE R == Required(h, p)
<1>10. Solves(R)
  <2> HIDE DEF Solves, f
  <2> QED
    BY <1>6, <1>9
<1>11. /\ R[0] = all
       /\ \A k \in 1 .. M : R[k] = Minus(R[k - 1], Volume(h, k - 1))
  <2>1. \A k \in 0 .. M : R[k] = IF k = 0 THEN all ELSE Minus(R[k - 1], Volume(h, k - 1))
    <3> HIDE DEF R
    <3> QED
      BY <1>10
  <2> HIDE DEF R
  <2>2. \A k \in 1 .. M : k \in 0 .. M /\ k # 0
    BY <1>1
  <2> QED
    BY <1>1, <2>1, <2>2
<1> HIDE DEF R
<1> DEFINE S == {k \in 0 .. M : R[k] = f[k]}
<1>12. 0 \in S
  BY <1>1, <1>8, <1>11
<1>13. ASSUME NEW k \in 0 .. M - 1, k \in S
       PROVE  k + 1 \in S
  <2>1. k + 1 \in 1 .. M /\ k + 1 \in 0 .. M /\ k + 1 # 0 /\ (k + 1) - 1 = k
    BY <1>1
  <2> HIDE DEF f
  <2>2. R[k + 1] = Minus(R[k], Volume(h, k))
    BY <1>11, <2>1
  <2>3. f[k + 1] = Minus(f[k], Volume(h, k))
    BY <1>8, <2>1
  <2> QED
    BY <1>13, <2>1, <2>2, <2>3
<1>14. \A k \in 0 .. M : k \in S
  <2> HIDE DEF S
  <2> QED
    BY <1>1, <1>12, <1>13, Induction
<1>15. \A k \in 0 .. M : R[k] = Minus(all, SumTo(v, k))
  BY <1>14
<1>16. \A k \in 0 .. M : R[k] \in Rational
  <2> HIDE DEF S, f
  <2> QED
    BY <1>3, <1>5, <1>15, MinusTyped
<1>17. \A k \in 0 .. Len(h) : R[k + 1] = Minus(R[k], Volume(h, k))
  BY <1>1, <1>11
<1> QED
  <2> HIDE DEF S, f
  <2> QED
    BY <1>3, <1>4, <1>5, <1>11, <1>15, <1>16, <1>17 DEF R, all, M, v

\* The search ends within the histogram, because all gaps together hold more
\* than is required.
LEMMA LocateFacts ==
    ASSUME NEW V, NEW h \in Seq(BinOver(V)), NEW p \in Rational,
           Leq(Zero, p), Less(p, One), Less(Zero, Total(h))
    PROVE  LET k == Locate(h, p).k
               R == Required(h, p)
           IN  /\ k \in 0 .. Len(h)
               /\ Locate(h, p).required = R[k]
               /\ Leq(Zero, R[k]) /\ Less(R[k], Volume(h, k))
               /\ \A j \in 0 .. k - 1 : Leq(Volume(h, j), R[j])
<1> DEFINE N == Len(h)
           M == N + 1
           R == Required(h, p)
           all == Times(Total(h), p)
           Holds(k) == k > N \/ Less(R[k], Volume(h, k))
           First(i) == i \in 0 .. M /\ Holds(i) /\ \A j \in 0 .. i - 1 : ~Holds(j)
           k == Locate(h, p).k
<1>1. N \in Nat /\ M \in Nat /\ M > N /\ M \in 0 .. M /\ N \in 0 .. N
  OBVIOUS
<1>2. \E i : First(i)
  <2> DEFINE T == {i \in 0 .. M : Holds(i)}
  <2>1. T \subseteq Nat /\ T # {}
    BY <1>1
  <2>2. PICK i \in T : \A m \in T : i <= m
    <3> HIDE DEF T
    <3> QED
      BY <2>1, LeastNatural
  <2>3. i \in 0 .. M /\ Holds(i)
    BY <2>2
  <2>4. ASSUME NEW j \in 0 .. i - 1 PROVE ~Holds(j)
    <3>1. j \in 0 .. M /\ ~(i <= j)
      BY <2>3
    <3> QED
      BY <2>2, <3>1
  <2> QED
    BY <2>3, <2>4
<1>3. Locate(h, p) = [k |-> CHOOSE i : First(i), required |-> R[CHOOSE i : First(i)]]
  <2>1. (CHOOSE i \in 0 .. M : Holds(i) /\ \A j \in 0 .. i - 1 : ~Holds(j)) = CHOOSE i : First(i)
    OBVIOUS
  <2> QED
    BY <2>1 DEF Locate
<1>4. k = (CHOOSE i : First(i)) /\ Locate(h, p).required = R[k]
  BY <1>3
<1>5. First(k)
  <2> HIDE DEF First, k
  <2> QED
    BY <1>2, <1>4
<1>6. /\ k \in 0 .. M /\ (k > N \/ Less(R[k], Volume(h, k)))
      /\ \A j \in 0 .. k - 1 : ~(j > N) /\ ~Less(R[j], Volume(h, j))
  BY <1>5
<1>7. /\ all \in Rational /\ Total(h) \in Rational /\ R[0] = all
      /\ \A j \in 0 .. M : R[j] = Minus(all, SumTo(Volumes(h), j)) /\ R[j] \in Rational
      /\ \A j \in 0 .. N : R[j + 1] = Minus(R[j], Volume(h, j))
  BY RequiredIs
<1>8. SumTo(Volumes(h), M) = Total(h)
  BY VolumesSum
<1>9. \A j : Volume(h, j) \in Rational
  BY VolumesTyped
<1> HIDE DEF k, R, all, N, M
<1>10. \A j \in 0 .. k - 1 : Leq(Volume(h, j), R[j])
  BY <1>6 DEF Leq
<1>11. k # 0 => /\ k - 1 \in 0 .. k - 1 /\ k - 1 \in 0 .. N /\ (k - 1) + 1 = k
                /\ k - 1 \in 0 .. M
  BY <1>1, <1>6 DEF M
<1>12. Leq(Zero, R[k])
  <2>1. CASE k = 0
    <3>1. Leq(Times(Zero, Total(h)), Times(p, Total(h)))
      <4>1. Zero \in Rational /\ Leq(Zero, Total(h))
        BY <1>7, ZeroFacts, OrderLaws
      <4> QED
        BY <1>7, <4>1, OrderLaws
    <3>2. Times(Zero, Total(h)) = Zero /\ Times(p, Total(h)) = all
      BY <1>7, ZeroFacts, TimesLaws DEF all
    <3> QED
      BY <1>7, <2>1, <3>1, <3>2
  <2>2. CASE k # 0
    <3> DEFINE l == k - 1
    <3>1. l \in 0 .. k - 1 /\ l \in 0 .. N /\ l \in 0 .. M /\ l + 1 = k
      BY <1>11, <2>2
    <3> HIDE DEF l
    <3>2. Leq(Volume(h, l), R[l]) /\ R[l] \in Rational /\ R[k] = Minus(R[l], Volume(h, l))
      BY <1>7, <1>10, <3>1
    <3> QED
      BY <1>9, <3>2, MinusOrder
  <2> QED
    BY <2>1, <2>2
<1>13. Less(all, Total(h))
  <2>1. Less(Times(p, Total(h)), Times(One, Total(h)))
    BY <1>7, ZeroFacts, TimesStrict
  <2>2. Times(One, Total(h)) = Total(h) /\ Times(p, Total(h)) = all
    BY <1>7, ZeroFacts, TimesLaws DEF all
  <2> QED
    BY <2>1, <2>2
<1>14. k \in 0 .. N
  <2>1. ~Leq(Total(h), all)
    BY <1>13 DEF Leq
  <2>2. ~Leq(Zero, Minus(all, Total(h)))
    BY <1>7, <2>1, MinusOrder
  <2>3. R[M] = Minus(all, Total(h))
    BY <1>1, <1>7, <1>8
  <2>4. k # M
    BY <1>12, <2>2, <2>3
  <2> QED
    BY <1>1, <1>6, <2>4 DEF M
<1>15. Less(R[k], Volume(h, k))
  <2>1. ~(k > N)
    BY <1>1, <1>14
  <2> QED
    BY <1>6, <2>1
<1> QED
  BY <1>4, <1>10, <1>12, <1>14, <1>15 DEF k, R, N

\* A larger probability requires more, at every gap.
LEMMA LocateMonotone ==
    ASSUME NEW V, NEW h \in Seq(BinOver(V)), Less(Zero, Total(h)),
           NEW p \in Rational, Leq(Zero, p), Less(p, One),
           NEW q \in Rational, Leq(Zero, q), Less(q, One), Less(p, q)
    PROVE  LET l == Locate(h, p)
               r == Locate(h, q)
           IN  l.k < r.k \/ (l.k = r.k /\ Less(l.required, r.required))
<1> DEFINE P == Required(h, p)
           Q == Required(h, q)
           i == Locate(h, p).k
           j == Locate(h, q).k
           T == Total(h)
<1>1. /\ i \in 0 .. Len(h) /\ Locate(h, p).required = P[i]
      /\ \A k \in 0 .. i - 1 : Leq(Volume(h, k), P[k])
  BY LocateFacts
<1>2. /\ j \in 0 .. Len(h) /\ Locate(h, q).required = Q[j] /\ Less(Q[j], Volume(h, j))
  BY LocateFacts
<1>3. \A k \in 0 .. Len(h) : k \in 0 .. Len(h) + 1
  OBVIOUS
<1>4. /\ Times(T, p) \in Rational /\ T \in Rational
      /\ \A k \in 0 .. Len(h) + 1 : /\ P[k] = Minus(Times(T, p), SumTo(Volumes(h), k))
                                    /\ P[k] \in Rational /\ SumTo(Volumes(h), k) \in Rational
  BY RequiredIs
<1>5. /\ Times(T, q) \in Rational
      /\ \A k \in 0 .. Len(h) + 1 : /\ Q[k] = Minus(Times(T, q), SumTo(Volumes(h), k))
                                    /\ Q[k] \in Rational
  BY RequiredIs
<1> HIDE DEF P, Q, i, j
<1>6. Less(Times(T, p), Times(T, q))
  <2>1. Less(Times(p, T), Times(q, T))
    BY <1>4, TimesStrict
  <2> QED
    BY <1>4, <2>1, TimesLaws
<1>7. \A k \in 0 .. Len(h) : Less(P[k], Q[k])
  BY <1>3, <1>4, <1>5, <1>6, MinusOrder
<1>8. ~(j < i)
  <2> SUFFICES ASSUME j < i PROVE FALSE
    OBVIOUS
  <2>1. j \in 0 .. i - 1 /\ j \in 0 .. Len(h) + 1
    BY <1>1, <1>2
  <2>2. Leq(Volume(h, j), P[j])
    BY <1>1, <2>1
  <2>3. Volume(h, j) \in Rational /\ P[j] \in Rational /\ Q[j] \in Rational
    BY <1>4, <1>5, <2>1, VolumesTyped
  <2>4. Less(Volume(h, j), Q[j])
    BY <1>2, <1>7, <2>2, <2>3, OrderLaws
  <2>5. Leq(Q[j], Volume(h, j))
    BY <1>2, <2>3, OrderLaws
  <2> QED
    BY <2>4, <2>5 DEF Leq
<1>9. i \in Int /\ j \in Int
  BY <1>1, <1>2
<1>10. i < j \/ i = j
  BY <1>8, <1>9
<1>11. i = j => Less(P[i], Q[j])
  BY <1>2, <1>7
<1> QED
  BY <1>1, <1>2, <1>10, <1>11 DEF i, j

\* The equation of find_z() is negative or zero at 0, and positive at 1.
LEMMA RootFound ==
    ASSUME NEW c \in Rational, NEW d \in Rational, NEW r \in Rational,
           Leq(Zero, r), Less(r, Times(Ratio(1, 2), Plus(c, d)))
    PROVE  HasRoot(Minus(d, c), Times(Rat(2), c), Times(Rat(-2), r))
<1> DEFINE a == Minus(d, c)
           b == Times(Rat(2), c)
           e == Times(Rat(-2), r)
           s == Plus(c, d)
           rr == Plus(r, r)
           t == Times(Ratio(1, 2), s)
<1>1. /\ a \in Rational /\ b \in Rational /\ e \in Rational /\ s \in Rational
      /\ rr \in Rational /\ t \in Rational
      /\ b = Plus(c, c) /\ Plus(e, rr) = Zero /\ Plus(t, t) = s
      /\ Zero \in Rational
  <2>1. a \in Rational /\ s \in Rational /\ rr \in Rational
    BY MinusTyped, PlusLaws
  <2>2. b = Plus(c, c) /\ Plus(e, rr) = Zero /\ e \in Rational
    BY HalfFacts
  <2>3. Plus(t, t) = s /\ t \in Rational
    BY <2>1, HalfFacts
  <2> QED
    BY <2>1, <2>2, <2>3, PlusLaws, ZeroFacts
<1>2. Plus(a, b) = s
  <2>1. Plus(a, c) = d
    BY MinusLaws
  <2>2. Plus(Plus(a, c), c) = Plus(a, Plus(c, c))
    <3> HIDE DEF a
    <3> QED
      BY <1>1, PlusAssociates
  <2>3. Plus(d, c) = s
    BY PlusLaws
  <2> QED
    BY <1>1, <2>1, <2>2, <2>3
<1>3. Less(r, t)
  OBVIOUS
<1>4. HasRoot(a, b, e) <=>
        LET at1 == Plus(Plus(a, b), e)
            v == Minus(Times(b, b), Times(Rat(4), Times(a, e)))
        IN  \/ Leq(Times(e, at1), Zero) /\ (a # Zero \/ b # Zero)
            \/ /\ a # Zero /\ Leq(Zero, v)
               /\ Leq(Zero, Times(a, e)) /\ Leq(Zero, Times(a, at1))
               /\ LET vertex == Over(Minus(Zero, b), Plus(a, a))
                  IN  Leq(Zero, vertex) /\ Leq(vertex, One)
  BY DEF HasRoot
<1> HIDE DEF a, b, e, rr, t
<1>5. Leq(e, Zero)
  <2>1. Leq(Zero, rr)
    <3>1. Leq(Plus(Zero, r), rr) /\ Plus(Zero, r) = r
      BY <1>1, OrderLaws, PlusLaws DEF rr
    <3> QED
      BY <1>1, <3>1, OrderLaws
  <2>2. Leq(Plus(Zero, e), Plus(rr, e))
    BY <1>1, <2>1, OrderLaws
  <2>3. Plus(Zero, e) = e /\ Plus(rr, e) = Zero
    BY <1>1, PlusLaws
  <2> QED
    BY <2>2, <2>3
<1>6. Leq(rr, s)
  <2>1. Leq(r, t)
    BY <1>1, <1>3, OrderLaws
  <2>2. Leq(Plus(r, r), Plus(t, r)) /\ Leq(Plus(r, t), Plus(t, t))
    BY <1>1, <2>1, OrderLaws
  <2>3. Plus(t, r) = Plus(r, t) /\ Plus(r, t) \in Rational
    BY <1>1, PlusLaws
  <2> QED
    BY <1>1, <2>2, <2>3, OrderLaws DEF rr
<1> HIDE DEF s
<1>7. Leq(Zero, Plus(s, e))
  <2>1. Leq(Plus(rr, e), Plus(s, e))
    BY <1>1, <1>6, OrderLaws
  <2>2. Plus(rr, e) = Zero
    BY <1>1, PlusLaws
  <2> QED
    BY <2>1, <2>2
<1>8. Leq(Times(e, Plus(s, e)), Zero)
  <2> DEFINE f == Plus(s, e)
  <2>1. f \in Rational /\ Leq(Zero, f)
    BY <1>1, <1>7, PlusLaws
  <2> HIDE DEF f
  <2>2. Leq(Times(e, f), Times(Zero, f))
    BY <1>1, <1>5, <2>1, OrderLaws
  <2>3. Times(Zero, f) = Zero
    BY <1>1, <2>1, TimesLaws
  <2> QED
    BY <2>2, <2>3 DEF f
<1>9. a # Zero \/ b # Zero
  <2> SUFFICES ASSUME a = Zero, b = Zero PROVE FALSE
    OBVIOUS
  <2>1. s = Zero
    BY <1>1, <1>2, PlusLaws
  <2>2. t = Zero
    BY <1>1, <2>1, HalfFacts, TimesLaws DEF t
  <2> QED
    BY <1>3, <2>2 DEF Leq
<1>10. HasRoot(a, b, e)
  BY <1>2, <1>4, <1>8, <1>9
<1> QED
  BY <1>10 DEF a, b, e

\* The empty bin outside is outside.
LEMMA MirrorFacts ==
    ASSUME NEW x \in Rational, NEW w \in Rational
    PROVE  /\ Minus(Plus(x, x), w) \in Rational
           /\ Leq(x, w) => Leq(Minus(Plus(x, x), w), x)
           /\ Leq(w, x) => Leq(x, Minus(Plus(x, x), w))
<1> DEFINE xx == Plus(x, x)
           m == Minus(xx, w)
<1>1. xx \in Rational
  BY PlusLaws
<1>2. m \in Rational /\ Plus(m, w) = xx
  <2> HIDE DEF xx
  <2> QED
    BY <1>1, MinusLaws
<1> HIDE DEF m
<1>3. Plus(w, x) = Plus(x, w)
  BY PlusLaws
<1>4. Leq(x, w) => Leq(m, x)
  <2>1. Less(x, m) => Less(Plus(x, w), Plus(m, w))
    BY <1>2, MinusOrder
  <2>2. Leq(x, w) => Leq(Plus(x, x), Plus(w, x))
    BY OrderLaws
  <2> QED
    BY <1>2, <1>3, <2>1, <2>2 DEF Leq
<1>5. Leq(w, x) => Leq(x, m)
  <2>1. Less(m, x) => Less(Plus(m, w), Plus(x, w))
    BY <1>2, MinusOrder
  <2>2. Leq(w, x) => Leq(Plus(w, x), Plus(x, x))
    BY OrderLaws
  <2> QED
    BY <1>2, <1>3, <2>1, <2>2 DEF Leq
<1> QED
  BY <1>2, <1>4, <1>5 DEF m

LEMMA GapOrdered ==
    ASSUME NEW V, NEW h \in HistogramOver(V), Len(h) > 1,
           NEW k \in 0 .. Len(h), Less(Zero, Volume(h, k))
    PROVE  Leq(LeftCenter(h, k), RightCenter(h, k))
<1> DEFINE N == Len(h)
<1>1. /\ N \in Nat /\ N > 1 /\ DOMAIN h = 1 .. N
      /\ h \in Seq(BinOver(V)) /\ Ordered(h)
      /\ \A i \in 1 .. N : h[i] \in BinOver(V)
  BY BinsOf
<1>2. /\ \A i \in 1 .. N : h[i].center \in Rational /\ h[i].count \in Amount
      /\ \A i \in 1 .. N : h[i].count \in Rational
  BY <1>1, BinFacts
<1>3. ASSUME NEW x \in Rational, Less(Zero, Times(Ratio(1, 2), x))
      PROVE  Less(Zero, x)
  <2> SUFFICES ASSUME Leq(x, Zero) PROVE FALSE
    BY DEF Leq
  <2> DEFINE H == Ratio(1, 2)
             y == Times(H, x)
  <2>1. Zero \in Rational /\ H \in Rational /\ Leq(Zero, H) /\ y \in Rational
    BY ZeroFacts, HalfFacts, OrderLaws
  <2>2. Less(Zero, y)
    BY <1>3
  <2> HIDE DEF H
  <2>3. Leq(Times(x, H), Times(Zero, H))
    BY <2>1, OrderLaws
  <2>4. Times(x, H) = y /\ Times(Zero, H) = Zero
    BY <2>1, TimesLaws
  <2> QED
    BY <2>2, <2>3, <2>4 DEF Leq
<1>4. CASE k = 0
  <2> DEFINE x == h[1].center
             y == h[2].center
             u == h[1].count
             d == h[2].count
             w == weighted_average(x, u, y, d)
  <2>1. 1 \in 1 .. N /\ 2 \in 1 .. N /\ 0 \notin 1 .. N /\ 0 # N /\ 0 + 1 = 1
    BY <1>1
  <2>2. /\ x \in Rational /\ y \in Rational /\ u \in Amount /\ d \in Amount /\ u \in Rational
        /\ Leq(x, y)
    BY <1>1, <1>2, <2>1 DEF Ordered
  <2>3. LeftCenter(h, k) = Minus(Plus(x, x), w) /\ RightCenter(h, k) = x
    BY <1>4, <2>1 DEF LeftCenter, RightCenter, Mirrored
  <2>4. Volume(h, k) = Times(Ratio(1, 2), Plus(Zero, u))
    BY <1>1, <1>4, <2>1 DEF Volume, CountAt
  <2>5. Plus(Zero, u) = u
    BY <2>2, ZeroFacts, PlusLaws
  <2> HIDE DEF x, y, u, d, w
  <2>6. Less(Zero, u)
    BY <1>3, <2>2, <2>4, <2>5
  <2>7. w \in Rational /\ Leq(x, w)
    BY <2>2, <2>6, AverageBetween DEF w
  <2> QED
    BY <2>2, <2>3, <2>7, MirrorFacts
<1>5. CASE k = N
  <2> DEFINE l == N - 1
             x == h[l].center
             y == h[N].center
             u == h[l].count
             d == h[N].count
             w == weighted_average(y, d, x, u)
  <2>1. N \in 1 .. N /\ l \in 1 .. N /\ l <= N /\ N + 1 \notin 1 .. N /\ N # 0
    BY <1>1
  <2> HIDE DEF l
  <2>2. /\ x \in Rational /\ y \in Rational /\ u \in Amount /\ d \in Amount
        /\ u \in Rational /\ d \in Rational /\ Leq(x, y)
    BY <1>1, <1>2, <2>1 DEF Ordered
  <2>3. LeftCenter(h, k) = y /\ RightCenter(h, k) = Minus(Plus(y, y), w)
    BY <1>5, <2>1 DEF LeftCenter, RightCenter, Mirrored, l
  <2>4. Volume(h, k) = Times(Ratio(1, 2), Plus(d, Zero))
    BY <1>1, <1>5, <2>1 DEF Volume, CountAt
  <2>5. Plus(d, Zero) = d
    BY <2>2, ZeroFacts, PlusLaws
  <2> HIDE DEF x, y, u, d, w
  <2>6. Less(Zero, d)
    BY <1>3, <2>2, <2>4, <2>5
  <2>7. w = weighted_average(x, u, y, d)
    <3>1. Times(x, u) \in Rational /\ Times(y, d) \in Rational
      BY <2>2, TimesLaws
    <3>2. Plus(Times(y, d), Times(x, u)) = Plus(Times(x, u), Times(y, d))
      BY <3>1, PlusLaws
    <3>3. Plus(d, u) = Plus(u, d)
      BY <2>2, PlusLaws
    <3> QED
      BY <3>2, <3>3 DEF w, weighted_average
  <2>8. w \in Rational /\ Leq(w, y)
    BY <2>2, <2>6, <2>7, AverageBetween
  <2> QED
    BY <2>2, <2>3, <2>8, MirrorFacts
<1>6. CASE k # 0 /\ k # N
  <2>1. k \in 1 .. N /\ k + 1 \in 1 .. N /\ k <= k + 1
    <3>1. k \in 0 .. N /\ N \in Nat
      BY <1>1
    <3> HIDE DEF N
    <3> QED
      BY <1>6, <3>1
  <2>2. LeftCenter(h, k) = h[k].center /\ RightCenter(h, k) = h[k + 1].center
    BY <1>6 DEF LeftCenter, RightCenter
  <2> QED
    BY <1>1, <2>1, <2>2 DEF Ordered
<1> QED
  BY <1>4, <1>5, <1>6

-----------------------------------------------------------------------------
(* The tags that are computed. *)

LEMMA DependantsAreTags ==
    ASSUME NEW t \in Tag
    PROVE  Dependants(t) \subseteq Tag
  BY DEF Tag, Dependants

\* The recursion of computed() ends: what needs a tag is needed by nothing
\* after two steps.
LEMMA NoThirdDependants ==
    ASSUME NEW t \in Tag, NEW u \in Dependants(t), NEW v \in Dependants(u)
    PROVE  Dependants(v) = {}
  BY DEF Tag, Dependants

\* needed() is what its recursive definition says.
LEMMA NeededUnfolds ==
    ASSUME NEW T
    PROVE  \A t \in Tag :
              needed(T)[t] <=> t \in T \/ \E u \in Dependants(t) : needed(T)[u]
<1> DEFINE twice(t) == t \in T \/ \E u \in Dependants(t) : u \in T
           thrice(t) == t \in T \/ \E u \in Dependants(t) : twice(u)
           f == [t \in Tag |-> thrice(t)]
           Solves(g) == g = [t \in Tag |-> t \in T \/ \E u \in Dependants(t) : g[u]]
<1>1. ASSUME NEW t \in Tag
      PROVE  thrice(t) = (t \in T \/ \E u \in Dependants(t) : thrice(u))
  BY NoThirdDependants
<1>2. Solves(f)
  <2>1. ASSUME NEW t \in Tag PROVE \A u \in Dependants(t) : f[u] = thrice(u)
    BY DependantsAreTags
  <2> HIDE DEF thrice
  <2> QED
    BY <1>1, <2>1
<1>3. needed(T) = CHOOSE g : Solves(g)
  BY DEF needed
<1> HIDE DEF f
<1>4. Solves(needed(T))
  <2> HIDE DEF Solves
  <2>1. Solves(CHOOSE g : Solves(g))
    BY <1>2, Zenon
  <2> QED
    BY <1>3, <2>1, Zenon
<1> QED
  BY <1>4

LEMMA Computed ==
    ASSUME NEW T \in Configs
    PROVE  /\ computed[T] \subseteq Tag
           /\ \A t \in Tag : t \in T => t \in computed[T]
           /\ \A t \in Tag : \A u \in Dependants(t) : u \in computed[T] => t \in computed[T]
<1>1. computed[T] = {t \in Tag : needed(T)[t]}
  BY DEF computed
<1>2. \A t \in Tag : needed(T)[t] <=> t \in T \/ \E u \in Dependants(t) : needed(T)[u]
  BY NeededUnfolds
<1> QED
  BY <1>1, <1>2

LEMMA AllComputed == Tag \in Configs /\ computed[Tag] = Tag
<1>1. Tag \in Configs
  BY StatisticsAssumption
<1>2. /\ computed[Tag] \subseteq Tag
      /\ \A t \in Tag : t \in computed[Tag]
  BY <1>1, Computed
<1> QED
  BY <1>1, <1>2

\* What the members are computed from is computed.
LEMMA Needs ==
    ASSUME NEW T \in Configs
    PROVE  LET c == computed[T] IN
           /\ "rate" \in c => "value" \in c /\ "timestamp" \in c
           /\ "avg" \in c => "count" \in c /\ "sum" \in c
           /\ "moving_avg" \in c => "moving_count" \in c /\ "moving_sum" \in c
           /\ "moving_count" \in c => "timestamp" \in c
           /\ "moving_sum" \in c => "timestamp" \in c
           /\ "histogram" \in c => "timestamp" \in c
           /\ "quantile" \in c => "histogram" \in c
           /\ "entropy" \in c => "histogram" \in c
<1>1. /\ "rate" \in Dependants("value") /\ "rate" \in Dependants("timestamp")
      /\ "avg" \in Dependants("count") /\ "avg" \in Dependants("sum")
      /\ "moving_avg" \in Dependants("moving_count")
      /\ "moving_avg" \in Dependants("moving_sum")
      /\ "moving_count" \in Dependants("timestamp")
      /\ "moving_sum" \in Dependants("timestamp")
      /\ "histogram" \in Dependants("timestamp")
      /\ "quantile" \in Dependants("histogram")
      /\ "entropy" \in Dependants("histogram")
  BY DEF Dependants
<1>2. {"value", "timestamp", "count", "sum", "moving_count", "moving_sum", "histogram"}
         \subseteq Tag
  BY DEF Tag
<1> QED
  BY <1>1, <1>2, Computed

-----------------------------------------------------------------------------
(* One update of one object. *)

OverInterval(o, data, added, timestamp) ==
    update_interval_data(data, o.data_timestamp, added, o.timestamp, timestamp)

LEMMA UpdateMembers ==
    ASSUME NEW T, NEW o, NEW value, NEW timestamp
    PROVE  LET c == computed[T]
               n == update(T, o, value, timestamp)
               over(data, added) == OverInterval(o, data, added, timestamp)
           IN
           /\ n.value = IF "value" \in c THEN value ELSE o.value
           /\ n.min = IF "min" \in c THEN Smaller(o.min, value) ELSE o.min
           /\ n.max = IF "max" \in c THEN Larger(o.max, value) ELSE o.max
           /\ n.sum = IF "sum" \in c THEN o.sum + value ELSE o.sum
           /\ n.count = IF "count" \in c THEN o.count + 1 ELSE o.count
           /\ n.rate = IF "rate" \in c THEN over(o.rate, value - o.value) ELSE o.rate
           /\ n.moving_count = IF "moving_count" \in c THEN over(o.moving_count, 1)
                               ELSE o.moving_count
           /\ n.moving_sum = IF "moving_sum" \in c THEN over(o.moving_sum, value)
                             ELSE o.moving_sum
           /\ n.histogram = IF "histogram" \in c
                            THEN update_histogram(o.histogram, value, o.timestamp, timestamp)
                            ELSE o.histogram
           /\ n.timestamp = IF "timestamp" \in c THEN Larger(o.timestamp, timestamp)
                            ELSE o.timestamp
           /\ n.data_timestamp = IF "timestamp" \in c
                                 THEN Larger(o.data_timestamp, timestamp)
                                 ELSE o.data_timestamp
  BY DEF update, OverInterval, Delta, MovingSum, DataTimestamp

\* The object that computes everything.
LEMMA UpdateAll ==
    ASSUME NEW f, NEW value, NEW timestamp
    PROVE  LET n == update(Tag, f, value, timestamp)
               over(data, added) == OverInterval(f, data, added, timestamp)
           IN
           /\ n.value = value
           /\ n.min = Smaller(f.min, value) /\ n.max = Larger(f.max, value)
           /\ n.sum = f.sum + value /\ n.count = f.count + 1
           /\ n.rate = over(f.rate, value - f.value)
           /\ n.moving_count = over(f.moving_count, 1)
           /\ n.moving_sum = over(f.moving_sum, value)
           /\ n.histogram = update_histogram(f.histogram, value, f.timestamp, timestamp)
           /\ n.timestamp = Larger(f.timestamp, timestamp)
           /\ n.data_timestamp = Larger(f.data_timestamp, timestamp)
<1>1. \A t \in {"value", "min", "max", "sum", "count", "rate", "moving_count",
                "moving_sum", "histogram", "timestamp"} : t \in computed[Tag]
  BY AllComputed DEF Tag
<1> QED
  BY <1>1, UpdateMembers

LEMMA SameMembers ==
    ASSUME NEW T, NEW o, NEW f
    PROVE  SameAs(T, o, f) <=>
           LET c == computed[T] IN
           /\ "value" \in c => o.value = f.value
           /\ "min" \in c => o.min = f.min
           /\ "max" \in c => o.max = f.max
           /\ "sum" \in c => o.sum = f.sum
           /\ "count" \in c => o.count = f.count
           /\ "rate" \in c => o.rate = f.rate
           /\ "moving_count" \in c => o.moving_count = f.moving_count
           /\ "moving_sum" \in c => o.moving_sum = f.moving_sum
           /\ "histogram" \in c => o.histogram = f.histogram
           /\ "timestamp" \in c => o.timestamp = f.timestamp
           /\ "timestamp" \in c => o.data_timestamp = f.data_timestamp
  BY DEF SameAs, Members

LEMMA UpdateSame ==
    ASSUME NEW T \in Configs, NEW o, NEW f, SameAs(T, o, f),
           NEW value, NEW timestamp
    PROVE  SameAs(T, update(T, o, value, timestamp), update(Tag, f, value, timestamp))
<1> DEFINE c == computed[T]
           n == update(T, o, value, timestamp)
           m == update(Tag, f, value, timestamp)
<1>1. /\ "rate" \in c => "value" \in c /\ "timestamp" \in c
      /\ "moving_count" \in c => "timestamp" \in c
      /\ "moving_sum" \in c => "timestamp" \in c
      /\ "histogram" \in c => "timestamp" \in c
  BY Needs
<1>2. "timestamp" \in c => o.timestamp = f.timestamp /\ o.data_timestamp = f.data_timestamp
  BY SameMembers
<1>3. /\ "value" \in c => n.value = m.value
      /\ "min" \in c => n.min = m.min
      /\ "max" \in c => n.max = m.max
      /\ "sum" \in c => n.sum = m.sum
      /\ "count" \in c => n.count = m.count
  BY SameMembers, UpdateMembers, UpdateAll
<1>4. /\ "rate" \in c => n.rate = m.rate
      /\ "moving_count" \in c => n.moving_count = m.moving_count
      /\ "moving_sum" \in c => n.moving_sum = m.moving_sum
      /\ "histogram" \in c => n.histogram = m.histogram
  BY <1>1, <1>2, SameMembers, UpdateMembers, UpdateAll DEF OverInterval
<1>5. /\ "timestamp" \in c => n.timestamp = m.timestamp
      /\ "timestamp" \in c => n.data_timestamp = m.data_timestamp
  BY <1>2, UpdateMembers, UpdateAll
<1> HIDE DEF n, m
<1>6. SameAs(T, n, m)
  BY <1>3, <1>4, <1>5, SameMembers
<1> QED
  BY <1>6 DEF n, m

\* The members of an object.
Fields == Members \cup {"data_timestamp"}

LEMMA UpdateFields ==
    ASSUME NEW T, NEW o, NEW value, NEW timestamp
    PROVE  DOMAIN update(T, o, value, timestamp) = Fields
  BY DEF update, Fields, Members

Shifted(o, data, timestamp) ==
    shift_interval_data(data, o.data_timestamp, o.timestamp, timestamp)

LEMMA TimeMembers ==
    ASSUME NEW T, NEW o, NEW timestamp, DOMAIN o = Fields
    PROVE  LET n == update_time(T, o, timestamp) IN
           /\ DOMAIN n = Fields
           /\ timestamp <= o.timestamp => n = o
           /\ n.value = o.value /\ n.min = o.min /\ n.max = o.max
           /\ n.sum = o.sum /\ n.count = o.count
           /\ n.data_timestamp = o.data_timestamp
           /\ ~(timestamp <= o.timestamp) =>
                 /\ n.rate = Shifted(o, o.rate, timestamp)
                 /\ n.moving_count = Shifted(o, o.moving_count, timestamp)
                 /\ n.moving_sum = Shifted(o, o.moving_sum, timestamp)
                 /\ n.histogram = shift_histogram(o.histogram, o.timestamp, timestamp)
                 /\ n.timestamp = IF "timestamp" \in computed[T] THEN timestamp
                                  ELSE o.timestamp
  BY DEF update_time, Fields, Members, Shifted

LEMMA TimeSame ==
    ASSUME NEW T \in Configs, NEW o, NEW f, SameAs(T, o, f), NEW timestamp,
           DOMAIN o = Fields, DOMAIN f = Fields
    PROVE  SameAs(T, update_time(T, o, timestamp), update_time(Tag, f, timestamp))
<1> DEFINE c == computed[T]
           n == update_time(T, o, timestamp)
           m == update_time(Tag, f, timestamp)
<1>1. /\ "rate" \in c => "timestamp" \in c
      /\ "moving_count" \in c => "timestamp" \in c
      /\ "moving_sum" \in c => "timestamp" \in c
      /\ "histogram" \in c => "timestamp" \in c
  BY Needs
<1>2. "timestamp" \in computed[Tag]
  BY AllComputed DEF Tag
<1>3. /\ "value" \in c => n.value = m.value
      /\ "min" \in c => n.min = m.min
      /\ "max" \in c => n.max = m.max
      /\ "sum" \in c => n.sum = m.sum
      /\ "count" \in c => n.count = m.count
      /\ "timestamp" \in c => n.data_timestamp = m.data_timestamp
  BY SameMembers, TimeMembers
<1>4. ASSUME "timestamp" \in c
      PROVE  /\ "rate" \in c => n.rate = m.rate
             /\ "moving_count" \in c => n.moving_count = m.moving_count
             /\ "moving_sum" \in c => n.moving_sum = m.moving_sum
             /\ "histogram" \in c => n.histogram = m.histogram
             /\ n.timestamp = m.timestamp
  <2>1. o.timestamp = f.timestamp /\ o.data_timestamp = f.data_timestamp
    BY <1>4, SameMembers
  <2>2. CASE timestamp <= o.timestamp
    <3>1. n = o /\ m = f
      BY <2>1, <2>2, TimeMembers
    <3> HIDE DEF n, m
    <3> QED
      BY <1>4, <3>1, SameMembers
  <2>3. CASE ~(timestamp <= o.timestamp)
    BY <1>2, <1>4, <2>1, <2>3, SameMembers, TimeMembers DEF Shifted
  <2> QED
    BY <2>2, <2>3
<1> HIDE DEF n, m
<1>5. SameAs(T, n, m)
  BY <1>1, <1>3, <1>4, SameMembers
<1> QED
  BY <1>5 DEF n, m

-----------------------------------------------------------------------------
(* The steps. *)

LEMMA InitIInv ==
    ASSUME Init
    PROVE  IInv
<1>1. /\ DOMAIN stats = Configs /\ \A T \in Configs : stats[T] = reset
      /\ full = reset
  BY AllComputed DEF Init, full
<1>2. SameInv
  BY <1>1 DEF SameInv, SameAs, reset, Members
<1>3. /\ full.timestamp = 0 /\ full.data_timestamp = 0
      /\ full.value = 0 /\ full.rate = full.moving_count
  BY <1>1 DEF reset
<1>4. seen \in Seq(Int \X Int) /\ Len(seen) = 0 /\ warmup \in Seq(Int \X Clock)
  BY StatisticsAssumption DEF Init
<1>5. Expires
  BY <1>3, IntervalAssumption DEF Expires
<1> QED
  BY <1>1, <1>2, <1>3, <1>4, <1>5 DEF IInv, CountInv

LEMMA UpdateInv ==
    ASSUME IInv, NEW value \in Int, NEW timestamp \in Int, Update(value, timestamp),
           warmup' \in Seq(Int \X Clock)
    PROVE  IInv'
<1> DEFINE f == full
           n == update(Tag, f, value, timestamp)
<1>1. /\ DOMAIN stats' = Configs
      /\ \A T \in Configs : stats'[T] = update(T, stats[T], value, timestamp)
      /\ full' = n
  BY AllComputed DEF Update, full
<1>2. SameInv'
  <2>1. ASSUME NEW T \in Configs
        PROVE  /\ DOMAIN stats'[T] = Fields
               /\ SameAs(T, stats'[T], full')
    BY <1>1, UpdateFields, UpdateSame DEF IInv, SameInv
  <2> QED
    BY <2>1 DEF SameInv, SameAs, Fields
<1>3. /\ f.timestamp \in Int /\ f.data_timestamp \in Int
      /\ n.timestamp = Larger(f.timestamp, timestamp)
      /\ n.data_timestamp = Larger(f.data_timestamp, timestamp)
      /\ n.value = value
      /\ n.rate = OverInterval(f, f.rate, value - f.value, timestamp)
      /\ n.moving_count = OverInterval(f, f.moving_count, 1, timestamp)
      /\ n.moving_sum = OverInterval(f, f.moving_sum, value, timestamp)
  BY UpdateAll DEF IInv
<1>4. MovingInterval \in Nat \ {0}
  BY IntervalAssumption
<1>5. /\ seen' = Append(seen, <<value, timestamp>>) /\ seen \in Seq(Int \X Int)
      /\ seen' \in Seq(Int \X Int) /\ Len(seen') = Len(seen) + 1 /\ Len(seen) \in Nat
      /\ \A i \in DOMAIN seen : i \in DOMAIN seen' /\ seen'[i] = seen[i]
      /\ Len(seen') \in DOMAIN seen' /\ seen'[Len(seen')] = <<value, timestamp>>
  <2> DEFINE e == <<value, timestamp>>
  <2>1. e \in Int \X Int /\ seen \in Seq(Int \X Int) /\ seen' = Append(seen, e)
    BY DEF IInv, Update
  <2> HIDE DEF e
  <2>2. seen' \in Seq(Int \X Int) /\ Len(seen') = Len(seen) + 1 /\ Len(seen) \in Nat
    BY <2>1
  <2>3. \A i \in DOMAIN seen : i \in DOMAIN seen' /\ seen'[i] = seen[i]
    BY <2>1
  <2>4. Len(seen') \in DOMAIN seen' /\ seen'[Len(seen')] = e
    BY <2>1
  <2> QED
    BY <2>1, <2>2, <2>3, <2>4 DEF e
<1> HIDE DEF f, n
<1>6. n.timestamp \in Int /\ n.data_timestamp \in Int
  BY <1>3 DEF Larger
<1>7. Expires'
  <2>1. SUFFICES ASSUME n.timestamp > n.data_timestamp + MovingInterval
                 PROVE  n.moving_count = Zero /\ n.moving_sum = Zero /\ n.rate = Zero
    BY <1>1 DEF Expires
  <2>2. /\ timestamp < f.timestamp - MovingInterval
        /\ f.timestamp > f.data_timestamp + MovingInterval
    BY <1>3, <1>4, <2>1 DEF Larger
  <2>3. f.moving_count = Zero /\ f.moving_sum = Zero /\ f.rate = Zero
    BY <2>2 DEF IInv, Expires, f
  <2> QED
    BY <1>3, <2>2, <2>3 DEF OverInterval, update_interval_data
<1>8. CountInv'
  <2>1. SUFFICES ASSUME \A i \in DOMAIN seen' : seen'[i][1] = i
                 PROVE  n.value = Len(seen') /\ n.rate = n.moving_count
    BY <1>1 DEF CountInv
  <2>2. value = Len(seen) + 1
    BY <1>5, <2>1
  <2>3. f.value = Len(seen) /\ f.rate = f.moving_count
    BY <1>5, <2>1 DEF IInv, CountInv, f
  <2>4. value - f.value = 1
    BY <1>5, <2>2, <2>3
  <2> QED
    BY <1>3, <1>5, <2>2, <2>3, <2>4
<1> QED
  BY <1>1, <1>2, <1>5, <1>6, <1>7, <1>8 DEF IInv

LEMMA WarmUpStep ==
    ASSUME IInv, WarmUp
    PROVE  IInv'
<1>1. /\ Head(warmup) \in Int \X Clock /\ Tail(warmup) \in Seq(Int \X Clock)
  BY DEF IInv, WarmUp
<1>2. Head(warmup)[1] \in Int /\ Head(warmup)[2] \in Int
  <2>1. \A t \in Clock : t \in Int
    BY StatisticsAssumption
  <2>2. \A pair \in Int \X Clock : pair[1] \in Int /\ pair[2] \in Clock
    OBVIOUS
  <2> QED
    BY <1>1, <2>1, <2>2
<1> QED
  BY <1>1, <1>2, UpdateInv DEF WarmUp

LEMMA AnyUpdateStep ==
    ASSUME IInv, AnyUpdate
    PROVE  IInv'
<1>1. PICK value \in Values, timestamp \in Clock : Update(value, timestamp)
  BY DEF AnyUpdate
<1>2. value \in Int /\ timestamp \in Int /\ warmup' \in Seq(Int \X Clock)
  BY StatisticsAssumption DEF AnyUpdate, IInv
<1> QED
  BY <1>1, <1>2, UpdateInv

LEMMA UpdateTimeStep ==
    ASSUME IInv, NEW timestamp \in Clock, UpdateTime(timestamp)
    PROVE  IInv'
<1> DEFINE f == full
           n == update_time(Tag, f, timestamp)
<1>1. /\ DOMAIN stats' = Configs
      /\ \A T \in Configs : stats'[T] = update_time(T, stats[T], timestamp)
      /\ full' = n /\ seen' = seen /\ warmup' = warmup
  BY AllComputed DEF UpdateTime, full
<1>2. /\ \A T \in Configs : DOMAIN stats[T] = Fields /\ SameAs(T, stats[T], full)
      /\ DOMAIN full = Fields
  BY AllComputed DEF IInv, SameInv, Fields, full
<1>3. SameInv'
  <2>1. ASSUME NEW T \in Configs
        PROVE  /\ DOMAIN stats'[T] = Fields
               /\ SameAs(T, stats'[T], full')
    BY <1>1, <1>2, TimeMembers, TimeSame
  <2> QED
    BY <2>1 DEF SameInv, SameAs, Fields
<1>4. /\ timestamp \in Int /\ MovingInterval \in Nat \ {0}
      /\ f.timestamp \in Int /\ f.data_timestamp \in Int /\ timestamp > f.timestamp
  BY StatisticsAssumption, IntervalAssumption DEF IInv, UpdateTime, full
<1>5. ~(timestamp <= f.timestamp) /\ "timestamp" \in computed[Tag]
  BY <1>4, AllComputed DEF Tag
<1>6. /\ n.timestamp = timestamp /\ n.data_timestamp = f.data_timestamp
      /\ n.value = f.value
      /\ n.rate = Shifted(f, f.rate, timestamp)
      /\ n.moving_count = Shifted(f, f.moving_count, timestamp)
      /\ n.moving_sum = Shifted(f, f.moving_sum, timestamp)
  BY <1>2, <1>5, TimeMembers
<1> HIDE DEF f, n
<1>7. Expires'
  <2>1. SUFFICES ASSUME n.timestamp > n.data_timestamp + MovingInterval
                 PROVE  n.moving_count = Zero /\ n.moving_sum = Zero /\ n.rate = Zero
    BY <1>1 DEF Expires
  <2>2. stale_interval(f.data_timestamp, timestamp) <= 0
    BY <1>4, <1>6, <2>1 DEF stale_interval
  <2> QED
    BY <1>5, <1>6, <2>2 DEF Shifted, shift_interval_data
<1>8. CountInv'
  BY <1>1, <1>6 DEF IInv, CountInv, Shifted, f
<1> QED
  BY <1>1, <1>3, <1>4, <1>6, <1>7, <1>8 DEF IInv

LEMMA NextIInv ==
    ASSUME IInv, [Next]_vars
    PROVE  IInv'
<1>1. CASE UNCHANGED vars
  BY <1>1 DEF vars, IInv, SameInv, SameAs, Expires, CountInv, full
<1> QED
  BY <1>1, WarmUpStep, AnyUpdateStep, UpdateTimeStep DEF Next

-----------------------------------------------------------------------------
(* The theorems. *)

\* After any calls of update() and update_time() (statistics.cpp:454-521), all
\* objects agree on what they compute, whatever tags they were configured with.
THEOREM Invariance == Spec => []IInv
  BY InitIInv, NextIInv, PTL DEF Spec

\* An object that is no longer fed, in whatever order its values came and
\* however often update_time() was called, has no moving statistics left one
\* interval after its newest value.
THEOREM ExpiresHolds == Spec => []Expires
<1>1. IInv => Expires
  BY DEF IInv
<1> QED
  BY <1>1, Invariance, PTL

\* Increments by one, in order of value but not of time, have the rate that
\* they have as a moving count.
THEOREM RateIsMovingCountHolds == Spec => []RateIsMovingCount
<1>1. IInv => RateIsMovingCount
  BY DEF IInv, CountInv, RateIsMovingCount
<1> QED
  BY <1>1, Invariance, PTL

\* Shown alike: what get_impl() reads for a computed tag is computed too.
LEMMA SameShown ==
    ASSUME NEW T \in Configs, NEW o, NEW f, SameAs(T, o, f), NEW tag \in T
    PROVE  get(T, o, tag) = get(Tag, f, tag)
<1>1. CASE tag \notin Tag
  <2>1. tag \notin computed[T] /\ tag \notin computed[Tag]
    BY <1>1, Computed, AllComputed
  <2> QED
    BY <2>1 DEF get, get_safe
<1>2. CASE tag \in Tag
  <2>1. tag \in computed[T] /\ tag \in computed[Tag]
    BY <1>2, Computed, AllComputed
  <2>2. get_impl(o, tag) = get_impl(f, tag)
    <3>1. CASE tag = "avg"
      <4>1. o.count = f.count /\ o.sum = f.sum
        BY <2>1, <3>1, Needs, SameMembers
      <4> QED
        BY <3>1, <4>1 DEF get_impl, avg
    <3>2. CASE tag = "moving_avg"
      <4>1. o.moving_count = f.moving_count /\ o.moving_sum = f.moving_sum
        BY <2>1, <3>2, Needs, SameMembers
      <4> QED
        BY <3>2, <4>1 DEF get_impl, moving_avg
    <3>3. CASE tag = "rate"
      <4>1. o.rate = f.rate
        BY <2>1, <3>3, SameMembers
      <4> QED
        BY <3>3, <4>1 DEF get_impl, rate
    <3>4. CASE tag \in {"quantile", "entropy"}
      <4>1. o.histogram = f.histogram
        BY <2>1, <3>4, Needs, SameMembers
      <4> QED
        BY <3>4, <4>1 DEF get_impl, quantile
    <3>5. CASE tag \in Members \ {"rate"}
      <4>1. o[tag] = f[tag]
        BY <2>1, <3>5 DEF SameAs
      <4> QED
        BY <3>5, <4>1 DEF get_impl, Members
    <3> QED
      BY <1>2, <3>1, <3>2, <3>3, <3>4, <3>5 DEF Tag, Members
  <2> QED
    BY <2>1, <2>2 DEF get, get_safe
<1> QED
  BY <1>1, <1>2

\* computed() names everything that what is configured is computed from, for
\* every set of configured tags: all of them show the same.
THEOREM TagsIndependentHolds == Spec => []TagsIndependent
<1>1. IInv => TagsIndependent
  BY SameShown DEF IInv, SameInv, TagsIndependent, write_to_json_value
<1> QED
  BY <1>1, Invariance, PTL
-----------------------------------------------------------------------------
(* The types of the members, and the moving average.                        *)

SeenValues == {seen[i][1] : i \in DOMAIN seen}

Times0 == Clock \cup {0}

\* An object; the histogram lies within the values.
Typed(o) ==
    /\ o.value \in Int /\ o.min \in Int /\ o.max \in Int /\ o.sum \in Int
    /\ o.count \in 0 .. Len(seen)
    /\ o.timestamp \in Times0 /\ o.data_timestamp \in Times0
    /\ o.rate \in Rational /\ o.moving_count \in Rational /\ o.moving_sum \in Rational
    /\ o.histogram \in HistogramOver(SeenValues) /\ Len(o.histogram) <= HistogramBins

\* The inductive invariant, on top of IInv.
DataInv ==
    /\ seen \in Seq(Int \X Clock)
    /\ stale \in BOOLEAN
    /\ updates \in 0 .. MaxUpdates
    /\ \A T \in Configs : Typed(stats[T])
    /\ Between(SeenValues, full.moving_count, full.moving_sum)

LEMMA ClockFacts ==
    /\ \A t \in Times0 : t \in Int /\ t \in Nat
    /\ \A t \in Clock : t \in Times0 /\ t \in Nat /\ t > MovingInterval
    /\ 0 \in Times0
    /\ MovingInterval \in Nat \ {0} /\ HistogramBins \in Nat \ {0} /\ MaxUpdates \in Nat
    /\ Clock \subseteq Int
  BY StatisticsAssumption, IntervalAssumption, HistogramAssumption DEF Times0

LEMMA SeenFacts ==
    ASSUME seen \in Seq(Int \X Clock)
    PROVE  /\ SeenValues \in SUBSET Int /\ Len(seen) \in Nat
           /\ \A x \in SeenValues : \E i \in DOMAIN seen : seen[i][1] = x
           /\ \A i \in DOMAIN seen : seen[i][1] \in Int
<1>1. \A i \in DOMAIN seen : seen[i] \in Int \X Clock
  OBVIOUS
<1>2. \A i \in DOMAIN seen : seen[i][1] \in Int
  BY <1>1
<1> QED
  BY <1>2 DEF SeenValues

LEMMA SeenMore ==
    ASSUME seen \in Seq(Int \X Clock), NEW value \in Int, NEW timestamp \in Clock,
           seen' = Append(seen, <<value, timestamp>>)
    PROVE  /\ seen' \in Seq(Int \X Clock) /\ Len(seen') = Len(seen) + 1
           /\ SeenValues' = SeenValues \cup {value}
<1> DEFINE n == Len(seen)
<1>1. /\ n \in Nat /\ DOMAIN seen = 1 .. n
      /\ seen' \in Seq(Int \X Clock) /\ Len(seen') = n + 1 /\ DOMAIN seen' = 1 .. n + 1
      /\ seen'[n + 1] = <<value, timestamp>>
      /\ \A i \in 1 .. n : seen'[i] = seen[i]
  OBVIOUS
<1>2. 1 .. n + 1 = (1 .. n) \cup {n + 1}
  BY <1>1
<1>3. seen'[n + 1][1] = value /\ \A i \in 1 .. n : seen'[i][1] = seen[i][1]
  BY <1>1
<1>4. SeenValues' = {seen'[i][1] : i \in (1 .. n) \cup {n + 1}}
  BY <1>1, <1>2 DEF SeenValues
<1>5. SeenValues = {seen[i][1] : i \in 1 .. n}
  BY <1>1 DEF SeenValues
<1> HIDE DEF n
<1>6. SeenValues' = SeenValues \cup {value}
  BY <1>3, <1>4, <1>5
<1> QED
  BY <1>1, <1>6 DEF n

LEMMA InitData ==
    ASSUME Init
    PROVE  DataInv
<1>1. /\ seen = <<>> /\ seen \in Seq(Int \X Clock) /\ Len(seen) = 0 /\ SeenValues = {}
      /\ stale \in BOOLEAN /\ updates \in 0 .. MaxUpdates
  <2>1. seen = <<>> /\ stale = FALSE /\ updates = 0
    BY DEF Init
  <2>2. 0 \in 0 .. MaxUpdates
    BY ClockFacts
  <2>3. DOMAIN seen = {} /\ seen \in Seq(Int \X Clock) /\ Len(seen) = 0
    BY <2>1
  <2> QED
    BY <2>1, <2>2, <2>3 DEF SeenValues
<1>2. /\ \A T \in Configs : stats[T] = reset
      /\ full = reset
  BY AllComputed DEF Init, full
<1>3. /\ reset.value = 0 /\ reset.min = Highest /\ reset.max = 1 /\ reset.sum = 0
      /\ reset.count = 0 /\ reset.timestamp = 0 /\ reset.data_timestamp = 0
      /\ reset.rate = Zero /\ reset.moving_count = Zero /\ reset.moving_sum = Zero
      /\ reset.histogram = <<>>
  BY DEF reset
<1>4. <<>> \in HistogramOver(SeenValues) /\ Len(<<>>) = 0
  <2>1. <<>> \in Seq(BinOver(SeenValues)) /\ DOMAIN <<>> = {} /\ Len(<<>>) = 0
    OBVIOUS
  <2> QED
    BY <2>1 DEF HistogramOver, Ordered
<1>5. Zero \in Rational /\ Zero \in Amount
  BY ZeroFacts, AmountFacts
<1>6. Typed(reset)
  BY <1>1, <1>3, <1>4, <1>5, ClockFacts DEF Typed, Highest
<1>7. Between(SeenValues, Zero, Zero)
  BY <1>5 DEF Between
<1> QED
  BY <1>1, <1>2, <1>3, <1>6, <1>7 DEF DataInv

LEMMA OverIntervalTyped ==
    ASSUME NEW x \in Rational, NEW d \in Int, NEW a \in Int, NEW m \in Int, NEW t \in Int
    PROVE  update_interval_data(x, d, a, m, t) \in Rational
<1>1. Rat(a) \in Rational /\ shift_interval_data(x, d, m, t) \in Rational
  BY RatFacts, ShiftTyped
<1>2. Plus(Rat(a), shift_interval_data(x, d, m, t)) \in Rational
  BY <1>1, PlusLaws
<1> QED
  BY <1>2 DEF update_interval_data

LEMMA UpdateData ==
    ASSUME IInv, DataInv, NEW value \in Int, NEW timestamp \in Clock,
           Update(value, timestamp), updates' \in 0 .. MaxUpdates
    PROVE  DataInv'
<1>1. /\ \A T \in Configs : stats'[T] = update(T, stats[T], value, timestamp)
      /\ full' = update(Tag, full, value, timestamp)
      /\ seen' = Append(seen, <<value, timestamp>>)
  BY AllComputed DEF Update, full
<1>2. /\ SeenValues \in SUBSET Int /\ Len(seen) \in Nat
      /\ seen' \in Seq(Int \X Clock) /\ Len(seen') = Len(seen) + 1
      /\ SeenValues' = SeenValues \cup {value}
  BY <1>1, SeenFacts, SeenMore DEF DataInv
<1>3. timestamp \in Int /\ timestamp \in Times0
  BY ClockFacts
<1>4. ASSUME NEW T \in Configs
      PROVE  Typed(stats[T])'
  <2> DEFINE o == stats[T]
             c == computed[T]
             n == stats'[T]
  <2>1. Typed(o)
    BY DEF DataInv
  <2>2. /\ o.value \in Int /\ o.min \in Int /\ o.max \in Int /\ o.sum \in Int
        /\ o.count \in 0 .. Len(seen)
        /\ o.timestamp \in Times0 /\ o.data_timestamp \in Times0
        /\ o.timestamp \in Int /\ o.data_timestamp \in Int
        /\ o.rate \in Rational /\ o.moving_count \in Rational /\ o.moving_sum \in Rational
        /\ o.histogram \in HistogramOver(SeenValues) /\ Len(o.histogram) <= HistogramBins
    BY <2>1, ClockFacts DEF Typed
  <2>3. n = update(T, o, value, timestamp)
    BY <1>1
  <2> HIDE DEF n, o, c
  <2>4. /\ n.value \in {value, o.value}
        /\ n.min \in {Smaller(o.min, value), o.min}
        /\ n.max \in {Larger(o.max, value), o.max}
        /\ n.sum \in {o.sum + value, o.sum}
        /\ n.count \in {o.count + 1, o.count}
        /\ n.timestamp \in {Larger(o.timestamp, timestamp), o.timestamp}
        /\ n.data_timestamp \in {Larger(o.data_timestamp, timestamp), o.data_timestamp}
        /\ n.rate \in {OverInterval(o, o.rate, value - o.value, timestamp), o.rate}
        /\ n.moving_count \in {OverInterval(o, o.moving_count, 1, timestamp), o.moving_count}
        /\ n.moving_sum \in {OverInterval(o, o.moving_sum, value, timestamp), o.moving_sum}
        /\ n.histogram \in {update_histogram(o.histogram, value, o.timestamp, timestamp),
                            o.histogram}
    BY <2>3, UpdateMembers
  <2>5. /\ n.value \in Int /\ n.min \in Int /\ n.max \in Int /\ n.sum \in Int
        /\ n.count \in 0 .. Len(seen')
    <3>1. /\ Smaller(o.min, value) \in Int /\ Larger(o.max, value) \in Int
          /\ o.sum + value \in Int
      BY <2>2 DEF Smaller, Larger
    <3>2. o.count + 1 \in 0 .. Len(seen') /\ o.count \in 0 .. Len(seen')
      <4> DEFINE k == o.count
                 m == Len(seen)
                 M == Len(seen')
      <4>1. m \in Nat /\ M = m + 1 /\ k \in 0 .. m
        BY <1>2, <2>2
      <4> HIDE DEF k, m, M
      <4>2. k + 1 \in 0 .. M /\ k \in 0 .. M
        BY <4>1
      <4> QED
        BY <4>2 DEF k, M
    <3> QED
      BY <2>2, <2>4, <3>1, <3>2
  <2>6. n.timestamp \in Times0 /\ n.data_timestamp \in Times0
    BY <1>3, <2>2, <2>4 DEF Larger
  <2>7. n.rate \in Rational /\ n.moving_count \in Rational /\ n.moving_sum \in Rational
    <3>1. value - o.value \in Int /\ 1 \in Int
      BY <2>2
    <3>2. \A x \in Rational, added \in Int : OverInterval(o, x, added, timestamp) \in Rational
      BY <1>3, <2>2, OverIntervalTyped DEF OverInterval
    <3> QED
      BY <2>2, <2>4, <3>1, <3>2
  <2>8. /\ n.histogram \in HistogramOver(SeenValues \cup {value})
        /\ Len(n.histogram) <= HistogramBins
    <3> DEFINE h == o.histogram
               m == o.timestamp
    <3>1. h \in HistogramOver(SeenValues \cup {value})
      BY <2>2, MoreValues
    <3>2. h \in HistogramOver(SeenValues) /\ Len(h) <= HistogramBins /\ m \in Int
      BY <2>2
    <3>3. n.histogram \in {update_histogram(h, value, m, timestamp), h}
      BY <2>4
    <3> HIDE DEF h, m
    <3>4. /\ update_histogram(h, value, m, timestamp) \in HistogramOver(SeenValues \cup {value})
          /\ Len(update_histogram(h, value, m, timestamp)) <= HistogramBins
      BY <1>2, <1>3, <3>2, UpdateHistogramTyped
    <3> QED
      BY <3>1, <3>2, <3>3, <3>4
  <2> QED
    BY <1>2, <2>5, <2>6, <2>7, <2>8 DEF Typed, n, Times0
<1>5. Between(SeenValues, full.moving_count, full.moving_sum)'
  <2> DEFINE f == full
             n == full'
  <2>1. /\ Between(SeenValues, f.moving_count, f.moving_sum)
        /\ f.timestamp \in Int /\ f.data_timestamp \in Int
    BY DEF IInv, DataInv
  <2>2. /\ n.moving_count = OverInterval(f, f.moving_count, 1, timestamp)
        /\ n.moving_sum = OverInterval(f, f.moving_sum, value, timestamp)
    BY <1>1, UpdateAll
  <2> DEFINE c == f.moving_count
             s == f.moving_sum
             d == f.data_timestamp
             m == f.timestamp
  <2>3. /\ n.moving_count = update_interval_data(c, d, 1, m, timestamp)
        /\ n.moving_sum = update_interval_data(s, d, value, m, timestamp)
        /\ Between(SeenValues, c, s) /\ d \in Int /\ m \in Int
    BY <2>1, <2>2 DEF OverInterval
  <2> HIDE DEF f, n, c, s, d, m
  <2>4. Between(SeenValues \cup {value}, n.moving_count, n.moving_sum)
    <3>1. Between(SeenValues \cup {value}, update_interval_data(c, d, 1, m, timestamp),
                                           update_interval_data(s, d, value, m, timestamp))
      BY <1>2, <1>3, <2>3, BetweenUpdated
    <3> QED
      BY <2>3, <3>1
  <2> QED
    BY <1>2, <2>4 DEF n
<1>6. stale' \in BOOLEAN
  BY DEF Update
<1> QED
  BY <1>2, <1>4, <1>5, <1>6 DEF DataInv

LEMMA UpdateTimeData ==
    ASSUME IInv, DataInv, NEW timestamp \in Clock, UpdateTime(timestamp)
    PROVE  DataInv'
<1>1. /\ \A T \in Configs : stats'[T] = update_time(T, stats[T], timestamp)
      /\ full' = update_time(Tag, full, timestamp)
      /\ seen' = seen /\ stale' = stale /\ updates' = updates /\ SeenValues' = SeenValues
  BY AllComputed DEF UpdateTime, full, SeenValues
<1>2. /\ SeenValues \in SUBSET Int /\ timestamp \in Int /\ timestamp \in Times0
      /\ full \in {stats[T] : T \in Configs}
  BY SeenFacts, ClockFacts, AllComputed DEF DataInv, full
<1>3. \A T \in Configs : DOMAIN stats[T] = Fields
  BY DEF IInv, SameInv, Fields
<1>4. ASSUME NEW T \in Configs
      PROVE  Typed(stats[T])'
  <2> DEFINE o == stats[T]
             n == stats'[T]
  <2>1. Typed(o)
    BY DEF DataInv
  <2>2. /\ o.value \in Int /\ o.min \in Int /\ o.max \in Int /\ o.sum \in Int
        /\ o.count \in 0 .. Len(seen)
        /\ o.timestamp \in Times0 /\ o.data_timestamp \in Times0
        /\ o.timestamp \in Int /\ o.data_timestamp \in Int
        /\ o.rate \in Rational /\ o.moving_count \in Rational /\ o.moving_sum \in Rational
        /\ o.histogram \in HistogramOver(SeenValues) /\ Len(o.histogram) <= HistogramBins
    BY <2>1, ClockFacts DEF Typed
  <2>3. n = update_time(T, o, timestamp) /\ DOMAIN o = Fields
    BY <1>1, <1>3
  <2> HIDE DEF n, o
  <2>4. CASE timestamp <= o.timestamp
    <3>1. n = o
      BY <2>3, <2>4, TimeMembers
    <3> QED
      BY <1>1, <2>2, <3>1 DEF Typed, n, Times0
  <2>5. CASE ~(timestamp <= o.timestamp)
    <3>1. /\ n.value = o.value /\ n.min = o.min /\ n.max = o.max
          /\ n.sum = o.sum /\ n.count = o.count
          /\ n.data_timestamp = o.data_timestamp
          /\ n.rate = Shifted(o, o.rate, timestamp)
          /\ n.moving_count = Shifted(o, o.moving_count, timestamp)
          /\ n.moving_sum = Shifted(o, o.moving_sum, timestamp)
          /\ n.histogram = shift_histogram(o.histogram, o.timestamp, timestamp)
          /\ n.timestamp \in {timestamp, o.timestamp}
      BY <2>3, <2>5, TimeMembers
    <3>2. n.rate \in Rational /\ n.moving_count \in Rational /\ n.moving_sum \in Rational
      BY <1>2, <2>2, <3>1, ShiftTyped DEF Shifted
    <3>3. /\ n.histogram \in HistogramOver(SeenValues)
          /\ Len(n.histogram) <= HistogramBins
      BY <1>2, <2>2, <3>1, ShiftHistogram
    <3> QED
      BY <1>1, <1>2, <2>2, <3>1, <3>2, <3>3 DEF Typed, n, Times0
  <2> QED
    BY <2>4, <2>5
<1>5. Between(SeenValues, full.moving_count, full.moving_sum)'
  <2> DEFINE f == full
             n == full'
  <2>1. /\ Between(SeenValues, f.moving_count, f.moving_sum)
        /\ f.timestamp \in Int /\ f.data_timestamp \in Int /\ DOMAIN f = Fields
    BY <1>2, <1>3 DEF IInv, DataInv
  <2>2. \/ n = f
        \/ /\ n.moving_count = Shifted(f, f.moving_count, timestamp)
           /\ n.moving_sum = Shifted(f, f.moving_sum, timestamp)
    BY <1>1, <2>1, TimeMembers
  <2> DEFINE c == f.moving_count
             s == f.moving_sum
             d == f.data_timestamp
             m == f.timestamp
  <2>3. /\ \/ n.moving_count = c /\ n.moving_sum = s
           \/ /\ n.moving_count = shift_interval_data(c, d, m, timestamp)
              /\ n.moving_sum = shift_interval_data(s, d, m, timestamp)
        /\ Between(SeenValues, c, s) /\ d \in Int /\ m \in Int
    BY <2>1, <2>2 DEF Shifted
  <2> HIDE DEF f, n, c, s, d, m
  <2>4. Between(SeenValues, shift_interval_data(c, d, m, timestamp),
                            shift_interval_data(s, d, m, timestamp))
    BY <1>2, <2>3, BetweenShifted
  <2>5. Between(SeenValues, n.moving_count, n.moving_sum)
    BY <2>3, <2>4
  <2> QED
    BY <1>1, <2>5 DEF n
<1> QED
  BY <1>1, <1>4, <1>5 DEF DataInv

LEMMA NextData ==
    ASSUME IInv, DataInv, [Next]_vars
    PROVE  DataInv'
<1>1. CASE UNCHANGED vars
  <2>1. stats' = stats /\ seen' = seen /\ stale' = stale /\ updates' = updates
    BY <1>1 DEF vars
  <2> QED
    BY <2>1 DEF DataInv, Typed, SeenValues, full
<1>2. CASE WarmUp
  <2>1. /\ Head(warmup) \in Int \X Clock /\ Update(Head(warmup)[1], Head(warmup)[2])
        /\ updates' = updates
    BY <1>2 DEF IInv, WarmUp
  <2>2. Head(warmup)[1] \in Int /\ Head(warmup)[2] \in Clock
    BY <2>1
  <2> QED
    BY <2>1, <2>2, UpdateData DEF DataInv
<1>3. CASE AnyUpdate
  <2>1. PICK value \in Values, timestamp \in Clock : Update(value, timestamp)
    BY <1>3 DEF AnyUpdate
  <2>2. value \in Int /\ updates' \in 0 .. MaxUpdates
    BY <1>3, ClockFacts, StatisticsAssumption DEF AnyUpdate, DataInv
  <2> QED
    BY <2>1, <2>2, UpdateData
<1>4. ASSUME NEW timestamp \in Clock, UpdateTime(timestamp)
      PROVE  DataInv'
  BY <1>4, UpdateTimeData
<1> QED
  BY <1>1, <1>2, <1>3, <1>4 DEF Next

\* Whatever is computed is a fraction with a positive denominator, counts of
\* bins are not negative, and bins lie within the values and in order.
LEMMA DataInvariance == Spec => [](IInv /\ DataInv)
<1>1. Init => IInv /\ DataInv
  BY InitIInv, InitData
<1>2. IInv /\ DataInv /\ [Next]_vars => (IInv /\ DataInv)'
  BY NextIInv, NextData
<1> QED
  BY <1>1, <1>2, PTL DEF Spec

\* The members of all objects keep their types: the moving quantities, and the
\* centres and counts of all bins, are fractions with a positive denominator,
\* and a count is no larger than the number of values fed, after any sequence
\* of calls of update() and update_time() (statistics.cpp:454-518).
THEOREM TypeCorrect == Spec => []TypeOK
<1>1. ASSUME IInv, DataInv
      PROVE  TypeOK
  <2>1. \A x \in Rational : IsRat(x) /\ x \in Int \X Nat
    BY DEF Rational, IsRat
  <2>2. ASSUME NEW T \in Configs
        PROVE  LET o == stats[T] IN
               /\ {o.value, o.min, o.max, o.sum} \subseteq Int
               /\ o.count \in 0 .. Len(seen)
               /\ {o.timestamp, o.data_timestamp} \subseteq Clock \cup {0}
               /\ \A f \in {o.rate, o.moving_count, o.moving_sum} : IsRat(f)
               /\ \A i \in DOMAIN o.histogram :
                    /\ o.histogram[i] \in bin_type
                    /\ IsRat(o.histogram[i].center) /\ IsRat(o.histogram[i].count)
    <3> DEFINE o == stats[T]
               h == o.histogram
    <3>1. Typed(o)
      BY <1>1 DEF DataInv
    <3>2. h \in HistogramOver(SeenValues)
      BY <3>1 DEF Typed
    <3> HIDE DEF h, o
    <3>3. ASSUME NEW i \in DOMAIN h
          PROVE  h[i] \in bin_type /\ IsRat(h[i].center) /\ IsRat(h[i].count)
      <4>1. h[i] \in BinOver(SeenValues)
        BY <3>2, BinsOf
      <4>2. h[i].center \in Rational /\ h[i].count \in Rational
        BY <4>1, BinFacts
      <4>3. /\ h[i].center \in Int \X Nat /\ h[i].count \in Int \X Nat
            /\ IsRat(h[i].center) /\ IsRat(h[i].count)
        BY <2>1, <4>2
      <4> QED
        BY <4>1, <4>3 DEF BinOver, bin_type
    <3> QED
      BY <2>1, <3>1, <3>3 DEF Typed, Times0, h, o
  <2> QED
    BY <1>1, <2>2 DEF TypeOK, IInv, DataInv
<1> QED
  BY <1>1, DataInvariance, PTL

\* update() gives and takes a value to moving_count and moving_sum together
\* (statistics.cpp:479-485): whatever the order of the timestamps, and
\* whatever the signs of the values, their quotient is an average.
THEOREM AvgWithinRangeHolds == Spec => []AvgWithinRange
<1>1. ASSUME IInv, DataInv
      PROVE  AvgWithinRange
  <2> DEFINE c == full.moving_count
             s == full.moving_sum
  <2>1. SUFFICES ASSUME Less(Zero, c)
                 PROVE  /\ \E i \in DOMAIN seen : Leq(Rat(seen[i][1]), moving_avg(full))
                        /\ \E i \in DOMAIN seen : Leq(moving_avg(full), Rat(seen[i][1]))
    BY DEF AvgWithinRange
  <2>2. /\ SeenValues \in SUBSET Int
        /\ \A x \in SeenValues : \E i \in DOMAIN seen : seen[i][1] = x
    BY <1>1, SeenFacts DEF DataInv
  <2>3. Between(SeenValues, c, s) /\ c \in Rational /\ s \in Rational
    BY <1>1 DEF DataInv, Between, Amount
  <2>4. ~Leq(c, Zero)
    BY <2>1 DEF Leq
  <2>5. c # Zero
    <3>1. Leq(Zero, Zero)
      BY ZeroFacts, OrderLaws
    <3> QED
      BY <2>4, <3>1
  <2>6. moving_avg(full) = Over(s, c)
    BY <2>4 DEF moving_avg
  <2> HIDE DEF c, s
  <2>7. /\ \E v \in SeenValues : Leq(Times(Rat(v), c), s)
        /\ \E v \in SeenValues : Leq(s, Times(Rat(v), c))
    BY <2>3, <2>5 DEF Between
  <2>8. ASSUME NEW v \in SeenValues
        PROVE  /\ Leq(Times(Rat(v), c), s) => Leq(Rat(v), Over(s, c))
               /\ Leq(s, Times(Rat(v), c)) => Leq(Over(s, c), Rat(v))
    <3>1. Rat(v) \in Rational
      BY <2>2, RatFacts
    <3> QED
      BY <2>1, <2>3, <3>1, OverLaws
  <2> QED
    BY <2>2, <2>6, <2>7, <2>8
<1> QED
  BY <1>1, DataInvariance, PTL

\* update_time() (statistics.cpp:500-521) is what update_metrics() calls before
\* each dump: the decay between two dumps composes, bin by bin, so what is
\* shown does not depend on how often dumps are made.
THEOREM ShiftPathIndependentHolds == Spec => []ShiftPathIndependent
<1>1. ASSUME IInv, DataInv
      PROVE  ShiftPathIndependent
  <2>1. SUFFICES ASSUME NEW t1 \in Clock, NEW t2 \in Clock, t1 < t2
                 PROVE  update_time(Tag, update_time(Tag, full, t1), t2)
                            = update_time(Tag, full, t2)
    BY DEF ShiftPathIndependent
  <2> DEFINE f == full
             g == update_time(Tag, f, t1)
             l == update_time(Tag, g, t2)
             r == update_time(Tag, f, t2)
  <2>2. Typed(f) /\ DOMAIN f = Fields
    BY <1>1, AllComputed DEF full, DataInv, IInv, SameInv, Fields
  <2>3. /\ f.timestamp \in Int /\ f.data_timestamp \in Int /\ t1 \in Int /\ t2 \in Int
        /\ f.rate \in Rational /\ f.moving_count \in Rational /\ f.moving_sum \in Rational
        /\ f.histogram \in HistogramOver(SeenValues)
    BY <2>2, ClockFacts DEF Typed
  <2>4. "timestamp" \in computed[Tag]
    BY AllComputed DEF Tag
  <2>5. CASE t1 <= f.timestamp
    <3>1. g = f
      BY <2>2, <2>5, TimeMembers
    <3> QED
      BY <3>1
  <2>6. CASE ~(t1 <= f.timestamp)
    <3>1. ~(t2 <= f.timestamp) /\ f.timestamp < t1 /\ t1 < t2 /\ ~(t2 <= t1)
      BY <2>1, <2>3, <2>6
    <3> HIDE DEF f
    <3>2. /\ DOMAIN g = Fields
          /\ g.value = f.value /\ g.min = f.min /\ g.max = f.max
          /\ g.sum = f.sum /\ g.count = f.count
          /\ g.data_timestamp = f.data_timestamp
          /\ g.rate = Shifted(f, f.rate, t1)
          /\ g.moving_count = Shifted(f, f.moving_count, t1)
          /\ g.moving_sum = Shifted(f, f.moving_sum, t1)
          /\ g.histogram = shift_histogram(f.histogram, f.timestamp, t1)
          /\ g.timestamp = t1
      BY <2>2, <2>4, <2>6, TimeMembers
    <3> HIDE DEF g
    <3>3. /\ DOMAIN l = Fields
          /\ l.value = g.value /\ l.min = g.min /\ l.max = g.max
          /\ l.sum = g.sum /\ l.count = g.count
          /\ l.data_timestamp = g.data_timestamp
          /\ l.rate = Shifted(g, g.rate, t2)
          /\ l.moving_count = Shifted(g, g.moving_count, t2)
          /\ l.moving_sum = Shifted(g, g.moving_sum, t2)
          /\ l.histogram = shift_histogram(g.histogram, g.timestamp, t2)
          /\ l.timestamp = t2
      BY <2>4, <3>1, <3>2, TimeMembers
    <3>4. /\ DOMAIN r = Fields
          /\ r.value = f.value /\ r.min = f.min /\ r.max = f.max
          /\ r.sum = f.sum /\ r.count = f.count
          /\ r.data_timestamp = f.data_timestamp
          /\ r.rate = Shifted(f, f.rate, t2)
          /\ r.moving_count = Shifted(f, f.moving_count, t2)
          /\ r.moving_sum = Shifted(f, f.moving_sum, t2)
          /\ r.histogram = shift_histogram(f.histogram, f.timestamp, t2)
          /\ r.timestamp = t2
      BY <2>2, <2>4, <3>1, TimeMembers
    <3>5. l = [m \in Fields |-> l[m]] /\ r = [m \in Fields |-> r[m]]
      <4>1. /\ ~(t2 <= g.timestamp) /\ ~(t2 <= f.timestamp)
        BY <3>1, <3>2
      <4> QED
        BY <2>2, <3>2, <3>3, <3>4, <4>1 DEF update_time
    <3> HIDE DEF l, r
    <3>6. /\ l.rate = r.rate /\ l.moving_count = r.moving_count
          /\ l.moving_sum = r.moving_sum
      BY <2>3, <3>1, <3>2, <3>3, <3>4, ShiftComposes DEF Shifted
    <3>7. l.histogram = r.histogram
      BY <2>3, <3>1, <3>2, <3>3, <3>4, ShiftHistogramComposes
    <3>8. \A m \in Fields : l[m] = r[m]
      BY <3>2, <3>3, <3>4, <3>6, <3>7 DEF Fields, Members
    <3> QED
      BY <3>5, <3>8 DEF l, r, g, f
  <2> QED
    BY <2>5, <2>6
<1> QED
  BY <1>1, DataInvariance, PTL
-----------------------------------------------------------------------------
(* Sums over the bins of the histogram.                                     *)

LEMMA MomentIsSum ==
    ASSUME NEW V, NEW h \in Seq(BinOver(V))
    PROVE  Moment(h) = SumTo(Moments(h), Len(h))
<1> DEFINE N == Len(h)
           w == Moments(h)
<1>1. /\ N \in Nat /\ DOMAIN h = 1 .. N
      /\ \A i \in 1 .. N : w[i] = Times(h[i].center, h[i].count) /\ w[i] \in Rational
  BY Weights
<1> DEFINE Sums(g) ==
             g = [s \in SUBSET DOMAIN h |->
                    IF s = {} THEN Zero
                    ELSE Plus(g[s \ {Max(s)}], Times(h[Max(s)].center, h[Max(s)].count))]
<1>2. Moment(h) = (CHOOSE g : Sums(g))[DOMAIN h]
  BY DEF Moment, FoldLeft, MapThenFoldSet
<1>3. \A s \in SUBSET (1 .. N) :
         s # {} => w[Max(s)] = Times(h[Max(s)].center, h[Max(s)].count)
  BY <1>1, MaxFacts
<1> HIDE DEF w, N
<1>4. ASSUME NEW g
      PROVE  Sums(g) <=> AddsUp(w, N, g)
  BY <1>1, <1>3 DEF AddsUp
<1> HIDE DEF Sums
<1>5. \E g : Sums(g)
  BY <1>1, <1>4, AddsUpExists
<1>6. AddsUp(w, N, CHOOSE g : Sums(g))
  BY <1>4, <1>5
<1>7. (CHOOSE g : Sums(g))[1 .. N] = SumTo(w, N)
  BY <1>1, <1>6, AddsUpSum
<1> QED
  BY <1>1, <1>2, <1>7 DEF w, N

LEMMA UpdateConservesStep ==
    ASSUME IInv, DataInv, NEW value \in Int, NEW timestamp \in Clock,
           Update(value, timestamp)
    PROVE  HistogramConserves
<1> DEFINE h == full.histogram
           m == full.timestamp
           g == full'.histogram
           all == shift_histogram(Append(h, NewBin(value, timestamp)), m, timestamp)
           W == SeenValues \cup {value}
<1>1. /\ seen' = Append(seen, <<value, timestamp>>)
      /\ full' = update(Tag, full, value, timestamp)
  BY AllComputed DEF Update, full
<1>2. Last(seen') = <<value, timestamp>>
  BY <1>1 DEF DataInv, Last
<1>3. /\ SeenValues \in SUBSET Int /\ timestamp \in Int
      /\ h \in HistogramOver(SeenValues) /\ Len(h) <= HistogramBins /\ m \in Int
  BY AllComputed, SeenFacts, ClockFacts DEF DataInv, Typed, full
<1>4. g = update_histogram(h, value, m, timestamp)
  BY <1>1, UpdateAll
<1> HIDE DEF h, m, g
<1>5. SameSums(g, all)
  BY <1>3, <1>4, UpdateConserves
<1>6. g \in Seq(BinOver(W))
  <2>1. g \in HistogramOver(W)
    BY <1>3, <1>4, UpdateHistogramTyped
  <2> HIDE DEF W
  <2> QED
    BY <2>1, BinsOf
<1>7. all \in Seq(BinOver(W))
  <2> DEFINE bin == NewBin(value, timestamp)
  <2>1. h \in HistogramOver(W) /\ W \in SUBSET Int
    BY <1>3, MoreValues
  <2>2. h \in Seq(BinOver(W)) /\ bin \in BinOver(W)
    BY <1>3, <2>1, NewBinTyped DEF HistogramOver
  <2> HIDE DEF bin, W
  <2>3. Append(h, bin) \in Seq(BinOver(W))
    BY <2>2
  <2>4. shift_histogram(Append(h, bin), m, timestamp) \in Seq(BinOver(W))
    BY <1>3, <2>3, ShiftBins
  <2> QED
    BY <2>4 DEF bin
<1> HIDE DEF W, all
<1>8. Total(g) = Total(all) /\ Moment(g) = Moment(all)
  BY <1>5, <1>6, <1>7, TotalIsSum, MomentIsSum DEF SameSums
<1>9. HistogramConserves <=>
         (seen' # seen =>
            LET new == Last(seen') IN
            LET a == shift_histogram(Append(h, NewBin(new[1], new[2])), m, new[2])
            IN  Total(g) = Total(a) /\ Moment(g) = Moment(a))
  BY DEF HistogramConserves, g, h, m
<1>10. Last(seen')[1] = value /\ Last(seen')[2] = timestamp
  BY <1>2
<1> QED
  BY <1>8, <1>9, <1>10 DEF all

\* update_histogram() (statistics.cpp:392-452) drops empty bins and merges the
\* closest pair: neither changes how much data the histogram holds or their
\* mean, wherever the new bin is inserted.
THEOREM HistogramConservesHolds == Spec => HistogramConservesStep
<1>1. IInv /\ DataInv /\ [Next]_vars => [HistogramConserves]_vars
  <2>1. SUFFICES ASSUME IInv, DataInv, [Next]_vars
                 PROVE  HistogramConserves \/ UNCHANGED vars
    OBVIOUS
  <2>2. CASE UNCHANGED vars
    BY <2>2
  <2>3. CASE WarmUp
    <3>1. /\ Head(warmup) \in Int \X Clock /\ Update(Head(warmup)[1], Head(warmup)[2])
      BY <2>1, <2>3 DEF IInv, WarmUp
    <3>2. Head(warmup)[1] \in Int /\ Head(warmup)[2] \in Clock
      BY <3>1
    <3> QED
      BY <2>1, <3>1, <3>2, UpdateConservesStep
  <2>4. CASE AnyUpdate
    <3>1. PICK value \in Values, timestamp \in Clock : Update(value, timestamp)
      BY <2>4 DEF AnyUpdate
    <3>2. value \in Int
      BY StatisticsAssumption
    <3> QED
      BY <2>1, <3>1, <3>2, UpdateConservesStep
  <2>5. ASSUME NEW timestamp \in Clock, UpdateTime(timestamp)
        PROVE  HistogramConserves
    <3>1. seen' = seen
      BY <2>5 DEF UpdateTime
    <3> QED
      BY <3>1 DEF HistogramConserves
  <2> QED
    BY <2>1, <2>2, <2>3, <2>4, <2>5 DEF Next
<1> QED
  BY <1>1, DataInvariance, PTL DEF Spec, HistogramConservesStep

Held(h) == SumTo(Counts(h), Len(h))

\* The bins decay at least as fast as the moving count, which is as old as the
\* newest of them.
ShapeInv ==
    /\ NotAfter(full.histogram, full.data_timestamp)
    /\ ~stale => Leq(Held(full.histogram), full.moving_count)

LEMMA FullFacts ==
    ASSUME IInv, DataInv
    PROVE  /\ full.histogram \in HistogramOver(SeenValues)
           /\ full.histogram \in Seq(BinOver(SeenValues))
           /\ Len(full.histogram) <= HistogramBins
           /\ full.timestamp \in Int /\ full.timestamp \in Nat
           /\ full.data_timestamp \in Int /\ full.data_timestamp \in Nat
           /\ full.moving_count \in Rational
           /\ DOMAIN full = Fields
           /\ SeenValues \in SUBSET Int
<1>1. Typed(full) /\ DOMAIN full = Fields /\ SeenValues \in SUBSET Int
  BY AllComputed, SeenFacts DEF DataInv, IInv, SameInv, Fields, full
<1>2. full.histogram \in Seq(BinOver(SeenValues))
  BY <1>1 DEF Typed, HistogramOver
<1> QED
  BY <1>1, <1>2, ClockFacts DEF Typed

LEMMA HeldTyped ==
    ASSUME NEW V, NEW h \in Seq(BinOver(V))
    PROVE  Held(h) \in Rational
<1>1. Len(h) \in Nat /\ \A i \in 1 .. Len(h) : Counts(h)[i] \in Rational
  BY Weights
<1>2. Len(h) \in 0 .. Len(h)
  BY <1>1
<1> QED
  BY <1>1, <1>2, SumFacts DEF Held

LEMMA InitShape ==
    ASSUME Init
    PROVE  ShapeInv
<1>1. full.histogram = <<>> /\ full.moving_count = Zero
  BY AllComputed DEF Init, full, reset
<1>2. NotAfter(<<>>, full.data_timestamp)
  BY DEF NotAfter
<1>3. Held(<<>>) = Zero
  <2>1. Len(<<>>) = 0 /\ \A i \in 1 .. 0 : Counts(<<>>)[i] \in Rational
    OBVIOUS
  <2>2. SumTo(Counts(<<>>), 0) = Zero
    BY <2>1, SumFacts
  <2> QED
    BY <2>1, <2>2 DEF Held
<1>4. Leq(Zero, Zero)
  BY ZeroFacts, OrderLaws
<1> QED
  BY <1>1, <1>2, <1>3, <1>4 DEF ShapeInv

LEMMA UpdateShape ==
    ASSUME IInv, DataInv, ShapeInv, NEW value \in Int, NEW timestamp \in Clock,
           Update(value, timestamp)
    PROVE  ShapeInv'
<1> DEFINE f == full
           n == full'
           h == f.histogram
           d == f.data_timestamp
           m == f.timestamp
           c == f.moving_count
           g == update_histogram(h, value, m, timestamp)
<1>1. n = update(Tag, f, value, timestamp) /\ (stale' <=> stale \/ timestamp < m - MovingInterval)
  BY AllComputed DEF Update, full
<1>2. /\ n.histogram = g
      /\ n.data_timestamp = Larger(d, timestamp)
      /\ n.moving_count = update_interval_data(c, d, 1, m, timestamp)
  BY <1>1, UpdateAll DEF OverInterval
<1>3. /\ h \in HistogramOver(SeenValues) /\ SeenValues \in SUBSET Int
      /\ m \in Int /\ d \in Int /\ d \in Nat /\ c \in Rational
      /\ timestamp \in Int /\ timestamp \in Nat
  BY FullFacts, ClockFacts
<1>4. NotAfter(h, d) /\ (~stale => Leq(Held(h), c))
  BY DEF ShapeInv
<1>5. ShapeInv' <=>
         /\ NotAfter(n.histogram, n.data_timestamp)
         /\ ~stale' => Leq(Held(n.histogram), n.moving_count)
  BY DEF ShapeInv, Held, NotAfter, Counts
<1> HIDE DEF f, n, h, d, m, c
<1>6. NotAfter(g, Larger(d, timestamp))
  <2> DEFINE B == Larger(d, timestamp)
  <2>1. B \in Nat /\ timestamp <= B /\ d <= B
    BY <1>3 DEF Larger
  <2>2. NotAfter(h, B)
    <3>1. \A i \in DOMAIN h : h[i].timestamp \in Int
      <4>1. \A i \in DOMAIN h : h[i] \in BinOver(SeenValues)
        BY <1>3, BinsOf
      <4> QED
        BY <4>1, BinFacts
    <3> HIDE DEF B
    <3> QED
      BY <1>3, <1>4, <2>1, <3>1 DEF NotAfter
  <2> HIDE DEF B
  <2>3. \A V \in SUBSET Int : h \in HistogramOver(V) => NotAfter(g, B)
    <3> TAKE V \in SUBSET Int
    <3> HAVE h \in HistogramOver(V)
    <3> QED
      BY <1>3, <2>1, <2>2, UpdateNotAfter
  <2> QED
    BY <1>3, <2>3 DEF B
<1>7. ASSUME ~stale'
      PROVE  Leq(Held(g), n.moving_count)
  <2>1. ~stale /\ ~(timestamp < m - MovingInterval)
    BY <1>1, <1>7
  <2>2. n.moving_count = Plus(One, shift_interval_data(c, d, m, timestamp))
    BY <1>2, <2>1 DEF update_interval_data, One
  <2>3. Leq(SumTo(Counts(h), Len(h)), c)
    BY <1>4, <2>1 DEF Held
  <2>4. Leq(SumTo(Counts(g), Len(g)), Plus(One, shift_interval_data(c, d, m, timestamp)))
    BY <1>3, <1>4, <2>3, UpdateSum
  <2> QED
    BY <2>2, <2>4 DEF Held
<1> QED
  BY <1>2, <1>5, <1>6, <1>7

LEMMA UpdateTimeShape ==
    ASSUME IInv, DataInv, ShapeInv, NEW timestamp \in Clock, UpdateTime(timestamp)
    PROVE  ShapeInv'
<1> DEFINE f == full
           n == full'
           h == f.histogram
           d == f.data_timestamp
           m == f.timestamp
           c == f.moving_count
           g == shift_histogram(h, m, timestamp)
<1>1. n = update_time(Tag, f, timestamp) /\ stale' = stale
  BY AllComputed DEF UpdateTime, full
<1>2. DOMAIN f = Fields
  BY FullFacts
<1>3. /\ h \in HistogramOver(SeenValues) /\ SeenValues \in SUBSET Int
      /\ h \in Seq(BinOver(SeenValues))
      /\ m \in Int /\ d \in Int /\ c \in Rational /\ timestamp \in Int
  BY FullFacts, ClockFacts
<1>4. NotAfter(h, d) /\ (~stale => Leq(Held(h), c))
  BY DEF ShapeInv
<1>5. ShapeInv' <=>
         /\ NotAfter(n.histogram, n.data_timestamp)
         /\ ~stale' => Leq(Held(n.histogram), n.moving_count)
  BY DEF ShapeInv, Held, NotAfter, Counts
<1>6. CASE timestamp <= m
  <2>1. n = f
    BY <1>1, <1>2, <1>6, TimeMembers
  <2> QED
    BY <1>1, <1>4, <1>5, <2>1
<1>7. CASE ~(timestamp <= m)
  <2>1. /\ n.histogram = g /\ n.data_timestamp = d
        /\ n.moving_count = shift_interval_data(c, d, m, timestamp)
    BY <1>1, <1>2, <1>7, TimeMembers DEF Shifted
  <2> HIDE DEF f, n, h, d, m, c
  <2>2. NotAfter(g, d)
    <3>1. DOMAIN g = DOMAIN h /\ \A i \in DOMAIN h : g[i].timestamp = h[i].timestamp
      BY <1>3, ShiftHistogram
    <3> HIDE DEF g
    <3> QED
      BY <1>4, <3>1 DEF NotAfter
  <2>3. ASSUME ~stale
        PROVE  Leq(Held(g), n.moving_count)
    <3> DEFINE F == Factor(d, m, timestamp)
               x == Held(h)
               y == Held(g)
    <3>1. Leq(y, Times(x, F)) /\ Leq(x, c)
      BY <1>3, <1>4, <2>3, ShiftedSum DEF Held
    <3>2. x \in Rational /\ y \in Rational
      <4>1. g \in Seq(BinOver(SeenValues))
        BY <1>3, ShiftBins
      <4> HIDE DEF g
      <4> QED
        BY <1>3, <4>1, HeldTyped
    <3>3. F \in Rational /\ Leq(Zero, F) /\ n.moving_count = Times(c, F)
      BY <1>3, <2>1, ShiftIsTimes DEF Amount
    <3> HIDE DEF F, x, y
    <3>4. Leq(Times(x, F), Times(c, F)) /\ Times(x, F) \in Rational /\ Times(c, F) \in Rational
      BY <1>3, <3>1, <3>2, <3>3, TimesLaws, OrderLaws
    <3>5. Leq(y, Times(c, F))
      BY <3>1, <3>2, <3>4, OrderLaws
    <3> QED
      BY <3>3, <3>5 DEF y
  <2> QED
    BY <1>1, <1>5, <2>1, <2>2, <2>3
<1> QED
  BY <1>6, <1>7

LEMMA NextShape ==
    ASSUME IInv, DataInv, ShapeInv, [Next]_vars
    PROVE  ShapeInv'
<1>1. CASE UNCHANGED vars
  <2>1. stats' = stats /\ stale' = stale
    BY <1>1 DEF vars
  <2> QED
    BY <2>1 DEF ShapeInv, NotAfter, Held, Counts, full
<1>2. CASE WarmUp
  <2>1. Head(warmup) \in Int \X Clock /\ Update(Head(warmup)[1], Head(warmup)[2])
    BY <1>2 DEF IInv, WarmUp
  <2>2. Head(warmup)[1] \in Int /\ Head(warmup)[2] \in Clock
    BY <2>1
  <2> QED
    BY <2>1, <2>2, UpdateShape
<1>3. CASE AnyUpdate
  <2>1. PICK value \in Values, timestamp \in Clock : Update(value, timestamp)
    BY <1>3 DEF AnyUpdate
  <2>2. value \in Int
    BY StatisticsAssumption
  <2> QED
    BY <2>1, <2>2, UpdateShape
<1>4. ASSUME NEW timestamp \in Clock, UpdateTime(timestamp)
      PROVE  ShapeInv'
  BY <1>4, UpdateTimeShape
<1> QED
  BY <1>1, <1>2, <1>3, <1>4 DEF Next

\* update_histogram() and update_time() (statistics.cpp:392-452, 500-521): the
\* bins are in order, at most as many as configured, between the smallest and
\* the largest value, and hold no more than the moving count.
THEOREM HistogramShapeHolds == Spec => []HistogramShape
<1>1. Init => IInv /\ DataInv /\ ShapeInv
  BY InitIInv, InitData, InitShape
<1>2. IInv /\ DataInv /\ ShapeInv /\ [Next]_vars => (IInv /\ DataInv /\ ShapeInv)'
  BY NextIInv, NextData, NextShape
<1>3. ASSUME IInv, DataInv, ShapeInv
      PROVE  HistogramShape
  <2> DEFINE h == full.histogram
  <2>1. /\ h \in HistogramOver(SeenValues) /\ h \in Seq(BinOver(SeenValues))
        /\ Len(h) <= HistogramBins
    BY <1>3, FullFacts
  <2>2. \A x \in SeenValues : \E i \in DOMAIN seen : seen[i][1] = x
    BY <1>3, SeenFacts DEF DataInv
  <2>3. ~stale => Leq(Held(h), full.moving_count)
    BY <1>3 DEF ShapeInv
  <2>4. HistogramShape <=>
          /\ Len(h) <= HistogramBins
          /\ \A i \in 1 .. Len(h) - 1 : Leq(h[i].center, h[i + 1].center)
          /\ \A i \in DOMAIN h :
              /\ Leq(Zero, h[i].count)
              /\ \E j \in DOMAIN seen : Leq(Rat(seen[j][1]), h[i].center)
              /\ \E j \in DOMAIN seen : Leq(h[i].center, Rat(seen[j][1]))
          /\ ~stale => Leq(Total(h), full.moving_count)
    BY DEF HistogramShape
  <2> HIDE DEF h
  <2>5. Total(h) = Held(h)
    BY <2>1, TotalIsSum DEF Held
  <2>6. /\ DOMAIN h = 1 .. Len(h) /\ Len(h) \in Nat /\ Ordered(h)
        /\ \A i \in DOMAIN h : h[i] \in BinOver(SeenValues)
    BY <2>1, BinsOf
  <2>7. \A i \in 1 .. Len(h) - 1 : Leq(h[i].center, h[i + 1].center)
    <3>1. \A i \in 1 .. Len(h) - 1 : i \in DOMAIN h /\ i + 1 \in DOMAIN h /\ i <= i + 1
      BY <2>6
    <3> QED
      BY <2>6, <3>1 DEF Ordered
  <2>8. ASSUME NEW i \in DOMAIN h
        PROVE  /\ Leq(Zero, h[i].count)
               /\ \E j \in DOMAIN seen : Leq(Rat(seen[j][1]), h[i].center)
               /\ \E j \in DOMAIN seen : Leq(h[i].center, Rat(seen[j][1]))
    <3>1. h[i].center \in Hull(SeenValues) /\ Leq(Zero, h[i].count)
      BY <2>6, BinFacts
    <3>2. /\ \E v \in SeenValues : Leq(Rat(v), h[i].center)
          /\ \E v \in SeenValues : Leq(h[i].center, Rat(v))
      BY <3>1 DEF Hull
    <3> QED
      BY <2>2, <3>1, <3>2
  <2> QED
    BY <2>1, <2>3, <2>4, <2>5, <2>7, <2>8
<1> QED
  BY <1>1, <1>2, <1>3, PTL DEF Spec

-----------------------------------------------------------------------------
(* Quantiles. *)

LEMMA ProbabilityFacts ==
    ASSUME NEW p \in Probabilities
    PROVE  p \in Rational /\ Leq(Zero, p) /\ Less(p, One)
<1>1. IsRat(p) /\ p = Ratio(p[1], p[2]) /\ Leq(Zero, p) /\ Less(p, One)
  BY StatisticsAssumption
<1> DEFINE n == p[1]
           d == p[2]
<1>2. n \in Int /\ d \in Int \ {0} /\ p = Ratio(n, d)
  BY <1>1 DEF IsRat
<1> HIDE DEF n, d
<1>3. Ratio(n, d) \in Rational
  BY <1>2, RatioFacts
<1> QED
  BY <1>1, <1>2, <1>3

\* quantile_extractor::at() (statistics.cpp:96-174), asked for any probability
\* below 1, of any histogram that updates leave: the search for the gap does
\* not leave the histogram, find_z() has its root, and quantiles are monotonic.
THEOREM QuantileSoundHolds == Spec => []QuantileSound
<1>1. ASSUME IInv, DataInv
      PROVE  QuantileSound
  <2> DEFINE h == full.histogram
  <2>1. h \in HistogramOver(SeenValues) /\ h \in Seq(BinOver(SeenValues))
    BY <1>1, FullFacts
  <2>2. QuantileSound <=>
          (Interpolates(h) =>
            \A p \in Probabilities :
                LET l == Locate(h, p)
                    found == at(h, p)
                IN  /\ l.k <= Len(h)
                    /\ HasRoot(found.a, found.b, found.c)
                    /\ Leq(found.left[1], found.right[1])
                    /\ \A q \in Probabilities :
                        LET r == Locate(h, q)
                        IN  Less(p, q) =>
                                \/ l.k < r.k
                                \/ l.k = r.k /\ Less(l.required, r.required))
    BY DEF QuantileSound
  <2> HIDE DEF h
  <2> SUFFICES ASSUME Interpolates(h), NEW p \in Probabilities
               PROVE  LET l == Locate(h, p)
                          found == at(h, p)
                      IN  /\ l.k <= Len(h)
                          /\ HasRoot(found.a, found.b, found.c)
                          /\ Leq(found.left[1], found.right[1])
                          /\ \A q \in Probabilities :
                              LET r == Locate(h, q)
                              IN  Less(p, q) =>
                                      \/ l.k < r.k
                                      \/ l.k = r.k /\ Less(l.required, r.required)
    BY <2>2
  <2> DEFINE l == Locate(h, p)
             k == l.k
             c == CountAt(h, k)
             d == CountAt(h, k + 1)
             e == l.required
             found == at(h, p)
  <2>3. Len(h) > 1 /\ Less(Zero, Total(h)) /\ Len(h) \in Nat
    BY <2>1 DEF Interpolates
  <2>4. p \in Rational /\ Leq(Zero, p) /\ Less(p, One)
    BY ProbabilityFacts
  <2>5. /\ k \in 0 .. Len(h) /\ e = Required(h, p)[k]
        /\ Leq(Zero, e) /\ Less(e, Volume(h, k))
    BY <2>1, <2>3, <2>4, LocateFacts
  <2>6. found = [left  |-> <<LeftCenter(h, k), c>>,
                 right |-> <<RightCenter(h, k), d>>,
                 a |-> Minus(d, c),
                 b |-> Times(Rat(2), c),
                 c |-> Times(Rat(-2), e)]
    <3>1. h # <<>> /\ Len(h) # 1
      <4> DEFINE n == Len(h)
      <4>1. n # 0 /\ n # 1
        <5>1. n \in Nat /\ n > 1
          BY <2>3
        <5> HIDE DEF n
        <5> QED
          BY <5>1
      <4>2. Len(<<>>) = 0
        OBVIOUS
      <4> QED
        BY <4>1, <4>2
    <3> QED
      BY <2>3, <3>1 DEF at
  <2>7. /\ c \in Rational /\ d \in Rational
        /\ Volume(h, k) = Times(Ratio(1, 2), Plus(c, d)) /\ Volume(h, k) \in Rational
    BY <2>1, VolumesTyped DEF Volume
  <2>8. e \in Rational
    <3>1. k \in 0 .. Len(h) + 1
      BY <2>3, <2>5
    <3> QED
      BY <2>1, <2>4, <2>5, <3>1, RequiredIs
  <2>9. k <= Len(h)
    BY <2>3, <2>5
  <2>10. \A q \in Probabilities :
            Less(p, q) => \/ k < Locate(h, q).k
                          \/ k = Locate(h, q).k /\ Less(e, Locate(h, q).required)
    <3> TAKE q \in Probabilities
    <3> HAVE Less(p, q)
    <3>1. q \in Rational /\ Leq(Zero, q) /\ Less(q, One)
      BY ProbabilityFacts
    <3> QED
      BY <2>1, <2>3, <2>4, <3>1, LocateMonotone
  <2> HIDE DEF k, c, d, e, l, found
  <2>11. HasRoot(found.a, found.b, found.c)
    <3>1. Less(e, Times(Ratio(1, 2), Plus(c, d)))
      BY <2>5, <2>7
    <3>2. HasRoot(Minus(d, c), Times(Rat(2), c), Times(Rat(-2), e))
      BY <2>5, <2>7, <2>8, <3>1, RootFound
    <3> QED
      BY <2>6, <3>2
  <2>12. Leq(found.left[1], found.right[1])
    <3>1. Less(Zero, Volume(h, k))
      BY <2>5, <2>7, <2>8, ZeroFacts, OrderLaws
    <3>2. Leq(LeftCenter(h, k), RightCenter(h, k))
      BY <2>1, <2>3, <2>5, <3>1, GapOrdered
    <3> QED
      BY <2>6, <3>2
  <2> QED
    BY <2>9, <2>10, <2>11, <2>12 DEF k, e, l, found
<1>2. Spec => [](IInv /\ DataInv)
  BY Invariance, DataInvariance, PTL
<1> QED
  BY <1>1, <1>2, PTL
=============================================================================
