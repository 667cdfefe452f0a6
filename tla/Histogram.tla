----------------------------- MODULE Histogram ------------------------------
(***************************************************************************)
(* The histogram of src/src/statistics.cpp: a sequence of at most          *)
(* HistogramBins bins, ordered by their centres; a bin decays with the     *)
(* moving interval. The logarithm of the entropy and the root of the       *)
(* quantile's quadratic equation are left out: entropy() and at() return   *)
(* what these are applied to, and HasRoot() says whether there is a root.  *)
(***************************************************************************)
EXTENDS Interval, Sequences, SequencesExt, FiniteSets

CONSTANT HistogramBins      \* m_config.histogram_bins

\* configure() accepts positive numbers only.
ASSUME HistogramAssumption == HistogramBins \in Nat \ {0}

bin_type == [center : Int \X Nat, count : Int \X Nat, timestamp : Int]

Nonempty(bin) == Less(Zero, bin.count)

Total(h) == FoldLeft(LAMBDA sum, bin : Plus(sum, bin.count), Zero, h)

-----------------------------------------------------------------------------
\* Leading and trailing empty bins go, and so do empty bins between two
\* empty bins.
remove_empty_bins(h) ==
    LET full == {i \in DOMAIN h : Nonempty(h[i])}
        kept == {i \in DOMAIN h :
                    /\ \E j, k \in full : j <= i /\ i <= k
                    /\ \E j \in full : j \in {i - 1, i, i + 1}}
    IN  [n \in 1 .. Cardinality(kept) |->
            h[CHOOSE i \in kept :
                Cardinality({j \in kept : j <= i}) = n]]

\* The weights of math_utils::weighted_average are counts, or 1 and 1.
weighted_average(value1, weight1, value2, weight2) ==
    Over(Plus(Times(value1, weight1), Times(value2, weight2)),
         Plus(weight1, weight2))

\* Defective variant: the centres are not weighted.
Merged_left(left, right) ==
    [center    |-> weighted_average(left.center, One, right.center, One),
     count     |-> Plus(left.count, right.count),
     timestamp |-> left.timestamp]

Merged(left, right) ==
    IF ~Nonempty(left) /\ ~Nonempty(right)
    THEN [center    |-> weighted_average(left.center, One, right.center, One),
          count     |-> Zero,
          timestamp |-> 0]
    ELSE [center    |-> weighted_average(left.center, left.count,
                                         right.center, right.count),
          count     |-> Plus(left.count, right.count),
          timestamp |-> IF left.timestamp < right.timestamp
                        THEN right.timestamp ELSE left.timestamp]

bin_merge_criteria(left, right) == Minus(right.center, left.center)

\* Index of the first of the two adjacent bins that are closest.
BestMerge(h) ==
    LET Distance(i) == bin_merge_criteria(h[i], h[i + 1])
        pairs == 1 .. Len(h) - 1
    IN  CHOOSE i \in pairs :
            /\ \A j \in pairs : Leq(Distance(i), Distance(j))
            /\ \A j \in pairs : j < i => Less(Distance(i), Distance(j))

MergeBest(h) ==
    LET i == BestMerge(h)
    IN  RemoveAt([h EXCEPT ![i] = Merged(h[i], h[i + 1])], i + 1)

shift_histogram(h, m_timestamp, timestamp) ==
    [i \in DOMAIN h |->
        [h[i] EXCEPT !.count = shift_interval_data(h[i].count, h[i].timestamp,
                                                   m_timestamp, timestamp)]]

NewBin(value, timestamp) ==
    [center |-> Rat(value), count |-> One, timestamp |-> timestamp]

\* The order of tuples.
Before(bin1, bin2) ==
    \/ Less(bin1.center, bin2.center)
    \/ /\ bin1.center = bin2.center
       /\ \/ Less(bin1.count, bin2.count)
          \/ bin1.count = bin2.count /\ bin1.timestamp < bin2.timestamp

\* Defective variant: the new bin goes to the end.
Inserted_last(h, bin) == Append(h, bin)

\* std::lower_bound; where bins share a centre, decay may have put their
\* counts out of order, and it finds some place among them.
Inserted(h, bin) ==
    InsertAt(h, Cardinality({i \in DOMAIN h : Before(h[i], bin)}) + 1, bin)

\* The new bin is shifted together with the others.
update_histogram(h, value, m_timestamp, timestamp) ==
    LET shifted == shift_histogram(Inserted(h, NewBin(value, timestamp)),
                                   m_timestamp, timestamp)
        cleaned == IF Len(shifted) > HistogramBins
                   THEN remove_empty_bins(shifted) ELSE shifted
    IN  IF Len(cleaned) > HistogramBins THEN MergeBest(cleaned) ELSE cleaned

-----------------------------------------------------------------------------
\* quantile_extractor::at(). The density of the data is linear between the
\* centres of adjacent bins; gap k lies between bins k and k + 1, where the
\* first and the last gap are bounded by an empty bin outside.
CountAt(h, i) == IF i \in DOMAIN h THEN h[i].count ELSE Zero

Volume(h, k) == Times(Ratio(1, 2), Plus(CountAt(h, k), CountAt(h, k + 1)))

\* What is required of the volume of gap k and those behind it, once the
\* volumes of the gaps before it are taken from what is required in all.
Required(h, probability) ==
    LET required[k \in 0 .. Len(h) + 1] ==
            IF k = 0 THEN Times(Total(h), probability)
            ELSE Minus(required[k - 1], Volume(h, k - 1))
    IN  required

\* Defective variant: the volume is not halved.
Locate_whole(h, probability) ==
    LET required == Required(h, probability)
        Holds(k) == \/ k > Len(h)
                    \/ Less(required[k], Plus(CountAt(h, k), CountAt(h, k + 1)))
        k == CHOOSE i \in 0 .. Len(h) + 1 :
                Holds(i) /\ \A j \in 0 .. i - 1 : ~Holds(j)
    IN  [k |-> k, required |-> required[k]]

\* The first gap that holds the quantile, and how much of its volume is
\* required.
Locate(h, probability) ==
    LET required == Required(h, probability)
        Holds(k) == k > Len(h) \/ Less(required[k], Volume(h, k))
        k == CHOOSE i \in 0 .. Len(h) + 1 :
                Holds(i) /\ \A j \in 0 .. i - 1 : ~Holds(j)
    IN  [k |-> k, required |-> required[k]]

\* Where the empty bin beyond bin i is put: as far from it as the weighted
\* average of bin i and its neighbour is on the other side.
Mirrored(h, i, neighbour) ==
    Minus(Plus(h[i].center, h[i].center),
          weighted_average(h[i].center, h[i].count,
                           h[neighbour].center, h[neighbour].count))

LeftCenter(h, k) == IF k = 0 THEN Mirrored(h, 1, 2) ELSE h[k].center

RightCenter(h, k) ==
    IF k = Len(h) THEN Mirrored(h, Len(h), Len(h) - 1) ELSE h[k + 1].center

Interpolates(h) == Len(h) > 1 /\ Less(Zero, Total(h))

\* solve_quadratic() has a solution of a z^2 + b z + c = 0 in [0, 1], which
\* find_z() returns: the signs at 0 and 1 differ, or the vertex is inside.
HasRoot(a, b, c) ==
    LET at0 == c
        at1 == Plus(Plus(a, b), c)
        d == Minus(Times(b, b), Times(Rat(4), Times(a, c)))
    IN  \/ Leq(Times(at0, at1), Zero) /\ (a # Zero \/ b # Zero)
        \/ /\ a # Zero /\ Leq(Zero, d)
           /\ Leq(Zero, Times(a, at0)) /\ Leq(Zero, Times(a, at1))
           /\ LET vertex == Over(Minus(Zero, b), Plus(a, a))
              IN  Leq(Zero, vertex) /\ Leq(vertex, One)

at(h, probability) ==
    IF h = <<>> \/ ~Less(Zero, Total(h)) THEN Zero
    ELSE IF Len(h) = 1 THEN h[1].center
    ELSE LET found == Locate(h, probability)
             k == found.k
         IN  [left  |-> <<LeftCenter(h, k), CountAt(h, k)>>,
              right |-> <<RightCenter(h, k), CountAt(h, k + 1)>>,
              a |-> Minus(CountAt(h, k + 1), CountAt(h, k)),
              b |-> Times(Rat(2), CountAt(h, k)),
              c |-> Times(Rat(-2), found.required)]

\* The share of bin i in the distance to its neighbour.
Reach(h, i, neighbour) ==
    Times(Minus(h[i].center, h[neighbour].center),
          Over(h[i].count, Plus(h[i].count, h[neighbour].count)))

BinWidth(h, i) ==
    LET left == IF i > 1 THEN Reach(h, i, i - 1) ELSE Zero
        right == IF i < Len(h) THEN Minus(Zero, Reach(h, i, i + 1)) ELSE Zero
        width == Plus(left, right)
    IN  IF i \in {1, Len(h)} THEN Plus(width, width) ELSE width

\* Weight and width of each bin that contributes to the entropy.
entropy(h) ==
    IF ~Interpolates(h) THEN {}
    ELSE {<<i, Over(h[i].count, Total(h)), BinWidth(h, i)>> :
             i \in {j \in DOMAIN h : Nonempty(h[j])}}
=============================================================================
