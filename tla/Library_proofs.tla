---------------------------- MODULE Library_proofs ----------------------------
(***************************************************************************)
(* Proofs about Library for any producers, documents, calls, scopes and    *)
(* bounds: a metric has the options that it is entitled to, counters and   *)
(* the dumps of them show each value, scopes balance, and a reader finds   *)
(* its events in the dump it waits for. The proofs about the parts that    *)
(* Library extends come first, among them what expand_pattern() makes of   *)
(* any text. The induction on numbers is that of Rationals_proofs.         *)
(***************************************************************************)
EXTENDS Library, Rationals_proofs, SequenceTheorems, TLAPS

-----------------------------------------------------------------------------
(* Sets of numbers. *)

LEMMA MinOf ==
    ASSUME NEW S, S \subseteq Nat, S # {}
    PROVE  Min(S) \in S /\ \A n \in S : Min(S) <= n
<1>1. \E x \in S : \A y \in S : x <= y
  BY LeastNatural
<1> QED
  BY <1>1 DEF Min

LEMMA MinIs ==
    ASSUME NEW S, S \subseteq Nat, NEW x \in S, \A y \in S : x <= y
    PROVE  Min(S) = x
<1>1. Min(S) \in S /\ \A n \in S : Min(S) <= n
  BY MinOf
<1>2. Min(S) \in Nat /\ x \in Nat /\ Min(S) <= x /\ x <= Min(S)
  BY <1>1
<1> QED
  BY <1>2

LEMMA MaxOf ==
    ASSUME NEW S, S \subseteq Nat, S # {}, NEW b \in Nat, \A n \in S : n <= b
    PROVE  Max(S) \in S /\ \A n \in S : n <= Max(S)
<1>1. \E x \in S : \A y \in S : y <= x
  BY GreatestNatural
<1>2. PICK x \in S : \A y \in S : x >= y
  <2>1. \A x, y \in S : y <= x => x >= y
    OBVIOUS
  <2> QED
    BY <1>1, <2>1
<1>3. Max(S) \in S /\ \A n \in S : Max(S) >= n
  BY <1>2 DEF Max
<1>4. \A n \in S : n \in Nat
  OBVIOUS
<1> QED
  BY <1>3, <1>4

LEMMA MaxIs ==
    ASSUME NEW S, S \subseteq Nat, NEW x \in S, \A y \in S : y <= x
    PROVE  Max(S) = x
<1>1. Max(S) \in S /\ \A n \in S : n <= Max(S)
  BY MaxOf
<1>2. Max(S) \in Nat /\ x \in Nat /\ Max(S) <= x /\ x <= Max(S)
  BY <1>1
<1> QED
  BY <1>2

-----------------------------------------------------------------------------
(* The events for a name among the first n of a sequence. *)

At(ev, name, n) == {i \in 1 .. n : ev[i].destination_name = name}

LEMMA AtFacts ==
    ASSUME NEW ev, NEW name, NEW n \in Nat
    PROVE  /\ At(ev, name, n) \subseteq 1 .. n /\ At(ev, name, n) \subseteq Nat
           /\ \A i \in At(ev, name, n) : i \in Nat /\ 1 <= i /\ i <= n
           /\ IsFiniteSet(At(ev, name, n))
           /\ At(ev, name, 0) = {}
<1>1. At(ev, name, n) \subseteq 1 .. n
  BY DEF At
<1>2. IsFiniteSet(1 .. n)
  BY FS_Interval
<1>3. At(ev, name, 0) = {}
  BY DEF At
<1> QED
  BY <1>1, <1>2, <1>3, FS_Subset

LEMMA AtStep ==
    ASSUME NEW ev, NEW name, NEW n \in Nat
    PROVE  At(ev, name, n + 1) = IF ev[n + 1].destination_name = name
                                 THEN At(ev, name, n) \cup {n + 1} ELSE At(ev, name, n)
<1>1. \A i : i \in 1 .. n + 1 <=> i \in 1 .. n \/ i = n + 1
  OBVIOUS
<1> QED
  BY <1>1 DEF At

\* What comes later does not matter.
LEMMA AtSame ==
    ASSUME NEW ev, NEW ew, NEW name, NEW n, \A i \in 1 .. n : ew[i] = ev[i]
    PROVE  At(ew, name, n) = At(ev, name, n)
  BY DEF At

LEMMA AtMonotone ==
    ASSUME NEW ev, NEW name, NEW n \in Nat, NEW m \in Nat, n <= m
    PROVE  /\ At(ev, name, n) \subseteq At(ev, name, m)
           /\ At(ev, name, n) = {i \in At(ev, name, m) : i <= n}
<1>1. \A i : i \in 1 .. n <=> i \in 1 .. m /\ i <= n
  OBVIOUS
<1> QED
  BY <1>1 DEF At

\* The first event is the first of any longer sequence.
LEMMA FirstAt ==
    ASSUME NEW ev, NEW name, NEW n \in Nat, NEW m \in Nat, n <= m, At(ev, name, n) # {}
    PROVE  /\ Min(At(ev, name, m)) = Min(At(ev, name, n))
           /\ Min(At(ev, name, n)) \in At(ev, name, n)
<1> DEFINE A == At(ev, name, n)
           B == At(ev, name, m)
<1>1. /\ A \subseteq Nat /\ B \subseteq Nat /\ A = {i \in B : i <= n} /\ A # {}
      /\ \A i \in B : i \in Nat
  BY AtFacts, AtMonotone
<1> HIDE DEF A, B
<1>2. Min(A) \in A /\ \A i \in A : Min(A) <= i
  BY <1>1, MinOf
<1>3. Min(A) \in B /\ Min(A) \in Nat /\ Min(A) <= n
  BY <1>1, <1>2
<1>4. \A i \in B : Min(A) <= i
  <2>1. \A i \in B : i \in A \/ n < i
    BY <1>1
  <2> QED
    BY <1>1, <1>2, <1>3, <2>1
<1>5. Min(B) = Min(A)
  BY <1>1, <1>3, <1>4, MinIs
<1> QED
  BY <1>2, <1>5 DEF A, B

-----------------------------------------------------------------------------
(* The values that a counter passes through. *)

IsChange(e) == e.event_type # counter_type.INIT

Changes(ev, name, n) ==
    {i \in At(ev, name, n) : \A j \in At(ev, name, n) : j >= i => IsChange(ev[j])}

Inits(ev, name, n) == {i \in At(ev, name, n) : IsInit(ev[i])}

Upto(S, i) == {j \in S : j <= i}

FirstValue(ev, name, n) ==
    IF Inits(ev, name, n) = {} THEN 0 ELSE ev[Max(Inits(ev, name, n))].event_data

PathOf(ev, values, name, n) ==
    LET changes == Changes(ev, name, n)
    IN  /\ Len(values) = 1 + Cardinality(changes)
        /\ values[1] = FirstValue(ev, name, n)
        /\ \A i \in changes :
            values[Cardinality(Upto(changes, i)) + 1] =
                values[Cardinality(Upto(changes, i))] + DeltaOf(ev[i])

\* The changes are the events since the last initialization.
LEMMA ChangesSince ==
    ASSUME NEW ev, NEW name, NEW n \in Nat
    PROVE  LET inits == Inits(ev, name, n)
               since == IF inits = {} THEN 0 ELSE Max(inits)
           IN  /\ Changes(ev, name, n) = {i \in At(ev, name, n) : i > since}
               /\ since = 0 <=> inits = {}
<1> DEFINE inits == Inits(ev, name, n)
           since == IF inits = {} THEN 0 ELSE Max(inits)
           A == At(ev, name, n)
<1>1. A \subseteq Nat /\ \A i \in A : i \in Nat /\ 1 <= i /\ i <= n
  BY AtFacts
<1>2. \A i \in A : i \in inits <=> ~IsChange(ev[i])
  BY DEF Inits, IsInit, IsChange
<1>3. inits \subseteq A
  BY DEF Inits
<1>4. Changes(ev, name, n) = {i \in A : \A j \in A : j >= i => IsChange(ev[j])}
  BY DEF Changes
<1> HIDE DEF A, inits
<1> DEFINE Goal == /\ Changes(ev, name, n) = {i \in A : i > since}
                   /\ since = 0 <=> inits = {}
<1>5. ASSUME inits = {}
      PROVE  Goal
  <2>1. \A i \in A : i > 0
    BY <1>1
  <2> QED
    BY <1>2, <1>4, <1>5, <2>1
<1>6. ASSUME inits # {}
      PROVE  Goal
  <2>1. inits \subseteq Nat /\ \A i \in inits : i <= n
    BY <1>1, <1>3
  <2>2. Max(inits) \in inits /\ \A i \in inits : i <= Max(inits)
    BY <1>6, <2>1, MaxOf
  <2> DEFINE m == Max(inits)
  <2>3. m \in A /\ m \in inits /\ m \in Nat /\ m >= 1 /\ ~IsChange(ev[m])
    BY <1>1, <1>2, <1>3, <2>2
  <2>4. \A i \in inits : i <= m
    BY <2>2
  <2> HIDE DEF m
  <2>5. ASSUME NEW i \in A
        PROVE  (\A j \in A : j >= i => IsChange(ev[j])) <=> i > m
    <3>1. CASE i > m
      <4>1. \A j \in A : j >= i => j \notin inits
        BY <1>1, <2>3, <2>4, <3>1
      <4> QED
        BY <1>2, <3>1, <4>1
    <3>2. CASE ~(i > m)
      <4>1. m >= i
        BY <1>1, <2>3, <3>2
      <4> QED
        BY <2>3, <3>2, <4>1
    <3> QED
      BY <3>1, <3>2
  <2>6. since = m /\ since # 0
    BY <1>6, <2>3 DEF m
  <2> HIDE DEF since
  <2> QED
    BY <1>4, <1>6, <2>5, <2>6
<1>7. Goal
  BY <1>5, <1>6
<1> QED
  BY <1>7 DEF A, inits

LEMMA PathIsPath ==
    ASSUME NEW values, NEW name, NEW n \in Nat
    PROVE  IsPath(values, name, n) <=> PathOf(pushed, values, name, n)
<1>1. EventsOf(name, n) = At(pushed, name, n)
  BY DEF EventsOf, At
<1>2. {i \in At(pushed, name, n) : IsInit(pushed[i])} = Inits(pushed, name, n)
  BY DEF Inits
<1> DEFINE inits == Inits(pushed, name, n)
           since == IF inits = {} THEN 0 ELSE Max(inits)
           changes == {i \in At(pushed, name, n) : i > since}
<1>3. Changes(pushed, name, n) = changes /\ (since = 0 <=> inits = {})
  BY ChangesSince
<1>4. FirstValue(pushed, name, n) = IF since = 0 THEN 0 ELSE pushed[since].event_data
  BY <1>3 DEF FirstValue
<1>5. PathOf(pushed, values, name, n) <=>
        /\ Len(values) = 1 + Cardinality(changes)
        /\ values[1] = FirstValue(pushed, name, n)
        /\ \A i \in changes :
            values[Cardinality(Upto(changes, i)) + 1] =
                values[Cardinality(Upto(changes, i))] + DeltaOf(pushed[i])
  BY <1>3 DEF PathOf
<1>6. IsPath(values, name, n) <=>
        /\ Len(values) = 1 + Cardinality(changes)
        /\ values[1] = IF since = 0 THEN 0 ELSE pushed[since].event_data
        /\ \A i \in changes :
            values[Cardinality(Upto(changes, i)) + 1] =
                values[Cardinality(Upto(changes, i))] + DeltaOf(pushed[i])
  BY <1>1, <1>2 DEF IsPath, Upto
<1> QED
  BY <1>4, <1>5, <1>6

LEMMA PathSame ==
    ASSUME NEW ev, NEW ew, NEW name, NEW n \in Nat, NEW m \in Nat,
           At(ew, name, m) = At(ev, name, n),
           \A i \in At(ev, name, n) : ew[i] = ev[i],
           NEW values
    PROVE  PathOf(ew, values, name, m) <=> PathOf(ev, values, name, n)
<1>1. Changes(ew, name, m) = Changes(ev, name, n)
  BY DEF Changes
<1>2. Inits(ew, name, m) = Inits(ev, name, n)
  BY DEF Inits
<1>3. Inits(ev, name, n) \subseteq At(ev, name, n) /\ Changes(ev, name, n) \subseteq At(ev, name, n)
  BY DEF Inits, Changes
<1>4. FirstValue(ew, name, m) = FirstValue(ev, name, n)
  <2>1. CASE Inits(ev, name, n) = {}
    BY <1>2, <2>1 DEF FirstValue
  <2>2. CASE Inits(ev, name, n) # {}
    <3>1. Inits(ev, name, n) \subseteq Nat /\ \A i \in Inits(ev, name, n) : i <= n
      BY <1>3, AtFacts
    <3>2. Max(Inits(ev, name, n)) \in At(ev, name, n)
      BY <1>3, <2>2, <3>1, MaxOf
    <3> QED
      BY <1>2, <2>2, <3>2 DEF FirstValue
  <2> QED
    BY <2>1, <2>2
<1>5. \A i \in Changes(ev, name, n) : DeltaOf(ew[i]) = DeltaOf(ev[i])
  BY <1>3
<1> QED
  BY <1>1, <1>4, <1>5 DEF PathOf

\* An initialization begins a new path.
LEMMA PathInit ==
    ASSUME NEW ev, NEW name, NEW n \in Nat,
           ev[n + 1].destination_name = name, IsInit(ev[n + 1])
    PROVE  PathOf(ev, <<ev[n + 1].event_data>>, name, n + 1)
<1> DEFINE A == At(ev, name, n + 1)
<1>1. A = At(ev, name, n) \cup {n + 1}
  BY AtStep
<1>2. \A i \in A : i \in Nat /\ i <= n + 1
  BY AtFacts
<1>3. n + 1 \in A /\ ~IsChange(ev[n + 1])
  BY <1>1 DEF IsInit, IsChange
<1> HIDE DEF A
<1>4. Changes(ev, name, n + 1) = {}
  <2>1. \A i \in A : n + 1 >= i
    BY <1>2
  <2> QED
    BY <1>3, <2>1 DEF Changes, A
<1>5. Max(Inits(ev, name, n + 1)) = n + 1 /\ Inits(ev, name, n + 1) # {}
  <2>1. n + 1 \in Inits(ev, name, n + 1) /\ Inits(ev, name, n + 1) \subseteq A
    BY <1>3 DEF Inits, A
  <2>2. Inits(ev, name, n + 1) \subseteq Nat /\ \A i \in Inits(ev, name, n + 1) : i <= n + 1
    BY <1>2, <2>1
  <2> QED
    BY <2>1, <2>2, MaxIs
<1>6. FirstValue(ev, name, n + 1) = ev[n + 1].event_data
  BY <1>5 DEF FirstValue
<1>7. Len(<<ev[n + 1].event_data>>) = 1 /\ <<ev[n + 1].event_data>>[1] = ev[n + 1].event_data
  OBVIOUS
<1>8. Cardinality({}) = 0
  BY FS_EmptySet
<1> QED
  BY <1>4, <1>6, <1>7, <1>8 DEF PathOf

\* A change adds one position to those since the last initialization.
OneMore(ev, name, n) ==
    LET before == Changes(ev, name, n)
        after == Changes(ev, name, n + 1)
    IN  /\ after = before \cup {n + 1} /\ n + 1 \notin before
        /\ IsFiniteSet(before)
        /\ Cardinality(before) \in Nat
        /\ Cardinality(after) = Cardinality(before) + 1
        /\ Upto(after, n + 1) = after
        /\ \A i \in before : /\ Upto(after, i) = Upto(before, i)
                             /\ Cardinality(Upto(before, i)) \in 1 .. Cardinality(before)
        /\ FirstValue(ev, name, n + 1) = FirstValue(ev, name, n)

LEMMA ChangeStep ==
    ASSUME NEW ev, NEW name, NEW n \in Nat,
           ev[n + 1].destination_name = name, IsChange(ev[n + 1])
    PROVE  OneMore(ev, name, n)
<1> DEFINE before == Changes(ev, name, n)
           after == Changes(ev, name, n + 1)
           A == At(ev, name, n)
           B == At(ev, name, n + 1)
<1>1. B = A \cup {n + 1}
  BY AtStep
<1>2. \A i \in A : i \in Nat /\ 1 <= i /\ i <= n
  BY AtFacts
<1>3. IsFiniteSet(A)
  BY AtFacts
<1>4. /\ before = {i \in A : \A j \in A : j >= i => IsChange(ev[j])}
      /\ after = {i \in B : \A j \in B : j >= i => IsChange(ev[j])}
  BY DEF Changes
<1>5. Inits(ev, name, n + 1) = Inits(ev, name, n)
  BY <1>1 DEF Inits, IsInit, IsChange
<1> HIDE DEF before, after, A, B
<1>6. before \subseteq A /\ n + 1 \notin A
  <2>1. ~(n + 1 <= n)
    OBVIOUS
  <2> QED
    BY <1>2, <1>4, <2>1
<1>7. after = before \cup {n + 1}
  <2>1. \A j \in A : ~(j >= n + 1)
    BY <1>2
  <2>2. n + 1 \in after
    BY <1>1, <1>4, <2>1
  <2>3. \A i \in A : i \in before <=> i \in after
    BY <1>1, <1>4
  <2>4. after \subseteq A \cup {n + 1}
    BY <1>1, <1>4
  <2> QED
    BY <1>6, <2>2, <2>3, <2>4
<1>8. IsFiniteSet(before) /\ Cardinality(before) \in Nat
  BY <1>3, <1>6, FS_Subset, FS_CardinalityType
<1>9. Cardinality(after) = Cardinality(before) + 1
  BY <1>6, <1>7, <1>8, FS_AddElement
<1>10. Upto(after, n + 1) = after
  <2>1. \A i \in after : i <= n + 1
    BY <1>2, <1>6, <1>7
  <2> QED
    BY <2>1 DEF Upto
<1>11. ASSUME NEW i \in before
       PROVE  /\ Upto(after, i) = Upto(before, i)
              /\ Cardinality(Upto(before, i)) \in 1 .. Cardinality(before)
  <2>1. ~(n + 1 <= i) /\ i <= i
    BY <1>2, <1>6
  <2>2. Upto(after, i) = Upto(before, i)
    BY <1>7, <2>1 DEF Upto
  <2>3. i \in Upto(before, i) /\ Upto(before, i) \in SUBSET before
    BY <2>1 DEF Upto
  <2>4. IsFiniteSet(Upto(before, i)) /\ Cardinality(Upto(before, i)) <= Cardinality(before)
    BY <1>8, <2>3, FS_Subset
  <2>5. Cardinality(Upto(before, i)) \in Nat /\ Cardinality(Upto(before, i)) # 0
    BY <2>3, <2>4, FS_CardinalityType, FS_EmptySet
  <2> QED
    BY <1>8, <2>2, <2>4, <2>5
<1>12. FirstValue(ev, name, n + 1) = FirstValue(ev, name, n)
  BY <1>5 DEF FirstValue
<1> QED
  BY <1>6, <1>7, <1>8, <1>9, <1>10, <1>11, <1>12 DEF before, after, OneMore

LEMMA PathChange ==
    ASSUME NEW ev, NEW name, NEW n \in Nat,
           ev[n + 1].destination_name = name, IsChange(ev[n + 1]),
           DeltaOf(ev[n + 1]) \in Int,
           NEW values \in Seq(Int), PathOf(ev, values, name, n), NEW v,
           v = values[Len(values)] + DeltaOf(ev[n + 1])
    PROVE  PathOf(ev, Append(values, v), name, n + 1)
<1> DEFINE before == Changes(ev, name, n)
           after == Changes(ev, name, n + 1)
           new == Append(values, v)
<1>1. /\ after = before \cup {n + 1} /\ n + 1 \notin before
      /\ Cardinality(before) \in Nat
      /\ Cardinality(after) = Cardinality(before) + 1
      /\ Upto(after, n + 1) = after
      /\ \A i \in before : /\ Upto(after, i) = Upto(before, i)
                           /\ Cardinality(Upto(before, i)) \in 1 .. Cardinality(before)
      /\ FirstValue(ev, name, n + 1) = FirstValue(ev, name, n)
  <2>1. OneMore(ev, name, n)
    BY ChangeStep
  <2> QED
    BY <2>1 DEF OneMore
<1>2. /\ Len(values) = 1 + Cardinality(before)
      /\ values[1] = FirstValue(ev, name, n)
      /\ \A i \in before :
            values[Cardinality(Upto(before, i)) + 1] =
                values[Cardinality(Upto(before, i))] + DeltaOf(ev[i])
  BY DEF PathOf
<1>3. Len(values) \in Nat /\ Len(values) >= 1
  BY <1>1, <1>2
<1>4. v \in Int
  <2>1. values[Len(values)] \in Int
    BY <1>3
  <2> QED
    BY <2>1
<1>5. /\ Len(new) = Len(values) + 1 /\ new[Len(values) + 1] = v
      /\ \A i \in 1 .. Len(values) : new[i] = values[i]
  BY <1>3, <1>4, AppendProperties
<1> HIDE DEF before, after, new
<1>6. Len(new) = 1 + Cardinality(after) /\ new[1] = FirstValue(ev, name, n + 1)
  BY <1>1, <1>2, <1>3, <1>5
<1>7. ASSUME NEW i \in after
      PROVE  new[Cardinality(Upto(after, i)) + 1] =
                new[Cardinality(Upto(after, i))] + DeltaOf(ev[i])
  <2>1. CASE i = n + 1
    <3>1. Upto(after, i) = after
      BY <1>1, <2>1
    <3>2. Cardinality(after) = Len(values)
      BY <1>1, <1>2
    <3> QED
      BY <1>3, <1>5, <2>1, <3>1, <3>2
  <2>2. CASE i \in before
    <3> DEFINE r == Cardinality(Upto(before, i))
    <3>1. r \in 1 .. Cardinality(before) /\ Cardinality(Upto(after, i)) = r
      BY <1>1, <2>2
    <3>2. values[r + 1] = values[r] + DeltaOf(ev[i])
      BY <1>2, <2>2
    <3>3. r \in 1 .. Len(values) /\ r + 1 \in 1 .. Len(values)
      BY <1>1, <1>2, <3>1
    <3> HIDE DEF r
    <3> QED
      BY <1>5, <3>1, <3>2, <3>3
  <2> QED
    BY <1>1, <2>1, <2>2
<1>8. PathOf(ev, new, name, n + 1)
  BY <1>6, <1>7 DEF PathOf, after
<1> QED
  BY <1>8 DEF new

\* Before the first event a counter is zero.
LEMMA PathFirst ==
    ASSUME NEW ev, NEW name, NEW n \in Nat, At(ev, name, n) = {}
    PROVE  PathOf(ev, <<0>>, name, n)
<1>1. Changes(ev, name, n) = {} /\ Inits(ev, name, n) = {}
  BY DEF Changes, Inits
<1>2. Len(<<0>>) = 1 /\ <<0>>[1] = 0
  OBVIOUS
<1>3. Cardinality({}) = 0
  BY FS_EmptySet
<1> QED
  BY <1>1, <1>2, <1>3 DEF PathOf, FirstValue

-----------------------------------------------------------------------------
(* Sums of a function over a finite set. *)

\* One step of the fold, on the sets that are in D.
Folded(f, D, g) ==
    g = [T \in D |-> IF T = {} THEN 0
                     ELSE g[T \ {CHOOSE x \in T : TRUE}] + f[CHOOSE x \in T : TRUE]]

IsFold(f, S, g) == Folded(f, SUBSET S, g)

LEMMA SumFold ==
    ASSUME NEW f, NEW S
    PROVE  Sum(f, S) = (CHOOSE g : IsFold(f, S, g))[S]
  BY DEF Sum, FoldSet, MapThenFoldSet, Folded, IsFold

\* The subsets with at most n elements.
Small(S, n) == {T \in SUBSET S : Cardinality(T) <= n}

LEMMA Smaller ==
    ASSUME NEW S, IsFiniteSet(S), NEW T \in SUBSET S, NEW x \in T
    PROVE  /\ IsFiniteSet(T) /\ Cardinality(T) \in Nat \ {0} /\ Cardinality(T) <= Cardinality(S)
           /\ T \ {x} \in SUBSET S /\ Cardinality(T \ {x}) = Cardinality(T) - 1
<1>1. IsFiniteSet(T) /\ Cardinality(T) <= Cardinality(S)
  BY FS_Subset
<1>2. Cardinality(T) \in Nat /\ Cardinality(T) # 0
  BY <1>1, FS_CardinalityType, FS_EmptySet
<1>3. Cardinality(T \ {x}) = Cardinality(T) - 1
  BY <1>1, FS_RemoveElement
<1> QED
  BY <1>1, <1>2, <1>3

LEMMA SmallFacts ==
    ASSUME NEW S, IsFiniteSet(S)
    PROVE  /\ Small(S, 0) = {{}}
           /\ Small(S, Cardinality(S)) = SUBSET S
<1>1. \A T \in SUBSET S : /\ IsFiniteSet(T) /\ Cardinality(T) <= Cardinality(S)
                          /\ Cardinality(T) \in Nat /\ (Cardinality(T) = 0 <=> T = {})
  BY FS_Subset, FS_CardinalityType, FS_EmptySet
<1>2. \A T \in SUBSET S : Cardinality(T) <= 0 <=> Cardinality(T) = 0
  BY <1>1
<1>3. {} \in SUBSET S
  OBVIOUS
<1>4. Small(S, 0) = {{}}
  BY <1>1, <1>2, <1>3, Zenon DEF Small
<1> QED
  BY <1>1, <1>4 DEF Small

LEMMA FoldsExist ==
    ASSUME NEW f, NEW S, IsFiniteSet(S)
    PROVE  \E g : IsFold(f, S, g)
<1> DEFINE N == Cardinality(S)
           K == {n \in 0 .. N : \E g : Folded(f, Small(S, n), g)}
<1>1. N \in Nat
  BY FS_CardinalityType
<1>2. 0 \in K
  <2> DEFINE g == [T \in {{}} |-> 0]
  <2>1. Folded(f, {{}}, g)
    <3>1. g = [T \in {{}} |-> IF T = {} THEN 0
                     ELSE g[T \ {CHOOSE x \in T : TRUE}] + f[CHOOSE x \in T : TRUE]]
      OBVIOUS
    <3> HIDE DEF g
    <3> QED
      BY <3>1 DEF Folded
  <2>2. Small(S, 0) = {{}}
    BY SmallFacts
  <2>3. Folded(f, Small(S, 0), g)
    BY <2>1, <2>2, Zenon
  <2>4. 0 \in 0 .. N
    BY <1>1
  <2> HIDE DEF g, N
  <2> QED
    BY <2>3, <2>4
<1>3. ASSUME NEW n \in 0 .. N - 1, n \in K
      PROVE  n + 1 \in K
  <2>1. PICK g : Folded(f, Small(S, n), g)
    BY <1>3
  <2> DEFINE body(e, T) == IF T = {} THEN 0
                           ELSE e[T \ {CHOOSE x \in T : TRUE}] + f[CHOOSE x \in T : TRUE]
             h == [T \in Small(S, n + 1) |-> body(g, T)]
  <2>2. g = [T \in Small(S, n) |-> body(g, T)]
    BY <2>1 DEF Folded
  <2>3. \A T \in Small(S, n) : g[T] = body(g, T)
    BY <2>2
  <2>4. Small(S, n) \subseteq Small(S, n + 1)
    <3>1. \A T \in SUBSET S : Cardinality(T) \in Nat
      BY FS_Subset, FS_CardinalityType
    <3> QED
      BY <3>1 DEF Small
  <2>5. \A T \in Small(S, n + 1) : T # {} => T \ {CHOOSE x \in T : TRUE} \in Small(S, n)
    <3>1. SUFFICES ASSUME NEW T \in Small(S, n + 1), T # {}, NEW c, c = CHOOSE x \in T : TRUE
                   PROVE  T \ {c} \in Small(S, n)
      OBVIOUS
    <3>2. c \in T /\ T \in SUBSET S /\ Cardinality(T) <= n + 1
      BY <3>1 DEF Small
    <3>3. Cardinality(T) \in Nat /\ T \ {c} \in SUBSET S /\ Cardinality(T \ {c}) = Cardinality(T) - 1
      BY <3>2, Smaller
    <3>4. Cardinality(T \ {c}) <= n
      BY <3>2, <3>3
    <3> QED
      BY <3>3, <3>4 DEF Small
  <2>6. \A T \in Small(S, n + 1) : h[T] = body(g, T)
    OBVIOUS
  <2>7. \A T \in Small(S, n) : h[T] = g[T]
    BY <2>3, <2>4, <2>6
  <2>8. \A T \in Small(S, n + 1) : body(g, T) = body(h, T)
    <3> HIDE DEF h
    <3> QED
      BY <2>5, <2>7
  <2>9. h = [T \in Small(S, n + 1) |-> body(h, T)]
    <3> DEFINE D == Small(S, n + 1)
    <3>1. h = [T \in D |-> body(g, T)] /\ \A T \in D : body(g, T) = body(h, T)
      BY <2>8
    <3> HIDE DEF h, body, D
    <3> QED
      BY <3>1 DEF D
  <2>10. Folded(f, Small(S, n + 1), h)
    <3> HIDE DEF h
    <3> QED
      BY <2>9 DEF Folded
  <2> HIDE DEF h
  <2>11. n + 1 \in 0 .. N
    BY <1>1
  <2> QED
    BY <2>10, <2>11
<1>4. N \in K
  <2> HIDE DEF N, K
  <2>1. \A n \in 0 .. N : n \in K
    BY <1>1, <1>2, <1>3, Induction
  <2> QED
    BY <1>1, <2>1
<1>5. \E g : Folded(f, Small(S, N), g)
  <2> HIDE DEF N
  <2> QED
    BY <1>4, Zenon
<1>6. Small(S, N) = SUBSET S
  BY SmallFacts
<1> QED
  BY <1>5, <1>6, Zenon DEF IsFold

\* The fold takes some element away.
TakesOne(f, S, g) ==
    /\ g[{}] = 0
    /\ \A T \in SUBSET S : T # {} => \E x \in T : g[T] = g[T \ {x}] + f[x]

LEMMA FoldStep ==
    ASSUME NEW f, NEW S, NEW g, IsFold(f, S, g)
    PROVE  TakesOne(f, S, g)
<1> DEFINE body(T) == IF T = {} THEN 0
                      ELSE g[T \ {CHOOSE x \in T : TRUE}] + f[CHOOSE x \in T : TRUE]
<1>1. g = [T \in SUBSET S |-> body(T)]
  BY DEF Folded, IsFold
<1>2. \A T \in SUBSET S : g[T] = body(T)
  <2> HIDE DEF body
  <2> QED
    BY <1>1
<1>3. {} \in SUBSET S
  OBVIOUS
<1>4. g[{}] = 0
  BY <1>2, <1>3
<1>5. ASSUME NEW T \in SUBSET S, T # {}
      PROVE  \E x \in T : g[T] = g[T \ {x}] + f[x]
  <2>1. (CHOOSE x \in T : TRUE) \in T
    BY <1>5
  <2>2. g[T] = g[T \ {CHOOSE x \in T : TRUE}] + f[CHOOSE x \in T : TRUE]
    BY <1>2, <1>5
  <2> QED
    BY <2>1, <2>2
<1> QED
  BY <1>4, <1>5 DEF TakesOne

\* It could have taken any.
TakesAny(f, S, g) ==
    \A T \in SUBSET S : g[T] \in Int /\ \A x \in T : g[T] = g[T \ {x}] + f[x]

LEMMA FoldAny ==
    ASSUME NEW f, NEW S, IsFiniteSet(S), \A x \in S : f[x] \in Int,
           NEW g, IsFold(f, S, g)
    PROVE  TakesAny(f, S, g)
<1> DEFINE N == Cardinality(S)
           Good(T) == g[T] \in Int /\ \A x \in T : g[T] = g[T \ {x}] + f[x]
           K == {n \in 0 .. N : \A T \in Small(S, n) : Good(T)}
<1>1. N \in Nat
  BY FS_CardinalityType
<1>2. /\ g[{}] = 0
      /\ \A T \in SUBSET S : T # {} => \E x \in T : g[T] = g[T \ {x}] + f[x]
  <2>1. TakesOne(f, S, g)
    BY FoldStep
  <2> QED
    BY <2>1 DEF TakesOne
<1>3. 0 \in K
  <2>1. Good({})
    BY <1>2
  <2>2. Small(S, 0) = {{}}
    BY SmallFacts
  <2>3. 0 \in 0 .. N
    BY <1>1
  <2> HIDE DEF Good, N
  <2> QED
    BY <2>1, <2>2, <2>3
<1>4. ASSUME NEW n \in 0 .. N - 1, n \in K
      PROVE  n + 1 \in K
  <2>1. n + 1 \in 0 .. N /\ n \in Nat
    BY <1>1
  <2>2. \A T \in Small(S, n) : Good(T)
    BY <1>4
  <2>3. ASSUME NEW T \in Small(S, n + 1)
        PROVE  Good(T)
    <3>1. CASE T = {}
      BY <1>2, <3>1
    <3>2. CASE T # {}
      <4>1. T \in SUBSET S /\ Cardinality(T) <= n + 1
        BY DEF Small
      <4>2. \A x \in T : T \ {x} \in Small(S, n)
        <5> SUFFICES ASSUME NEW x \in T PROVE T \ {x} \in Small(S, n)
          OBVIOUS
        <5>1. Cardinality(T) \in Nat /\ T \ {x} \in SUBSET S /\ Cardinality(T \ {x}) = Cardinality(T) - 1
          BY <4>1, Smaller
        <5>2. Cardinality(T \ {x}) <= n
          BY <2>1, <4>1, <5>1
        <5> QED
          BY <5>1, <5>2 DEF Small
      <4>3. PICK c \in T : g[T] = g[T \ {c}] + f[c]
        BY <1>2, <3>2, <4>1
      <4>4. g[T \ {c}] \in Int /\ f[c] \in Int /\ c \in S
        BY <2>2, <4>1, <4>2
      <4>5. ASSUME NEW x \in T
            PROVE  g[T] = g[T \ {x}] + f[x]
        <5>1. CASE x = c
          BY <4>3, <5>1
        <5>2. CASE x # c
          <6> DEFINE V == (T \ {c}) \ {x}
          <6>1. x \in T \ {c} /\ c \in T \ {x} /\ V = (T \ {x}) \ {c}
            BY <5>2
          <6>2. g[T \ {c}] = g[V] + f[x]
            BY <2>2, <4>2, <6>1
          <6>3. g[T \ {x}] = g[V] + f[c]
            <7>1. g[T \ {x}] = g[(T \ {x}) \ {c}] + f[c]
              BY <2>2, <4>2, <6>1
            <7> QED
              BY <6>1, <7>1
          <6>4. f[x] \in Int /\ g[V] \in Int
            <7>1. T \ {c} \in SUBSET S /\ x \in S /\ V \in Small(S, n)
              <8>1. T \ {c} \in Small(S, n) /\ T \ {c} \in SUBSET S
                BY <4>1, <4>2
              <8>2. V \in SUBSET S /\ Cardinality(V) = Cardinality(T \ {c}) - 1
                    /\ Cardinality(T \ {c}) \in Nat
                <9> DEFINE U == T \ {c}
                <9>1. U \in SUBSET S /\ x \in U
                  BY <6>1, <8>1
                <9> HIDE DEF U
                <9>2. /\ U \ {x} \in SUBSET S /\ Cardinality(U \ {x}) = Cardinality(U) - 1
                      /\ Cardinality(U) \in Nat
                  BY <9>1, Smaller
                <9> QED
                  BY <9>2 DEF U
              <8>3. Cardinality(T \ {c}) <= n
                BY <8>1 DEF Small
              <8>4. Cardinality(V) <= n
                BY <2>1, <8>2, <8>3
              <8> QED
                BY <4>1, <8>1, <8>2, <8>4 DEF Small
            <7> QED
              BY <2>2, <7>1
          <6> HIDE DEF V
          <6> QED
            BY <4>3, <4>4, <6>2, <6>3, <6>4
        <5> QED
          BY <5>1, <5>2
      <4>6. g[T] \in Int
        BY <4>3, <4>4
      <4> QED
        BY <4>5, <4>6
    <3> QED
      BY <3>1, <3>2
  <2> HIDE DEF Good, N
  <2> QED
    BY <2>1, <2>3
<1>5. N \in K
  <2> HIDE DEF N, K
  <2>1. \A n \in 0 .. N : n \in K
    BY <1>1, <1>3, <1>4, Induction
  <2> QED
    BY <1>1, <2>1
<1>6. \A T \in Small(S, N) : Good(T)
  <2> HIDE DEF N, Good
  <2> QED
    BY <1>5
<1>7. Small(S, N) = SUBSET S
  BY SmallFacts
<1> QED
  BY <1>6, <1>7 DEF TakesAny

\* Two folds of what is the same on a set are the same on it.
LEMMA FoldsAgree ==
    ASSUME NEW f, NEW S, IsFiniteSet(S), NEW g, IsFold(f, S, g),
           \A x \in S : f[x] \in Int,
           NEW e, NEW R, IsFiniteSet(R), NEW h, IsFold(e, R, h),
           \A x \in R : e[x] \in Int,
           S \subseteq R, \A x \in S : e[x] = f[x]
    PROVE  h[S] = g[S]
<1> DEFINE N == Cardinality(S)
           K == {n \in 0 .. N : \A T \in Small(S, n) : h[T] = g[T]}
<1>1. N \in Nat
  BY FS_CardinalityType
<1>2. /\ g[{}] = 0 /\ h[{}] = 0
      /\ \A T \in SUBSET S : \A x \in T : g[T] = g[T \ {x}] + f[x]
      /\ \A T \in SUBSET R : \A x \in T : h[T] = h[T \ {x}] + e[x]
  <2>1. g[{}] = 0 /\ h[{}] = 0
    BY FoldStep DEF TakesOne
  <2>2. \A T \in SUBSET S : \A x \in T : g[T] = g[T \ {x}] + f[x]
    <3>1. TakesAny(f, S, g)
      BY FoldAny
    <3> QED
      BY <3>1 DEF TakesAny
  <2>3. \A T \in SUBSET R : \A x \in T : h[T] = h[T \ {x}] + e[x]
    <3>1. TakesAny(e, R, h)
      BY FoldAny
    <3> QED
      BY <3>1 DEF TakesAny
  <2> QED
    BY <2>1, <2>2, <2>3
<1>3. 0 \in K
  <2>1. Small(S, 0) = {{}}
    BY SmallFacts
  <2>2. 0 \in 0 .. N
    BY <1>1
  <2> HIDE DEF N
  <2> QED
    BY <1>2, <2>1, <2>2
<1>4. ASSUME NEW n \in 0 .. N - 1, n \in K
      PROVE  n + 1 \in K
  <2>1. n + 1 \in 0 .. N /\ n \in Nat
    BY <1>1
  <2>2. \A T \in Small(S, n) : h[T] = g[T]
    BY <1>4
  <2>3. ASSUME NEW T \in Small(S, n + 1)
        PROVE  h[T] = g[T]
    <3>1. T \in SUBSET S /\ Cardinality(T) <= n + 1
      BY DEF Small
    <3>2. ASSUME T # {}
          PROVE  h[T] = g[T]
      <4>1. PICK x \in T : TRUE
        BY <3>2
      <4> DEFINE U == T \ {x}
      <4>2. Cardinality(T) \in Nat /\ U \in SUBSET S /\ Cardinality(U) = Cardinality(T) - 1
        BY <3>1, Smaller
      <4>3. Cardinality(U) <= n
        BY <2>1, <3>1, <4>2
      <4>4. U \in Small(S, n)
        BY <4>2, <4>3 DEF Small
      <4>5. T \in SUBSET R /\ e[x] = f[x]
        BY <3>1
      <4>6. g[T] = g[U] + f[x] /\ h[T] = h[U] + e[x]
        BY <1>2, <3>1, <4>5
      <4> HIDE DEF U
      <4> QED
        BY <2>2, <4>4, <4>5, <4>6
    <3> QED
      BY <1>2, <3>2
  <2> HIDE DEF N
  <2> QED
    BY <2>1, <2>3
<1>5. N \in K
  <2> HIDE DEF N, K
  <2>1. \A n \in 0 .. N : n \in K
    BY <1>1, <1>3, <1>4, Induction
  <2> QED
    BY <1>1, <2>1
<1>6. Small(S, N) = SUBSET S
  BY SmallFacts
<1>7. S \in Small(S, N)
  BY <1>6
<1>8. \A T \in Small(S, N) : h[T] = g[T]
  <2> HIDE DEF N
  <2> QED
    BY <1>5
<1> QED
  BY <1>7, <1>8

LEMMA SetSumEmpty ==
    ASSUME NEW f
    PROVE  Sum(f, {}) = 0
<1>1. PICK g : IsFold(f, {}, g)
  BY FoldsExist, FS_EmptySet
<1> DEFINE h == CHOOSE e : IsFold(f, {}, e)
<1>2. IsFold(f, {}, h)
  BY <1>1
<1>3. Sum(f, {}) = h[{}]
  BY SumFold
<1> HIDE DEF h
<1> QED
  BY <1>2, <1>3, FoldStep DEF TakesOne

LEMMA SetSumSame ==
    ASSUME NEW f, NEW S, IsFiniteSet(S), \A x \in S : f[x] \in Int,
           NEW e, NEW R, IsFiniteSet(R), NEW h, IsFold(e, R, h),
           \A x \in R : e[x] \in Int,
           S \subseteq R, \A x \in S : e[x] = f[x]
    PROVE  Sum(f, S) = h[S]
<1>1. PICK g : IsFold(f, S, g)
  BY FoldsExist
<1> DEFINE i == CHOOSE k : IsFold(f, S, k)
<1>2. IsFold(f, S, i)
  BY <1>1
<1>3. Sum(f, S) = i[S]
  BY SumFold
<1> HIDE DEF i
<1>4. h[S] = i[S]
  BY <1>2, FoldsAgree
<1> QED
  BY <1>3, <1>4

\* A sum is that of the others and any one element; another function that is
\* the same on the others has the same sum of them.
LEMMA SetSum ==
    ASSUME NEW f, NEW S, IsFiniteSet(S), \A x \in S : f[x] \in Int,
           NEW x \in S, NEW e, \A y \in S \ {x} : e[y] = f[y]
    PROVE  Sum(f, S) = Sum(e, S \ {x}) + f[x]
<1>1. PICK h : IsFold(f, S, h)
  BY FoldsExist
<1>2. Sum(f, S) = h[S]
  BY <1>1, SetSumSame
<1>3. Sum(e, S \ {x}) = h[S \ {x}]
  <2> DEFINE T == S \ {x}
  <2>1. IsFiniteSet(T) /\ T \subseteq S /\ (\A y \in T : e[y] \in Int /\ f[y] = e[y])
    BY FS_Subset
  <2> HIDE DEF T
  <2>2. Sum(e, T) = h[T]
    BY <1>1, <2>1, SetSumSame
  <2> QED
    BY <2>2 DEF T
<1>4. h[S] = h[S \ {x}] + f[x]
  BY <1>1, FoldAny DEF TakesAny
<1> QED
  BY <1>2, <1>3, <1>4

LEMMA SetSumInt ==
    ASSUME NEW f, NEW S, IsFiniteSet(S), \A x \in S : f[x] \in Int
    PROVE  Sum(f, S) \in Int
<1>1. PICK h : IsFold(f, S, h)
  BY FoldsExist
<1>2. Sum(f, S) = h[S]
  BY <1>1, SetSumSame
<1>3. h[S] \in Int
  BY <1>1, FoldAny DEF TakesAny
<1> QED
  BY <1>2, <1>3

LEMMA SetSumEqual ==
    ASSUME NEW f, NEW S, IsFiniteSet(S), \A x \in S : f[x] \in Int,
           NEW e, \A x \in S : e[x] = f[x]
    PROVE  Sum(e, S) = Sum(f, S)
<1>1. PICK h : IsFold(f, S, h)
  BY FoldsExist
<1>2. Sum(f, S) = h[S] /\ Sum(e, S) = h[S]
  BY <1>1, SetSumSame
<1> QED
  BY <1>2

-----------------------------------------------------------------------------
(* What a document makes of the options. *)

IsOptions(opts) ==
    /\ IsFunction(opts) /\ DOMAIN opts = DOMAIN Defaults
    /\ \A k \in DOMAIN Defaults : IsFunction(opts[k]) /\ DOMAIN opts[k] = DOMAIN Defaults[k]

LEMMA StepsFacts ==
    /\ Len(Steps) = 18 /\ DOMAIN Steps = 1 .. 18
    /\ \A i \in 1 .. 18 : Steps[i][2] \in DOMAIN Defaults
    /\ Steps[14] = <<"gauge", "gauge">> /\ Steps[15] = <<"counter", "counter">>
    /\ Steps[16] = <<"timer", "timer">> /\ Steps[17][2] = "dump" /\ Steps[18][2] = "core"
<1>1. Len(Steps) = 18 /\ DOMAIN Steps = 1 .. 18
  BY DEF Steps
<1>2. DOMAIN Defaults = {"statistics", "counter", "gauge", "timer", "dump", "core"}
  BY DEF Defaults
<1>3. /\ Steps[14] = <<"gauge", "gauge">> /\ Steps[15] = <<"counter", "counter">>
      /\ Steps[16] = <<"timer", "timer">> /\ Steps[17][2] = "dump" /\ Steps[18][2] = "core"
  BY DEF Steps
<1>4. /\ Steps[1][2] = "statistics" /\ Steps[2][2] = "gauge" /\ Steps[3][2] = "counter"
      /\ Steps[4][2] = "timer" /\ Steps[5][2] = "gauge" /\ Steps[6][2] = "counter"
      /\ Steps[7][2] = "timer" /\ Steps[8][2] = "dump" /\ Steps[9][2] = "core"
      /\ Steps[10][2] = "statistics" /\ Steps[11][2] = "gauge" /\ Steps[12][2] = "counter"
      /\ Steps[13][2] = "timer"
  BY DEF Steps
<1>5. \A i \in 1 .. 18 : \/ i = 1 \/ i = 2 \/ i = 3 \/ i = 4 \/ i = 5 \/ i = 6 \/ i = 7 \/ i = 8
                         \/ i = 9 \/ i = 10 \/ i = 11 \/ i = 12 \/ i = 13 \/ i = 14 \/ i = 15
                         \/ i = 16 \/ i = 17 \/ i = 18
  OBVIOUS
<1>6. \A i \in 1 .. 18 : Steps[i][2] \in DOMAIN Defaults
  BY <1>2, <1>3, <1>4, <1>5
<1> QED
  BY <1>1, <1>3, <1>6

\* Settings that are given take effect.
TakesEffect(opts, settings, new) ==
    /\ IsFunction(new)
    /\ DOMAIN new = DOMAIN opts \cup DOMAIN settings
    /\ ~Misspelt(settings) => \A f \in DOMAIN settings : new[f] = settings[f]

LEMMA ConfigureFacts ==
    ASSUME NEW opts, NEW settings
    PROVE  TakesEffect(opts, settings, configure(opts, settings))
<1> DEFINE D == DOMAIN opts \cup DOMAIN settings
           new == configure(opts, settings)
           value(f) == IF f \notin DOMAIN settings THEN opts[f]
                       ELSE IF f = "tags" /\ Misspelt(settings) THEN {}
                       ELSE settings[f]
<1>1. new = [f \in D |-> value(f)]
  BY DEF configure
<1>2. ~Misspelt(settings) => \A f \in DOMAIN settings : value(f) = settings[f]
  OBVIOUS
<1>3. DOMAIN settings \subseteq D
  OBVIOUS
<1> HIDE DEF value, new, D
<1>4. DOMAIN new = D
  BY <1>1
<1>5. \A x \in DOMAIN new : new[x] = value(x)
  BY <1>1
<1>6. new = [x \in DOMAIN new |-> new[x]]
  BY <1>1
<1>7. ~Misspelt(settings) => \A f \in DOMAIN settings : new[f] = settings[f]
  BY <1>2, <1>3, <1>4, <1>5
<1> QED
  BY <1>4, <1>6, <1>7 DEF new, D, IsFunction, TakesEffect

LEMMA ConfigureNothing ==
    ASSUME NEW opts, IsFunction(opts)
    PROVE  configure(opts, << >>) = opts
<1>1. DOMAIN << >> = {}
  OBVIOUS
<1>2. configure(opts, << >>) = [f \in DOMAIN opts |-> opts[f]]
  BY <1>1 DEF configure
<1> QED
  BY <1>2 DEF IsFunction

\* A document has settings for what it configures.
IsDocument(document) ==
    /\ DOMAIN document \subseteq {Steps[i][1] : i \in DOMAIN Steps} \cup {"patterns"}
    /\ \A i \in DOMAIN Steps :
        LET section == Steps[i][1]
        IN  section \in DOMAIN document =>
                IsSettings(document[section], DOMAIN Defaults[Steps[i][2]])

IsNext(done, document, section, target, next) ==
    /\ next.ok \in BOOLEAN
    /\ IsOptions(next.options)
    /\ next.ok <=> done.ok /\ (section \in DOMAIN document => ~Misspelt(document[section]))
    /\ \A k \in DOMAIN Defaults \ {target} : next.options[k] = done.options[k]
    /\ next.ok /\ section \in DOMAIN document =>
        \A f \in DOMAIN document[section] : next.options[target][f] = document[section][f]

LEMMA StepFacts ==
    ASSUME NEW done, NEW document, IsDocument(document), NEW i \in 1 .. 18,
           IsOptions(done.options), done.ok \in BOOLEAN
    PROVE  IsNext(done, document, Steps[i][1], Steps[i][2],
                  Step(done, document, Steps[i][1], Steps[i][2]))
<1> DEFINE section == Steps[i][1]
           target == Steps[i][2]
           next == Step(done, document, section, target)
           new == configure(done.options[target], document[section])
<1>1. target \in DOMAIN Defaults
  BY StepsFacts
<1>2. section \in DOMAIN document => IsSettings(document[section], DOMAIN Defaults[target])
  BY StepsFacts DEF IsDocument
<1> HIDE DEF section, target
<1>3. CASE ~done.ok \/ section \notin DOMAIN document
  <2>1. next = done
    BY <1>3 DEF Step
  <2> HIDE DEF next
  <2> QED
    BY <1>3, <2>1 DEF section, target, next, IsNext
<1>4. CASE done.ok /\ section \in DOMAIN document
  <2>1. next = [ok |-> ~Misspelt(document[section]), options |-> [done.options EXCEPT ![target] = new]]
    BY <1>4 DEF Step
  <2>2. /\ IsFunction(new)
        /\ DOMAIN new = DOMAIN done.options[target] \cup DOMAIN document[section]
        /\ ~Misspelt(document[section]) => \A f \in DOMAIN document[section] : new[f] = document[section][f]
    <3>1. TakesEffect(done.options[target], document[section], new)
      BY ConfigureFacts
    <3> QED
      BY <3>1 DEF TakesEffect
  <2>3. DOMAIN new = DOMAIN Defaults[target]
    BY <1>1, <1>2, <1>4, <2>2 DEF IsOptions, IsSettings
  <2> HIDE DEF next, new
  <2>4. /\ IsFunction(next.options) /\ DOMAIN next.options = DOMAIN Defaults
        /\ \A k \in DOMAIN Defaults : next.options[k] = IF k = target THEN new ELSE done.options[k]
    BY <1>1, <2>1 DEF IsOptions, IsFunction
  <2>5. next.ok <=> ~Misspelt(document[section])
    BY <2>1
  <2>6. next.ok \in BOOLEAN
    <3>1. next.ok = ~Misspelt(document[section])
      BY <2>1
    <3> QED
      BY <3>1
  <2>7. IsOptions(next.options)
    BY <2>2, <2>3, <2>4 DEF IsOptions
  <2>8. next.ok => \A f \in DOMAIN document[section] : next.options[target][f] = document[section][f]
    BY <1>1, <2>2, <2>4, <2>5
  <2>9. \A k \in DOMAIN Defaults \ {target} : next.options[k] = done.options[k]
    BY <2>4
  <2> QED
    BY <1>4, <2>5, <2>6, <2>7, <2>8, <2>9 DEF section, target, next, IsNext
<1> QED
  BY <1>3, <1>4

\* The first N steps of Configured.
IsRun(opts, document, N, g) ==
    g = [n \in 0 .. N |->
            IF n = 0 THEN [ok |-> TRUE, options |-> opts]
            ELSE Step(g[n - 1], document, Steps[n][1], Steps[n][2])]

LEMMA RunsExist ==
    ASSUME NEW opts, NEW document, NEW N \in Nat
    PROVE  \E g : IsRun(opts, document, N, g)
<1> DEFINE start == [ok |-> TRUE, options |-> opts]
           body(e, n) == IF n = 0 THEN start
                         ELSE Step(e[n - 1], document, Steps[n][1], Steps[n][2])
           K == {n \in 0 .. N : \E g : IsRun(opts, document, n, g)}
<1>1. 0 \in K
  <2> DEFINE g == [n \in 0 .. 0 |-> start]
  <2>1. g = [n \in 0 .. 0 |-> body(g, n)]
    OBVIOUS
  <2> HIDE DEF g
  <2>2. IsRun(opts, document, 0, g)
    BY <2>1 DEF IsRun
  <2> QED
    BY <2>2
<1>2. ASSUME NEW n \in 0 .. N - 1, n \in K
      PROVE  n + 1 \in K
  <2>1. PICK g : IsRun(opts, document, n, g)
    BY <1>2
  <2>2. g = [m \in 0 .. n |-> body(g, m)]
    BY <2>1 DEF IsRun
  <2> DEFINE h == [m \in 0 .. n + 1 |-> body(g, m)]
  <2>3. \A m \in 0 .. n : g[m] = body(g, m)
    <3> HIDE DEF body
    <3> QED
      BY <2>2
  <2>4. \A m \in 0 .. n + 1 : h[m] = body(g, m)
    OBVIOUS
  <2>5. \A m \in 0 .. n : m \in 0 .. n + 1
    OBVIOUS
  <2>6. \A m \in 0 .. n : h[m] = g[m]
    <3> HIDE DEF body, h
    <3> QED
      BY <2>3, <2>4, <2>5
  <2>7. \A m \in 0 .. n + 1 : m # 0 => m - 1 \in 0 .. n
    OBVIOUS
  <2>8. \A m \in 0 .. n + 1 : body(g, m) = body(h, m)
    <3> HIDE DEF h
    <3> QED
      BY <2>6, <2>7
  <2>9. h = [m \in 0 .. n + 1 |-> body(h, m)]
    <3>1. h = [m \in 0 .. n + 1 |-> body(g, m)]
      OBVIOUS
    <3> HIDE DEF h, body
    <3> QED
      BY <3>1, <2>8
  <2> HIDE DEF h
  <2>10. IsRun(opts, document, n + 1, h)
    BY <2>9 DEF IsRun
  <2>11. n + 1 \in 0 .. N
    OBVIOUS
  <2> QED
    BY <2>10, <2>11
<1>3. N \in K
  <2> HIDE DEF K
  <2>1. \A n \in 0 .. N : n \in K
    BY <1>1, <1>2, Induction
  <2> QED
    BY <2>1
<1> QED
  BY <1>3

NoneMisspelt(document) == \A s \in DOMAIN document \ {"patterns"} : ~Misspelt(document[s])

\* All the fields stay, the run fails if a section is misspelt, and otherwise
\* the section of a kind has the last word.
IsConfigured(document, result) ==
    /\ result.ok \in BOOLEAN
    /\ IsOptions(result.options)
    /\ result.ok <=> NoneMisspelt(document)
    /\ result.ok => \A kind \in DOMAIN document \cap Kinds :
                        \A f \in DOMAIN document[kind] :
                            result.options[kind][f] = document[kind][f]

LEMMA SectionNames == \A i \in 1 .. 18 : Steps[i][1] \notin {"patterns", "attribute"}
<1>1. /\ Steps[1][1] = "statistics" /\ Steps[2][1] = "statistics" /\ Steps[3][1] = "statistics"
      /\ Steps[4][1] = "statistics" /\ Steps[5][1] = "metrics.gauge"
      /\ Steps[6][1] = "metrics.counter" /\ Steps[7][1] = "metrics.timer"
      /\ Steps[8][1] = "metrics-dump" /\ Steps[9][1] = "core"
      /\ Steps[10][1] = "defaults" /\ Steps[11][1] = "defaults" /\ Steps[12][1] = "defaults"
      /\ Steps[13][1] = "defaults" /\ Steps[14][1] = "gauge" /\ Steps[15][1] = "counter"
      /\ Steps[16][1] = "timer" /\ Steps[17][1] = "dump-interval" /\ Steps[18][1] = "enable"
  BY DEF Steps
<1>2. \A i \in 1 .. 18 : \/ i = 1 \/ i = 2 \/ i = 3 \/ i = 4 \/ i = 5 \/ i = 6 \/ i = 7 \/ i = 8
                         \/ i = 9 \/ i = 10 \/ i = 11 \/ i = 12 \/ i = 13 \/ i = 14 \/ i = 15
                         \/ i = 16 \/ i = 17 \/ i = 18
  OBVIOUS
<1> QED
  BY <1>1, <1>2

LEMMA ConfiguredFacts ==
    ASSUME NEW opts, IsOptions(opts), NEW document, IsDocument(document)
    PROVE  IsConfigured(document, Configured(opts, document))
<1> DEFINE r == CHOOSE g : IsRun(opts, document, 18, g)
<1>1. IsRun(opts, document, 18, r)
  BY RunsExist
<1>2. Configured(opts, document) = r[18]
  BY StepsFacts DEF Configured, IsRun
<1> HIDE DEF r
<1> DEFINE sec(n) == Steps[n][1]
           tar(n) == Steps[n][2]
           Fine(n) == sec(n) \in DOMAIN document => ~Misspelt(document[sec(n)])
<1>3. /\ r[0] = [ok |-> TRUE, options |-> opts]
      /\ \A n \in 1 .. 18 : r[n] = Step(r[n - 1], document, sec(n), tar(n))
  <2> DEFINE body(n) == IF n = 0 THEN [ok |-> TRUE, options |-> opts]
                        ELSE Step(r[n - 1], document, Steps[n][1], Steps[n][2])
  <2>1. r = [n \in 0 .. 18 |-> body(n)]
    BY <1>1 DEF IsRun
  <2>2. \A n \in 0 .. 18 : r[n] = body(n)
    <3> HIDE DEF body
    <3> QED
      BY <2>1
  <2>3. 0 \in 0 .. 18 /\ \A n \in 1 .. 18 : n \in 0 .. 18 /\ n # 0
    OBVIOUS
  <2> QED
    BY <2>2, <2>3
<1> DEFINE K == {n \in 0 .. 18 : /\ r[n].ok \in BOOLEAN /\ IsOptions(r[n].options)
                                 /\ r[n].ok <=> \A m \in 1 .. n : Fine(m)}
           Follows(n) == IsNext(r[n - 1], document, sec(n), tar(n), r[n])
<1>4. 0 \in K
  <2>1. r[0].ok = TRUE /\ r[0].options = opts /\ 1 .. 0 = {}
    BY <1>3
  <2>2. r[0].ok \in BOOLEAN /\ IsOptions(r[0].options)
    BY <2>1
  <2> HIDE DEF Fine
  <2>3. r[0].ok <=> \A m \in 1 .. 0 : Fine(m)
    BY <2>1
  <2>4. 0 \in 0 .. 18
    OBVIOUS
  <2> QED
    BY <2>2, <2>3, <2>4
<1>5. ASSUME NEW n \in 1 .. 18, n - 1 \in K
      PROVE  Follows(n)
  <2>1. r[n] = Step(r[n - 1], document, sec(n), tar(n))
    BY <1>3
  <2>2. r[n - 1].ok \in BOOLEAN /\ IsOptions(r[n - 1].options)
    BY <1>5
  <2> QED
    BY <2>1, <2>2, StepFacts
<1>6. ASSUME NEW n \in 0 .. 18 - 1, n \in K
      PROVE  n + 1 \in K
  <2>1. n + 1 \in 1 .. 18 /\ (n + 1) - 1 = n /\ n \in Nat
    OBVIOUS
  <2>2. Follows(n + 1)
    BY <1>5, <1>6, <2>1
  <2>3. /\ r[n + 1].ok \in BOOLEAN /\ IsOptions(r[n + 1].options)
        /\ r[n + 1].ok <=> r[n].ok /\ Fine(n + 1)
    BY <2>1, <2>2 DEF IsNext
  <2>4. r[n].ok <=> \A m \in 1 .. n : Fine(m)
    BY <1>6
  <2>5. \A m : m \in 1 .. n + 1 <=> m \in 1 .. n \/ m = n + 1
    BY <2>1
  <2>6. n + 1 \in 0 .. 18
    OBVIOUS
  <2> HIDE DEF Fine
  <2> QED
    BY <2>3, <2>4, <2>5, <2>6
<1>7. \A n \in 0 .. 18 : n \in K
  <2> HIDE DEF K
  <2> QED
    BY <1>4, <1>6, Induction
<1>8. \A n \in 1 .. 18 : Follows(n)
  <2>1. \A n \in 1 .. 18 : n - 1 \in 0 .. 18
    OBVIOUS
  <2> HIDE DEF K, Follows
  <2> QED
    BY <1>5, <1>7, <2>1
<1>9. r[18].ok \in BOOLEAN /\ IsOptions(r[18].options) /\ (r[18].ok <=> \A m \in 1 .. 18 : Fine(m))
  <2>1. 18 \in K
    BY <1>7
  <2> HIDE DEF Fine
  <2> QED
    BY <2>1
<1>10. (\A m \in 1 .. 18 : Fine(m)) <=> NoneMisspelt(document)
  <2>1. DOMAIN document \subseteq {Steps[i][1] : i \in 1 .. 18} \cup {"patterns"}
    BY StepsFacts DEF IsDocument
  <2> QED
    BY <2>1, SectionNames DEF NoneMisspelt
<1>11. ASSUME r[18].ok, NEW kind \in DOMAIN document \cap Kinds, NEW f \in DOMAIN document[kind]
       PROVE  r[18].options[kind][f] = document[kind][f]
  <2>1. kind # "attribute"
    <3>1. kind \in {Steps[i][1] : i \in 1 .. 18} \cup {"patterns"}
      BY StepsFacts DEF IsDocument
    <3> QED
      BY <3>1, SectionNames
  <2>2. kind \in {"counter", "gauge", "timer"} /\ kind \in DOMAIN Defaults
    BY <2>1 DEF Kinds, Defaults
  <2>3. /\ r[18].ok => r[17].ok
        /\ r[17].ok => r[16].ok
        /\ r[16].ok => r[15].ok
        /\ r[15].ok => r[14].ok
    <3>1. \A n \in 1 .. 18 : r[n].ok => r[n - 1].ok
      BY <1>8 DEF IsNext
    <3> QED
      BY <3>1
  <2>4. \A n \in 1 .. 18 : /\ r[n].ok /\ sec(n) \in DOMAIN document =>
                                \A g \in DOMAIN document[sec(n)] :
                                    r[n].options[tar(n)][g] = document[sec(n)][g]
                           /\ \A k \in DOMAIN Defaults \ {tar(n)} :
                                r[n].options[k] = r[n - 1].options[k]
    BY <1>8 DEF IsNext
  <2>5. /\ kind # tar(18) => r[18].options[kind] = r[17].options[kind]
        /\ kind # tar(17) => r[17].options[kind] = r[16].options[kind]
        /\ kind # tar(16) => r[16].options[kind] = r[15].options[kind]
        /\ kind # tar(15) => r[15].options[kind] = r[14].options[kind]
    <3>1. 18 - 1 = 17 /\ 17 - 1 = 16 /\ 16 - 1 = 15 /\ 15 - 1 = 14
      OBVIOUS
    <3>2. 18 \in 1 .. 18 /\ 17 \in 1 .. 18 /\ 16 \in 1 .. 18 /\ 15 \in 1 .. 18
      OBVIOUS
    <3> QED
      BY <2>2, <2>4, <3>1, <3>2
  <2>6. /\ sec(14) = "gauge" /\ tar(14) = "gauge" /\ sec(15) = "counter" /\ tar(15) = "counter"
        /\ sec(16) = "timer" /\ tar(16) = "timer" /\ tar(17) = "dump" /\ tar(18) = "core"
    BY StepsFacts
  <2> HIDE DEF sec, tar
  <2>7. CASE kind = "timer"
    <3>1. r[16].options[kind][f] = document[kind][f]
      BY <1>11, <2>3, <2>4, <2>6, <2>7
    <3> QED
      BY <2>5, <2>6, <2>7, <3>1
  <2>8. CASE kind = "counter"
    <3>1. r[15].options[kind][f] = document[kind][f]
      BY <1>11, <2>3, <2>4, <2>6, <2>8
    <3> QED
      BY <2>5, <2>6, <2>8, <3>1
  <2>9. CASE kind = "gauge"
    <3>1. r[14].options[kind][f] = document[kind][f]
      BY <1>11, <2>3, <2>4, <2>6, <2>9
    <3> QED
      BY <2>5, <2>6, <2>9, <3>1
  <2> QED
    BY <2>2, <2>7, <2>8, <2>9
<1> HIDE DEF Fine
<1> QED
  BY <1>2, <1>9, <1>10, <1>11 DEF IsConfigured

-----------------------------------------------------------------------------
(* The pattern that counts for a name. *)

Hit(group, name) == \E w \in group.words : fnmatch(w, name)

LEMMA HitFacts ==
    ASSUME NEW groups, NEW name
    PROVE  /\ Matched(groups, name) <=> \E i \in DOMAIN groups : Hit(groups[i], name)
           /\ First(groups, name) = CHOOSE i \in DOMAIN groups :
                    /\ Hit(groups[i], name)
                    /\ \A j \in 1 .. i - 1 : ~Hit(groups[j], name)
<1>1. Matched(groups, name) <=> \E i \in DOMAIN groups : Hit(groups[i], name)
  BY DEF Matched, Hit
<1>2. \A i : (/\ \E w \in groups[i].words : fnmatch(w, name)
              /\ \A j \in 1 .. i - 1 : \A w \in groups[j].words : ~fnmatch(w, name))
         <=> (/\ Hit(groups[i], name)
              /\ \A j \in 1 .. i - 1 : ~Hit(groups[j], name))
  BY DEF Hit
<1>3. First(groups, name) = CHOOSE i \in DOMAIN groups :
                    /\ Hit(groups[i], name)
                    /\ \A j \in 1 .. i - 1 : ~Hit(groups[j], name)
  BY <1>2 DEF First
<1> QED
  BY <1>1, <1>3

LEMMA FirstIs ==
    ASSUME NEW groups, NEW n \in Nat, DOMAIN groups = 1 .. n, NEW name,
           NEW i \in 1 .. n, Hit(groups[i], name), \A j \in 1 .. i - 1 : ~Hit(groups[j], name)
    PROVE  Matched(groups, name) /\ select_pattern(groups, name) = groups[i].settings
<1> DEFINE P(k) == /\ Hit(groups[k], name)
                   /\ \A j \in 1 .. k - 1 : ~Hit(groups[j], name)
           f == First(groups, name)
<1>1. Matched(groups, name)
  BY HitFacts
<1>2. f = CHOOSE k \in DOMAIN groups : P(k)
  BY HitFacts, Zenon
<1>3. i \in DOMAIN groups /\ P(i)
  OBVIOUS
<1>4. f \in DOMAIN groups /\ P(f)
  <2> HIDE DEF P, f
  <2> QED
    BY <1>2, <1>3
<1> HIDE DEF f
<1>5. f = i
  <2>1. f \in 1 .. n /\ Hit(groups[f], name) /\ \A j \in 1 .. f - 1 : ~Hit(groups[j], name)
    BY <1>4
  <2>2. ~(i \in 1 .. f - 1) /\ ~(f \in 1 .. i - 1)
    BY <2>1
  <2> QED
    BY <2>1, <2>2
<1> QED
  BY <1>1, <1>5 DEF select_pattern, f

LEMMA FirstExists ==
    ASSUME NEW groups, NEW n \in Nat, DOMAIN groups = 1 .. n, NEW name, Matched(groups, name)
    PROVE  \E i \in 1 .. n : Hit(groups[i], name) /\ \A j \in 1 .. i - 1 : ~Hit(groups[j], name)
<1> DEFINE S == {i \in 1 .. n : Hit(groups[i], name)}
<1>1. S # {} /\ S \subseteq Nat
  BY HitFacts
<1>2. PICK i \in S : \A y \in S : i <= y
  <2> HIDE DEF S
  <2> QED
    BY <1>1, LeastNatural
<1>3. i \in 1 .. n /\ Hit(groups[i], name)
  OBVIOUS
<1>4. \A j \in 1 .. i - 1 : ~Hit(groups[j], name)
  <2>1. SUFFICES ASSUME NEW j \in 1 .. i - 1, Hit(groups[j], name) PROVE FALSE
    OBVIOUS
  <2>2. j \in S /\ ~(i <= j)
    BY <1>3, <2>1
  <2> QED
    BY <1>2, <2>2
<1> QED
  BY <1>3, <1>4

\* A set with all the numbers below each of its own is an interval.
LEMMA Prefix ==
    ASSUME NEW L \in Nat, NEW A, A \subseteq 1 .. L, \A i \in A : \A j \in 1 .. i : j \in A
    PROVE  \E k \in 0 .. L : A = 1 .. k
<1>1. CASE A = {}
  <2>1. A = 1 .. 0 /\ 0 \in 0 .. L
    BY <1>1
  <2> QED
    BY <2>1
<1>2. CASE A # {}
  <2> DEFINE k == Max(A)
  <2>1. A \subseteq Nat /\ \A n \in A : n <= L
    OBVIOUS
  <2>2. k \in A /\ \A n \in A : n <= k
    BY <1>2, <2>1, MaxOf
  <2> HIDE DEF k
  <2>3. \A n \in A : n \in 1 .. k
    BY <2>2
  <2>4. \A n \in 1 .. k : n \in A
    BY <2>2
  <2>5. A = 1 .. k
    BY <2>3, <2>4
  <2>6. k \in 0 .. L
    BY <2>2
  <2> QED
    BY <2>5, <2>6
<1> QED
  BY <1>1, <1>2

-----------------------------------------------------------------------------
(* What expand_pattern() of src/src/config.cpp makes of any text: it fails *)
(* if and only if a list is not closed, and otherwise the words are those  *)
(* that the pattern means. First, the number of lists around a position.   *)

DepthAfter(pattern, depth, i) ==
    IF i <= 1 THEN 0
    ELSE LET before == depth[i - 1]
         IN  IF pattern[i - 1] = "{" THEN before + 1
             ELSE IF pattern[i - 1] = "}" /\ before > 0 THEN before - 1
             ELSE before

\* The depth up to N.
IsDepth(t, N, g) == g = [i \in 0 .. N |-> DepthAfter(t, g, i)]

LEMMA DepthsExist ==
    ASSUME NEW t, NEW N \in Nat
    PROVE  \E g : IsDepth(t, N, g)
<1> DEFINE K == {n \in 0 .. N : \E g : IsDepth(t, n, g)}
<1>1. 0 \in K
  <2> DEFINE g == [i \in 0 .. 0 |-> 0]
  <2>1. \A i \in 0 .. 0 : DepthAfter(t, g, i) = 0
    BY DEF DepthAfter
  <2>2. g = [i \in 0 .. 0 |-> DepthAfter(t, g, i)]
    BY <2>1
  <2> HIDE DEF g
  <2> QED
    BY <2>2 DEF IsDepth
<1>2. ASSUME NEW n \in 0 .. N - 1, n \in K
      PROVE  n + 1 \in K
  <2>1. PICK g : IsDepth(t, n, g)
    BY <1>2
  <2>2. \A i \in 0 .. n : g[i] = DepthAfter(t, g, i)
    BY <2>1 DEF IsDepth
  <2> DEFINE h == [i \in 0 .. n + 1 |-> DepthAfter(t, g, i)]
  <2>3. \A i \in 0 .. n : h[i] = g[i]
    BY <2>2
  <2>4. \A i \in 0 .. n + 1 : DepthAfter(t, g, i) = DepthAfter(t, h, i)
    <3>1. SUFFICES ASSUME NEW i \in 0 .. n + 1
                   PROVE  DepthAfter(t, g, i) = DepthAfter(t, h, i)
      OBVIOUS
    <3>2. i <= 1 \/ h[i - 1] = g[i - 1]
      <4>1. i <= 1 \/ i - 1 \in 0 .. n
        OBVIOUS
      <4> HIDE DEF h
      <4> QED
        BY <2>3, <4>1
    <3> HIDE DEF h
    <3> QED
      BY <3>2 DEF DepthAfter
  <2>5. h = [i \in 0 .. n + 1 |-> DepthAfter(t, h, i)]
    <3>1. h = [i \in 0 .. n + 1 |-> DepthAfter(t, g, i)]
      OBVIOUS
    <3> HIDE DEF h
    <3> QED
      BY <2>4, <3>1
  <2> HIDE DEF h
  <2> QED
    BY <2>5 DEF IsDepth
<1>3. N \in K
  <2> HIDE DEF K
  <2>1. \A n \in 0 .. N : n \in K
    BY <1>1, <1>2, Induction
  <2> QED
    BY <2>1
<1> QED
  BY <1>3

Opens(t, i) == t[i] = "{"
Closes(t, D, i) == t[i] = "}" /\ D[i] > 0

\* The depth D at the positions of the text t.
DepthOf(t, D) ==
    /\ D[1] = 0
    /\ \A i \in 1 .. Len(t) + 1 : D[i] \in Nat
    /\ \A i \in 1 .. Len(t) :
        /\ Opens(t, i) => D[i + 1] = D[i] + 1
        /\ Closes(t, D, i) => D[i + 1] = D[i] - 1
        /\ ~Opens(t, i) /\ ~Closes(t, D, i) => D[i + 1] = D[i]

LEMMA DepthFacts ==
    ASSUME NEW t \in Seq(Characters)
    PROVE  DepthOf(t, Depth(t))
<1> DEFINE D == Depth(t)
           L == Len(t)
<1>1. L \in Nat
  OBVIOUS
<1>2. D = CHOOSE g : IsDepth(t, L + 1, g)
  BY DEF Depth, IsDepth, DepthAfter
<1>3. IsDepth(t, L + 1, D)
  <2>1. L + 1 \in Nat
    BY <1>1
  <2>2. \E g : IsDepth(t, L + 1, g)
    BY <2>1, DepthsExist
  <2> HIDE DEF D
  <2> QED
    BY <1>2, <2>2
<1> HIDE DEF D
<1>4. \A i \in 0 .. L + 1 : D[i] = DepthAfter(t, D, i)
  BY <1>3 DEF IsDepth
<1>5. D[1] = 0
  <2>1. D[1] = DepthAfter(t, D, 1)
    BY <1>1, <1>4
  <2> QED
    BY <2>1 DEF DepthAfter
<1>6. ASSUME NEW i \in 1 .. L
      PROVE  /\ Opens(t, i) => D[i + 1] = D[i] + 1
             /\ Closes(t, D, i) => D[i + 1] = D[i] - 1
             /\ ~Opens(t, i) /\ ~Closes(t, D, i) => D[i + 1] = D[i]
  <2>1. i + 1 \in 0 .. L + 1 /\ ~(i + 1 <= 1) /\ (i + 1) - 1 = i
    BY <1>1
  <2>2. D[i + 1] = DepthAfter(t, D, i + 1)
    BY <1>4, <2>1
  <2>3. DepthAfter(t, D, i + 1) = IF t[i] = "{" THEN D[i] + 1
                                  ELSE IF t[i] = "}" /\ D[i] > 0 THEN D[i] - 1
                                  ELSE D[i]
    BY <2>1, Zenon DEF DepthAfter
  <2>4. Opens(t, i) => ~Closes(t, D, i)
    BY DEF Opens, Closes
  <2> QED
    BY <2>2, <2>3, <2>4, Zenon DEF Opens, Closes
<1>7. \A i \in 1 .. L + 1 : D[i] \in Nat
  <2> DEFINE K == {n \in 0 .. L : D[n + 1] \in Nat}
  <2>1. 0 \in K
    BY <1>1, <1>5
  <2>2. ASSUME NEW n \in 0 .. L - 1, n \in K
        PROVE  n + 1 \in K
    <3>1. n + 1 \in 1 .. L /\ D[n + 1] \in Nat /\ n + 1 \in 0 .. L
      BY <1>1, <2>2
    <3>2. D[(n + 1) + 1] \in Nat
      <4> DEFINE i == n + 1
      <4>1. i \in 1 .. L /\ D[i] \in Nat
        BY <3>1
      <4> HIDE DEF i
      <4>2. D[i + 1] = D[i] + 1 \/ D[i + 1] = D[i] \/ (D[i] > 0 /\ D[i + 1] = D[i] - 1)
        BY <1>6, <4>1, Zenon DEF Closes
      <4>3. D[i + 1] \in Nat
        BY <4>1, <4>2
      <4> QED
        BY <4>3 DEF i
    <3> QED
      BY <3>1, <3>2
  <2>3. \A n \in 0 .. L : n \in K
    <3> HIDE DEF K
    <3> QED
      BY <1>1, <2>1, <2>2, Induction
  <2>4. \A i \in 1 .. L + 1 : i - 1 \in 0 .. L /\ (i - 1) + 1 = i
    BY <1>1
  <2> QED
    BY <2>3, <2>4
<1> QED
  BY <1>5, <1>6, <1>7 DEF DepthOf, D, L

-----------------------------------------------------------------------------
(* Where lists end. *)

LEMMA DepthNat ==
    ASSUME NEW t \in Seq(Characters)
    PROVE  Len(t) \in Nat /\ \A k \in 1 .. Len(t) + 1 : Depth(t)[k] \in Nat
<1>1. DepthOf(t, Depth(t))
  BY DepthFacts
<1> QED
  BY <1>1 DEF DepthOf

LEMMA DepthStep ==
    ASSUME NEW t \in Seq(Characters), NEW i \in 1 .. Len(t)
    PROVE  /\ Opens(t, i) => Depth(t)[i + 1] = Depth(t)[i] + 1
           /\ Closes(t, Depth(t), i) => Depth(t)[i + 1] = Depth(t)[i] - 1
           /\ ~Opens(t, i) /\ ~Closes(t, Depth(t), i) => Depth(t)[i + 1] = Depth(t)[i]
<1>1. DepthOf(t, Depth(t))
  BY DepthFacts
<1> QED
  BY <1>1 DEF DepthOf

IsClose(t, D, i, j) ==
    /\ j \in i .. Len(t) /\ D[j + 1] < D[i]
    /\ \A k \in i .. j - 1 : D[k + 1] >= D[i]

LEMMA CloseIs ==
    ASSUME NEW t \in Seq(Characters), NEW i \in 1 .. Len(t) + 1, NEW j,
           IsClose(t, Depth(t), i, j)
    PROVE  Close(t, i) = j
<1> DEFINE D == Depth(t)
           L == Len(t)
           c == CHOOSE x : IsClose(t, D, i, x)
<1>1. L \in Nat /\ \A k \in 1 .. L + 1 : D[k] \in Nat
  BY DepthNat
<1>2. Close(t, i) = CHOOSE x \in i .. L : D[x + 1] < D[i] /\ \A k \in i .. x - 1 : D[k + 1] >= D[i]
  BY DEF Close
<1>3. ASSUME NEW x \in i .. L, D[x + 1] < D[i], \A k \in i .. x - 1 : D[k + 1] >= D[i]
      PROVE  x = j
  <2>1. j \in i .. L /\ D[j + 1] < D[i] /\ \A k \in i .. j - 1 : D[k + 1] >= D[i]
    BY DEF IsClose
  <2> HIDE DEF D
  <2>2. D[i] \in Nat /\ D[x + 1] \in Nat /\ D[j + 1] \in Nat
    <3>1. i \in 1 .. L + 1 /\ x + 1 \in 1 .. L + 1 /\ j + 1 \in 1 .. L + 1
      BY <1>1, <2>1
    <3> QED
      BY <1>1, <3>1
  <2>3. ~(x < j)
    <3>1. x < j => x \in i .. j - 1
      BY <1>1, <2>1
    <3> QED
      BY <1>3, <2>1, <2>2, <3>1
  <2>4. ~(j < x)
    <3>1. j < x => j \in i .. x - 1
      BY <1>1, <2>1
    <3> QED
      BY <1>3, <2>1, <2>2, <3>1
  <2> QED
    BY <1>1, <2>1, <2>3, <2>4
<1>4. j \in i .. L /\ D[j + 1] < D[i] /\ \A k \in i .. j - 1 : D[k + 1] >= D[i]
  BY DEF IsClose
<1> HIDE DEF D, L
<1> QED
  BY <1>2, <1>3, <1>4

\* Each list of a pattern ends.
LEMMA CloseExists ==
    ASSUME NEW t \in Seq(Characters), IsPattern(t), NEW i \in 1 .. Len(t) + 1, Depth(t)[i] > 0
    PROVE  IsClose(t, Depth(t), i, Close(t, i))
<1> DEFINE D == Depth(t)
           L == Len(t)
           T == {j \in i .. L : D[j + 1] < D[i]}
<1>1. L \in Nat /\ \A k \in 1 .. L + 1 : D[k] \in Nat
  BY DepthNat
<1>2. D[L + 1] = 0
  BY DEF IsPattern
<1>3. D[i] > 0
  OBVIOUS
<1> HIDE DEF D
<1>4. i <= L
  BY <1>1, <1>2, <1>3
<1>5. L \in T
  BY <1>1, <1>2, <1>3, <1>4
<1>6. T \subseteq Nat
  BY <1>1
<1>7. PICK j \in T : \A m \in T : j <= m
  <2> HIDE DEF T
  <2> QED
    BY <1>5, <1>6, LeastNatural
<1>8. j \in i .. L /\ D[j + 1] < D[i]
  BY <1>7
<1>9. ASSUME NEW k \in i .. j - 1
      PROVE  D[k + 1] >= D[i]
  <2>1. k \in i .. L /\ k < j /\ k \notin T /\ k + 1 \in 1 .. L + 1
    <3>1. k \in i .. L /\ k < j /\ k + 1 \in 1 .. L + 1 /\ j \in Nat /\ k \in Nat
      BY <1>1, <1>8
    <3>2. k \notin T
      <4> HIDE DEF T
      <4>1. ~(j <= k)
        BY <3>1
      <4> QED
        BY <1>7, <4>1
    <3> QED
      BY <3>1, <3>2
  <2>2. D[i] \in Nat /\ D[k + 1] \in Nat
    BY <1>1, <2>1
  <2>3. ~(D[k + 1] < D[i])
    BY <2>1
  <2> QED
    BY <2>2, <2>3
<1>10. IsClose(t, D, i, j)
  BY <1>8, <1>9 DEF IsClose
<1>11. Close(t, i) = j
  BY <1>10, CloseIs DEF D
<1> QED
  BY <1>10, <1>11 DEF D

-----------------------------------------------------------------------------
(* What patterns mean. *)

\* The beginnings of the elements from i on in the list that ends at c.
Separates(t, D, d, m) == t[m] = "," /\ D[m] = d

ElementsUpto(t, D, i, c, d) == {i} \cup {k + 1 : k \in {m \in i .. c : Separates(t, D, d, m)}}

Leaves(t, i) == t[i] \in {",", "}"} /\ Depth(t)[i] > 0

WordsAt(t, words, i) ==
    IF i > Len(t) THEN {<< >>}
    ELSE IF Opens(t, i) THEN UNION {words[j] : j \in Elements(t, i)}
    ELSE IF Leaves(t, i) THEN words[Close(t, i) + 1]
    ELSE {<<t[i]>> \o w : w \in words[i + 1]}

\* The list that begins at i.
LEMMA ElementsIs ==
    ASSUME NEW t \in Seq(Characters), IsPattern(t), NEW i \in 1 .. Len(t), Opens(t, i)
    PROVE  /\ IsClose(t, Depth(t), i + 1, Close(t, i + 1))
           /\ Depth(t)[i + 1] = Depth(t)[i] + 1
           /\ Elements(t, i) = ElementsUpto(t, Depth(t), i + 1, Close(t, i + 1), Depth(t)[i + 1])
           /\ Elements(t, i) \subseteq i + 1 .. Len(t) + 1
<1> DEFINE D == Depth(t)
           L == Len(t)
           c == Close(t, i + 1)
<1>1. L \in Nat /\ D[i] \in Nat /\ D[i + 1] = D[i] + 1 /\ i \in 1 .. L
  <2>1. L \in Nat /\ \A k \in 1 .. L + 1 : D[k] \in Nat
    BY DepthNat
  <2>2. D[i + 1] = D[i] + 1
    BY DepthStep
  <2> HIDE DEF D
  <2> QED
    BY <2>1, <2>2
<1>2. i + 1 \in 1 .. L + 1
  BY <1>1
<1>3. IsClose(t, D, i + 1, c)
  <2>1. D[i + 1] > 0
    BY <1>1
  <2> QED
    BY <1>2, <2>1, CloseExists
<1>4. c \in i + 1 .. L
  BY <1>3 DEF IsClose
<1>5. Elements(t, i) = ElementsUpto(t, D, i + 1, c, D[i + 1])
  BY DEF Elements, ElementsUpto, Separates
<1> HIDE DEF D, c
<1>6. ElementsUpto(t, D, i + 1, c, D[i + 1]) \subseteq i + 1 .. L + 1
  BY <1>1, <1>4 DEF ElementsUpto
<1> QED
  BY <1>1, <1>3, <1>5, <1>6 DEF D, c

LEMMA WordsAtSame ==
    ASSUME NEW t \in Seq(Characters), IsPattern(t), NEW i \in 1 .. Len(t) + 1, NEW g, NEW h,
           \A j \in i + 1 .. Len(t) + 1 : g[j] = h[j]
    PROVE  WordsAt(t, g, i) = WordsAt(t, h, i)
<1>1. Len(t) \in Nat
  OBVIOUS
<1>2. CASE i > Len(t)
  BY <1>2 DEF WordsAt
<1>3. CASE i \in 1 .. Len(t) /\ Opens(t, i)
  <2>1. Elements(t, i) \subseteq i + 1 .. Len(t) + 1
    BY <1>3, ElementsIs
  <2>2. UNION {g[j] : j \in Elements(t, i)} = UNION {h[j] : j \in Elements(t, i)}
    BY <2>1
  <2> QED
    BY <1>1, <1>3, <2>2 DEF WordsAt
<1>4. CASE i \in 1 .. Len(t) /\ ~Opens(t, i) /\ Leaves(t, i)
  <2>1. IsClose(t, Depth(t), i, Close(t, i))
    BY <1>1, <1>4, CloseExists DEF Leaves
  <2>2. Close(t, i) + 1 \in i + 1 .. Len(t) + 1
    BY <1>1, <1>4, <2>1 DEF IsClose
  <2> QED
    BY <1>1, <1>4, <2>2 DEF WordsAt
<1>5. CASE i \in 1 .. Len(t) /\ ~Opens(t, i) /\ ~Leaves(t, i)
  <2>1. g[i + 1] = h[i + 1]
    BY <1>1, <1>5
  <2>2. ~(i > Len(t)) /\ ~Opens(t, i) /\ ~Leaves(t, i)
    BY <1>1, <1>5
  <2>3. /\ WordsAt(t, g, i) = {<<t[i]>> \o w : w \in g[i + 1]}
        /\ WordsAt(t, h, i) = {<<t[i]>> \o w : w \in h[i + 1]}
    BY <2>2, Zenon DEF WordsAt
  <2> QED
    BY <2>1, <2>3
<1> QED
  BY <1>1, <1>2, <1>3, <1>4, <1>5

\* The words from the last N positions on.
IsWords(t, N, g) == g = [i \in (Len(t) + 1) - N .. Len(t) + 1 |-> WordsAt(t, g, i)]

LEMMA WordsExist ==
    ASSUME NEW t \in Seq(Characters), IsPattern(t)
    PROVE  \E g : IsWords(t, Len(t), g)
<1> DEFINE L == Len(t)
           K == {n \in 0 .. L : \E g : IsWords(t, n, g)}
<1>1. L \in Nat
  OBVIOUS
<1>2. 0 \in K
  <2> DEFINE g == [i \in (L + 1) - 0 .. L + 1 |-> {<< >>}]
  <2>1. \A i \in (L + 1) - 0 .. L + 1 : WordsAt(t, g, i) = {<< >>}
    BY <1>1 DEF WordsAt
  <2>2. g = [i \in (L + 1) - 0 .. L + 1 |-> WordsAt(t, g, i)]
    BY <2>1
  <2> HIDE DEF g
  <2>3. IsWords(t, 0, g)
    BY <2>2 DEF IsWords
  <2> QED
    BY <1>1, <2>3
<1>3. ASSUME NEW n \in 0 .. L - 1, n \in K
      PROVE  n + 1 \in K
  <2> DEFINE from == (L + 1) - n
             I == from .. L + 1
             J == (L + 1) - (n + 1) .. L + 1
  <2>1. PICK g : IsWords(t, n, g)
    BY <1>3
  <2>2. \A i \in I : g[i] = WordsAt(t, g, i)
    BY <2>1 DEF IsWords
  <2> DEFINE h == [i \in J |-> WordsAt(t, g, i)]
  <2>3. \A i \in I : i \in J
    BY <1>1
  <2>4. \A i \in I : h[i] = g[i]
    <3>1. \A i \in J : h[i] = WordsAt(t, g, i)
      OBVIOUS
    <3> HIDE DEF h
    <3> QED
      BY <2>2, <2>3, <3>1
  <2>5. ASSUME NEW i \in J
        PROVE  WordsAt(t, g, i) = WordsAt(t, h, i)
    <3>1. i \in 1 .. L + 1 /\ \A j \in i + 1 .. L + 1 : j \in I
      BY <1>1
    <3> HIDE DEF h, I, J
    <3>2. \A j \in i + 1 .. L + 1 : g[j] = h[j]
      BY <2>4, <3>1
    <3> QED
      BY <3>1, <3>2, WordsAtSame
  <2>6. h = [i \in J |-> WordsAt(t, h, i)]
    <3>1. h = [i \in J |-> WordsAt(t, g, i)]
      OBVIOUS
    <3> HIDE DEF h
    <3> QED
      BY <2>5, <3>1
  <2> HIDE DEF h
  <2>7. IsWords(t, n + 1, h)
    BY <2>6 DEF IsWords
  <2>8. n + 1 \in 0 .. L
    BY <1>1
  <2> QED
    BY <2>7, <2>8
<1>4. L \in K
  <2> HIDE DEF K
  <2>1. \A n \in 0 .. L : n \in K
    BY <1>1, <1>2, <1>3, Induction
  <2> QED
    BY <1>1, <2>1
<1> QED
  BY <1>4

\* The words W from the positions of the text on.
WordsFrom(t, W) ==
    /\ Words(t) = W[1]
    /\ \A i \in 1 .. Len(t) + 1 : W[i] = WordsAt(t, W, i)

LEMMA WordsFacts ==
    ASSUME NEW t \in Seq(Characters), IsPattern(t)
    PROVE  \E W : WordsFrom(t, W)
<1> DEFINE W == CHOOSE g : IsWords(t, Len(t), g)
<1>1. Len(t) \in Nat /\ (Len(t) + 1) - Len(t) = 1
  OBVIOUS
<1>2. IsWords(t, Len(t), W)
  BY WordsExist
<1>3. \A g : IsWords(t, Len(t), g) <=> g = [i \in 1 .. Len(t) + 1 |-> WordsAt(t, g, i)]
  BY <1>1 DEF IsWords
<1>4. Words(t) = W[1]
  <2>1. W = CHOOSE g : g = [i \in 1 .. Len(t) + 1 |-> WordsAt(t, g, i)]
    BY <1>3
  <2> HIDE DEF W
  <2> QED
    BY <2>1 DEF Words, WordsAt, Opens, Leaves
<1> HIDE DEF W
<1>5. \A i \in 1 .. Len(t) + 1 : W[i] = WordsAt(t, W, i)
  <2>1. W = [i \in 1 .. Len(t) + 1 |-> WordsAt(t, W, i)]
    BY <1>2, <1>3
  <2> QED
    BY <2>1
<1> QED
  BY <1>4, <1>5 DEF WordsFrom

-----------------------------------------------------------------------------
(* The characters that end a preamble. *)

AtEnd(t, i) == Char(t, i) = "end"
AtOpen(t, i) == Char(t, i) = "{"
AtClose(t, i) == Char(t, i) = "}"
AtComma(t, i) == Char(t, i) = ","

\* What is at a position of the text.
CharacterAt(t, i) ==
    /\ AtEnd(t, i) <=> i = Len(t) + 1
    /\ ~(AtOpen(t, i) /\ AtClose(t, i)) /\ ~(AtOpen(t, i) /\ AtComma(t, i))
    /\ ~(AtClose(t, i) /\ AtComma(t, i))
    /\ AtOpen(t, i) <=> i <= Len(t) /\ Opens(t, i)
    /\ i <= Len(t) => (Closes(t, Depth(t), i) <=> AtClose(t, i) /\ Depth(t)[i] > 0)
    /\ i <= Len(t) => (Leaves(t, i) <=> (AtComma(t, i) \/ AtClose(t, i)) /\ Depth(t)[i] > 0)
    /\ \A d : i <= Len(t) => (Separates(t, Depth(t), d, i) <=> AtComma(t, i) /\ Depth(t)[i] = d)
    /\ AtComma(t, i) \/ AtClose(t, i) => i <= Len(t)

LEMMA CharacterFacts ==
    ASSUME NEW t \in Seq(Characters), NEW i \in 1 .. Len(t) + 1
    PROVE  CharacterAt(t, i)
<1>1. Len(t) \in Nat /\ i \in Nat
  OBVIOUS
<1>2. CASE i \in 1 .. Len(t)
  <2>1. i <= Len(t) /\ i # Len(t) + 1
    BY <1>1, <1>2
  <2>2. Char(t, i) = t[i]
    BY <2>1, Zenon DEF Char
  <2>3. t[i] \in Characters
    BY <1>2
  <2>4. t[i] # "end"
    BY <2>3 DEF Characters
  <2>5. "{" # "}" /\ "{" # "," /\ "}" # ","
    OBVIOUS
  <2> QED
    BY <2>1, <2>2, <2>4, <2>5, Zenon
       DEF CharacterAt, AtEnd, AtOpen, AtClose, AtComma, Opens, Closes, Leaves, Separates
<1>3. CASE i = Len(t) + 1
  <2>1. ~(i <= Len(t))
    BY <1>1, <1>3
  <2>2. Char(t, i) = "end"
    BY <2>1, Zenon DEF Char
  <2>3. "end" # "{" /\ "end" # "}" /\ "end" # ","
    OBVIOUS
  <2> QED
    BY <1>3, <2>1, <2>2, <2>3, Zenon DEF CharacterAt, AtEnd, AtOpen, AtClose, AtComma
<1> QED
  BY <1>1, <1>2, <1>3

\* A preamble ends at e.
Stops(t, i, nested) ==
    AtEnd(t, i) \/ AtOpen(t, i) \/ (nested /\ (AtComma(t, i) \/ AtClose(t, i)))

PreambleEnds(t, pos, nested, e) ==
    /\ e \in pos .. Len(t) + 1 /\ Stops(t, e, nested)
    /\ \A j \in pos .. e - 1 : ~Stops(t, j, nested)

LEMMA Preamble ==
    ASSUME NEW t \in Seq(Characters), NEW pos \in 1 .. Len(t) + 1, NEW nested \in BOOLEAN
    PROVE  PreambleEnds(t, pos, nested, preamble_end(t, pos, nested))
<1> DEFINE L == Len(t)
           T == {i \in pos .. L + 1 : Stops(t, i, nested)}
<1>1. L \in Nat
  OBVIOUS
<1>2. L + 1 \in T
  <2>1. AtEnd(t, L + 1)
    BY <1>1, CharacterFacts DEF CharacterAt
  <2> QED
    BY <1>1, <2>1 DEF Stops
<1>3. PICK e \in T : \A m \in T : e <= m
  <2>1. T \subseteq Nat
    BY <1>1
  <2> HIDE DEF T
  <2> QED
    BY <1>2, <2>1, LeastNatural
<1>4. \A j \in pos .. e - 1 : ~Stops(t, j, nested)
  <2>1. SUFFICES ASSUME NEW j \in pos .. e - 1, Stops(t, j, nested) PROVE FALSE
    OBVIOUS
  <2>2. e \in pos .. L + 1
    BY <1>3
  <2>3. j \in T
    BY <1>1, <2>1, <2>2
  <2>4. e <= j
    BY <1>3, <2>3
  <2> QED
    BY <1>1, <2>2, <2>4
<1>5. \A i : Stops(t, i, nested) <=> Char(t, i) \in Ends(nested)
  <2>1. CASE nested = TRUE
    BY <2>1, Zenon DEF Stops, Ends, AtEnd, AtOpen, AtComma, AtClose
  <2>2. CASE nested = FALSE
    BY <2>2, Zenon DEF Stops, Ends, AtEnd, AtOpen, AtComma, AtClose
  <2> QED
    BY <2>1, <2>2
<1>6. \E i : PreambleEnds(t, pos, nested, i)
  BY <1>3, <1>4 DEF PreambleEnds
<1>7. preamble_end(t, pos, nested) = CHOOSE i : PreambleEnds(t, pos, nested, i)
  <2>1. \A i : PreambleEnds(t, pos, nested, i) <=>
                 /\ i \in pos .. Len(t) + 1
                 /\ Char(t, i) \in Ends(nested)
                 /\ \A j \in pos .. i - 1 : Char(t, j) \notin Ends(nested)
    BY <1>5, Zenon DEF PreambleEnds
  <2>2. preamble_end(t, pos, nested) =
          CHOOSE i : /\ i \in pos .. Len(t) + 1
                     /\ Char(t, i) \in Ends(nested)
                     /\ \A j \in pos .. i - 1 : Char(t, j) \notin Ends(nested)
    BY DEF preamble_end
  <2> QED
    BY <2>1, <2>2
<1> QED
  BY <1>6, <1>7, Zenon

\* No list begins or ends before e.
Plain(t, pos, e) ==
    \A j \in pos .. e - 1 :
        Depth(t)[j] = Depth(t)[pos] => ~Opens(t, j) /\ ~Closes(t, Depth(t), j)

LEMMA PlainDepth ==
    ASSUME NEW t \in Seq(Characters), NEW pos \in 1 .. Len(t) + 1, NEW e \in pos .. Len(t) + 1,
           Plain(t, pos, e)
    PROVE  \A j \in pos .. e : Depth(t)[j] = Depth(t)[pos]
<1> DEFINE D == Depth(t)
           N == e - pos
           K == {n \in 0 .. N : D[pos + n] = D[pos]}
<1>1. Len(t) \in Nat /\ N \in Nat /\ pos \in Nat
  OBVIOUS
<1>2. 0 \in K
  BY <1>1
<1>3. ASSUME NEW n \in 0 .. N - 1, n \in K
      PROVE  n + 1 \in K
  <2> DEFINE j == pos + n
  <2>1. j \in pos .. e - 1 /\ j \in 1 .. Len(t) /\ D[j] = D[pos] /\ j + 1 = pos + (n + 1)
    BY <1>1, <1>3
  <2> HIDE DEF j, D
  <2>2. ~Opens(t, j) /\ ~Closes(t, Depth(t), j)
    BY <2>1 DEF Plain, D
  <2>3. D[j + 1] = D[j]
    BY <2>1, <2>2, DepthStep DEF D
  <2> QED
    BY <1>1, <2>1, <2>3
<1>4. \A n \in 0 .. N : n \in K
  <2> HIDE DEF K, N
  <2> QED
    BY <1>1, <1>2, <1>3, Induction
<1>5. \A j \in pos .. e : j - pos \in 0 .. N /\ pos + (j - pos) = j
  BY <1>1
<1> HIDE DEF D
<1>6. \A n \in 0 .. N : D[pos + n] = D[pos]
  BY <1>4
<1>7. ASSUME NEW j \in pos .. e
      PROVE  D[j] = D[pos]
  <2>1. j - pos \in 0 .. N /\ pos + (j - pos) = j
    BY <1>5
  <2>2. D[pos + (j - pos)] = D[pos]
    BY <1>6, <2>1
  <2> QED
    BY <2>1, <2>2
<1> QED
  BY <1>7 DEF D

-----------------------------------------------------------------------------
(* The results of the calls. *)

CallKinds == {"pattern", "element", "list"}

\* What a call yields, if not the failure: words, and a position that is not
\* before the place; behind the last element of a list there is a brace.
TypedWords(t, part, pos, words, end) ==
    /\ words \subseteq Seq(Characters)
    /\ end \in pos .. Len(t) + 1
    /\ part = "list" => end <= Len(t)

Typed(t, part, pos, r) ==
    r = Failed \/ \E words, end : r = Expansion(words, end) /\ TypedWords(t, part, pos, words, end)

LEMMA ExpansionFields ==
    ASSUME NEW words, NEW end
    PROVE  /\ Expansion(words, end).ok = TRUE /\ Expansion(words, end).words = words
           /\ Expansion(words, end).pos = end
           /\ Failed.ok = FALSE
<1> DEFINE yes == TRUE
           no == FALSE
<1>1. Expansion(words, end) = [ok |-> yes, words |-> words, pos |-> end] /\ Failed = [ok |-> no]
  BY DEF Expansion, Failed
<1> HIDE DEF yes, no
<1>2. /\ Expansion(words, end).ok = yes /\ Expansion(words, end).words = words
      /\ Expansion(words, end).pos = end /\ Failed.ok = no
  BY <1>1
<1> QED
  BY <1>2, Zenon DEF yes, no

LEMMA TypedFields ==
    ASSUME NEW t, NEW part, NEW pos, NEW r, Typed(t, part, pos, r)
    PROVE  /\ r.ok \in BOOLEAN
           /\ r.ok => r = Expansion(r.words, r.pos) /\ TypedWords(t, part, pos, r.words, r.pos)
           /\ ~r.ok => r = Failed
<1>1. CASE r = Failed
  <2>1. r.ok = FALSE
    BY <1>1, ExpansionFields, Zenon
  <2> QED
    BY <1>1, <2>1, Zenon
<1>2. CASE r # Failed
  <2>1. PICK words, end : r = Expansion(words, end) /\ TypedWords(t, part, pos, words, end)
    BY <1>2, Zenon DEF Typed
  <2>2. r.ok = TRUE /\ r.words = words /\ r.pos = end
    BY <2>1, ExpansionFields, Zenon
  <2> QED
    BY <2>1, <2>2, Zenon
<1> QED
  BY <1>1, <1>2, Zenon

InTurn(u, w, v) == u \o w \o v
Through(u, A, B) == {InTurn(u, w, v) : w \in A, v \in B}

LEMMA ThroughIn ==
    ASSUME NEW S, NEW u \in Seq(S), NEW A, A \subseteq Seq(S), NEW B, B \subseteq Seq(S)
    PROVE  Through(u, A, B) \subseteq Seq(S)
<1>1. SUFFICES ASSUME NEW x \in Through(u, A, B) PROVE x \in Seq(S)
  OBVIOUS
<1>2. PICK w \in A, v \in B : x = InTurn(u, w, v)
  BY <1>1 DEF Through
<1>3. u \o w \in Seq(S) /\ v \in Seq(S)
  OBVIOUS
<1>4. (u \o w) \o v \in Seq(S)
  <2> DEFINE y == u \o w
  <2>1. y \in Seq(S)
    BY <1>3
  <2> HIDE DEF y
  <2>2. y \o v \in Seq(S)
    BY <1>3, <2>1
  <2> QED
    BY <2>2 DEF y
<1> QED
  BY <1>2, <1>4 DEF InTurn

\* The three ways of expand().
Expands(t, pos, end, list, postscript, r) ==
    /\ ~AtOpen(t, end) => r = Expansion({SubSeq(t, pos, end - 1)}, end)
    /\ AtOpen(t, end) /\ (~list.ok \/ ~postscript.ok) => r = Failed
    /\ AtOpen(t, end) /\ list.ok /\ postscript.ok =>
        r = Expansion(Through(SubSeq(t, pos, end - 1), list.words, postscript.words),
                      postscript.pos)

EndOf(t, part, pos) == preamble_end(t, pos, part = "element")
EndsAt(t, part, pos, end) == PreambleEnds(t, pos, part = "element", end)

LEMMA ExpandIs ==
    ASSUME NEW t \in Seq(Characters), NEW part, NEW pos \in 1 .. Len(t) + 1, NEW g,
           NEW end, end = EndOf(t, part, pos),
           NEW list, list = g[<<"list", end + 1>>],
           NEW postscript, postscript = g[<<part, list.pos + 1>>]
    PROVE  /\ EndsAt(t, part, pos, end)
           /\ Expands(t, pos, end, list, postscript, expand(t, part, pos, g))
<1> DEFINE words == Through(SubSeq(t, pos, end - 1), list.words, postscript.words)
           r == expand(t, part, pos, g)
<1>1. EndsAt(t, part, pos, end)
  <2>1. (part = "element") \in BOOLEAN
    BY Zenon
  <2> QED
    BY <2>1, Preamble, Zenon DEF EndOf, EndsAt
<1>2. r = IF Char(t, end) # "{" THEN Expansion({SubSeq(t, pos, end - 1)}, end)
          ELSE IF ~list.ok \/ ~postscript.ok THEN Failed
          ELSE Expansion(words, postscript.pos)
  BY DEF expand, Through, InTurn, EndOf
<1> HIDE DEF r, words
<1>3. ~AtOpen(t, end) => r = Expansion({SubSeq(t, pos, end - 1)}, end)
  BY <1>2, Zenon DEF AtOpen
<1>4. AtOpen(t, end) /\ (~list.ok \/ ~postscript.ok) => r = Failed
  BY <1>2, Zenon DEF AtOpen
<1>5. AtOpen(t, end) /\ list.ok /\ postscript.ok => r = Expansion(words, postscript.pos)
  BY <1>2, Zenon DEF AtOpen
<1>6. Expands(t, pos, end, list, postscript, r)
  BY <1>3, <1>4, <1>5, Zenon DEF Expands, words
<1> QED
  BY <1>1, <1>6 DEF r

\* The five ways of expand_list().
ListExpands(t, first, rest, r) ==
    /\ ~first.ok => r = Failed
    /\ first.ok /\ AtClose(t, first.pos) => r = first
    /\ first.ok /\ ~AtClose(t, first.pos) /\ ~AtComma(t, first.pos) => r = Failed
    /\ first.ok /\ ~AtClose(t, first.pos) /\ AtComma(t, first.pos) /\ ~rest.ok => r = Failed
    /\ first.ok /\ ~AtClose(t, first.pos) /\ AtComma(t, first.pos) /\ rest.ok =>
        r = Expansion(first.words \cup rest.words, rest.pos)

LEMMA ListIs ==
    ASSUME NEW t, NEW pos, NEW g, NEW first, first = g[<<"element", pos>>],
           NEW rest, rest = g[<<"list", first.pos + 1>>]
    PROVE  ListExpands(t, first, rest, expand_list(t, pos, g))
<1> DEFINE r == expand_list(t, pos, g)
<1>1. r = IF ~first.ok THEN Failed
          ELSE IF Char(t, first.pos) = "}" THEN first
          ELSE IF Char(t, first.pos) # "," \/ ~rest.ok THEN Failed
          ELSE Expansion(first.words \cup rest.words, rest.pos)
  BY Zenon DEF expand_list
<1> HIDE DEF r
<1>2. ListExpands(t, first, rest, r)
  BY <1>1, Zenon DEF ListExpands, AtClose, AtComma
<1> QED
  BY <1>2 DEF r

-----------------------------------------------------------------------------
(* The results exist, since each call is made from one that is before it in *)
(* the text, or that is for the list that begins with the element.         *)

\* The results g and h are the same behind pos.
Agree(t, pos, g, h) ==
    \A part \in CallKinds, j \in pos + 1 .. Len(t) + 1 :
        g[<<part, j>>] = h[<<part, j>>] /\ Typed(t, part, j, g[<<part, j>>])

LEMMA ExpandSame ==
    ASSUME NEW t \in Seq(Characters), NEW part \in CallKinds \ {"list"}, NEW pos \in 1 .. Len(t) + 1,
           NEW g, NEW h, Agree(t, pos, g, h)
    PROVE  /\ expand(t, part, pos, g) = expand(t, part, pos, h)
           /\ Typed(t, part, pos, expand(t, part, pos, g))
<1> DEFINE r == expand(t, part, pos, g)
           s == expand(t, part, pos, h)
           L == Len(t)
<1>1. L \in Nat
  OBVIOUS
<1>2. PICK end : end = EndOf(t, part, pos)
  OBVIOUS
<1>3. PICK list : list = g[<<"list", end + 1>>]
  OBVIOUS
<1>4. PICK postscript : postscript = g[<<part, list.pos + 1>>]
  OBVIOUS
<1>5. PICK list_ : list_ = h[<<"list", end + 1>>]
  OBVIOUS
<1>6. PICK postscript_ : postscript_ = h[<<part, list_.pos + 1>>]
  OBVIOUS
<1>7. /\ EndsAt(t, part, pos, end)
      /\ Expands(t, pos, end, list, postscript, r) /\ Expands(t, pos, end, list_, postscript_, s)
  <2>1. EndsAt(t, part, pos, end) /\ Expands(t, pos, end, list, postscript, r)
    BY <1>2, <1>3, <1>4, ExpandIs, Zenon
  <2>2. Expands(t, pos, end, list_, postscript_, s)
    BY <1>2, <1>5, <1>6, ExpandIs, Zenon
  <2> QED
    BY <2>1, <2>2
<1> HIDE DEF r, s
<1>8. end \in pos .. L + 1
  BY <1>7 DEF EndsAt, PreambleEnds
<1>9. part \in CallKinds /\ "list" \in CallKinds /\ part # "list"
  BY DEF CallKinds
<1>10. SubSeq(t, pos, end - 1) \in Seq(Characters)
  <2>1. \A i \in pos .. end - 1 : i \in 1 .. L
    BY <1>1, <1>8
  <2>2. \A i \in pos .. end - 1 : t[i] \in Characters
    BY <2>1
  <2>3. pos \in Int /\ end - 1 \in Int
    BY <1>1, <1>8
  <2> QED
    BY <2>2, <2>3, SubSeqProperties
<1>11. CASE ~AtOpen(t, end)
  <2>1. r = Expansion({SubSeq(t, pos, end - 1)}, end) /\ s = r
    BY <1>7, <1>11 DEF Expands
  <2>2. TypedWords(t, part, pos, {SubSeq(t, pos, end - 1)}, end)
    BY <1>8, <1>9, <1>10 DEF TypedWords
  <2> QED
    BY <2>1, <2>2, Zenon DEF Typed, r, s
<1>12. CASE AtOpen(t, end)
  <2>1. end \in 1 .. L
    BY <1>1, <1>8, <1>12, CharacterFacts DEF CharacterAt
  <2>2. end + 1 \in pos + 1 .. L + 1
    BY <1>1, <1>8, <2>1
  <2>3. list_ = list /\ Typed(t, "list", end + 1, list)
    BY <1>3, <1>5, <1>9, <2>2 DEF Agree
  <2>4. CASE ~list.ok
    BY <1>7, <1>12, <2>3, <2>4, Zenon DEF Expands, Typed, r, s
  <2>5. CASE list.ok
    <3>1. TypedWords(t, "list", end + 1, list.words, list.pos)
      BY <2>3, <2>5, TypedFields
    <3>2. list.pos + 1 \in pos + 1 .. L + 1 /\ list.words \subseteq Seq(Characters)
      BY <1>1, <2>2, <3>1 DEF TypedWords
    <3>3. postscript_ = postscript /\ Typed(t, part, list.pos + 1, postscript)
      BY <1>4, <1>6, <1>9, <2>3, <3>2 DEF Agree
    <3>4. CASE ~postscript.ok
      BY <1>7, <1>12, <2>3, <3>3, <3>4, Zenon DEF Expands, Typed, r, s
    <3>5. CASE postscript.ok
      <4> DEFINE words == Through(SubSeq(t, pos, end - 1), list.words, postscript.words)
      <4>1. r = Expansion(words, postscript.pos) /\ s = r
        BY <1>7, <1>12, <2>3, <2>5, <3>3, <3>5, Zenon DEF Expands
      <4>2. TypedWords(t, part, list.pos + 1, postscript.words, postscript.pos)
        BY <3>3, <3>5, TypedFields
      <4>3. words \subseteq Seq(Characters)
        <5>1. postscript.words \subseteq Seq(Characters)
          BY <4>2 DEF TypedWords
        <5> QED
          BY <1>10, <3>2, <5>1, ThroughIn
      <4>4. postscript.pos \in pos .. L + 1
        BY <1>1, <3>2, <4>2 DEF TypedWords
      <4> HIDE DEF words
      <4>5. TypedWords(t, part, pos, words, postscript.pos)
        BY <1>9, <4>3, <4>4 DEF TypedWords
      <4> QED
        BY <4>1, <4>5, Zenon DEF Typed, r, s
    <3> QED
      BY <3>4, <3>5
  <2> QED
    BY <2>4, <2>5
<1> QED
  BY <1>11, <1>12

LEMMA ListSame ==
    ASSUME NEW t \in Seq(Characters), NEW pos \in 1 .. Len(t) + 1, NEW g, NEW h,
           Agree(t, pos, g, h), g[<<"element", pos>>] = h[<<"element", pos>>],
           Typed(t, "element", pos, g[<<"element", pos>>])
    PROVE  /\ expand_list(t, pos, g) = expand_list(t, pos, h)
           /\ Typed(t, "list", pos, expand_list(t, pos, g))
<1> DEFINE r == expand_list(t, pos, g)
           s == expand_list(t, pos, h)
           L == Len(t)
<1>1. L \in Nat
  OBVIOUS
<1>2. PICK first : first = g[<<"element", pos>>]
  OBVIOUS
<1>3. first = h[<<"element", pos>>] /\ Typed(t, "element", pos, first)
  BY <1>2
<1>4. PICK rest : rest = g[<<"list", first.pos + 1>>]
  OBVIOUS
<1>5. PICK rest_ : rest_ = h[<<"list", first.pos + 1>>]
  OBVIOUS
<1>6. ListExpands(t, first, rest, r)
  BY <1>2, <1>4, ListIs, Zenon
<1>7. ListExpands(t, first, rest_, s)
  BY <1>3, <1>5, ListIs, Zenon
<1> HIDE DEF r, s
<1>8. CASE ~first.ok
  BY <1>6, <1>7, <1>8, Zenon DEF ListExpands, Typed, r, s
<1>9. CASE first.ok
  <2>1. TypedWords(t, "element", pos, first.words, first.pos) /\ first = Expansion(first.words, first.pos)
    BY <1>3, <1>9, TypedFields
  <2>2. first.pos \in pos .. L + 1 /\ first.pos \in 1 .. L + 1 /\ first.words \subseteq Seq(Characters)
    BY <1>1, <2>1 DEF TypedWords
  <2>3. AtClose(t, first.pos) \/ AtComma(t, first.pos) => first.pos <= L
    BY <2>2, CharacterFacts DEF CharacterAt
  <2>4. CASE AtClose(t, first.pos)
    <3>1. r = Expansion(first.words, first.pos) /\ s = r
      BY <1>6, <1>7, <1>9, <2>1, <2>4, Zenon DEF ListExpands
    <3>2. TypedWords(t, "list", pos, first.words, first.pos)
      BY <2>2, <2>3, <2>4 DEF TypedWords
    <3> QED
      BY <3>1, <3>2, Zenon DEF Typed, r, s
  <2>5. CASE ~AtClose(t, first.pos) /\ ~AtComma(t, first.pos)
    BY <1>6, <1>7, <1>9, <2>5, Zenon DEF ListExpands, Typed, r, s
  <2>6. CASE ~AtClose(t, first.pos) /\ AtComma(t, first.pos)
    <3>1. first.pos + 1 \in pos + 1 .. L + 1
      BY <1>1, <2>2, <2>3, <2>6
    <3>2. rest_ = rest /\ Typed(t, "list", first.pos + 1, rest)
      <4>1. "list" \in CallKinds
        BY DEF CallKinds
      <4> QED
        BY <1>4, <1>5, <3>1, <4>1 DEF Agree
    <3>3. CASE ~rest.ok
      BY <1>6, <1>7, <1>9, <2>6, <3>2, <3>3, Zenon DEF ListExpands, Typed, r, s
    <3>4. CASE rest.ok
      <4>1. r = Expansion(first.words \cup rest.words, rest.pos) /\ s = r
        BY <1>6, <1>7, <1>9, <2>6, <3>2, <3>4, Zenon DEF ListExpands
      <4>2. TypedWords(t, "list", first.pos + 1, rest.words, rest.pos)
        BY <3>2, <3>4, TypedFields
      <4>3. TypedWords(t, "list", pos, first.words \cup rest.words, rest.pos)
        BY <1>1, <2>2, <3>1, <4>2 DEF TypedWords
      <4> QED
        BY <4>1, <4>3, Zenon DEF Typed, r, s
    <3> QED
      BY <3>3, <3>4
  <2> QED
    BY <2>4, <2>5, <2>6
<1> QED
  BY <1>8, <1>9

\* The calls are made for places of a lower level.
ListLast(part) == IF part = "list" THEN 1 ELSE 0
Level(t, part, pos) == 2 * ((Len(t) + 1) - pos) + ListLast(part)

Below(t, n) == {p \in Places(t) : Level(t, p[1], p[2]) < n}

Result(t, p, g) ==
    IF p[1] = "list" THEN expand_list(t, p[2], g) ELSE expand(t, p[1], p[2], g)

LEMMA PlaceIs ==
    ASSUME NEW t \in Seq(Characters), NEW p \in Places(t)
    PROVE  /\ p[1] \in CallKinds /\ p[2] \in 1 .. Len(t) + 1 /\ p = <<p[1], p[2]>>
           /\ Level(t, p[1], p[2]) \in 0 .. 2 * Len(t) + 1
<1>1. p[1] \in CallKinds /\ p[2] \in 1 .. Len(t) + 1 /\ p = <<p[1], p[2]>>
  BY DEF Places, CallKinds
<1>2. Len(t) \in Nat /\ ListLast(p[1]) \in 0 .. 1
  BY DEF ListLast
<1>3. 2 * ((Len(t) + 1) - p[2]) + ListLast(p[1]) \in 0 .. 2 * Len(t) + 1
  BY <1>1, <1>2
<1> QED
  BY <1>1, <1>3 DEF Level

LEMMA LevelFalls ==
    ASSUME NEW t \in Seq(Characters), NEW part \in CallKinds, NEW pos \in 1 .. Len(t) + 1
    PROVE  /\ <<part, pos>> \in Places(t)
           /\ <<part, pos>>[1] = part /\ <<part, pos>>[2] = pos
           /\ \A other \in CallKinds, j \in pos + 1 .. Len(t) + 1 :
                Level(t, other, j) < Level(t, part, pos)
           /\ part = "list" => Level(t, "element", pos) < Level(t, part, pos)
<1>1. <<part, pos>> \in Places(t) /\ <<part, pos>>[1] = part /\ <<part, pos>>[2] = pos
  BY DEF Places, CallKinds
<1>2. Len(t) \in Nat /\ ListLast("element") = 0 /\ ListLast("list") = 1
  BY DEF ListLast
<1>3. \A other : ListLast(other) \in 0 .. 1
  BY DEF ListLast
<1>4. ASSUME NEW other \in CallKinds, NEW j \in pos + 1 .. Len(t) + 1
      PROVE  Level(t, other, j) < Level(t, part, pos)
  <2>1. ListLast(other) \in 0 .. 1 /\ ListLast(part) \in 0 .. 1
    BY <1>3
  <2>2. 2 * ((Len(t) + 1) - j) + ListLast(other) < 2 * ((Len(t) + 1) - pos) + ListLast(part)
    BY <1>2, <2>1
  <2> QED
    BY <2>2 DEF Level
<1>5. Level(t, "element", pos) < Level(t, "list", pos)
  <2>1. 2 * ((Len(t) + 1) - pos) + ListLast("element") < 2 * ((Len(t) + 1) - pos) + ListLast("list")
    BY <1>2
  <2> QED
    BY <2>1 DEF Level
<1> QED
  BY <1>1, <1>4, <1>5

LEMMA ResultSame ==
    ASSUME NEW t \in Seq(Characters), NEW p \in Places(t), NEW g, NEW h,
           \A z \in Places(t) : Level(t, z[1], z[2]) < Level(t, p[1], p[2]) =>
                g[z] = h[z] /\ Typed(t, z[1], z[2], g[z])
    PROVE  Result(t, p, g) = Result(t, p, h) /\ Typed(t, p[1], p[2], Result(t, p, g))
<1> DEFINE part == p[1]
           pos == p[2]
<1>1. part \in CallKinds /\ pos \in 1 .. Len(t) + 1
  BY PlaceIs
<1>2. Level(t, p[1], p[2]) = Level(t, part, pos)
  OBVIOUS
<1> HIDE DEF part, pos
<1>3. ASSUME NEW other \in CallKinds, NEW j \in 1 .. Len(t) + 1, Level(t, other, j) < Level(t, part, pos)
      PROVE  g[<<other, j>>] = h[<<other, j>>] /\ Typed(t, other, j, g[<<other, j>>])
  <2> DEFINE z == <<other, j>>
  <2>1. z \in Places(t) /\ z[1] = other /\ z[2] = j
    BY LevelFalls
  <2> HIDE DEF z
  <2>2. g[z] = h[z] /\ Typed(t, other, j, g[z])
    BY <1>2, <1>3, <2>1
  <2> QED
    BY <2>2 DEF z
<1>4. Agree(t, pos, g, h)
  <2>1. ASSUME NEW other \in CallKinds, NEW j \in pos + 1 .. Len(t) + 1
        PROVE  g[<<other, j>>] = h[<<other, j>>] /\ Typed(t, other, j, g[<<other, j>>])
    <3>1. Level(t, other, j) < Level(t, part, pos)
      BY <1>1, LevelFalls
    <3>2. j \in 1 .. Len(t) + 1
      BY <1>1
    <3> QED
      BY <1>3, <3>1, <3>2
  <2> QED
    BY <2>1 DEF Agree
<1>5. CASE part = "list"
  <2>1. /\ g[<<"element", pos>>] = h[<<"element", pos>>]
        /\ Typed(t, "element", pos, g[<<"element", pos>>])
    <3>1. "element" \in CallKinds
      BY DEF CallKinds
    <3>2. Level(t, "element", pos) < Level(t, part, pos)
      BY <1>1, <1>5, LevelFalls
    <3> QED
      BY <1>1, <1>3, <3>1, <3>2
  <2>2. /\ expand_list(t, pos, g) = expand_list(t, pos, h)
        /\ Typed(t, "list", pos, expand_list(t, pos, g))
    BY <1>1, <1>4, <2>1, ListSame
  <2> QED
    BY <1>5, <2>2, Zenon DEF Result, part, pos
<1>6. CASE part # "list"
  <2>1. part \in CallKinds \ {"list"}
    BY <1>1, <1>6
  <2>2. /\ expand(t, part, pos, g) = expand(t, part, pos, h)
        /\ Typed(t, part, pos, expand(t, part, pos, g))
    BY <1>1, <1>4, <2>1, ExpandSame
  <2> QED
    BY <1>6, <2>2, Zenon DEF Result, part, pos
<1> QED
  BY <1>5, <1>6

IsResults(t, n, g) == g = [p \in Below(t, n) |-> Result(t, p, g)]

TypedBelow(t, n, g) == \A p \in Below(t, n) : Typed(t, p[1], p[2], g[p])

LEMMA ResultsStep ==
    ASSUME NEW t \in Seq(Characters), NEW n \in Nat, NEW g, IsResults(t, n, g), TypedBelow(t, n, g)
    PROVE  \E h : IsResults(t, n + 1, h) /\ TypedBelow(t, n + 1, h)
<1> DEFINE h == [p \in Below(t, n + 1) |-> Result(t, p, g)]
<1>1. ASSUME NEW p \in Below(t, n)
      PROVE  p \in Below(t, n + 1) /\ g[p] = Result(t, p, g) /\ Typed(t, p[1], p[2], g[p])
  <2>1. p \in Places(t) /\ Level(t, p[1], p[2]) < n
    BY DEF Below
  <2>2. Level(t, p[1], p[2]) < n + 1
    BY <2>1, PlaceIs
  <2>3. g[p] = Result(t, p, g)
    BY DEF IsResults
  <2> QED
    BY <2>1, <2>2, <2>3 DEF Below, TypedBelow
<1>2. \A p \in Below(t, n + 1) : h[p] = Result(t, p, g)
  OBVIOUS
<1> HIDE DEF h
<1>3. \A p \in Below(t, n) : h[p] = g[p]
  BY <1>1, <1>2
<1>4. ASSUME NEW p \in Below(t, n + 1)
      PROVE  Result(t, p, g) = Result(t, p, h) /\ Typed(t, p[1], p[2], Result(t, p, g))
  <2>1. p \in Places(t) /\ Level(t, p[1], p[2]) < n + 1
    BY DEF Below
  <2>2. ASSUME NEW z \in Places(t), Level(t, z[1], z[2]) < Level(t, p[1], p[2])
        PROVE  g[z] = h[z] /\ Typed(t, z[1], z[2], g[z])
    <3>1. Level(t, p[1], p[2]) \in Nat /\ Level(t, z[1], z[2]) \in Nat
      BY <2>1, PlaceIs
    <3>2. Level(t, z[1], z[2]) < n
      BY <2>1, <2>2, <3>1
    <3>3. z \in Below(t, n)
      BY <3>2 DEF Below
    <3> QED
      BY <1>1, <1>3, <3>3
  <2> QED
    BY <2>1, <2>2, ResultSame
<1>5. IsResults(t, n + 1, h)
  <2>1. h = [p \in Below(t, n + 1) |-> Result(t, p, g)]
    BY DEF h
  <2>2. h = [p \in Below(t, n + 1) |-> Result(t, p, h)]
    BY <1>4, <2>1
  <2> QED
    BY <2>2 DEF IsResults
<1>6. TypedBelow(t, n + 1, h)
  BY <1>2, <1>4 DEF TypedBelow
<1> QED
  BY <1>5, <1>6

LEMMA ResultsExist ==
    ASSUME NEW t \in Seq(Characters)
    PROVE  \E g : IsResults(t, 2 * Len(t) + 2, g) /\ TypedBelow(t, 2 * Len(t) + 2, g)
<1> DEFINE N == 2 * Len(t) + 2
           K == {n \in 0 .. N : \E g : IsResults(t, n, g) /\ TypedBelow(t, n, g)}
<1>1. N \in Nat
  OBVIOUS
<1>2. 0 \in K
  <2> DEFINE g == [p \in {} |-> 0]
  <2>1. Below(t, 0) = {}
    BY PlaceIs DEF Below
  <2>2. g = [p \in Below(t, 0) |-> Result(t, p, g)]
    BY <2>1
  <2> HIDE DEF g
  <2>3. IsResults(t, 0, g) /\ TypedBelow(t, 0, g)
    BY <2>1, <2>2 DEF IsResults, TypedBelow
  <2> QED
    BY <1>1, <2>3
<1>3. ASSUME NEW n \in 0 .. N - 1, n \in K
      PROVE  n + 1 \in K
  <2>1. PICK g : IsResults(t, n, g) /\ TypedBelow(t, n, g)
    BY <1>3
  <2>2. n \in Nat /\ n + 1 \in 0 .. N
    BY <1>1
  <2>3. \E h : IsResults(t, n + 1, h) /\ TypedBelow(t, n + 1, h)
    BY <2>1, <2>2, ResultsStep
  <2> QED
    BY <2>2, <2>3
<1>4. N \in K
  <2> HIDE DEF K, N
  <2>1. \A n \in 0 .. N : n \in K
    BY <1>1, <1>2, <1>3, Induction
  <2> QED
    BY <1>1, <2>1
<1> QED
  BY <1>4

\* What the calls yield.
ResultsOf(t, R) ==
    \A pos \in 1 .. Len(t) + 1 :
        /\ R[<<"list", pos>>] = expand_list(t, pos, R)
        /\ R[<<"element", pos>>] = expand(t, "element", pos, R)
        /\ R[<<"pattern", pos>>] = expand(t, "pattern", pos, R)
        /\ \A part \in CallKinds : Typed(t, part, pos, R[<<part, pos>>])

LEMMA ResultsFacts ==
    ASSUME NEW t \in Seq(Characters)
    PROVE  ResultsOf(t, Results(t))
<1> DEFINE N == 2 * Len(t) + 2
           R == CHOOSE g : IsResults(t, N, g)
<1>1. Below(t, N) = Places(t)
  <2>1. \A p \in Places(t) : Level(t, p[1], p[2]) < N
    BY PlaceIs
  <2> QED
    BY <2>1 DEF Below
<1>2. \A g : IsResults(t, N, g) <=> g = [p \in Places(t) |-> Result(t, p, g)]
  BY <1>1 DEF IsResults
<1>3. Results(t) = R
  <2>1. R = CHOOSE g : g = [p \in Places(t) |-> Result(t, p, g)]
    BY <1>2
  <2> HIDE DEF R
  <2> QED
    BY <2>1 DEF Results, Result
<1>4. IsResults(t, N, R)
  BY ResultsExist
<1> HIDE DEF R
<1>5. \A p \in Places(t) : R[p] = Result(t, p, R)
  BY <1>1, <1>4 DEF IsResults
<1>6. TypedBelow(t, N, R)
  <2> DEFINE K == {n \in 0 .. N : TypedBelow(t, n, R)}
  <2>1. N \in Nat
    OBVIOUS
  <2>2. 0 \in K
    <3>1. Below(t, 0) = {}
      BY PlaceIs DEF Below
    <3> QED
      BY <2>1, <3>1 DEF TypedBelow
  <2>3. ASSUME NEW n \in 0 .. N - 1, n \in K
        PROVE  n + 1 \in K
    <3>1. TypedBelow(t, n, R) /\ n \in Nat /\ n + 1 \in 0 .. N
      BY <2>1, <2>3
    <3>2. ASSUME NEW p \in Below(t, n + 1)
          PROVE  Typed(t, p[1], p[2], R[p])
      <4>1. p \in Places(t) /\ Level(t, p[1], p[2]) < n + 1
        BY DEF Below
      <4>2. ASSUME NEW z \in Places(t), Level(t, z[1], z[2]) < Level(t, p[1], p[2])
            PROVE  R[z] = R[z] /\ Typed(t, z[1], z[2], R[z])
        <5>1. Level(t, p[1], p[2]) \in Nat /\ Level(t, z[1], z[2]) \in Nat
          BY <4>1, PlaceIs
        <5>2. Level(t, z[1], z[2]) < n
          BY <3>1, <4>1, <4>2, <5>1
        <5>3. z \in Below(t, n)
          BY <5>2 DEF Below
        <5> QED
          BY <3>1, <5>3 DEF TypedBelow
      <4>3. Typed(t, p[1], p[2], Result(t, p, R))
        BY <4>1, <4>2, ResultSame
      <4> QED
        BY <1>5, <4>1, <4>3
    <3>3. TypedBelow(t, n + 1, R)
      BY <3>2 DEF TypedBelow
    <3> QED
      BY <3>1, <3>3
  <2>4. N \in K
    <3> HIDE DEF K, N
    <3>1. \A n \in 0 .. N : n \in K
      BY <2>1, <2>2, <2>3, Induction
    <3> QED
      BY <2>1, <3>1
  <2> QED
    BY <2>4
<1>7. ASSUME NEW pos \in 1 .. Len(t) + 1, NEW part \in CallKinds
      PROVE  /\ Typed(t, part, pos, R[<<part, pos>>])
             /\ part = "list" => R[<<part, pos>>] = expand_list(t, pos, R)
             /\ part # "list" => R[<<part, pos>>] = expand(t, part, pos, R)
  <2> DEFINE p == <<part, pos>>
  <2>1. p \in Places(t) /\ p[1] = part /\ p[2] = pos
    BY LevelFalls
  <2> HIDE DEF p, N
  <2>2. R[p] = Result(t, p, R) /\ Typed(t, part, pos, R[p])
    BY <1>1, <1>5, <1>6, <2>1 DEF TypedBelow
  <2>3. /\ part = "list" => R[p] = expand_list(t, pos, R)
        /\ part # "list" => R[p] = expand(t, part, pos, R)
    BY <2>1, <2>2, Zenon DEF Result
  <2> QED
    BY <2>2, <2>3 DEF p
<1>8. "list" \in CallKinds /\ "element" \in CallKinds /\ "pattern" \in CallKinds
  BY DEF CallKinds
<1>9. "element" # "list" /\ "pattern" # "list"
  OBVIOUS
<1>10. ResultsOf(t, R)
  BY <1>7, <1>8, <1>9, Zenon DEF ResultsOf
<1> QED
  BY <1>3, <1>10

-----------------------------------------------------------------------------
(* Where the calls end. *)

LEMMA CloseDepth ==
    ASSUME NEW t \in Seq(Characters), NEW i \in 1 .. Len(t) + 1, NEW c, IsClose(t, Depth(t), i, c)
    PROVE  /\ c \in i .. Len(t) /\ Depth(t)[i] \in Nat \ {0}
           /\ Closes(t, Depth(t), c) /\ Depth(t)[c] = Depth(t)[i]
           /\ Depth(t)[c + 1] = Depth(t)[i] - 1
           /\ \A k \in i .. c : Depth(t)[k] >= Depth(t)[i]
<1> DEFINE D == Depth(t)
           L == Len(t)
<1>1. L \in Nat /\ \A k \in 1 .. L + 1 : D[k] \in Nat
  BY DepthNat
<1>2. c \in i .. L /\ D[c + 1] < D[i] /\ \A k \in i .. c - 1 : D[k + 1] >= D[i]
  BY DEF IsClose
<1>3. c \in 1 .. L /\ D[i] \in Nat /\ D[c] \in Nat /\ D[c + 1] \in Nat
  <2>1. c \in 1 .. L /\ i \in 1 .. L + 1 /\ c \in 1 .. L + 1 /\ c + 1 \in 1 .. L + 1
    BY <1>1, <1>2
  <2> QED
    BY <1>1, <2>1
<1> HIDE DEF D
<1>4. ASSUME NEW k \in i .. c
      PROVE  D[k] >= D[i]
  <2>1. CASE k = i
    BY <1>3, <2>1
  <2>2. CASE k # i
    <3>1. k - 1 \in i .. c - 1 /\ (k - 1) + 1 = k
      BY <1>1, <1>2, <2>2
    <3>2. D[(k - 1) + 1] >= D[i]
      BY <1>2, <3>1
    <3> QED
      BY <3>1, <3>2
  <2> QED
    BY <2>1, <2>2
<1>5. D[c] >= D[i]
  BY <1>2, <1>4
<1>6. /\ Opens(t, c) => D[c + 1] = D[c] + 1
      /\ Closes(t, D, c) => D[c + 1] = D[c] - 1
      /\ ~Opens(t, c) /\ ~Closes(t, D, c) => D[c + 1] = D[c]
  BY <1>3, DepthStep DEF D
<1>7. Closes(t, D, c) /\ D[c + 1] = D[c] - 1
  BY <1>2, <1>3, <1>5, <1>6
<1>8. D[c] = D[i] /\ D[c + 1] = D[i] - 1 /\ D[i] # 0
  BY <1>2, <1>3, <1>5, <1>7
<1> QED
  BY <1>2, <1>3, <1>4, <1>7, <1>8 DEF D

\* From i to e, nothing is outside of the list at depth d, and nothing separates
\* its elements.
Run(t, d, i, e) ==
    /\ \A k \in i .. e : Depth(t)[k] >= d
    /\ \A m \in i .. e - 1 : ~Separates(t, Depth(t), d, m)

LEMMA RunJoin ==
    ASSUME NEW t, NEW d, NEW i \in Nat, NEW m \in Nat, NEW e \in Nat, i <= m, m <= e,
           Run(t, d, i, m), Run(t, d, m, e)
    PROVE  Run(t, d, i, e)
<1>1. ASSUME NEW k \in i .. e PROVE Depth(t)[k] >= d
  <2>1. k \in i .. m \/ k \in m .. e
    OBVIOUS
  <2> QED
    BY <2>1, Zenon DEF Run
<1>2. ASSUME NEW k \in i .. e - 1 PROVE ~Separates(t, Depth(t), d, k)
  <2>1. k \in i .. m - 1 \/ k \in m .. e - 1
    OBVIOUS
  <2> QED
    BY <2>1, Zenon DEF Run
<1> QED
  BY <1>1, <1>2, Zenon DEF Run

\* The list that is opened at i.
LEMMA ListRun ==
    ASSUME NEW t \in Seq(Characters), NEW i \in 1 .. Len(t) + 1, AtOpen(t, i)
    PROVE  /\ i <= Len(t) /\ Opens(t, i) /\ Depth(t)[i + 1] = Depth(t)[i] + 1
           /\ \A c : IsClose(t, Depth(t), i + 1, c) =>
                /\ c \in i + 1 .. Len(t) /\ Depth(t)[c + 1] = Depth(t)[i]
                /\ Run(t, Depth(t)[i], i, c + 1)
<1> DEFINE D == Depth(t)
           L == Len(t)
<1>1. L \in Nat /\ \A k \in 1 .. L + 1 : D[k] \in Nat
  BY DepthNat
<1>2. i <= L /\ Opens(t, i)
  BY CharacterFacts DEF CharacterAt
<1>3. D[i + 1] = D[i] + 1 /\ D[i] \in Nat /\ i \in 1 .. L /\ i + 1 \in 1 .. L + 1
  <2>1. i \in 1 .. L /\ i + 1 \in 1 .. L + 1 /\ i \in 1 .. L + 1
    BY <1>1, <1>2
  <2>2. D[i + 1] = D[i] + 1
    BY <1>2, <2>1, DepthStep
  <2> HIDE DEF D
  <2> QED
    BY <1>1, <2>1, <2>2
<1>4. ASSUME NEW c, IsClose(t, D, i + 1, c)
      PROVE  c \in i + 1 .. L /\ D[c + 1] = D[i] /\ Run(t, D[i], i, c + 1)
  <2>1. /\ c \in i + 1 .. L
        /\ D[c + 1] = D[i + 1] - 1
        /\ \A k \in i + 1 .. c : D[k] >= D[i + 1]
    BY <1>3, <1>4, CloseDepth
  <2> HIDE DEF D
  <2>2. D[c + 1] = D[i]
    BY <1>3, <2>1
  <2>3. ASSUME NEW k \in i + 1 .. c
        PROVE  D[k] \in Nat /\ D[k] > D[i]
    <3>1. k \in 1 .. L + 1
      BY <1>1, <1>3, <2>1
    <3> QED
      BY <1>1, <1>3, <2>1, <3>1
  <2>4. ASSUME NEW k \in i .. c + 1
        PROVE  D[k] >= D[i]
    <3>1. k = i \/ k \in i + 1 .. c \/ k = c + 1
      BY <1>1, <1>3, <2>1
    <3> QED
      BY <1>3, <2>2, <2>3, <3>1
  <2>5. ASSUME NEW m \in i .. (c + 1) - 1
        PROVE  ~Separates(t, D, D[i], m)
    <3>1. m = i \/ m \in i + 1 .. c
      BY <1>1, <1>3, <2>1
    <3>2. CASE m = i
      BY <1>2, <1>3, <3>2, CharacterFacts DEF CharacterAt, D
    <3>3. CASE m \in i + 1 .. c
      <4>1. D[m] # D[i]
        BY <1>3, <2>3, <3>3
      <4> QED
        BY <4>1 DEF Separates
    <3> QED
      BY <3>1, <3>2, <3>3
  <2> QED
    BY <2>1, <2>2, <2>4, <2>5 DEF Run, D
<1> QED
  BY <1>2, <1>3, <1>4

\* The preamble of a pattern, or of an element of a list.
Placed(t, part, pos) ==
    \/ part = "pattern" /\ Depth(t)[pos] = 0
    \/ part = "element" /\ Depth(t)[pos] > 0

LEMMA PreambleRun ==
    ASSUME NEW t \in Seq(Characters), NEW pos \in 1 .. Len(t) + 1, NEW part, Placed(t, part, pos),
           NEW end, EndsAt(t, part, pos, end)
    PROVE  /\ end \in pos .. Len(t) + 1
           /\ \A j \in pos .. end : Depth(t)[j] = Depth(t)[pos]
           /\ \A j \in pos .. end - 1 : ~Opens(t, j) /\ ~Leaves(t, j)
           /\ part = "element" => /\ Run(t, Depth(t)[pos], pos, end)
                                  /\ AtEnd(t, end) \/ AtOpen(t, end) \/ AtComma(t, end) \/ AtClose(t, end)
           /\ part = "pattern" => AtEnd(t, end) \/ AtOpen(t, end)
<1> DEFINE D == Depth(t)
           L == Len(t)
<1>1. L \in Nat /\ \A k \in 1 .. L + 1 : D[k] \in Nat
  BY DepthNat
<1>2. end \in pos .. L + 1
  BY DEF EndsAt, PreambleEnds
<1>3. ASSUME NEW j \in pos .. end - 1
      PROVE  j \in 1 .. L /\ CharacterAt(t, j)
  <2>1. j \in 1 .. L /\ j \in 1 .. L + 1
    BY <1>1, <1>2
  <2> QED
    BY <2>1, CharacterFacts
<1>4. CASE part = "element"
  <2>1. D[pos] > 0
    BY <1>4 DEF Placed
  <2>2. ASSUME NEW j \in pos .. end - 1
        PROVE  ~AtOpen(t, j) /\ ~AtComma(t, j) /\ ~AtClose(t, j)
    BY <1>4, Zenon DEF EndsAt, PreambleEnds, Stops
  <2>3. ASSUME NEW j \in pos .. end - 1
        PROVE  /\ ~Opens(t, j) /\ ~Leaves(t, j) /\ ~Closes(t, D, j)
               /\ \A d : ~Separates(t, D, d, j)
    <3>1. j <= L /\ CharacterAt(t, j)
      BY <1>3
    <3> QED
      BY <2>2, <3>1, Zenon DEF CharacterAt
  <2>4. \A j \in pos .. end : D[j] = D[pos]
    <3>1. Plain(t, pos, end)
      BY <2>3 DEF Plain
    <3> QED
      BY <1>2, <3>1, PlainDepth
  <2>5. Run(t, D[pos], pos, end)
    <3>1. \A j \in pos .. end : D[j] >= D[pos]
      BY <1>1, <2>4
    <3> QED
      BY <2>3, <3>1 DEF Run
  <2>6. AtEnd(t, end) \/ AtOpen(t, end) \/ AtComma(t, end) \/ AtClose(t, end)
    BY <1>4, Zenon DEF EndsAt, PreambleEnds, Stops
  <2>7. part # "pattern"
    BY <1>4
  <2> QED
    BY <1>2, <2>3, <2>4, <2>5, <2>6, <2>7
<1>5. CASE part = "pattern"
  <2>0. part # "element"
    BY <1>5
  <2>1. D[pos] = 0
    BY <1>5 DEF Placed
  <2>2. ASSUME NEW j \in pos .. end - 1
        PROVE  ~AtOpen(t, j)
    BY Zenon DEF EndsAt, PreambleEnds, Stops
  <2>3. ASSUME NEW j \in pos .. end - 1
        PROVE  /\ ~Opens(t, j)
               /\ D[j] = 0 => ~Closes(t, D, j) /\ ~Leaves(t, j)
    <3>1. j <= L /\ CharacterAt(t, j)
      BY <1>3
    <3>2. D[j] = 0 => ~(D[j] > 0)
      OBVIOUS
    <3> QED
      BY <2>2, <3>1, <3>2, Zenon DEF CharacterAt
  <2>4. \A j \in pos .. end : D[j] = D[pos]
    <3>1. Plain(t, pos, end)
      BY <2>1, <2>3 DEF Plain
    <3> QED
      BY <1>2, <3>1, PlainDepth
  <2>5. \A j \in pos .. end - 1 : D[j] = 0
    BY <1>1, <1>2, <2>1, <2>4
  <2>6. AtEnd(t, end) \/ AtOpen(t, end)
    BY <2>0, Zenon DEF EndsAt, PreambleEnds, Stops
  <2> QED
    BY <1>2, <2>0, <2>3, <2>4, <2>5, <2>6
<1> QED
  BY <1>4, <1>5 DEF Placed

Unclosed(t) == Depth(t)[Len(t) + 1] > 0

\* An element ends in front of what separates it from the next one, or of what
\* ends the list, or no brace ends it.
ElementEnds(t, pos, r) ==
    Depth(t)[pos] > 0 =>
        /\ ~r.ok => Unclosed(t)
        /\ r.ok => /\ r.pos \in pos .. Len(t) + 1
                   /\ Run(t, Depth(t)[pos], pos, r.pos) /\ Depth(t)[r.pos] = Depth(t)[pos]
                   /\ AtEnd(t, r.pos) \/ AtComma(t, r.pos) \/ AtClose(t, r.pos)

ListEnds(t, pos, r) ==
    Depth(t)[pos] > 0 =>
        /\ ~r.ok => Unclosed(t)
        /\ r.ok => IsClose(t, Depth(t), pos, r.pos)

PatternEnds(t, pos, r) ==
    Depth(t)[pos] = 0 =>
        /\ ~r.ok => Unclosed(t)
        /\ r.ok => r.pos = Len(t) + 1 /\ IsPattern(t)

CallEnds(t, part, pos, r) ==
    IF part = "element" THEN ElementEnds(t, pos, r) ELSE PatternEnds(t, pos, r)

\* What a preamble, a list and a postscript are together.
LEMMA ExpandEnds ==
    ASSUME NEW t \in Seq(Characters), NEW R, ResultsOf(t, R), NEW pos \in 1 .. Len(t) + 1,
           NEW part \in {"element", "pattern"},
           \A j \in pos + 1 .. Len(t) + 1 :
                ListEnds(t, j, R[<<"list", j>>]) /\ CallEnds(t, part, j, R[<<part, j>>])
    PROVE  CallEnds(t, part, pos, R[<<part, pos>>])
<1> DEFINE D == Depth(t)
           L == Len(t)
           r == R[<<part, pos>>]
<1>1. L \in Nat /\ pos \in Nat /\ \A k \in 1 .. L + 1 : D[k] \in Nat
  BY DepthNat
<1>2. (part = "element" /\ part # "pattern") \/ (part = "pattern" /\ part # "element")
  OBVIOUS
<1>3. CASE ~Placed(t, part, pos)
  BY <1>2, <1>3, Zenon DEF CallEnds, ElementEnds, PatternEnds, Placed
<1>4. CASE Placed(t, part, pos)
  <2>1. PICK end : end = EndOf(t, part, pos)
    OBVIOUS
  <2>2. PICK list : list = R[<<"list", end + 1>>]
    OBVIOUS
  <2>3. PICK postscript : postscript = R[<<part, list.pos + 1>>]
    OBVIOUS
  <2>4. r = expand(t, part, pos, R)
    BY <1>2, Zenon DEF ResultsOf
  <2>5. EndsAt(t, part, pos, end) /\ Expands(t, pos, end, list, postscript, r)
    BY <2>1, <2>2, <2>3, <2>4, ExpandIs, Zenon
  <2> HIDE DEF r
  <2>6. /\ end \in pos .. L + 1 /\ D[end] = D[pos]
        /\ part = "element" => /\ Run(t, D[pos], pos, end)
                               /\ AtEnd(t, end) \/ AtOpen(t, end) \/ AtComma(t, end) \/ AtClose(t, end)
        /\ part = "pattern" => AtEnd(t, end) \/ AtOpen(t, end)
    <3>1. end \in pos .. L + 1 /\ \A j \in pos .. end : D[j] = D[pos]
      BY <1>4, <2>5, PreambleRun
    <3>2. /\ part = "element" => /\ Run(t, D[pos], pos, end)
                                 /\ AtEnd(t, end) \/ AtOpen(t, end) \/ AtComma(t, end) \/ AtClose(t, end)
          /\ part = "pattern" => AtEnd(t, end) \/ AtOpen(t, end)
      BY <1>4, <2>5, PreambleRun, Zenon
    <3>3. end \in pos .. end
      BY <1>1, <3>1
    <3> QED
      BY <3>1, <3>2, <3>3, Zenon
  <2>7. end \in 1 .. L + 1 /\ end \in Nat
    BY <1>1, <2>6
  <2>8. CASE ~AtOpen(t, end)
    <3>1. r.ok = TRUE /\ r.pos = end
      <4>1. r = Expansion({SubSeq(t, pos, end - 1)}, end)
        BY <2>5, <2>8, Zenon DEF Expands
      <4> QED
        BY <4>1, ExpansionFields, Zenon
    <3>2. CASE part = "element"
      BY <1>2, <2>6, <2>8, <3>1, <3>2, Zenon DEF CallEnds, ElementEnds, r
    <3>3. CASE part = "pattern"
      <4>1. end = L + 1 /\ D[pos] = 0
        BY <1>2, <1>4, <2>6, <2>7, <2>8, <3>3, CharacterFacts, Zenon DEF CharacterAt, Placed
      <4>2. IsPattern(t)
        BY <2>6, <4>1 DEF IsPattern
      <4> QED
        BY <1>2, <3>1, <3>3, <4>1, <4>2, Zenon DEF CallEnds, PatternEnds, r
    <3> QED
      BY <1>2, <3>2, <3>3
  <2>9. CASE AtOpen(t, end)
    <3>1. end <= L /\ D[end + 1] = D[end] + 1 /\ end + 1 \in pos + 1 .. L + 1 /\ D[end + 1] > 0
      <4>1. end <= L /\ D[end + 1] = D[end] + 1
        BY <2>7, <2>9, ListRun
      <4> HIDE DEF D
      <4>2. end + 1 \in pos + 1 .. L + 1 /\ D[end] \in Nat
        BY <1>1, <2>6, <2>7, <4>1
      <4> QED
        BY <4>1, <4>2
    <3>2. ListEnds(t, end + 1, list)
      BY <2>2, <3>1
    <3>3. CASE ~list.ok
      <4>1. r.ok = FALSE /\ Unclosed(t)
        BY <2>5, <2>9, <3>1, <3>2, <3>3, ExpansionFields, Zenon DEF Expands, ListEnds
      <4> QED
        BY <4>1, Zenon DEF CallEnds, ElementEnds, PatternEnds, r
    <3>4. CASE list.ok
      <4> DEFINE c == list.pos
      <4>1. IsClose(t, D, end + 1, c)
        BY <3>1, <3>2, <3>4, Zenon DEF ListEnds
      <4>2. c \in end + 1 .. L /\ D[c + 1] = D[pos] /\ Run(t, D[pos], end, c + 1)
        BY <2>6, <2>7, <2>9, <4>1, ListRun
      <4>3. postscript = R[<<part, c + 1>>]
        BY <2>3
      <4> HIDE DEF c
      <4>4. c + 1 \in pos + 1 .. L + 1 /\ c + 1 \in Nat /\ end <= c + 1 /\ pos <= end
        BY <1>1, <2>6, <2>7, <4>2
      <4>5. CallEnds(t, part, c + 1, postscript)
        BY <4>3, <4>4
      <4>6. CASE ~postscript.ok
        <5>1. r.ok = FALSE
          BY <2>5, <2>9, <4>6, ExpansionFields, Zenon DEF Expands
        <5>2. Unclosed(t)
          BY <1>2, <1>4, <4>2, <4>5, <4>6, Zenon DEF CallEnds, ElementEnds, PatternEnds, Placed
        <5> QED
          BY <5>1, <5>2, Zenon DEF CallEnds, ElementEnds, PatternEnds, r
      <4>7. CASE postscript.ok
        <5>1. r.ok = TRUE /\ r.pos = postscript.pos
          <6> DEFINE words == Through(SubSeq(t, pos, end - 1), list.words, postscript.words)
          <6>1. r = Expansion(words, postscript.pos)
            BY <2>5, <2>9, <3>4, <4>7, Zenon DEF Expands
          <6> HIDE DEF words
          <6> QED
            BY <6>1, ExpansionFields, Zenon
        <5>2. CASE part = "element"
          <6> DEFINE e == postscript.pos
          <6>1. /\ e \in c + 1 .. L + 1
                /\ Run(t, D[pos], c + 1, e) /\ D[e] = D[pos]
                /\ AtEnd(t, e) \/ AtComma(t, e) \/ AtClose(t, e)
            BY <1>2, <1>4, <4>2, <4>5, <4>7, <5>2, Zenon DEF CallEnds, ElementEnds, Placed
          <6> HIDE DEF e, D
          <6>2. e \in Nat /\ c + 1 <= e /\ end <= e /\ e \in pos .. L + 1
            BY <1>1, <2>7, <4>2, <4>4, <6>1
          <6>3. Run(t, D[pos], end, e)
            BY <2>7, <4>2, <4>4, <6>1, <6>2, RunJoin
          <6>4. Run(t, D[pos], pos, e)
            BY <1>1, <2>6, <2>7, <4>4, <5>2, <6>2, <6>3, RunJoin
          <6> QED
            BY <1>2, <5>1, <5>2, <6>1, <6>2, <6>4, Zenon DEF CallEnds, ElementEnds, r, e, D
        <5>3. CASE part = "pattern"
          <6>1. postscript.pos = L + 1 /\ IsPattern(t)
            BY <1>2, <1>4, <4>2, <4>5, <4>7, <5>3, Zenon DEF CallEnds, PatternEnds, Placed
          <6> QED
            BY <1>2, <5>1, <5>3, <6>1, Zenon DEF CallEnds, PatternEnds, r
        <5> QED
          BY <1>2, <5>2, <5>3
      <4> QED
        BY <4>6, <4>7
    <3> QED
      BY <3>3, <3>4
  <2> QED
    BY <2>8, <2>9
<1> QED
  BY <1>3, <1>4

LEMMA ListStep ==
    ASSUME NEW t \in Seq(Characters), NEW R, ResultsOf(t, R), NEW pos \in 1 .. Len(t) + 1,
           \A j \in pos + 1 .. Len(t) + 1 : ListEnds(t, j, R[<<"list", j>>]),
           ElementEnds(t, pos, R[<<"element", pos>>])
    PROVE  ListEnds(t, pos, R[<<"list", pos>>])
<1> DEFINE D == Depth(t)
           L == Len(t)
           r == R[<<"list", pos>>]
<1>1. L \in Nat /\ pos \in Nat /\ \A k \in 1 .. L + 1 : D[k] \in Nat
  BY DepthNat
<1>2. CASE ~(D[pos] > 0)
  BY <1>2 DEF ListEnds
<1>3. CASE D[pos] > 0
  <2>1. PICK first : first = R[<<"element", pos>>]
    OBVIOUS
  <2>2. PICK rest : rest = R[<<"list", first.pos + 1>>]
    OBVIOUS
  <2>3. r = expand_list(t, pos, R)
    BY Zenon DEF ResultsOf
  <2>4. ListExpands(t, first, rest, r)
    BY <2>1, <2>2, <2>3, ListIs, Zenon
  <2> HIDE DEF r
  <2>5. CASE ~first.ok
    <3>1. r.ok = FALSE /\ Unclosed(t)
      BY <1>3, <2>1, <2>4, <2>5, ExpansionFields, Zenon DEF ListExpands, ElementEnds
    <3> QED
      BY <3>1, Zenon DEF ListEnds, r
  <2>6. CASE first.ok
    <3> DEFINE e == first.pos
    <3>1. /\ e \in pos .. L + 1 /\ Run(t, D[pos], pos, e) /\ D[e] = D[pos]
          /\ AtEnd(t, e) \/ AtComma(t, e) \/ AtClose(t, e)
      BY <1>3, <2>1, <2>6, Zenon DEF ElementEnds
    <3>2. rest = R[<<"list", e + 1>>]
      BY <2>2
    <3> HIDE DEF e
    <3>3. e \in 1 .. L + 1 /\ e \in Nat
      BY <1>1, <3>1
    <3>4. CharacterAt(t, e)
      BY <3>3, CharacterFacts
    <3>5. CASE AtClose(t, e)
      <4>1. r = first
        BY <2>4, <2>6, <3>5, Zenon DEF ListExpands, e
      <4>2. e \in 1 .. L /\ Closes(t, D, e)
        <5>1. e <= L
          BY <3>4, <3>5 DEF CharacterAt
        <5>2. Closes(t, D, e)
          BY <1>3, <3>1, <3>4, <3>5, <5>1, Zenon DEF CharacterAt
        <5> QED
          BY <1>1, <3>3, <5>1, <5>2
      <4>3. D[e + 1] = D[e] - 1
        BY <4>2, DepthStep
      <4>4. IsClose(t, D, pos, e)
        <5> HIDE DEF D
        <5>1. D[pos] \in Nat /\ D[e + 1] < D[pos] /\ e \in pos .. L
          BY <1>1, <1>3, <3>1, <4>2, <4>3
        <5>2. ASSUME NEW k \in pos .. e - 1
              PROVE  D[k + 1] >= D[pos]
          <6>1. k + 1 \in pos .. e
            BY <1>1, <3>3
          <6> QED
            BY <3>1, <6>1 DEF Run, D
        <5> QED
          BY <5>1, <5>2 DEF IsClose
      <4> QED
        BY <2>6, <4>1, <4>4, Zenon DEF ListEnds, r, e
    <3>6. CASE ~AtClose(t, e) /\ AtComma(t, e)
      <4>1. e \in 1 .. L /\ ~Opens(t, e) /\ ~Closes(t, D, e) /\ e + 1 \in pos + 1 .. L + 1
        <5>1. e <= L
          BY <3>4, <3>6 DEF CharacterAt
        <5>2. ~Opens(t, e) /\ ~Closes(t, D, e)
          BY <3>4, <3>6, <5>1, Zenon DEF CharacterAt
        <5> QED
          BY <1>1, <3>1, <3>3, <5>1, <5>2
      <4>2. D[e + 1] = D[pos]
        BY <3>1, <4>1, DepthStep
      <4>3. ListEnds(t, e + 1, rest)
        BY <3>2, <4>1
      <4>4. CASE ~rest.ok
        <5>1. r.ok = FALSE
          BY <2>4, <2>6, <3>6, <4>4, ExpansionFields, Zenon DEF ListExpands, e
        <5>2. Unclosed(t)
          BY <1>3, <4>2, <4>3, <4>4, Zenon DEF ListEnds
        <5> QED
          BY <5>1, <5>2, Zenon DEF ListEnds, r
      <4>5. CASE rest.ok
        <5> DEFINE words == first.words \cup rest.words
                   c == rest.pos
        <5>1. r = Expansion(words, c)
          BY <2>4, <2>6, <3>6, <4>5, Zenon DEF ListExpands, e
        <5>2. IsClose(t, D, e + 1, c)
          BY <1>3, <4>2, <4>3, <4>5, Zenon DEF ListEnds
        <5> HIDE DEF words, c
        <5>3. r.ok = TRUE /\ r.pos = c
          BY <5>1, ExpansionFields, Zenon
        <5>4. IsClose(t, D, pos, c)
          <6>1. /\ c \in e + 1 .. L /\ D[c + 1] < D[pos]
                /\ \A k \in e + 1 .. c - 1 : D[k + 1] >= D[pos]
            BY <4>2, <5>2 DEF IsClose
          <6> HIDE DEF D
          <6>2. c \in pos .. L
            BY <1>1, <3>1, <6>1
          <6>3. ASSUME NEW k \in pos .. c - 1
                PROVE  D[k + 1] >= D[pos]
            <7>1. k + 1 \in pos .. e \/ k + 1 = e + 1 \/ k \in e + 1 .. c - 1
              BY <1>1, <3>3, <6>1
            <7>2. CASE k + 1 \in pos .. e
              BY <3>1, <7>2 DEF Run, D
            <7>3. CASE k + 1 = e + 1
              <8>1. D[pos] \in Nat
                BY <1>1
              <8> QED
                BY <4>2, <7>3, <8>1
            <7> QED
              BY <6>1, <7>1, <7>2, <7>3
          <6> QED
            BY <6>1, <6>2, <6>3 DEF IsClose
        <5> QED
          BY <5>3, <5>4, Zenon DEF ListEnds, r
      <4> QED
        BY <4>4, <4>5
    <3>7. CASE ~AtClose(t, e) /\ ~AtComma(t, e)
      <4>1. r.ok = FALSE
        BY <2>4, <2>6, <3>7, ExpansionFields, Zenon DEF ListExpands, e
      <4>2. e = L + 1
        BY <3>1, <3>4, <3>7, Zenon DEF CharacterAt
      <4>3. Unclosed(t)
        BY <1>3, <3>1, <4>2, Zenon DEF Unclosed
      <4> QED
        BY <4>1, <4>3, Zenon DEF ListEnds, r
    <3> QED
      BY <3>5, <3>6, <3>7
  <2> QED
    BY <2>5, <2>6
<1> QED
  BY <1>2, <1>3

\* At each position, the calls end as they should.
AllEnd(t, R, pos) ==
    /\ CallEnds(t, "element", pos, R[<<"element", pos>>])
    /\ CallEnds(t, "pattern", pos, R[<<"pattern", pos>>])
    /\ ListEnds(t, pos, R[<<"list", pos>>])

LEMMA CallsEnd ==
    ASSUME NEW t \in Seq(Characters), NEW R, ResultsOf(t, R)
    PROVE  \A pos \in 1 .. Len(t) + 1 : AllEnd(t, R, pos)
<1> DEFINE L == Len(t)
           K == {n \in 0 .. L : \A pos \in (L + 1) - n .. L + 1 : AllEnd(t, R, pos)}
<1>1. L \in Nat
  OBVIOUS
<1>2. ASSUME NEW pos \in 1 .. L + 1, \A j \in pos + 1 .. L + 1 : AllEnd(t, R, j)
      PROVE  AllEnd(t, R, pos)
  <2>1. "element" \in {"element", "pattern"} /\ "pattern" \in {"element", "pattern"}
    OBVIOUS
  <2>2. \A j \in pos + 1 .. L + 1 :
          ListEnds(t, j, R[<<"list", j>>]) /\ CallEnds(t, "element", j, R[<<"element", j>>])
    BY <1>2, Zenon DEF AllEnd
  <2>3. \A j \in pos + 1 .. L + 1 :
          ListEnds(t, j, R[<<"list", j>>]) /\ CallEnds(t, "pattern", j, R[<<"pattern", j>>])
    BY <1>2, Zenon DEF AllEnd
  <2>4. CallEnds(t, "element", pos, R[<<"element", pos>>])
    BY <2>1, <2>2, ExpandEnds, Zenon
  <2>5. CallEnds(t, "pattern", pos, R[<<"pattern", pos>>])
    BY <2>1, <2>3, ExpandEnds, Zenon
  <2>6. ElementEnds(t, pos, R[<<"element", pos>>])
    BY <2>4, Zenon DEF CallEnds
  <2>7. ListEnds(t, pos, R[<<"list", pos>>])
    BY <2>2, <2>6, ListStep, Zenon
  <2> QED
    BY <2>4, <2>5, <2>7, Zenon DEF AllEnd
<1>3. 0 \in K
  <2>1. \A pos \in (L + 1) - 0 .. L + 1 : pos \in 1 .. L + 1 /\ \A j \in pos + 1 .. L + 1 : FALSE
    BY <1>1
  <2>2. \A pos \in (L + 1) - 0 .. L + 1 : AllEnd(t, R, pos)
    BY <1>2, <2>1, Zenon
  <2> QED
    BY <1>1, <2>2
<1>4. ASSUME NEW n \in 0 .. L - 1, n \in K
      PROVE  n + 1 \in K
  <2> DEFINE new == (L + 1) - (n + 1)
  <2>1. \A j \in (L + 1) - n .. L + 1 : AllEnd(t, R, j)
    BY <1>4
  <2>2. new \in 1 .. L + 1 /\ new + 1 = (L + 1) - n
    BY <1>1
  <2>3. AllEnd(t, R, new)
    <3> HIDE DEF new
    <3> QED
      BY <1>2, <2>1, <2>2
  <2>4. \A j \in new .. L + 1 : j = new \/ j \in (L + 1) - n .. L + 1
    BY <1>1
  <2> HIDE DEF new
  <2>5. \A j \in new .. L + 1 : AllEnd(t, R, j)
    BY <2>1, <2>3, <2>4, Zenon
  <2>6. n + 1 \in 0 .. L
    BY <1>1
  <2> QED
    BY <2>5, <2>6 DEF new
<1>5. L \in K /\ (L + 1) - L = 1
  <2>1. \A n \in 0 .. L : n \in K
    <3> HIDE DEF K
    <3> QED
      BY <1>1, <1>3, <1>4, Induction
  <2> HIDE DEF K
  <2> QED
    BY <1>1, <2>1
<1> QED
  BY <1>5

-----------------------------------------------------------------------------
(* Sets of words that are followed by others. *)

Both(u, v) == u \o v
Joined(A, B) == {Both(u, v) : u \in A, v \in B}

LEMMA BothFacts ==
    ASSUME NEW S, NEW u \in Seq(S), NEW v \in Seq(S)
    PROVE  /\ Both(u, v) \in Seq(S)
           /\ Both(u, << >>) = u /\ Both(<< >>, u) = u
           /\ \A w \in Seq(S) : Both(Both(u, v), w) = Both(u, Both(v, w))
<1>1. u \o v \in Seq(S)
  BY ConcatProperties, Zenon
<1>2. u \o << >> = u /\ << >> \o u = u
  BY ConcatEmptySeq, Zenon
<1>3. ASSUME NEW w \in Seq(S)
      PROVE  (u \o v) \o w = u \o (v \o w)
  BY ConcatAssociative
<1> QED
  BY <1>1, <1>2, <1>3, Zenon DEF Both

LEMMA JoinedIn ==
    ASSUME NEW S, NEW A, A \subseteq Seq(S), NEW B, B \subseteq Seq(S)
    PROVE  Joined(A, B) \subseteq Seq(S)
<1>1. \A u \in A, v \in B : Both(u, v) \in Seq(S)
  BY BothFacts
<1> QED
  BY <1>1 DEF Joined

LEMMA JoinedAssociative ==
    ASSUME NEW S, NEW A, A \subseteq Seq(S), NEW B, B \subseteq Seq(S), NEW C, C \subseteq Seq(S)
    PROVE  Joined(A, Joined(B, C)) = Joined(Joined(A, B), C)
<1>1. \A u \in A, v \in B, w \in C : Both(Both(u, v), w) = Both(u, Both(v, w))
  BY BothFacts
<1>2. ASSUME NEW x \in Joined(A, Joined(B, C))
      PROVE  x \in Joined(Joined(A, B), C)
  <2>1. PICK u \in A, y \in Joined(B, C) : x = Both(u, y)
    BY <1>2 DEF Joined
  <2>2. PICK v \in B, w \in C : y = Both(v, w)
    BY <2>1 DEF Joined
  <2>3. x = Both(Both(u, v), w)
    BY <1>1, <2>1, <2>2
  <2>4. Both(u, v) \in Joined(A, B)
    BY DEF Joined
  <2> QED
    BY <2>3, <2>4 DEF Joined
<1>3. ASSUME NEW x \in Joined(Joined(A, B), C)
      PROVE  x \in Joined(A, Joined(B, C))
  <2>1. PICK y \in Joined(A, B), w \in C : x = Both(y, w)
    BY <1>3 DEF Joined
  <2>2. PICK u \in A, v \in B : y = Both(u, v)
    BY <2>1 DEF Joined
  <2>3. x = Both(u, Both(v, w))
    BY <1>1, <2>1, <2>2
  <2>4. Both(v, w) \in Joined(B, C)
    BY DEF Joined
  <2> QED
    BY <2>3, <2>4 DEF Joined
<1> QED
  BY <1>2, <1>3

LEMMA JoinedNothing ==
    ASSUME NEW S, NEW A, A \subseteq Seq(S)
    PROVE  Joined(A, {<< >>}) = A /\ Joined({<< >>}, A) = A
<1>1. \A u \in A : Both(u, << >>) = u /\ Both(<< >>, u) = u
  BY BothFacts
<1>2. PICK nothing : nothing = << >>
  OBVIOUS
<1>3. \A u \in A : Both(u, nothing) = u /\ Both(nothing, u) = u
  BY <1>1, <1>2
<1>4. Joined(A, {nothing}) = A /\ Joined({nothing}, A) = A
  BY <1>3 DEF Joined
<1> QED
  BY <1>2, <1>4

LEMMA JoinedBoth ==
    ASSUME NEW u, NEW v
    PROVE  Joined({u}, {v}) = {Both(u, v)}
BY DEF Joined

LEMMA JoinedOne ==
    ASSUME NEW u, NEW A
    PROVE  Joined({u}, A) = {Both(u, w) : w \in A}
BY DEF Joined

LEMMA JoinedUnion ==
    ASSUME NEW A, NEW B, NEW C
    PROVE  Joined(A \cup B, C) = Joined(A, C) \cup Joined(B, C)
BY DEF Joined

LEMMA ThroughIs ==
    ASSUME NEW u, NEW A, NEW B
    PROVE  Through(u, A, B) = Joined(Joined({u}, A), B)
<1>1. \A w, v : InTurn(u, w, v) = Both(Both(u, w), v)
  BY Zenon DEF InTurn, Both
<1>2. Joined({u}, A) = {Both(u, w) : w \in A}
  BY JoinedOne
<1>3. ASSUME NEW x
      PROVE  x \in Through(u, A, B) <=> x \in Joined(Joined({u}, A), B)
  <2>1. x \in Joined(Joined({u}, A), B) <=> \E y \in Joined({u}, A), v \in B : x = Both(y, v)
    BY DEF Joined
  <2>2. \A y : y \in Joined({u}, A) <=> \E w \in A : y = Both(u, w)
    BY <1>2
  <2>3. x \in Through(u, A, B) <=> \E w \in A, v \in B : x = InTurn(u, w, v)
    BY DEF Through
  <2> QED
    BY <1>1, <2>1, <2>2, <2>3
<1> QED
  BY <1>3

-----------------------------------------------------------------------------
(* The words from each position on. *)

LEMMA Downward ==
    ASSUME NEW L \in Nat, NEW S,
           \A i \in 1 .. L + 1 : (\A j \in i + 1 .. L + 1 : j \in S) => i \in S
    PROVE  \A i \in 1 .. L + 1 : i \in S
<1> DEFINE K == {n \in 0 .. L : \A i \in (L + 1) - n .. L + 1 : i \in S}
<1>1. 0 \in K
  <2>1. \A i \in (L + 1) - 0 .. L + 1 : i \in 1 .. L + 1 /\ \A j \in i + 1 .. L + 1 : FALSE
    OBVIOUS
  <2>2. \A i \in (L + 1) - 0 .. L + 1 : i \in S
    BY <2>1, Zenon
  <2> QED
    BY <2>2
<1>2. ASSUME NEW n \in 0 .. L - 1, n \in K
      PROVE  n + 1 \in K
  <2> DEFINE new == (L + 1) - (n + 1)
  <2>1. new \in 1 .. L + 1 /\ \A j \in new + 1 .. L + 1 : j \in S
    BY <1>2
  <2>2. new \in S
    BY <2>1
  <2>3. \A i \in new .. L + 1 : i = new \/ i \in (L + 1) - n .. L + 1
    OBVIOUS
  <2>4. \A i \in new .. L + 1 : i \in S
    BY <1>2, <2>2, <2>3
  <2> QED
    BY <2>4
<1>3. L \in K
  <2> HIDE DEF K
  <2>1. \A n \in 0 .. L : n \in K
    BY <1>1, <1>2, Induction
  <2> QED
    BY <2>1
<1> QED
  BY <1>3

Letter(t, i) == <<t[i]>>

\* What the words are at a position.
LEMMA WordsThere ==
    ASSUME NEW t \in Seq(Characters), NEW W, WordsFrom(t, W), NEW i \in 1 .. Len(t) + 1
    PROVE  /\ i = Len(t) + 1 => W[i] = {<< >>}
           /\ i <= Len(t) /\ Opens(t, i) => W[i] = UNION {W[j] : j \in Elements(t, i)}
           /\ i <= Len(t) /\ ~Opens(t, i) /\ Leaves(t, i) => W[i] = W[Close(t, i) + 1]
<1>1. W[i] = WordsAt(t, W, i)
  BY DEF WordsFrom
<1>2. Len(t) \in Nat /\ (i > Len(t) <=> i = Len(t) + 1) /\ (i <= Len(t) <=> ~(i > Len(t)))
  OBVIOUS
<1> QED
  BY <1>1, <1>2, Zenon DEF WordsAt

LEMMA LetterThere ==
    ASSUME NEW t \in Seq(Characters), NEW W, WordsFrom(t, W), NEW i \in 1 .. Len(t),
           ~Opens(t, i), ~Leaves(t, i)
    PROVE  W[i] = Joined({Letter(t, i)}, W[i + 1])
<1>1. i \in 1 .. Len(t) + 1 /\ ~(i > Len(t))
  OBVIOUS
<1>2. W[i] = WordsAt(t, W, i)
  BY <1>1 DEF WordsFrom
<1>3. \A w : Both(Letter(t, i), w) = <<t[i]>> \o w
  BY Zenon DEF Both, Letter
<1>4. Joined({Letter(t, i)}, W[i + 1]) = {Both(Letter(t, i), w) : w \in W[i + 1]}
  BY JoinedOne, Zenon
<1>5. Joined({Letter(t, i)}, W[i + 1]) = {<<t[i]>> \o w : w \in W[i + 1]}
  BY <1>3, <1>4, Zenon
<1>6. WordsAt(t, W, i) = {<<t[i]>> \o w : w \in W[i + 1]}
  BY <1>1, Zenon DEF WordsAt
<1> QED
  BY <1>2, <1>5, <1>6, Zenon

LEMMA WordsIn ==
    ASSUME NEW t \in Seq(Characters), IsPattern(t), NEW W, WordsFrom(t, W)
    PROVE  \A i \in 1 .. Len(t) + 1 : W[i] \subseteq Seq(Characters)
<1> DEFINE L == Len(t)
           S == {i \in 1 .. L + 1 : W[i] \subseteq Seq(Characters)}
<1>1. L \in Nat
  OBVIOUS
<1>2. ASSUME NEW i \in 1 .. L + 1, \A j \in i + 1 .. L + 1 : j \in S
      PROVE  i \in S
  <2>1. CASE i = L + 1
    <3>1. W[i] = {<< >>}
      BY <2>1, WordsThere
    <3>2. << >> \in Seq(Characters)
      OBVIOUS
    <3> QED
      BY <3>1, <3>2, Zenon
  <2>2. CASE i <= L /\ Opens(t, i)
    <3>1. i \in 1 .. L
      BY <1>1, <2>2
    <3>2. Elements(t, i) \subseteq i + 1 .. L + 1
      BY <2>2, <3>1, ElementsIs
    <3>3. W[i] = UNION {W[j] : j \in Elements(t, i)}
      BY <2>2, WordsThere
    <3>4. \A j \in Elements(t, i) : W[j] \subseteq Seq(Characters)
      BY <1>2, <3>2
    <3> QED
      BY <3>3, <3>4, Zenon
  <2>3. CASE i <= L /\ ~Opens(t, i) /\ Leaves(t, i)
    <3>1. IsClose(t, Depth(t), i, Close(t, i))
      BY <2>3, CloseExists DEF Leaves
    <3>2. Close(t, i) + 1 \in i + 1 .. L + 1
      BY <1>1, <3>1 DEF IsClose
    <3>3. W[i] = W[Close(t, i) + 1]
      BY <2>3, WordsThere
    <3> QED
      BY <1>2, <3>2, <3>3
  <2>4. CASE i <= L /\ ~Opens(t, i) /\ ~Leaves(t, i)
    <3>1. i + 1 \in i + 1 .. L + 1 /\ i \in 1 .. L
      BY <1>1, <2>4
    <3>2. W[i + 1] \subseteq Seq(Characters)
      BY <1>2, <3>1
    <3>3. Letter(t, i) \in Seq(Characters)
      BY <3>1 DEF Letter
    <3>4. {Letter(t, i)} \subseteq Seq(Characters)
      BY <3>3, Zenon
    <3>5. Joined({Letter(t, i)}, W[i + 1]) \subseteq Seq(Characters)
      BY <3>2, <3>4, JoinedIn, Zenon
    <3>6. W[i] = Joined({Letter(t, i)}, W[i + 1])
      BY <2>4, <3>1, LetterThere, Zenon
    <3> QED
      BY <3>5, <3>6
  <2> QED
    BY <1>1, <2>1, <2>2, <2>3, <2>4
<1>3. \A i \in 1 .. L + 1 : i \in S
  <2> HIDE DEF S
  <2> QED
    BY <1>1, <1>2, Downward
<1> QED
  BY <1>3

\* A preamble goes before the words that follow it.
LEMMA PreambleWords ==
    ASSUME NEW t \in Seq(Characters), IsPattern(t), NEW W, WordsFrom(t, W),
           NEW pos \in 1 .. Len(t) + 1, NEW end \in pos .. Len(t) + 1,
           \A j \in pos .. end - 1 : ~Opens(t, j) /\ ~Leaves(t, j)
    PROVE  /\ SubSeq(t, pos, end - 1) \in Seq(Characters)
           /\ W[pos] = Joined({SubSeq(t, pos, end - 1)}, W[end])
<1> DEFINE L == Len(t)
           N == end - pos
           K == {n \in 0 .. N : W[end - n] = Joined({SubSeq(t, end - n, end - 1)}, W[end])}
<1>1. L \in Nat /\ pos \in Nat /\ end \in Nat /\ N \in Nat /\ end \in 1 .. L + 1
  OBVIOUS
<1>2. W[end] \subseteq Seq(Characters)
  BY <1>1, WordsIn
<1>3. \A i, j : i \in 1 .. L + 1 /\ j \in 0 .. L => SubSeq(t, i, j) \in Seq(Characters)
  <2>1. ASSUME NEW i \in 1 .. L + 1, NEW j \in 0 .. L
        PROVE  SubSeq(t, i, j) \in Seq(Characters)
    <3>1. \A k \in i .. j : t[k] \in Characters
      <4>1. \A k \in i .. j : k \in 1 .. L
        BY <1>1
      <4> QED
        BY <4>1
    <3>2. i \in Int /\ j \in Int
      BY <1>1
    <3> QED
      BY <3>1, <3>2, SubSeqProperties
  <2> QED
    BY <2>1
<1>4. 0 \in K
  <2>1. end - 0 = end /\ end - 1 < end /\ end - 1 \in Int /\ end \in Int
    BY <1>1
  <2>2. SubSeq(t, end, end - 1) = << >>
    BY <2>1, SubSeqEmpty, Zenon
  <2>3. Joined({<< >>}, W[end]) = W[end]
    BY <1>2, JoinedNothing, Zenon
  <2>4. W[end - 0] = Joined({SubSeq(t, end - 0, end - 1)}, W[end])
    BY <2>1, <2>2, <2>3, Zenon
  <2> QED
    BY <1>1, <2>4
<1>5. ASSUME NEW n \in 0 .. N - 1, n \in K
      PROVE  n + 1 \in K
  <2>1. PICK j : j = end - (n + 1)
    OBVIOUS
  <2>2. /\ j \in pos .. end - 1 /\ j \in 1 .. L /\ j + 1 = end - n /\ j \in 1 .. L + 1 /\ j <= L
        /\ end - 1 \in j .. L /\ j + 1 \in 1 .. L + 1 /\ end - 1 \in 0 .. L /\ n + 1 \in 0 .. N
    BY <1>1, <1>5, <2>1
  <2>3. PICK later : later = SubSeq(t, j + 1, end - 1)
    OBVIOUS
  <2>4. later \in Seq(Characters) /\ Letter(t, j) \in Seq(Characters)
    BY <1>3, <2>2, <2>3 DEF Letter
  <2>5. SubSeq(t, j, end - 1) = Both(Letter(t, j), later)
    BY <2>2, <2>3, SubSeqRecursiveFirst DEF Both, Letter
  <2>6. W[j + 1] = Joined({later}, W[end])
    BY <1>5, <2>2, <2>3
  <2>7. W[j] = Joined({Letter(t, j)}, W[j + 1])
    BY <2>2, LetterThere, Zenon
  <2>8. {later} \subseteq Seq(Characters) /\ {Letter(t, j)} \subseteq Seq(Characters)
    BY <2>4, Zenon
  <2>9. W[j] = Joined(Joined({Letter(t, j)}, {later}), W[end])
    <3>1. Joined({Letter(t, j)}, Joined({later}, W[end]))
          = Joined(Joined({Letter(t, j)}, {later}), W[end])
      <4>1. PICK A : A = {Letter(t, j)}
        OBVIOUS
      <4>2. PICK B : B = {later}
        OBVIOUS
      <4>3. Joined(A, Joined(B, W[end])) = Joined(Joined(A, B), W[end])
        <5>1. A \subseteq Seq(Characters) /\ B \subseteq Seq(Characters)
          BY <2>8, <4>1, <4>2, Zenon
        <5> QED
          BY <1>2, <5>1, JoinedAssociative
      <4> QED
        BY <4>1, <4>2, <4>3, Zenon
    <3> QED
      BY <2>6, <2>7, <3>1, Zenon
  <2>10. W[j] = Joined({SubSeq(t, j, end - 1)}, W[end])
    <3>1. Joined({Letter(t, j)}, {later}) = {Both(Letter(t, j), later)}
      BY JoinedBoth, Zenon
    <3> QED
      BY <2>5, <2>9, <3>1, Zenon
  <2> QED
    BY <2>1, <2>2, <2>10
<1>6. N \in K
  <2> HIDE DEF K, N
  <2>1. \A n \in 0 .. N : n \in K
    BY <1>1, <1>4, <1>5, Induction
  <2> QED
    BY <1>1, <2>1
<1>7. end - N = pos /\ end - 1 \in 0 .. L
  BY <1>1
<1>8. SubSeq(t, pos, end - 1) \in Seq(Characters)
  BY <1>3, <1>7
<1> HIDE DEF N
<1> QED
  BY <1>6, <1>7, <1>8

-----------------------------------------------------------------------------
(* The words of the calls. *)

\* No call fails for a pattern.
LEMMA CallsSucceed ==
    ASSUME NEW t \in Seq(Characters), IsPattern(t), NEW R, ResultsOf(t, R),
           NEW pos \in 1 .. Len(t) + 1
    PROVE  /\ \A part : Placed(t, part, pos) =>
                /\ R[<<part, pos>>].ok /\ R[<<part, pos>>].words \subseteq Seq(Characters)
                /\ R[<<part, pos>>].pos \in pos .. Len(t) + 1
                /\ Depth(t)[R[<<part, pos>>].pos] = Depth(t)[pos]
           /\ Depth(t)[pos] > 0 =>
                /\ R[<<"list", pos>>].ok /\ R[<<"list", pos>>].words \subseteq Seq(Characters)
                /\ IsClose(t, Depth(t), pos, R[<<"list", pos>>].pos)
<1>1. ~Unclosed(t)
  BY DEF IsPattern, Unclosed
<1>2. AllEnd(t, R, pos)
  BY CallsEnd
<1>3. ASSUME NEW part \in CallKinds, R[<<part, pos>>].ok
      PROVE  R[<<part, pos>>].words \subseteq Seq(Characters) /\ R[<<part, pos>>].pos \in pos .. Len(t) + 1
  <2>1. PICK r : r = R[<<part, pos>>]
    OBVIOUS
  <2>2. Typed(t, part, pos, r) /\ r.ok
    BY <1>3, <2>1 DEF ResultsOf
  <2>3. TypedWords(t, part, pos, r.words, r.pos)
    BY <2>2, TypedFields
  <2> QED
    BY <2>1, <2>3 DEF TypedWords
<1>4. ASSUME NEW part, Placed(t, part, pos)
      PROVE  /\ R[<<part, pos>>].ok /\ part \in CallKinds
             /\ Depth(t)[R[<<part, pos>>].pos] = Depth(t)[pos]
  <2>1. (part = "element" /\ part # "pattern") \/ (part = "pattern" /\ part # "element")
    BY <1>4 DEF Placed
  <2>2. part \in CallKinds
    BY <2>1 DEF CallKinds
  <2>3. PICK r : r = R[<<part, pos>>]
    OBVIOUS
  <2>4. CallEnds(t, part, pos, r)
    BY <1>2, <2>1, <2>3, Zenon DEF AllEnd
  <2>5. CASE part = "element"
    <3>1. ElementEnds(t, pos, r) /\ Depth(t)[pos] > 0
      BY <1>4, <2>1, <2>4, <2>5, Zenon DEF CallEnds, Placed
    <3> QED
      BY <1>1, <2>2, <2>3, <3>1, Zenon DEF ElementEnds
  <2>6. CASE part = "pattern"
    <3>1. PatternEnds(t, pos, r) /\ Depth(t)[pos] = 0
      BY <1>4, <2>1, <2>4, <2>6, Zenon DEF CallEnds, Placed
    <3>2. r.ok /\ r.pos = Len(t) + 1
      BY <1>1, <3>1, Zenon DEF PatternEnds
    <3> QED
      BY <2>2, <2>3, <3>1, <3>2, Zenon DEF IsPattern
  <2> QED
    BY <2>1, <2>5, <2>6
<1>5. ASSUME Depth(t)[pos] > 0
      PROVE  R[<<"list", pos>>].ok /\ IsClose(t, Depth(t), pos, R[<<"list", pos>>].pos)
  BY <1>1, <1>2, <1>5, Zenon DEF AllEnd, ListEnds
<1>6. "list" \in CallKinds
  BY DEF CallKinds
<1> QED
  BY <1>3, <1>4, <1>5, <1>6, Zenon

CallMeans(t, W, part, pos, r) == Placed(t, part, pos) => W[pos] = Joined(r.words, W[r.pos])

WordsFromTo(t, W, i, c) ==
    UNION {W[j] : j \in ElementsUpto(t, Depth(t), i, c, Depth(t)[i])}

ListMeans(t, W, pos, r) ==
    Depth(t)[pos] > 0 => WordsFromTo(t, W, pos, r.pos) = Joined(r.words, W[r.pos + 1])

LEMMA ExpandMeans ==
    ASSUME NEW t \in Seq(Characters), IsPattern(t), NEW W, WordsFrom(t, W),
           NEW R, ResultsOf(t, R), NEW pos \in 1 .. Len(t) + 1, NEW part \in {"element", "pattern"},
           \A j \in pos + 1 .. Len(t) + 1 :
                ListMeans(t, W, j, R[<<"list", j>>]) /\ CallMeans(t, W, part, j, R[<<part, j>>])
    PROVE  CallMeans(t, W, part, pos, R[<<part, pos>>])
<1> DEFINE D == Depth(t)
           L == Len(t)
           r == R[<<part, pos>>]
<1>1. SUFFICES ASSUME Placed(t, part, pos) PROVE W[pos] = Joined(r.words, W[r.pos])
  BY Zenon DEF CallMeans
<1>2. L \in Nat /\ pos \in Nat /\ \A k \in 1 .. L + 1 : D[k] \in Nat
  BY DepthNat
<1>3. PICK end : end = EndOf(t, part, pos)
  OBVIOUS
<1>4. PICK list : list = R[<<"list", end + 1>>]
  OBVIOUS
<1>5. PICK postscript : postscript = R[<<part, list.pos + 1>>]
  OBVIOUS
<1>6. r = expand(t, part, pos, R)
  BY Zenon DEF ResultsOf
<1>7. EndsAt(t, part, pos, end) /\ Expands(t, pos, end, list, postscript, r)
  BY <1>3, <1>4, <1>5, <1>6, ExpandIs, Zenon
<1> HIDE DEF r
<1>8. /\ end \in pos .. L + 1 /\ \A j \in pos .. end : D[j] = D[pos]
      /\ \A j \in pos .. end - 1 : ~Opens(t, j) /\ ~Leaves(t, j)
  BY <1>1, <1>7, PreambleRun
<1>9. end \in 1 .. L + 1 /\ end \in Nat /\ D[end] = D[pos]
  <2>1. end \in pos .. end /\ end \in 1 .. L + 1 /\ end \in Nat
    BY <1>2, <1>8
  <2> QED
    BY <1>8, <2>1
<1>10. PICK preamble : preamble = SubSeq(t, pos, end - 1)
  OBVIOUS
<1>11. PICK P : P = {preamble}
  OBVIOUS
<1>12. P \subseteq Seq(Characters) /\ W[pos] = Joined(P, W[end])
  <2>1. preamble \in Seq(Characters) /\ W[pos] = Joined({preamble}, W[end])
    BY <1>8, <1>10, PreambleWords
  <2> QED
    BY <1>11, <2>1, Zenon
<1>13. CASE ~AtOpen(t, end)
  <2>1. r = Expansion(P, end)
    BY <1>7, <1>10, <1>11, <1>13, Zenon DEF Expands
  <2>2. r.words = P /\ r.pos = end
    BY <2>1, ExpansionFields, Zenon
  <2> QED
    BY <1>12, <2>2, Zenon
<1>14. CASE AtOpen(t, end)
  <2>1. /\ end <= L /\ Opens(t, end) /\ D[end + 1] = D[end] + 1
        /\ \A c : IsClose(t, D, end + 1, c) => c \in end + 1 .. L /\ D[c + 1] = D[end]
    BY <1>9, <1>14, ListRun
  <2>2. end + 1 \in pos + 1 .. L + 1 /\ end + 1 \in 1 .. L + 1 /\ D[end + 1] > 0 /\ end \in 1 .. L
    <3> HIDE DEF D
    <3> QED
      BY <1>2, <1>8, <1>9, <2>1
  <2>3. list.ok /\ list.words \subseteq Seq(Characters) /\ IsClose(t, D, end + 1, list.pos)
    BY <1>4, <2>2, CallsSucceed
  <2>4. PICK c : c = list.pos
    OBVIOUS
  <2>5. IsClose(t, D, end + 1, c) /\ c \in end + 1 .. L /\ D[c + 1] = D[pos]
    BY <1>9, <2>1, <2>3, <2>4
  <2>6. c + 1 \in pos + 1 .. L + 1 /\ c + 1 \in 1 .. L + 1
    BY <1>2, <1>8, <1>9, <2>5
  <2>7. postscript = R[<<part, c + 1>>]
    BY <1>5, <2>4
  <2>8. Placed(t, part, c + 1)
    BY <1>1, <2>5, Zenon DEF Placed
  <2>9. postscript.ok /\ postscript.words \subseteq Seq(Characters)
    BY <2>6, <2>7, <2>8, CallsSucceed
  <2>10. PICK e : e = postscript.pos
    OBVIOUS
  <2>11. e \in 1 .. L + 1
    <3>1. e \in c + 1 .. L + 1
      BY <2>6, <2>7, <2>8, <2>10, CallsSucceed
    <3> QED
      BY <1>2, <2>6, <3>1
  <2>12. PICK A : A = list.words
    OBVIOUS
  <2>13. PICK B : B = postscript.words
    OBVIOUS
  <2>14. A \subseteq Seq(Characters) /\ B \subseteq Seq(Characters) /\ W[e] \subseteq Seq(Characters)
    BY <2>3, <2>9, <2>11, <2>12, <2>13, WordsIn
  <2>15. W[c + 1] = Joined(B, W[e])
    BY <2>6, <2>7, <2>8, <2>10, <2>13, Zenon DEF CallMeans
  <2>16. W[end] = Joined(A, W[c + 1])
    <3>1. ListMeans(t, W, end + 1, list)
      BY <1>4, <2>2
    <3>2. WordsFromTo(t, W, end + 1, c) = Joined(A, W[c + 1])
      BY <2>2, <2>4, <2>12, <3>1, Zenon DEF ListMeans
    <3>3. Close(t, end + 1) = c
      BY <2>2, <2>5, CloseIs
    <3>4. Elements(t, end) = ElementsUpto(t, D, end + 1, c, D[end + 1])
      BY <2>1, <2>2, <3>3, ElementsIs
    <3>5. W[end] = UNION {W[j] : j \in Elements(t, end)}
      BY <1>9, <2>1, WordsThere
    <3> QED
      BY <3>2, <3>4, <3>5, Zenon DEF WordsFromTo
  <2>17. W[pos] = Joined(Joined(Joined(P, A), B), W[e])
    <3>1. Joined(P, A) \subseteq Seq(Characters) /\ Joined(B, W[e]) \subseteq Seq(Characters)
      BY <1>12, <2>14, JoinedIn
    <3>2. Joined(P, Joined(A, Joined(B, W[e]))) = Joined(Joined(P, A), Joined(B, W[e]))
      BY <1>12, <2>14, <3>1, JoinedAssociative
    <3>3. Joined(Joined(P, A), Joined(B, W[e])) = Joined(Joined(Joined(P, A), B), W[e])
      BY <2>14, <3>1, JoinedAssociative
    <3> QED
      BY <1>12, <2>15, <2>16, <3>2, <3>3, Zenon
  <2>18. r = Expansion(Through(preamble, A, B), e)
    BY <1>7, <1>10, <1>14, <2>3, <2>9, <2>10, <2>12, <2>13, Zenon DEF Expands
  <2>19. r.words = Through(preamble, A, B) /\ r.pos = e
    BY <2>18, ExpansionFields, Zenon
  <2>20. Through(preamble, A, B) = Joined(Joined(P, A), B)
    BY <1>11, ThroughIs, Zenon
  <2> QED
    BY <2>17, <2>19, <2>20, Zenon
<1> QED
  BY <1>13, <1>14

LEMMA ListMeansStep ==
    ASSUME NEW t \in Seq(Characters), IsPattern(t), NEW W, WordsFrom(t, W),
           NEW R, ResultsOf(t, R), NEW pos \in 1 .. Len(t) + 1,
           \A j \in pos + 1 .. Len(t) + 1 : ListMeans(t, W, j, R[<<"list", j>>]),
           CallMeans(t, W, "element", pos, R[<<"element", pos>>])
    PROVE  ListMeans(t, W, pos, R[<<"list", pos>>])
<1> DEFINE D == Depth(t)
           L == Len(t)
           d == Depth(t)[pos]
           r == R[<<"list", pos>>]
<1>1. SUFFICES ASSUME d > 0
               PROVE  WordsFromTo(t, W, pos, r.pos) = Joined(r.words, W[r.pos + 1])
  BY Zenon DEF ListMeans
<1>2. L \in Nat /\ pos \in Nat /\ \A k \in 1 .. L + 1 : D[k] \in Nat
  BY DepthNat
<1>3. PICK first : first = R[<<"element", pos>>]
  OBVIOUS
<1>4. PICK e : e = first.pos
  OBVIOUS
<1>5. PICK rest : rest = R[<<"list", first.pos + 1>>]
  OBVIOUS
<1>6. r = expand_list(t, pos, R)
  BY Zenon DEF ResultsOf
<1>7. ListExpands(t, first, rest, r)
  BY <1>3, <1>5, <1>6, ListIs, Zenon
<1> HIDE DEF r
<1>8. Placed(t, "element", pos)
  BY <1>1, Zenon DEF Placed
<1>9. first.ok /\ ElementEnds(t, pos, first)
  <2>1. R[<<"element", pos>>].ok
    BY <1>8, CallsSucceed
  <2>2. AllEnd(t, R, pos)
    BY CallsEnd
  <2> QED
    BY <1>3, <2>1, <2>2, Zenon DEF AllEnd, CallEnds
<1>10. /\ e \in pos .. L + 1 /\ Run(t, d, pos, e) /\ D[e] = d
       /\ AtEnd(t, e) \/ AtComma(t, e) \/ AtClose(t, e)
  BY <1>1, <1>4, <1>9, Zenon DEF ElementEnds
<1>11. e \in 1 .. L + 1 /\ CharacterAt(t, e)
  <2>1. e \in 1 .. L + 1
    BY <1>2, <1>10
  <2> QED
    BY <2>1, CharacterFacts
<1>12. e # L + 1
  <2>1. D[L + 1] = 0
    BY DEF IsPattern
  <2> HIDE DEF D, d
  <2> QED
    BY <1>1, <1>10, <2>1
<1>13. e \in 1 .. L /\ e <= L /\ e + 1 \in pos + 1 .. L + 1 /\ e + 1 \in 1 .. L + 1 /\ pos <= e
  BY <1>2, <1>10, <1>11, <1>12
<1>14. AtComma(t, e) \/ AtClose(t, e)
  BY <1>10, <1>11, <1>12, Zenon DEF CharacterAt
<1>15. ~Opens(t, e) /\ Leaves(t, e)
  BY <1>1, <1>10, <1>11, <1>13, <1>14, Zenon DEF CharacterAt
<1>16. PICK A : A = first.words
  OBVIOUS
<1>17. W[pos] = Joined(A, W[e])
  BY <1>3, <1>4, <1>8, <1>16, Zenon DEF CallMeans
<1>18. W[e] = W[Close(t, e) + 1]
  BY <1>11, <1>13, <1>15, WordsThere
<1>19. \A m \in pos .. e - 1 : ~Separates(t, D, d, m)
  BY <1>10 DEF Run
<1>20. \A m \in pos .. e : ~Separates(t, D, d, m) \/ m = e
  BY <1>2, <1>13, <1>19
<1>21. CASE AtClose(t, e)
  <2>1. r = first
    BY <1>4, <1>7, <1>9, <1>21, Zenon DEF ListExpands
  <2>2. IsClose(t, D, pos, e)
    BY <1>1, <1>4, <2>1, CallsSucceed DEF r
  <2>3. D[e + 1] < D[pos] /\ e \in e .. L
    BY <1>2, <1>13, <2>2 DEF IsClose
  <2>4. IsClose(t, D, e, e)
    <3>1. \A k \in e .. e - 1 : FALSE
      BY <1>2, <1>13
    <3> QED
      BY <1>10, <2>3, <3>1 DEF IsClose
  <2>5. Close(t, e) = e
    BY <1>11, <2>4, CloseIs
  <2>6. ~Separates(t, D, d, e)
    BY <1>11, <1>13, <1>21, Zenon DEF CharacterAt
  <2>7. ElementsUpto(t, D, pos, e, d) = {pos}
    <3>1. \A m \in pos .. e : ~Separates(t, D, d, m)
      BY <1>20, <2>6
    <3> HIDE DEF D, d
    <3> QED
      BY <3>1 DEF ElementsUpto
  <2>8. WordsFromTo(t, W, pos, e) = W[pos]
    BY <2>7 DEF WordsFromTo
  <2> QED
    BY <1>4, <1>16, <1>17, <1>18, <2>1, <2>5, <2>8, Zenon
<1>22. CASE AtComma(t, e)
  <2>1. ~AtClose(t, e)
    BY <1>11, <1>22, Zenon DEF CharacterAt
  <2>2. ~Closes(t, D, e)
    BY <1>11, <1>13, <2>1, Zenon DEF CharacterAt
  <2>3. D[e + 1] = d /\ D[e + 1] > 0
    <3>1. D[e + 1] = D[e]
      BY <1>13, <1>15, <2>2, DepthStep
    <3> QED
      BY <1>1, <1>10, <3>1
  <2>4. rest = R[<<"list", e + 1>>]
    BY <1>4, <1>5
  <2>5. rest.ok /\ IsClose(t, D, e + 1, rest.pos)
    BY <1>13, <2>3, <2>4, CallsSucceed
  <2>6. PICK c : c = rest.pos
    OBVIOUS
  <2>7. PICK B : B = rest.words
    OBVIOUS
  <2>8. ListMeans(t, W, e + 1, rest)
    BY <1>13, <2>4
  <2>9. WordsFromTo(t, W, e + 1, c) = Joined(B, W[c + 1])
    BY <2>3, <2>6, <2>7, <2>8, Zenon DEF ListMeans
  <2>10. r = Expansion(A \cup B, c)
    BY <1>4, <1>7, <1>9, <1>16, <1>22, <2>1, <2>5, <2>6, <2>7, Zenon DEF ListExpands
  <2>11. r.words = A \cup B /\ r.pos = c
    BY <2>10, ExpansionFields, Zenon
  <2>12. /\ c \in e + 1 .. L /\ D[c + 1] < d
         /\ \A k \in e + 1 .. c - 1 : D[k + 1] >= d
    BY <2>3, <2>5, <2>6 DEF IsClose
  <2>13. IsClose(t, D, e, c)
    <3> HIDE DEF D, d
    <3>1. D[e] = d /\ D[e + 1] = d /\ d \in Nat
      BY <1>2, <1>10, <1>11, <2>3
    <3>2. c \in e .. L
      BY <1>2, <1>13, <2>12
    <3>3. ASSUME NEW k \in e .. c - 1
          PROVE  D[k + 1] >= d
      <4>1. k = e \/ k \in e + 1 .. c - 1
        BY <1>2, <1>13, <2>12
      <4> QED
        BY <2>12, <3>1, <4>1
    <3> QED
      BY <2>12, <3>1, <3>2, <3>3 DEF IsClose
  <2>14. Close(t, e) = c
    BY <1>11, <2>13, CloseIs
  <2>15. Separates(t, D, d, e)
    BY <1>10, <1>11, <1>13, <1>22, Zenon DEF CharacterAt
  <2>16. ElementsUpto(t, D, pos, c, d) = {pos} \cup ElementsUpto(t, D, e + 1, c, d)
    <3> HIDE DEF D, d
    <3>1. \A m \in pos .. c : m \in pos .. e - 1 \/ m = e \/ m \in e + 1 .. c
      BY <1>2, <1>13, <2>12
    <3>2. \A m \in e + 1 .. c : m \in pos .. c
      BY <1>2, <1>13, <2>12
    <3>3. e \in pos .. c
      BY <1>2, <1>13, <2>12
    <3> QED
      BY <1>19, <2>15, <3>1, <3>2, <3>3 DEF ElementsUpto
  <2>17. WordsFromTo(t, W, pos, c) = W[pos] \cup WordsFromTo(t, W, e + 1, c)
    <3>1. WordsFromTo(t, W, e + 1, c) = UNION {W[j] : j \in ElementsUpto(t, D, e + 1, c, d)}
      BY <2>3, Zenon DEF WordsFromTo
    <3>2. WordsFromTo(t, W, pos, c) = UNION {W[j] : j \in ElementsUpto(t, D, pos, c, d)}
      BY Zenon DEF WordsFromTo
    <3> HIDE DEF D, d
    <3> QED
      BY <2>16, <3>1, <3>2
  <2>18. W[pos] \cup WordsFromTo(t, W, e + 1, c) = Joined(A \cup B, W[c + 1])
    <3>1. Joined(A \cup B, W[c + 1]) = Joined(A, W[c + 1]) \cup Joined(B, W[c + 1])
      BY JoinedUnion
    <3> QED
      BY <1>17, <1>18, <2>9, <2>14, <3>1, Zenon
  <2> QED
    BY <2>11, <2>17, <2>18, Zenon
<1> QED
  BY <1>14, <1>21, <1>22

AllMean(t, W, R, pos) ==
    /\ CallMeans(t, W, "element", pos, R[<<"element", pos>>])
    /\ CallMeans(t, W, "pattern", pos, R[<<"pattern", pos>>])
    /\ ListMeans(t, W, pos, R[<<"list", pos>>])

LEMMA CallsMean ==
    ASSUME NEW t \in Seq(Characters), IsPattern(t), NEW W, WordsFrom(t, W),
           NEW R, ResultsOf(t, R)
    PROVE  \A pos \in 1 .. Len(t) + 1 : AllMean(t, W, R, pos)
<1> DEFINE L == Len(t)
           S == {pos \in 1 .. L + 1 : AllMean(t, W, R, pos)}
<1>1. L \in Nat
  OBVIOUS
<1>2. ASSUME NEW pos \in 1 .. L + 1, \A j \in pos + 1 .. L + 1 : j \in S
      PROVE  pos \in S
  <2>1. "element" \in {"element", "pattern"} /\ "pattern" \in {"element", "pattern"}
    OBVIOUS
  <2>2. \A j \in pos + 1 .. L + 1 : AllMean(t, W, R, j)
    BY <1>2
  <2>3. \A j \in pos + 1 .. L + 1 :
          ListMeans(t, W, j, R[<<"list", j>>]) /\ CallMeans(t, W, "element", j, R[<<"element", j>>])
    BY <2>2, Zenon DEF AllMean
  <2>4. \A j \in pos + 1 .. L + 1 :
          ListMeans(t, W, j, R[<<"list", j>>]) /\ CallMeans(t, W, "pattern", j, R[<<"pattern", j>>])
    BY <2>2, Zenon DEF AllMean
  <2>5. CallMeans(t, W, "element", pos, R[<<"element", pos>>])
    BY <2>1, <2>3, ExpandMeans, Zenon
  <2>6. CallMeans(t, W, "pattern", pos, R[<<"pattern", pos>>])
    BY <2>1, <2>4, ExpandMeans, Zenon
  <2>7. ListMeans(t, W, pos, R[<<"list", pos>>])
    BY <2>3, <2>5, ListMeansStep, Zenon
  <2>8. AllMean(t, W, R, pos)
    BY <2>5, <2>6, <2>7, Zenon DEF AllMean
  <2> QED
    BY <2>8
<1>3. \A pos \in 1 .. L + 1 : pos \in S
  <2> HIDE DEF S
  <2> QED
    BY <1>1, <1>2, Downward
<1> QED
  BY <1>3

-----------------------------------------------------------------------------
\* Whatever the text of a pattern is, expand_pattern() (config.cpp:98-116) throws
\* if and only if a list in it is not closed, and otherwise the words that it
\* expands to are those that are read on the ways through the pattern.
THEOREM ExpansionMeaning ==
    ASSUME NEW t \in Seq(Characters)
    PROVE  /\ expand_pattern(t).ok \in BOOLEAN
           /\ expand_pattern(t).ok <=> IsPattern(t)
           /\ IsPattern(t) => expand_pattern(t).words = Words(t)
<1> DEFINE D == Depth(t)
           L == Len(t)
           R == Results(t)
           r == R[<<"pattern", 1>>]
<1>1. L \in Nat /\ 1 \in 1 .. L + 1 /\ L + 1 \in 1 .. L + 1
  OBVIOUS
<1>2. ResultsOf(t, R)
  BY ResultsFacts
<1>3. expand_pattern(t) = IF r.ok /\ r.pos = Len(t) + 1 THEN r ELSE Failed
  BY Zenon DEF expand_pattern
<1> HIDE DEF R
<1>4. D[1] = 0
  <2>1. DepthOf(t, D)
    BY DepthFacts
  <2> QED
    BY <2>1, Zenon DEF DepthOf
<1>5. PatternEnds(t, 1, r)
  <2>1. AllEnd(t, R, 1)
    BY <1>1, <1>2, CallsEnd
  <2>2. "pattern" # "element"
    OBVIOUS
  <2> QED
    BY <2>1, <2>2, Zenon DEF AllEnd, CallEnds
<1>6. Typed(t, "pattern", 1, r)
  <2>1. "pattern" \in CallKinds
    BY DEF CallKinds
  <2> QED
    BY <1>1, <1>2, <2>1, Zenon DEF ResultsOf
<1>7. r.ok \in BOOLEAN /\ (r.ok => r.words \subseteq Seq(Characters))
  <2>1. r.ok \in BOOLEAN
    BY <1>6, TypedFields
  <2>2. r.ok => TypedWords(t, "pattern", 1, r.words, r.pos)
    BY <1>6, TypedFields
  <2> QED
    BY <2>1, <2>2, Zenon DEF TypedWords
<1>8. IsPattern(t) <=> ~Unclosed(t)
  <2>1. D[L + 1] \in Nat
    BY <1>1, DepthNat
  <2>2. D[L + 1] = 0 <=> ~(D[L + 1] > 0)
    <3> HIDE DEF D
    <3> QED
      BY <2>1
  <2> QED
    BY <2>2, Zenon DEF IsPattern, Unclosed
<1>9. CASE ~r.ok
  <2>1. expand_pattern(t) = Failed
    BY <1>3, <1>9, Zenon
  <2>2. expand_pattern(t).ok = FALSE
    BY <2>1, ExpansionFields, Zenon
  <2>3. ~IsPattern(t)
    BY <1>4, <1>5, <1>8, <1>9, Zenon DEF PatternEnds
  <2> QED
    BY <2>2, <2>3, Zenon
<1>10. CASE r.ok
  <2>1. r.pos = L + 1 /\ IsPattern(t)
    BY <1>4, <1>5, <1>10, Zenon DEF PatternEnds
  <2>2. expand_pattern(t) = r
    BY <1>3, <1>10, <2>1, Zenon
  <2>3. r.words = Words(t)
    <3>1. PICK W : WordsFrom(t, W)
      BY <2>1, WordsFacts
    <3>2. AllMean(t, W, R, 1)
      BY <1>1, <1>2, <2>1, <3>1, CallsMean
    <3>3. Placed(t, "pattern", 1)
      BY <1>4, Zenon DEF Placed
    <3>4. W[1] = Joined(r.words, W[r.pos])
      BY <3>2, <3>3, Zenon DEF AllMean, CallMeans
    <3>5. W[L + 1] = {<< >>}
      BY <1>1, <3>1, WordsThere
    <3>6. Joined(r.words, {<< >>}) = r.words
      BY <1>7, <1>10, JoinedNothing
    <3>7. W[1] = Words(t)
      BY <3>1, Zenon DEF WordsFrom
    <3> QED
      BY <2>1, <3>4, <3>5, <3>6, <3>7, Zenon
  <2> QED
    BY <1>7, <1>10, <2>1, <2>2, <2>3, Zenon
<1> QED
  BY <1>7, <1>9, <1>10

-----------------------------------------------------------------------------
(* The groups that the documents make. *)

MeantBy(docs, name) == {i \in DOMAIN docs : Meaning(docs[i], name) # {}}

PatternBy(docs, name) ==
    LET document == docs[Min(MeantBy(docs, name))]
    IN  document.patterns[Min(Meaning(document, name))]

\* The group that select_pattern() finds is that of the pattern that counts.
Selects(docs, groups, name) ==
    /\ Matched(groups, name) <=> MeantBy(docs, name) # {}
    /\ MeantBy(docs, name) # {} =>
        select_pattern(groups, name) = PatternBy(docs, name).settings

LEMMA DocumentFacts ==
    ASSUME NEW document \in Documents
    PROVE  /\ IsDocument(document) /\ "patterns" \in DOMAIN document
           /\ Len(document.patterns) \in Nat
           /\ DOMAIN document.patterns = 1 .. Len(document.patterns)
           /\ \A i \in DOMAIN document.patterns :
                /\ document.patterns[i].text \in Seq(Characters)
                /\ IsSettings(document.patterns[i].settings, {"interval", "tags"})
<1>1. IsDocument(document)
  BY DocumentsAssumption DEF IsDocument
<1>2. "patterns" \in DOMAIN document /\ IsSequence(document.patterns)
  BY DocumentsAssumption
<1>3. \A i \in DOMAIN document.patterns :
            /\ document.patterns[i].text \in Seq(Characters)
            /\ IsSettings(document.patterns[i].settings, {"interval", "tags"})
  BY DocumentsAssumption, Zenon
<1> QED
  BY <1>1, <1>2, <1>3 DEF IsSequence

LEMMA AcceptedFacts ==
    ASSUME NEW document \in Documents
    PROVE  /\ Accepted(document) \subseteq Nat
           /\ Accepted(document) # {} => NoneMisspelt(document)
           /\ NoneMisspelt(document) =>
                \E k \in 0 .. Len(document.patterns) :
                    /\ Accepted(document) = 1 .. k
                    /\ {i \in DOMAIN document.patterns :
                            \A j \in 1 .. i : expand_pattern(document.patterns[j].text).ok} = 1 .. k
           /\ \A i \in Accepted(document) :
                /\ i \in DOMAIN document.patterns
                /\ IsPattern(document.patterns[i].text)
<1> DEFINE L == Len(document.patterns)
           text(i) == document.patterns[i].text
           B == {i \in 1 .. L : \A j \in 1 .. i : IsPattern(text(j))}
<1>1. L \in Nat /\ DOMAIN document.patterns = 1 .. L
      /\ \A i \in 1 .. L : text(i) \in Seq(Characters)
  BY DocumentFacts
<1> HIDE DEF L, text
<1>2. Accepted(document) = {i \in 1 .. L : NoneMisspelt(document) /\ \A j \in 1 .. i : IsPattern(text(j))}
  BY <1>1 DEF Accepted, NoneMisspelt, text
<1>3. NoneMisspelt(document) => Accepted(document) = B
  BY <1>2
<1>4. \A i \in 1 .. L : \A j \in 1 .. i : j \in 1 .. L
  BY <1>1
<1>5. \A i \in B : \A j \in 1 .. i : j \in B
  BY <1>1, <1>4
<1>6. \E k \in 0 .. L : B = 1 .. k
  <2>1. B \subseteq 1 .. L
    OBVIOUS
  <2> HIDE DEF B
  <2> QED
    BY <1>1, <1>5, <2>1, Prefix
<1>7. {i \in 1 .. L : \A j \in 1 .. i : expand_pattern(text(j)).ok} = B
  BY <1>1, <1>4, ExpansionMeaning
<1>8. NoneMisspelt(document) =>
        \E k \in 0 .. L :
            /\ Accepted(document) = 1 .. k
            /\ {i \in DOMAIN document.patterns :
                  \A j \in 1 .. i : expand_pattern(document.patterns[j].text).ok} = 1 .. k
  <2> HIDE DEF B
  <2> QED
    BY <1>1, <1>3, <1>6, <1>7 DEF text
<1>9. Accepted(document) \subseteq Nat /\ (Accepted(document) # {} => NoneMisspelt(document))
  BY <1>1, <1>2
<1>10. \A i \in Accepted(document) : i \in 1 .. L /\ IsPattern(text(i))
  BY <1>1, <1>2
<1> QED
  BY <1>1, <1>8, <1>9, <1>10 DEF L, text

LEMMA WordsOfIs ==
    ASSUME NEW document \in Documents, NEW i \in DOMAIN document.patterns,
           IsPattern(document.patterns[i].text)
    PROVE  /\ document.patterns[i].text \in DOMAIN WordsOf
           /\ WordsOf[document.patterns[i].text] = Words(document.patterns[i].text)
<1> DEFINE texts == UNION {{d.patterns[j].text : j \in DOMAIN d.patterns} : d \in Documents}
           text == document.patterns[i].text
<1>1. text \in texts
  OBVIOUS
<1>2. WordsOf = [t \in {u \in texts : IsPattern(u)} |-> Words(t)]
  BY DEF WordsOf
<1> HIDE DEF texts
<1>3. text \in {u \in texts : IsPattern(u)}
  BY <1>1
<1> HIDE DEF text
<1> QED
  BY <1>2, <1>3 DEF text

\* The accepted patterns come behind the groups that there are.
IsGrouped(document, groups, new) ==
    /\ new \in Seq(Groups) /\ Len(new) \in Nat /\ DOMAIN new = 1 .. Len(new)
    /\ Accepted(document) = 1 .. Len(new)
    /\ Grouped(groups, document.patterns) = groups \o new
    /\ \A i \in 1 .. Len(new) :
        /\ new[i].words = WordsOf[document.patterns[i].text]
        /\ new[i].settings = document.patterns[i].settings

LEMMA GroupedFacts ==
    ASSUME NEW document \in Documents, NoneMisspelt(document), NEW groups
    PROVE  \E new : IsGrouped(document, groups, new)
<1> DEFINE L == Len(document.patterns)
           text(i) == document.patterns[i].text
           group(i) == [words |-> expand_pattern(text(i)).words,
                        settings |-> document.patterns[i].settings]
<1>1. L \in Nat /\ DOMAIN document.patterns = 1 .. L
      /\ \A i \in 1 .. L : text(i) \in Seq(Characters)
  BY DocumentFacts
<1>2. PICK k \in 0 .. L :
        /\ Accepted(document) = 1 .. k
        /\ {i \in DOMAIN document.patterns : \A j \in 1 .. i : expand_pattern(text(j)).ok} = 1 .. k
  BY AcceptedFacts, Zenon
<1> DEFINE new == [i \in 1 .. k |-> group(i)]
<1>3. k \in Nat /\ k <= L
  BY <1>1, <1>2
<1>4. Grouped(groups, document.patterns) = groups \o new
  BY <1>2 DEF Grouped
<1>5. ASSUME NEW i \in 1 .. k
      PROVE  /\ group(i) \in Groups
             /\ group(i).words = WordsOf[text(i)]
             /\ group(i).settings = document.patterns[i].settings
  <2>1. i \in Accepted(document)
    BY <1>2
  <2>2. i \in DOMAIN document.patterns /\ IsPattern(text(i))
    BY <2>1, AcceptedFacts
  <2>3. text(i) \in DOMAIN WordsOf /\ WordsOf[text(i)] = Words(text(i))
    BY <2>2, WordsOfIs
  <2>4. text(i) \in Seq(Characters)
    BY <1>1, <2>2
  <2>5. expand_pattern(text(i)).words = Words(text(i))
    BY <2>2, <2>4, ExpansionMeaning
  <2> HIDE DEF text
  <2>6. group(i).words = WordsOf[text(i)] /\ group(i).settings = document.patterns[i].settings
    BY <2>3, <2>5
  <2>7. WordsOf[text(i)] \in {WordsOf[u] : u \in DOMAIN WordsOf}
    BY <2>3
  <2>8. document.patterns[i].settings \in
            UNION {{d.patterns[j].settings : j \in DOMAIN d.patterns} : d \in Documents}
    BY <2>2
  <2>9. group(i) \in Groups
    BY <2>3, <2>5, <2>7, <2>8 DEF Groups
  <2> QED
    BY <2>6, <2>9
<1> HIDE DEF group
<1>6. new \in Seq(Groups) /\ Len(new) = k /\ DOMAIN new = 1 .. k
  BY <1>3, <1>5
<1>7. \A i \in 1 .. k : new[i] = group(i)
  OBVIOUS
<1> HIDE DEF new, text
<1>8. IsGrouped(document, groups, new)
  BY <1>2, <1>3, <1>4, <1>5, <1>6, <1>7 DEF IsGrouped, text
<1> QED
  BY <1>8

\* What comes later does not count for a name that a document means.
FirstCounts(docs, document, more, name) ==
    LET meaning == Meaning(document, name)
    IN  /\ MeantBy(docs, name) # {} =>
            /\ MeantBy(more, name) # {}
            /\ PatternBy(more, name) = PatternBy(docs, name)
        /\ MeantBy(docs, name) = {} =>
            /\ MeantBy(more, name) # {} <=> meaning # {}
            /\ meaning # {} => PatternBy(more, name) = document.patterns[Min(meaning)]

LEMMA MeantStep ==
    ASSUME NEW docs \in Seq(Documents), NEW document \in Documents, NEW name
    PROVE  FirstCounts(docs, document, Append(docs, document), name)
<1> DEFINE more == Append(docs, document)
           meaning == Meaning(document, name)
           n == Len(docs)
           old == MeantBy(docs, name)
           new == MeantBy(more, name)
<1>1. /\ n \in Nat /\ DOMAIN docs = 1 .. n /\ DOMAIN more = 1 .. n + 1
      /\ more[n + 1] = document /\ \A i \in 1 .. n : more[i] = docs[i]
  OBVIOUS
<1> HIDE DEF more, n
<1>2. old = {i \in 1 .. n : Meaning(docs[i], name) # {}}
  BY <1>1 DEF MeantBy
<1>3. new = {i \in 1 .. n + 1 : Meaning(more[i], name) # {}}
  BY <1>1 DEF MeantBy
<1>4. new = IF meaning = {} THEN old ELSE old \cup {n + 1}
  <2>1. \A i : i \in 1 .. n + 1 <=> i \in 1 .. n \/ i = n + 1
    BY <1>1
  <2> QED
    BY <1>1, <1>2, <1>3, <2>1
<1> HIDE DEF old, new, meaning
<1>5. ASSUME old # {}
      PROVE  new # {} /\ PatternBy(more, name) = PatternBy(docs, name)
  <2>1. old \subseteq Nat /\ \A i \in old : i <= n /\ i \in 1 .. n
    BY <1>2
  <2>2. Min(old) \in old /\ \A i \in old : Min(old) <= i
    BY <1>5, <2>1, MinOf
  <2> DEFINE m == Min(old)
  <2>3. m \in Nat /\ m <= n /\ m \in 1 .. n
    BY <2>1, <2>2
  <2>4. \A i \in old : m <= i
    BY <2>2
  <2>5. m \in new /\ new \subseteq Nat
    BY <1>1, <1>4, <2>1, <2>2
  <2> HIDE DEF m
  <2>6. m <= n + 1
    BY <1>1, <2>3
  <2>7. \A i \in new : m <= i
    BY <1>4, <2>4, <2>6
  <2>8. Min(new) = m
    BY <2>5, <2>7, MinIs
  <2>9. more[m] = docs[m]
    BY <1>1, <2>3
  <2> QED
    BY <2>5, <2>8, <2>9 DEF PatternBy, old, new, m
<1>6. ASSUME old = {}
      PROVE  /\ new # {} <=> meaning # {}
             /\ meaning # {} => PatternBy(more, name) = document.patterns[Min(meaning)]
  <2>1. new # {} <=> meaning # {}
    BY <1>4, <1>6
  <2>2. ASSUME meaning # {}
        PROVE  PatternBy(more, name) = document.patterns[Min(meaning)]
    <3>1. new = {n + 1}
      BY <1>4, <1>6, <2>2
    <3>2. Min(new) = n + 1
      <4>1. n + 1 \in new /\ new \subseteq Nat /\ \A i \in new : n + 1 <= i
        BY <1>1, <3>1
      <4> QED
        BY <4>1, MinIs
    <3> QED
      BY <1>1, <3>2 DEF PatternBy, new, meaning
  <2> QED
    BY <2>1, <2>2
<1> QED
  BY <1>5, <1>6 DEF old, new, meaning, more, FirstCounts

LEMMA MeaningHits ==
    ASSUME NEW document \in Documents, NoneMisspelt(document), NEW groups, NEW name,
           NEW new, IsGrouped(document, groups, new)
    PROVE  /\ Meaning(document, name) = {i \in 1 .. Len(new) : Hit(new[i], name)}
           /\ Meaning(document, name) \subseteq Nat
<1>1. /\ Accepted(document) = 1 .. Len(new) /\ Len(new) \in Nat
      /\ \A i \in 1 .. Len(new) : new[i].words = WordsOf[document.patterns[i].text]
  BY DEF IsGrouped
<1>2. Meaning(document, name) =
        {i \in 1 .. Len(new) : \E w \in WordsOf[document.patterns[i].text] : fnmatch(w, name)}
  BY <1>1 DEF Meaning
<1> QED
  BY <1>1, <1>2 DEF Hit

LEMMA SelectStep ==
    ASSUME NEW docs \in Seq(Documents), NEW document \in Documents, NoneMisspelt(document),
           NEW groups \in Seq(Groups), NEW name, Selects(docs, groups, name)
    PROVE  Selects(Append(docs, document), Grouped(groups, document.patterns), name)
<1> DEFINE more == Append(docs, document)
           meaning == Meaning(document, name)
           n == Len(groups)
<1>1. FirstCounts(docs, document, more, name)
  BY MeantStep
<1>2. PICK new : IsGrouped(document, groups, new)
  BY GroupedFacts
<1> DEFINE all == groups \o new
           k == Len(new)
<1>3. /\ new \in Seq(Groups) /\ k \in Nat
      /\ Grouped(groups, document.patterns) = all
      /\ \A i \in 1 .. k : new[i].settings = document.patterns[i].settings
  BY <1>2 DEF IsGrouped
<1>4. meaning = {i \in 1 .. k : Hit(new[i], name)} /\ meaning \subseteq Nat
  BY <1>2, MeaningHits
<1>5. /\ n \in Nat /\ DOMAIN groups = 1 .. n
      /\ DOMAIN all = 1 .. n + k /\ n + k \in Nat
      /\ \A i \in 1 .. n : all[i] = groups[i]
      /\ \A i \in 1 .. k : all[n + i] = new[i]
  <2>1. n \in Nat /\ DOMAIN groups = 1 .. n
    OBVIOUS
  <2>2. all \in Seq(Groups) /\ Len(all) = n + k
    BY <1>3
  <2>3. DOMAIN all = 1 .. n + k
    BY <2>2
  <2>4. \A i \in 1 .. n : all[i] = groups[i]
    BY <1>3
  <2>5. \A i \in 1 .. k : all[n + i] = new[i]
    BY <1>3
  <2> QED
    BY <1>3, <2>1, <2>3, <2>4, <2>5
<1> HIDE DEF all, k, n, more
<1>6. CASE MeantBy(docs, name) # {}
  <2>1. Matched(groups, name) /\ select_pattern(groups, name) = PatternBy(docs, name).settings
    BY <1>6 DEF Selects
  <2>2. PICK i \in 1 .. n : Hit(groups[i], name) /\ \A j \in 1 .. i - 1 : ~Hit(groups[j], name)
    BY <1>5, <2>1, FirstExists
  <2>3. select_pattern(groups, name) = groups[i].settings
    BY <1>5, <2>2, FirstIs
  <2>4. i \in 1 .. n + k /\ \A j \in 1 .. i - 1 : j \in 1 .. n
    BY <1>3, <1>5
  <2>5. Hit(all[i], name) /\ \A j \in 1 .. i - 1 : ~Hit(all[j], name)
    BY <1>5, <2>2, <2>4
  <2>6. Matched(all, name) /\ select_pattern(all, name) = all[i].settings
    BY <1>5, <2>4, <2>5, FirstIs
  <2> QED
    BY <1>1, <1>3, <1>5, <1>6, <2>1, <2>3, <2>6 DEF Selects, FirstCounts, more
<1>7. CASE MeantBy(docs, name) = {}
  <2>1. \A i \in 1 .. n : ~Hit(groups[i], name)
    BY <1>5, <1>7, HitFacts DEF Selects
  <2>2. CASE meaning = {}
    <3>1. \A i \in 1 .. k : ~Hit(new[i], name)
      BY <1>4, <2>2
    <3>2. \A i \in 1 .. n + k : i \in 1 .. n \/ (i - n \in 1 .. k /\ n + (i - n) = i)
      BY <1>3, <1>5
    <3>3. \A i \in 1 .. n + k : ~Hit(all[i], name)
      BY <1>5, <2>1, <3>1, <3>2
    <3>4. ~Matched(all, name)
      BY <1>5, <3>3, HitFacts
    <3> QED
      BY <1>1, <1>3, <1>7, <2>2, <3>4 DEF Selects, FirstCounts, more
  <2>3. CASE meaning # {}
    <3> DEFINE m == Min(meaning)
    <3>1. m \in meaning /\ \A i \in meaning : m <= i
      BY <1>4, <2>3, MinOf
    <3> HIDE DEF m
    <3>2. m \in 1 .. k /\ Hit(new[m], name)
      BY <1>4, <3>1
    <3>3. \A j \in 1 .. m - 1 : ~Hit(new[j], name)
      <4>1. SUFFICES ASSUME NEW j \in 1 .. m - 1, Hit(new[j], name) PROVE FALSE
        OBVIOUS
      <4>2. j \in meaning /\ ~(m <= j)
        BY <1>3, <1>4, <3>2, <4>1
      <4> QED
        BY <3>1, <4>2
    <3>4. n + m \in 1 .. n + k /\ Hit(all[n + m], name) /\ all[n + m] = new[m]
      BY <1>3, <1>5, <3>2
    <3>5. \A j \in 1 .. (n + m) - 1 : j \in 1 .. n \/ (j - n \in 1 .. m - 1 /\ j - n \in 1 .. k /\ n + (j - n) = j)
      BY <1>3, <1>5, <3>2
    <3>6. \A j \in 1 .. (n + m) - 1 : ~Hit(all[j], name)
      BY <1>5, <2>1, <3>3, <3>5
    <3>7. Matched(all, name) /\ select_pattern(all, name) = all[n + m].settings
      <4> DEFINE x == n + m
      <4>1. x \in 1 .. n + k /\ Hit(all[x], name) /\ \A j \in 1 .. x - 1 : ~Hit(all[j], name)
        BY <3>4, <3>6
      <4> HIDE DEF x
      <4>2. Matched(all, name) /\ select_pattern(all, name) = all[x].settings
        BY <1>5, <4>1, FirstIs
      <4> QED
        BY <4>2 DEF x
    <3>8. select_pattern(all, name) = document.patterns[m].settings
      BY <1>3, <3>2, <3>4, <3>7
    <3> QED
      BY <1>1, <1>3, <1>7, <2>3, <3>7, <3>8 DEF Selects, FirstCounts, more, m
  <2> QED
    BY <2>2, <2>3
<1> QED
  BY <1>6, <1>7

\* A document that fails before its patterns changes nothing in them.
LEMMA SelectStay ==
    ASSUME NEW docs \in Seq(Documents), NEW document \in Documents, ~NoneMisspelt(document),
           NEW groups, NEW name, Selects(docs, groups, name)
    PROVE  Selects(Append(docs, document), groups, name)
<1>1. FirstCounts(docs, document, Append(docs, document), name)
  BY MeantStep
<1>2. Meaning(document, name) = {}
  BY AcceptedFacts DEF Meaning
<1> QED
  BY <1>1, <1>2 DEF FirstCounts, Selects

-----------------------------------------------------------------------------
(* The parts of the invariant, as predicates of values: ev are the events   *)
(* so far, n is the number of those that are processed.                     *)

EntitledBy(docs, opts, kind, name) ==
    IF MeantBy(docs, name) = {} THEN opts[kind]
    ELSE configure(opts[kind], PatternBy(docs, name).settings)

IsLog(ev) ==
    /\ ev \in Seq(Messages)
    /\ \A i \in 1 .. Len(ev) :
        ev[i].destination_type = "counter" =>
            ev[i].event_type \in 0 .. 2 /\ ev[i].event_data \in Int

KindIn(ev, name) == ev[Min(At(ev, name, Len(ev)))].destination_type

OnlyCounterIn(ev, name, n) ==
    \A i \in At(ev, name, n) : ev[i].destination_type = "counter"

InEffect(docs, opts, mm, ev, n) ==
    \A name \in DOMAIN mm :
        mm[name].kind # "attribute" =>
            \/ mm[name].opts = EntitledBy(docs, opts, mm[name].kind, name)
            \/ /\ mm[name].opts = opts[mm[name].kind]
               /\ \E i \in At(ev, name, n) : IsInit(ev[i])

LastSays(docs, opts) ==
    docs # << >> =>
        LET last == Last(docs)
        IN  \A kind \in DOMAIN last \cap Kinds :
                (\A s \in DOMAIN last \ {"patterns"} : ~Misspelt(last[s])) =>
                    \A f \in DOMAIN last[kind] : opts[kind][f] = last[kind][f]

Shows(metrics, ev, n) ==
    \A name \in DOMAIN metrics :
        OnlyCounterIn(ev, name, n) => PathOf(ev, metrics[name].values, name, n)

MetricsOf(mm, ev, n) ==
    /\ IsFunction(mm)
    /\ DOMAIN mm = {name \in Names : At(ev, name, n) # {}}
    /\ \A name \in DOMAIN mm :
        /\ IsMetric(mm[name]) /\ mm[name].kind = KindIn(ev, name)
        /\ OnlyCounterIn(ev, name, n) =>
            /\ mm[name].dated /\ mm[name].values \in Seq(Int) /\ mm[name].values # << >>
            /\ mm[name].m_value = Last(mm[name].values)

TagsIn(docs, opts, ev, name) ==
    {EntitledBy(docs, opts, KindIn(ev, name), name).tags, opts[KindIn(ev, name)].tags}

DumpOf(d, docs, opts, ev, n) ==
    /\ d = [stamp |-> d.stamp, metrics |-> d.metrics, shown |-> d.shown]
    /\ d.stamp \in Nat /\ d.shown \in 0 .. n
    /\ IsFunction(d.metrics) /\ DOMAIN d.metrics \subseteq Names
    /\ \A name \in Names : At(ev, name, d.shown) # {} =>
        IF name \in DOMAIN d.metrics
        THEN /\ d.metrics[name].kind = KindIn(ev, name)
             /\ KindIn(ev, name) # "attribute" =>
                    d.metrics[name].opts.tags \in TagsIn(docs, opts, ev, name) \ {{}}
        ELSE KindIn(ev, name) # "attribute" /\ {} \in TagsIn(docs, opts, ev, name)
    /\ \A name \in DOMAIN d.metrics : At(ev, name, d.shown) # {}

BalanceIn(ev, name, n) == Sum([i \in 1 .. n |-> DeltaOf(ev[i])], At(ev, name, n))

OpenIn(sc, name) == {p \in Producers : sc[p] # NoScope /\ sc[p].name = name}

Held(sc, name) == Sum([p \in Producers |-> sc[p].delta], OpenIn(sc, name))

ScopeEvents(ev, name) ==
    \A i \in At(ev, name, Len(ev)) : ev[i].destination_type = "counter" /\ ~IsInit(ev[i])

Balanced(mm, ev, n, sc, lost, on, name) ==
    /\ ScopeEvents(ev, name)
    /\ name \in DOMAIN mm => mm[name].m_value = BalanceIn(ev, name, n)
    /\ name \notin lost =>
        /\ ~on => OpenIn(sc, name) = {}
        /\ BalanceIn(ev, name, Len(ev)) = Held(sc, name)
        /\ (\A s \in Scopes : s.delta >= 0) =>
            \A k \in 0 .. Len(ev) : BalanceIn(ev, name, k) >= 0

\* These are what the invariant says of the variables.
LEMMA EntitledIs ==
    /\ \A name : Meant(name) = MeantBy(documents, name)
    /\ \A name : PatternOf(name) = PatternBy(documents, name)
    /\ \A kind, name : Entitled(kind, name) = EntitledBy(documents, options, kind, name)
<1>1. \A name : Meant(name) = MeantBy(documents, name)
  BY DEF Meant, MeantBy
<1>2. \A name : PatternOf(name) = PatternBy(documents, name)
  BY <1>1, Zenon DEF PatternOf, PatternBy
<1>3. \A kind, name : Entitled(kind, name) = EntitledBy(documents, options, kind, name)
  BY <1>1, <1>2, Zenon DEF Entitled, EntitledBy
<1> QED
  BY <1>1, <1>2, <1>3

LEMMA EventsIs ==
    /\ \A name, n : EventsOf(name, n) = At(pushed, name, n)
    /\ \A name, n : OnlyCounter(name, n) <=> OnlyCounterIn(pushed, name, n)
    /\ \A name : KindOf(name) = KindIn(pushed, name)
    /\ \A name, n : Balance(name, n) = BalanceIn(pushed, name, n)
    /\ \A name : Open(name) = OpenIn(scope, name)
    /\ \A name : Tags(name) = TagsIn(documents, options, pushed, name)
<1>1. \A name, n : EventsOf(name, n) = At(pushed, name, n)
  BY DEF EventsOf, At
<1>2. \A name, n : OnlyCounter(name, n) <=> OnlyCounterIn(pushed, name, n)
  BY <1>1, Zenon DEF OnlyCounter, OnlyCounterIn
<1>3. \A name : KindOf(name) = KindIn(pushed, name)
  BY <1>1, Zenon DEF KindOf, KindIn
<1>4. \A name, n : Balance(name, n) = BalanceIn(pushed, name, n)
  BY <1>1, Zenon DEF Balance, BalanceIn
<1>5. \A name : Open(name) = OpenIn(scope, name)
  BY Zenon DEF Open, OpenIn
<1>6. \A name : Tags(name) = TagsIn(documents, options, pushed, name)
  BY <1>3, EntitledIs, Zenon DEF Tags, TagsIn
<1> QED
  BY <1>1, <1>2, <1>3, <1>4, <1>5, <1>6

\* What the thread has not processed is in its hands or in the queue.
QueueOf(ev, qq, n, message) ==
    /\ IsLog(ev) /\ qq \in Seq(Messages) /\ n \in Nat
    /\ message # NoMessage => message = ev[n + 1]
    /\ \A i \in 1 .. Len(qq) : qq[i] = ev[Len(ev) - Len(qq) + i]

ConfigOf(docs, opts, groups) ==
    /\ docs \in Seq(Documents) /\ groups \in Seq(Groups)
    /\ IsFunction(opts)
    /\ \A k \in DOMAIN Defaults : IsFunction(opts[k]) /\ DOMAIN opts[k] = DOMAIN Defaults[k]
    /\ \A name \in Names : Selects(docs, groups, name)

\* What the reader knows of the dump that is published.
Reads(r, d, ev, qq) ==
    /\ r = [pc |-> r.pc, awaited |-> r.awaited, since |-> r.since]
    /\ r.pc \in {"idle", "queue", "dump"} /\ r.awaited \in 0 .. Len(ev)
    /\ r.pc = "dump" =>
        /\ r.since \in Nat
        /\ r.awaited <= Len(ev) - Len(qq)
        /\ d.stamp * MSEC >= r.since => d.shown >= r.awaited

Inv ==
    /\ TypeOK /\ EnabledInv
    /\ QueueOf(pushed, q, processed, popped)
    /\ ConfigOf(documents, options, pattern_opts)
    /\ MetricsOf(metrics_map, pushed, processed)
    /\ LastSays(documents, options)
    /\ InEffect(documents, options, metrics_map, pushed, processed)
    /\ Shows(metrics_map, pushed, processed)
    /\ Shows(dump.metrics, pushed, dump.shown)
    /\ Shows(new_dump.metrics, pushed, new_dump.shown)
    /\ \A name \in Names : OnlyScopes(name) =>
        Balanced(metrics_map, pushed, processed, scope, unbalanced, enabled, name)
    /\ DumpOf(dump, documents, options, pushed, processed)
    /\ DumpOf(new_dump, documents, options, pushed, processed)
    /\ dump.stamp * MSEC <= now
    /\ rpc = "publish" => new_dump.shown = processed
    /\ Reads(reader, dump, pushed, q)

LEMMA ShowsIs ==
    ASSUME NEW metrics, NEW n \in Nat
    PROVE  Shows(metrics, pushed, n) <=>
           \A name \in DOMAIN metrics :
                OnlyCounter(name, n) => IsPath(metrics[name].values, name, n)
<1>1. \A name : OnlyCounter(name, n) <=> OnlyCounterIn(pushed, name, n)
  BY EventsIs
<1>2. \A name : IsPath(metrics[name].values, name, n) <=> PathOf(pushed, metrics[name].values, name, n)
  BY PathIsPath
<1> QED
  BY <1>1, <1>2, Zenon DEF Shows

LEMMA MetricsIs == MetricsInv <=> MetricsOf(metrics_map, pushed, processed)
<1>1. \A name : EventsOf(name, processed) = At(pushed, name, processed)
  BY EventsIs
<1>2. \A name : OnlyCounter(name, processed) <=> OnlyCounterIn(pushed, name, processed)
  BY EventsIs
<1>3. \A name : KindOf(name) = KindIn(pushed, name)
  BY EventsIs
<1>4. {name \in Names : EventsOf(name, processed) # {}} =
        {name \in Names : At(pushed, name, processed) # {}}
  BY <1>1
<1> DEFINE Metric(name) ==
            /\ IsMetric(metrics_map[name]) /\ metrics_map[name].kind = KindOf(name)
            /\ OnlyCounter(name, processed) =>
                /\ metrics_map[name].dated /\ metrics_map[name].values \in Seq(Int)
                /\ metrics_map[name].values # << >>
                /\ metrics_map[name].m_value = Last(metrics_map[name].values)
<1>5. MetricsInv <=>
        /\ IsFunction(metrics_map)
        /\ DOMAIN metrics_map = {name \in Names : EventsOf(name, processed) # {}}
        /\ \A name \in DOMAIN metrics_map : Metric(name)
  BY Zenon DEF MetricsInv
<1>6. MetricsOf(metrics_map, pushed, processed) <=>
        /\ IsFunction(metrics_map)
        /\ DOMAIN metrics_map = {name \in Names : At(pushed, name, processed) # {}}
        /\ \A name \in DOMAIN metrics_map : Metric(name)
  BY <1>2, <1>3, Zenon DEF MetricsOf
<1> HIDE DEF Metric
<1> QED
  BY <1>4, <1>5, <1>6

LEMMA InEffectIs ==
    OptionsInEffect <=> /\ LastSays(documents, options)
                        /\ InEffect(documents, options, metrics_map, pushed, processed)
<1>1. \A name : EventsOf(name, processed) = At(pushed, name, processed)
  BY EventsIs
<1>2. \A kind, name : Entitled(kind, name) = EntitledBy(documents, options, kind, name)
  BY EntitledIs
<1> DEFINE Fine(name) ==
            metrics_map[name].kind # "attribute" =>
                \/ metrics_map[name].opts = Entitled(metrics_map[name].kind, name)
                \/ /\ metrics_map[name].opts = options[metrics_map[name].kind]
                   /\ \E i \in EventsOf(name, processed) : IsInit(pushed[i])
<1>3. OptionsInEffect <=> LastSays(documents, options) /\ \A name \in DOMAIN metrics_map : Fine(name)
  BY Zenon DEF OptionsInEffect, LastSays
<1>4. \A name : Fine(name) <=>
        (metrics_map[name].kind # "attribute" =>
            \/ metrics_map[name].opts = EntitledBy(documents, options, metrics_map[name].kind, name)
            \/ /\ metrics_map[name].opts = options[metrics_map[name].kind]
               /\ \E i \in At(pushed, name, processed) : IsInit(pushed[i]))
  BY <1>1, <1>2
<1> HIDE DEF Fine
<1> QED
  BY <1>3, <1>4, Zenon DEF InEffect

LEMMA DumpIs == ASSUME NEW d
                PROVE  IsDump(d) <=> DumpOf(d, documents, options, pushed, processed)
<1>1. \A name, n : EventsOf(name, n) = At(pushed, name, n)
  BY EventsIs
<1>2. \A name : KindOf(name) = KindIn(pushed, name)
  BY EventsIs
<1>3. \A name : Tags(name) = TagsIn(documents, options, pushed, name)
  BY EventsIs
<1> QED
  BY <1>1, <1>2, <1>3, Zenon DEF IsDump, DumpOf

LEMMA BalancedIs ==
    BalanceInv <=> \A name \in Names : OnlyScopes(name) =>
        Balanced(metrics_map, pushed, processed, scope, unbalanced, enabled, name)
<1>1. \A name, n : EventsOf(name, n) = At(pushed, name, n)
  BY EventsIs
<1>2. \A name, n : Balance(name, n) = BalanceIn(pushed, name, n)
  BY EventsIs
<1>3. \A name : Open(name) = OpenIn(scope, name)
  BY EventsIs
<1> QED
  BY <1>1, <1>2, <1>3, Zenon DEF BalanceInv, Balanced, ScopeEvents, Held

LEMMA ConfigIs == ConfigInv <=> ConfigOf(documents, options, pattern_opts)
<1>1. \A name : Meant(name) = MeantBy(documents, name)
  BY EntitledIs
<1>2. \A name : PatternOf(name) = PatternBy(documents, name)
  BY EntitledIs
<1> QED
  BY <1>1, <1>2, Zenon DEF ConfigInv, ConfigOf, Selects

LEMMA QueueIs == QueueInv <=> QueueOf(pushed, q, processed, popped)
  BY Zenon DEF QueueInv, QueueOf, IsLog

LEMMA InvIs == IInv <=> Inv
<1> DEFINE Dumps == IsDump(dump) /\ IsDump(new_dump)
           Paths(metrics, n) == \A name \in DOMAIN metrics :
                OnlyCounter(name, n) => IsPath(metrics[name].values, name, n)
<1>1. ReaderInv <=> /\ Dumps
                    /\ dump.stamp * MSEC <= now
                    /\ rpc = "publish" => new_dump.shown = processed
                    /\ Reads(reader, dump, pushed, q)
  BY Zenon DEF ReaderInv, Reads
<1>2. CounterPath <=> Paths(metrics_map, processed) /\ Paths(dump.metrics, dump.shown)
  BY Zenon DEF CounterPath
<1>3. IInv <=> /\ TypeOK /\ QueueInv /\ ConfigInv /\ EnabledInv /\ MetricsInv
               /\ OptionsInEffect /\ CounterPath /\ Paths(new_dump.metrics, new_dump.shown)
               /\ BalanceInv /\ ReaderInv
  BY Zenon DEF IInv
<1> HIDE DEF Paths, Dumps
<1>4. Dumps <=> /\ DumpOf(dump, documents, options, pushed, processed)
                /\ DumpOf(new_dump, documents, options, pushed, processed)
  BY DumpIs DEF Dumps
<1>5. ASSUME processed \in Nat, dump.shown \in Nat, new_dump.shown \in Nat
      PROVE  /\ Paths(metrics_map, processed) <=> Shows(metrics_map, pushed, processed)
             /\ Paths(dump.metrics, dump.shown) <=> Shows(dump.metrics, pushed, dump.shown)
             /\ Paths(new_dump.metrics, new_dump.shown) <=>
                    Shows(new_dump.metrics, pushed, new_dump.shown)
  BY <1>5, ShowsIs DEF Paths
<1>6. QueueOf(pushed, q, processed, popped) => processed \in Nat
  BY DEF QueueOf
<1>7. /\ processed \in Nat /\ DumpOf(dump, documents, options, pushed, processed) => dump.shown \in Nat
      /\ processed \in Nat /\ DumpOf(new_dump, documents, options, pushed, processed) => new_dump.shown \in Nat
  BY DEF DumpOf
<1> QED
  BY <1>1, <1>2, <1>3, <1>4, <1>5, <1>6, <1>7, MetricsIs, InEffectIs, BalancedIs, ConfigIs, QueueIs, Zenon
     DEF Inv

-----------------------------------------------------------------------------
(* What stays when events are added. *)

Extends(ev, ew) ==
    /\ Len(ev) \in Nat /\ Len(ew) \in Nat /\ Len(ev) <= Len(ew)
    /\ \A i \in 1 .. Len(ev) : ew[i] = ev[i]

LEMMA LogStep ==
    ASSUME NEW ev, IsLog(ev), NEW e \in Messages,
           e.destination_type = "counter" => e.event_type \in 0 .. 2 /\ e.event_data \in Int
    PROVE  /\ IsLog(Append(ev, e)) /\ Extends(ev, Append(ev, e))
           /\ Len(Append(ev, e)) = Len(ev) + 1 /\ Append(ev, e)[Len(ev) + 1] = e
<1> DEFINE ew == Append(ev, e)
           n == Len(ev)
<1>1. /\ ew \in Seq(Messages) /\ n \in Nat /\ Len(ew) = n + 1 /\ ew[n + 1] = e
      /\ \A i \in 1 .. n : ew[i] = ev[i]
  BY DEF IsLog
<1>2. \A i \in 1 .. n :
        ev[i].destination_type = "counter" => ev[i].event_type \in 0 .. 2 /\ ev[i].event_data \in Int
  BY DEF IsLog
<1> HIDE DEF ew, n
<1>3. \A i \in 1 .. n + 1 : i \in 1 .. n \/ i = n + 1
  BY <1>1
<1>4. \A i \in 1 .. n + 1 :
        ew[i].destination_type = "counter" => ew[i].event_type \in 0 .. 2 /\ ew[i].event_data \in Int
  BY <1>1, <1>2, <1>3
<1>5. IsLog(ew)
  BY <1>1, <1>4 DEF IsLog
<1>6. Extends(ev, ew)
  BY <1>1 DEF Extends, n
<1> QED
  BY <1>1, <1>5, <1>6 DEF ew, n

\* What is known of the first n events.
SameUpto(ev, ew, name, n) ==
    /\ At(ew, name, n) = At(ev, name, n)
    /\ \A i \in At(ev, name, n) : ew[i] = ev[i] /\ i \in 1 .. n
    /\ At(ev, name, n) # {} => KindIn(ew, name) = KindIn(ev, name)
    /\ OnlyCounterIn(ew, name, n) <=> OnlyCounterIn(ev, name, n)
    /\ \A values : PathOf(ew, values, name, n) <=> PathOf(ev, values, name, n)
    /\ BalanceIn(ew, name, n) = BalanceIn(ev, name, n)

LEMMA KindAt ==
    ASSUME NEW ev, Len(ev) \in Nat, NEW name, NEW n \in 0 .. Len(ev), At(ev, name, n) # {}
    PROVE  /\ KindIn(ev, name) = ev[Min(At(ev, name, n))].destination_type
           /\ Min(At(ev, name, n)) \in At(ev, name, n)
<1>1. n \in Nat /\ n <= Len(ev)
  OBVIOUS
<1> QED
  BY <1>1, FirstAt DEF KindIn

LEMMA Kept ==
    ASSUME NEW ev, NEW ew, Extends(ev, ew), NEW n \in 0 .. Len(ev), NEW name
    PROVE  SameUpto(ev, ew, name, n)
<1> DEFINE A == At(ev, name, n)
<1>1. /\ Len(ev) \in Nat /\ Len(ew) \in Nat /\ Len(ev) <= Len(ew) /\ n \in Nat /\ n <= Len(ev)
      /\ \A i \in 1 .. Len(ev) : ew[i] = ev[i]
  BY DEF Extends
<1>2. \A i \in 1 .. n : ew[i] = ev[i]
  BY <1>1
<1>3. At(ew, name, n) = A
  BY <1>2, AtSame
<1>4. \A i \in A : ew[i] = ev[i] /\ i \in 1 .. n
  BY <1>2 DEF At
<1>5. ASSUME A # {}
      PROVE  KindIn(ew, name) = KindIn(ev, name)
  <2>1. KindIn(ev, name) = ev[Min(A)].destination_type /\ Min(A) \in A
    BY <1>1, <1>5, KindAt
  <2>2. KindIn(ew, name) = ew[Min(A)].destination_type
    <3>1. n \in 0 .. Len(ew) /\ At(ew, name, n) # {}
      BY <1>1, <1>3, <1>5
    <3> QED
      BY <1>1, <1>3, <3>1, KindAt
  <2> HIDE DEF A
  <2> QED
    BY <1>4, <2>1, <2>2
<1> HIDE DEF A
<1>6. OnlyCounterIn(ew, name, n) <=> OnlyCounterIn(ev, name, n)
  BY <1>3, <1>4 DEF OnlyCounterIn, A
<1>7. \A values : PathOf(ew, values, name, n) <=> PathOf(ev, values, name, n)
  BY <1>1, <1>3, <1>4, PathSame DEF A
<1>8. BalanceIn(ew, name, n) = BalanceIn(ev, name, n)
  <2>1. [i \in 1 .. n |-> DeltaOf(ew[i])] = [i \in 1 .. n |-> DeltaOf(ev[i])]
    BY <1>2
  <2> QED
    BY <1>3, <2>1 DEF BalanceIn, A
<1> QED
  BY <1>3, <1>4, <1>5, <1>6, <1>7, <1>8 DEF SameUpto, A

LEMMA MetricsKept ==
    ASSUME NEW ev, NEW ew, Extends(ev, ew), NEW n \in 0 .. Len(ev), NEW mm, MetricsOf(mm, ev, n)
    PROVE  MetricsOf(mm, ew, n)
<1>1. \A name : SameUpto(ev, ew, name, n)
  BY Kept
<1>2. \A name : At(ew, name, n) = At(ev, name, n)
  BY <1>1 DEF SameUpto
<1>3. \A name : OnlyCounterIn(ew, name, n) <=> OnlyCounterIn(ev, name, n)
  BY <1>1 DEF SameUpto
<1>4. \A name : At(ev, name, n) # {} => KindIn(ew, name) = KindIn(ev, name)
  BY <1>1 DEF SameUpto
<1>5. DOMAIN mm = {name \in Names : At(ev, name, n) # {}}
  BY DEF MetricsOf
<1>6. \A name \in DOMAIN mm : KindIn(ew, name) = KindIn(ev, name)
  BY <1>4, <1>5
<1>7. DOMAIN mm = {name \in Names : At(ew, name, n) # {}}
  BY <1>2, <1>5
<1> QED
  BY <1>3, <1>6, <1>7 DEF MetricsOf

LEMMA InEffectKept ==
    ASSUME NEW ev, NEW ew, Extends(ev, ew), NEW n \in 0 .. Len(ev), NEW mm, NEW docs, NEW opts,
           InEffect(docs, opts, mm, ev, n)
    PROVE  InEffect(docs, opts, mm, ew, n)
<1>1. \A name : SameUpto(ev, ew, name, n)
  BY Kept
<1>2. \A name : At(ew, name, n) = At(ev, name, n) /\ \A i \in At(ev, name, n) : ew[i] = ev[i]
  BY <1>1 DEF SameUpto
<1>3. \A name : (\E i \in At(ev, name, n) : IsInit(ev[i])) => \E i \in At(ew, name, n) : IsInit(ew[i])
  BY <1>2
<1> QED
  BY <1>3 DEF InEffect

LEMMA ShowsKept ==
    ASSUME NEW ev, NEW ew, Extends(ev, ew), NEW n \in 0 .. Len(ev), NEW metrics,
           Shows(metrics, ev, n)
    PROVE  Shows(metrics, ew, n)
<1>1. \A name : SameUpto(ev, ew, name, n)
  BY Kept
<1> QED
  BY <1>1 DEF SameUpto, Shows

LEMMA DumpKept ==
    ASSUME NEW ev, NEW ew, Extends(ev, ew), NEW n \in 0 .. Len(ev), NEW d, NEW docs, NEW opts,
           DumpOf(d, docs, opts, ev, n)
    PROVE  DumpOf(d, docs, opts, ew, n)
<1>1. d.shown \in 0 .. Len(ev)
  BY DEF DumpOf, Extends
<1>2. \A name : SameUpto(ev, ew, name, d.shown)
  BY <1>1, Kept
<1>3. \A name : At(ew, name, d.shown) = At(ev, name, d.shown)
  BY <1>2 DEF SameUpto
<1>4. \A name : At(ev, name, d.shown) # {} => KindIn(ew, name) = KindIn(ev, name)
  BY <1>2 DEF SameUpto
<1>5. \A name : At(ev, name, d.shown) # {} =>
            TagsIn(docs, opts, ew, name) = TagsIn(docs, opts, ev, name)
  BY <1>4 DEF TagsIn
<1> QED
  BY <1>3, <1>4, <1>5 DEF DumpOf

-----------------------------------------------------------------------------
(* What scopes add up to. *)

LEMMA SetSumSign ==
    ASSUME NEW f, NEW S, IsFiniteSet(S), \A x \in S : f[x] \in Int /\ f[x] >= 0
    PROVE  Sum(f, S) >= 0
<1>1. PICK h : IsFold(f, S, h)
  BY FoldsExist
<1> DEFINE N == Cardinality(S)
           K == {n \in 0 .. N : \A T \in Small(S, n) : h[T] >= 0}
<1>2. N \in Nat
  BY FS_CardinalityType
<1>3. h[{}] = 0 /\ \A T \in SUBSET S : T # {} => \E x \in T : h[T] = h[T \ {x}] + f[x]
  BY <1>1, FoldStep DEF TakesOne
<1>4. \A T \in SUBSET S : h[T] \in Int
  BY <1>1, FoldAny DEF TakesAny
<1>5. 0 \in K
  <2>1. Small(S, 0) = {{}} /\ h[{}] >= 0
    BY <1>3, SmallFacts
  <2>2. 0 \in 0 .. N
    BY <1>2
  <2> HIDE DEF N
  <2> QED
    BY <2>1, <2>2
<1>6. ASSUME NEW n \in 0 .. N - 1, n \in K
      PROVE  n + 1 \in K
  <2>1. n + 1 \in 0 .. N /\ n \in Nat
    BY <1>2
  <2>2. \A T \in Small(S, n) : h[T] >= 0
    BY <1>6
  <2>3. ASSUME NEW T \in Small(S, n + 1)
        PROVE  h[T] >= 0
    <3>1. T \in SUBSET S /\ Cardinality(T) <= n + 1
      BY DEF Small
    <3>2. ASSUME T # {}
          PROVE  h[T] >= 0
      <4>1. PICK x \in T : h[T] = h[T \ {x}] + f[x]
        BY <1>3, <3>1, <3>2
      <4> DEFINE U == T \ {x}
      <4>2. Cardinality(T) \in Nat /\ U \in SUBSET S /\ Cardinality(U) = Cardinality(T) - 1
        BY <3>1, Smaller
      <4>3. Cardinality(U) <= n
        BY <2>1, <3>1, <4>2
      <4>4. U \in Small(S, n)
        BY <4>2, <4>3 DEF Small
      <4>5. h[U] \in Int /\ h[U] >= 0 /\ f[x] \in Int /\ f[x] >= 0
        BY <1>4, <2>2, <3>1, <4>2, <4>4
      <4>6. h[T] = h[U] + f[x]
        BY <4>1
      <4> HIDE DEF U
      <4> QED
        BY <4>5, <4>6
    <3>3. ASSUME T = {}
          PROVE  h[T] >= 0
      <4>1. h[T] = 0
        BY <1>3, <3>3
      <4> QED
        BY <4>1
    <3> QED
      BY <3>2, <3>3
  <2> HIDE DEF N
  <2> QED
    BY <2>1, <2>3
<1>7. N \in K
  <2> HIDE DEF N, K
  <2>1. \A n \in 0 .. N : n \in K
    BY <1>2, <1>5, <1>6, Induction
  <2> QED
    BY <1>2, <2>1
<1>8. \A T \in Small(S, N) : h[T] >= 0
  <2> HIDE DEF N
  <2> QED
    BY <1>7
<1>9. S \in Small(S, N)
  BY SmallFacts
<1>10. Sum(f, S) = h[S]
  BY <1>1, SetSumSame
<1> QED
  BY <1>8, <1>9, <1>10

LEMMA ScopeDeltas ==
    ASSUME NEW ev, IsLog(ev), NEW name, ScopeEvents(ev, name), NEW n \in 0 .. Len(ev),
           NEW i \in At(ev, name, n)
    PROVE  /\ ev[i] \in Messages /\ IsChange(ev[i]) /\ ev[i].destination_type = "counter"
           /\ ev[i].event_type \in 1 .. 2 /\ ev[i].event_data \in Int /\ DeltaOf(ev[i]) \in Int
<1>1. Len(ev) \in Nat /\ n \in Nat /\ n <= Len(ev) /\ ev \in Seq(Messages)
  BY DEF IsLog
<1>2. i \in At(ev, name, Len(ev)) /\ i \in 1 .. Len(ev)
  <2>1. i \in At(ev, name, Len(ev))
    BY <1>1, AtMonotone
  <2> QED
    BY <2>1 DEF At
<1>3. ev[i].destination_type = "counter" /\ ~IsInit(ev[i])
  BY <1>2 DEF ScopeEvents
<1>4. ev[i].event_type \in 0 .. 2 /\ ev[i].event_data \in Int
  BY <1>2, <1>3 DEF IsLog
<1>5. ev[i].event_type # 0
  BY <1>3 DEF IsInit, counter_type
<1>6. DeltaOf(ev[i]) \in Int
  BY <1>4 DEF DeltaOf
<1>7. ev[i] \in Messages
  BY <1>1, <1>2
<1> QED
  BY <1>3, <1>4, <1>5, <1>6, <1>7 DEF IsInit, IsChange

LEMMA BalanceInt ==
    ASSUME NEW ev, IsLog(ev), NEW name, ScopeEvents(ev, name), NEW n \in 0 .. Len(ev)
    PROVE  BalanceIn(ev, name, n) \in Int
<1> DEFINE f == [i \in 1 .. n |-> DeltaOf(ev[i])]
           A == At(ev, name, n)
<1>1. IsFiniteSet(A) /\ A \subseteq 1 .. n
  <2>1. n \in Nat
    BY DEF IsLog
  <2> QED
    BY <2>1, AtFacts
<1>2. \A i \in A : f[i] \in Int
  BY <1>1, ScopeDeltas
<1> HIDE DEF f, A
<1>3. Sum(f, A) \in Int
  BY <1>1, <1>2, SetSumInt
<1> QED
  BY <1>3 DEF BalanceIn, f, A

LEMMA BalanceStep ==
    ASSUME NEW ev, IsLog(ev), NEW name, ScopeEvents(ev, name), NEW n \in 0 .. Len(ev) - 1
    PROVE  BalanceIn(ev, name, n + 1) =
                BalanceIn(ev, name, n)
                + IF ev[n + 1].destination_name = name THEN DeltaOf(ev[n + 1]) ELSE 0
<1> DEFINE f == [i \in 1 .. n |-> DeltaOf(ev[i])]
           g == [i \in 1 .. n + 1 |-> DeltaOf(ev[i])]
           A == At(ev, name, n)
           B == At(ev, name, n + 1)
<1>1. Len(ev) \in Nat /\ n \in Nat /\ n + 1 \in 0 .. Len(ev) /\ n \in 0 .. Len(ev) /\ n + 1 \in Nat
  BY DEF IsLog
<1>2. B = IF ev[n + 1].destination_name = name THEN A \cup {n + 1} ELSE A
  BY <1>1, AtStep
<1>3. IsFiniteSet(A) /\ IsFiniteSet(B) /\ A \subseteq 1 .. n
  BY <1>1, AtFacts
<1>4. \A i \in A : DeltaOf(ev[i]) \in Int
  BY <1>1, ScopeDeltas
<1>5. \A i \in B : DeltaOf(ev[i]) \in Int
  BY <1>1, ScopeDeltas
<1>6. \A i \in 1 .. n : f[i] = DeltaOf(ev[i]) /\ g[i] = DeltaOf(ev[i])
  BY <1>1
<1>7. g[n + 1] = DeltaOf(ev[n + 1]) /\ n + 1 \notin A
  <2>1. n + 1 \notin 1 .. n /\ n + 1 \in 1 .. n + 1
    BY <1>1
  <2> QED
    BY <1>3, <2>1
<1>8. BalanceIn(ev, name, n) = Sum(f, A) /\ BalanceIn(ev, name, n + 1) = Sum(g, B)
  BY DEF BalanceIn
<1>9. BalanceIn(ev, name, n) \in Int
  BY <1>1, BalanceInt
<1> HIDE DEF f, g, A, B
<1>10. CASE ev[n + 1].destination_name = name
  <2>1. n + 1 \in B /\ B \ {n + 1} = A
    BY <1>2, <1>7, <1>10
  <2>2. \A i \in B : g[i] \in Int
    BY <1>2, <1>3, <1>5, <1>6, <1>7, <1>10
  <2>3. \A i \in B \ {n + 1} : f[i] = g[i]
    BY <1>3, <1>6, <2>1
  <2>4. Sum(g, B) = Sum(f, B \ {n + 1}) + g[n + 1]
    BY <1>3, <2>1, <2>2, <2>3, SetSum
  <2> QED
    BY <1>7, <1>8, <1>10, <2>1, <2>4
<1>11. CASE ev[n + 1].destination_name # name
  <2>1. B = A
    BY <1>2, <1>11
  <2>2. \A i \in A : f[i] \in Int /\ g[i] = f[i]
    BY <1>3, <1>4, <1>6
  <2>3. Sum(g, A) = Sum(f, A)
    BY <1>3, <2>2, SetSumEqual
  <2> QED
    BY <1>8, <1>9, <1>11, <2>1, <2>3
<1> QED
  BY <1>10, <1>11

LEMMA BalanceZero ==
    ASSUME NEW ev, NEW name
    PROVE  BalanceIn(ev, name, 0) = 0
<1>1. At(ev, name, 0) = {}
  BY AtFacts
<1> QED
  BY <1>1, SetSumEmpty DEF BalanceIn

\* One producer opens a scope, or had it open before it closed it.
LEMMA HeldStep ==
    ASSUME NEW sc \in [Producers -> Scopes \cup {NoScope}],
           NEW sd \in [Producers -> Scopes \cup {NoScope}],
           NEW p \in Producers, sc[p] = NoScope, sd[p] # NoScope,
           \A r \in Producers \ {p} : sd[r] = sc[r], NEW name
    PROVE  /\ Held(sd, name) = Held(sc, name) + IF sd[p].name = name THEN sd[p].delta ELSE 0
           /\ Held(sc, name) \in Int /\ Held(sd, name) \in Int
<1> DEFINE f == [r \in Producers |-> sc[r].delta]
           g == [r \in Producers |-> sd[r].delta]
           A == OpenIn(sc, name)
           B == OpenIn(sd, name)
<1>1. \A s \in Scopes \cup {NoScope} : s.delta \in Int
  BY CallsAssumption DEF NoScope
<1>2. \A r \in Producers : f[r] = sc[r].delta /\ g[r] = sd[r].delta /\ f[r] \in Int /\ g[r] \in Int
  BY <1>1
<1>3. A \subseteq Producers /\ B \subseteq Producers /\ p \notin A
  BY DEF OpenIn
<1>4. IsFiniteSet(A) /\ IsFiniteSet(B)
  BY <1>3, LibraryAssumption, FS_Subset
<1>5. \A r \in Producers \ {p} : r \in A <=> r \in B
  BY DEF OpenIn
<1>6. p \in B <=> sd[p].name = name
  BY DEF OpenIn
<1>7. Held(sc, name) = Sum(f, A) /\ Held(sd, name) = Sum(g, B)
  BY DEF Held
<1> HIDE DEF A, B, f, g
<1>8. Held(sc, name) \in Int /\ Held(sd, name) \in Int
  <2>1. (\A r \in A : f[r] \in Int) /\ (\A r \in B : g[r] \in Int)
    BY <1>2, <1>3
  <2> QED
    BY <1>4, <1>7, <2>1, SetSumInt
<1>9. \A r \in A : f[r] = g[r] /\ f[r] \in Int
  BY <1>2, <1>3
<1>10. CASE sd[p].name = name
  <2>1. p \in B /\ B \ {p} = A
    BY <1>3, <1>5, <1>6, <1>10
  <2>2. \A r \in B : g[r] \in Int
    BY <1>2, <1>3
  <2>3. \A r \in B \ {p} : f[r] = g[r]
    BY <1>9, <2>1
  <2>4. Sum(g, B) = Sum(f, B \ {p}) + g[p]
    BY <1>4, <2>1, <2>2, <2>3, SetSum
  <2> QED
    BY <1>2, <1>7, <1>8, <1>10, <2>1, <2>4
<1>11. CASE sd[p].name # name
  <2>1. B = A
    BY <1>3, <1>5, <1>6, <1>11
  <2>2. Sum(g, A) = Sum(f, A)
    BY <1>4, <1>9, SetSumEqual
  <2> QED
    BY <1>7, <1>8, <1>11, <2>1, <2>2
<1> QED
  BY <1>8, <1>10, <1>11

LEMMA HeldSign ==
    ASSUME NEW sc \in [Producers -> Scopes \cup {NoScope}], \A s \in Scopes : s.delta >= 0, NEW name
    PROVE  Held(sc, name) >= 0
<1> DEFINE f == [r \in Producers |-> sc[r].delta]
           A == OpenIn(sc, name)
<1>1. \A s \in Scopes : s.delta \in Int
  BY CallsAssumption
<1>2. A \subseteq Producers /\ \A r \in A : f[r] \in Int /\ f[r] >= 0
  BY <1>1 DEF OpenIn
<1>3. IsFiniteSet(A)
  BY <1>2, LibraryAssumption, FS_Subset
<1>4. Held(sc, name) = Sum(f, A)
  BY DEF Held
<1> HIDE DEF f, A
<1> QED
  BY <1>2, <1>3, <1>4, SetSumSign

IsCounterMessage(e) ==
    e.destination_type = "counter" => e.event_type \in 0 .. 2 /\ e.event_data \in Int

LEMMA BalancedPush ==
    ASSUME NEW ev, IsLog(ev), NEW n \in 0 .. Len(ev), NEW e \in Messages, IsCounterMessage(e),
           NEW mm, NEW sc, NEW sd \in [Producers -> Scopes \cup {NoScope}], NEW lost, NEW name,
           Balanced(mm, ev, n, sc, lost, TRUE, name),
           e.destination_name = name => e.destination_type = "counter" /\ ~IsInit(e),
           name \notin lost =>
                Held(sd, name) = Held(sc, name)
                                 + IF e.destination_name = name THEN DeltaOf(e) ELSE 0
    PROVE  Balanced(mm, Append(ev, e), n, sd, lost, TRUE, name)
<1> DEFINE ew == Append(ev, e)
           L == Len(ev)
<1>1. IsLog(ew) /\ Extends(ev, ew) /\ Len(ew) = L + 1 /\ ew[L + 1] = e /\ L \in Nat
  BY LogStep DEF IsLog, IsCounterMessage
<1> HIDE DEF ew
<1>2. \A k \in 0 .. L : SameUpto(ev, ew, name, k)
  BY <1>1, Kept
<1>3. \A k \in 0 .. L : BalanceIn(ew, name, k) = BalanceIn(ev, name, k)
  BY <1>2 DEF SameUpto
<1>4. ScopeEvents(ew, name)
  <2>1. At(ew, name, L) = At(ev, name, L) /\ \A i \in At(ev, name, L) : ew[i] = ev[i]
    <3>1. SameUpto(ev, ew, name, L)
      BY <1>1, <1>2
    <3> QED
      BY <3>1 DEF SameUpto
  <2>2. At(ew, name, L + 1) = IF e.destination_name = name THEN At(ew, name, L) \cup {L + 1}
                              ELSE At(ew, name, L)
    BY <1>1, AtStep
  <2>3. \A i \in At(ev, name, L) : ev[i].destination_type = "counter" /\ ~IsInit(ev[i])
    BY DEF Balanced, ScopeEvents
  <2> HIDE DEF L
  <2>4. \A i \in At(ew, name, L + 1) : ew[i].destination_type = "counter" /\ ~IsInit(ew[i])
    BY <1>1, <2>1, <2>2, <2>3
  <2> QED
    BY <1>1, <2>4 DEF ScopeEvents
<1>5. L \in 0 .. L /\ L \in 0 .. Len(ew) - 1 /\ L + 1 \in 0 .. Len(ew) /\ n \in 0 .. L
  BY <1>1
<1>6. BalanceIn(ew, name, L + 1) =
            BalanceIn(ew, name, L) + IF e.destination_name = name THEN DeltaOf(e) ELSE 0
  <2>1. BalanceIn(ew, name, L + 1) =
            BalanceIn(ew, name, L)
            + IF ew[L + 1].destination_name = name THEN DeltaOf(ew[L + 1]) ELSE 0
    BY <1>1, <1>4, <1>5, BalanceStep
  <2> QED
    BY <1>1, <2>1
<1>7. name \in DOMAIN mm => mm[name].m_value = BalanceIn(ew, name, n)
  BY <1>3, <1>5 DEF Balanced
<1>8. ASSUME name \notin lost
      PROVE  /\ BalanceIn(ew, name, Len(ew)) = Held(sd, name)
             /\ (\A s \in Scopes : s.delta >= 0) =>
                    \A k \in 0 .. Len(ew) : BalanceIn(ew, name, k) >= 0
  <2>1. BalanceIn(ev, name, L) = Held(sc, name)
    BY <1>8 DEF Balanced
  <2>2. BalanceIn(ew, name, L + 1) = Held(sd, name)
    BY <1>3, <1>5, <1>6, <1>8, <2>1
  <2>3. ASSUME \A s \in Scopes : s.delta >= 0, NEW k \in 0 .. Len(ew)
        PROVE  BalanceIn(ew, name, k) >= 0
    <3>1. CASE k = L + 1
      <4>1. Held(sd, name) >= 0
        BY <2>3, HeldSign
      <4> QED
        BY <2>2, <3>1, <4>1
    <3>2. CASE k # L + 1
      <4>1. k \in 0 .. L
        BY <1>1, <3>2
      <4>2. BalanceIn(ev, name, k) >= 0
        BY <1>8, <2>3, <4>1 DEF Balanced
      <4> QED
        BY <1>3, <4>1, <4>2
    <3> QED
      BY <3>1, <3>2
  <2> QED
    BY <1>1, <2>2, <2>3
<1>9. Balanced(mm, ew, n, sd, lost, TRUE, name)
  BY <1>4, <1>7, <1>8 DEF Balanced
<1> QED
  BY <1>9 DEF ew

\* The variables that a push leaves alone.
PushFrame ==
    UNCHANGED <<options, pattern_opts, enabled, now, rpc, popped, processed, metrics_map,
                new_dump, dump_timestamp, dump, reader, documents>>

LEMMA TypeParts ==
    ASSUME TypeOK
    PROVE  /\ now \in Nat /\ processed + Len(q) + (IF popped = NoMessage THEN 0 ELSE 1) = Len(pushed)
  BY LibraryAssumption DEF TypeOK

LEMMA Counts ==
    ASSUME Inv
    PROVE  /\ Len(pushed) \in Nat /\ Len(q) \in Nat /\ processed \in Nat
           /\ processed + Len(q) + (IF popped = NoMessage THEN 0 ELSE 1) = Len(pushed)
           /\ processed \in 0 .. Len(pushed)
           /\ dump.shown \in 0 .. processed /\ new_dump.shown \in 0 .. processed
           /\ dump.shown \in 0 .. Len(pushed) /\ new_dump.shown \in 0 .. Len(pushed)
           /\ now \in Nat
<1>1. /\ QueueOf(pushed, q, processed, popped) /\ TypeOK
      /\ dump.shown \in 0 .. processed /\ new_dump.shown \in 0 .. processed
  BY DEF Inv, DumpOf
<1>2. Len(pushed) \in Nat /\ Len(q) \in Nat /\ processed \in Nat
  BY <1>1 DEF QueueOf, IsLog
<1>3. now \in Nat /\ processed + Len(q) + (IF popped = NoMessage THEN 0 ELSE 1) = Len(pushed)
  BY <1>1, TypeParts
<1> QED
  BY <1>1, <1>2, <1>3

LEMMA PushKeeps ==
    ASSUME Inv, NEW e \in Messages, IsCounterMessage(e), options.core.enable, enabled,
           pushed' = Append(pushed, e), q' = Append(q, e), PushFrame,
           scope' \in [Producers -> Scopes \cup {NoScope}],
           \A name \in Names : OnlyScopes(name) =>
                Balanced(metrics_map, pushed', processed, scope', unbalanced', TRUE, name)
    PROVE  Inv'
<1> DEFINE ev == pushed
           ew == pushed'
           n == processed
<1>1. /\ Len(ev) \in Nat /\ Len(q) \in Nat /\ n \in Nat /\ n \in 0 .. Len(ev)
      /\ n + Len(q) + (IF popped = NoMessage THEN 0 ELSE 1) = Len(ev)
      /\ dump.shown \in 0 .. Len(ev) /\ new_dump.shown \in 0 .. Len(ev)
  BY Counts
<1>2. QueueOf(pushed, q, processed, popped)
  BY DEF Inv
<1>3. IsLog(ew) /\ Extends(ev, ew) /\ Len(ew) = Len(ev) + 1 /\ ew[Len(ev) + 1] = e
  BY <1>2, LogStep DEF QueueOf, IsCounterMessage
<1>4. TypeOK'
  <2>1. Len(q') = Len(q) + 1
    BY <1>2 DEF QueueOf
  <2>2. processed' + Len(q') + (IF popped' = NoMessage THEN 0 ELSE 1) = Len(pushed')
    BY <1>1, <1>3, <2>1 DEF PushFrame
  <2>3. TypeOK
    BY DEF Inv
  <2> QED
    BY <2>2, <2>3 DEF TypeOK, PushFrame
<1>5. EnabledInv'
  BY DEF EnabledInv, PushFrame
<1>6. QueueOf(pushed', q', processed', popped')
  <2>1. q \in Seq(Messages) /\ \A i \in 1 .. Len(q) : q[i] = ev[Len(ev) - Len(q) + i]
    BY <1>2 DEF QueueOf
  <2>2. /\ q' \in Seq(Messages) /\ Len(q') = Len(q) + 1 /\ q'[Len(q) + 1] = e
        /\ \A i \in 1 .. Len(q) : q'[i] = q[i]
    BY <2>1
  <2>3. ASSUME NEW i \in 1 .. Len(q')
        PROVE  q'[i] = ew[Len(ew) - Len(q') + i]
    <3>1. Len(ew) - Len(q') + i = Len(ev) - Len(q) + i
      BY <1>1, <1>3, <2>2
    <3>2. CASE i = Len(q) + 1
      <4>1. Len(ev) - Len(q) + i = Len(ev) + 1
        BY <1>1, <3>2
      <4> QED
        BY <1>3, <2>2, <3>1, <3>2, <4>1
    <3>3. CASE i # Len(q) + 1
      <4>1. i \in 1 .. Len(q)
        BY <1>1, <2>2, <3>3
      <4>2. Len(ev) - Len(q) + i \in 1 .. Len(ev)
        BY <1>1, <4>1
      <4>3. ew[Len(ev) - Len(q) + i] = ev[Len(ev) - Len(q) + i]
        BY <1>3, <4>2 DEF Extends
      <4> QED
        BY <2>1, <2>2, <3>1, <4>1, <4>3
    <3> QED
      BY <3>2, <3>3
  <2>4. popped # NoMessage => popped = ew[n + 1]
    <3>1. ASSUME popped # NoMessage
          PROVE  popped = ew[n + 1]
      <4>1. popped = ev[n + 1]
        BY <1>2, <3>1 DEF QueueOf
      <4>2. n + 1 \in 1 .. Len(ev)
        BY <1>1, <3>1
      <4>3. ew[n + 1] = ev[n + 1]
        BY <1>3, <4>2 DEF Extends
      <4> QED
        BY <4>1, <4>3
    <3> QED
      BY <3>1
  <2> QED
    BY <1>1, <1>3, <2>2, <2>3, <2>4 DEF QueueOf, PushFrame
<1>7. Reads(reader', dump', pushed', q')
  <2>1. Reads(reader, dump, pushed, q)
    BY DEF Inv
  <2>2. Len(q') = Len(q) + 1
    BY <1>2 DEF QueueOf
  <2>3. Len(ew) - Len(q') = Len(ev) - Len(q)
    BY <1>1, <1>3, <2>2
  <2>4. reader.awaited \in 0 .. Len(ew)
    BY <1>1, <1>3, <2>1 DEF Reads
  <2> QED
    BY <2>1, <2>3, <2>4 DEF Reads, PushFrame
<1>8. MetricsOf(metrics_map', pushed', processed')
  BY <1>1, <1>3, MetricsKept DEF Inv, PushFrame
<1>9. InEffect(documents', options', metrics_map', pushed', processed')
  BY <1>1, <1>3, InEffectKept DEF Inv, PushFrame
<1>10. /\ Shows(metrics_map', pushed', processed')
       /\ Shows(dump'.metrics, pushed', dump'.shown)
       /\ Shows(new_dump'.metrics, pushed', new_dump'.shown)
  BY <1>1, <1>3, ShowsKept DEF Inv, PushFrame
<1>11. /\ DumpOf(dump', documents', options', pushed', processed')
       /\ DumpOf(new_dump', documents', options', pushed', processed')
  BY <1>1, <1>3, DumpKept DEF Inv, PushFrame
<1>12. \A name \in Names : OnlyScopes(name) =>
            Balanced(metrics_map', pushed', processed', scope', unbalanced', enabled', name)
  <2>1. enabled = TRUE
    BY DEF Inv, TypeOK
  <2> QED
    BY <2>1 DEF PushFrame
<1>13. /\ ConfigOf(documents', options', pattern_opts') /\ LastSays(documents', options')
       /\ dump'.stamp * MSEC <= now'
       /\ rpc' = "publish" => new_dump'.shown = processed'
  BY DEF Inv, PushFrame
<1> QED
  BY <1>4, <1>5, <1>6, <1>7, <1>8, <1>9, <1>10, <1>11, <1>12, <1>13, Zenon DEF Inv, OnlyScopes, Names

-----------------------------------------------------------------------------
(* The steps of the producers. *)

LEMMA SendKeeps ==
    ASSUME Inv, NEW e \in Messages, IsCounterMessage(e), Send(e),
           NEW call \in Calls, e.destination_name = call.name
    PROVE  Inv'
<1>1. /\ options.core.enable /\ enabled /\ PushFrame
      /\ pushed' = Append(pushed, e) /\ q' = Append(q, e)
      /\ scope' = scope /\ unbalanced' = unbalanced
  BY DEF Send, Push, is_enabled, PushFrame, configVars, processorVars, dumpVars
<1>2. /\ IsLog(pushed) /\ processed \in 0 .. Len(pushed) /\ Len(pushed) \in Nat
      /\ scope \in [Producers -> Scopes \cup {NoScope}] /\ enabled = TRUE
  BY <1>1, Counts DEF Inv, QueueOf, TypeOK
<1>3. ASSUME NEW name \in Names, OnlyScopes(name)
      PROVE  Balanced(metrics_map, pushed', processed, scope', unbalanced', TRUE, name)
  <2>1. Balanced(metrics_map, pushed, processed, scope, unbalanced, TRUE, name)
    BY <1>2, <1>3 DEF Inv
  <2>2. e.destination_name # name
    BY <1>3 DEF OnlyScopes
  <2>3. name \notin unbalanced => Held(scope, name) = Held(scope, name) + 0
    <3>1. ScopeEvents(pushed, name) /\ Len(pushed) \in 0 .. Len(pushed)
      BY <1>2, <2>1 DEF Balanced
    <3>2. BalanceIn(pushed, name, Len(pushed)) \in Int
      BY <1>2, <3>1, BalanceInt
    <3>3. name \notin unbalanced => Held(scope, name) \in Int
      BY <2>1, <3>2 DEF Balanced
    <3> QED
      BY <3>3
  <2>4. name \notin unbalanced =>
            Held(scope, name) = Held(scope, name)
                                + IF e.destination_name = name THEN DeltaOf(e) ELSE 0
    BY <2>2, <2>3
  <2>5. Balanced(metrics_map, Append(pushed, e), processed, scope, unbalanced, TRUE, name)
    BY <1>2, <2>1, <2>2, <2>4, BalancedPush
  <2> QED
    BY <1>1, <2>5
<1> QED
  BY <1>1, <1>2, <1>3, PushKeeps

LEMMA CallsKeep ==
    ASSUME Inv, NEW call \in Calls,
           CounterCall(call) \/ GaugeCall(call) \/ TimerCall(call) \/ AttributeCall(call)
    PROVE  Inv'
<1>1. call.name \in Names /\ call.value \in Int \cup {c.value : c \in Calls}
  BY DEF Names
<1>2. /\ "counter" \in Kinds /\ "gauge" \in Kinds /\ "timer" \in Kinds /\ "attribute" \in Kinds
  BY DEF Kinds
<1>3. CASE CounterCall(call)
  <2>1. call.kind = "counter" /\ call.type \in DOMAIN counter_type /\ call.value \in Int
    BY <1>3, CallsAssumption DEF CounterCall
  <2> DEFINE e == counter_event(call.type, call.name, call.value)
  <2>2. counter_type[call.type] \in 0 .. 2
    BY <2>1 DEF counter_type
  <2>3. e = [destination_type |-> "counter", event_type |-> counter_type[call.type],
             destination_name |-> call.name, event_data |-> call.value]
    BY DEF counter_event, event_message
  <2>4. Send(e)
    BY <1>3 DEF CounterCall
  <2> HIDE DEF e
  <2>5. e \in Messages /\ IsCounterMessage(e) /\ e.destination_name = call.name
    BY <1>1, <1>2, <2>1, <2>2, <2>3 DEF Messages, IsCounterMessage
  <2> QED
    BY <2>4, <2>5, SendKeeps
<1>4. CASE GaugeCall(call)
  <2>1. call.type \in DOMAIN gauge_type
    BY <1>4, CallsAssumption DEF GaugeCall
  <2> DEFINE e == gauge_event(call.type, call.name, call.value)
  <2>2. gauge_type[call.type] \in 0 .. 5
    BY <2>1 DEF gauge_type
  <2>3. e = [destination_type |-> "gauge", event_type |-> gauge_type[call.type],
             destination_name |-> call.name, event_data |-> call.value]
    BY DEF gauge_event, event_message
  <2>4. Send(e)
    BY <1>4 DEF GaugeCall
  <2> HIDE DEF e
  <2>5. e \in Messages /\ IsCounterMessage(e) /\ e.destination_name = call.name
    BY <1>1, <1>2, <2>2, <2>3 DEF Messages, IsCounterMessage
  <2> QED
    BY <2>4, <2>5, SendKeeps
<1>5. CASE TimerCall(call)
  <2>1. call.type \in DOMAIN timer_type
    BY <1>5, CallsAssumption DEF TimerCall
  <2> DEFINE e == timer_event(call.type, call.name, call.value)
  <2>2. timer_type[call.type] \in 0 .. 5
    BY <2>1 DEF timer_type
  <2>3. e = [destination_type |-> "timer", event_type |-> timer_type[call.type],
             destination_name |-> call.name, event_data |-> call.value]
    BY DEF timer_event, event_message
  <2>4. Send(e)
    BY <1>5 DEF TimerCall
  <2> HIDE DEF e
  <2>5. e \in Messages /\ IsCounterMessage(e) /\ e.destination_name = call.name
    BY <1>1, <1>2, <2>2, <2>3 DEF Messages, IsCounterMessage
  <2> QED
    BY <2>4, <2>5, SendKeeps
<1>6. CASE AttributeCall(call)
  <2> DEFINE e == attribute_event(call.name, call.value)
  <2>2. attribute_type.SET \in 0 .. 5
    BY DEF attribute_type
  <2>3. e = [destination_type |-> "attribute", event_type |-> attribute_type.SET,
             destination_name |-> call.name, event_data |-> call.value]
    BY DEF attribute_event, event_message
  <2>4. Send(e)
    BY <1>6 DEF AttributeCall
  <2> HIDE DEF e
  <2>5. e \in Messages /\ IsCounterMessage(e) /\ e.destination_name = call.name
    BY <1>1, <1>2, <2>2, <2>3 DEF Messages, IsCounterMessage
  <2> QED
    BY <2>4, <2>5, SendKeeps
<1> QED
  BY <1>3, <1>4, <1>5, <1>6

\* The event of a scope changes its counter by what it says.
LEMMA ChangeEvent ==
    ASSUME NEW name \in Names, NEW delta \in Int
    PROVE  LET e == counter_change_event(name, delta)
           IN  /\ e \in Messages /\ IsCounterMessage(e) /\ e.destination_name = name
               /\ e.destination_type = "counter" /\ ~IsInit(e) /\ DeltaOf(e) = delta
<1> DEFINE type == IF delta >= 0 THEN 1 ELSE 2
           data == IF delta >= 0 THEN delta ELSE -delta
           e == counter_change_event(name, delta)
<1>1. e = [destination_type |-> "counter", event_type |-> type,
           destination_name |-> name, event_data |-> data]
  BY DEF counter_change_event, counter_event, event_message, counter_type
<1>2. type \in 1 .. 2 /\ data \in Int /\ (IF type = 1 THEN data ELSE -data) = delta
  OBVIOUS
<1> HIDE DEF type, data, e
<1>3. e \in Messages
  <2>1. "counter" \in Kinds /\ type \in 0 .. 5
    BY <1>2 DEF Kinds
  <2> QED
    BY <1>1, <1>2, <2>1 DEF Messages
<1>4. ~IsInit(e) /\ DeltaOf(e) = delta
  BY <1>1, <1>2 DEF IsInit, DeltaOf, counter_type
<1>5. IsCounterMessage(e) /\ e.destination_name = name /\ e.destination_type = "counter"
  BY <1>1, <1>2 DEF IsCounterMessage
<1> QED
  BY <1>3, <1>4, <1>5 DEF e

LEMMA QuietKeeps ==
    ASSUME Inv, PushFrame, pushed' = pushed, q' = q,
           scope' \in [Producers -> Scopes \cup {NoScope}],
           \A name \in Names : OnlyScopes(name) =>
                Balanced(metrics_map, pushed, processed, scope', unbalanced', enabled, name)
    PROVE  Inv'
<1>1. TypeOK'
  BY DEF Inv, TypeOK, PushFrame
<1>2. EnabledInv'
  BY DEF Inv, EnabledInv, PushFrame
<1>3. /\ options' = options /\ pattern_opts' = pattern_opts /\ enabled' = enabled
      /\ now' = now /\ rpc' = rpc /\ popped' = popped /\ processed' = processed
      /\ metrics_map' = metrics_map /\ new_dump' = new_dump /\ dump' = dump
      /\ reader' = reader /\ documents' = documents /\ pushed' = pushed /\ q' = q
  BY DEF PushFrame
<1> QED
  BY <1>1, <1>2, <1>3, Zenon DEF Inv, OnlyScopes, Names

LEMMA ScopeFacts ==
    ASSUME Inv
    PROVE  /\ scope \in [Producers -> Scopes \cup {NoScope}]
           /\ enabled => options.core.enable
           /\ enabled \in BOOLEAN
           /\ is_enabled <=> enabled
           /\ \A s \in Scopes : s.name \in Names /\ s.delta \in Int
           /\ IsLog(pushed) /\ processed \in 0 .. Len(pushed)
           /\ \A name \in Names : OnlyScopes(name) =>
                Balanced(metrics_map, pushed, processed, scope, unbalanced, enabled, name)
<1>1. TypeOK /\ EnabledInv /\ QueueOf(pushed, q, processed, popped)
  BY DEF Inv
<1>2. \A s \in Scopes : s.name \in Names /\ s.delta \in Int
  BY CallsAssumption DEF Names
<1>3. processed \in 0 .. Len(pushed)
  BY Counts
<1>4. \A name \in Names : OnlyScopes(name) =>
                Balanced(metrics_map, pushed, processed, scope, unbalanced, enabled, name)
  BY DEF Inv
<1> QED
  BY <1>1, <1>2, <1>3, <1>4 DEF TypeOK, EnabledInv, QueueOf, is_enabled

LEMMA OpenScopeKeeps ==
    ASSUME Inv, NEW p \in Producers, NEW s \in Scopes, OpenScope(p, s)
    PROVE  Inv'
<1> DEFINE sd == [scope EXCEPT ![p] = s]
           e == counter_change_event(s.name, s.delta)
<1>1. /\ scope \in [Producers -> Scopes \cup {NoScope}]
      /\ is_enabled <=> enabled
      /\ s.name \in Names /\ s.delta \in Int
      /\ IsLog(pushed) /\ processed \in 0 .. Len(pushed)
      /\ enabled \in BOOLEAN /\ (enabled => options.core.enable)
  BY ScopeFacts
<1>2. \A name \in Names : OnlyScopes(name) =>
                Balanced(metrics_map, pushed, processed, scope, unbalanced, enabled, name)
  BY ScopeFacts
<1>3. /\ scope[p] = NoScope /\ scope' = sd /\ PushFrame
      /\ unbalanced' = IF is_enabled THEN unbalanced ELSE unbalanced \cup {s.name}
  BY DEF OpenScope, PushFrame, configVars, processorVars, dumpVars
<1>4. sd \in [Producers -> Scopes \cup {NoScope}] /\ sd[p] = s
      /\ \A r \in Producers \ {p} : sd[r] = scope[r]
  BY <1>1
<1>5. s = NoScope => sd = scope
  BY <1>1, <1>3
<1>6. Push(e)
  BY DEF OpenScope
<1> HIDE DEF sd
<1>7. ASSUME NEW name \in Names, s # NoScope
      PROVE  /\ Held(sd, name) = Held(scope, name) + IF s.name = name THEN s.delta ELSE 0
             /\ Held(scope, name) \in Int
  BY <1>1, <1>3, <1>4, <1>7, HeldStep
<1>8. CASE is_enabled
  <2>1. /\ e \in Messages /\ IsCounterMessage(e) /\ e.destination_name = s.name
        /\ e.destination_type = "counter" /\ ~IsInit(e) /\ DeltaOf(e) = s.delta
    BY <1>1, ChangeEvent
  <2>2. pushed' = Append(pushed, e) /\ q' = Append(q, e) /\ unbalanced' = unbalanced
    BY <1>3, <1>6, <1>8 DEF Push
  <2> HIDE DEF e
  <2>3. ASSUME NEW name \in Names, OnlyScopes(name)
        PROVE  Balanced(metrics_map, pushed', processed, scope', unbalanced', TRUE, name)
    <3>1. enabled = TRUE
      BY <1>1, <1>8
    <3>2. Balanced(metrics_map, pushed, processed, scope, unbalanced, TRUE, name)
      BY <1>2, <2>3, <3>1
    <3>3. ASSUME name \notin unbalanced
          PROVE  Held(sd, name) = Held(scope, name)
                                  + IF e.destination_name = name THEN DeltaOf(e) ELSE 0
      <4>1. CASE s # NoScope
        BY <1>7, <2>1, <4>1
      <4>2. CASE s = NoScope
        <5>1. Held(scope, name) = BalanceIn(pushed, name, Len(pushed)) /\ ScopeEvents(pushed, name)
          BY <3>2, <3>3 DEF Balanced
        <5>2. Len(pushed) \in 0 .. Len(pushed)
          BY <1>1
        <5>3. Held(scope, name) \in Int
          BY <1>1, <5>1, <5>2, BalanceInt
        <5>4. DeltaOf(e) = 0
          BY <2>1, <4>2 DEF NoScope
        <5> QED
          BY <1>5, <4>2, <5>3, <5>4
      <4> QED
        BY <4>1, <4>2
    <3>4. Balanced(metrics_map, Append(pushed, e), processed, sd, unbalanced, TRUE, name)
      BY <1>1, <1>4, <2>1, <3>2, <3>3, BalancedPush
    <3> QED
      BY <1>3, <2>2, <3>4
  <2>4. options.core.enable /\ enabled
    BY <1>1, <1>8
  <2>5. scope' \in [Producers -> Scopes \cup {NoScope}]
    BY <1>3, <1>4
  <2> QED
    BY <1>3, <2>1, <2>2, <2>3, <2>4, <2>5, PushKeeps
<1>9. CASE ~is_enabled
  <2>1. pushed' = pushed /\ q' = q /\ unbalanced' = unbalanced \cup {s.name} /\ ~enabled
    BY <1>1, <1>3, <1>6, <1>9 DEF Push
  <2>2. ASSUME NEW name \in Names, OnlyScopes(name)
        PROVE  Balanced(metrics_map, pushed, processed, scope', unbalanced', enabled, name)
    <3>1. Balanced(metrics_map, pushed, processed, scope, unbalanced, enabled, name)
      BY <1>2, <2>2
    <3>2. CASE name = s.name
      BY <2>1, <3>1, <3>2 DEF Balanced
    <3>3. CASE name # s.name
      <4>1. OpenIn(sd, name) = OpenIn(scope, name)
        <5>1. \A r \in Producers : (sd[r] # NoScope /\ sd[r].name = name)
                                   <=> (scope[r] # NoScope /\ scope[r].name = name)
          BY <1>3, <1>4, <3>3
        <5> QED
          BY <5>1 DEF OpenIn
      <4>2. Held(sd, name) = Held(scope, name)
        BY <1>5, <1>7, <3>3
      <4> QED
        BY <1>3, <2>1, <3>1, <3>3, <4>1, <4>2 DEF Balanced
    <3> QED
      BY <3>2, <3>3
  <2>3. scope' \in [Producers -> Scopes \cup {NoScope}]
    BY <1>3, <1>4
  <2> QED
    BY <1>3, <2>1, <2>2, <2>3, QuietKeeps
<1> QED
  BY <1>8, <1>9

LEMMA CloseScopeKeeps ==
    ASSUME Inv, NEW p \in Producers, CloseScope(p)
    PROVE  Inv'
<1> DEFINE sd == [scope EXCEPT ![p] = NoScope]
           s == scope[p]
           e == counter_change_event(s.name, -s.delta)
<1>1. /\ scope \in [Producers -> Scopes \cup {NoScope}]
      /\ is_enabled <=> enabled
      /\ \A r \in Scopes : r.name \in Names /\ r.delta \in Int
      /\ IsLog(pushed) /\ processed \in 0 .. Len(pushed)
      /\ enabled \in BOOLEAN /\ (enabled => options.core.enable)
  BY ScopeFacts
<1>2. \A name \in Names : OnlyScopes(name) =>
                Balanced(metrics_map, pushed, processed, scope, unbalanced, enabled, name)
  BY ScopeFacts
<1>3. s # NoScope /\ scope' = sd /\ PushFrame /\ unbalanced' = unbalanced
  BY DEF CloseScope, PushFrame, configVars, processorVars, dumpVars
<1>4. /\ sd \in [Producers -> Scopes \cup {NoScope}] /\ sd[p] = NoScope
      /\ \A r \in Producers \ {p} : sd[r] = scope[r]
      /\ s \in Scopes /\ s.name \in Names /\ s.delta \in Int /\ -s.delta \in Int
  BY <1>1, <1>3
<1>5. Push(e)
  BY DEF CloseScope, Closing
<1> HIDE DEF sd
<1>6. ASSUME NEW name \in Names
      PROVE  /\ Held(scope, name) = Held(sd, name) + IF s.name = name THEN s.delta ELSE 0
             /\ Held(sd, name) \in Int
  <2>1. \A r \in Producers \ {p} : scope[r] = sd[r]
    BY <1>4
  <2> QED
    BY <1>1, <1>3, <1>4, <2>1, HeldStep
<1> HIDE DEF s
<1>7. CASE is_enabled
  <2>1. /\ e \in Messages /\ IsCounterMessage(e) /\ e.destination_name = s.name
        /\ e.destination_type = "counter" /\ ~IsInit(e) /\ DeltaOf(e) = -s.delta
    BY <1>4, ChangeEvent
  <2>2. pushed' = Append(pushed, e) /\ q' = Append(q, e)
    BY <1>5, <1>7 DEF Push
  <2> HIDE DEF e
  <2>3. ASSUME NEW name \in Names, OnlyScopes(name)
        PROVE  Balanced(metrics_map, pushed', processed, scope', unbalanced', TRUE, name)
    <3>1. enabled = TRUE
      BY <1>1, <1>7
    <3>2. Balanced(metrics_map, pushed, processed, scope, unbalanced, TRUE, name)
      BY <1>2, <2>3, <3>1
    <3>3. Held(sd, name) = Held(scope, name)
                           + IF e.destination_name = name THEN DeltaOf(e) ELSE 0
      BY <1>4, <1>6, <2>1
    <3>4. Balanced(metrics_map, Append(pushed, e), processed, sd, unbalanced, TRUE, name)
      BY <1>1, <1>4, <2>1, <3>2, <3>3, BalancedPush
    <3> QED
      BY <1>3, <2>2, <3>4
  <2>4. options.core.enable /\ enabled
    BY <1>1, <1>7
  <2>5. scope' \in [Producers -> Scopes \cup {NoScope}]
    BY <1>3, <1>4
  <2> QED
    BY <1>3, <2>1, <2>2, <2>3, <2>4, <2>5, PushKeeps
<1>8. CASE ~is_enabled
  <2>1. pushed' = pushed /\ q' = q /\ ~enabled
    BY <1>1, <1>5, <1>8 DEF Push
  <2>2. ASSUME NEW name \in Names, OnlyScopes(name)
        PROVE  Balanced(metrics_map, pushed, processed, scope', unbalanced', enabled, name)
    <3>1. Balanced(metrics_map, pushed, processed, scope, unbalanced, enabled, name)
      BY <1>2, <2>2
    <3>2. CASE name \in unbalanced
      BY <1>3, <3>1, <3>2 DEF Balanced
    <3>3. CASE name \notin unbalanced
      <4>1. OpenIn(scope, name) = {}
        BY <2>1, <3>1, <3>3 DEF Balanced
      <4>2. s.name # name
        BY <1>3, <4>1 DEF OpenIn, s
      <4>3. OpenIn(sd, name) = {}
        <5>1. \A r \in Producers : ~(sd[r] # NoScope /\ sd[r].name = name)
          BY <1>4, <4>1 DEF OpenIn
        <5> QED
          BY <5>1 DEF OpenIn
      <4>4. Held(sd, name) = Held(scope, name)
        BY <1>6, <4>2
      <4> QED
        BY <1>3, <2>1, <3>1, <3>3, <4>3, <4>4 DEF Balanced
    <3> QED
      BY <3>2, <3>3
  <2>3. scope' \in [Producers -> Scopes \cup {NoScope}]
    BY <1>3, <1>4
  <2> QED
    BY <1>3, <2>1, <2>2, <2>3, QuietKeeps
<1> QED
  BY <1>7, <1>8

-----------------------------------------------------------------------------
(* The steps of the clock, of the configuration and of the reader. *)

LEMMA TickKeeps == ASSUME Inv, Tick PROVE Inv'
<1>1. /\ now' = now + 1 /\ now < MaxTime
      /\ UNCHANGED <<options, pattern_opts, enabled, q, scope, pushed, unbalanced, rpc, popped,
                     processed, metrics_map, new_dump, dump_timestamp, dump, reader, documents>>
  BY DEF Tick, configVars, producerVars, processorVars, dumpVars
<1>2. MaxTime \in Nat
  BY LibraryAssumption
<1>3. TypeOK'
  BY <1>1, <1>2 DEF Inv, TypeOK
<1>4. EnabledInv'
  BY <1>1 DEF Inv, EnabledInv
<1>5. dump'.stamp * MSEC <= now'
  <2>1. dump.stamp \in Nat /\ dump.stamp * MSEC <= now
    BY DEF Inv, DumpOf
  <2>2. now \in Nat /\ MSEC \in Nat
    BY Counts, LibraryAssumption
  <2> DEFINE x == dump.stamp * MSEC
  <2>3. x \in Int
    BY <2>1, <2>2
  <2>4. x <= now
    BY <2>1
  <2> HIDE DEF x
  <2>5. x <= now + 1
    BY <2>2, <2>3, <2>4
  <2> QED
    BY <1>1, <2>5 DEF x
<1> QED
  BY <1>1, <1>3, <1>4, <1>5, Zenon DEF Inv, OnlyScopes, Names

LEMMA InitializeKeeps == ASSUME Inv, Initialize PROVE Inv'
<1>1. /\ ~enabled /\ options.core.enable /\ enabled' = TRUE
      /\ UNCHANGED <<options, pattern_opts, now, q, scope, pushed, unbalanced, rpc, popped,
                     processed, metrics_map, new_dump, dump_timestamp, dump, reader, documents>>
  BY DEF Initialize, configVars, producerVars, processorVars, dumpVars
<1>2. TypeOK'
  BY <1>1 DEF Inv, TypeOK
<1>3. EnabledInv'
  BY <1>1 DEF Inv, EnabledInv
<1>4. \A name \in Names : OnlyScopes(name) =>
        Balanced(metrics_map, pushed, processed, scope, unbalanced, enabled', name)
  BY <1>1 DEF Inv, Balanced
<1> QED
  BY <1>1, <1>2, <1>3, <1>4, Zenon DEF Inv, OnlyScopes, Names

LEMMA StartWaitKeeps == ASSUME Inv, StartWait PROVE Inv'
<1>1. /\ reader.pc = "idle"
      /\ reader' = [reader EXCEPT !.pc = "queue", !.awaited = Len(pushed)]
      /\ UNCHANGED <<options, pattern_opts, enabled, now, q, scope, pushed, unbalanced, rpc, popped,
                     processed, metrics_map, new_dump, dump_timestamp, dump, documents>>
  BY DEF StartWait, configVars, producerVars, processorVars, dumpVars
<1>2. TypeOK'
  BY <1>1 DEF Inv, TypeOK
<1>3. EnabledInv'
  BY <1>1 DEF Inv, EnabledInv
<1>4. Reads(reader', dump, pushed, q)
  <2>1. reader = [pc |-> reader.pc, awaited |-> reader.awaited, since |-> reader.since]
    BY DEF Inv, Reads
  <2>2. reader' = [pc |-> "queue", awaited |-> Len(pushed), since |-> reader.since]
    BY <1>1, <2>1
  <2>3. Len(pushed) \in Nat
    BY Counts
  <2> QED
    BY <2>2, <2>3 DEF Reads
<1> QED
  BY <1>1, <1>2, <1>3, <1>4, Zenon DEF Inv, OnlyScopes, Names

LEMMA SeeEmptyKeeps == ASSUME Inv, SeeEmpty PROVE Inv'
<1>1. /\ reader.pc = "queue" /\ q = << >> /\ now < MaxTime /\ now' = now + 1
      /\ reader' = [reader EXCEPT !.pc = "dump", !.since = now']
      /\ UNCHANGED <<options, pattern_opts, enabled, q, scope, pushed, unbalanced, rpc, popped,
                     processed, metrics_map, new_dump, dump_timestamp, dump, documents>>
  BY DEF SeeEmpty, empty, configVars, producerVars, processorVars, dumpVars
<1>2. MaxTime \in Nat /\ now \in Nat
  BY LibraryAssumption, Counts
<1>3. TypeOK'
  BY <1>1, <1>2 DEF Inv, TypeOK
<1>4. EnabledInv'
  BY <1>1 DEF Inv, EnabledInv
<1> DEFINE x == dump.stamp * MSEC
<1>5. x \in Int /\ x <= now
  BY LibraryAssumption DEF Inv, DumpOf
<1> HIDE DEF x
<1>6. x <= now' /\ ~(x >= now')
  BY <1>1, <1>2, <1>5
<1>7. Reads(reader', dump, pushed, q)
  <2>1. /\ reader = [pc |-> reader.pc, awaited |-> reader.awaited, since |-> reader.since]
        /\ reader.awaited \in 0 .. Len(pushed)
    BY DEF Inv, Reads
  <2>2. reader' = [pc |-> "dump", awaited |-> reader.awaited, since |-> now']
    BY <1>1, <2>1
  <2>3. Len(pushed) \in Nat /\ Len(q) = 0 /\ now' \in Nat
    BY <1>1, <1>2, Counts
  <2>4. reader'.pc = "dump" /\ reader'.awaited = reader.awaited /\ reader'.since = now'
    BY <2>2
  <2>5. ~(dump.stamp * MSEC >= reader'.since)
    BY <1>6, <2>4 DEF x
  <2> QED
    BY <2>1, <2>2, <2>3, <2>4, <2>5 DEF Reads
<1>8. dump'.stamp * MSEC <= now'
  BY <1>1, <1>6 DEF x
<1> QED
  BY <1>1, <1>3, <1>4, <1>7, <1>8, Zenon DEF Inv, OnlyScopes, Names

-----------------------------------------------------------------------------
(* The steps of the processor thread. *)

LEMMA PopKeeps == ASSUME Inv, Pop PROVE Inv'
<1>1. /\ rpc = "loop" /\ q # << >> /\ popped' = Head(q) /\ q' = Tail(q) /\ rpc' = "process"
      /\ UNCHANGED <<options, pattern_opts, enabled, now, scope, pushed, unbalanced,
                     processed, metrics_map, new_dump, dump_timestamp, dump, reader, documents>>
  BY DEF Pop, empty, configVars, producerVars, dumpVars
<1>2. QueueOf(pushed, q, processed, popped) /\ TypeOK /\ Reads(reader, dump, pushed, q)
  BY DEF Inv
<1>3. popped = NoMessage
  BY <1>1, <1>2 DEF TypeOK
<1>4. /\ Len(pushed) \in Nat /\ Len(q) \in Nat /\ processed \in Nat
      /\ processed + Len(q) = Len(pushed)
  BY <1>3, Counts
<1>5. /\ q \in Seq(Messages) /\ \A i \in 1 .. Len(q) : q[i] = pushed[Len(pushed) - Len(q) + i]
  BY <1>2 DEF QueueOf
<1>6. /\ Head(q) = q[1] /\ Tail(q) \in Seq(Messages) /\ Len(Tail(q)) = Len(q) - 1
      /\ \A i \in 1 .. Len(Tail(q)) : Tail(q)[i] = q[i + 1]
      /\ 1 \in 1 .. Len(q) /\ Head(q) \in Messages
  BY <1>1, <1>5
<1>7. popped' = pushed[processed + 1]
  <2>1. Len(pushed) - Len(q) + 1 = processed + 1
    BY <1>4
  <2> QED
    BY <1>1, <1>5, <1>6, <2>1
<1>8. popped' # NoMessage
  <2>1. popped'.destination_type \in Kinds
    BY <1>1, <1>6 DEF Messages
  <2> QED
    BY <2>1 DEF NoMessage, Kinds
<1>9. \A i \in 1 .. Len(q') : q'[i] = pushed[Len(pushed) - Len(q') + i]
  <2>1. SUFFICES ASSUME NEW i \in 1 .. Len(q')
                 PROVE  q'[i] = pushed[Len(pushed) - Len(q') + i]
    OBVIOUS
  <2>2. i + 1 \in 1 .. Len(q) /\ Len(pushed) - Len(q) + (i + 1) = Len(pushed) - Len(q') + i
    BY <1>1, <1>4, <1>6
  <2>3. q'[i] = q[i + 1]
    BY <1>1, <1>6
  <2> QED
    BY <1>5, <2>2, <2>3
<1>10. QueueOf(pushed', q', processed', popped')
  BY <1>1, <1>2, <1>6, <1>7, <1>9 DEF QueueOf
<1>11. TypeOK'
  <2>1. processed' + Len(q') + (IF popped' = NoMessage THEN 0 ELSE 1) = Len(pushed')
    BY <1>1, <1>4, <1>6, <1>8
  <2> QED
    BY <1>1, <1>2, <1>8, <2>1 DEF TypeOK
<1>12. EnabledInv'
  BY <1>1 DEF Inv, EnabledInv
<1>13. Reads(reader', dump', pushed', q')
  <2>1. reader.awaited \in 0 .. Len(pushed)
    BY <1>2 DEF Reads
  <2>2. reader.awaited <= Len(pushed) - Len(q) => reader.awaited <= Len(pushed) - Len(q')
    BY <1>1, <1>4, <1>6, <2>1
  <2> QED
    BY <1>1, <1>2, <2>2 DEF Reads
<1>14. rpc' # "publish"
  BY <1>1
<1> QED
  BY <1>1, <1>10, <1>11, <1>12, <1>13, <1>14, Zenon DEF Inv, OnlyScopes, Names

LEMMA PublishKeeps == ASSUME Inv, Publish PROVE Inv'
<1>1. /\ rpc = "publish" /\ dump' = [new_dump EXCEPT !.stamp = Milliseconds(now)]
      /\ new_dump' = NoDump /\ rpc' = "loop"
      /\ UNCHANGED <<options, pattern_opts, enabled, now, q, scope, pushed, unbalanced, popped,
                     processed, metrics_map, dump_timestamp, reader, documents>>
  BY DEF Publish, configVars, producerVars
<1>2. /\ TypeOK /\ Reads(reader, dump, pushed, q) /\ new_dump.shown = processed
      /\ DumpOf(new_dump, documents, options, pushed, processed)
      /\ Shows(new_dump.metrics, pushed, new_dump.shown)
  BY <1>1 DEF Inv
<1>3. /\ Len(pushed) \in Nat /\ Len(q) \in Nat /\ processed \in Nat /\ now \in Nat
      /\ processed + Len(q) = Len(pushed)
  <2>1. popped = NoMessage
    BY <1>1, <1>2 DEF TypeOK
  <2> QED
    BY <2>1, Counts
<1> DEFINE m == now \div MSEC
<1>4. MSEC \in Nat \ {0}
  BY LibraryAssumption
<1>5. m \in Nat /\ m * MSEC <= now
  BY <1>3, <1>4
<1>6. /\ dump' = [stamp |-> m, metrics |-> new_dump.metrics, shown |-> new_dump.shown]
      /\ dump'.stamp = m /\ dump'.metrics = new_dump.metrics /\ dump'.shown = new_dump.shown
  <2>1. new_dump = [stamp |-> new_dump.stamp, metrics |-> new_dump.metrics, shown |-> new_dump.shown]
    BY <1>2 DEF DumpOf
  <2> HIDE DEF m
  <2>2. dump' = [new_dump EXCEPT !.stamp = m]
    BY <1>1 DEF Milliseconds, m
  <2>3. dump' = [stamp |-> m, metrics |-> new_dump.metrics, shown |-> new_dump.shown]
    BY <2>1, <2>2
  <2> QED
    BY <2>3
<1> HIDE DEF m
<1>7. DumpOf(dump', documents', options', pushed', processed')
  BY <1>1, <1>2, <1>5, <1>6 DEF DumpOf
<1>8. /\ NoDump = [stamp |-> NoDump.stamp, metrics |-> NoDump.metrics, shown |-> NoDump.shown]
      /\ NoDump.stamp = 0 /\ NoDump.metrics = << >> /\ NoDump.shown = 0 /\ DOMAIN NoDump.metrics = {}
  BY DEF NoDump
<1>9. IsFunction(NoDump.metrics)
  BY <1>8 DEF IsFunction
<1>10. DumpOf(new_dump', documents', options', pushed', processed')
  <2>1. \A name : At(pushed, name, 0) = {}
    BY AtFacts
  <2>2. 0 \in 0 .. processed
    BY <1>3
  <2> QED
    BY <1>1, <1>8, <1>9, <2>1, <2>2 DEF DumpOf
<1>11. Shows(new_dump'.metrics, pushed', new_dump'.shown)
  BY <1>1, <1>8 DEF Shows
<1>12. Shows(dump'.metrics, pushed', dump'.shown)
  BY <1>1, <1>2, <1>6
<1>13. dump'.stamp * MSEC <= now'
  BY <1>1, <1>5, <1>6
<1>14. Reads(reader', dump', pushed', q')
  <2>1. reader.pc = "dump" => reader.awaited <= dump'.shown
    <3>1. reader.pc = "dump" => reader.awaited <= Len(pushed) - Len(q)
      BY <1>2 DEF Reads
    <3>2. dump'.shown = Len(pushed) - Len(q)
      BY <1>2, <1>3, <1>6
    <3> QED
      BY <3>1, <3>2
  <2>2. reader.awaited \in Nat /\ dump'.shown \in Nat
    BY <1>2, <1>3, <1>6 DEF Reads
  <2>3. reader.pc = "dump" => dump'.shown >= reader.awaited
    BY <2>1, <2>2
  <2> QED
    BY <1>1, <1>2, <2>3 DEF Reads
<1>15. TypeOK'
  BY <1>1, <1>2 DEF TypeOK
<1>16. EnabledInv'
  BY <1>1 DEF Inv, EnabledInv
<1>17. rpc' # "publish"
  BY <1>1
<1> QED
  BY <1>1, <1>7, <1>10, <1>11, <1>12, <1>13, <1>14, <1>15, <1>16, <1>17, Zenon
     DEF Inv, OnlyScopes, Names

\* The tags of a metric are among those that it may have.
LEMMA TagsInEffect ==
    ASSUME NEW docs, NEW opts, NEW mm, NEW ev, NEW n, MetricsOf(mm, ev, n),
           InEffect(docs, opts, mm, ev, n), NEW name \in DOMAIN mm, mm[name].kind # "attribute"
    PROVE  mm[name].opts.tags \in TagsIn(docs, opts, ev, name)
<1>1. mm[name].kind = KindIn(ev, name)
  BY DEF MetricsOf
<1>2. \/ mm[name].opts = EntitledBy(docs, opts, mm[name].kind, name)
      \/ mm[name].opts = opts[mm[name].kind]
  BY DEF InEffect
<1> QED
  BY <1>1, <1>2 DEF TagsIn

LEMMA UpdateKeeps == ASSUME Inv, Update PROVE Inv'
<1> DEFINE S == {name \in DOMAIN metrics_map : Shown(metrics_map[name])}
           shown == [name \in S |-> metrics_map[name]]
<1>1. /\ rpc = "loop" /\ dump_timestamp' = now /\ rpc' = "publish" /\ new_dump' = create_dump
      /\ UNCHANGED <<options, pattern_opts, enabled, now, q, scope, pushed, unbalanced, popped,
                     processed, metrics_map, dump, reader, documents>>
  BY DEF Update, configVars, producerVars
<1>2. create_dump = [stamp |-> 0, metrics |-> shown, shown |-> processed]
  BY DEF create_dump
<1>3. /\ MetricsOf(metrics_map, pushed, processed)
      /\ InEffect(documents, options, metrics_map, pushed, processed)
      /\ Shows(metrics_map, pushed, processed) /\ TypeOK
  BY DEF Inv
<1>4. processed \in Nat /\ now \in Nat
  BY Counts
<1>5. /\ new_dump'.stamp = 0 /\ new_dump'.metrics = shown /\ new_dump'.shown = processed
      /\ new_dump' = [stamp |-> new_dump'.stamp, metrics |-> new_dump'.metrics,
                      shown |-> new_dump'.shown]
  <2> HIDE DEF shown
  <2> QED
    BY <1>1, <1>2
<1>6. /\ DOMAIN shown = S /\ IsFunction(shown)
      /\ \A name \in S : shown[name] = metrics_map[name] /\ name \in DOMAIN metrics_map
  <2>1. DOMAIN shown = S /\ \A name \in S : shown[name] = metrics_map[name] /\ name \in DOMAIN metrics_map
    OBVIOUS
  <2>2. shown = [name \in S |-> shown[name]]
    OBVIOUS
  <2> HIDE DEF shown, S
  <2> QED
    BY <2>1, <2>2 DEF IsFunction
<1>7. \A name \in DOMAIN metrics_map :
        name \in S <=> metrics_map[name].kind = "attribute" \/ metrics_map[name].opts.tags # {}
  BY DEF Shown
<1>8. \A name \in DOMAIN metrics_map : name \in Names /\ At(pushed, name, processed) # {}
                                       /\ metrics_map[name].kind = KindIn(pushed, name)
  BY <1>3 DEF MetricsOf
<1>9. \A name \in Names : At(pushed, name, processed) # {} => name \in DOMAIN metrics_map
  BY <1>3 DEF MetricsOf
<1>10. \A name \in DOMAIN metrics_map : metrics_map[name].kind # "attribute" =>
            metrics_map[name].opts.tags \in TagsIn(documents, options, pushed, name)
  BY <1>3, TagsInEffect
<1> HIDE DEF shown, S
<1>11. ASSUME NEW name \in Names, At(pushed, name, processed) # {}
       PROVE  IF name \in S
              THEN /\ shown[name].kind = KindIn(pushed, name)
                   /\ KindIn(pushed, name) # "attribute" =>
                        shown[name].opts.tags \in TagsIn(documents, options, pushed, name) \ {{}}
              ELSE KindIn(pushed, name) # "attribute"
                   /\ {} \in TagsIn(documents, options, pushed, name)
  <2>1. name \in DOMAIN metrics_map
    BY <1>9, <1>11
  <2>2. CASE name \in S
    BY <1>6, <1>7, <1>8, <1>10, <2>1, <2>2
  <2>3. CASE name \notin S
    BY <1>7, <1>8, <1>10, <2>1, <2>3
  <2> QED
    BY <2>2, <2>3
<1>12. DumpOf(new_dump', documents', options', pushed', processed')
  <2>1. \A name \in S : name \in Names /\ At(pushed, name, processed) # {}
    BY <1>6, <1>8
  <2>2. new_dump'.stamp \in Nat /\ new_dump'.shown \in 0 .. processed
    BY <1>4, <1>5
  <2>3. IsFunction(new_dump'.metrics) /\ DOMAIN new_dump'.metrics = S
    BY <1>5, <1>6
  <2> QED
    BY <1>1, <1>5, <1>11, <2>1, <2>2, <2>3 DEF DumpOf
<1>13. Shows(new_dump'.metrics, pushed', new_dump'.shown)
  <2>1. \A name \in S : OnlyCounterIn(pushed, name, processed) =>
                            PathOf(pushed, shown[name].values, name, processed)
    BY <1>3, <1>6 DEF Shows
  <2> QED
    BY <1>1, <1>5, <1>6, <2>1 DEF Shows
<1>14. TypeOK'
  BY <1>1, <1>3, <1>4 DEF TypeOK
<1>15. EnabledInv'
  BY <1>1 DEF Inv, EnabledInv
<1>16. rpc' = "publish" => new_dump'.shown = processed'
  BY <1>1, <1>5
<1> QED
  BY <1>1, <1>12, <1>13, <1>14, <1>15, <1>16, Zenon DEF Inv, OnlyScopes, Names

-----------------------------------------------------------------------------
(* What an event does to a metric. *)

Metric(k, o, vs, mv, d) == [kind |-> k, opts |-> o, values |-> vs, m_value |-> mv, dated |-> d]

WithValues(m, x) == [m EXCEPT !.values = x]
WithValue(m, x) == [m EXCEPT !.m_value = x]
WithDate(m, x) == [m EXCEPT !.dated = x]

LEMMA ValuesExcept ==
    ASSUME NEW k, NEW o, NEW vs, NEW mv, NEW d, NEW x
    PROVE  WithValues(Metric(k, o, vs, mv, d), x) = Metric(k, o, x, mv, d)
  BY DEF Metric, WithValues

LEMMA ValueExcept ==
    ASSUME NEW k, NEW o, NEW vs, NEW mv, NEW d, NEW x
    PROVE  WithValue(Metric(k, o, vs, mv, d), x) = Metric(k, o, vs, x, d)
  BY DEF Metric, WithValue

LEMMA DateExcept ==
    ASSUME NEW k, NEW o, NEW vs, NEW mv, NEW d, NEW x
    PROVE  WithDate(Metric(k, o, vs, mv, d), x) = Metric(k, o, vs, mv, x)
  BY DEF Metric, WithDate

LEMMA MetricFields ==
    ASSUME NEW m, IsMetric(m), NEW v
    PROVE  /\ Feed(m, v) = Metric(m.kind, m.opts, Append(m.values, v), m.m_value, m.dated)
           /\ attribute_set(m, v) = Metric(m.kind, m.opts, m.values, v, m.dated)
           /\ counter_init(m, v) = Metric(m.kind, m.opts, <<v>>, v, TRUE)
           /\ WithValue(m, v) = Metric(m.kind, m.opts, m.values, v, m.dated)
           /\ m = Metric(m.kind, m.opts, m.values, m.m_value, m.dated)
<1> DEFINE k == m.kind
           o == m.opts
           vs == m.values
           mv == m.m_value
           d == m.dated
           yes == TRUE
<1>1. m = Metric(k, o, vs, mv, d)
  BY DEF IsMetric, Metric
<1>2. Feed(m, v) = WithValues(m, Append(vs, v))
  BY DEF Feed, WithValues
<1>3. counter_init(m, v) = WithValues(WithDate(WithValue(m, v), yes), <<v>>)
  BY Zenon DEF counter_init, WithValues, WithValue, WithDate
<1>4. attribute_set(m, v) = WithValue(m, v)
  BY DEF attribute_set, WithValue
<1> HIDE DEF k, o, vs, mv, d, yes
<1>5. Feed(m, v) = Metric(k, o, Append(vs, v), mv, d)
  <2>1. WithValues(Metric(k, o, vs, mv, d), Append(vs, v)) = Metric(k, o, Append(vs, v), mv, d)
    BY ValuesExcept
  <2> QED
    BY <1>1, <1>2, <2>1, Zenon
<1>6. WithValue(m, v) = Metric(k, o, vs, v, d)
  <2>1. WithValue(Metric(k, o, vs, mv, d), v) = Metric(k, o, vs, v, d)
    BY ValueExcept
  <2> QED
    BY <1>1, <2>1, Zenon
<1>7. WithDate(WithValue(m, v), yes) = Metric(k, o, vs, v, yes)
  <2>1. WithDate(Metric(k, o, vs, v, d), yes) = Metric(k, o, vs, v, yes)
    BY DateExcept
  <2> QED
    BY <1>6, <2>1, Zenon
<1>8. counter_init(m, v) = Metric(k, o, <<v>>, v, yes)
  <2>1. WithValues(Metric(k, o, vs, v, yes), <<v>>) = Metric(k, o, <<v>>, v, yes)
    BY ValuesExcept
  <2> QED
    BY <1>3, <1>7, <2>1, Zenon
<1> QED
  BY <1>1, <1>4, <1>5, <1>6, <1>8, Zenon DEF k, o, vs, mv, d, yes

LEMMA MetricIs ==
    ASSUME NEW k, NEW o, NEW vs, NEW mv, NEW d, NEW m, m = Metric(k, o, vs, mv, d)
    PROVE  /\ IsMetric(m) /\ m.kind = k /\ m.opts = o /\ m.values = vs
           /\ m.m_value = mv /\ m.dated = d
  BY DEF Metric, IsMetric

LEMMA NewIs ==
    ASSUME NEW k, NEW o
    PROVE  New(k, o) = Metric(k, o, << >>, 0, FALSE)
  BY DEF New, Metric

\* What increment() and decrement() make of a counter.
Changed(m, x) == Metric(m.kind, m.opts, Append(m.values, m.m_value + x), m.m_value + x, m.dated)

LEMMA ChangedIs ==
    ASSUME NEW c, IsMetric(c), NEW x
    PROVE  Feed([c EXCEPT !.m_value = @ + x], c.m_value + x) = Changed(c, x)
<1> DEFINE v == c.m_value + x
           w == WithValue(c, v)
<1>1. w = Metric(c.kind, c.opts, c.values, v, c.dated)
  BY MetricFields
<1>2. [c EXCEPT !.m_value = @ + x] = w
  BY DEF WithValue
<1> HIDE DEF v, w
<1>3. IsMetric(w) /\ w.kind = c.kind /\ w.opts = c.opts /\ w.values = c.values
      /\ w.m_value = v /\ w.dated = c.dated
  BY <1>1, MetricIs
<1>4. Feed(w, v) = Metric(w.kind, w.opts, Append(w.values, v), w.m_value, w.dated)
  BY <1>3, MetricFields
<1>5. Feed(w, v) = Metric(c.kind, c.opts, Append(c.values, v), v, c.dated)
  BY <1>3, <1>4
<1> QED
  BY <1>2, <1>5, Zenon DEF Changed, v

LEMMA CounterInit ==
    ASSUME NEW m, IsMetric(m), NEW v
    PROVE  LET c == counter_init(m, v)
           IN  IsMetric(c) /\ c.kind = m.kind /\ c.opts = m.opts /\ c.values = <<v>>
               /\ c.m_value = v /\ c.dated
<1> DEFINE yes == TRUE
           vs == <<v>>
           c == counter_init(m, v)
           k == m.kind
           o == m.opts
<1>1. c = Metric(k, o, vs, v, yes)
  BY MetricFields
<1> HIDE DEF yes, c, vs, k, o
<1>2. IsMetric(c) /\ c.kind = k /\ c.opts = o /\ c.values = vs
      /\ c.m_value = v /\ c.dated = yes
  BY <1>1, MetricIs
<1> QED
  BY <1>2, Zenon DEF yes, c, vs, k, o

LEMMA CounterChange ==
    ASSUME NEW m, IsMetric(m), NEW x
    PROVE  /\ m.dated => counter_change(m, x) = Changed(m, x)
           /\ ~m.dated => counter_change(m, x) = Changed(counter_init(m, 0), x)
<1>1. CASE m.dated
  <2>1. counter_change(m, x) = Feed([m EXCEPT !.m_value = @ + x], m.m_value + x)
    BY <1>1 DEF counter_change
  <2> QED
    BY <1>1, <2>1, ChangedIs
<1>2. CASE ~m.dated
  <2> DEFINE c == counter_init(m, 0)
  <2>1. IsMetric(c)
    BY CounterInit
  <2>2. counter_change(m, x) = Feed([c EXCEPT !.m_value = @ + x], c.m_value + x)
    BY <1>2 DEF counter_change
  <2> HIDE DEF c
  <2>3. counter_change(m, x) = Changed(c, x)
    BY <2>1, <2>2, ChangedIs
  <2> QED
    BY <1>2, <2>3, Zenon DEF c
<1> QED
  BY <1>1, <1>2

LEMMA ChangedFields ==
    ASSUME NEW m, IsMetric(m), NEW x
    PROVE  /\ IsMetric(Changed(m, x)) /\ Changed(m, x).kind = m.kind
           /\ Changed(m, x).opts = m.opts
           /\ Changed(m, x).values = Append(m.values, m.m_value + x)
           /\ Changed(m, x).m_value = m.m_value + x /\ Changed(m, x).dated = m.dated
<1> DEFINE c == Changed(m, x)
           vs == Append(m.values, m.m_value + x)
           mv == m.m_value + x
           k == m.kind
           o == m.opts
           d == m.dated
<1>1. c = Metric(k, o, vs, mv, d)
  BY DEF Changed
<1> HIDE DEF c, vs, mv, k, o, d
<1>2. IsMetric(c) /\ c.kind = k /\ c.opts = o /\ c.values = vs
      /\ c.m_value = mv /\ c.dated = d
  BY <1>1, MetricIs
<1> QED
  BY <1>2, Zenon DEF c, vs, mv, k, o, d

LEMMA NewFields ==
    ASSUME NEW k, NEW o
    PROVE  IsMetric(New(k, o)) /\ New(k, o).kind = k /\ New(k, o).opts = o
           /\ New(k, o).values = << >> /\ New(k, o).m_value = 0 /\ ~New(k, o).dated
<1> DEFINE m == New(k, o)
           no == FALSE
           none == << >>
           zero == 0
<1>1. m = Metric(k, o, none, zero, no)
  BY NewIs
<1> HIDE DEF m, no, none, zero
<1>2. IsMetric(m) /\ m.kind = k /\ m.opts = o /\ m.values = none
      /\ m.m_value = zero /\ m.dated = no
  BY <1>1, MetricIs
<1> QED
  BY <1>2, Zenon DEF m, no, none, zero

LEMMA FeedFields ==
    ASSUME NEW m, IsMetric(m), NEW v
    PROVE  IsMetric(Feed(m, v)) /\ Feed(m, v).kind = m.kind /\ Feed(m, v).opts = m.opts
<1> DEFINE p == Feed(m, v)
           vs == Append(m.values, v)
           k == m.kind
           o == m.opts
           mv == m.m_value
           d == m.dated
<1>1. p = Metric(k, o, vs, mv, d)
  BY MetricFields
<1> HIDE DEF p, vs, k, o, mv, d
<1>2. IsMetric(p) /\ p.kind = k /\ p.opts = o
  BY <1>1, MetricIs
<1> QED
  BY <1>2, Zenon DEF p, k, o

LEMMA AttributeSet ==
    ASSUME NEW m, IsMetric(m), NEW v
    PROVE  IsMetric(attribute_set(m, v)) /\ attribute_set(m, v).kind = m.kind
           /\ attribute_set(m, v).opts = m.opts
<1> DEFINE p == attribute_set(m, v)
           k == m.kind
           o == m.opts
           vs == m.values
           d == m.dated
<1>1. p = Metric(k, o, vs, v, d)
  BY MetricFields
<1> HIDE DEF p, k, o, vs, d
<1>2. IsMetric(p) /\ p.kind = k /\ p.opts = o
  BY <1>1, MetricIs
<1> QED
  BY <1>2, Zenon DEF p, k, o


LEMMA CounterChangeFields ==
    ASSUME NEW m, IsMetric(m), NEW x
    PROVE  LET p == counter_change(m, x)
           IN  /\ IsMetric(p) /\ p.kind = m.kind /\ p.opts = m.opts
               /\ m.dated => p.values = Append(m.values, m.m_value + x)
                             /\ p.m_value = m.m_value + x
               /\ ~m.dated => p.values = Append(<<0>>, 0 + x) /\ p.m_value = 0 + x
               /\ p.dated
<1> DEFINE p == counter_change(m, x)
<1>1. CASE m.dated
  <2>1. p = Changed(m, x)
    BY <1>1, CounterChange
  <2> HIDE DEF p
  <2>2. IsMetric(p) /\ p.kind = m.kind /\ p.opts = m.opts
        /\ p.values = Append(m.values, m.m_value + x) /\ p.m_value = m.m_value + x
        /\ p.dated = m.dated
    BY <2>1, ChangedFields
  <2>3. p.dated
    BY <1>1, <2>2, Zenon
  <2> QED
    BY <1>1, <2>2, <2>3, Zenon DEF p
<1>2. CASE ~m.dated
  <2> DEFINE zero == 0
             c == counter_init(m, zero)
             vs == <<zero>>
  <2>1. p = Changed(c, x)
    BY <1>2, CounterChange
  <2>2. IsMetric(c) /\ c.kind = m.kind /\ c.opts = m.opts /\ c.values = vs
        /\ c.m_value = zero /\ c.dated
    BY CounterInit
  <2> HIDE DEF p, c, zero, vs
  <2>3. IsMetric(p) /\ p.kind = m.kind /\ p.opts = m.opts
        /\ p.values = Append(vs, zero + x) /\ p.m_value = zero + x /\ p.dated = c.dated
    BY <2>1, <2>2, ChangedFields
  <2>4. p.dated
    BY <2>2, <2>3, Zenon
  <2> QED
    BY <1>2, <2>3, <2>4, Zenon DEF p, vs, zero
<1> HIDE DEF p
<1> QED
  BY <1>1, <1>2, Zenon

LEMMA EventTypes ==
    /\ counter_type.INIT = 0 /\ counter_type.INCREMENT = 1 /\ counter_type.DECREMENT = 2
    /\ gauge_type.INIT = 0 /\ gauge_type.SET = 1
    /\ timer_type.INIT = 0 /\ timer_type.SET = 5
  BY DEF counter_type, gauge_type, timer_type

\* The metric m after an event of the type t with the data v.
Followed(m, t, p) ==
    /\ IsMetric(p) /\ p.kind = m.kind
    /\ \/ p.opts = m.opts
       \/ t = 0 /\ p.opts = options[m.kind]

LEMMA CounterFollowed ==
    ASSUME NEW m, IsMetric(m), m.kind = "counter", NEW t, NEW v
    PROVE  Followed(m, t, counter_process_event(m, t, v))
<1> DEFINE p == counter_process_event(m, t, v)
           new == New("counter", options.counter)
<1>1. CASE t = 0
  <2>1. p = counter_init(new, v)
    BY <1>1, EventTypes DEF counter_process_event
  <2>2. IsMetric(new) /\ new.kind = "counter" /\ new.opts = options.counter
    BY NewFields
  <2> HIDE DEF new
  <2>3. IsMetric(p) /\ p.kind = new.kind /\ p.opts = new.opts
    BY <2>1, <2>2, CounterInit
  <2> HIDE DEF p
  <2>4. options.counter = options["counter"]
    OBVIOUS
  <2> QED
    BY <1>1, <2>2, <2>3, <2>4, Zenon DEF Followed, p
<1>2. CASE t = 1
  <2>1. p = counter_change(m, v)
    BY <1>2, EventTypes DEF counter_process_event
  <2> QED
    BY <2>1, CounterChangeFields DEF Followed
<1>3. CASE t = 2
  <2>1. p = counter_change(m, -v)
    BY <1>3, EventTypes DEF counter_process_event
  <2> QED
    BY <2>1, CounterChangeFields DEF Followed
<1>4. CASE t \notin {0, 1, 2}
  <2>1. p = m
    BY <1>4, EventTypes DEF counter_process_event
  <2> QED
    BY <2>1 DEF Followed
<1> QED
  BY <1>1, <1>2, <1>3, <1>4

LEMMA GaugeFollowed ==
    ASSUME NEW m, IsMetric(m), m.kind = "gauge", NEW t, NEW v
    PROVE  Followed(m, t, gauge_process_event(m, t, v))
<1> DEFINE p == gauge_process_event(m, t, v)
           new == New("gauge", options.gauge)
<1>1. CASE t = 0
  <2>1. p = Feed(new, v)
    BY <1>1, EventTypes DEF gauge_process_event, gauge_set
  <2>2. IsMetric(new) /\ new.kind = "gauge" /\ new.opts = options.gauge
    BY NewFields
  <2> HIDE DEF new
  <2>3. IsMetric(p) /\ p.kind = new.kind /\ p.opts = new.opts
    BY <2>1, <2>2, FeedFields
  <2> HIDE DEF p
  <2> QED
    BY <1>1, <2>2, <2>3, Zenon DEF Followed, p
<1>2. CASE t = 1
  <2>1. p = Feed(m, v)
    BY <1>2, EventTypes DEF gauge_process_event, gauge_set
  <2> QED
    BY <2>1, FeedFields DEF Followed
<1>3. CASE t \notin {0, 1}
  <2>1. p = m
    BY <1>3, EventTypes DEF gauge_process_event
  <2> QED
    BY <2>1 DEF Followed
<1> QED
  BY <1>1, <1>2, <1>3

LEMMA TimerFollowed ==
    ASSUME NEW m, IsMetric(m), m.kind = "timer", NEW t, NEW v
    PROVE  Followed(m, t, timer_process_event(m, t, v))
<1> DEFINE p == timer_process_event(m, t, v)
           new == New("timer", options.timer)
<1>1. CASE t = 0
  <2>1. p = new
    BY <1>1, EventTypes DEF timer_process_event
  <2>2. IsMetric(new) /\ new.kind = "timer" /\ new.opts = options.timer
    BY NewFields
  <2> HIDE DEF new, p
  <2> QED
    BY <1>1, <2>1, <2>2, Zenon DEF Followed, p
<1>2. CASE t = 5
  <2>1. p = Feed(m, v)
    BY <1>2, EventTypes DEF timer_process_event
  <2> QED
    BY <2>1, FeedFields DEF Followed
<1>3. CASE t \notin {0, 5}
  <2>1. p = m
    BY <1>3, EventTypes DEF timer_process_event
  <2> QED
    BY <2>1 DEF Followed
<1> QED
  BY <1>1, <1>2, <1>3

LEMMA AttributeFollowed ==
    ASSUME NEW m, IsMetric(m), NEW t, NEW v
    PROVE  Followed(m, t, attribute_process_event(m, t, v))
  BY AttributeSet DEF Followed, attribute_process_event

\* Whatever kind an event is for, a metric keeps its kind, and its options
\* unless the event is an INIT.
LEMMA ProcessEvent ==
    ASSUME NEW m, IsMetric(m), m.kind \in Kinds, NEW e
    PROVE  Followed(m, e.event_type, process_event(m, e))
<1> DEFINE t == e.event_type
           v == IF e.destination_type = m.kind THEN e.event_data ELSE Misread
           p == process_event(m, e)
<1>1. CASE m.kind = "counter"
  <2>1. p = counter_process_event(m, t, v)
    BY <1>1 DEF process_event
  <2> HIDE DEF p, v
  <2> QED
    BY <1>1, <2>1, CounterFollowed DEF p
<1>2. CASE m.kind = "gauge"
  <2>1. p = gauge_process_event(m, t, v)
    BY <1>2 DEF process_event
  <2> HIDE DEF p, v
  <2> QED
    BY <1>2, <2>1, GaugeFollowed DEF p
<1>3. CASE m.kind = "timer"
  <2>1. p = timer_process_event(m, t, v)
    BY <1>3 DEF process_event
  <2> HIDE DEF p, v
  <2> QED
    BY <1>3, <2>1, TimerFollowed DEF p
<1>4. CASE m.kind = "attribute"
  <2>1. p = attribute_process_event(m, t, v)
    BY <1>4 DEF process_event
  <2> HIDE DEF p, v
  <2> QED
    BY <1>4, <2>1, AttributeFollowed DEF p
<1> QED
  BY <1>1, <1>2, <1>3, <1>4 DEF Kinds

\* An event for a counter that is one begins its values or adds one to them.
CounterStep(m, e, p) ==
    IF IsInit(e) THEN p.values = <<e.event_data>> /\ p.m_value = e.event_data /\ p.dated
    ELSE /\ p.dated
         /\ m.dated => /\ p.values = Append(m.values, m.m_value + DeltaOf(e))
                       /\ p.m_value = m.m_value + DeltaOf(e)
         /\ ~m.dated => /\ p.values = Append(<<0>>, 0 + DeltaOf(e))
                        /\ p.m_value = 0 + DeltaOf(e)

LEMMA CounterEvent ==
    ASSUME NEW m, IsMetric(m), m.kind = "counter",
           NEW e, e.destination_type = "counter", e.event_type \in 0 .. 2
    PROVE  CounterStep(m, e, process_event(m, e))
<1> DEFINE p == process_event(m, e)
           t == e.event_type
           v == e.event_data
           x == DeltaOf(e)
           new == New("counter", options.counter)
<1>1. p = counter_process_event(m, t, v)
  BY DEF process_event
<1>2. IsInit(e) <=> t = 0
  BY EventTypes DEF IsInit
<1>3. CASE t = 0
  <2>1. p = counter_init(new, v)
    BY <1>1, <1>3, EventTypes DEF counter_process_event
  <2>2. IsMetric(new)
    BY NewFields
  <2> HIDE DEF p, new, v
  <2>3. p.values = <<v>> /\ p.m_value = v /\ p.dated
    BY <2>1, <2>2, CounterInit
  <2> QED
    BY <1>2, <1>3, <2>3, Zenon DEF CounterStep, v, p
<1>4. CASE t \in {1, 2}
  <2>1. p = counter_change(m, x)
    <3>1. CASE t = 1
      <4>1. x = v
        BY <3>1, EventTypes DEF DeltaOf
      <4>2. p = counter_change(m, v)
        BY <1>1, <3>1, EventTypes DEF counter_process_event
      <4> QED
        BY <4>1, <4>2
    <3>2. CASE t = 2
      <4>1. x = -v
        BY <3>2, EventTypes DEF DeltaOf
      <4>2. p = counter_change(m, -v)
        BY <1>1, <3>2, EventTypes DEF counter_process_event
      <4> QED
        BY <4>1, <4>2
    <3> QED
      BY <1>4, <3>1, <3>2
  <2> HIDE DEF p, x
  <2>2. /\ m.dated => p.values = Append(m.values, m.m_value + x) /\ p.m_value = m.m_value + x
        /\ ~m.dated => p.values = Append(<<0>>, 0 + x) /\ p.m_value = 0 + x
        /\ p.dated
    BY <2>1, CounterChangeFields
  <2>3. ~IsInit(e)
    BY <1>2, <1>4
  <2> QED
    BY <2>2, <2>3, Zenon DEF CounterStep, p, x
<1> QED
  BY <1>3, <1>4

\* The message that the thread has is the next event.
ProcessedIs(e) ==
    /\ processed \in Nat /\ Len(pushed) \in Nat /\ processed + 1 \in 1 .. Len(pushed)
    /\ processed \in 0 .. Len(pushed) - 1 /\ processed + 1 \in 0 .. Len(pushed)
    /\ processed \in 0 .. Len(pushed)
    /\ e = pushed[processed + 1] /\ e \in Messages /\ IsCounterMessage(e)
    /\ e.destination_name \in Names /\ e.destination_type \in Kinds

LEMMA PoppedIs == ASSUME Inv, rpc = "process" PROVE ProcessedIs(popped)
<1>1. TypeOK /\ QueueOf(pushed, q, processed, popped)
  BY DEF Inv
<1>2. popped # NoMessage
  BY <1>1 DEF TypeOK
<1>3. /\ Len(pushed) \in Nat /\ Len(q) \in Nat /\ processed \in Nat
      /\ processed + Len(q) + 1 = Len(pushed)
  BY <1>2, Counts
<1>4. popped = pushed[processed + 1]
  BY <1>1, <1>2 DEF QueueOf
<1>5. processed + 1 \in 1 .. Len(pushed) /\ processed \in 0 .. Len(pushed) - 1
      /\ processed + 1 \in 0 .. Len(pushed) /\ processed \in 0 .. Len(pushed)
  BY <1>3
<1>6. pushed[processed + 1] \in Messages /\ IsCounterMessage(pushed[processed + 1])
  BY <1>1, <1>5 DEF QueueOf, IsLog, IsCounterMessage
<1>7. popped.destination_name \in Names /\ popped.destination_type \in Kinds
  BY <1>4, <1>6 DEF Messages
<1> QED
  BY <1>3, <1>4, <1>5, <1>6, <1>7 DEF ProcessedIs

\* The metric that the event finds, or that is made for it.
Found(e) == IF e.destination_name \in DOMAIN metrics_map THEN metrics_map[e.destination_name]
            ELSE new_metric(e)

LEMMA NewMetric ==
    ASSUME Inv, NEW e, e.destination_name \in Names, e.destination_type \in Kinds
    PROVE  /\ IsMetric(new_metric(e)) /\ new_metric(e).kind = e.destination_type
           /\ new_metric(e).m_value = 0 /\ ~new_metric(e).dated
           /\ e.destination_type # "attribute" =>
                new_metric(e).opts =
                    EntitledBy(documents, options, e.destination_type, e.destination_name)
<1> DEFINE k == e.destination_type
           name == e.destination_name
           settings == select_pattern(pattern_opts, name)
           opts == IF k = "attribute" THEN << >> ELSE configure(options[k], settings)
           m == new_metric(e)
<1>1. m = New(k, opts)
  BY DEF new_metric
<1>2. ConfigOf(documents, options, pattern_opts)
  BY DEF Inv
<1>3. Selects(documents, pattern_opts, name)
  BY <1>2 DEF ConfigOf
<1>4. k # "attribute" => IsFunction(options[k])
  BY <1>2 DEF ConfigOf, Kinds, Defaults
<1>5. k # "attribute" => opts = configure(options[k], settings)
  OBVIOUS
<1>6. /\ MeantBy(documents, name) # {} => settings = PatternBy(documents, name).settings
      /\ MeantBy(documents, name) = {} => settings = << >>
  BY <1>3 DEF Selects, select_pattern
<1> HIDE DEF m, opts, settings, k, name
<1>7. ASSUME k # "attribute"
      PROVE  opts = EntitledBy(documents, options, k, name)
  <2>1. CASE MeantBy(documents, name) = {}
    <3>1. settings = << >>
      BY <1>6, <2>1
    <3>2. configure(options[k], << >>) = options[k]
      BY <1>4, <1>7, ConfigureNothing
    <3> QED
      BY <1>5, <1>7, <2>1, <3>1, <3>2 DEF EntitledBy
  <2>2. CASE MeantBy(documents, name) # {}
    BY <1>5, <1>6, <1>7, <2>2 DEF EntitledBy
  <2> QED
    BY <2>1, <2>2
<1>8. IsMetric(m) /\ m.kind = k /\ m.opts = opts /\ m.m_value = 0 /\ ~m.dated
  BY <1>1, NewFields
<1> QED
  BY <1>7, <1>8, Zenon DEF m, k, name

\* What is known of it before the event.
IsFound(m, name, n) ==
    /\ IsMetric(m) /\ m.kind = KindIn(pushed, name) /\ m.kind \in Kinds
    /\ m.kind # "attribute" =>
        \/ m.opts = EntitledBy(documents, options, m.kind, name)
        \/ /\ m.opts = options[m.kind]
           /\ \E i \in At(pushed, name, n) : IsInit(pushed[i])
    /\ OnlyCounterIn(pushed, name, n) =>
        \/ /\ m.dated /\ m.values \in Seq(Int) /\ m.values # << >>
           /\ m.m_value = Last(m.values)
           /\ PathOf(pushed, m.values, name, n)
        \/ ~m.dated /\ m.m_value = 0 /\ At(pushed, name, n) = {}
    /\ OnlyScopes(name) => m.m_value = BalanceIn(pushed, name, n)

LEMMA FoundIs ==
    ASSUME Inv, NEW e, ProcessedIs(e)
    PROVE  IsFound(Found(e), e.destination_name, processed)
<1> DEFINE name == e.destination_name
           n == processed
           m == Found(e)
<1>1. /\ n \in Nat /\ Len(pushed) \in Nat /\ n + 1 \in 0 .. Len(pushed) /\ e = pushed[n + 1]
      /\ name \in Names /\ e.destination_type \in Kinds
  BY DEF ProcessedIs
<1>2. /\ MetricsOf(metrics_map, pushed, n) /\ TypeOK
      /\ InEffect(documents, options, metrics_map, pushed, n)
      /\ Shows(metrics_map, pushed, n)
      /\ OnlyScopes(name) =>
            Balanced(metrics_map, pushed, n, scope, unbalanced, enabled, name)
  BY <1>1 DEF Inv
<1>3. name \in DOMAIN metrics_map <=> At(pushed, name, n) # {}
  BY <1>1, <1>2 DEF MetricsOf
<1>4. CASE name \in DOMAIN metrics_map
  <2>1. m = metrics_map[name]
    BY <1>4 DEF Found
  <2>2. m.kind \in Kinds
    BY <1>2, <1>4, <2>1 DEF TypeOK
  <2>3. IsMetric(m) /\ m.kind = KindIn(pushed, name)
    BY <1>2, <1>4, <2>1 DEF MetricsOf
  <2>4. OnlyCounterIn(pushed, name, n) =>
            /\ m.dated /\ m.values \in Seq(Int) /\ m.values # << >>
            /\ m.m_value = Last(m.values)
    BY <1>2, <1>4, <2>1 DEF MetricsOf
  <2>5. OnlyCounterIn(pushed, name, n) => PathOf(pushed, m.values, name, n)
    BY <1>2, <1>4, <2>1 DEF Shows
  <2>6. m.kind # "attribute" =>
            \/ m.opts = EntitledBy(documents, options, m.kind, name)
            \/ /\ m.opts = options[m.kind]
               /\ \E i \in At(pushed, name, n) : IsInit(pushed[i])
    BY <1>2, <1>4, <2>1 DEF InEffect
  <2>7. OnlyScopes(name) => m.m_value = BalanceIn(pushed, name, n)
    BY <1>2, <1>4, <2>1 DEF Balanced
  <2> HIDE DEF m, name, n
  <2>8. IsFound(m, name, n)
    BY <2>2, <2>3, <2>4, <2>5, <2>6, <2>7, Zenon DEF IsFound
  <2> QED
    BY <2>8 DEF m, name, n
<1>5. CASE name \notin DOMAIN metrics_map
  <2>1. m = new_metric(e)
    BY <1>5 DEF Found
  <2>2. /\ IsMetric(m) /\ m.kind = e.destination_type /\ m.m_value = 0 /\ ~m.dated
        /\ e.destination_type # "attribute" =>
                m.opts = EntitledBy(documents, options, e.destination_type, name)
    BY <1>1, <2>1, NewMetric
  <2>3. At(pushed, name, n) = {}
    BY <1>3, <1>5
  <2>4. KindIn(pushed, name) = e.destination_type
    <3>1. At(pushed, name, n + 1) = {n + 1}
      BY <1>1, <2>3, AtStep
    <3>2. /\ KindIn(pushed, name) = pushed[Min(At(pushed, name, n + 1))].destination_type
          /\ Min(At(pushed, name, n + 1)) \in At(pushed, name, n + 1)
      <4>1. At(pushed, name, n + 1) # {}
        BY <3>1
      <4> QED
        BY <1>1, <4>1, KindAt
    <3> QED
      BY <1>1, <3>1, <3>2
  <2>5. BalanceIn(pushed, name, n) = 0
    BY <2>3, SetSumEmpty DEF BalanceIn
  <2> HIDE DEF m, name, n
  <2>6. IsFound(m, name, n)
    BY <1>1, <2>2, <2>3, <2>4, <2>5, Zenon DEF IsFound
  <2> QED
    BY <2>6 DEF m, name, n
<1> QED
  BY <1>4, <1>5

\* What is known of it after the event.
IsAfter(m, name, n) ==
    /\ IsMetric(m) /\ m.kind = KindIn(pushed, name) /\ m.kind \in Kinds
    /\ m.kind # "attribute" =>
        \/ m.opts = EntitledBy(documents, options, m.kind, name)
        \/ /\ m.opts = options[m.kind]
           /\ \E i \in At(pushed, name, n) : IsInit(pushed[i])
    /\ OnlyCounterIn(pushed, name, n) =>
        /\ m.dated /\ m.values \in Seq(Int) /\ m.values # << >>
        /\ m.m_value = Last(m.values)
        /\ PathOf(pushed, m.values, name, n)
    /\ OnlyScopes(name) => m.m_value = BalanceIn(pushed, name, n)

LEMMA LastAppended ==
    ASSUME NEW s \in Seq(Int), NEW x \in Int
    PROVE  /\ Append(s, x) \in Seq(Int) /\ Append(s, x) # << >>
           /\ Last(Append(s, x)) = x
<1> DEFINE t == Append(s, x)
<1>1. t \in Seq(Int) /\ Len(t) = Len(s) + 1 /\ t[Len(s) + 1] = x /\ Len(s) \in Nat
  OBVIOUS
<1> HIDE DEF t
<1>2. t # << >>
  BY <1>1
<1>3. Last(t) = x
  BY <1>1 DEF Last
<1> QED
  BY <1>1, <1>2, <1>3 DEF t

GoesOn(s, v, name, n) ==
    /\ Append(s, v) \in Seq(Int) /\ Append(s, v) # << >> /\ v = Last(Append(s, v))
    /\ PathOf(pushed, Append(s, v), name, n)

LEMMA AppendedTo ==
    ASSUME NEW n \in Nat, NEW name, NEW e, e = pushed[n + 1], e.destination_name = name,
           ~IsInit(e), DeltaOf(e) \in Int,
           NEW s \in Seq(Int), s # << >>, PathOf(pushed, s, name, n),
           NEW v, v = Last(s) + DeltaOf(e)
    PROVE  GoesOn(s, v, name, n + 1)
<1>1. Len(s) \in Nat /\ Len(s) >= 1 /\ Last(s) = s[Len(s)] /\ Last(s) \in Int
  BY DEF Last
<1>2. v \in Int /\ v = s[Len(s)] + DeltaOf(pushed[n + 1])
  BY <1>1
<1>3. IsChange(pushed[n + 1])
  BY DEF IsInit, IsChange
<1>4. PathOf(pushed, Append(s, v), name, n + 1)
  BY <1>2, <1>3, PathChange
<1>5. Append(s, v) \in Seq(Int) /\ Append(s, v) # << >> /\ Last(Append(s, v)) = v
  BY <1>2, LastAppended
<1> QED
  BY <1>4, <1>5 DEF GoesOn

OnPath(p, name, n) ==
    /\ p.dated /\ p.values \in Seq(Int) /\ p.values # << >>
    /\ p.m_value = Last(p.values)
    /\ PathOf(pushed, p.values, name, n)

\* A counter goes on with its path.
LEMMA CounterAfter ==
    ASSUME NEW n \in Nat, NEW name, NEW e, e = pushed[n + 1], e.destination_name = name,
           e.destination_type = "counter", e.event_type \in 0 .. 2, e.event_data \in Int,
           NEW m, NEW p, CounterStep(m, e, p),
           \/ /\ m.dated /\ m.values \in Seq(Int) /\ m.values # << >>
              /\ m.m_value = Last(m.values)
              /\ PathOf(pushed, m.values, name, n)
           \/ ~m.dated /\ m.m_value = 0 /\ At(pushed, name, n) = {}
    PROVE  OnPath(p, name, n + 1)
<1>1. DeltaOf(e) \in Int
  BY DEF DeltaOf
<1>2. p.dated
  BY Zenon DEF CounterStep
<1>3. CASE IsInit(e)
  <2> DEFINE v == e.event_data
  <2>1. p.values = <<v>> /\ p.m_value = v
    BY <1>3, Zenon DEF CounterStep
  <2>2. PathOf(pushed, <<v>>, name, n + 1)
    BY <1>3, PathInit
  <2>3. <<v>> \in Seq(Int) /\ <<v>> # << >> /\ Last(<<v>>) = v
    BY DEF Last
  <2> HIDE DEF v
  <2> QED
    BY <1>2, <2>1, <2>2, <2>3, Zenon DEF OnPath
<1>4. CASE ~IsInit(e) /\ m.dated
  <2> DEFINE vs == m.values
             v == m.m_value + DeltaOf(e)
  <2>1. p.values = Append(vs, v) /\ p.m_value = v
    BY <1>4, Zenon DEF CounterStep
  <2>2. vs \in Seq(Int) /\ vs # << >> /\ v = Last(vs) + DeltaOf(e) /\ PathOf(pushed, vs, name, n)
    BY <1>4
  <2> HIDE DEF vs, v
  <2>3. GoesOn(vs, v, name, n + 1)
    BY <1>1, <1>4, <2>2, AppendedTo
  <2> QED
    BY <1>2, <2>1, <2>3, Zenon DEF GoesOn, OnPath
<1>5. CASE ~IsInit(e) /\ ~m.dated
  <2> DEFINE vs == <<0>>
             v == 0 + DeltaOf(e)
  <2>1. p.values = Append(vs, v) /\ p.m_value = v
    BY <1>5, Zenon DEF CounterStep
  <2>2. At(pushed, name, n) = {}
    BY <1>5
  <2>3. vs \in Seq(Int) /\ vs # << >> /\ v = Last(vs) + DeltaOf(e)
    BY DEF Last
  <2>4. PathOf(pushed, vs, name, n)
    BY <2>2, PathFirst
  <2> HIDE DEF vs, v
  <2>5. GoesOn(vs, v, name, n + 1)
    BY <1>1, <1>5, <2>3, <2>4, AppendedTo
  <2> QED
    BY <1>2, <2>1, <2>5, Zenon DEF GoesOn, OnPath
<1> QED
  BY <1>3, <1>4, <1>5

LEMMA AfterIs ==
    ASSUME Inv, NEW e, ProcessedIs(e)
    PROVE  IsAfter(process_event(Found(e), e), e.destination_name, processed + 1)
<1> DEFINE name == e.destination_name
           n == processed
           m == Found(e)
           p == process_event(m, e)
<1>1. /\ n \in Nat /\ Len(pushed) \in Nat /\ n + 1 \in 0 .. Len(pushed) /\ e = pushed[n + 1]
      /\ n + 1 \in 1 .. Len(pushed) /\ n \in 0 .. Len(pushed) - 1 /\ n \in 0 .. Len(pushed)
      /\ name \in Names /\ IsCounterMessage(e)
  BY DEF ProcessedIs
<1>2. IsFound(m, name, n)
  BY FoundIs
<1>3. IsMetric(m) /\ m.kind = KindIn(pushed, name) /\ m.kind \in Kinds
  BY <1>2, Zenon DEF IsFound
<1>4. Followed(m, e.event_type, p)
  BY <1>3, ProcessEvent
<1>5. IsMetric(p) /\ p.kind = m.kind /\ (p.opts = m.opts \/ (IsInit(e) /\ p.opts = options[m.kind]))
  BY <1>4, EventTypes DEF Followed, IsInit
<1>6. At(pushed, name, n + 1) = At(pushed, name, n) \cup {n + 1}
  BY <1>1, AtStep
<1>7. IsLog(pushed) /\ (OnlyScopes(name) => ScopeEvents(pushed, name))
  BY <1>1 DEF Inv, QueueOf, Balanced
<1> HIDE DEF p, m, n, name
<1>8. p.kind # "attribute" =>
            \/ p.opts = EntitledBy(documents, options, p.kind, name)
            \/ /\ p.opts = options[p.kind]
               /\ \E i \in At(pushed, name, n + 1) : IsInit(pushed[i])
  <2>1. m.kind # "attribute" =>
            \/ m.opts = EntitledBy(documents, options, m.kind, name)
            \/ /\ m.opts = options[m.kind]
               /\ \E i \in At(pushed, name, n) : IsInit(pushed[i])
    BY <1>2, Zenon DEF IsFound
  <2>2. (\E i \in At(pushed, name, n) : IsInit(pushed[i])) =>
            \E i \in At(pushed, name, n + 1) : IsInit(pushed[i])
    BY <1>6
  <2>3. IsInit(e) => \E i \in At(pushed, name, n + 1) : IsInit(pushed[i])
    BY <1>1, <1>6
  <2> QED
    BY <1>5, <2>1, <2>2, <2>3, Zenon
<1>9. ASSUME OnlyCounterIn(pushed, name, n + 1)
      PROVE  /\ OnlyCounterIn(pushed, name, n)
             /\ e.destination_type = "counter" /\ e.event_type \in 0 .. 2 /\ e.event_data \in Int
             /\ CounterStep(m, e, p) /\ DeltaOf(e) \in Int
  <2>1. OnlyCounterIn(pushed, name, n) /\ e.destination_type = "counter"
    BY <1>1, <1>6, <1>9 DEF OnlyCounterIn
  <2>2. e.event_type \in 0 .. 2 /\ e.event_data \in Int
    BY <1>1, <2>1 DEF IsCounterMessage
  <2>3. KindIn(pushed, name) = "counter"
    <3>1. At(pushed, name, n + 1) # {}
      BY <1>6
    <3>2. /\ KindIn(pushed, name) = pushed[Min(At(pushed, name, n + 1))].destination_type
          /\ Min(At(pushed, name, n + 1)) \in At(pushed, name, n + 1)
      BY <1>1, <3>1, KindAt
    <3> QED
      BY <1>9, <3>2 DEF OnlyCounterIn
  <2>4. CounterStep(m, e, p)
    BY <1>3, <2>1, <2>2, <2>3, CounterEvent DEF p
  <2>5. DeltaOf(e) \in Int
    BY <2>2 DEF DeltaOf
  <2> QED
    BY <2>1, <2>2, <2>4, <2>5
<1>10. ASSUME OnlyCounterIn(pushed, name, n + 1)
       PROVE  OnPath(p, name, n + 1)
  <2>1. \/ /\ m.dated /\ m.values \in Seq(Int) /\ m.values # << >>
           /\ m.m_value = Last(m.values)
           /\ PathOf(pushed, m.values, name, n)
        \/ ~m.dated /\ m.m_value = 0 /\ At(pushed, name, n) = {}
    BY <1>2, <1>9, <1>10, Zenon DEF IsFound
  <2>2. e.destination_name = name
    BY DEF name
  <2>3. /\ e.destination_type = "counter" /\ e.event_type \in 0 .. 2 /\ e.event_data \in Int
        /\ CounterStep(m, e, p)
    BY <1>9, <1>10
  <2> QED
    BY <1>1, <2>1, <2>2, <2>3, CounterAfter
<1>11. ASSUME OnlyScopes(name)
       PROVE  p.m_value = BalanceIn(pushed, name, n + 1)
  <2>1. ScopeEvents(pushed, name)
    BY <1>7, <1>11
  <2>2. At(pushed, name, n + 1) \subseteq At(pushed, name, Len(pushed)) /\ n + 1 \in At(pushed, name, n + 1)
    <3>1. n + 1 \in Nat /\ n + 1 <= Len(pushed)
      BY <1>1
    <3> QED
      BY <1>1, <1>6, <3>1, AtMonotone
  <2>3. OnlyCounterIn(pushed, name, n + 1) /\ ~IsInit(e)
    BY <1>1, <2>1, <2>2 DEF OnlyCounterIn, ScopeEvents
  <2>4. BalanceIn(pushed, name, n + 1) = BalanceIn(pushed, name, n) + DeltaOf(e)
    <3>1. e.destination_name = name
      BY DEF name
    <3>2. BalanceIn(pushed, name, n + 1) =
                BalanceIn(pushed, name, n)
                + IF pushed[n + 1].destination_name = name THEN DeltaOf(pushed[n + 1]) ELSE 0
      BY <1>1, <1>7, <2>1, BalanceStep
    <3> QED
      BY <1>1, <3>1, <3>2
  <2>5. m.m_value = BalanceIn(pushed, name, n)
    BY <1>2, <1>11, Zenon DEF IsFound
  <2>6. m.dated \/ m.m_value = 0
    BY <1>2, <1>9, <2>3, Zenon DEF IsFound
  <2>7. /\ m.dated => p.m_value = m.m_value + DeltaOf(e)
        /\ ~m.dated => p.m_value = 0 + DeltaOf(e)
    BY <1>9, <2>3, Zenon DEF CounterStep
  <2>8. p.m_value = m.m_value + DeltaOf(e)
    BY <2>6, <2>7, Zenon
  <2> QED
    BY <2>4, <2>5, <2>8
<1>12. p.kind = KindIn(pushed, name) /\ p.kind \in Kinds
  BY <1>3, <1>5
<1>13. IsAfter(p, name, n + 1)
  BY <1>5, <1>8, <1>10, <1>11, <1>12, Zenon DEF IsAfter, OnPath
<1> QED
  BY <1>13 DEF p, m, n, name

\* An event is for one name.
LEMMA OtherName ==
    ASSUME NEW ev, IsLog(ev), NEW n \in 0 .. Len(ev) - 1, NEW name, ev[n + 1].destination_name # name
    PROVE  /\ At(ev, name, n + 1) = At(ev, name, n)
           /\ OnlyCounterIn(ev, name, n + 1) <=> OnlyCounterIn(ev, name, n)
           /\ \A values : PathOf(ev, values, name, n + 1) <=> PathOf(ev, values, name, n)
           /\ ScopeEvents(ev, name) => BalanceIn(ev, name, n + 1) = BalanceIn(ev, name, n)
<1>1. Len(ev) \in Nat /\ n \in Nat /\ n + 1 \in Nat /\ n \in 0 .. Len(ev)
  BY DEF IsLog
<1>2. At(ev, name, n + 1) = At(ev, name, n)
  BY <1>1, AtStep
<1>3. OnlyCounterIn(ev, name, n + 1) <=> OnlyCounterIn(ev, name, n)
  BY <1>2 DEF OnlyCounterIn
<1>4. \A values : PathOf(ev, values, name, n + 1) <=> PathOf(ev, values, name, n)
  BY <1>1, <1>2, PathSame
<1>5. ASSUME ScopeEvents(ev, name)
      PROVE  BalanceIn(ev, name, n + 1) = BalanceIn(ev, name, n)
  <2>1. BalanceIn(ev, name, n) \in Int
    BY <1>1, <1>5, BalanceInt
  <2>2. BalanceIn(ev, name, n + 1) =
                BalanceIn(ev, name, n)
                + IF ev[n + 1].destination_name = name THEN DeltaOf(ev[n + 1]) ELSE 0
    BY <1>5, BalanceStep
  <2> QED
    BY <2>1, <2>2
<1> QED
  BY <1>2, <1>3, <1>4, <1>5

LEMMA DumpLater ==
    ASSUME NEW d, NEW docs, NEW opts, NEW ev, NEW n \in Nat, DumpOf(d, docs, opts, ev, n)
    PROVE  DumpOf(d, docs, opts, ev, n + 1)
<1>1. d.shown \in 0 .. n + 1
  BY DEF DumpOf
<1> QED
  BY <1>1 DEF DumpOf

\* The registry after the event.
LEMMA MetricsAfter ==
    ASSUME Inv, NEW e, ProcessedIs(e), NEW mm, IsFunction(mm),
           DOMAIN mm = DOMAIN metrics_map \cup {e.destination_name},
           mm[e.destination_name] = process_event(Found(e), e),
           \A x \in DOMAIN metrics_map : x # e.destination_name => mm[x] = metrics_map[x]
    PROVE  /\ MetricsOf(mm, pushed, processed + 1)
           /\ InEffect(documents, options, mm, pushed, processed + 1)
           /\ Shows(mm, pushed, processed + 1)
           /\ \A x \in Names : OnlyScopes(x) =>
                Balanced(mm, pushed, processed + 1, scope, unbalanced, enabled, x)
           /\ \A x \in DOMAIN mm : mm[x].kind \in Kinds
<1> DEFINE name == e.destination_name
           n == processed
           p == process_event(Found(e), e)
<1>1. /\ n \in Nat /\ Len(pushed) \in Nat /\ n + 1 \in 0 .. Len(pushed) /\ e = pushed[n + 1]
      /\ n + 1 \in 1 .. Len(pushed) /\ n \in 0 .. Len(pushed) - 1 /\ n \in 0 .. Len(pushed)
      /\ name \in Names
  BY DEF ProcessedIs
<1>2. IsAfter(p, name, n + 1)
  BY AfterIs
<1>3. /\ MetricsOf(metrics_map, pushed, n) /\ TypeOK /\ IsLog(pushed)
      /\ InEffect(documents, options, metrics_map, pushed, n)
      /\ Shows(metrics_map, pushed, n)
      /\ \A x \in Names : OnlyScopes(x) =>
            Balanced(metrics_map, pushed, n, scope, unbalanced, enabled, x)
  BY Zenon DEF Inv, QueueOf
<1>4. \A x : x # name =>
        /\ At(pushed, x, n + 1) = At(pushed, x, n)
        /\ OnlyCounterIn(pushed, x, n + 1) <=> OnlyCounterIn(pushed, x, n)
        /\ \A values : PathOf(pushed, values, x, n + 1) <=> PathOf(pushed, values, x, n)
        /\ ScopeEvents(pushed, x) => BalanceIn(pushed, x, n + 1) = BalanceIn(pushed, x, n)
  BY <1>1, <1>3, OtherName
<1>5. At(pushed, name, n + 1) = At(pushed, name, n) \cup {n + 1}
  BY <1>1, AtStep
<1> HIDE DEF name, n, p
<1>6. /\ DOMAIN mm = DOMAIN metrics_map \cup {name} /\ mm[name] = p
      /\ \A x \in DOMAIN metrics_map : x # name => mm[x] = metrics_map[x]
  BY DEF name, p
<1>7. \A x \in DOMAIN mm : x # name => x \in DOMAIN metrics_map /\ mm[x] = metrics_map[x]
  BY <1>6
<1>8. MetricsOf(mm, pushed, n + 1)
  <2>1. DOMAIN metrics_map = {x \in Names : At(pushed, x, n) # {}}
    BY <1>3 DEF MetricsOf
  <2>2. \A x \in Names : x \in DOMAIN mm <=> At(pushed, x, n + 1) # {}
    BY <1>4, <1>5, <1>6, <2>1
  <2>3. DOMAIN mm = {x \in Names : At(pushed, x, n + 1) # {}}
    BY <1>1, <1>6, <2>1, <2>2
  <2>4. ASSUME NEW x \in DOMAIN mm
        PROVE  /\ IsMetric(mm[x]) /\ mm[x].kind = KindIn(pushed, x)
               /\ OnlyCounterIn(pushed, x, n + 1) =>
                    /\ mm[x].dated /\ mm[x].values \in Seq(Int) /\ mm[x].values # << >>
                    /\ mm[x].m_value = Last(mm[x].values)
    <3>1. CASE x = name
      BY <1>2, <1>6, <3>1, Zenon DEF IsAfter
    <3>2. CASE x # name
      <4>1. x \in DOMAIN metrics_map /\ mm[x] = metrics_map[x]
        BY <1>7, <3>2
      <4>2. OnlyCounterIn(pushed, x, n + 1) <=> OnlyCounterIn(pushed, x, n)
        BY <1>4, <3>2
      <4> QED
        BY <1>3, <4>1, <4>2, Zenon DEF MetricsOf
    <3> QED
      BY <3>1, <3>2
  <2> QED
    BY <2>3, <2>4, Zenon DEF MetricsOf
<1>9. InEffect(documents, options, mm, pushed, n + 1)
  <2>1. ASSUME NEW x \in DOMAIN mm
        PROVE  mm[x].kind # "attribute" =>
                    \/ mm[x].opts = EntitledBy(documents, options, mm[x].kind, x)
                    \/ /\ mm[x].opts = options[mm[x].kind]
                       /\ \E i \in At(pushed, x, n + 1) : IsInit(pushed[i])
    <3>1. CASE x = name
      BY <1>2, <1>6, <3>1, Zenon DEF IsAfter
    <3>2. CASE x # name
      <4>1. x \in DOMAIN metrics_map /\ mm[x] = metrics_map[x]
        BY <1>7, <3>2
      <4>2. At(pushed, x, n + 1) = At(pushed, x, n)
        BY <1>4, <3>2
      <4> QED
        BY <1>3, <4>1, <4>2, Zenon DEF InEffect
    <3> QED
      BY <3>1, <3>2
  <2> QED
    BY <2>1, Zenon DEF InEffect
<1>10. Shows(mm, pushed, n + 1)
  <2>1. ASSUME NEW x \in DOMAIN mm, OnlyCounterIn(pushed, x, n + 1)
        PROVE  PathOf(pushed, mm[x].values, x, n + 1)
    <3>1. CASE x = name
      BY <1>2, <1>6, <2>1, <3>1, Zenon DEF IsAfter
    <3>2. CASE x # name
      <4>1. x \in DOMAIN metrics_map /\ mm[x] = metrics_map[x]
        BY <1>7, <3>2
      <4>2. OnlyCounterIn(pushed, x, n)
        BY <1>4, <2>1, <3>2
      <4>3. PathOf(pushed, mm[x].values, x, n)
        BY <1>3, <4>1, <4>2, Zenon DEF Shows
      <4> QED
        BY <1>4, <3>2, <4>3
    <3> QED
      BY <3>1, <3>2
  <2> QED
    BY <2>1, Zenon DEF Shows
<1>11. ASSUME NEW x \in Names, OnlyScopes(x)
       PROVE  Balanced(mm, pushed, n + 1, scope, unbalanced, enabled, x)
  <2>1. Balanced(metrics_map, pushed, n, scope, unbalanced, enabled, x)
    BY <1>3, <1>11
  <2>2. ScopeEvents(pushed, x)
    BY <2>1 DEF Balanced
  <2>3. x \in DOMAIN mm => mm[x].m_value = BalanceIn(pushed, x, n + 1)
    <3>1. CASE x = name
      BY <1>2, <1>6, <1>11, <3>1, Zenon DEF IsAfter
    <3>2. CASE x # name
      <4>1. x \in DOMAIN mm => x \in DOMAIN metrics_map /\ mm[x] = metrics_map[x]
        BY <1>7, <3>2
      <4>2. BalanceIn(pushed, x, n + 1) = BalanceIn(pushed, x, n)
        BY <1>4, <2>2, <3>2
      <4>3. x \in DOMAIN metrics_map => metrics_map[x].m_value = BalanceIn(pushed, x, n)
        BY <2>1 DEF Balanced
      <4> QED
        BY <4>1, <4>2, <4>3
    <3> QED
      BY <3>1, <3>2
  <2> QED
    BY <2>1, <2>3, Zenon DEF Balanced
<1>12. \A x \in DOMAIN mm : mm[x].kind \in Kinds
  <2>1. p.kind \in Kinds
    BY <1>2, Zenon DEF IsAfter
  <2>2. \A x \in DOMAIN metrics_map : metrics_map[x].kind \in Kinds
    BY <1>3 DEF TypeOK
  <2> QED
    BY <1>6, <1>7, <2>1, <2>2
<1> QED
  BY <1>8, <1>9, <1>10, <1>11, <1>12 DEF n

LEMMA ProcessKeeps == ASSUME Inv, Process PROVE Inv'
<1>1. /\ rpc = "process"
      /\ UNCHANGED <<options, pattern_opts, enabled, now, q, scope, pushed, unbalanced,
                     new_dump, dump_timestamp, dump, reader, documents>>
      /\ \/ /\ process_event_message(popped)
            /\ rpc' = "loop" /\ popped' = NoMessage /\ processed' = processed + 1
         \/ rpc' = "terminated" /\ UNCHANGED <<popped, processed, metrics_map>>
  BY DEF Process, configVars, producerVars, dumpVars
<1>2. ProcessedIs(popped)
  BY <1>1, PoppedIs
<1>3. TypeOK /\ QueueOf(pushed, q, processed, popped)
  BY DEF Inv
<1>4. EnabledInv'
  BY <1>1 DEF Inv, EnabledInv
<1>5. Reads(reader', dump', pushed', q')
  BY <1>1 DEF Inv
<1>6. rpc' # "publish"
  BY <1>1
<1>7. CASE process_event_message(popped) /\ rpc' = "loop" /\ popped' = NoMessage
           /\ processed' = processed + 1
  <2> DEFINE name == popped.destination_name
             mm == metrics_map'
  <2>1. mm = [x \in DOMAIN metrics_map \cup {name} |->
                IF x = name THEN process_event(Found(popped), popped) ELSE metrics_map[x]]
    BY <1>7 DEF process_event_message, Found
  <2>2. /\ DOMAIN mm = DOMAIN metrics_map \cup {name}
        /\ mm[name] = process_event(Found(popped), popped)
        /\ \A x \in DOMAIN metrics_map : x # name => mm[x] = metrics_map[x]
    BY <2>1
  <2>3. IsFunction(mm)
    BY <2>1 DEF IsFunction
  <2> HIDE DEF mm
  <2>4. /\ MetricsOf(mm, pushed, processed + 1)
        /\ InEffect(documents, options, mm, pushed, processed + 1)
        /\ Shows(mm, pushed, processed + 1)
        /\ \A x \in Names : OnlyScopes(x) =>
                Balanced(mm, pushed, processed + 1, scope, unbalanced, enabled, x)
        /\ \A x \in DOMAIN mm : mm[x].kind \in Kinds
    BY <1>2, <2>2, <2>3, MetricsAfter
  <2>5. /\ MetricsOf(metrics_map', pushed', processed')
        /\ InEffect(documents', options', metrics_map', pushed', processed')
        /\ Shows(metrics_map', pushed', processed')
        /\ \A x \in Names : OnlyScopes(x) =>
                Balanced(metrics_map', pushed', processed', scope', unbalanced', enabled', x)
        /\ \A x \in DOMAIN metrics_map' : metrics_map'[x].kind \in Kinds
    BY <1>1, <1>7, <2>4, Zenon DEF mm
  <2>6. /\ DumpOf(dump', documents', options', pushed', processed')
        /\ DumpOf(new_dump', documents', options', pushed', processed')
    <3>1. processed \in Nat
      BY <1>2 DEF ProcessedIs
    <3>2. /\ DumpOf(dump, documents, options, pushed, processed + 1)
          /\ DumpOf(new_dump, documents, options, pushed, processed + 1)
      BY <3>1, DumpLater DEF Inv
    <3> QED
      BY <1>1, <1>7, <3>2
  <2>7. processed \in Nat /\ processed + Len(q) + 1 = Len(pushed) /\ Len(q) \in Nat
    <3>1. popped # NoMessage
      BY <1>1, <1>3 DEF TypeOK
    <3> QED
      BY <3>1, Counts
  <2>8. QueueOf(pushed', q', processed', popped')
    BY <1>1, <1>3, <1>7, <2>7 DEF QueueOf
  <2>9. TypeOK'
    <3>1. processed' + Len(q') + (IF popped' = NoMessage THEN 0 ELSE 1) = Len(pushed')
      BY <1>1, <1>7, <2>7
    <3> QED
      BY <1>1, <1>3, <1>7, <2>5, <3>1 DEF TypeOK
  <2>10. /\ Shows(dump'.metrics, pushed', dump'.shown)
         /\ Shows(new_dump'.metrics, pushed', new_dump'.shown)
         /\ ConfigOf(documents', options', pattern_opts') /\ LastSays(documents', options')
         /\ dump'.stamp * MSEC <= now'
    BY <1>1 DEF Inv
  <2> QED
    BY <1>4, <1>5, <1>6, <2>5, <2>6, <2>8, <2>9, <2>10, Zenon DEF Inv, OnlyScopes, Names
<1>8. CASE rpc' = "terminated" /\ UNCHANGED <<popped, processed, metrics_map>>
  <2>1. TypeOK'
    <3>1. popped' # NoMessage
      BY <1>1, <1>3, <1>8 DEF TypeOK
    <3> QED
      BY <1>1, <1>3, <1>8, <3>1 DEF TypeOK
  <2> QED
    BY <1>1, <1>4, <1>5, <1>6, <1>8, <2>1, Zenon DEF Inv, OnlyScopes, Names
<1> QED
  BY <1>1, <1>7, <1>8

-----------------------------------------------------------------------------
(* The configuration, and the beginning. *)

\* Without events there is nothing that the options could be wrong for.
LEMMA NoEvents ==
    ASSUME Inv, pushed = << >>
    PROVE  /\ processed = 0
           /\ \A docs, opts : InEffect(docs, opts, metrics_map, pushed, processed)
           /\ \A docs, opts : DumpOf(dump, docs, opts, pushed, processed)
           /\ \A docs, opts : DumpOf(new_dump, docs, opts, pushed, processed)
<1>1. processed = 0
  <2>1. processed \in 0 .. Len(pushed)
    BY Counts
  <2>2. Len(<< >>) = 0
    OBVIOUS
  <2> QED
    BY <2>1, <2>2
<1>2. \A name : At(pushed, name, 0) = {}
  BY AtFacts
<1>3. DOMAIN metrics_map = {}
  <2>1. MetricsOf(metrics_map, pushed, processed)
    BY DEF Inv
  <2> QED
    BY <1>1, <1>2, <2>1 DEF MetricsOf
<1>4. \A docs, opts : InEffect(docs, opts, metrics_map, pushed, processed)
  BY <1>3 DEF InEffect
<1>5. ASSUME NEW d, DumpOf(d, documents, options, pushed, processed), NEW docs, NEW opts
      PROVE  DumpOf(d, docs, opts, pushed, processed)
  <2>1. d.shown = 0
    BY <1>1, <1>5 DEF DumpOf
  <2>2. \A name : At(pushed, name, d.shown) = {}
    BY <1>2, <2>1
  <2> QED
    BY <1>5, <2>2 DEF DumpOf
<1>6. /\ DumpOf(dump, documents, options, pushed, processed)
      /\ DumpOf(new_dump, documents, options, pushed, processed)
  BY DEF Inv
<1> QED
  BY <1>1, <1>4, <1>5, <1>6

LEMMA ConfigureKeeps == ASSUME Inv, NEW document \in Documents, Configure(document) PROVE Inv'
<1> DEFINE result == Configured(options, document)
<1>1. /\ MayConfigure /\ documents' = Append(documents, document)
      /\ options' = result.options
      /\ pattern_opts' = IF result.ok THEN Grouped(pattern_opts, document.patterns)
                         ELSE pattern_opts
      /\ UNCHANGED <<enabled, now, q, scope, pushed, unbalanced, rpc, popped, processed,
                     metrics_map, new_dump, dump_timestamp, dump, reader>>
  BY DEF Configure, config_json, producerVars, processorVars, dumpVars
<1>2. ConfigOf(documents, options, pattern_opts) /\ TypeOK /\ EnabledInv
  BY DEF Inv
<1>3. ~enabled /\ pushed = << >>
  BY <1>1, <1>2 DEF EnabledInv, MayConfigure
<1>4. IsDocument(document)
  BY DocumentFacts
<1>5. IsOptions(options)
  BY <1>2 DEF ConfigOf, TypeOK, IsOptions
<1>6. IsConfigured(document, result)
  BY <1>4, <1>5, ConfiguredFacts
<1> HIDE DEF result
<1>7. IsOptions(options') /\ (result.ok <=> NoneMisspelt(document)) /\ result.ok \in BOOLEAN
  BY <1>1, <1>6 DEF IsConfigured
<1>8. documents' \in Seq(Documents) /\ documents \in Seq(Documents)
  BY <1>1, <1>2 DEF ConfigOf
<1>9. pattern_opts \in Seq(Groups) /\ \A name \in Names : Selects(documents, pattern_opts, name)
  BY <1>2 DEF ConfigOf
<1>10. pattern_opts' \in Seq(Groups) /\ \A name \in Names : Selects(documents', pattern_opts', name)
  <2>1. CASE result.ok
    <3>1. NoneMisspelt(document)
      BY <1>7, <2>1
    <3>2. PICK new : IsGrouped(document, pattern_opts, new)
      BY <3>1, GroupedFacts
    <3>3. pattern_opts' = Grouped(pattern_opts, document.patterns)
      BY <1>1, <2>1
    <3>4. pattern_opts' = pattern_opts \o new /\ new \in Seq(Groups)
      BY <3>2, <3>3 DEF IsGrouped
    <3>5. pattern_opts' \in Seq(Groups)
      BY <1>9, <3>4
    <3>6. \A name \in Names :
            Selects(Append(documents, document), Grouped(pattern_opts, document.patterns), name)
      BY <1>8, <1>9, <3>1, SelectStep
    <3> QED
      BY <1>1, <3>3, <3>5, <3>6
  <2>2. CASE ~result.ok
    <3>1. ~NoneMisspelt(document)
      BY <1>7, <2>2
    <3>2. \A name \in Names : Selects(Append(documents, document), pattern_opts, name)
      BY <1>8, <1>9, <3>1, SelectStay
    <3> QED
      BY <1>1, <1>9, <2>2, <3>2
  <2> QED
    BY <2>1, <2>2
<1>11. ConfigOf(documents', options', pattern_opts')
  BY <1>7, <1>8, <1>10 DEF ConfigOf, IsOptions
<1>12. LastSays(documents', options')
  <2>1. Last(documents') = document
    <3>1. /\ Len(documents') = Len(documents) + 1 /\ documents'[Len(documents) + 1] = document
      BY <1>1, <1>8
    <3> QED
      BY <3>1 DEF Last
  <2>2. NoneMisspelt(document) =>
            \A kind \in DOMAIN document \cap Kinds :
                \A f \in DOMAIN document[kind] : options'[kind][f] = document[kind][f]
    BY <1>1, <1>6, <1>7 DEF IsConfigured
  <2> QED
    BY <2>1, <2>2, Zenon DEF LastSays, NoneMisspelt
<1>13. /\ InEffect(documents', options', metrics_map', pushed', processed')
       /\ DumpOf(dump', documents', options', pushed', processed')
       /\ DumpOf(new_dump', documents', options', pushed', processed')
  <2>1. /\ \A docs, opts : InEffect(docs, opts, metrics_map, pushed, processed)
        /\ \A docs, opts : DumpOf(dump, docs, opts, pushed, processed)
        /\ \A docs, opts : DumpOf(new_dump, docs, opts, pushed, processed)
    BY <1>3, NoEvents
  <2> QED
    BY <1>1, <2>1
<1>14. EnabledInv'
  BY <1>1, <1>3 DEF EnabledInv
<1>15. TypeOK'
  <2>1. DOMAIN options' = DOMAIN Defaults
        /\ \A k \in Kinds \ {"attribute"} : DOMAIN options'[k] = DOMAIN Defaults[k]
    <3>1. Kinds \ {"attribute"} \subseteq DOMAIN Defaults
      BY DEF Kinds, Defaults
    <3> QED
      BY <1>7, <3>1 DEF IsOptions
  <2> QED
    BY <1>1, <1>2, <2>1 DEF TypeOK
<1> QED
  BY <1>1, <1>11, <1>12, <1>13, <1>14, <1>15, Zenon DEF Inv, OnlyScopes, Names

LEMMA InitKeeps == ASSUME Init PROVE Inv
<1>1. /\ options = Defaults /\ pattern_opts = << >> /\ metrics_map = << >> /\ enabled = FALSE
      /\ now = MSEC /\ q = << >> /\ scope = [p \in Producers |-> NoScope]
      /\ rpc = "loop" /\ popped = NoMessage /\ new_dump = NoDump /\ dump_timestamp = 0
      /\ dump = NoDump /\ reader = [pc |-> "idle", awaited |-> 0, since |-> 0]
      /\ documents = << >> /\ pushed = << >> /\ processed = 0 /\ unbalanced = {}
  BY DEF Init, reset
<1>2. MSEC \in Nat /\ MSEC <= MaxTime /\ MaxTime \in Nat
  BY LibraryAssumption
<1>3. /\ DOMAIN << >> = {} /\ Len(<< >>) = 0
  OBVIOUS
<1>4. \A name : At(pushed, name, 0) = {}
  BY AtFacts
<1>5. TypeOK
  <2>1. processed + Len(q) + (IF popped = NoMessage THEN 0 ELSE 1) = Len(pushed)
    BY <1>1, <1>3
  <2>2. now \in 0 .. MaxTime /\ dump_timestamp \in 0 .. now
    BY <1>1, <1>2
  <2>3. \A n \in DOMAIN metrics_map : metrics_map[n].kind \in Kinds
    BY <1>1, <1>3
  <2>4. scope \in [Producers -> Scopes \cup {NoScope}]
    BY <1>1
  <2> QED
    BY <1>1, <2>1, <2>2, <2>3, <2>4 DEF TypeOK
<1>6. EnabledInv
  BY <1>1 DEF EnabledInv
<1>7. IsLog(pushed)
  BY <1>1 DEF IsLog
<1>8. QueueOf(pushed, q, processed, popped)
  BY <1>1, <1>7 DEF QueueOf
<1>9. IsOptions(options)
  <2> DEFINE values == [interval |-> "1 s", tags |-> {"value", "count"}]
  <2>1. /\ DOMAIN Defaults = {"statistics", "counter", "gauge", "timer", "dump", "core"}
        /\ Defaults["statistics"] = values /\ Defaults["counter"] = values
        /\ Defaults["gauge"] = values /\ Defaults["timer"] = values
        /\ Defaults["dump"] = [interval |-> 1] /\ Defaults["core"] = [enable |-> TRUE]
    BY DEF Defaults
  <2>2. IsFunction(Defaults)
    BY DEF Defaults, IsFunction
  <2>3. IsFunction(values)
    BY DEF IsFunction
  <2>4. IsFunction([interval |-> 1])
    BY DEF IsFunction
  <2>5. IsFunction([enable |-> TRUE])
    BY DEF IsFunction
  <2> HIDE DEF values
  <2>6. \A k \in DOMAIN Defaults : IsFunction(Defaults[k])
    BY <2>1, <2>3, <2>4, <2>5
  <2> QED
    BY <1>1, <2>2, <2>6 DEF IsOptions
<1>10. ConfigOf(documents, options, pattern_opts)
  <2>1. \A name : MeantBy(documents, name) = {}
    BY <1>1, <1>3 DEF MeantBy
  <2>2. \A name : ~Matched(pattern_opts, name)
    BY <1>1, <1>3 DEF Matched
  <2>3. \A name \in Names : Selects(documents, pattern_opts, name)
    BY <2>1, <2>2 DEF Selects
  <2> QED
    BY <1>1, <1>9, <2>3 DEF ConfigOf, IsOptions
<1>11. MetricsOf(metrics_map, pushed, processed)
  <2>1. IsFunction(metrics_map)
    BY <1>1, <1>3 DEF IsFunction
  <2> QED
    BY <1>1, <1>3, <1>4, <2>1 DEF MetricsOf
<1>12. LastSays(documents, options)
  BY <1>1 DEF LastSays
<1>13. InEffect(documents, options, metrics_map, pushed, processed)
  BY <1>1, <1>3 DEF InEffect
<1>14. /\ NoDump = [stamp |-> NoDump.stamp, metrics |-> NoDump.metrics, shown |-> NoDump.shown]
       /\ NoDump.stamp = 0 /\ NoDump.metrics = << >> /\ NoDump.shown = 0
  BY DEF NoDump
<1>15. /\ Shows(metrics_map, pushed, processed)
       /\ Shows(dump.metrics, pushed, dump.shown)
       /\ Shows(new_dump.metrics, pushed, new_dump.shown)
  BY <1>1, <1>3, <1>14 DEF Shows
<1>16. DumpOf(NoDump, documents, options, pushed, processed)
  <2>1. IsFunction(NoDump.metrics)
    BY <1>3, <1>14 DEF IsFunction
  <2>2. 0 \in 0 .. processed
    BY <1>1
  <2> QED
    BY <1>3, <1>4, <1>14, <2>1, <2>2 DEF DumpOf
<1>17. dump.stamp * MSEC <= now
  BY <1>1, <1>2, <1>14
<1>18. Reads(reader, dump, pushed, q)
  BY <1>1, <1>3 DEF Reads
<1>19. \A name \in Names : OnlyScopes(name) =>
        Balanced(metrics_map, pushed, processed, scope, unbalanced, enabled, name)
  <2>1. SUFFICES ASSUME NEW name
                 PROVE  Balanced(metrics_map, pushed, processed, scope, unbalanced, enabled, name)
    OBVIOUS
  <2>2. OpenIn(scope, name) = {}
    BY <1>1 DEF OpenIn
  <2>3. Held(scope, name) = 0
    BY <2>2, SetSumEmpty DEF Held
  <2>4. BalanceIn(pushed, name, 0) = 0
    BY BalanceZero
  <2>5. ScopeEvents(pushed, name)
    BY <1>1, <1>3, <1>4 DEF ScopeEvents
  <2>6. \A k \in 0 .. Len(pushed) : BalanceIn(pushed, name, k) >= 0
    BY <1>1, <1>3, <2>4
  <2> QED
    BY <1>1, <1>3, <2>2, <2>3, <2>4, <2>5, <2>6 DEF Balanced
<1> QED
  BY <1>1, <1>5, <1>6, <1>8, <1>10, <1>11, <1>12, <1>13, <1>15, <1>16, <1>17, <1>18, <1>19,
     Zenon DEF Inv

-----------------------------------------------------------------------------
(* The invariant holds at all times. *)

LEMMA NextKeeps == ASSUME Inv, [Next]_vars PROVE Inv'
<1>1. CASE UNCHANGED vars
  BY <1>1, Zenon DEF Inv, TypeOK, EnabledInv, OnlyScopes, Names, vars, configVars, producerVars,
                     processorVars, dumpVars
<1>2. CASE Next
  <2>1. ASSUME NEW document \in Documents, Configure(document)
        PROVE  Inv'
    BY <2>1, ConfigureKeeps
  <2>2. ASSUME NEW call \in Calls,
               CounterCall(call) \/ GaugeCall(call) \/ TimerCall(call) \/ AttributeCall(call)
        PROVE  Inv'
    BY <2>2, CallsKeep
  <2>3. ASSUME NEW p \in Producers, NEW s \in Scopes, OpenScope(p, s)
        PROVE  Inv'
    BY <2>3, OpenScopeKeeps
  <2>4. ASSUME NEW p \in Producers, CloseScope(p)
        PROVE  Inv'
    BY <2>4, CloseScopeKeeps
  <2>5. CASE Initialize
    BY <2>5, InitializeKeeps
  <2>6. CASE StartWait
    BY <2>6, StartWaitKeeps
  <2>7. CASE SeeEmpty
    BY <2>7, SeeEmptyKeeps
  <2>8. CASE Tick
    BY <2>8, TickKeeps
  <2>9. CASE Pop
    BY <2>9, PopKeeps
  <2>10. CASE Process
    BY <2>10, ProcessKeeps
  <2>11. CASE Update
    BY <2>11, UpdateKeeps
  <2>12. CASE Publish
    BY <2>12, PublishKeeps
  <2> QED
    BY <1>2, <2>1, <2>2, <2>3, <2>4, <2>5, <2>6, <2>7, <2>8, <2>9, <2>10, <2>11, <2>12, Zenon
       DEF Next, Client
<1> QED
  BY <1>1, <1>2

\* The inductive invariant of the session.
THEOREM Invariance == Spec => []IInv
<1>1. Init => Inv
  BY InitKeeps
<1>2. Inv /\ [Next]_vars => Inv'
  BY NextKeeps
<1>3. Inv => IInv
  BY InvIs
<1> QED
  BY <1>1, <1>2, <1>3, PTL DEF Spec

\* All variables keep their types, and no message is lost between the queue
\* and the processor thread, whose number of events is that of push().
THEOREM TypeCorrect == Spec => []TypeOK
<1>1. IInv => TypeOK
  BY DEF IInv
<1> QED
  BY <1>1, Invariance, PTL

\* Every metric has the options that the configuration means it to have,
\* whatever documents came and whichever of them failed in config_json().
THEOREM OptionsInEffectHolds == Spec => []OptionsInEffect
<1>1. IInv => OptionsInEffect
  BY DEF IInv
<1> QED
  BY <1>1, Invariance, PTL

\* Counters, in the registry and in each dump, went through each value that
\* their events give them, in the order of the queue and up to one moment.
THEOREM CounterPathHolds == Spec => []CounterPath
<1>1. IInv => CounterPath
  BY DEF IInv
<1> QED
  BY <1>1, Invariance, PTL

LEMMA BalancedEnough == ASSUME Inv PROVE ScopesBalance
<1>1. SUFFICES ASSUME NEW name \in DOMAIN metrics_map \ unbalanced,
                      \A call \in Calls : call.name # name
               PROVE  /\ (\A s \in Scopes : s.delta >= 0) => metrics_map[name].m_value >= 0
                      /\ processed = Len(pushed) =>
                            metrics_map[name].m_value =
                                Sum([p \in Producers |-> scope[p].delta], Open(name))
  BY Zenon DEF ScopesBalance
<1>2. name \in Names /\ OnlyScopes(name)
  BY <1>1 DEF Inv, MetricsOf, OnlyScopes
<1>3. Balanced(metrics_map, pushed, processed, scope, unbalanced, enabled, name)
  BY <1>2 DEF Inv
<1>4. /\ metrics_map[name].m_value = BalanceIn(pushed, name, processed)
      /\ BalanceIn(pushed, name, Len(pushed)) = Held(scope, name)
      /\ (\A s \in Scopes : s.delta >= 0) =>
            \A k \in 0 .. Len(pushed) : BalanceIn(pushed, name, k) >= 0
  BY <1>1, <1>3 DEF Balanced
<1>5. processed \in 0 .. Len(pushed)
  BY Counts
<1>6. Open(name) = OpenIn(scope, name)
  BY EventsIs
<1>7. (\A s \in Scopes : s.delta >= 0) => metrics_map[name].m_value >= 0
  BY <1>4, <1>5
<1>8. processed = Len(pushed) =>
            metrics_map[name].m_value = Sum([p \in Producers |-> scope[p].delta], Open(name))
  BY <1>4, <1>6 DEF Held
<1> QED
  BY <1>7, <1>8

\* A counter that only scopes change (scoped_counter_helper) adds up to the
\* scopes that are open, and is at no time below zero if none is negative.
THEOREM ScopesBalanceHolds == Spec => []ScopesBalance
<1>1. IInv => ScopesBalance
  BY InvIs, BalancedEnough
<1> QED
  BY <1>1, Invariance, PTL

LEMMA DumpHas == ASSUME Inv, Awaited PROVE DumpComplete
<1>1. reader.pc = "dump" /\ dump.stamp * MSEC >= reader.since
  BY DEF Awaited
<1>2. Reads(reader, dump, pushed, q) /\ DumpOf(dump, documents, options, pushed, processed)
  BY DEF Inv
<1>3. dump.shown >= reader.awaited /\ reader.awaited \in 0 .. Len(pushed)
  BY <1>1, <1>2 DEF Reads
<1>4. /\ Len(pushed) \in Nat /\ dump.shown \in 0 .. Len(pushed)
  BY Counts
<1>5. ASSUME NEW i \in 1 .. reader.awaited
      PROVE  LET name == pushed[i].destination_name
                 kind == pushed[Min(EventsOf(name, i))].destination_type
                 tags == {Entitled(kind, name).tags, options[kind].tags}
                 json == to_string(dump.metrics)
             IN  \/ /\ name \in DOMAIN json /\ json[name].type = kind
                    /\ kind # "attribute" => json[name].fields \in tags \ {{}}
                 \/ kind # "attribute" /\ {} \in tags
  <2> DEFINE name == pushed[i].destination_name
             kind == pushed[Min(EventsOf(name, i))].destination_type
             tags == {Entitled(kind, name).tags, options[kind].tags}
             json == to_string(dump.metrics)
             m == dump.metrics[name]
  <2>1. i \in Nat /\ i >= 1 /\ i <= dump.shown /\ i \in 0 .. Len(pushed) /\ i \in 1 .. Len(pushed)
        /\ dump.shown \in Nat
    BY <1>3, <1>4
  <2>2. i \in At(pushed, name, i) /\ i \in At(pushed, name, dump.shown)
    BY <2>1 DEF At
  <2>3. kind = KindIn(pushed, name)
    <3>1. EventsOf(name, i) = At(pushed, name, i)
      BY EventsIs
    <3>2. At(pushed, name, i) # {}
      BY <2>2
    <3> QED
      BY <1>4, <2>1, <3>1, <3>2, KindAt
  <2>4. tags = TagsIn(documents, options, pushed, name)
    <3>1. Entitled(kind, name) = EntitledBy(documents, options, kind, name)
      BY EntitledIs
    <3> QED
      BY <2>3, <3>1 DEF TagsIn
  <2>5. name \in Names
    <3>1. pushed \in Seq(Messages)
      BY DEF Inv, QueueOf, IsLog
    <3> DEFINE e == pushed[i]
    <3>2. e \in Messages
      BY <2>1, <3>1
    <3>3. name = e.destination_name
      OBVIOUS
    <3> HIDE DEF e, name
    <3> QED
      BY <3>2, <3>3 DEF Messages
  <2>6. KindIn(pushed, name) \in Kinds
    <3>1. pushed \in Seq(Messages)
      BY DEF Inv, QueueOf, IsLog
    <3>2. At(pushed, name, i) # {}
      BY <2>2
    <3>3. /\ KindIn(pushed, name) = pushed[Min(At(pushed, name, i))].destination_type
          /\ Min(At(pushed, name, i)) \in At(pushed, name, i)
      BY <1>4, <2>1, <3>2, KindAt
    <3>4. Min(At(pushed, name, i)) \in 1 .. Len(pushed)
      BY <1>4, <2>1, <3>3, AtFacts
    <3> DEFINE e == pushed[Min(At(pushed, name, i))]
    <3>5. e \in Messages
      BY <3>1, <3>4
    <3>6. KindIn(pushed, name) = e.destination_type
      BY <3>3
    <3> HIDE DEF e
    <3> QED
      BY <3>5, <3>6 DEF Messages
  <2>7. IF name \in DOMAIN dump.metrics
        THEN /\ m.kind = KindIn(pushed, name)
             /\ KindIn(pushed, name) # "attribute" =>
                    m.opts.tags \in TagsIn(documents, options, pushed, name) \ {{}}
        ELSE KindIn(pushed, name) # "attribute"
             /\ {} \in TagsIn(documents, options, pushed, name)
    BY <1>2, <2>2, <2>5 DEF DumpOf
  <2>8. ASSUME name \in DOMAIN dump.metrics, m.kind \in Kinds
        PROVE  /\ name \in DOMAIN json /\ json[name].type = m.kind
               /\ m.kind # "attribute" => json[name].fields = m.opts.tags
    <3> DEFINE shown == CASE m.kind = "gauge" -> gauge_json(m)
                          [] m.kind = "counter" -> counter_json(m)
                          [] m.kind = "timer" -> timer_json(m)
                          [] m.kind = "attribute" -> attribute_json(m)
    <3>1. name \in DOMAIN json /\ json[name] = shown
      BY <2>8 DEF to_string
    <3> HIDE DEF json, m, name
    <3>2. shown.type = m.kind /\ (m.kind # "attribute" => shown.fields = m.opts.tags)
      BY <2>8 DEF Kinds, gauge_json, counter_json, timer_json, attribute_json
    <3> QED
      BY <3>1, <3>2
  <2> HIDE DEF name, kind, tags, json, m
  <2>9. \/ /\ name \in DOMAIN json /\ json[name].type = kind
           /\ kind # "attribute" => json[name].fields \in tags \ {{}}
        \/ kind # "attribute" /\ {} \in tags
    BY <2>3, <2>4, <2>6, <2>7, <2>8
  <2> QED
    BY <2>9 DEF name, kind, tags, json
<1> QED
  BY <1>3, <1>5, Zenon DEF DumpComplete

\* The dump that a reader waits for has all its events, as the documentation
\* promises and the tests rely on.
THEOREM DumpCompleteHolds == Spec => []DumpComplete
<1>1. IInv => DumpComplete
  <2>1. ~Awaited => DumpComplete
    BY DEF DumpComplete
  <2> QED
    BY <2>1, InvIs, DumpHas
<1> QED
  BY <1>1, Invariance, PTL
=============================================================================
