----------------------------- MODULE Statistics -----------------------------
(***************************************************************************)
(* Incremental statistics, src/src/statistics.cpp: objects that are fed    *)
(* the same values and differ in their configured tags, and what they show.*)
(*                                                                         *)
(* Values come with the time of the measuring point, and threads race, so  *)
(* timestamps are in no order. m_timestamp is also moved by update_time(), *)
(* which update_metrics() calls before each dump.                          *)
(***************************************************************************)
EXTENDS Histogram

CONSTANTS Values,           \* data; 1 stands for the smallest positive double
          Clock,            \* clock readings of the calls, a bound of the model
          Warmups,          \* sequences of values and times that are fed first
          MaxUpdates,       \* bound of the model on the number of values
          Configs,          \* the sets of tags that are configured
          Probabilities,    \* of the quantiles that are asked for
          RateFactor        \* moving intervals per rate_unit

\* statistics::tag
Tag == {"value", "min", "max", "count", "sum", "avg", "moving_count",
        "moving_sum", "moving_avg", "histogram", "quantile", "timestamp",
        "rate", "entropy"}

ASSUME StatisticsAssumption ==
    /\ Values \subseteq Int
    /\ Clock \subseteq {t \in Nat : t > MovingInterval}
    /\ Warmups \subseteq Seq(Int \X Clock)
    /\ Tag \in Configs
    /\ MaxUpdates \in Nat
    /\ \A p \in Probabilities :        \* 1 is not one of the JSON form's
        IsRat(p) /\ p = Ratio(p[1], p[2]) /\ Leq(Zero, p) /\ Less(p, One)

VARIABLES
    stats,      \* the objects, by configuration
    seen,       \* auxiliary: the values and timestamps of all calls of update()
    stale,      \* auxiliary: a value was older than the interval when it came
    warmup,     \* auxiliary: what is left of the sequence that is fed first
    updates     \* auxiliary: number of calls of update() after the warm-up

vars == <<stats, seen, stale, warmup, updates>>

\* The tags that need tag t to be computed.
Dependants_nohistogram(t) ==
    CASE t = "value" -> {"rate"}
      [] t \in {"count", "sum"} -> {"avg"}
      [] t \in {"moving_count", "moving_sum"} -> {"moving_avg"}
      [] t = "histogram" -> {"quantile", "entropy"}
      [] t = "timestamp" -> {"moving_count", "moving_sum", "moving_avg",
                             "quantile", "rate"}
      [] OTHER -> {}

Dependants(t) ==
    CASE t = "value" -> {"rate"}
      [] t \in {"count", "sum"} -> {"avg"}
      [] t \in {"moving_count", "moving_sum"} -> {"moving_avg"}
      [] t = "histogram" -> {"quantile", "entropy"}
      [] t = "timestamp" -> {"moving_count", "moving_sum", "moving_avg",
                             "histogram", "quantile", "rate"}
      [] OTHER -> {}

\* Whether an object that has the tags T enabled computes a tag.
needed(T) ==
    LET needs[t \in Tag] == t \in T \/ \E u \in Dependants(t) : needs[u]
    IN  needs

\* The tags that an object computes, by the tags that are enabled.
computed == [T \in Configs |-> {t \in Tag : needed(T)[t]}]

\* Larger than all values: numeric_limits<double>::max().
Highest == 1000000

reset ==
    [value |-> 0, min |-> Highest, max |-> 1, sum |-> 0, count |-> 0,
     moving_count |-> Zero, moving_sum |-> Zero, histogram |-> <<>>,
     timestamp |-> 0, rate |-> Zero, data_timestamp |-> 0]

Larger(a, b) == IF a < b THEN b ELSE a
Smaller(a, b) == IF a < b THEN a ELSE b

\* Defective variant: the rate is computed after the value is stored.
Delta_stored(o, value) == value - value

Delta(o, value) == value - o.value

\* Defective variant: the time of the data is the time of the last value.
DataTimestamp_last(o, timestamp) == timestamp

\* Defective variant: the end of the data's interval is stored.
DataTimestamp_end(o, timestamp) ==
    Larger(o.data_timestamp, timestamp + MovingInterval)

DataTimestamp(o, timestamp) == Larger(o.data_timestamp, timestamp)

\* Defective variant: a value from the past is added, however old it is.
MovingSum_old(o, value, timestamp) ==
    Plus(Rat(value), shift_interval_data(o.moving_sum, o.data_timestamp,
                                         o.timestamp, timestamp))

MovingSum(o, value, timestamp) ==
    update_interval_data(o.moving_sum, o.data_timestamp, value,
                         o.timestamp, timestamp)

\* A member is updated if its tag is computed.
update(T, o, value, timestamp) ==
    LET c == computed[T]
        OverInterval(data, added) ==
            update_interval_data(data, o.data_timestamp, added,
                                 o.timestamp, timestamp)
        When(tag, new, old) == IF tag \in c THEN new ELSE old
    IN  [value |-> When("value", value, o.value),
         min   |-> When("min", Smaller(o.min, value), o.min),
         max   |-> When("max", Larger(o.max, value), o.max),
         sum   |-> When("sum", o.sum + value, o.sum),
         count |-> When("count", o.count + 1, o.count),
         rate  |-> When("rate", OverInterval(o.rate, Delta(o, value)), o.rate),
         moving_count |->
             When("moving_count", OverInterval(o.moving_count, 1), o.moving_count),
         moving_sum |->
             When("moving_sum", MovingSum(o, value, timestamp), o.moving_sum),
         histogram |->
             When("histogram",
                  update_histogram(o.histogram, value, o.timestamp, timestamp),
                  o.histogram),
         timestamp |->
             When("timestamp", Larger(o.timestamp, timestamp), o.timestamp),
         data_timestamp |->
             When("timestamp", DataTimestamp(o, timestamp), o.data_timestamp)]

\* What is not computed is zero or empty, and shifting leaves it so.
update_time(T, o, timestamp) ==
    IF timestamp <= o.timestamp THEN o
    ELSE LET Shifted(data) == shift_interval_data(data, o.data_timestamp,
                                                  o.timestamp, timestamp)
         IN  [o EXCEPT !.rate = Shifted(@),
                       !.moving_count = Shifted(@),
                       !.moving_sum = Shifted(@),
                       !.histogram = shift_histogram(@, o.timestamp, timestamp),
                       !.timestamp = IF "timestamp" \in computed[T]
                                     THEN timestamp ELSE @]

-----------------------------------------------------------------------------
avg(o) == IF o.count = 0 THEN Zero ELSE Ratio(o.sum, o.count)

moving_avg(o) ==
    IF Leq(o.moving_count, Zero) THEN Zero ELSE Over(o.moving_sum, o.moving_count)

rate(o) == Times(o.rate, RateFactor)

quantile(o) == [p \in Probabilities |-> at(o.histogram, p)]

get_impl(o, tag) ==
    CASE tag = "avg" -> avg(o)
      [] tag = "moving_avg" -> moving_avg(o)
      [] tag = "rate" -> rate(o)
      [] tag = "quantile" -> quantile(o)
      [] tag = "entropy" -> entropy(o.histogram)
      [] OTHER -> o[tag]

get_safe(T, o, tag, default) ==
    IF tag \in computed[T] THEN get_impl(o, tag) ELSE default

\* get() throws instead.
get(T, o, tag) == get_safe(T, o, tag, "invalid_tag_error")

\* The fields of the JSON form are the enabled tags, not the computed ones.
write_to_json_value(T, o) == [tag \in T |-> get(T, o, tag)]

-----------------------------------------------------------------------------
Init ==
    /\ stats = [T \in Configs |-> reset]
    /\ seen = << >> /\ stale = FALSE
    /\ warmup \in Warmups
    /\ updates = 0

Update(value, timestamp) ==
    /\ stats' = [T \in Configs |-> update(T, stats[T], value, timestamp)]
    /\ seen' = Append(seen, <<value, timestamp>>)
    /\ stale' = (stale \/ timestamp < stats[Tag].timestamp - MovingInterval)

WarmUp ==
    /\ warmup # << >>
    /\ Update(Head(warmup)[1], Head(warmup)[2])
    /\ warmup' = Tail(warmup)
    /\ UNCHANGED updates

AnyUpdate ==
    /\ warmup = << >> /\ updates < MaxUpdates
    /\ \E value \in Values, timestamp \in Clock : Update(value, timestamp)
    /\ updates' = updates + 1
    /\ UNCHANGED warmup

UpdateTime(timestamp) ==
    /\ warmup = << >>
    /\ timestamp > stats[Tag].timestamp
    /\ stats' = [T \in Configs |-> update_time(T, stats[T], timestamp)]
    /\ UNCHANGED <<seen, stale, warmup, updates>>

Next ==
    \/ WarmUp
    \/ AnyUpdate
    \/ \E timestamp \in Clock : UpdateTime(timestamp)

Spec == Init /\ [][Next]_vars

-----------------------------------------------------------------------------
full == stats[Tag]

\* Types of all variables.
TypeOK ==
    /\ DOMAIN stats = Configs
    /\ \A T \in Configs :
        LET o == stats[T]
        IN  /\ {o.value, o.min, o.max, o.sum} \subseteq Int
            /\ o.count \in 0 .. Len(seen)
            /\ {o.timestamp, o.data_timestamp} \subseteq Clock \cup {0}
            /\ \A f \in {o.rate, o.moving_count, o.moving_sum} : IsRat(f)
            /\ \A i \in DOMAIN o.histogram :
                /\ o.histogram[i] \in bin_type
                /\ IsRat(o.histogram[i].center) /\ IsRat(o.histogram[i].count)
    /\ seen \in Seq(Int \X Clock)
    /\ stale \in BOOLEAN
    /\ warmup \in Seq(Int \X Clock)
    /\ updates \in 0 .. MaxUpdates

\* What an object shows of a tag does not depend on which other tags are
\* configured: computed() names everything the tag is computed from.
TagsIndependent ==
    \A T \in Configs :
        write_to_json_value(T, stats[T]) = [tag \in T |-> get(Tag, full, tag)]

\* Whatever the order of the timestamps, the moving average lies between the
\* smallest and the largest value: moving_sum and moving_count take and drop
\* the same values and decay alike.
AvgWithinRange ==
    Less(Zero, full.moving_count) =>
        /\ \E i \in DOMAIN seen : Leq(Rat(seen[i][1]), moving_avg(full))
        /\ \E i \in DOMAIN seen : Leq(moving_avg(full), Rat(seen[i][1]))

\* How often update_time() is called, that is how often dumps are made, does
\* not change what is shown at a later time.
ShiftPathIndependent ==
    \A t1, t2 \in Clock :
        t1 < t2 => update_time(Tag, update_time(Tag, full, t1), t2)
                       = update_time(Tag, full, t2)

\* An object that is no longer fed forgets within one moving interval of its
\* newest value.
Expires ==
    full.timestamp > full.data_timestamp + MovingInterval =>
        /\ full.moving_count = Zero /\ full.moving_sum = Zero
        /\ full.rate = Zero

\* For a counter that is incremented by one, the rate is the number of events,
\* as RateMovingCountTest says, also when the events come out of order.
RateIsMovingCount ==
    (\A i \in DOMAIN seen : seen[i][1] = i) => full.rate = full.moving_count

\* The bins are ordered, bounded in number, not negative, and between the
\* smallest and the largest value. Together they hold no more data than the
\* moving count, unless values older than the interval came: these enter the
\* histogram but are not counted.
HistogramShape ==
    LET h == full.histogram
    IN  /\ Len(h) <= HistogramBins
        /\ \A i \in 1 .. Len(h) - 1 : Leq(h[i].center, h[i + 1].center)
        /\ \A i \in DOMAIN h :
            /\ Leq(Zero, h[i].count)
            /\ \E j \in DOMAIN seen : Leq(Rat(seen[j][1]), h[i].center)
            /\ \E j \in DOMAIN seen : Leq(h[i].center, Rat(seen[j][1]))
        /\ ~stale => Leq(Total(h), full.moving_count)

Moment(h) ==
    FoldLeft(LAMBDA sum, bin : Plus(sum, Times(bin.center, bin.count)), Zero, h)

\* Dropping and merging bins changes neither the amount of data nor their
\* mean: after update() the histogram has the totals of all bins and the new one.
HistogramConserves ==
    seen' # seen =>
        LET new == Last(seen')
            all == shift_histogram(
                       Append(full.histogram, NewBin(new[1], new[2])),
                       full.timestamp, new[2])
        IN  /\ Total(full'.histogram) = Total(all)
            /\ Moment(full'.histogram) = Moment(all)

HistogramConservesStep == [][HistogramConserves]_vars

\* Quantiles: the gap found is one of the histogram, find_z() has a root in
\* [0, 1] and does not throw, the ends of the gap are in order, and a larger
\* probability is further right.
QuantileSound ==
    LET h == full.histogram
    IN  Interpolates(h) =>
            \A p \in Probabilities :
                LET l == Locate(h, p)
                    found == at(h, p)
                IN  /\ l.k <= Len(h)
                    /\ HasRoot(found.a, found.b, found.c)
                    /\ Leq(found.left[1], found.right[1])
                    /\ \A q \in Probabilities :
                        LET r == Locate(h, q)
                        IN  Less(p, q) =>
                                \/ l.k < r.k
                                \/ l.k = r.k /\ Less(l.required, r.required)

\* The maximum is the largest of the values, as the documentation says. It is
\* not when all of them are zero or negative: m_max starts at the smallest
\* positive double.
MaxIsLargest ==
    seen # <<>> => \E i \in DOMAIN seen : seen[i][1] = full.max

-----------------------------------------------------------------------------
(* The inductive invariant behind TagsIndependent, Expires and              *)
(* RateIsMovingCount.                                                       *)

Members == {"value", "min", "max", "sum", "count", "rate", "moving_count",
            "moving_sum", "histogram", "timestamp"}

\* What an object with the tags T computes is as in the object f.
SameAs(T, o, f) ==
    /\ \A m \in Members : m \in computed[T] => o[m] = f[m]
    /\ "timestamp" \in computed[T] => o.data_timestamp = f.data_timestamp

SameInv ==
    \A T \in Configs :
        /\ DOMAIN stats[T] = Members \cup {"data_timestamp"}
        /\ SameAs(T, stats[T], full)

\* A counter's values are its increments, counted.
CountInv ==
    (\A i \in DOMAIN seen : seen[i][1] = i) =>
        full.value = Len(seen) /\ full.rate = full.moving_count

IInv ==
    /\ DOMAIN stats = Configs
    /\ {full.timestamp, full.data_timestamp} \subseteq Int
    /\ seen \in Seq(Int \X Int) /\ warmup \in Seq(Int \X Clock)
    /\ SameInv /\ Expires /\ CountInv
=============================================================================
