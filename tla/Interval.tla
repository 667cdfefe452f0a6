------------------------------ MODULE Interval ------------------------------
(***************************************************************************)
(* Quantities over a moving interval, src/src/statistics.cpp: a quantity   *)
(* is thought of as spread evenly over the interval that ends at the time  *)
(* of its newest datum, and loses the part that the window leaves behind.  *)
(***************************************************************************)
EXTENDS Rationals

CONSTANT MovingInterval     \* length of the interval

\* configure() accepts positive intervals only.
ASSUME IntervalAssumption == MovingInterval \in Nat \ {0}

\* Parts of the formula of shift_interval_data(): what is left of the data's
\* interval when the window ends at timestamp, and what was left before.
stale_interval(data_timestamp, timestamp) ==
    data_timestamp - (timestamp - MovingInterval)

Covered_whole(data_timestamp, m_timestamp) == MovingInterval

Covered(data_timestamp, m_timestamp) ==
    MovingInterval - (m_timestamp - data_timestamp)

\* data was last shifted to m_timestamp, and is shifted to timestamp.
shift_interval_data(data, data_timestamp, m_timestamp, timestamp) ==
    IF timestamp <= m_timestamp THEN data
    ELSE IF stale_interval(data_timestamp, timestamp) <= 0 THEN Zero
    ELSE Times(data, Ratio(stale_interval(data_timestamp, timestamp),
                           Covered(data_timestamp, m_timestamp)))

\* A value from the past is added undecayed, or not at all when it is older
\* than the interval.
update_interval_data(data, data_timestamp, value, m_timestamp, timestamp) ==
    IF timestamp < m_timestamp - MovingInterval THEN data
    ELSE Plus(Rat(value),
              shift_interval_data(data, data_timestamp, m_timestamp, timestamp))
=============================================================================
