------------------------------- MODULE Timer --------------------------------
(***************************************************************************)
(* A timer metric, src/src/metrics/timer.cpp, driven by the timer events   *)
(* of src/src/events/timer.cpp: its active instances, their heartbeats and *)
(* the lazy removal of instances that have been silent for too long.       *)
(*                                                                         *)
(* All of it runs in the processor thread, one event after the other.      *)
(* Events carry the time at which the measuring point was called, and      *)
(* threads race to push them, so timestamps do not arrive in order: an     *)
(* event may be up to Skew older than the newest one before it.            *)
(* Times are counts of the unit of the clock source, cycles or             *)
(* nanoseconds (src/src/chrono/tsc_clock.cpp).                             *)
(***************************************************************************)
EXTENDS Conversions

CONSTANTS Ids,                \* instance ids
          ConfiguredTimeout,  \* idle timeout from the pattern that matches
          DefaultTimeout,     \* idle timeout in config::metrics::timer_opts
          Skew,               \* how far an event may lag behind the newest
          ClockUnit,          \* unit of tsc_clock::now()
          MaxTime             \* bound of the model on the clock

ASSUME TimerAssumption ==
    /\ ConfiguredTimeout \in Nat
    /\ DefaultTimeout \in Nat
    /\ Skew \in Nat
    /\ ClockUnit \in {"TICK", "NSEC"}
    /\ MaxTime \in Nat
    /\ MaxTime < Limit

VARIABLES
    m_instances,            \* the active instances, by id
    m_idle_timeout,
    m_idle_check_timestamp,
    values_timestamp,       \* m_timestamp of m_values
    now,                    \* the clock
    latest,                 \* auxiliary: newest timestamp of an instance's event
    reported                \* auxiliary: the measurement, if any, that the last
                            \* event, a stop, fed to m_values

vars == <<m_instances, m_idle_timeout, m_idle_check_timestamp,
          values_timestamp, now, latest, reported>>

Time == 0 .. MaxTime

value_unit == "USEC"

\* instance_state, and the longest silence of the instance (auxiliary)
instance_state ==
    [start_timestamp : Time, heartbeat_timestamp : Time, silence : Time]

\* What stop() feeds to m_values; the time span it comes from and the longest
\* silence in it (auxiliary)
Measurement == [duration : Int, span : Int, silence : Time]

\* Types of all variables.
TypeOK ==
    /\ DOMAIN m_instances \in SUBSET Ids
    /\ m_instances \in [DOMAIN m_instances -> instance_state]
    /\ m_idle_timeout \in {ConfiguredTimeout, DefaultTimeout}
    /\ m_idle_check_timestamp \in Time
    /\ values_timestamp \in Time
    /\ now \in Time
    /\ latest \in Time
    /\ reported \in SUBSET Measurement

\* internal::process_event_message() creates the timer with the options of
\* the first pattern that matches its name.
Init ==
    /\ m_instances = [i \in {} |-> {}]
    /\ m_idle_timeout = ConfiguredTimeout
    /\ m_idle_check_timestamp = 0
    /\ values_timestamp = 0
    /\ now = 0
    /\ latest = 0
    /\ reported = {}

Larger(a, b) == IF a < b THEN b ELSE a

\* timestamp > heartbeat && timestamp - heartbeat > idle_timeout
expired(i, t) ==
    /\ t > m_instances[i].heartbeat_timestamp
    /\ t - m_instances[i].heartbeat_timestamp > m_idle_timeout

\* check_idle_timeout() looks at the instances at most once per timeout.
IdleCheckDue(t) == t >= m_idle_check_timestamp + m_idle_timeout

\* The ids that check_idle_timeout(t) leaves.
Checked(t) ==
    {i \in DOMAIN m_instances : IdleCheckDue(t) => ~expired(i, t)}

\* Defective variant: the deadline of the next check is stored.
check_idle_timeout_deadline(t) ==
    m_idle_check_timestamp' =
        IF IdleCheckDue(t) THEN t + m_idle_timeout ELSE m_idle_check_timestamp

\* Defective variant: every event postpones the next check.
check_idle_timeout_postponed(t) ==
    m_idle_check_timestamp' = Larger(m_idle_check_timestamp, t)

check_idle_timeout(t) ==
    m_idle_check_timestamp' =
        IF IdleCheckDue(t) THEN Larger(m_idle_check_timestamp, t)
                           ELSE m_idle_check_timestamp

\* An event for an instance arrives, with timestamp t.
Receive(t) ==
    /\ t <= now
    /\ t >= latest - Skew
    /\ latest' = Larger(latest, t)
    /\ UNCHANGED now

\* The instances S are kept.
Keep(S) == m_instances' = [j \in S |-> m_instances[j]]

\* The instances S are kept, and instance i is or becomes r.
KeepAnd(S, i, r) ==
    m_instances' = [j \in S \cup {i} |-> IF j = i THEN r ELSE m_instances[j]]

\* Defective variant: an instance starts when its event is processed.
Started_now(t) ==
    [start_timestamp |-> now, heartbeat_timestamp |-> t, silence |-> 0]

Started(t) ==
    [start_timestamp |-> t, heartbeat_timestamp |-> t, silence |-> 0]

\* Defective variant: relies on the periodic check.
Alive_unchecked(i, t) == i \in Checked(t)

\* Instance i can be stopped or refreshed at t.
Alive(i, t) == i \in Checked(t) /\ ~expired(i, t)

SilenceUntil(i, t) ==
    Larger(m_instances[i].silence, t - m_instances[i].heartbeat_timestamp)

-----------------------------------------------------------------------------
Start(i, t) ==
    /\ Receive(t)
    /\ check_idle_timeout(t)
    /\ KeepAnd(Checked(t), i, Started(t))
    /\ reported' = {}
    /\ UNCHANGED <<m_idle_timeout, values_timestamp>>

\* What stop() may report at t for the time since start().
Measured(i, t) ==
    LET span == t - m_instances[i].start_timestamp
    IN  {[duration |-> c.rep, span |-> span, silence |-> SilenceUntil(i, t)] :
            c \in convert_to(value_unit, Dur(span, ClockUnit))}

\* stop() reports the time since start(), unless the instance has expired.
Stop(i, t) ==
    /\ Receive(t)
    /\ check_idle_timeout(t)
    /\ Keep(Checked(t) \ {i})
    /\ IF Alive(i, t)
       THEN /\ \E m \in Measured(i, t) : reported' = {m}
            /\ values_timestamp' = Larger(values_timestamp, t)
       ELSE /\ reported' = {}
            /\ UNCHANGED values_timestamp
    /\ UNCHANGED m_idle_timeout

Heartbeat(i, t) ==
    /\ Receive(t)
    /\ check_idle_timeout(t)
    /\ IF Alive(i, t)
       THEN KeepAnd(Checked(t), i, [m_instances[i] EXCEPT
                                       !.heartbeat_timestamp = t,
                                       !.silence = SilenceUntil(i, t)])
       ELSE Keep(Checked(t) \ {i})
    /\ reported' = {}
    /\ UNCHANGED <<m_idle_timeout, values_timestamp>>

Discard(i, t) ==
    /\ Receive(t)
    /\ check_idle_timeout(t)
    /\ Keep(Checked(t) \ {i})
    /\ reported' = {}
    /\ UNCHANGED <<m_idle_timeout, values_timestamp>>

\* set() feeds a measurement made elsewhere, and checks no instance.
SetValue(t) ==
    /\ t <= now
    /\ values_timestamp' = Larger(values_timestamp, t)
    /\ reported' = {}
    /\ UNCHANGED <<m_instances, m_idle_timeout, m_idle_check_timestamp, now, latest>>

\* process_init_event() replaces the timer by a new one, with the default
\* options, and starts the instance.
InitEvent(i, t) ==
    /\ Receive(t)
    /\ KeepAnd({}, i, Started(t))
    /\ m_idle_timeout' = DefaultTimeout
    /\ m_idle_check_timestamp' = (IF t >= DefaultTimeout THEN t ELSE 0)
    /\ values_timestamp' = 0
    /\ reported' = {}

\* update_statistics(), called for every dump: it refreshes m_values only.
UpdateStatistics ==
    /\ values_timestamp' = now
    /\ reported' = {}
    /\ UNCHANGED <<m_instances, m_idle_timeout, m_idle_check_timestamp, now, latest>>

Tick ==
    /\ now < MaxTime
    /\ now' = now + 1
    /\ UNCHANGED <<m_instances, m_idle_timeout, m_idle_check_timestamp,
                   values_timestamp, latest, reported>>

Event ==
    \E t \in Time :
       \/ SetValue(t)
       \/ \E i \in Ids : \/ Start(i, t) \/ Stop(i, t) \/ Heartbeat(i, t)
                         \/ Discard(i, t) \/ InitEvent(i, t)

Next == Event \/ UpdateStatistics \/ Tick

Spec == Init /\ [][Next]_vars

\* Time passes, and the processor thread dumps again and again.
FairSpec == Spec /\ WF_vars(Tick) /\ WF_vars(UpdateStatistics)

-----------------------------------------------------------------------------
(* Correctness. *)

\* check_idle_timeout() looks for silent instances only now and then, and
\* events arrive out of order; and yet the timer never keeps an instance that
\* is older, at the newest event, than one timeout plus the larger of the
\* timeout and the disorder (timer.cpp:89-108).
StaleBound ==
    \A i \in DOMAIN m_instances :
        latest - m_instances[i].heartbeat_timestamp
            <= m_idle_timeout + Larger(m_idle_timeout, Skew)

\* A reported time span never covers a silence longer than the idle timeout:
\* a heartbeat or a stop that comes too late does not revive an instance,
\* also when no check was due (timer.cpp:42-77).
NoRevival == \A m \in reported : m.silence <= m_idle_timeout

\* Start and stop of an instance may be processed with their timestamps out
\* of order; the time span between them is negative then, but by no more than
\* the disorder of the events. What is reported is the time span up to the
\* loss of the conversion, with one exception: if the clock counts nanoseconds,
\* a negative time span is reported as a positive one of 2 * Limit nanoseconds
\* less its magnitude (timer.cpp:55-58, chrono.cpp:59, 62).
DurationBound ==
    \A m \in reported :
        /\ m.span >= 0 - Skew
        /\ LET x == Dur(m.span, ClockUnit)
               length == IF m.span < 0 /\ ClockUnit = "NSEC"
                         THEN Length(x) + 2 * Limit * Cycles ELSE Length(x)
               loss == Loss(x, value_unit)
           IN  Length(Dur(m.duration, value_unit)) - length \in -loss .. loss

Dead(i) ==
    /\ i \in DOMAIN m_instances
    /\ now - m_instances[i].heartbeat_timestamp > m_idle_timeout

\* "If no events have been received by timer's instance during this time
\* interval, timer's instance is considered dead and is removed from the
\* timer" (docs/metrics.rst:91); here for a timer that receives no events at
\* all from some time on, while dumps go on.
DeadInstancesRemoved ==
    <>[][Tick \/ UpdateStatistics]_vars => \A i \in Ids : Dead(i) ~> ~Dead(i)

-----------------------------------------------------------------------------
(* The inductive invariant behind the three safety properties: the last     *)
(* check bounds the age of every instance, and the newest event is at most  *)
(* one timeout past that check, unless a re-initialization moved the check  *)
(* back; then all instances are recent.                                     *)

CheckInv ==
    /\ latest <= now
    /\ m_idle_check_timestamp <= latest
    /\ \A i \in DOMAIN m_instances :
          m_idle_check_timestamp - m_instances[i].heartbeat_timestamp
              <= Larger(m_idle_timeout, Skew)
    /\ \/ latest <= m_idle_check_timestamp + m_idle_timeout
       \/ \A i \in DOMAIN m_instances :
             latest - m_instances[i].heartbeat_timestamp <= Skew

InstanceInv ==
    \A i \in DOMAIN m_instances :
        /\ m_instances[i].start_timestamp <= latest
        /\ m_instances[i].silence <= m_idle_timeout

IInv == TypeOK /\ CheckInv /\ InstanceInv /\ NoRevival /\ DurationBound
=============================================================================
