---------------------------- MODULE Timer_proofs ----------------------------
(***************************************************************************)
(* Proofs about Timer for any instances, timeouts, disorder of events and  *)
(* length of run, for both units of the clock and any width of the counts. *)
(***************************************************************************)
EXTENDS Timer, TLAPS

-----------------------------------------------------------------------------
(* What stop() makes of a time span, from the lemmas about conversions.     *)

\* The calculator of Durations plays no role here.
D == INSTANCE Durations_proofs
         WITH Operands <- {}, MaxSteps <- 0, d <- 0, exact <- 0, error <- 0,
              surplus <- 0, steps <- 0

LEMMA DurationAssumptions == D!ConversionsAssumption /\ D!OperandsAssumption
  BY ConversionsAssumption DEF D!ConversionsAssumption, D!OperandsAssumption

\* Both modules have the same conversions.
LEMMA SameConversions ==
    /\ D!Unit = Unit
    /\ \A to, x : /\ D!convert_to(to, x) = convert_to(to, x)
                  /\ D!Loss(x, to) = Loss(x, to)
                  /\ D!Length(x) = Length(x)
                  /\ D!Surplus(x, to) = Surplus(x, to)
  BY DEF D!Unit, Unit, D!precision_class, precision_class, D!convert_to, convert_to,
         D!counts, counts, D!Floating, Floating, D!Signed, Signed, D!Unsigned, Unsigned,
         D!nsec_factor, nsec_factor, D!Dur, Dur, D!Loss, Loss, D!Rounding, Rounding,
         D!Length, Length, D!UnitLength, UnitLength, D!Surplus, Surplus,
         D!KeepsSign, KeepsSign

LEMMA SpanConverted ==
    ASSUME NEW span \in Int, -Limit < span, span < Limit,
           NEW x, x = Dur(span, ClockUnit),
           NEW c \in convert_to(value_unit, x)
    PROVE  /\ c.rep \in Int /\ Dur(c.rep, value_unit) = c
           /\ Length(c) - (Length(x) + Surplus(x, value_unit))
                \in -Loss(x, value_unit) .. Loss(x, value_unit)
<1>1. x \in D!Duration /\ value_unit \in D!Unit /\ x.unit = ClockUnit /\ x.rep = span
  BY TimerAssumption, SameConversions
     DEF D!Duration, Dur, value_unit, Unit, precision_class
<1>2. D!ProductFits(x, value_unit)
  <2>1. ClockUnit = "NSEC" => D!nsec_factor[x.unit] = 1
    BY <1>1 DEF D!nsec_factor
  <2> QED
    BY <1>1, <2>1, TimerAssumption DEF D!ProductFits
<1>3. c \in D!convert_to(value_unit, x)
  BY SameConversions
<1>4. c.unit = value_unit /\ D!Converted(x, c)
  BY <1>1, <1>2, <1>3, DurationAssumptions, D!Conversion DEF D!ConversionsAssumption
<1>5. /\ c \in D!Duration
      /\ -Loss(x, value_unit) <= Length(c) - (Length(x) + Surplus(x, value_unit))
      /\ Length(c) - (Length(x) + Surplus(x, value_unit)) <= Loss(x, value_unit)
  BY <1>4, SameConversions DEF D!Converted
<1>6. /\ Length(c) \in Int /\ Length(x) \in Int /\ Loss(x, value_unit) \in Nat
      /\ Surplus(x, value_unit) \in Nat
  <2>1. D!Length(c) \in Int /\ D!Length(x) \in Int
    BY <1>1, <1>5, DurationAssumptions, D!Lengths DEF D!ConversionsAssumption
  <2>2. D!Loss(x, value_unit) \in Nat
    BY <1>1, DurationAssumptions, D!Losses DEF D!ConversionsAssumption
  <2>3. D!Surplus(x, value_unit) \in Nat
    BY DurationAssumptions, D!SurplusType DEF D!ConversionsAssumption
  <2> QED
    BY <2>1, <2>2, <2>3, SameConversions
<1>7. c.rep \in Int /\ Dur(c.rep, value_unit) = c
  BY <1>4, <1>5 DEF D!Duration, Dur
<1> QED
  BY <1>5, <1>6, <1>7

\* When a time span loses its sign.
LEMMA SpanSurplus ==
    ASSUME NEW span \in Int, NEW x, x = Dur(span, ClockUnit)
    PROVE  Length(x) + Surplus(x, value_unit) =
             IF span < 0 /\ ClockUnit = "NSEC" THEN Length(x) + 2 * Limit * Cycles ELSE Length(x)
<1>1. x.rep = span /\ x.unit = ClockUnit
  BY DEF Dur
<1>2. Length(x) \in Int
  <2>1. x \in D!Duration
    BY TimerAssumption, SameConversions DEF D!Duration, Dur, Unit, precision_class
  <2>2. D!Length(x) \in Int
    BY <2>1, DurationAssumptions, D!Lengths DEF D!ConversionsAssumption
  <2> QED
    BY <2>2, SameConversions
<1>3. KeepsSign(x, value_unit) <=> ~(span < 0 /\ ClockUnit = "NSEC")
  BY <1>1, TimerAssumption DEF KeepsSign, value_unit
<1> QED
  BY <1>2, <1>3 DEF Surplus

-----------------------------------------------------------------------------
(* The events.                                                              *)

\* What one event with timestamp t leaves of the instances that it keeps.
LEMMA CheckFacts ==
    ASSUME IInv, NEW t \in Time, Receive(t), check_idle_timeout(t)
    PROVE  /\ m_idle_check_timestamp' \in Time
           /\ latest' \in Time /\ latest' <= now'
           /\ m_idle_check_timestamp' <= latest'
           /\ latest <= latest' /\ t <= latest' /\ latest' - t <= Skew
           /\ m_idle_check_timestamp' - t <= Skew
           /\ \A i \in Checked(t) :
                 m_idle_check_timestamp' - m_instances[i].heartbeat_timestamp
                   <= Larger(m_idle_timeout, Skew)
           /\ \/ latest' <= m_idle_check_timestamp' + m_idle_timeout
              \/ \A i \in Checked(t) :
                    latest' - m_instances[i].heartbeat_timestamp <= Skew
<1> DEFINE hb(i) == m_instances[i].heartbeat_timestamp
<1>1. /\ now \in Int /\ latest \in Int /\ t \in Int /\ m_idle_check_timestamp \in Int
      /\ m_idle_timeout \in Nat /\ Skew \in Nat /\ MaxTime \in Nat
      /\ 0 <= t /\ t <= MaxTime /\ 0 <= latest /\ latest <= MaxTime
      /\ 0 <= m_idle_check_timestamp /\ m_idle_check_timestamp <= MaxTime
      /\ now' = now
  BY TimerAssumption DEF IInv, TypeOK, Time, Receive
<1>2. \A i \in DOMAIN m_instances : hb(i) \in Int
  BY DEF IInv, TypeOK, instance_state, Time
<1>3. \A i \in Checked(t) : i \in DOMAIN m_instances
  BY DEF Checked
<1>4. CASE IdleCheckDue(t)
  <2>1. m_idle_check_timestamp' = t
    BY <1>1, <1>4 DEF check_idle_timeout, IdleCheckDue, Larger
  <2>2. \A i \in Checked(t) : t - hb(i) <= m_idle_timeout
    BY <1>1, <1>2, <1>3, <1>4 DEF Checked, expired
  <2>3. \/ latest' <= t + m_idle_timeout
        \/ \A i \in Checked(t) : latest' - hb(i) <= Skew
    <3>1. latest' = t \/ latest' = latest
      BY DEF Receive, Larger
    <3>2. \/ latest <= m_idle_check_timestamp + m_idle_timeout
          \/ \A i \in DOMAIN m_instances : latest - hb(i) <= Skew
      BY DEF IInv, CheckInv
    <3>3. m_idle_check_timestamp + m_idle_timeout <= t
      BY <1>1, <1>4 DEF IdleCheckDue
    <3>4. t <= t + m_idle_timeout
      BY <1>1
    <3>5. ASSUME latest <= m_idle_check_timestamp + m_idle_timeout
          PROVE  latest <= t + m_idle_timeout
      BY <1>1, <3>3, <3>5
    <3> HIDE DEF hb
    <3> QED
      BY <1>3, <3>1, <3>2, <3>4, <3>5
  <2> QED
    BY <1>1, <1>2, <1>3, <2>1, <2>2, <2>3 DEF IInv, CheckInv, Receive, Larger, Time
<1>5. CASE ~IdleCheckDue(t)
  <2>1. m_idle_check_timestamp' = m_idle_check_timestamp
    BY <1>5 DEF check_idle_timeout
  <2>2. t <= m_idle_check_timestamp + m_idle_timeout
    BY <1>1, <1>5 DEF IdleCheckDue
  <2> QED
    BY <1>1, <1>2, <1>3, <2>1, <2>2 DEF IInv, CheckInv, Receive, Larger, Time
<1> QED
  BY <1>4, <1>5

\* An event keeps some of the checked instances and makes others recent.
LEMMA EventFacts ==
    ASSUME IInv, NEW t \in Time, Receive(t), check_idle_timeout(t),
           m_idle_timeout' = m_idle_timeout,
           DOMAIN m_instances' \subseteq Ids,
           m_instances' = [j \in DOMAIN m_instances' |-> m_instances'[j]],
           \A j \in DOMAIN m_instances' :
              \/ j \in Checked(t) /\ m_instances'[j] = m_instances[j]
              \/ /\ m_instances'[j] \in instance_state
                 /\ m_instances'[j].heartbeat_timestamp = t
                 /\ m_instances'[j].start_timestamp <= latest'
                 /\ m_instances'[j].silence <= m_idle_timeout
    PROVE  /\ m_instances' \in [DOMAIN m_instances' -> instance_state]
           /\ CheckInv' /\ InstanceInv'
<1>1. /\ m_idle_check_timestamp' \in Time
      /\ latest' \in Time /\ latest' <= now'
      /\ m_idle_check_timestamp' <= latest'
      /\ latest <= latest' /\ t <= latest' /\ latest' - t <= Skew
      /\ m_idle_check_timestamp' - t <= Skew
      /\ \A i \in Checked(t) :
            m_idle_check_timestamp' - m_instances[i].heartbeat_timestamp
              <= Larger(m_idle_timeout, Skew)
      /\ \/ latest' <= m_idle_check_timestamp' + m_idle_timeout
         \/ \A i \in Checked(t) :
               latest' - m_instances[i].heartbeat_timestamp <= Skew
  BY CheckFacts
<1>2. \A i \in Checked(t) : i \in DOMAIN m_instances /\ m_instances[i] \in instance_state
  BY DEF Checked, IInv, TypeOK
<1>3. \A j \in DOMAIN m_instances' : m_instances'[j] \in instance_state
  BY <1>2
<1>4. m_instances' \in [DOMAIN m_instances' -> instance_state]
  BY <1>3
<1>5. /\ m_idle_timeout \in Nat /\ Skew \in Nat /\ latest' \in Int /\ latest \in Int
      /\ m_idle_check_timestamp' \in Int /\ t \in Int
  BY <1>1, TimerAssumption DEF IInv, TypeOK, Time
<1>6. Skew <= Larger(m_idle_timeout, Skew)
  BY <1>5 DEF Larger
<1>7. ASSUME NEW j \in DOMAIN m_instances'
      PROVE  m_idle_check_timestamp' - m_instances'[j].heartbeat_timestamp
                 <= Larger(m_idle_timeout, Skew)
  <2>1. CASE j \in Checked(t) /\ m_instances'[j] = m_instances[j]
    BY <1>1, <2>1
  <2>2. CASE m_instances'[j].heartbeat_timestamp = t
    BY <1>1, <1>5, <1>6, <2>2 DEF Larger
  <2> QED
    BY <2>1, <2>2
<1>8. \/ latest' <= m_idle_check_timestamp' + m_idle_timeout
      \/ \A j \in DOMAIN m_instances' :
            latest' - m_instances'[j].heartbeat_timestamp <= Skew
  BY <1>1
<1>9. CheckInv'
  <2>1. Larger(m_idle_timeout, Skew)' = Larger(m_idle_timeout, Skew)
    BY DEF Larger
  <2> QED
    BY <1>1, <1>7, <1>8, <2>1 DEF CheckInv
<1>10. InstanceInv'
  <2>1. \A i \in Checked(t) : /\ m_instances[i].start_timestamp <= latest'
                              /\ m_instances[i].silence <= m_idle_timeout
    BY <1>1, <1>2, <1>5 DEF IInv, InstanceInv, instance_state, Time
  <2> QED
    BY <2>1 DEF InstanceInv
<1> QED
  BY <1>4, <1>9, <1>10

\* Instances that are alive at t have been silent for one timeout at most.
LEMMA AliveFacts ==
    ASSUME IInv, NEW t \in Time, NEW i \in Ids, Alive(i, t)
    PROVE  /\ i \in DOMAIN m_instances /\ m_instances[i] \in instance_state
           /\ SilenceUntil(i, t) \in Time
           /\ SilenceUntil(i, t) <= m_idle_timeout
<1>1. i \in DOMAIN m_instances /\ m_instances[i] \in instance_state
  BY DEF Alive, Checked, IInv, TypeOK
<1>2. m_idle_timeout \in Nat /\ MaxTime \in Nat
  BY TimerAssumption DEF IInv, TypeOK
<1> QED
  BY <1>1, <1>2 DEF IInv, InstanceInv, Alive, expired, SilenceUntil, Larger,
                    instance_state, Time

LEMMA StartIInv ==
    ASSUME IInv, NEW i \in Ids, NEW t \in Time, Start(i, t)
    PROVE  IInv'
<1> USE DEF Start, KeepAnd, Started
<1>1. DOMAIN m_instances' = Checked(t) \cup {i} /\ DOMAIN m_instances' \subseteq Ids
  BY DEF Checked, IInv, TypeOK
<1>2. m_instances'[i] = Started(t) /\ Started(t) \in instance_state /\ t <= latest'
  BY CheckFacts, TimerAssumption DEF Time, instance_state
<1>3. /\ m_instances' \in [DOMAIN m_instances' -> instance_state]
      /\ CheckInv' /\ InstanceInv'
  <2>1. 0 <= m_idle_timeout
    BY TimerAssumption DEF IInv, TypeOK
  <2> QED
    BY <1>1, <1>2, <2>1, EventFacts
<1>4. TypeOK'
  BY <1>1, <1>3, CheckFacts DEF IInv, TypeOK, Receive
<1> QED
  BY <1>3, <1>4 DEF IInv, NoRevival, DurationBound

\* Events that only remove instances.
LEMMA KeepIInv ==
    ASSUME IInv, NEW t \in Time, Receive(t), check_idle_timeout(t),
           NEW i \in Ids, Keep(Checked(t) \ {i}), m_idle_timeout' = m_idle_timeout,
           values_timestamp' \in Time, reported' \in SUBSET Measurement,
           NoRevival', DurationBound'
    PROVE  IInv'
<1>1. DOMAIN m_instances' = Checked(t) \ {i} /\ DOMAIN m_instances' \subseteq Ids
  BY DEF Keep, Checked, IInv, TypeOK
<1>2. /\ m_instances' \in [DOMAIN m_instances' -> instance_state]
      /\ CheckInv' /\ InstanceInv'
  BY <1>1, EventFacts DEF Keep
<1>3. TypeOK'
  BY <1>1, <1>2, CheckFacts DEF IInv, TypeOK, Receive
<1> QED
  BY <1>2, <1>3 DEF IInv

LEMMA HeartbeatIInv ==
    ASSUME IInv, NEW i \in Ids, NEW t \in Time, Heartbeat(i, t)
    PROVE  IInv'
<1> USE DEF Heartbeat
<1>1. CASE Alive(i, t)
  <2> DEFINE r == [m_instances[i] EXCEPT !.heartbeat_timestamp = t,
                                         !.silence = SilenceUntil(i, t)]
  <2>1. KeepAnd(Checked(t), i, r)
    BY <1>1
  <2>2. DOMAIN m_instances' = Checked(t) \cup {i} /\ DOMAIN m_instances' \subseteq Ids
    BY <2>1 DEF KeepAnd, Checked, IInv, TypeOK
  <2>3. r \in instance_state /\ r.heartbeat_timestamp = t
        /\ r.silence <= m_idle_timeout /\ r.start_timestamp = m_instances[i].start_timestamp
    BY <1>1, AliveFacts DEF instance_state
  <2>4. r.start_timestamp <= latest'
    BY <1>1, <2>3, AliveFacts, CheckFacts DEF IInv, TypeOK, InstanceInv, instance_state, Time
  <2> HIDE DEF r
  <2>5. \A j \in DOMAIN m_instances' :
              \/ j \in Checked(t) /\ m_instances'[j] = m_instances[j]
              \/ m_instances'[j] = r
    BY <2>1, <2>2 DEF KeepAnd
  <2>6. /\ m_instances' \in [DOMAIN m_instances' -> instance_state]
        /\ CheckInv' /\ InstanceInv'
    BY <2>1, <2>2, <2>3, <2>4, <2>5, EventFacts DEF KeepAnd
  <2>7. TypeOK'
    BY <2>2, <2>6, CheckFacts DEF IInv, TypeOK, Receive
  <2> QED
    BY <2>6, <2>7 DEF IInv, NoRevival, DurationBound
<1>2. CASE ~Alive(i, t)
  BY <1>2, KeepIInv DEF IInv, TypeOK, NoRevival, DurationBound
<1> QED
  BY <1>1, <1>2

LEMMA StopIInv ==
    ASSUME IInv, NEW i \in Ids, NEW t \in Time, Stop(i, t)
    PROVE  IInv'
<1> USE DEF Stop
<1>1. CASE Alive(i, t)
  <2>1. /\ m_instances[i] \in instance_state
        /\ SilenceUntil(i, t) \in Time /\ SilenceUntil(i, t) <= m_idle_timeout
        /\ m_instances[i].start_timestamp <= latest
    BY <1>1, AliveFacts DEF IInv, InstanceInv
  <2>2. t - m_instances[i].start_timestamp >= 0 - Skew
        /\ t - m_instances[i].start_timestamp \in Int
    BY <2>1, TimerAssumption DEF Receive, IInv, TypeOK, instance_state, Time
  <2>3. values_timestamp' \in Time
    BY <1>1 DEF IInv, TypeOK, Larger
  <2> DEFINE span == t - m_instances[i].start_timestamp
             x == Dur(span, ClockUnit)
  <2>4. PICK c \in convert_to(value_unit, x) :
              reported' = {[duration |-> c.rep, span |-> span, silence |-> SilenceUntil(i, t)]}
    BY <1>1 DEF Measured
  <2>5. span \in Int /\ -Limit < span /\ span < Limit /\ span >= 0 - Skew
    BY <2>1, <2>2, TimerAssumption, ConversionsAssumption DEF instance_state, Time
  <2> HIDE DEF span
  <2>6. /\ c.rep \in Int /\ Dur(c.rep, value_unit) = c
        /\ Length(c) - (Length(x) + Surplus(x, value_unit))
             \in -Loss(x, value_unit) .. Loss(x, value_unit)
    BY <2>5, SpanConverted
  <2>7. Length(x) + Surplus(x, value_unit) =
           IF span < 0 /\ ClockUnit = "NSEC" THEN Length(x) + 2 * Limit * Cycles ELSE Length(x)
    BY <2>5, SpanSurplus
  <2> DEFINE m == [duration |-> c.rep, span |-> span, silence |-> SilenceUntil(i, t)]
  <2>8. /\ m.duration = c.rep /\ m.span = span /\ m.silence = SilenceUntil(i, t)
        /\ reported' = {m} /\ m \in Measurement
    BY <2>1, <2>4, <2>5, <2>6 DEF Measurement
  <2> HIDE DEF m
  <2>9. NoRevival' /\ reported' \in SUBSET Measurement
    BY <1>1, <2>1, <2>8 DEF NoRevival
  <2>10. DurationBound'
    BY <2>5, <2>6, <2>7, <2>8 DEF DurationBound
  <2> QED
    BY <2>3, <2>9, <2>10, KeepIInv
<1>2. CASE ~Alive(i, t)
  BY <1>2, KeepIInv DEF IInv, TypeOK, NoRevival, DurationBound
<1> QED
  BY <1>1, <1>2

LEMMA InitEventIInv ==
    ASSUME IInv, NEW i \in Ids, NEW t \in Time, InitEvent(i, t)
    PROVE  IInv'
<1> USE DEF InitEvent, KeepAnd, Started
<1>1. DOMAIN m_instances' = {i} /\ m_instances'[i] = Started(t)
  OBVIOUS
<1>2. Started(t) \in instance_state
  BY TimerAssumption DEF Time, instance_state
<1>3. m_instances' \in [DOMAIN m_instances' -> instance_state]
  BY <1>1, <1>2
<1>4. /\ latest' \in Time /\ latest' <= now' /\ latest' - t <= Skew /\ t <= latest'
      /\ m_idle_check_timestamp' \in Time /\ m_idle_check_timestamp' <= t
  BY TimerAssumption DEF IInv, TypeOK, CheckInv, Receive, Larger, Time
<1>5. CheckInv'
  <2>1. m_idle_check_timestamp' - t <= Larger(m_idle_timeout', Skew)
    BY <1>4, TimerAssumption DEF Larger, Time
  <2>2. \A j \in DOMAIN m_instances' : m_instances'[j].heartbeat_timestamp = t
    BY <1>1
  <2>3. m_idle_check_timestamp' <= latest'
    BY <1>4, TimerAssumption DEF Time
  <2>4. Larger(m_idle_timeout, Skew)' = Larger(m_idle_timeout', Skew)
    BY DEF Larger
  <2> QED
    BY <1>4, <2>1, <2>2, <2>3, <2>4 DEF CheckInv
<1>6. InstanceInv'
  BY <1>1, <1>4, TimerAssumption DEF InstanceInv, Time
<1>7. TypeOK'
  BY <1>1, <1>3, <1>4, TimerAssumption DEF IInv, TypeOK, Receive, Time
<1> QED
  BY <1>5, <1>6, <1>7 DEF IInv, NoRevival, DurationBound

LEMMA NextIInv == IInv /\ [Next]_vars => IInv'
<1> SUFFICES ASSUME IInv, [Next]_vars PROVE IInv'
  OBVIOUS
<1>1. ASSUME NEW t \in Time, SetValue(t) PROVE IInv'
  <2>1. TypeOK'
    BY <1>1 DEF SetValue, IInv, TypeOK, Larger
  <2> QED
    BY <1>1, <2>1 DEF SetValue, IInv, CheckInv, InstanceInv, NoRevival,
                      DurationBound, Larger
<1>2. ASSUME NEW t \in Time, NEW i \in Ids, Discard(i, t) PROVE IInv'
  BY <1>2, KeepIInv DEF Discard, IInv, TypeOK, NoRevival, DurationBound
<1>3. ASSUME NEW t \in Time, NEW i \in Ids,
             Start(i, t) \/ Stop(i, t) \/ Heartbeat(i, t) \/ InitEvent(i, t)
      PROVE  IInv'
  BY <1>3, StartIInv, StopIInv, HeartbeatIInv, InitEventIInv
<1>4. CASE UpdateStatistics
  BY <1>4 DEF UpdateStatistics, IInv, TypeOK, CheckInv, InstanceInv, NoRevival,
              DurationBound, Larger
<1>5. CASE Tick
  <2>1. now' \in Time /\ latest' <= now'
    BY <1>5, TimerAssumption DEF Tick, IInv, TypeOK, CheckInv, Time
  <2> QED
    BY <1>5, <2>1 DEF Tick, IInv, TypeOK, CheckInv, InstanceInv, NoRevival,
                      DurationBound, Larger
<1>6. CASE UNCHANGED vars
  BY <1>6 DEF vars, IInv, TypeOK, CheckInv, InstanceInv, NoRevival,
              DurationBound, Larger
<1> QED
  BY <1>1, <1>2, <1>3, <1>4, <1>5, <1>6 DEF Next, Event

-----------------------------------------------------------------------------
\* The inductive invariant holds for any sequence of timer events
\* (timer.cpp:34-108).
THEOREM Invariance == Spec => []IInv
<1>1. Init => IInv
  BY TimerAssumption DEF Init, IInv, TypeOK, CheckInv, InstanceInv, NoRevival,
                         DurationBound, Larger, Time
<1> QED
  BY <1>1, NextIInv, PTL DEF Spec

\* All variables keep their types (timer.cpp:18-108).
THEOREM TypeCorrect == Spec => []TypeOK
<1>1. IInv => TypeOK
  BY DEF IInv
<1> QED
  BY <1>1, Invariance, PTL

\* An instance survives an event only if it is younger than one timeout plus
\* the larger of the timeout and the disorder (timer.cpp:89-108).
THEOREM StaleBoundHolds == Spec => []StaleBound
<1>1. IInv => StaleBound
  <2> SUFFICES ASSUME IInv, NEW i \in DOMAIN m_instances
               PROVE  latest - m_instances[i].heartbeat_timestamp
                        <= m_idle_timeout + Larger(m_idle_timeout, Skew)
    BY DEF StaleBound
  <2>1. m_instances[i].heartbeat_timestamp \in Int /\ latest \in Int
        /\ m_idle_check_timestamp \in Int /\ m_idle_timeout \in Nat /\ Skew \in Nat
    BY TimerAssumption DEF IInv, TypeOK, instance_state, Time
  <2> QED
    BY <2>1 DEF IInv, CheckInv, Larger
<1> QED
  BY <1>1, Invariance, PTL

\* A late heartbeat or stop never revives an instance (timer.cpp:42-77).
THEOREM NoRevivalHolds == Spec => []NoRevival
<1>1. IInv => NoRevival
  BY DEF IInv
<1> QED
  BY <1>1, Invariance, PTL

\* A time span is negative by the disorder of the events at most, and what
\* stop() reports is the time span up to the loss of its conversion to
\* microseconds, but for a negative one of a clock that counts nanoseconds,
\* which is reported as 2 * Limit nanoseconds less its magnitude
\* (timer.cpp:55-58, chrono.cpp:51-63).
THEOREM DurationBoundHolds == Spec => []DurationBound
<1>1. IInv => DurationBound
  BY DEF IInv
<1> QED
  BY <1>1, Invariance, PTL
=============================================================================
