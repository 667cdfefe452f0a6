-------------------------- MODULE SystemTime_proofs --------------------------
(***************************************************************************)
(* Proofs about SystemTime for any number of threads and any timeout,      *)
(* distance, number of tries and adjustments of the system clock: IInv is  *)
(* inductive, and it implies that the stored offset and its timestamp      *)
(* belong together, and that an offset found recent is recent when it is   *)
(* applied. ClockInv is inductive, and it implies that the measured rate   *)
(* is right, for any true rate, sleeps, delays and number of tests.        *)
(***************************************************************************)
EXTENDS SystemTime, Rationals_proofs, TLAPS

-----------------------------------------------------------------------------
(* Facts about the arithmetic and about single steps. *)

\* half of a distance below CLOSE_DISTANCE, from either end of it.
LEMMA MiddleFacts ==
    ASSUME NEW a \in Int, NEW b \in Int, NEW u \in Int,
           a <= u, u <= b, b - a < CLOSE_DISTANCE
    PROVE  /\ a + Half(b - a) \in Int
           /\ a <= a + Half(b - a) /\ a + Half(b - a) <= b
           /\ u - (a + Half(b - a)) \in
                 -(CLOSE_DISTANCE \div 2) .. CLOSE_DISTANCE \div 2
<1>1. CLOSE_DISTANCE \in Nat
  BY SystemTimeAssumption
<1>2. Half(b - a) = (b - a) \div 2
  BY DEF Half
<1> QED
  BY <1>1, <1>2

LEMMA Constants ==
    /\ CLOSE_DISTANCE \in Nat \ {0} /\ MAX_UPDATE_TRIES \in Nat \ {0}
    /\ OFFSET_TIMEOUT \in Nat \ {0} /\ MaxTime \in Nat \ {0}
    /\ CLOSE_DISTANCE \div 2 \in Nat
    /\ SystemOffsets \subseteq Nat \ {0}
  BY SystemTimeAssumption

\* What the clocks show is an integer; the library's is the time, unless it is
\* the system clock.
LEMMA Clocks ==
    ASSUME TimeTypeOK
    PROVE  /\ Now \in Nat \ {0} /\ Now <= MaxTime /\ Now \in 1 .. Now
           /\ \A u \in 1 .. Now : ahead[u] \in Nat
           /\ system_clock_now \in Int /\ tsc_clock_now \in Int
           /\ clock_source # "CLOCK_REALTIME" => tsc_clock_now = Now
<1>1. ahead \in Seq(SystemOffsets) /\ Now \in 1 .. MaxTime /\ MaxTime \in Nat
  BY Constants DEF TimeTypeOK
<1>2. Now \in Nat \ {0} /\ Now <= MaxTime /\ Now \in 1 .. Now
  BY <1>1
<1>3. \A u \in 1 .. Now : ahead[u] \in Nat
  <2>1. \A u \in 1 .. Len(ahead) : ahead[u] \in SystemOffsets
    BY <1>1
  <2> QED
    BY <2>1, Constants DEF Now
<1> QED
  BY <1>2, <1>3 DEF system_clock_now, tsc_clock_now

\* A step of thread t changes the place and the call of no other thread.
LEMMA ThreadStep ==
    ASSUME TimeTypeOK, NEW t \in Threads, NEW l, NEW c,
           pc' = [pc EXCEPT ![t] = l], call' = [call EXCEPT ![t] = c]
    PROVE  /\ pc'[t] = l /\ call'[t] = c
           /\ \A s \in Threads : s # t => pc'[s] = pc[s] /\ call'[s] = call[s]
  BY DEF TimeTypeOK

\* What the steps of a call have in common.
Step(t, l, c) ==
    /\ pc' = [pc EXCEPT ![t] = l]
    /\ call' = [call EXCEPT ![t] = c]
    /\ UNCHANGED <<ahead, clock_source>>

Labels == {"idle", "load", "lock", "start", "system", "end",
           "store", "timestamp", "unlock", "apply"}

LEMMA StepTypes ==
    ASSUME TimeTypeOK, NEW t \in Threads, NEW l \in Labels, NEW c \in Call, Step(t, l, c),
           l \in {"start", "system", "end"} => c.update_try < MAX_UPDATE_TRIES,
           ns_offset' \in Int, offset_timestamp' \in Int, lock' \in BOOLEAN
    PROVE  TimeTypeOK'
<1>1. /\ pc'[t] = l /\ call'[t] = c
      /\ \A s \in Threads : s # t => pc'[s] = pc[s] /\ call'[s] = call[s]
  BY ThreadStep DEF Step
<1>2. pc' \in [Threads -> Labels] /\ call' \in [Threads -> Call]
  BY DEF TimeTypeOK, Step, Labels
<1>3. ahead' \in Seq(SystemOffsets) /\ Now' \in 1 .. MaxTime
  BY DEF TimeTypeOK, Step, Now
<1>4. \A s \in Threads : pc'[s] \in {"start", "system", "end"} =>
                            call'[s].update_try < MAX_UPDATE_TRIES
  BY <1>1 DEF TimeTypeOK
<1> QED
  BY <1>2, <1>3, <1>4 DEF TimeTypeOK, Labels

\* A step between two places outside the critical section, or inside it.
LEMMA StepLock ==
    ASSUME TimeTypeOK, LockInv, NEW t \in Threads, NEW l, NEW c, Step(t, l, c),
           lock' = lock, l \in Critical => pc[t] \in Critical
    PROVE  LockInv'
<1>1. /\ pc'[t] = l
      /\ \A s \in Threads : s # t => pc'[s] = pc[s]
  BY ThreadStep DEF Step
<1> QED
  BY <1>1 DEF LockInv

\* A step that leaves the offset and its timestamp alone.
LEMMA QuietStep ==
    ASSUME TimeTypeOK, MeasureInv, PairTied, FreshInv,
           NEW t \in Threads, NEW l, NEW c, Step(t, l, c),
           UNCHANGED <<ns_offset, offset_timestamp>>,
           pc[t] # "timestamp",
           Measured(t)', Recent(t)'
    PROVE  MeasureInv' /\ PairTied' /\ FreshInv'
<1>1. /\ pc'[t] = l /\ call'[t] = c
      /\ \A s \in Threads : s # t => pc'[s] = pc[s] /\ call'[s] = call[s]
  BY ThreadStep DEF Step
<1>2. ahead' = ahead /\ clock_source' = clock_source /\ Now' = Now
  BY DEF Step, Now
<1>3. ASSUME NEW s \in Threads, s # t PROVE Measured(s)'
  <2>1. pc'[s] = pc[s] /\ call'[s] = call[s]
    BY <1>1, <1>3
  <2>2. Measured(s)
    BY DEF MeasureInv
  <2> QED
    BY <1>2, <2>1, <2>2 DEF Measured, TiedAt, cycles_middle
<1>4. \A a, b : RightSince(a, b) => RightSince(a, b)'
  BY <1>2 DEF RightSince
<1>5. \A s \in Threads : s # t => Recent(s)'
  BY <1>1, <1>2 DEF FreshInv, Recent, RightSince
<1>6. FreshInv'
  BY <1>2, <1>5 DEF FreshInv, RightSince
<1>7. PairTied'
  <2>1. (\A s \in Threads : pc'[s] # "timestamp") => \A s \in Threads : pc[s] # "timestamp"
    BY <1>1
  <2> QED
    BY <1>2, <2>1 DEF PairTied, TiedAt
<1> QED
  BY <1>3, <1>6, <1>7 DEF MeasureInv

LEMMA NoCallType == NoCall \in Call /\ NoCall.offset_ts = 0 /\ NoCall.update_try = 0
  BY Constants DEF NoCall, Call

LEMMA InitIInv ==
    ASSUME Init
    PROVE  IInv
<1>1. PICK s \in SystemOffsets : ahead = <<s>>
  BY DEF Init, SystemTimeInit
<1>2. Now = 1 /\ ahead \in Seq(SystemOffsets)
  BY <1>1 DEF Now
<1>3. TimeTypeOK
  <2>1. /\ ns_offset = 0 /\ offset_timestamp = 0 /\ lock = FALSE
        /\ pc = [t \in Threads |-> "idle"] /\ call = [t \in Threads |-> NoCall]
    BY DEF Init, SystemTimeInit
  <2>2. call \in [Threads -> Call]
    BY <2>1, NoCallType
  <2>3. Now \in 1 .. MaxTime
    BY <1>2, Constants
  <2>4. /\ pc \in [Threads -> Labels]
        /\ \A t \in Threads : pc[t] \notin {"start", "system", "end"}
    BY <2>1 DEF Labels
  <2>5. ns_offset \in Int /\ offset_timestamp \in Int
    BY <2>1
  <2>6. lock \in BOOLEAN
    BY <2>1
  <2> QED
    BY <1>2, <2>2, <2>3, <2>4, <2>5, <2>6 DEF TimeTypeOK, Labels
<1>4. LockInv /\ MeasureInv /\ \A t \in Threads : Recent(t)
  <2>1. \A t \in Threads : pc[t] = "idle"
    BY DEF Init, SystemTimeInit
  <2>2. LockInv
    BY <2>1 DEF LockInv, Critical
  <2>3. MeasureInv
    BY <2>1 DEF MeasureInv, Measured
  <2> QED
    BY <2>1, <2>2, <2>3 DEF Recent
<1>5. PairTied /\ FreshInv
  BY <1>2, <1>4 DEF PairTied, FreshInv, Init, SystemTimeInit
<1> QED
  BY <1>3, <1>4, <1>5 DEF IInv

-----------------------------------------------------------------------------
(* Each step of to_system_time(). *)

LEMMA EnterStep ==
    ASSUME IInv, NEW t \in Threads, Enter(t), clock_source' = clock_source
    PROVE  IInv'
<1> DEFINE d == [call[t] EXCEPT !.current_tsc_time = tsc_clock_now]
<1>1. TimeTypeOK /\ LockInv /\ call[t] \in Call
  BY DEF IInv, TimeTypeOK
<1>2. d \in Call
  BY <1>1, Clocks DEF Call
<1>3. Step(t, "load", d)
  BY <1>1 DEF Step, Enter, Goto, TimeTypeOK
<1> HIDE DEF d
<1>4. TimeTypeOK'
  BY <1>1, <1>2, <1>3, StepTypes DEF Enter, offsetVars, Labels, TimeTypeOK
<1>5. LockInv'
  BY <1>1, <1>3, StepLock DEF Enter, offsetVars, Critical
<1>6. pc'[t] = "load"
  BY <1>1, <1>3, ThreadStep DEF Step
<1>7. Measured(t)' /\ Recent(t)'
  BY <1>6 DEF Measured, Recent
<1>8. ASSUME clock_source # "CLOCK_REALTIME"
      PROVE  MeasureInv' /\ PairTied' /\ FreshInv'
  BY <1>1, <1>3, <1>7, <1>8, QuietStep DEF IInv, Enter, offsetVars
<1> QED
  BY <1>4, <1>5, <1>8 DEF IInv

LEMMA LoadTimestampStep ==
    ASSUME IInv, NEW t \in Threads, LoadTimestamp(t), clock_source' = clock_source
    PROVE  IInv'
<1> DEFINE d == [call[t] EXCEPT !.offset_ts = offset_timestamp]
           l == IF expired(d) THEN "lock" ELSE "apply"
<1>1. TimeTypeOK /\ LockInv /\ call[t] \in Call
  BY DEF IInv, TimeTypeOK
<1>2. d \in Call /\ d.offset_ts = offset_timestamp
  BY <1>1 DEF Call, TimeTypeOK
<1>3. call' = [call EXCEPT ![t] = d] /\ call'[t] = d
  BY <1>1 DEF LoadTimestamp, TimeTypeOK
<1>4. Step(t, l, d)
  BY <1>3 DEF Step, LoadTimestamp, Goto
<1>5. l \in {"lock", "apply"}
  OBVIOUS
<1> HIDE DEF d, l
<1>6. TimeTypeOK'
  BY <1>1, <1>2, <1>4, <1>5, StepTypes DEF LoadTimestamp, offsetVars, Labels, TimeTypeOK
<1>7. LockInv'
  BY <1>1, <1>4, <1>5, StepLock DEF LoadTimestamp, offsetVars, Critical
<1>8. pc'[t] = l
  BY <1>1, <1>4, ThreadStep DEF Step
<1>9. ASSUME clock_source # "CLOCK_REALTIME"
      PROVE  MeasureInv' /\ PairTied' /\ FreshInv'
  <2>1. Measured(t)'
    BY <1>5, <1>8 DEF Measured
  <2>2. Recent(t)'
    <3>1. ahead' = ahead /\ Now' = Now
      BY DEF LoadTimestamp, Now
    <3>2. offset_timestamp' = offset_timestamp /\ ns_offset' = ns_offset
      BY DEF LoadTimestamp, offsetVars
    <3>3. offset_timestamp # 0 =>
             RightSince(ns_offset, offset_timestamp - CLOSE_DISTANCE \div 2)'
      BY <1>9, <3>1, <3>2 DEF IInv, FreshInv, RightSince
    <3> QED
      BY <1>1, <1>2, <1>3, <3>2, <3>3 DEF Recent, TimeTypeOK
  <2> QED
    BY <1>1, <1>4, <1>9, <2>1, <2>2, QuietStep DEF IInv, LoadTimestamp, offsetVars
<1> QED
  BY <1>6, <1>7, <1>9 DEF IInv

LEMMA TestAndSetStep ==
    ASSUME IInv, NEW t \in Threads, TestAndSet(t), clock_source' = clock_source
    PROVE  IInv'
<1> DEFINE l == Label(lock)
<1>1. TimeTypeOK /\ LockInv
  BY DEF IInv
<1>2. Step(t, l, NoCall)
  BY DEF Step, TestAndSet, Goto
<1>3. l \in {"apply", "start"} /\ (l = "start" => ~lock)
  BY DEF Label
<1> HIDE DEF l
<1>4. TimeTypeOK'
  BY <1>1, <1>2, <1>3, NoCallType, Constants, StepTypes
     DEF TestAndSet, Labels, TimeTypeOK
<1>5. /\ pc'[t] = l /\ call'[t] = NoCall
      /\ \A s \in Threads : s # t => pc'[s] = pc[s] /\ call'[s] = call[s]
  BY <1>1, <1>2, ThreadStep DEF Step
<1>6. LockInv'
  <2>1. lock'
    BY DEF TestAndSet
  <2>2. l = "apply" => LockInv'
    BY <1>1, <1>5, <2>1 DEF LockInv, Critical
  <2>3. l = "start" => LockInv'
    BY <1>1, <1>3, <1>5, <2>1 DEF LockInv
  <2> QED
    BY <1>3, <2>2, <2>3
<1>7. Measured(t)' /\ Recent(t)'
  BY <1>3, <1>5, NoCallType DEF Measured, Recent
<1>8. ASSUME clock_source # "CLOCK_REALTIME"
      PROVE  MeasureInv' /\ PairTied' /\ FreshInv'
  BY <1>1, <1>2, <1>7, <1>8, QuietStep DEF IInv, TestAndSet
<1> QED
  BY <1>4, <1>6, <1>8 DEF IInv

\* A step between two places of a try, which stores a reading.
LEMMA TryStep ==
    ASSUME IInv, NEW t \in Threads, NEW l \in Labels, NEW c \in Call, Step(t, l, c),
           UNCHANGED offsetVars,
           pc[t] \in Critical, pc[t] # "timestamp", l \in Critical,
           l \in {"start", "system", "end"} => c.update_try < MAX_UPDATE_TRIES,
           clock_source # "CLOCK_REALTIME" => Measured(t)'
    PROVE  IInv'
<1>1. TimeTypeOK /\ LockInv
  BY DEF IInv
<1>2. UNCHANGED <<ns_offset, offset_timestamp>> /\ lock' = lock
  BY DEF offsetVars
<1>3. TimeTypeOK'
  BY <1>1, <1>2, StepTypes DEF TimeTypeOK
<1>4. LockInv'
  BY <1>1, <1>2, StepLock
<1>5. pc'[t] = l
  BY <1>1, ThreadStep DEF Step
<1>6. Recent(t)'
  BY <1>5 DEF Recent, Critical
<1>7. clock_source # "CLOCK_REALTIME" => MeasureInv' /\ PairTied' /\ FreshInv'
  BY <1>1, <1>2, <1>6, QuietStep DEF IInv
<1> QED
  BY <1>3, <1>4, <1>7 DEF IInv, Step

LEMMA ReadStartStep ==
    ASSUME IInv, NEW t \in Threads, ReadStart(t), clock_source' = clock_source
    PROVE  IInv'
<1> DEFINE d == [call[t] EXCEPT !.cycles_start = tsc_clock_now]
<1>1. TimeTypeOK /\ call[t] \in Call /\ call[t].update_try < MAX_UPDATE_TRIES
  BY DEF IInv, TimeTypeOK, ReadStart
<1>2. d \in Call /\ d.cycles_start = tsc_clock_now /\ d.update_try = call[t].update_try
  BY <1>1, Clocks DEF Call
<1>3. Step(t, "system", d)
  BY <1>1 DEF Step, ReadStart, Goto, TimeTypeOK
<1> HIDE DEF d
<1>4. pc'[t] = "system" /\ call'[t] = d
  BY <1>1, <1>3, ThreadStep DEF Step
<1>5. ASSUME clock_source # "CLOCK_REALTIME" PROVE Measured(t)'
  <2>1. Now' = Now /\ offset_timestamp' = offset_timestamp
    BY DEF ReadStart, Now, offsetVars
  <2>2. tsc_clock_now = Now /\ Now \in Nat
    BY <1>1, <1>5, Clocks
  <2>3. offset_timestamp <= Now
    BY <1>5 DEF IInv, FreshInv
  <2> QED
    BY <1>2, <1>4, <2>1, <2>2, <2>3 DEF Measured
<1> QED
  BY <1>1, <1>2, <1>3, <1>5, TryStep DEF ReadStart, Critical, Labels

LEMMA ReadSystemStep ==
    ASSUME IInv, NEW t \in Threads, ReadSystem(t), clock_source' = clock_source
    PROVE  IInv'
<1> DEFINE d == [call[t] EXCEPT !.current_system_time = system_clock_now]
<1>1. TimeTypeOK /\ call[t] \in Call /\ call[t].update_try < MAX_UPDATE_TRIES
  BY DEF IInv, TimeTypeOK, ReadSystem
<1>2. /\ d \in Call /\ d.cycles_start = call[t].cycles_start
      /\ d.current_system_time = system_clock_now /\ d.update_try = call[t].update_try
  BY <1>1, Clocks DEF Call
<1>3. Step(t, "end", d)
  BY <1>1 DEF Step, ReadSystem, Goto, TimeTypeOK
<1> HIDE DEF d
<1>4. pc'[t] = "end" /\ call'[t] = d
  BY <1>1, <1>3, ThreadStep DEF Step
<1>5. ASSUME clock_source # "CLOCK_REALTIME" PROVE Measured(t)'
  <2>1. Now' = Now /\ ahead' = ahead /\ offset_timestamp' = offset_timestamp
    BY DEF ReadSystem, Now, offsetVars
  <2>2. Now \in 1 .. Now
    BY <1>1, Clocks
  <2>3. offset_timestamp <= call[t].cycles_start /\ call[t].cycles_start <= Now
    BY <1>5 DEF IInv, MeasureInv, Measured, ReadSystem
  <2>4. d.cycles_start <= Now /\ d.current_system_time = Now + ahead[Now]
    BY <1>2, <2>3 DEF system_clock_now
  <2> QED
    BY <1>2, <1>4, <2>1, <2>2, <2>3, <2>4 DEF Measured
<1> QED
  BY <1>1, <1>2, <1>3, <1>5, TryStep DEF ReadSystem, Critical, Labels

LEMMA ReadEndStep ==
    ASSUME IInv, NEW t \in Threads, ReadEnd(t), clock_source' = clock_source
    PROVE  IInv'
<1> DEFINE d == [call[t] EXCEPT !.cycles_end = tsc_clock_now, !.update_try = @ + 1]
           l == IF d.cycles_end - d.cycles_start < CLOSE_DISTANCE
                THEN "store" ELSE Retry(d.update_try)
<1>1. TimeTypeOK /\ call[t] \in Call /\ call[t].update_try < MAX_UPDATE_TRIES
  BY DEF IInv, TimeTypeOK, ReadEnd
<1>2. /\ d \in Call /\ d.cycles_start = call[t].cycles_start /\ d.cycles_end = tsc_clock_now
      /\ d.current_system_time = call[t].current_system_time
  <2>1. tsc_clock_now \in Int
    BY <1>1, Clocks
  <2>2. call[t].update_try + 1 \in 0 .. MAX_UPDATE_TRIES
    BY <1>1, Constants DEF Call
  <2> QED
    BY <1>1, <2>1, <2>2 DEF Call
<1>3. call' = [call EXCEPT ![t] = d] /\ call'[t] = d
  BY <1>1 DEF ReadEnd, TimeTypeOK
<1>4. Step(t, l, d)
  BY <1>3 DEF Step, ReadEnd, Goto
<1>5. /\ l \in {"store", "start", "unlock"}
      /\ l = "store" => d.cycles_end - d.cycles_start < CLOSE_DISTANCE
      /\ l = "start" => d.update_try < MAX_UPDATE_TRIES
  BY DEF Retry
<1> HIDE DEF d, l
<1>6. pc'[t] = l
  BY <1>1, <1>4, ThreadStep DEF Step
<1>7. ASSUME clock_source # "CLOCK_REALTIME" PROVE Measured(t)'
  <2>1. Now' = Now /\ ahead' = ahead /\ offset_timestamp' = offset_timestamp
    BY DEF ReadEnd, Now, offsetVars
  <2>2. tsc_clock_now = Now /\ Now \in Nat
    BY <1>1, <1>7, Clocks
  <2>3. /\ offset_timestamp <= call[t].cycles_start /\ call[t].cycles_start <= Now
        /\ \E u \in 1 .. Now : /\ call[t].cycles_start <= u
                               /\ call[t].current_system_time = u + ahead[u]
    BY <1>7 DEF IInv, MeasureInv, Measured, ReadEnd
  <2>4. PICK u \in 1 .. Now : /\ d.cycles_start <= u
                              /\ d.current_system_time = u + ahead[u]
    BY <1>2, <2>3
  <2>5. u <= d.cycles_end /\ d.cycles_end <= Now /\ d.cycles_start <= d.cycles_end
    BY <1>2, <2>2, <2>3
  <2> QED
    BY <1>2, <1>3, <1>5, <1>6, <2>1, <2>3, <2>4, <2>5 DEF Measured
<1> QED
  BY <1>1, <1>2, <1>4, <1>5, <1>7, TryStep DEF ReadEnd, Critical, Labels

\* The offset is stored before its timestamp: it is at least as recent as any
\* timestamp that a thread has loaded.
LEMMA StoreOffsetStep ==
    ASSUME IInv, NEW t \in Threads, StoreOffset(t), clock_source' = clock_source
    PROVE  IInv'
<1> DEFINE c == call[t]
           m == cycles_middle(c)
<1>1. TimeTypeOK /\ LockInv /\ c \in Call
  BY DEF IInv, TimeTypeOK
<1>2. /\ c.cycles_start \in Int /\ c.cycles_end \in Int /\ c.current_system_time \in Int
      /\ call' = [call EXCEPT ![t] = c]
  BY <1>1 DEF Call, StoreOffset, TimeTypeOK
<1>3. m \in Int
  <2>1. Half(c.cycles_end - c.cycles_start) \in Int
    BY <1>2 DEF Half
  <2> QED
    BY <1>2, <2>1 DEF cycles_middle
<1> HIDE DEF c, m
<1>4. Step(t, "timestamp", c) /\ pc[t] = "store" /\ ns_offset' = c.current_system_time - m
  BY <1>2 DEF Step, StoreOffset, Goto, c, m
<1>5. /\ pc'[t] = "timestamp" /\ call'[t] = c
      /\ \A s \in Threads : s # t => pc'[s] = pc[s] /\ call'[s] = call[s]
  BY <1>1, <1>4, ThreadStep DEF Step
<1>6. /\ ahead' = ahead /\ Now' = Now
      /\ offset_timestamp' = offset_timestamp /\ lock' = lock
  BY DEF StoreOffset, Now
<1>7. TimeTypeOK'
  BY <1>1, <1>2, <1>3, <1>4, <1>6, StepTypes DEF Labels, TimeTypeOK
<1>8. LockInv'
  BY <1>1, <1>4, <1>6, StepLock DEF Critical
<1>9. ASSUME clock_source # "CLOCK_REALTIME"
      PROVE  MeasureInv' /\ PairTied' /\ FreshInv'
  <2>1. Measured(t) /\ FreshInv
    BY <1>9 DEF IInv, MeasureInv
  <2>2. /\ offset_timestamp <= c.cycles_start /\ c.cycles_start <= Now
        /\ c.cycles_start <= c.cycles_end /\ c.cycles_end <= Now
        /\ c.cycles_end - c.cycles_start < CLOSE_DISTANCE
        /\ \E u \in 1 .. Now : /\ c.cycles_start <= u /\ u <= c.cycles_end
                               /\ c.current_system_time = u + ahead[u]
    BY <1>4, <2>1 DEF Measured, c
  <2>3. PICK u \in 1 .. Now : /\ c.cycles_start <= u /\ u <= c.cycles_end
                              /\ c.current_system_time = u + ahead[u]
    BY <2>2
  <2>4. /\ Now \in Nat /\ u \in Int /\ ahead[u] \in Nat /\ CLOSE_DISTANCE \div 2 \in Nat
        /\ offset_timestamp \in Int
    BY <1>1, Clocks, Constants DEF TimeTypeOK
  <2>5. u - m \in -(CLOSE_DISTANCE \div 2) .. CLOSE_DISTANCE \div 2
    BY <1>2, <2>2, <2>3, <2>4, MiddleFacts DEF m, cycles_middle
  <2>6. TiedAt(u, m, ns_offset')
    BY <1>2, <1>3, <1>4, <2>3, <2>4, <2>5 DEF TiedAt
  <2>7. Measured(t)'
    <3>1. cycles_middle(call[t])' = m
      BY <1>5 DEF m, cycles_middle
    <3>2. \E v \in 1 .. Now : /\ c.cycles_start <= v
                              /\ TiedAt(v, cycles_middle(call[t]), ns_offset)'
      BY <1>6, <2>3, <2>6, <3>1 DEF TiedAt
    <3> QED
      BY <1>5, <1>6, <2>2, <3>2 DEF Measured
  <2>8. ASSUME NEW s \in Threads, s # t PROVE Measured(s)'
    <3>1. pc[s] \notin Critical
      BY <1>1, <1>4, <2>8 DEF LockInv, Critical
    <3> QED
      BY <1>5, <2>8, <3>1 DEF Measured, Critical
  <2>9. ASSUME NEW since \in Int, since <= c.cycles_start
        PROVE  RightSince(ns_offset, since)'
    <3>1. ns_offset' - ahead[u] = u - m
      BY <1>2, <1>3, <1>4, <2>3, <2>4
    <3>2. u >= since
      BY <1>2, <2>3, <2>4, <2>9
    <3> QED
      BY <1>6, <2>5, <3>1, <3>2 DEF RightSince
  <2>10. ASSUME NEW s \in Threads PROVE Recent(s)'
    <3>1. CASE s = t
      BY <1>5, <3>1 DEF Recent
    <3>2. CASE s # t /\ pc[s] = "apply" /\ call[s].offset_ts # 0
      <4>1. call[s].offset_ts \in Int /\ call[s].offset_ts <= offset_timestamp
        BY <1>1, <2>1, <3>2 DEF FreshInv, Recent, TimeTypeOK, Call
      <4>2. /\ call[s].offset_ts - CLOSE_DISTANCE \div 2 \in Int
            /\ call[s].offset_ts - CLOSE_DISTANCE \div 2 <= c.cycles_start
        BY <1>2, <2>2, <2>4, <4>1
      <4>3. RightSince(ns_offset, call[s].offset_ts - CLOSE_DISTANCE \div 2)'
        BY <2>9, <4>2, <1>5, <3>2
      <4> QED
        BY <1>5, <1>6, <3>2, <4>1, <4>3 DEF Recent
    <3> QED
      BY <1>5, <3>1, <3>2 DEF Recent
  <2>11. FreshInv'
    <3>1. /\ offset_timestamp - CLOSE_DISTANCE \div 2 \in Int
          /\ offset_timestamp - CLOSE_DISTANCE \div 2 <= c.cycles_start
      BY <1>2, <2>2, <2>4
    <3>2. RightSince(ns_offset, offset_timestamp - CLOSE_DISTANCE \div 2)'
      BY <2>9, <3>1, <1>6
    <3> QED
      BY <1>6, <2>1, <2>10, <3>2 DEF FreshInv
  <2> QED
    BY <1>5, <2>7, <2>8, <2>11 DEF MeasureInv, PairTied
<1> QED
  BY <1>7, <1>8, <1>9 DEF IInv, StoreOffset

LEMMA StoreTimestampStep ==
    ASSUME IInv, NEW t \in Threads, StoreTimestamp(t), clock_source' = clock_source
    PROVE  IInv'
<1> DEFINE c == call[t]
           m == cycles_middle(c)
<1>1. TimeTypeOK /\ LockInv /\ c \in Call
  BY DEF IInv, TimeTypeOK
<1>2. c.cycles_start \in Int /\ c.cycles_end \in Int
  BY <1>1 DEF Call
<1>3. m \in Int
  <2>1. Half(c.cycles_end - c.cycles_start) \in Int
    BY <1>2 DEF Half
  <2> QED
    BY <1>2, <2>1 DEF cycles_middle
<1> HIDE DEF c, m
<1>4. Step(t, "unlock", NoCall) /\ pc[t] = "timestamp" /\ offset_timestamp' = m
  BY DEF Step, StoreTimestamp, Goto, m, c
<1>5. /\ pc'[t] = "unlock" /\ call'[t] = NoCall
      /\ \A s \in Threads : s # t => pc'[s] = pc[s] /\ call'[s] = call[s]
  BY <1>1, <1>4, ThreadStep DEF Step
<1>6. ahead' = ahead /\ Now' = Now /\ ns_offset' = ns_offset /\ lock' = lock
  BY DEF StoreTimestamp, Now
<1>7. TimeTypeOK'
  BY <1>1, <1>3, <1>4, <1>6, NoCallType, StepTypes DEF Labels, TimeTypeOK
<1>8. LockInv'
  BY <1>1, <1>4, <1>6, StepLock DEF Critical
<1>9. ASSUME clock_source # "CLOCK_REALTIME"
      PROVE  MeasureInv' /\ PairTied' /\ FreshInv'
  <2>1. Measured(t) /\ FreshInv
    BY <1>9 DEF IInv, MeasureInv
  <2>2. /\ offset_timestamp <= c.cycles_start /\ c.cycles_start <= Now
        /\ c.cycles_start <= c.cycles_end /\ c.cycles_end <= Now
        /\ c.cycles_end - c.cycles_start < CLOSE_DISTANCE
        /\ \E u \in 1 .. Now : c.cycles_start <= u /\ TiedAt(u, m, ns_offset)
    BY <1>4, <2>1 DEF Measured, m, c
  <2>3. PICK u \in 1 .. Now : c.cycles_start <= u /\ TiedAt(u, m, ns_offset)
    BY <2>2
  <2>4. /\ Now \in Nat /\ u \in Int /\ ahead[u] \in Nat /\ CLOSE_DISTANCE \div 2 \in Nat
        /\ offset_timestamp \in Int /\ ns_offset \in Int
    BY <1>1, Clocks, Constants DEF TimeTypeOK
  <2>5. c.cycles_start <= m /\ m <= c.cycles_end
    BY <1>2, <2>2, MiddleFacts DEF m, cycles_middle
  <2>6. offset_timestamp <= m /\ m <= Now
    BY <1>2, <1>3, <2>2, <2>4, <2>5
  <2>7. MeasureInv'
    <3>1. \A s \in Threads : s # t => pc[s] \notin Critical
      BY <1>1, <1>4 DEF LockInv, Critical
    <3> QED
      BY <1>5, <3>1 DEF MeasureInv, Measured, Critical
  <2>8. PairTied'
    BY <1>4, <1>6, <2>3 DEF PairTied, TiedAt
  <2>9. \A s \in Threads : Recent(s)'
    <3>1. ASSUME NEW s \in Threads, s # t, pc[s] = "apply", call[s].offset_ts # 0
          PROVE  Recent(s)'
      <4>1. /\ call[s].offset_ts \in Int /\ call[s].offset_ts <= offset_timestamp
            /\ RightSince(ns_offset, call[s].offset_ts - CLOSE_DISTANCE \div 2)
        BY <1>1, <2>1, <3>1 DEF FreshInv, Recent, TimeTypeOK, Call
      <4>2. call[s].offset_ts <= m
        BY <1>3, <2>4, <2>6, <4>1
      <4> QED
        BY <1>4, <1>5, <1>6, <3>1, <4>1, <4>2 DEF Recent, RightSince
    <3> QED
      BY <1>5, <3>1 DEF Recent
  <2>10. RightSince(ns_offset, offset_timestamp - CLOSE_DISTANCE \div 2)'
    <3>1. /\ u - m \in -(CLOSE_DISTANCE \div 2) .. CLOSE_DISTANCE \div 2
          /\ u + ahead[u] = m + ns_offset
      BY <2>3 DEF TiedAt
    <3>2. u >= m - CLOSE_DISTANCE \div 2 /\ ns_offset - ahead[u] = u - m
      BY <1>3, <2>4, <3>1
    <3> QED
      BY <1>4, <1>6, <3>1, <3>2 DEF RightSince
  <2> QED
    BY <1>4, <1>6, <2>6, <2>7, <2>8, <2>9, <2>10 DEF FreshInv
<1> QED
  BY <1>7, <1>8, <1>9 DEF IInv, StoreTimestamp

LEMMA UnlockStep ==
    ASSUME IInv, NEW t \in Threads, Unlock(t), clock_source' = clock_source
    PROVE  IInv'
<1>1. TimeTypeOK /\ LockInv
  BY DEF IInv
<1>2. Step(t, "apply", NoCall) /\ pc[t] = "unlock"
  BY DEF Step, Unlock, Goto
<1>3. TimeTypeOK'
  BY <1>1, <1>2, NoCallType, StepTypes DEF Unlock, Labels, TimeTypeOK
<1>4. /\ pc'[t] = "apply" /\ call'[t] = NoCall
      /\ \A s \in Threads : s # t => pc'[s] = pc[s]
  BY <1>1, <1>2, ThreadStep DEF Step
<1>5. LockInv'
  <2>1. \A s \in Threads : pc'[s] \notin Critical
    BY <1>1, <1>2, <1>4 DEF LockInv, Critical
  <2> QED
    BY <2>1 DEF LockInv
<1>6. Measured(t)' /\ Recent(t)'
  BY <1>4, NoCallType DEF Measured, Recent
<1>7. clock_source # "CLOCK_REALTIME" => MeasureInv' /\ PairTied' /\ FreshInv'
  BY <1>1, <1>2, <1>6, QuietStep DEF IInv, Unlock
<1> QED
  BY <1>3, <1>5, <1>7 DEF IInv

LEMMA ApplyStep ==
    ASSUME IInv, NEW t \in Threads, Apply(t), clock_source' = clock_source
    PROVE  IInv'
<1>1. TimeTypeOK /\ LockInv
  BY DEF IInv
<1>2. Step(t, "idle", NoCall) /\ pc[t] = "apply"
  BY DEF Step, Apply, Goto
<1>3. TimeTypeOK'
  BY <1>1, <1>2, NoCallType, StepTypes DEF Apply, offsetVars, Labels, TimeTypeOK
<1>4. LockInv'
  BY <1>1, <1>2, StepLock DEF Apply, offsetVars, Critical
<1>5. pc'[t] = "idle"
  BY <1>1, <1>2, ThreadStep DEF Step
<1>6. Measured(t)' /\ Recent(t)'
  BY <1>5 DEF Measured, Recent
<1>7. clock_source # "CLOCK_REALTIME" => MeasureInv' /\ PairTied' /\ FreshInv'
  BY <1>1, <1>2, <1>6, QuietStep DEF IInv, Apply, offsetVars
<1> QED
  BY <1>3, <1>4, <1>7 DEF IInv

\* What the system clock showed in the past is as it was.
LEMMA TickStep ==
    ASSUME IInv, NEW offset \in SystemOffsets, Tick(offset), clock_source' = clock_source
    PROVE  IInv'
<1>1. TimeTypeOK /\ LockInv
  BY DEF IInv
<1>2. /\ Now \in Nat \ {0} /\ Now < MaxTime /\ MaxTime \in Nat
      /\ ahead \in Seq(SystemOffsets) /\ offset_timestamp \in Int
      /\ ahead' = Append(ahead, offset)
  BY <1>1, Clocks, Constants DEF Tick, TimeTypeOK
<1>3. /\ ahead' \in Seq(SystemOffsets) /\ Now' = Now + 1
      /\ \A u \in 1 .. Now : ahead'[u] = ahead[u]
  BY <1>2 DEF Now
<1>4. /\ pc' = pc /\ call' = call /\ lock' = lock
      /\ ns_offset' = ns_offset /\ offset_timestamp' = offset_timestamp
  BY DEF Tick, offsetVars
<1>5. TimeTypeOK'
  BY <1>1, <1>2, <1>3, <1>4 DEF TimeTypeOK
<1>6. LockInv'
  BY <1>1, <1>4 DEF LockInv
<1>7. \A u \in 1 .. Now : u \in 1 .. Now'
  BY <1>2, <1>3
<1>8. ASSUME clock_source # "CLOCK_REALTIME"
      PROVE  MeasureInv' /\ PairTied' /\ FreshInv'
  <2>1. MeasureInv /\ PairTied /\ FreshInv
    BY <1>8 DEF IInv
  <2>2. ASSUME NEW t \in Threads PROVE Measured(t)'
    <3>1. Measured(t) /\ call[t] \in Call
      BY <1>1, <2>1 DEF MeasureInv, TimeTypeOK
    <3>2. /\ pc[t] \in {"system", "end", "store", "timestamp"} =>
                call[t].cycles_start <= Now'
          /\ pc[t] \in {"store", "timestamp"} => call[t].cycles_end <= Now'
      BY <1>2, <1>3, <3>1 DEF Measured, Call
    <3>3. /\ pc[t] = "end" =>
                \E u \in 1 .. Now' : /\ call[t].cycles_start <= u
                                     /\ call[t].current_system_time = u + ahead'[u]
          /\ pc[t] = "store" =>
                \E u \in 1 .. Now' : /\ call[t].cycles_start <= u /\ u <= call[t].cycles_end
                                     /\ call[t].current_system_time = u + ahead'[u]
      BY <1>3, <1>7, <3>1 DEF Measured
    <3>4. pc[t] = "timestamp" =>
             (\E u \in 1 .. Now : /\ call[t].cycles_start <= u
                                  /\ TiedAt(u, cycles_middle(call[t]), ns_offset))'
      <4>1. SUFFICES ASSUME pc[t] = "timestamp"
                     PROVE  (\E u \in 1 .. Now : /\ call[t].cycles_start <= u
                                                 /\ TiedAt(u, cycles_middle(call[t]), ns_offset))'
        OBVIOUS
      <4>2. PICK u \in 1 .. Now : /\ call[t].cycles_start <= u
                                  /\ TiedAt(u, cycles_middle(call[t]), ns_offset)
        BY <3>1, <4>1 DEF Measured
      <4>3. /\ u \in 1 .. Now' /\ call'[t].cycles_start <= u
            /\ TiedAt(u, cycles_middle(call[t]), ns_offset)'
        BY <1>3, <1>4, <1>7, <4>2 DEF TiedAt, cycles_middle
      <4> QED
        BY <4>3
    <3> QED
      BY <1>4, <3>1, <3>2, <3>3, <3>4 DEF Measured
  <2>3. \A a, b : RightSince(a, b) => RightSince(a, b)'
    BY <1>3, <1>7 DEF RightSince
  <2>4. PairTied'
    BY <1>3, <1>4, <1>7, <2>1 DEF PairTied, TiedAt
  <2>5. offset_timestamp' <= Now'
    BY <1>2, <1>3, <1>4, <2>1 DEF FreshInv
  <2>6. offset_timestamp # 0 =>
           RightSince(ns_offset, offset_timestamp - CLOSE_DISTANCE \div 2)'
    BY <1>3, <1>4, <1>7, <2>1 DEF FreshInv, RightSince
  <2>7. \A t \in Threads : Recent(t)'
    BY <1>3, <1>4, <1>7, <2>1 DEF FreshInv, Recent, RightSince
  <2> QED
    BY <1>4, <2>2, <2>4, <2>5, <2>6, <2>7 DEF MeasureInv, FreshInv
<1> QED
  BY <1>5, <1>6, <1>8 DEF IInv, Tick

\* While the library is loaded, and when nothing happens.
LEMMA QuietClock ==
    ASSUME IInv, UNCHANGED <<offsetVars, pc, call, ahead, clock_source>>
    PROVE  IInv'
<1>1. /\ pc' = pc /\ call' = call /\ ahead' = ahead /\ clock_source' = clock_source
      /\ lock' = lock /\ ns_offset' = ns_offset /\ offset_timestamp' = offset_timestamp
  BY DEF offsetVars
<1>2. Now' = Now
  BY <1>1 DEF Now
<1>3. TimeTypeOK' /\ LockInv'
  BY <1>1, <1>2 DEF IInv, TimeTypeOK, LockInv
<1>4. MeasureInv => MeasureInv'
  BY <1>1, <1>2 DEF MeasureInv, Measured, TiedAt, cycles_middle
<1>5. PairTied => PairTied'
  BY <1>1, <1>2 DEF PairTied, TiedAt
<1>6. FreshInv => FreshInv'
  BY <1>1, <1>2 DEF FreshInv, Recent, RightSince
<1> QED
  BY <1>1, <1>3, <1>4, <1>5, <1>6 DEF IInv

LEMMA NextIInv ==
    ASSUME IInv, [Next]_vars
    PROVE  IInv'
<1>1. CASE Main
  <2>1. clock_source' = clock_source
    BY <1>1 DEF Main, clockVars
  <2>2. CASE \E offset \in SystemOffsets : Tick(offset)
    BY <2>1, <2>2, TickStep
  <2>3. CASE \E t \in Threads : Enter(t) \/ Continue(t)
    <3>1. PICK t \in Threads : Enter(t) \/ Continue(t)
      BY <2>3
    <3>2. CASE Enter(t)
      BY <2>1, <3>2, EnterStep
    <3>3. CASE LoadTimestamp(t)
      BY <2>1, <3>3, LoadTimestampStep
    <3>4. CASE TestAndSet(t)
      BY <2>1, <3>4, TestAndSetStep
    <3>5. CASE ReadStart(t)
      BY <2>1, <3>5, ReadStartStep
    <3>6. CASE ReadSystem(t)
      BY <2>1, <3>6, ReadSystemStep
    <3>7. CASE ReadEnd(t)
      BY <2>1, <3>7, ReadEndStep
    <3>8. CASE StoreOffset(t)
      BY <2>1, <3>8, StoreOffsetStep
    <3>9. CASE StoreTimestamp(t)
      BY <2>1, <3>9, StoreTimestampStep
    <3>10. CASE Unlock(t)
      BY <2>1, <3>10, UnlockStep
    <3>11. CASE Apply(t)
      BY <2>1, <3>11, ApplyStep
    <3> QED
      BY <3>1, <3>2, <3>3, <3>4, <3>5, <3>6, <3>7, <3>8, <3>9, <3>10, <3>11 DEF Continue
  <2> QED
    BY <1>1, <2>2, <2>3 DEF Main
<1>2. CASE Load /\ UNCHANGED <<offsetVars, pc, call, ahead>>
  <2>1. clock_source' = clock_source
    BY <1>2 DEF Load, ChooseMedian, Test
  <2> QED
    BY <1>2, <2>1, QuietClock
<1>3. CASE UNCHANGED vars
  <2>1. UNCHANGED <<offsetVars, pc, call, ahead, clock_source>>
    BY <1>3 DEF vars, clockVars
  <2> QED
    BY <2>1, QuietClock
<1> QED
  BY <1>1, <1>2, <1>3 DEF Next

-----------------------------------------------------------------------------
(* The theorems. *)

\* However the calls of to_system_time() interleave with each other and with
\* adjustments of the system clock, one thread measures the offset at a time,
\* its readings are in order, and the offset is stored before its timestamp.
THEOREM Invariance == Spec => []IInv
  BY InitIInv, NextIInv, PTL DEF Spec

\* The static and the local variables of to_system_time() keep their types,
\* and a try is begun only while tries are left.
THEOREM TimeTypeCorrect == Spec => []TimeTypeOK
<1>1. IInv => TimeTypeOK
  BY DEF IInv
<1> QED
  BY <1>1, Invariance, PTL

\* Except while they are stored, the offset and its timestamp come from one
\* reading of both clocks.
THEOREM PairTiedHolds == Spec => []PairTied
<1>1. IInv => PairTied
  BY DEF IInv, PairTied
<1> QED
  BY <1>1, Invariance, PTL

LEMMA FreshStep ==
    ASSUME IInv, NEW t \in Threads, Apply(t), clock_source # "CLOCK_REALTIME",
           ~expired(call[t])
    PROVE  RightSince(ns_offset, call[t].current_tsc_time - OFFSET_TIMEOUT
                                 - CLOSE_DISTANCE \div 2)
<1> DEFINE c == call[t]
<1>1. /\ c.current_tsc_time \in Int /\ c.offset_ts \in Int
      /\ OFFSET_TIMEOUT \in Nat /\ CLOSE_DISTANCE \div 2 \in Nat
  BY Constants DEF IInv, TimeTypeOK, Call
<1>2. c.offset_ts # 0 /\ c.current_tsc_time - c.offset_ts <= OFFSET_TIMEOUT
  BY <1>1 DEF expired
<1>3. RightSince(ns_offset, c.offset_ts - CLOSE_DISTANCE \div 2)
  BY <1>2 DEF IInv, FreshInv, Recent, Apply
<1>4. PICK u \in 1 .. Now :
         /\ u >= c.offset_ts - CLOSE_DISTANCE \div 2
         /\ ns_offset - ahead[u] \in -(CLOSE_DISTANCE \div 2) .. CLOSE_DISTANCE \div 2
  BY <1>3 DEF RightSince
<1>5. u \in Int
  BY Clocks DEF IInv
<1>6. u >= c.current_tsc_time - OFFSET_TIMEOUT - CLOSE_DISTANCE \div 2
  BY <1>1, <1>2, <1>4, <1>5
<1> QED
  BY <1>4, <1>6 DEF RightSince

\* A thread that finds the timestamp recent, and applies whatever offset is
\* stored by the time it loads it, applies one that was right as recently.
THEOREM ResultFreshHolds == Spec => ResultFreshStep
<1>1. IInv => [ResultFresh]_vars
  BY FreshStep DEF ResultFresh
<1> QED
  BY <1>1, Invariance, PTL DEF ResultFreshStep

-----------------------------------------------------------------------------
(* The measured rate. *)

LEMMA ClockConstants ==
    /\ TrueRate \in Nat \ {0} /\ CYCLES_DELTA \in Nat \ {0} /\ TESTS_COUNT \in Nat \ {0}
    /\ SleepTimes \subseteq Nat \ {0} /\ Delays \subseteq Nat
  BY TscClockAssumption

LEMMA PairFacts ==
    ASSUME NEW cycle \in Nat, NEW pair \in Pairs(cycle)
    PROVE  \E before, after \in Nat :
              /\ before + after < CYCLES_DELTA
              /\ pair.cycles = cycle + (before + after) \div 2
              /\ pair.nanoseconds = (cycle + before) \div TrueRate
              /\ pair.ended = cycle + before + after
<1>1. PICK delay \in Delays \X Delays :
         /\ Simultaneous(delay[1], delay[2])
         /\ pair = [cycles |-> cycle + (delay[1] + delay[2]) \div 2,
                    nanoseconds |-> (cycle + delay[1]) \div TrueRate,
                    ended |-> cycle + delay[1] + delay[2]]
  BY DEF Pairs
<1> DEFINE before == delay[1]
           after == delay[2]
<1>2. before \in Nat /\ after \in Nat /\ before + after < CYCLES_DELTA
  BY <1>1, ClockConstants DEF Simultaneous
<1> QED
  BY <1>1, <1>2

\* Half of a sum is as far from both numbers.
LEMMA HalfWay ==
    ASSUME NEW a \in Nat, NEW b \in Nat, a + b < CYCLES_DELTA
    PROVE  /\ (a + b) \div 2 \in Nat
           /\ 2 * ((a + b) \div 2 - a) <= CYCLES_DELTA
           /\ -CYCLES_DELTA <= 2 * ((a + b) \div 2 - a)
<1> DEFINE s == a + b
<1>1. s \in Nat /\ s < CYCLES_DELTA /\ CYCLES_DELTA \in Nat
  BY ClockConstants
<1>2. s \div 2 \in Nat /\ 2 * (s \div 2) <= s /\ s <= 2 * (s \div 2) + 1
  BY <1>1
<1> QED
  BY <1>1, <1>2

\* A measurement that begins at cycle c and sleeps for s, between two pairs
\* with the delays a1, b1, a2, b2 around their nanoseconds n1 and n2, sees X
\* cycles pass.
Measures(c, s, a1, b1, a2, b2, n1, n2, X) ==
    /\ c \in Nat /\ s \in Nat \ {0}
    /\ a1 \in Nat /\ b1 \in Nat /\ a1 + b1 < CYCLES_DELTA
    /\ a2 \in Nat /\ b2 \in Nat /\ a2 + b2 < CYCLES_DELTA
    /\ n1 = (c + a1) \div TrueRate
    /\ n2 = (c + a1 + b1 + s * TrueRate + a2) \div TrueRate
    /\ X = (c + a1 + b1 + s * TrueRate + (a2 + b2) \div 2) - (c + (a1 + b1) \div 2)

\* The cycles of a measurement are the true rate's, but for the readings.
LEMMA MeasurementError ==
    ASSUME NEW c, NEW s, NEW a1, NEW b1, NEW a2, NEW b2, NEW n1, NEW n2, NEW X,
           Measures(c, s, a1, b1, a2, b2, n1, n2, X)
    PROVE  /\ X \in Int /\ n2 - n1 \in Nat \ {0} /\ s <= n2 - n1
           /\ X - TrueRate * (n2 - n1) <= CYCLES_DELTA + 2 * TrueRate
           /\ -(CYCLES_DELTA + 2 * TrueRate) <= X - TrueRate * (n2 - n1)
<1> DEFINE R == TrueRate
           t == s * R
           p == c + a1
           q == c + a1 + b1 + t + a2
           r1 == p % R
           r2 == q % R
           h1 == (a1 + b1) \div 2
           h2 == (a2 + b2) \div 2
<1>0. /\ c \in Nat /\ s \in Nat \ {0}
      /\ a1 \in Nat /\ b1 \in Nat /\ a1 + b1 < CYCLES_DELTA
      /\ a2 \in Nat /\ b2 \in Nat /\ a2 + b2 < CYCLES_DELTA
      /\ n1 = p \div R /\ n2 = q \div R
      /\ X = (c + a1 + b1 + t + h2) - (c + h1)
  BY DEF Measures
<1>1. R \in Nat \ {0} /\ CYCLES_DELTA \in Nat
  BY ClockConstants
<1>2. t \in Nat
  BY <1>0, <1>1
<1>3. p \in Nat /\ q \in Nat /\ n1 = p \div R /\ n2 = q \div R
  BY <1>0, <1>2
<1> HIDE DEF R, t
<1>4. r1 \in Nat /\ r1 < R /\ n1 \in Int /\ p = n1 * R + r1
  <2> HIDE DEF p
  <2> QED
    BY <1>1, <1>3, Remainder
<1>5. r2 \in Nat /\ r2 < R /\ n2 \in Int /\ q = n2 * R + r2
  <2> HIDE DEF q
  <2> QED
    BY <1>1, <1>3, Remainder
<1>6. /\ h1 \in Nat /\ 2 * (h1 - a1) <= CYCLES_DELTA /\ -CYCLES_DELTA <= 2 * (h1 - a1)
      /\ h2 \in Nat /\ 2 * (h2 - a2) <= CYCLES_DELTA /\ -CYCLES_DELTA <= 2 * (h2 - a2)
  BY <1>0, HalfWay
<1> HIDE DEF r1, r2, h1, h2
<1> DEFINE u == n1 * R
           v == n2 * R
<1>8. u \in Int /\ v \in Int
  BY <1>1, <1>4, <1>5
<1>9. c + a1 = u + r1 /\ c + a1 + b1 + t + a2 = v + r2
  BY <1>4, <1>5
<1>10. R * (n2 - n1) = v - u
  BY <1>1, <1>4, <1>5
<1>11. (n1 + s) * R = u + t /\ (n2 + 1) * R = v + R
  BY <1>0, <1>1, <1>4, <1>5 DEF t
<1> HIDE DEF u, v
<1>12. X - (v - u) = ((h2 - a2) - (h1 - a1)) + (r2 - r1) /\ X \in Int
  BY <1>1, <1>2, <1>4, <1>5, <1>6, <1>0, <1>8, <1>9
<1>13. /\ X - (v - u) <= CYCLES_DELTA + 2 * R
       /\ -(CYCLES_DELTA + 2 * R) <= X - (v - u)
  BY <1>0, <1>1, <1>4, <1>5, <1>6, <1>12
<1>14. s <= n2 - n1
  <2>1. u + t < v + R
    BY <1>0, <1>1, <1>2, <1>4, <1>5, <1>8, <1>9
  <2>2. n1 + s \in Int /\ n2 + 1 \in Int /\ (n1 + s) * R < (n2 + 1) * R
    BY <1>0, <1>4, <1>5, <1>11, <2>1
  <2>3. n1 + s < n2 + 1
    <3> DEFINE a == n1 + s
               b == n2 + 1
    <3> HIDE DEF a, b
    <3>1. a \in Int /\ b \in Int /\ a * R < b * R
      BY <2>2 DEF a, b
    <3>2. a < b
      BY <1>1, <3>1, Monotone
    <3> QED
      BY <3>2 DEF a, b
  <2> QED
    BY <1>0, <1>4, <1>5, <2>3
<1> QED
  BY <1>0, <1>1, <1>4, <1>5, <1>10, <1>12, <1>13, <1>14 DEF R

\* What RateAccurate says of a rate and a duration.
AccurateFor(rate, sleep) ==
    LET wrong == Times(Minus(rate, Rat(TrueRate)), Rat(sleep))
        allowed == Rat(CYCLES_DELTA + 2 * TrueRate)
    IN  Leq(wrong, allowed) /\ Leq(Minus(Zero, allowed), wrong)

LEMMA QuotientAccurate ==
    ASSUME NEW X \in Int, NEW D \in Nat \ {0}, NEW s \in Nat \ {0}, s <= D,
           X - TrueRate * D <= CYCLES_DELTA + 2 * TrueRate,
           -(CYCLES_DELTA + 2 * TrueRate) <= X - TrueRate * D
    PROVE  Ratio(X, D) \in Rational /\ AccurateFor(Ratio(X, D), s)
<1> DEFINE R == TrueRate
           q == CYCLES_DELTA + 2 * R
           x == X - R * D
           f == Ratio(X, D)
           m == Minus(f, Rat(R))
           w == Times(m, Rat(s))
           n == Minus(Zero, Rat(q))
<1>1. R \in Nat \ {0} /\ CYCLES_DELTA \in Nat
  BY ClockConstants
<1>2. q \in Nat /\ R * D \in Int /\ x \in Int /\ x <= q /\ -q <= x
  BY <1>1
<1>3. f \in Rational /\ IsQuotient(f, X, D)
  BY RatioIsQuotient
<1>4. /\ Rat(R) \in Rational /\ IsQuotient(Rat(R), R, 1)
      /\ Rat(s) \in Rational /\ IsQuotient(Rat(s), s, 1)
      /\ Rat(q) \in Rational /\ IsQuotient(Rat(q), q, 1)
      /\ Zero \in Rational /\ IsQuotient(Zero, 0, 1)
  <2>1. R \in Int /\ s \in Int /\ q \in Int
    BY <1>1, <1>2
  <2> HIDE DEF R, q
  <2> QED
    BY <2>1, RatFacts, ZeroFacts
<1>5. AccurateFor(f, s) <=> Leq(w, Rat(q)) /\ Leq(n, w)
  BY DEF AccurateFor
<1> HIDE DEF R, f, q
<1>6. m \in Rational /\ IsQuotient(m, X * 1 - R * D, D * 1)
  BY <1>1, <1>3, <1>4, ArithmeticFacts
<1>7. X * 1 - R * D = x /\ D * 1 = D
  BY <1>2
<1>8. IsQuotient(m, x, D)
  BY <1>6, <1>7
<1> HIDE DEF m, x
<1>9. w \in Rational /\ IsQuotient(w, x * s, D * 1)
  BY <1>2, <1>4, <1>6, <1>8, ArithmeticFacts
<1>10. n \in Rational /\ IsQuotient(n, 0 * 1 - q * 1, 1 * 1)
  BY <1>2, <1>4, ArithmeticFacts
<1>11. 0 * 1 - q * 1 = -q /\ 1 * 1 = 1 /\ -q \in Int
  BY <1>2
<1>12. IsQuotient(n, -q, 1) /\ IsQuotient(w, x * s, D)
  BY <1>7, <1>9, <1>10, <1>11
<1>13. x * s \in Int
  BY <1>2
<1> HIDE DEF w, n
<1>14. Leq(w, Rat(q)) <=> (x * s) * 1 <= q * D
  BY <1>2, <1>4, <1>9, <1>12, <1>13, OrderFacts
<1>15. Leq(n, w) <=> (-q) * D <= (x * s) * 1
  BY <1>9, <1>10, <1>11, <1>12, <1>13, OrderFacts
<1>16. x * s <= q * s /\ (-q) * s <= x * s
  BY <1>2, <1>11, Monotone
<1>17. q * s <= q * D /\ (-q) * D <= (-q) * s
  <2>1. PICK e \in Nat : D = s + e
    <3>1. D - s \in Nat /\ D = s + (D - s)
      OBVIOUS
    <3> QED
      BY <3>1
  <2>2. q * D = q * s + q * e /\ (-q) * D = (-q) * s - q * e
    BY <1>2, <2>1
  <2>3. q * e \in Nat /\ q * s \in Int /\ (-q) * s \in Int
    BY <1>2, <2>1
  <2> QED
    BY <2>2, <2>3
<1>18. (x * s) * 1 <= q * D /\ (-q) * D <= (x * s) * 1
  <2>1. q * s \in Int /\ q * D \in Int /\ (-q) * D \in Int /\ (-q) * s \in Int
    BY <1>2
  <2>2. (x * s) * 1 = x * s
    BY <1>13
  <2> QED
    BY <1>13, <1>16, <1>17, <2>1, <2>2
<1> QED
  BY <1>3, <1>5, <1>14, <1>15, <1>18 DEF f

LEMMA FrequencyFacts ==
    ASSUME NEW f \in Frequencies
    PROVE  f \in Rational /\ \E sleep \in SleepTimes : AccurateFor(f, sleep)
<1> DEFINE Found(start, sleep) ==
        {Ratio(end.cycles - start.cycles, end.nanoseconds - start.nanoseconds) :
            end \in Pairs(start.ended + sleep * TrueRate)}
<1>a. PICK start \in UNION {Pairs(c) : c \in 0 .. TrueRate - 1}, sleep \in SleepTimes :
         f \in Found(start, sleep)
  BY DEF Frequencies
<1>b. PICK cycle \in 0 .. TrueRate - 1 : start \in Pairs(cycle)
  BY <1>a
<1>1. PICK end \in Pairs(start.ended + sleep * TrueRate) :
         f = Ratio(end.cycles - start.cycles, end.nanoseconds - start.nanoseconds)
  BY <1>a
<1>2. cycle \in Nat /\ sleep \in Nat \ {0} /\ TrueRate \in Nat \ {0}
  BY ClockConstants
<1>3. PICK a1 \in Nat, b1 \in Nat :
         /\ a1 + b1 < CYCLES_DELTA
         /\ start.cycles = cycle + (a1 + b1) \div 2
         /\ start.nanoseconds = (cycle + a1) \div TrueRate
         /\ start.ended = cycle + a1 + b1
  BY <1>2, <1>b, PairFacts
<1> DEFINE later == start.ended + sleep * TrueRate
<1>4. later \in Nat /\ later = cycle + a1 + b1 + sleep * TrueRate
  BY <1>2, <1>3
<1> HIDE DEF later
<1>5. PICK a2 \in Nat, b2 \in Nat :
         /\ a2 + b2 < CYCLES_DELTA
         /\ end.cycles = later + (a2 + b2) \div 2
         /\ end.nanoseconds = (later + a2) \div TrueRate
  BY <1>4, PairFacts DEF later
<1> DEFINE n1 == start.nanoseconds
           n2 == end.nanoseconds
           X == end.cycles - start.cycles
<1>6. /\ n1 = (cycle + a1) \div TrueRate
      /\ n2 = (cycle + a1 + b1 + sleep * TrueRate + a2) \div TrueRate
      /\ X = (cycle + a1 + b1 + sleep * TrueRate + (a2 + b2) \div 2)
               - (cycle + (a1 + b1) \div 2)
  <2> DEFINE sum == cycle + a1 + b1 + sleep * TrueRate
  <2>1. later = sum
    BY <1>4
  <2> HIDE DEF sum
  <2>2. /\ n1 = (cycle + a1) \div TrueRate
        /\ n2 = (sum + a2) \div TrueRate
        /\ X = (sum + (a2 + b2) \div 2) - (cycle + (a1 + b1) \div 2)
    BY <1>3, <1>5, <2>1
  <2> QED
    BY <2>2 DEF sum
<1>7. f = Ratio(X, n2 - n1)
  BY <1>1
<1> HIDE DEF n1, n2, X
<1>8. /\ X \in Int /\ n2 - n1 \in Nat \ {0} /\ sleep <= n2 - n1
      /\ X - TrueRate * (n2 - n1) <= CYCLES_DELTA + 2 * TrueRate
      /\ -(CYCLES_DELTA + 2 * TrueRate) <= X - TrueRate * (n2 - n1)
  <2>1. Measures(cycle, sleep, a1, b1, a2, b2, n1, n2, X)
    BY <1>2, <1>3, <1>5, <1>6 DEF Measures
  <2> QED
    BY <2>1, MeasurementError
<1> DEFINE D == n2 - n1
<1>9. f = Ratio(X, D) /\ D \in Nat \ {0} /\ sleep <= D
      /\ X - TrueRate * D <= CYCLES_DELTA + 2 * TrueRate
      /\ -(CYCLES_DELTA + 2 * TrueRate) <= X - TrueRate * D
  BY <1>7, <1>8
<1> HIDE DEF D
<1>10. Ratio(X, D) \in Rational /\ AccurateFor(Ratio(X, D), sleep)
  BY <1>2, <1>8, <1>9, QuotientAccurate
<1> QED
  BY <1>9, <1>10

\* There is a median, and it is one of the tests.
LEMMA MedianFacts ==
    ASSUME NEW S, S \subseteq Rational, NEW tests \in Seq(S), Len(tests) # 0
    PROVE  Median(tests) \in S
<1> DEFINE n == Len(tests)
           I == 1 .. n
           half == n \div 2
           UpTo(i) == {j \in I : Leq(tests[j], tests[i])}
           Below(i) == {j \in I : Less(tests[j], tests[i])}
           Up(i) == Cardinality(UpTo(i))
<1>1. /\ n \in Nat \ {0} /\ DOMAIN tests = I /\ I # {}
      /\ \A i \in I : tests[i] \in S /\ tests[i] \in Rational
  <2>1. n \in Nat \ {0} /\ DOMAIN tests = I /\ \A i \in I : tests[i] \in S
    OBVIOUS
  <2>2. 1 \in I
    BY <2>1
  <2> QED
    BY <2>1, <2>2
<1>2. half \in Nat /\ half < n
  BY <1>1
<1> HIDE DEF half
<1>3. IsFiniteSet(I) /\ Cardinality(I) = n
  <2>1. 1 \in Int /\ n \in Int /\ n - 1 + 1 = n /\ ~(1 > n)
    BY <1>1
  <2> QED
    BY <2>1, FS_Interval
<1>4. ASSUME NEW A \in SUBSET I
      PROVE  /\ IsFiniteSet(A) /\ Cardinality(A) \in Nat /\ Cardinality(A) <= n
             /\ \A B \in SUBSET A : /\ Cardinality(B) <= Cardinality(A)
                                    /\ B # A => Cardinality(B) < Cardinality(A)
  <2>1. IsFiniteSet(A) /\ Cardinality(A) <= Cardinality(I)
    BY <1>3, FS_Subset
  <2>2. Cardinality(A) \in Nat
    BY <2>1, FS_CardinalityType
  <2>3. ASSUME NEW B \in SUBSET A
        PROVE  /\ Cardinality(B) <= Cardinality(A)
               /\ B # A => Cardinality(B) < Cardinality(A)
    <3>1. /\ IsFiniteSet(B) /\ Cardinality(B) <= Cardinality(A)
          /\ Cardinality(B) = Cardinality(A) => B = A
      BY <2>1, FS_Subset
    <3>2. Cardinality(B) \in Nat
      BY <3>1, FS_CardinalityType
    <3> QED
      BY <2>2, <3>1, <3>2
  <2> QED
    BY <1>3, <2>1, <2>2, <2>3
<1>5. \A i \in I : Up(i) \in Nat /\ Up(i) <= n
  <2> TAKE i \in I
  <2>1. UpTo(i) \in SUBSET I
    OBVIOUS
  <2> HIDE DEF UpTo
  <2> QED
    BY <1>4, <2>1
<1>6. ASSUME NEW i \in I, NEW j \in I, Less(tests[i], tests[j])
      PROVE  Up(i) < Up(j)
  <2>1. tests[i] \in Rational /\ tests[j] \in Rational
    BY <1>1
  <2>2. UpTo(i) \in SUBSET UpTo(j)
    <3>1. Leq(tests[i], tests[j])
      BY <1>6, <2>1, OrderLaws
    <3>2. ASSUME NEW k \in I, Leq(tests[k], tests[i])
          PROVE  Leq(tests[k], tests[j])
      <4>1. tests[k] \in Rational
        BY <1>1
      <4> QED
        BY <2>1, <3>1, <3>2, <4>1, OrderLaws
    <3> QED
      BY <3>2
  <2>3. j \in UpTo(j) /\ j \notin UpTo(i)
    <3>1. Leq(tests[j], tests[j])
      BY <2>1, OrderLaws
    <3> QED
      BY <1>6, <3>1 DEF Leq
  <2>4. UpTo(j) \in SUBSET I
    OBVIOUS
  <2> HIDE DEF UpTo
  <2>5. UpTo(i) # UpTo(j)
    BY <2>3
  <2> QED
    BY <1>4, <2>2, <2>4, <2>5
<1> HIDE DEF Up
\* Of some tests, the last in order.
<1>7. ASSUME NEW K \in SUBSET I, K # {}
      PROVE  \E j \in K : K \subseteq UpTo(j)
  <2> DEFINE T == {Up(i) : i \in K}
  <2>1. T \subseteq Nat /\ T # {} /\ n \in Nat /\ \A u \in T : u <= n
    BY <1>1, <1>5, <1>7
  <2>2. PICK u \in T : \A v \in T : v <= u
    <3> HIDE DEF T
    <3> QED
      BY <2>1, GreatestNatural
  <2>3. PICK j \in K : u = Up(j)
    OBVIOUS
  <2>4. ASSUME NEW k \in K PROVE Leq(tests[k], tests[j])
    <3> SUFFICES ASSUME Less(tests[j], tests[k]) PROVE FALSE
      BY DEF Leq
    <3>1. Up(j) < Up(k) /\ Up(k) <= Up(j)
      BY <1>6, <2>2, <2>3
    <3>2. Up(j) \in Nat /\ Up(k) \in Nat
      BY <1>5
    <3> QED
      BY <3>1, <3>2
  <2> QED
    BY <2>4
<1> DEFINE T == {i \in I : Up(i) > half}
<1>8. T # {}
  <2>1. PICK j \in I : I \subseteq UpTo(j)
    BY <1>1, <1>7
  <2>2. UpTo(j) = I
    BY <2>1
  <2> QED
    BY <1>2, <1>3, <2>2 DEF Up
<1>9. PICK i \in T : \A j \in T : Up(i) <= Up(j)
  <2> DEFINE U == {Up(i) : i \in T}
  <2>1. U \subseteq Nat /\ U # {}
    BY <1>5, <1>8
  <2>2. PICK u \in U : \A v \in U : u <= v
    <3> HIDE DEF U
    <3> QED
      BY <2>1, LeastNatural
  <2> QED
    BY <2>2
<1>10. Cardinality(Below(i)) <= half
  <2> SUFFICES ASSUME ~(Cardinality(Below(i)) <= half) PROVE FALSE
    OBVIOUS
  <2>1. Below(i) \in SUBSET I /\ i \in I
    OBVIOUS
  <2>2. Cardinality(Below(i)) \in Nat /\ Cardinality(Below(i)) > half
    <3> DEFINE c == Cardinality(Below(i))
    <3>1. c \in Nat
      <4> HIDE DEF Below
      <4> QED
        BY <1>4, <2>1
    <3>2. ~(c <= half)
      OBVIOUS
    <3> HIDE DEF c
    <3>3. c > half
      BY <1>2, <3>1, <3>2
    <3> QED
      BY <3>1, <3>3 DEF c
  <2>3. Below(i) # {}
    <3> SUFFICES ASSUME Below(i) = {} PROVE FALSE
      OBVIOUS
    <3> HIDE DEF Below
    <3>1. Cardinality(Below(i)) = 0
      BY FS_EmptySet
    <3> QED
      BY <1>2, <2>2, <3>1
  <2>4. PICK j \in Below(i) : Below(i) \subseteq UpTo(j)
    <3> HIDE DEF Below, UpTo
    <3> QED
      BY <1>7, <2>1, <2>3
  <2>5. j \in I /\ Less(tests[j], tests[i])
    BY <2>4
  <2>6. Cardinality(Below(i)) <= Up(j)
    <3>1. UpTo(j) \in SUBSET I
      OBVIOUS
    <3> HIDE DEF Below, UpTo
    <3> QED
      BY <1>4, <2>4, <3>1 DEF Up
  <2>7. Up(j) < Up(i)
    BY <1>6, <2>1, <2>5
  <2>8. Up(j) \in Nat /\ Up(i) \in Nat
    BY <1>5, <2>1, <2>5
  <2> HIDE DEF Below
  <2>9. j \in T
    BY <1>2, <2>2, <2>5, <2>6, <2>8
  <2>10. Up(i) <= Up(j)
    BY <1>9, <2>9
  <2> QED
    BY <2>7, <2>8, <2>10
<1>11. Cardinality(UpTo(i)) > half /\ i \in I
  BY <1>9 DEF Up
<1> DEFINE M == {tests[j] : j \in DOMAIN tests}
           Mid(m) == /\ Cardinality({j \in DOMAIN tests : Less(tests[j], m)}) <= half
                     /\ Cardinality({j \in DOMAIN tests : Leq(tests[j], m)}) > half
<1>12. tests[i] \in M /\ Mid(tests[i])
  BY <1>1, <1>10, <1>11
<1>13. Median(tests) = CHOOSE m \in M : Mid(m)
  BY DEF Median, half
<1>14. M \subseteq S
  BY <1>1
<1> HIDE DEF M, Mid
<1>15. Median(tests) \in M
  BY <1>12, <1>13
<1> QED
  BY <1>14, <1>15

-----------------------------------------------------------------------------
(* The clock while the program is loaded. *)

\* The tests are measurements, and so is the rate that is chosen from them.
ClockInv ==
    /\ clock_source \in Sources
    /\ cycles_tests \in Seq(Frequencies) /\ Len(cycles_tests) <= TESTS_COUNT
    /\ cycles_per_nanosec \in Rational
    /\ Calibrated /\ clock_source \in TscSources => cycles_per_nanosec \in Frequencies

LEMMA InitClock == Init => ClockInv
<1> SUFFICES ASSUME ClockInit PROVE ClockInv
  BY DEF Init
<1>1. clock_source \in Sources
  BY DEF ClockInit, get_available_clock_source, Sources
<1>2. cycles_tests \in Seq(Frequencies) /\ Len(cycles_tests) <= TESTS_COUNT
  BY ClockConstants DEF ClockInit
<1>3. Rat(3) \in Rational /\ Zero \in Rational
  BY RatFacts, ZeroFacts
<1>4. /\ cycles_per_nanosec \in Rational
      /\ Calibrated => clock_source \notin TscSources
  BY <1>3 DEF ClockInit, Calibrated
<1> QED
  BY <1>1, <1>2, <1>4 DEF ClockInv

LEMMA NextClock == ClockInv /\ [Next]_vars => ClockInv'
<1> SUFFICES ASSUME ClockInv, [Next]_vars PROVE ClockInv'
  OBVIOUS
<1>1. ASSUME UNCHANGED clockVars
      PROVE  ClockInv'
  BY <1>1 DEF ClockInv, clockVars, Calibrated
<1>2. ASSUME NEW frequency \in Frequencies, Test(frequency)
      PROVE  ClockInv'
  <2>1. /\ cycles_tests' = Append(cycles_tests, frequency) /\ Len(cycles_tests) < TESTS_COUNT
        /\ clock_source' = clock_source /\ cycles_per_nanosec' = cycles_per_nanosec
    BY <1>2 DEF Test
  <2>2. cycles_tests' \in Seq(Frequencies) /\ Len(cycles_tests') = Len(cycles_tests) + 1
    BY <2>1 DEF ClockInv
  <2>3. Len(cycles_tests') <= TESTS_COUNT
    <3> DEFINE n == Len(cycles_tests)
    <3>1. n \in Nat /\ n < TESTS_COUNT /\ TESTS_COUNT \in Nat
      BY <2>1, ClockConstants DEF ClockInv
    <3> HIDE DEF n
    <3>2. n + 1 <= TESTS_COUNT
      BY <3>1
    <3> QED
      BY <2>2, <3>2 DEF n
  <2> QED
    BY <2>1, <2>2, <2>3 DEF ClockInv, Calibrated
<1>3. ASSUME ChooseMedian
      PROVE  ClockInv'
  <2>1. /\ Len(cycles_tests) = TESTS_COUNT /\ clock_source' = clock_source
        /\ cycles_per_nanosec' = Median(cycles_tests) /\ cycles_tests' = << >>
    BY <1>3 DEF ChooseMedian
  <2>2. Frequencies \subseteq Rational
    BY FrequencyFacts
  <2>3. Len(cycles_tests) # 0 /\ cycles_tests \in Seq(Frequencies)
    BY <2>1, ClockConstants DEF ClockInv
  <2>4. Median(cycles_tests) \in Frequencies
    BY <2>2, <2>3, MedianFacts
  <2>5. cycles_tests' \in Seq(Frequencies) /\ Len(cycles_tests') <= TESTS_COUNT
    BY <2>1, ClockConstants
  <2> QED
    BY <2>1, <2>2, <2>4, <2>5 DEF ClockInv
<1> QED
  BY <1>1, <1>2, <1>3 DEF Next, Main, Load, vars, clockVars

LEMMA ClockInvariance == Spec => []ClockInv
  BY InitClock, NextClock, PTL DEF Spec

\* estimate_cycles_frequency() (tsc_clock.cpp) chooses one of its tests, and
\* none of them is further off than the pairs of readings allow, whatever the
\* sleep takes and whatever comes between the readings.
THEOREM RateAccurateHolds == Spec => []RateAccurate
<1>1. ASSUME ClockInv
      PROVE  RateAccurate
  <2> SUFFICES ASSUME Calibrated, clock_source \in TscSources
               PROVE  \E sleep \in SleepTimes : AccurateFor(cycles_per_nanosec, sleep)
    BY DEF RateAccurate, AccurateFor
  <2>1. cycles_per_nanosec \in Frequencies
    BY <1>1 DEF ClockInv
  <2> QED
    BY <2>1, FrequencyFacts
<1> QED
  BY <1>1, ClockInvariance, PTL

\* All variables keep their types: the rate is never divided by a duration of
\* zero nanoseconds, and there is a test in the middle.
THEOREM TypeCorrect == Spec => []TypeOK
<1>1. ASSUME ClockInv, TimeTypeOK
      PROVE  TypeOK
  <2>1. IsRat(cycles_per_nanosec)
    <3>1. cycles_per_nanosec \in Rational
      BY <1>1 DEF ClockInv
    <3> QED
      BY <3>1, Parts DEF IsRat
  <2> QED
    BY <1>1, <2>1 DEF ClockInv, TypeOK
<1> QED
  BY <1>1, ClockInvariance, TimeTypeCorrect, PTL
=============================================================================
