----------------------------- MODULE SystemTime -----------------------------
(***************************************************************************)
(* Conversion of the library's clock to system time, to_system_time() in   *)
(* src/src/chrono.cpp: threads that share an offset, the time it was       *)
(* measured at, and a lock that nobody waits for. Meanwhile time passes    *)
(* and the system clock is adjusted. Times are in nanoseconds; Durations   *)
(* is about their conversion from cycles.                                  *)
(***************************************************************************)
EXTENDS TscClock

CONSTANTS Threads,
          OFFSET_TIMEOUT, CLOSE_DISTANCE, MAX_UPDATE_TRIES,
          SystemOffsets,    \* how far the system clock may be ahead
          MaxTime           \* bound of the model on the time

ASSUME SystemTimeAssumption ==
    /\ {OFFSET_TIMEOUT, CLOSE_DISTANCE, MAX_UPDATE_TRIES, MaxTime} \subseteq Nat \ {0}
    /\ SystemOffsets \subseteq Nat \ {0}

VARIABLES
    ns_offset, offset_timestamp, lock,  \* static variables
    pc,         \* what each thread does next
    call,       \* local variables of each thread's call
    ahead       \* how far the system clock was ahead, at each time up to now

offsetVars == <<ns_offset, offset_timestamp, lock>>
vars == <<offsetVars, pc, call, ahead, clockVars>>

Now == Len(ahead)

system_clock_now == Now + ahead[Now]

\* CLOCK_REALTIME is the system clock, and jumps with it.
tsc_clock_now ==
    IF clock_source = "CLOCK_REALTIME" THEN system_clock_now ELSE Now

\* Division of int64_t by 2.
Half(n) == IF n < 0 THEN -((-n) \div 2) ELSE n \div 2

cycles_middle(c) == c.cycles_start + Half(c.cycles_end - c.cycles_start)

\* What has had its use in a call is zero again.
NoCall == [current_tsc_time |-> 0, offset_ts |-> 0, update_try |-> 0,
           cycles_start |-> 0, current_system_time |-> 0, cycles_end |-> 0]

\* Defective variant: the offset is never measured again.
expired_never(c) == c.offset_ts = 0

expired(c) ==
    c.offset_ts = 0 \/ c.current_tsc_time - c.offset_ts > OFFSET_TIMEOUT

SystemTimeInit ==
    /\ ns_offset = 0 /\ offset_timestamp = 0 /\ lock = FALSE
    /\ pc = [t \in Threads |-> "idle"]
    /\ call = [t \in Threads |-> NoCall]
    /\ ahead \in {<<s>> : s \in SystemOffsets}

\* The system clock is adjusted, or not, while time passes.
Tick(offset) ==
    /\ Now < MaxTime
    /\ ahead' = Append(ahead, offset)
    /\ UNCHANGED <<offsetVars, pc, call>>

Goto(t, label) == pc' = [pc EXCEPT ![t] = label]

Enter(t) ==
    /\ pc[t] = "idle"
    /\ call' = [call EXCEPT ![t].current_tsc_time = tsc_clock_now]
    /\ Goto(t, "load")
    /\ UNCHANGED <<offsetVars, ahead>>

LoadTimestamp(t) ==
    /\ pc[t] = "load"
    /\ call' = [call EXCEPT ![t].offset_ts = offset_timestamp]
    /\ Goto(t, IF expired(call'[t]) THEN "lock" ELSE "apply")
    /\ UNCHANGED <<offsetVars, ahead>>

\* Defective variant: the result of test_and_set() is ignored.
Label_locked(taken) == "start"

Label(taken) == IF taken THEN "apply" ELSE "start"

TestAndSet(t) ==
    /\ pc[t] = "lock"
    /\ lock' = TRUE
    /\ call' = [call EXCEPT ![t] = NoCall]
    /\ Goto(t, Label(lock))
    /\ UNCHANGED <<ns_offset, offset_timestamp, ahead>>

ReadStart(t) ==
    /\ pc[t] = "start"
    /\ call' = [call EXCEPT ![t].cycles_start = tsc_clock_now]
    /\ Goto(t, "system")
    /\ UNCHANGED <<offsetVars, ahead>>

ReadSystem(t) ==
    /\ pc[t] = "system"
    /\ call' = [call EXCEPT ![t].current_system_time = system_clock_now]
    /\ Goto(t, "end")
    /\ UNCHANGED <<offsetVars, ahead>>

\* Defective variant: one try too many.
Retry_more(tries) == IF tries <= MAX_UPDATE_TRIES THEN "start" ELSE "unlock"

\* Defective variant: without a close pair the call returns at once.
Retry_return(tries) == IF tries < MAX_UPDATE_TRIES THEN "start" ELSE "apply"

Retry(tries) == IF tries < MAX_UPDATE_TRIES THEN "start" ELSE "unlock"

\* The end of a try: a close pair was found, or there is another try, or not.
ReadEnd(t) ==
    /\ pc[t] = "end"
    /\ LET c == [call[t] EXCEPT !.cycles_end = tsc_clock_now, !.update_try = @ + 1]
       IN  /\ call' = [call EXCEPT ![t] = c]
           /\ Goto(t, IF c.cycles_end - c.cycles_start < CLOSE_DISTANCE
                      THEN "store" ELSE Retry(c.update_try))
    /\ UNCHANGED <<offsetVars, ahead>>

StoreOffset(t) ==
    /\ pc[t] = "store"
    /\ ns_offset' = call[t].current_system_time - cycles_middle(call[t])
    /\ Goto(t, "timestamp")
    /\ UNCHANGED <<offset_timestamp, lock, call, ahead>>

StoreTimestamp(t) ==
    /\ pc[t] = "timestamp"
    /\ offset_timestamp' = cycles_middle(call[t])
    /\ call' = [call EXCEPT ![t] = NoCall]
    /\ Goto(t, "unlock")
    /\ UNCHANGED <<ns_offset, lock, ahead>>

Unlock(t) ==
    /\ pc[t] = "unlock"
    /\ lock' = FALSE
    /\ call' = [call EXCEPT ![t] = NoCall]
    /\ Goto(t, "apply")
    /\ UNCHANGED <<ns_offset, offset_timestamp, ahead>>

\* The offset is loaded and added to the argument, and the call returns.
Apply(t) ==
    /\ pc[t] = "apply"
    /\ call' = [call EXCEPT ![t] = NoCall]
    /\ Goto(t, "idle")
    /\ UNCHANGED <<offsetVars, ahead>>

\* A step of to_system_time() after its first.
Continue(t) ==
    \/ LoadTimestamp(t) \/ TestAndSet(t)
    \/ ReadStart(t) \/ ReadSystem(t) \/ ReadEnd(t)
    \/ Unlock(t) \/ Apply(t)
    \/ StoreOffset(t) \/ StoreTimestamp(t)

Main ==
    /\ Calibrated
    /\ UNCHANGED clockVars
    /\ \/ \E offset \in SystemOffsets : Tick(offset)
       \/ \E t \in Threads : Enter(t) \/ Continue(t)

Init == ClockInit /\ SystemTimeInit

Next == Main \/ (Load /\ UNCHANGED <<offsetVars, pc, call, ahead>>)

\* A thread that is in a call goes on; it need not call again, and time need
\* not pass.
Fairness ==
    \A t \in Threads : WF_vars(Calibrated /\ Continue(t) /\ UNCHANGED clockVars)

Spec == Init /\ [][Next]_vars /\ Fairness

-----------------------------------------------------------------------------
Call == [current_tsc_time : Int, offset_ts : Int, update_try : 0 .. MAX_UPDATE_TRIES,
         cycles_start : Int, current_system_time : Int, cycles_end : Int]

\* Types of the variables of to_system_time().
TimeTypeOK ==
    /\ ns_offset \in Int /\ offset_timestamp \in Int
    /\ lock \in BOOLEAN
    /\ pc \in [Threads -> {"idle", "load", "lock", "start", "system", "end",
                           "store", "timestamp", "unlock", "apply"}]
    /\ call \in [Threads -> Call]
    /\ \A t \in Threads : pc[t] \in {"start", "system", "end"} =>
          call[t].update_try < MAX_UPDATE_TRIES
    /\ ahead \in Seq(SystemOffsets) /\ Now \in 1 .. MaxTime

\* Types of all variables.
TypeOK ==
    /\ clock_source \in Sources
    /\ IsRat(cycles_per_nanosec)
    /\ cycles_tests \in Seq(Frequencies) /\ Len(cycles_tests) <= TESTS_COUNT
    /\ TimeTypeOK

\* The library's time at which offset was the distance to the system clock,
\* if it was measured at time u around the library's time middle.
TiedAt(u, middle, offset) ==
    /\ u - middle \in -(CLOSE_DISTANCE \div 2) .. CLOSE_DISTANCE \div 2
    /\ u + ahead[u] = middle + offset

\* The offset and its timestamp are a tied pair, as the documentation calls
\* it, except while one thread stores them: at a time close to the timestamp
\* the system clock showed what the offset says. If the library's clock is
\* CLOCK_REALTIME, a jump between the readings makes any pair look close.
PairTied ==
    clock_source # "CLOCK_REALTIME" /\ offset_timestamp # 0
    /\ (\A t \in Threads : pc[t] # "timestamp") =>
        \E u \in 1 .. Now : TiedAt(u, offset_timestamp, ns_offset)

\* Whether offset was right, to within half of CLOSE_DISTANCE, at a time
\* not before since.
RightSince(offset, since) ==
    \E u \in 1 .. Now :
        /\ u >= since
        /\ offset - ahead[u] \in -(CLOSE_DISTANCE \div 2) .. CLOSE_DISTANCE \div 2

\* A thread that finds the timestamp recent applies an offset that is as
\* recent, even if both are replaced in between: the offset is stored first.
ResultFresh ==
    \A t \in Threads :
        Apply(t) /\ clock_source # "CLOCK_REALTIME" /\ ~expired(call[t]) =>
            RightSince(ns_offset, call[t].current_tsc_time - OFFSET_TIMEOUT
                                  - CLOSE_DISTANCE \div 2)

ResultFreshStep == [][ResultFresh]_vars

\* Whether or not a close pair is found, the lock is released: the offset
\* can be updated again.
LockReleased == []<>(lock = FALSE)

\* The documentation asks that calls be thread-safe: no call should return a
\* time that the system clock never was close to. The first ones do, if they
\* find the lock taken: they apply the initial offset, zero.
ResultRight ==
    \A t \in Threads :
        Apply(t) /\ clock_source # "CLOCK_REALTIME" => RightSince(ns_offset, 1)

ResultRightStep == [][ResultRight]_vars

-----------------------------------------------------------------------------
(* The inductive invariant behind PairTied and ResultFresh.                 *)

Critical == {"start", "system", "end", "store", "timestamp", "unlock"}

\* One thread at a time measures the offset, and it has the lock.
LockInv ==
    /\ \A t \in Threads : pc[t] \in Critical => lock
    /\ \A s, t \in Threads : pc[s] \in Critical /\ pc[t] \in Critical => s = t

\* The readings of a try are in order, and later than the offset in use.
Measured(t) ==
    LET c == call[t] IN
        /\ pc[t] \in {"system", "end", "store", "timestamp"} =>
              offset_timestamp <= c.cycles_start /\ c.cycles_start <= Now
        /\ pc[t] = "end" =>
              \E u \in 1 .. Now :
                  c.cycles_start <= u /\ c.current_system_time = u + ahead[u]
        /\ pc[t] \in {"store", "timestamp"} =>
              /\ c.cycles_start <= c.cycles_end /\ c.cycles_end <= Now
              /\ c.cycles_end - c.cycles_start < CLOSE_DISTANCE
        /\ pc[t] = "store" =>
              \E u \in 1 .. Now :
                  /\ c.cycles_start <= u /\ u <= c.cycles_end
                  /\ c.current_system_time = u + ahead[u]
        /\ pc[t] = "timestamp" =>
              \E u \in 1 .. Now :
                  c.cycles_start <= u /\ TiedAt(u, cycles_middle(c), ns_offset)

MeasureInv == \A t \in Threads : Measured(t)

\* The offset is at least as recent as its timestamp and as the timestamp that
\* any thread about to apply it has loaded.
Recent(t) ==
    pc[t] = "apply" /\ call[t].offset_ts # 0 =>
        /\ call[t].offset_ts <= offset_timestamp
        /\ RightSince(ns_offset, call[t].offset_ts - CLOSE_DISTANCE \div 2)

FreshInv ==
    /\ offset_timestamp <= Now
    /\ offset_timestamp # 0 =>
          RightSince(ns_offset, offset_timestamp - CLOSE_DISTANCE \div 2)
    /\ \A t \in Threads : Recent(t)

IInv ==
    /\ TimeTypeOK /\ LockInv
    /\ clock_source # "CLOCK_REALTIME" => MeasureInv /\ PairTied /\ FreshInv
=============================================================================
