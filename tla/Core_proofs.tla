----------------------------- MODULE Core_proofs -----------------------------
(***************************************************************************)
(* Proofs about Core for any number of controllers, producers, messages    *)
(* and names, whether or not starting the processor thread may fail: IInv  *)
(* is inductive, and it implies every safety invariant of the module.      *)
(***************************************************************************)
EXTENDS Core, FiniteSetTheorems, TLAPS

-----------------------------------------------------------------------------
(* Where the holder of the mutex is. *)

\* A controller inside an operation is the holder of the mutex.
LEMMA Holder ==
    ASSUME TypeOK, LockInv, NEW c \in Controllers, kpc[c] # "idle"
    PROVE  operation_mutex = c /\ holder_pc = kpc[c] /\ operation_mutex # free
  BY CoreAssumption DEF LockInv, holder_pc

\* The holder moves to another place inside its operation.
LEMMA HolderMoves ==
    ASSUME TypeOK, LockInv, NEW c \in Controllers, kpc[c] # "idle",
           NEW l \in ControllerPC \ {"idle"}, GoTo(c, l),
           operation_mutex' = operation_mutex
    PROVE  /\ kpc' \in [Controllers -> ControllerPC]
           /\ holder_pc' = l
           /\ LockInv'
<1>1. operation_mutex = c /\ operation_mutex # free
  BY Holder
<1>2. kpc' = [kpc EXCEPT ![c] = l] /\ kpc \in [Controllers -> ControllerPC]
  BY DEF TypeOK, GoTo
<1> QED
  BY <1>1, <1>2 DEF LockInv, holder_pc

\* A controller enters an operation.
LEMMA HolderEnters ==
    ASSUME TypeOK, LockInv, NEW c \in Controllers, operation_mutex = free,
           NEW l \in ControllerPC \ {"idle"}, GoTo(c, l),
           operation_mutex' = c
    PROVE  /\ kpc' \in [Controllers -> ControllerPC]
           /\ holder_pc = "idle" /\ holder_pc' = l
           /\ LockInv'
<1>1. kpc' = [kpc EXCEPT ![c] = l] /\ kpc \in [Controllers -> ControllerPC]
  BY DEF TypeOK, GoTo
<1>2. c # free
  BY CoreAssumption
<1>3. \A d \in Controllers : kpc[d] = "idle"
  BY CoreAssumption DEF LockInv
<1> QED
  BY <1>1, <1>2, <1>3 DEF LockInv, holder_pc

LEMMA PCs ==
    /\ FinalizePC \subseteq ControllerPC
    /\ {"idle", "init", "enable", "start", "unlock"} \cap FinalizePC = {}
  BY DEF ControllerPC, FinalizePC

\* A step that leaves the queue, the events, the measuring points and the
\* place of the processor thread alone.
Frame == UNCHANGED <<queueVars, heapVars, producerVars, rpc, popped>>

LEMMA FrameInv ==
    ASSUME CountInv, OwnerInv, Frame
    PROVE  /\ CountInv' /\ OwnerInv'
           /\ Quiet' = Quiet
<1> USE DEF Frame, queueVars, heapVars, producerVars
<1>1. CountInv'
  BY DEF CountInv, Uncounted
<1>2. OwnerInv'
  BY DEF OwnerInv, NoLeak, Queued
<1> QED
  BY <1>1, <1>2 DEF Quiet

LEMMA UncountedFinite ==
    /\ IsFiniteSet(Uncounted) /\ Cardinality(Uncounted) \in Nat
    /\ Quiet => Cardinality(Uncounted) = 0
<1>1. Uncounted \in SUBSET Producers
  BY DEF Uncounted
<1>2. IsFiniteSet(Uncounted)
  BY <1>1, FS_Subset, CoreAssumption
<1>3. Quiet => Uncounted = {}
  BY DEF Quiet, Uncounted
<1> QED
  BY <1>2, <1>3, FS_CardinalityType, FS_EmptySet

\* Without events there is nothing to count.
LEMMA NoEvents ==
    ASSUME TypeOK, ThreadInv, CountInv, OwnerInv, live = {}
    PROVE  /\ q = <<>> /\ mq_size = 0 /\ popped = nullptr
           /\ Cardinality(Uncounted) = 0
           /\ \A p \in Producers : ppc[p] # "push"
<1>1. Queued = {} /\ popped = nullptr /\ \A p \in Producers : ppc[p] # "push"
  BY DEF OwnerInv, NoLeak
<1>2. q \in Seq(Messages) /\ Len(q) \in Nat
  BY DEF TypeOK
<1>3. q = <<>>
  <2>1. ASSUME Len(q) # 0 PROVE FALSE
    <3>1. 1 \in 1 .. Len(q)
      BY <1>2, <2>1
    <3> QED
      BY <1>1, <3>1 DEF Queued
  <2> QED
    BY <1>2, <2>1
<1>4. rpc # "decrement" /\ mq_size \in Nat
  BY <1>1 DEF ThreadInv, TypeOK
<1>5. mq_size + Cardinality(Uncounted) = 0
  BY <1>3, <1>4 DEF CountInv
<1> QED
  BY <1>1, <1>3, <1>4, <1>5, UncountedFinite

-----------------------------------------------------------------------------
(* The controllers. *)

LEMMA InitIInv == Init => IInv
<1> SUFFICES ASSUME Init PROVE IInv
  OBVIOUS
<1>1. TypeOK
  <2>1. dest \in [Messages -> Names]
    BY DEF Init
  <2>2. q \in Seq(Messages) /\ mq_size \in Nat
    BY DEF Init
  <2> QED
    BY <2>1, <2>2 DEF Init, TypeOK, ControllerPC, ProcessorPC, ProducerPC
<1>2. LockInv /\ holder_pc = "idle"
  BY CoreAssumption DEF Init, LockInv, holder_pc
<1>3. Quiet /\ Len(q) = 0 /\ Queued = {}
  BY DEF Init, Quiet, Queued
<1>4. SwitchInv /\ ThreadInv
  BY <1>2, <1>3 DEF Init, SwitchInv, ThreadInv, FinalizePC
<1>5. CountInv
  BY <1>3, UncountedFinite DEF Init, CountInv
<1>6. OwnerInv
  BY <1>3, CoreAssumption DEF Init, OwnerInv, NoLeak
<1>7. SessionInv
  BY <1>2 DEF Init, SessionInv
<1> QED
  BY <1>1, <1>2, <1>4, <1>5, <1>6, <1>7 DEF IInv

LEMMA LockInitializeIInv ==
    ASSUME IInv, NEW c \in Controllers, LockInitialize(c)
    PROVE  IInv'
<1> USE DEF LockInitialize
<1> DEFINE l == IF enabled_flag THEN "unlock" ELSE "init"
<1>1. /\ kpc' \in [Controllers -> ControllerPC]
      /\ holder_pc = "idle" /\ holder_pc' = l
      /\ LockInv'
  BY HolderEnters DEF IInv, ControllerPC
<1>2. CountInv' /\ OwnerInv' /\ Quiet' = Quiet
  BY FrameInv DEF IInv, Frame, threadVars
<1>3. UNCHANGED <<enable, enabled_flag, event_message_queue, processor_thread, rpc,
                  popped, live, metrics_map, dump, mq_size>>
  BY DEF threadVars, queueVars, heapVars, metricVars
<1>4. TypeOK'
  BY <1>1 DEF IInv, TypeOK, threadVars, queueVars, heapVars, producerVars, metricVars
<1>5. SwitchInv' /\ ThreadInv' /\ SessionInv'
  <2> HIDE DEF LockInitialize
  <2> QED
    BY <1>1, <1>2, <1>3 DEF IInv, SwitchInv, ThreadInv, SessionInv, FinalizePC
<1> QED
  BY <1>1, <1>2, <1>4, <1>5 DEF IInv

LEMMA LockFinalizeIInv ==
    ASSUME IInv, NEW c \in Controllers, LockFinalize(c)
    PROVE  IInv'
<1> USE DEF LockFinalize
<1>1. /\ kpc' \in [Controllers -> ControllerPC]
      /\ holder_pc = "idle" /\ holder_pc' = "disable"
      /\ LockInv'
  BY HolderEnters DEF IInv, ControllerPC, FinalizePC
<1>2. CountInv' /\ OwnerInv' /\ Quiet' = Quiet
  BY FrameInv DEF IInv, Frame, threadVars
<1>3. UNCHANGED <<enable, enabled_flag, event_message_queue, processor_thread, rpc,
                  popped, live, metrics_map, dump, mq_size>>
  BY DEF threadVars, queueVars, heapVars, metricVars
<1>4. TypeOK'
  BY <1>1 DEF IInv, TypeOK, threadVars, queueVars, heapVars, producerVars, metricVars
<1>5. Quiet
  OBVIOUS
<1>6. SwitchInv' /\ ThreadInv' /\ SessionInv'
  <2> HIDE DEF LockFinalize
  <2> QED
    BY <1>1, <1>2, <1>3, <1>5 DEF IInv, SwitchInv, ThreadInv, SessionInv, FinalizePC
<1> QED
  BY <1>1, <1>2, <1>4, <1>6 DEF IInv

LEMMA SetEnabledIInv ==
    ASSUME IInv, NEW c \in Controllers, SetEnabled(c)
    PROVE  IInv'
<1> USE DEF SetEnabled
<1>1. /\ kpc' \in [Controllers -> ControllerPC]
      /\ holder_pc = "enable" /\ holder_pc' = "start"
      /\ LockInv'
  BY Holder, HolderMoves DEF IInv, ControllerPC, FinalizePC
<1>2. CountInv' /\ OwnerInv' /\ Quiet' = Quiet
  BY FrameInv DEF IInv, Frame, threadVars
<1>3. /\ enabled_flag' = TRUE
      /\ UNCHANGED <<enable, event_message_queue, processor_thread, rpc, popped, live, metrics_map, dump, mq_size>>
  BY DEF threadVars, queueVars, heapVars, metricVars
<1>4. TypeOK'
  BY <1>1 DEF IInv, TypeOK, threadVars, queueVars, heapVars, producerVars, metricVars
<1>5. SwitchInv' /\ ThreadInv' /\ SessionInv'
  <2> HIDE DEF SetEnabled
  <2> QED
    BY <1>1, <1>2, <1>3 DEF IInv, SwitchInv, ThreadInv, SessionInv, FinalizePC
<1> QED
  BY <1>1, <1>2, <1>4, <1>5 DEF IInv

LEMMA DisableIInv ==
    ASSUME IInv, NEW c \in Controllers, Disable(c)
    PROVE  IInv'
<1> USE DEF Disable
<1>1. /\ kpc' \in [Controllers -> ControllerPC]
      /\ holder_pc = "disable" /\ holder_pc' = "join"
      /\ LockInv'
  BY Holder, HolderMoves DEF IInv, ControllerPC, FinalizePC
<1>2. CountInv' /\ OwnerInv' /\ Quiet' = Quiet
  BY FrameInv DEF IInv, Frame, threadVars
<1>3. /\ enabled_flag' = FALSE
      /\ UNCHANGED <<enable, event_message_queue, processor_thread, rpc, popped, live, metrics_map, dump, mq_size>>
  BY DEF threadVars, queueVars, heapVars, metricVars
<1>4. TypeOK'
  BY <1>1 DEF IInv, TypeOK, threadVars, queueVars, heapVars, producerVars, metricVars
<1>5. SwitchInv' /\ ThreadInv' /\ SessionInv'
  <2> HIDE DEF Disable
  <2> QED
    BY <1>1, <1>2, <1>3 DEF IInv, SwitchInv, ThreadInv, SessionInv, FinalizePC
<1> QED
  BY <1>1, <1>2, <1>4, <1>5 DEF IInv

LEMMA JoinIInv ==
    ASSUME IInv, NEW c \in Controllers, Join(c)
    PROVE  IInv'
<1> USE DEF Join
<1>1. /\ kpc' \in [Controllers -> ControllerPC]
      /\ holder_pc = "join" /\ holder_pc' = "internal"
      /\ LockInv'
  BY Holder, HolderMoves DEF IInv, ControllerPC, FinalizePC
<1>2. CountInv' /\ OwnerInv' /\ Quiet' = Quiet
  BY FrameInv DEF IInv, Frame, threadVars
<1>3. /\ (joinable => processor_thread = "exited") /\ processor_thread' = "none"
      /\ UNCHANGED <<enable, enabled_flag, event_message_queue, rpc, popped, live, metrics_map, dump, mq_size>>
  BY DEF threadVars, queueVars, heapVars, metricVars
<1>4. TypeOK'
  BY <1>1 DEF IInv, TypeOK, threadVars, queueVars, heapVars, producerVars, metricVars
<1>5. SwitchInv' /\ ThreadInv' /\ SessionInv'
  <2> HIDE DEF Join
  <2> QED
    BY <1>1, <1>2, <1>3 DEF IInv, SwitchInv, ThreadInv, SessionInv, FinalizePC, joinable
<1> QED
  BY <1>1, <1>2, <1>4, <1>5 DEF IInv

LEMMA FinalizeInternalIInv ==
    ASSUME IInv, NEW c \in Controllers, FinalizeInternal(c)
    PROVE  IInv'
<1> USE DEF FinalizeInternal
<1>1. /\ kpc' \in [Controllers -> ControllerPC]
      /\ holder_pc = "internal" /\ holder_pc' = "drain"
      /\ LockInv'
  BY Holder, HolderMoves DEF IInv, ControllerPC, FinalizePC
<1>2. CountInv' /\ OwnerInv' /\ Quiet' = Quiet
  BY FrameInv DEF IInv, Frame, threadVars
<1>3. /\ metrics_map' = {}
      /\ UNCHANGED <<enable, enabled_flag, event_message_queue, processor_thread, rpc, popped, live, dump, mq_size>>
  BY DEF threadVars, queueVars, heapVars, metricVars
<1>4. TypeOK'
  BY <1>1 DEF IInv, TypeOK, threadVars, queueVars, heapVars, producerVars, metricVars
<1>5. SwitchInv' /\ ThreadInv' /\ SessionInv'
  <2> HIDE DEF FinalizeInternal
  <2> QED
    BY <1>1, <1>2, <1>3 DEF IInv, SwitchInv, ThreadInv, SessionInv, FinalizePC
<1> QED
  BY <1>1, <1>2, <1>4, <1>5 DEF IInv

LEMMA FinalizeDumpIInv ==
    ASSUME IInv, NEW c \in Controllers, FinalizeDump(c)
    PROVE  IInv'
<1> USE DEF FinalizeDump
<1>1. /\ kpc' \in [Controllers -> ControllerPC]
      /\ holder_pc = "dump" /\ holder_pc' = "config"
      /\ LockInv'
  BY Holder, HolderMoves DEF IInv, ControllerPC, FinalizePC
<1>2. CountInv' /\ OwnerInv' /\ Quiet' = Quiet
  BY FrameInv DEF IInv, Frame, threadVars
<1>3. /\ dump' = {}
      /\ UNCHANGED <<enable, enabled_flag, event_message_queue, processor_thread, rpc, popped, live, metrics_map, mq_size>>
  BY DEF threadVars, queueVars, heapVars, metricVars
<1>4. TypeOK'
  BY <1>1 DEF IInv, TypeOK, threadVars, queueVars, heapVars, producerVars, metricVars
<1>5. SwitchInv' /\ ThreadInv' /\ SessionInv'
  <2> HIDE DEF FinalizeDump
  <2> QED
    BY <1>1, <1>2, <1>3 DEF IInv, SwitchInv, ThreadInv, SessionInv, FinalizePC
<1> QED
  BY <1>1, <1>2, <1>4, <1>5 DEF IInv

LEMMA FinalizeConfigIInv ==
    ASSUME IInv, NEW c \in Controllers, FinalizeConfig(c)
    PROVE  IInv'
<1> USE DEF FinalizeConfig
<1>1. /\ kpc' \in [Controllers -> ControllerPC]
      /\ holder_pc = "config" /\ holder_pc' = "unlock"
      /\ LockInv'
  BY Holder, HolderMoves DEF IInv, ControllerPC, FinalizePC
<1>2. CountInv' /\ OwnerInv' /\ Quiet' = Quiet
  BY FrameInv DEF IInv, Frame, threadVars
<1>3. /\ enable' = TRUE
      /\ UNCHANGED <<enabled_flag, event_message_queue, processor_thread, rpc, popped, live, metrics_map, dump, mq_size>>
  BY DEF threadVars, queueVars, heapVars, metricVars
<1>4. TypeOK'
  BY <1>1 DEF IInv, TypeOK, threadVars, queueVars, heapVars, producerVars, metricVars
<1>5. SwitchInv' /\ ThreadInv' /\ SessionInv'
  <2> HIDE DEF FinalizeConfig
  <2> QED
    BY <1>1, <1>2, <1>3 DEF IInv, SwitchInv, ThreadInv, SessionInv, FinalizePC
<1> QED
  BY <1>1, <1>2, <1>4, <1>5 DEF IInv

LEMMA StartThreadIInv ==
    ASSUME IInv, NEW c \in Controllers, StartThread(c)
    PROVE  IInv'
<1> USE DEF StartThread
<1>1. /\ kpc' \in [Controllers -> ControllerPC]
      /\ holder_pc = "start" /\ holder_pc' = "unlock"
      /\ LockInv'
  BY Holder, HolderMoves DEF IInv, ControllerPC, FinalizePC
<1>2. processor_thread # "running" /\ rpc = "loop" /\ rpc' = rpc
  BY <1>1 DEF IInv, ThreadInv
<1>3. CountInv' /\ OwnerInv' /\ Quiet' = Quiet
  BY <1>2, FrameInv DEF IInv, Frame
<1>4. /\ processor_thread' \in {"running", "failed"}
      /\ UNCHANGED <<enable, enabled_flag, event_message_queue, rpc, popped, live,
                     metrics_map, dump, mq_size>>
  BY <1>2 DEF queueVars, heapVars, metricVars
<1>5. TypeOK'
  BY <1>1, <1>2, <1>4
  DEF IInv, TypeOK, queueVars, heapVars, producerVars, metricVars
<1>6. event_message_queue /\ enabled_flag
  BY <1>1 DEF IInv, SwitchInv
<1>7. SwitchInv' /\ ThreadInv' /\ SessionInv'
  <2> HIDE DEF StartThread
  <2> QED
    BY <1>1, <1>2, <1>3, <1>4, <1>6 DEF IInv, SwitchInv, ThreadInv, SessionInv, FinalizePC
<1> QED
  BY <1>1, <1>3, <1>5, <1>7 DEF IInv

LEMMA UnlockIInv ==
    ASSUME IInv, NEW c \in Controllers, Unlock(c)
    PROVE  IInv'
<1> USE DEF Unlock
<1>1. operation_mutex = c /\ holder_pc = "unlock"
  BY Holder DEF IInv
<1>2. /\ kpc' \in [Controllers -> ControllerPC]
      /\ holder_pc' = "idle"
      /\ LockInv'
  <2>1. kpc' = [kpc EXCEPT ![c] = "idle"] /\ kpc \in [Controllers -> ControllerPC]
    BY DEF GoTo, IInv, TypeOK
  <2>2. \A d \in Controllers : kpc'[d] = "idle"
    BY <1>1, <2>1 DEF IInv, LockInv
  <2> QED
    BY <2>1, <2>2, CoreAssumption DEF LockInv, holder_pc, ControllerPC
<1>3. CountInv' /\ OwnerInv' /\ Quiet' = Quiet
  BY FrameInv DEF IInv, Frame, threadVars
<1>4. UNCHANGED <<enable, enabled_flag, event_message_queue, processor_thread, rpc,
                  popped, live, metrics_map, dump, mq_size>>
  BY DEF threadVars, queueVars, heapVars, metricVars
<1>5. TypeOK'
  BY <1>2 DEF IInv, TypeOK, threadVars, queueVars, heapVars, producerVars, metricVars
<1>6. SwitchInv' /\ ThreadInv' /\ SessionInv'
  <2> HIDE DEF Unlock
  <2> QED
    BY <1>1, <1>2, <1>3, <1>4 DEF IInv, SwitchInv, ThreadInv, SessionInv, FinalizePC
<1> QED
  BY <1>2, <1>3, <1>5, <1>6 DEF IInv

LEMMA ConfigJsonIInv ==
    ASSUME IInv, NEW c \in Controllers, ConfigJson(c)
    PROVE  IInv'
<1> USE DEF ConfigJson
<1>1. holder_pc = "idle" /\ holder_pc' = "idle" /\ LockInv'
  BY DEF holder_pc, IInv, LockInv
<1>2. CountInv' /\ OwnerInv' /\ Quiet' = Quiet
  BY FrameInv DEF IInv, Frame, threadVars
<1>3. ~enabled_flag
  BY DEF is_enabled, IInv, SwitchInv
<1>4. UNCHANGED <<enabled_flag, event_message_queue, processor_thread, rpc,
                  popped, live, metrics_map, dump, mq_size>>
  BY DEF threadVars, queueVars, heapVars, metricVars
<1>5. TypeOK'
  BY DEF IInv, TypeOK, threadVars, queueVars, heapVars, producerVars, metricVars
<1>6. SwitchInv' /\ ThreadInv' /\ SessionInv'
  <2> HIDE DEF ConfigJson
  <2> QED
    BY <1>1, <1>2, <1>3, <1>4 DEF IInv, SwitchInv, ThreadInv, SessionInv, FinalizePC
<1> QED
  BY <1>1, <1>2, <1>5, <1>6 DEF IInv

\* An initialize() that gets this far finds nothing of an earlier session, so
\* that it changes neither the queue nor the dump.
LEMMA InitComponentsIInv ==
    ASSUME IInv, NEW c \in Controllers, InitComponents(c)
    PROVE  IInv'
<1> USE DEF InitComponents
<1> DEFINE l == IF enable THEN "enable" ELSE "unlock"
<1>1. /\ kpc' \in [Controllers -> ControllerPC]
      /\ holder_pc = "init" /\ holder_pc' = l
      /\ LockInv'
  BY Holder, HolderMoves DEF IInv, ControllerPC, FinalizePC
<1>2. ~enabled_flag /\ live = {} /\ metrics_map = {} /\ dump = {}
  BY <1>1 DEF IInv, SwitchInv, SessionInv
<1>3. q = <<>> /\ mq_size = 0
  BY <1>2, NoEvents DEF IInv
<1>4. /\ event_message_queue' = TRUE
      /\ UNCHANGED <<enable, enabled_flag, processor_thread, rpc, popped, q, mq_size,
                     live, dest, ppc, msg, metrics_map, dump>>
  BY <1>2, <1>3 DEF threadVars, heapVars, producerVars
<1>5. TypeOK'
  BY <1>1, <1>4 DEF IInv, TypeOK
<1>6. CountInv'
  BY <1>4 DEF IInv, CountInv, Uncounted
<1>7. OwnerInv' /\ Quiet' = Quiet
  BY <1>4 DEF IInv, OwnerInv, NoLeak, Queued, Quiet
<1>8. SwitchInv' /\ ThreadInv' /\ SessionInv'
  <2> HIDE DEF InitComponents
  <2> QED
    BY <1>1, <1>2, <1>4, <1>7 DEF IInv, SwitchInv, ThreadInv, SessionInv, FinalizePC
<1> QED
  BY <1>1, <1>5, <1>6, <1>7, <1>8 DEF IInv

\* Taking the oldest message out of a queue of distinct messages.
LEMMA TakeFacts ==
    ASSUME TypeOK, OwnerInv, q # <<>>, q' = Tail(q)
    PROVE  /\ Head(q) \in Messages /\ Head(q) \in Queued
           /\ q' \in Seq(Messages) /\ Len(q) \in Nat /\ Len(q') = Len(q) - 1
           /\ \A i, j \in 1 .. Len(q') : q'[i] = q'[j] => i = j
           /\ Queued' = Queued \ {Head(q)}
<1>1. /\ q \in Seq(Messages) /\ Len(q) \in Nat \ {0}
      /\ q' \in Seq(Messages) /\ Len(q') = Len(q) - 1
      /\ \A i \in 1 .. Len(q) - 1 : q'[i] = q[i + 1]
      /\ Head(q) = q[1]
  BY DEF TypeOK
<1>2. \A i, j \in 1 .. Len(q) : q[i] = q[j] => i = j
  BY DEF OwnerInv
<1>3. 1 \in 1 .. Len(q) /\ q[1] \in Messages
  BY <1>1
<1>4. Queued' \subseteq Queued \ {Head(q)}
  <2> SUFFICES ASSUME NEW i \in 1 .. Len(q') PROVE q'[i] \in Queued /\ q'[i] # Head(q)
    BY DEF Queued
  <2>1. i + 1 \in 1 .. Len(q) /\ q'[i] = q[i + 1]
    BY <1>1
  <2> QED
    BY <1>1, <1>2, <1>3, <2>1 DEF Queued
<1>5. ASSUME NEW x \in Queued, x # Head(q) PROVE x \in Queued'
  <2>1. PICK i \in 1 .. Len(q) : q[i] = x
    BY DEF Queued
  <2>2. i - 1 \in 1 .. Len(q') /\ q'[i - 1] = q[(i - 1) + 1]
    BY <1>1, <1>5, <2>1
  <2> QED
    BY <2>1, <2>2 DEF Queued
<1>6. \A i, j \in 1 .. Len(q') : q'[i] = q'[j] => i = j
  BY <1>1, <1>2
<1> QED
  BY <1>1, <1>3, <1>4, <1>5, <1>6 DEF Queued

LEMMA DrainIInv ==
    ASSUME IInv, NEW c \in Controllers, Drain(c)
    PROVE  IInv'
<1>1. operation_mutex = c /\ operation_mutex # free /\ holder_pc = "drain"
  BY Holder DEF IInv, Drain
<1>2. /\ Quiet /\ ~enabled_flag /\ metrics_map = {}
      /\ processor_thread # "running" /\ rpc = "loop" /\ popped = nullptr
  BY <1>1 DEF IInv, SwitchInv, ThreadInv, SessionInv, FinalizePC
<1>3. /\ UNCHANGED <<enable, enabled_flag, operation_mutex, processor_thread, rpc, popped,
                     event_message_queue, dest, ppc, msg, metrics_map, dump>>
  BY DEF Drain, threadVars, producerVars, metricVars
<1>4. CASE mq_size # 0 /\ CanPop /\ q' = Tail(q) /\ mq_size' = mq_size - 1
           /\ live' = live \ {Head(q)} /\ UNCHANGED kpc
  <2>1. /\ q # <<>>
        /\ Head(q) \in Messages /\ Head(q) \in Queued
        /\ q' \in Seq(Messages) /\ Len(q) \in Nat /\ Len(q') = Len(q) - 1
        /\ \A i, j \in 1 .. Len(q') : q'[i] = q'[j] => i = j
        /\ Queued' = Queued \ {Head(q)}
    BY <1>4, TakeFacts DEF IInv, CanPop
  <2>2. holder_pc' = "drain" /\ LockInv'
    BY <1>1, <1>3, <1>4 DEF holder_pc, IInv, LockInv
  <2>3. TypeOK'
    BY <1>3, <1>4, <2>1 DEF IInv, TypeOK
  <2>4. CountInv'
    <3>1. Uncounted' = Uncounted
      BY <1>3 DEF Uncounted
    <3>2. ~event_message_queue' => q' = <<>>
      BY <1>3, <2>1 DEF IInv, CountInv
    <3> QED
      BY <1>2, <1>3, <1>4, <2>1, <3>1, <3>2, UncountedFinite DEF IInv, CountInv, TypeOK
  <2>5. OwnerInv'
    BY <1>2, <1>3, <1>4, <2>1 DEF IInv, OwnerInv, NoLeak, Quiet
  <2>6. SwitchInv' /\ ThreadInv' /\ SessionInv'
    BY <1>1, <1>2, <1>3, <2>2
    DEF IInv, SwitchInv, ThreadInv, SessionInv, FinalizePC, Quiet
  <2> QED
    BY <2>2, <2>3, <2>4, <2>5, <2>6 DEF IInv
<1>5. CASE mq_size = 0 /\ GoTo(c, "delete") /\ UNCHANGED <<q, mq_size, live>>
  <2>1. /\ kpc' \in [Controllers -> ControllerPC]
        /\ holder_pc' = "delete"
        /\ LockInv'
    BY <1>1, <1>3, <1>5, HolderMoves DEF IInv, LockInv, ControllerPC, FinalizePC
  <2>2. CountInv' /\ OwnerInv' /\ Quiet' = Quiet
    BY <1>3, <1>5, FrameInv
    DEF IInv, Frame, queueVars, heapVars, producerVars
  <2>3. TypeOK'
    BY <1>3, <1>5, <2>1 DEF IInv, TypeOK
  <2>4. SwitchInv' /\ ThreadInv' /\ SessionInv'
    BY <1>1, <1>2, <1>3, <1>5, <2>1, <2>2
    DEF IInv, SwitchInv, ThreadInv, SessionInv, FinalizePC
  <2> QED
    BY <2>1, <2>2, <2>3, <2>4 DEF IInv
<1> QED
  BY <1>4, <1>5 DEF Drain

\* finalize() relies on the counter, and the counter is right: without
\* measuring points and without the processor thread, a counter at zero means
\* that the queue which is deleted here is empty.
LEMMA DeleteQueueIInv ==
    ASSUME IInv, NEW c \in Controllers, DeleteQueue(c)
    PROVE  IInv'
<1> USE DEF DeleteQueue
<1>1. /\ kpc' \in [Controllers -> ControllerPC]
      /\ holder_pc = "delete" /\ holder_pc' = "dump"
      /\ LockInv'
  BY Holder, HolderMoves DEF IInv, ControllerPC, FinalizePC
<1>2. /\ Quiet /\ ~enabled_flag /\ metrics_map = {} /\ mq_size = 0
      /\ processor_thread # "running" /\ rpc = "loop" /\ popped = nullptr
  BY <1>1 DEF IInv, SwitchInv, ThreadInv, SessionInv, FinalizePC
<1>3. q = <<>>
  <2>1. Len(q) = 0
    BY <1>2, UncountedFinite DEF IInv, CountInv, TypeOK
  <2> QED
    BY <2>1 DEF IInv, TypeOK
<1>4. live = {}
  <2>1. Queued = {}
    BY <1>3 DEF Queued
  <2> QED
    BY <1>2, <2>1 DEF IInv, OwnerInv, NoLeak, Quiet
<1>5. /\ event_message_queue' = FALSE
      /\ UNCHANGED <<enable, enabled_flag, processor_thread, rpc, popped, q, mq_size,
                     live, dest, ppc, msg, metrics_map, dump>>
  BY <1>2, <1>3 DEF threadVars, heapVars, producerVars, metricVars
<1>6. TypeOK'
  BY <1>1, <1>5 DEF IInv, TypeOK
<1>7. CountInv'
  BY <1>2, <1>3, <1>5 DEF IInv, CountInv, Uncounted, Quiet
<1>8. OwnerInv' /\ Quiet' = Quiet
  BY <1>5 DEF IInv, OwnerInv, NoLeak, Queued, Quiet
<1>9. SwitchInv' /\ ThreadInv' /\ SessionInv'
  <2> HIDE DEF DeleteQueue
  <2> QED
    BY <1>1, <1>2, <1>4, <1>5, <1>8 DEF IInv, SwitchInv, ThreadInv, SessionInv, FinalizePC
<1> QED
  BY <1>1, <1>6, <1>7, <1>8, <1>9 DEF IInv

-----------------------------------------------------------------------------
(* The processor thread. *)

\* While the processor thread runs the library has its queue, and finalize()
\* has not got past the join.
LEMMA Running ==
    ASSUME IInv, processor_thread = "running"
    PROVE  /\ event_message_queue
           /\ holder_pc \in {"idle", "unlock", "disable", "join"}
           /\ enabled_flag \/ holder_pc = "join"
  BY DEF IInv, ThreadInv

\* The processor thread does not touch the configuration.
LEMMA ProcessorFrame ==
    ASSUME IInv, ProcessorUnchanged
    PROVE  /\ UNCHANGED <<enable, enabled_flag, operation_mutex, kpc, ppc, msg,
                          event_message_queue, dest>>
           /\ LockInv' /\ SwitchInv'
           /\ holder_pc' = holder_pc /\ Uncounted' = Uncounted
<1> USE DEF ProcessorUnchanged, configVars, producerVars
<1>1. LockInv' /\ holder_pc' = holder_pc /\ Quiet' = Quiet
  BY DEF IInv, LockInv, holder_pc, Quiet
<1> QED
  BY <1>1 DEF IInv, SwitchInv, Uncounted

LEMMA LoopTestIInv ==
    ASSUME IInv, LoopTest
    PROVE  IInv'
<1> USE DEF LoopTest
<1>1. /\ UNCHANGED <<enable, enabled_flag, operation_mutex, kpc, ppc, msg,
                     event_message_queue, dest>>
      /\ LockInv' /\ SwitchInv'
      /\ holder_pc' = holder_pc /\ Uncounted' = Uncounted
  BY ProcessorFrame
<1>2. /\ UNCHANGED <<popped, q, mq_size, live, metrics_map, dump>>
      /\ processor_thread = "running" /\ rpc = "loop"
      /\ \/ ~is_enabled /\ processor_thread' = "exited" /\ rpc' = rpc
         \/ /\ rpc' = (IF mq_size # 0 THEN "pop" ELSE "update")
            /\ processor_thread' = processor_thread
  BY DEF metricVars
<1> HIDE DEF LoopTest
<1>3. TypeOK'
  BY <1>1, <1>2 DEF IInv, TypeOK, ProcessorPC
<1>4. ThreadInv'
  BY <1>1, <1>2, Running DEF IInv, ThreadInv, SwitchInv, is_enabled
<1>5. CountInv'
  BY <1>1, <1>2 DEF IInv, CountInv
<1>6. OwnerInv'
  BY <1>1, <1>2 DEF IInv, OwnerInv, NoLeak, Queued
<1>7. SessionInv'
  BY <1>1, <1>2 DEF IInv, SessionInv
<1> QED
  BY <1>1, <1>3, <1>4, <1>5, <1>6, <1>7 DEF IInv

LEMMA PopIInv ==
    ASSUME IInv, Pop
    PROVE  IInv'
<1> USE DEF Pop
<1>1. /\ UNCHANGED <<enable, enabled_flag, operation_mutex, kpc, ppc, msg,
                     event_message_queue, dest>>
      /\ LockInv' /\ SwitchInv'
      /\ holder_pc' = holder_pc /\ Uncounted' = Uncounted
  BY ProcessorFrame
<1>2. /\ UNCHANGED <<processor_thread, mq_size, live, metrics_map, dump>>
      /\ processor_thread = "running" /\ rpc = "pop"
      /\ popped = nullptr
  BY DEF metricVars, IInv, ThreadInv
<1>3. SessionInv'
  BY <1>1, <1>2 DEF IInv, SessionInv
<1>4. CASE /\ CanPop
           /\ popped' = Head(q) /\ q' = Tail(q)
           /\ rpc' = "decrement"
  <2>1. /\ q # <<>>
        /\ Head(q) \in Messages /\ Head(q) \in Queued
        /\ q' \in Seq(Messages) /\ Len(q) \in Nat /\ Len(q') = Len(q) - 1
        /\ \A i, j \in 1 .. Len(q') : q'[i] = q'[j] => i = j
        /\ Queued' = Queued \ {Head(q)}
    BY <1>4, TakeFacts DEF IInv, CanPop
  <2>2. popped' \in Messages /\ popped' # nullptr
    BY <1>4, <2>1, CoreAssumption
  <2>3. TypeOK'
    BY <1>1, <1>2, <1>4, <2>1 DEF IInv, TypeOK, ProcessorPC
  <2>4. ThreadInv'
    BY <1>1, <1>2, <1>4, <2>2 DEF IInv, ThreadInv
  <2>5. CountInv'
    <3>1. mq_size' + Cardinality(Uncounted') = Len(q') + 1
      BY <1>1, <1>2, <2>1, UncountedFinite DEF IInv, CountInv, TypeOK
    <3>2. event_message_queue' /\ mq_size' # 0
      BY <1>1, <1>2, Running DEF IInv, CountInv
    <3> QED
      BY <1>1, <1>4, <3>1, <3>2 DEF CountInv
  <2>6. OwnerInv'
    <3>1. NoLeak'
      BY <1>1, <1>2, <1>4, <2>1, <2>2 DEF IInv, OwnerInv, NoLeak
    <3>2. \A p \in Producers : ppc[p] = "push" =>
             msg[p] \notin Queued' /\ msg[p] # popped'
      BY <1>4, <2>1 DEF IInv, OwnerInv
    <3> QED
      BY <1>1, <1>4, <2>1, <3>1, <3>2 DEF IInv, OwnerInv
  <2> QED
    BY <1>1, <1>3, <2>3, <2>4, <2>5, <2>6 DEF IInv
<1>5. CASE CanPopNull /\ rpc' = "update" /\ UNCHANGED <<popped, q>>
  <2>1. TypeOK' /\ ThreadInv'
    BY <1>1, <1>2, <1>5 DEF IInv, TypeOK, ProcessorPC, ThreadInv
  <2>2. CountInv'
    BY <1>1, <1>2, <1>5 DEF IInv, CountInv
  <2>3. OwnerInv'
    BY <1>1, <1>2, <1>5 DEF IInv, OwnerInv, NoLeak, Queued
  <2> QED
    BY <1>1, <1>3, <2>1, <2>2, <2>3 DEF IInv
<1> QED
  BY <1>4, <1>5

LEMMA DecrementIInv ==
    ASSUME IInv, Decrement
    PROVE  IInv'
<1> USE DEF Decrement
<1>1. /\ UNCHANGED <<enable, enabled_flag, operation_mutex, kpc, ppc, msg,
                     event_message_queue, dest>>
      /\ LockInv' /\ SwitchInv'
      /\ holder_pc' = holder_pc /\ Uncounted' = Uncounted
  BY ProcessorFrame
<1>2. /\ UNCHANGED <<processor_thread, popped, q, live, metrics_map, dump>>
      /\ processor_thread = "running" /\ rpc = "decrement"
      /\ mq_size' = mq_size - 1 /\ rpc' = "process"
  BY DEF metricVars
<1> HIDE DEF Decrement
<1>3. mq_size \in Nat /\ mq_size # 0 /\ q \in Seq(Messages) /\ Len(q) \in Nat
  BY <1>2 DEF IInv, TypeOK, CountInv
<1>4. TypeOK' /\ ThreadInv'
  BY <1>1, <1>2, <1>3 DEF IInv, TypeOK, ProcessorPC, ThreadInv
<1>5. CountInv'
  <2>1. mq_size' + Cardinality(Uncounted') = Len(q')
    BY <1>1, <1>2, <1>3, UncountedFinite DEF IInv, CountInv
  <2> QED
    BY <1>1, <1>2, <2>1 DEF IInv, CountInv
<1>6. OwnerInv'
  BY <1>1, <1>2 DEF IInv, OwnerInv, NoLeak, Queued
<1>7. SessionInv'
  BY <1>1, <1>2, Running DEF IInv, SessionInv
<1> QED
  BY <1>1, <1>4, <1>5, <1>6, <1>7 DEF IInv

LEMMA ProcessMessageIInv ==
    ASSUME IInv, ProcessMessage
    PROVE  IInv'
<1> USE DEF ProcessMessage
<1>1. /\ UNCHANGED <<enable, enabled_flag, operation_mutex, kpc, ppc, msg,
                     event_message_queue, dest>>
      /\ LockInv' /\ SwitchInv'
      /\ holder_pc' = holder_pc /\ Uncounted' = Uncounted
  BY ProcessorFrame
<1>2. /\ UNCHANGED <<processor_thread, q, mq_size, dump>>
      /\ processor_thread = "running" /\ rpc = "process"
      /\ metrics_map' = metrics_map \cup {dest[popped]}
      /\ live' = live \ {popped}
      /\ popped' = nullptr
      /\ rpc' = "update"
  OBVIOUS
<1> HIDE DEF ProcessMessage
<1>3. popped \in Messages /\ popped # nullptr /\ dest[popped] \in Names
  BY <1>2 DEF IInv, TypeOK, ThreadInv
<1>4. popped \in live
  BY <1>3 DEF IInv, OwnerInv, NoLeak
<1>5. TypeOK'
  BY <1>1, <1>2, <1>3 DEF IInv, TypeOK, ProcessorPC
<1>6. ThreadInv'
  BY <1>1, <1>2 DEF IInv, ThreadInv
<1>7. CountInv'
  BY <1>1, <1>2 DEF IInv, CountInv
<1>8. OwnerInv'
  <2>1. Queued' = Queued
    BY <1>2 DEF Queued
  <2>2. nullptr \notin Queued
    BY CoreAssumption DEF IInv, TypeOK, Queued
  <2>3. \A p \in Producers : ppc[p] = "push" => msg[p] # nullptr
    BY CoreAssumption DEF IInv, OwnerInv
  <2>4. NoLeak'
    BY <1>1, <1>2, <2>1 DEF IInv, OwnerInv, NoLeak
  <2> QED
    BY <1>1, <1>2, <2>1, <2>2, <2>3, <2>4 DEF IInv, OwnerInv
<1>9. SessionInv'
  BY <1>1, <1>2, <1>4, Running DEF IInv, SessionInv
<1> QED
  BY <1>1, <1>5, <1>6, <1>7, <1>8, <1>9 DEF IInv

LEMMA UpdateDumpIInv ==
    ASSUME IInv, UpdateDump
    PROVE  IInv'
<1> USE DEF UpdateDump
<1>1. /\ UNCHANGED <<enable, enabled_flag, operation_mutex, kpc, ppc, msg,
                     event_message_queue, dest>>
      /\ LockInv' /\ SwitchInv'
      /\ holder_pc' = holder_pc /\ Uncounted' = Uncounted
  BY ProcessorFrame
<1>2. /\ UNCHANGED <<processor_thread, popped, q, mq_size, live, metrics_map>>
      /\ processor_thread = "running" /\ rpc = "update" /\ rpc' = "loop"
      /\ dump' \in {dump, metrics_map}
  OBVIOUS
<1> HIDE DEF UpdateDump
<1>3. TypeOK' /\ ThreadInv'
  BY <1>1, <1>2 DEF IInv, TypeOK, ProcessorPC, ThreadInv
<1>4. CountInv'
  BY <1>1, <1>2 DEF IInv, CountInv
<1>5. OwnerInv'
  BY <1>1, <1>2 DEF IInv, OwnerInv, NoLeak, Queued
<1>6. SessionInv'
  BY <1>1, <1>2, Running DEF IInv, SessionInv
<1> QED
  BY <1>1, <1>3, <1>4, <1>5, <1>6 DEF IInv

-----------------------------------------------------------------------------
(* The measuring points. *)

\* A step of a measuring point leaves the controllers, the processor thread
\* and the metrics alone.
PointFrame == UNCHANGED <<configVars, threadVars, event_message_queue, metricVars>>

\* Only a measuring point that is inside changes events, and finalize() has
\* excluded those.
LEMMA PointInv ==
    ASSUME IInv, PointFrame,
           holder_pc \notin FinalizePC,
           live' = live \/ enabled_flag
    PROVE  LockInv' /\ SwitchInv' /\ ThreadInv' /\ SessionInv'
           /\ holder_pc' = holder_pc
<1> USE DEF PointFrame, configVars, threadVars, metricVars
<1>1. LockInv' /\ holder_pc' = holder_pc
  BY DEF IInv, LockInv, holder_pc
<1>2. SwitchInv' /\ ThreadInv'
  BY <1>1 DEF IInv, SwitchInv, ThreadInv
<1>3. SessionInv'
  BY <1>1 DEF IInv, SessionInv, FinalizePC
<1> QED
  BY <1>1, <1>2, <1>3

\* A thread inside a measuring point keeps finalize() out.
LEMMA PointExcludesFinalize ==
    ASSUME IInv, NEW p \in Producers, ppc[p] # "idle"
    PROVE  holder_pc \notin FinalizePC
  BY DEF IInv, SwitchInv, Quiet

LEMMA ReadEnableIInv ==
    ASSUME IInv, NEW p \in Producers, ReadEnable(p)
    PROVE  IInv'
<1> USE DEF ReadEnable
<1>1. holder_pc \notin FinalizePC
  BY PCs DEF Finalizing, holder_pc, IInv, TypeOK
<1>2. /\ UNCHANGED <<configVars, threadVars, queueVars, heapVars, msg, metricVars>>
      /\ ppc[p] = "idle" /\ ppc' = [ppc EXCEPT ![p] = "flag"]
  OBVIOUS
<1>3. LockInv' /\ SwitchInv' /\ ThreadInv' /\ SessionInv'
  BY <1>1, <1>2, PointInv DEF PointFrame, queueVars, heapVars
<1>4. TypeOK'
  BY <1>2 DEF IInv, TypeOK, configVars, threadVars, queueVars, heapVars, metricVars,
              ProducerPC
<1>5. \A r \in Producers : ppc'[r] = IF r = p THEN "flag" ELSE ppc[r]
  BY <1>2 DEF IInv, TypeOK
<1>6. CountInv'
  <2>1. Uncounted' = Uncounted
    BY <1>2, <1>5 DEF Uncounted
  <2> QED
    BY <1>2, <1>5, <2>1 DEF IInv, CountInv, queueVars, threadVars
<1>7. OwnerInv'
  <2>1. {r \in Producers : ppc'[r] = "push"} = {r \in Producers : ppc[r] = "push"}
    BY <1>2, <1>5
  <2>2. NoLeak' /\ Queued' = Queued
    BY <1>2, <2>1 DEF IInv, OwnerInv, NoLeak, Queued, threadVars, queueVars, heapVars
  <2> QED
    BY <1>2, <1>5, <2>2 DEF IInv, OwnerInv, threadVars, queueVars
<1> QED
  BY <1>3, <1>4, <1>6, <1>7 DEF IInv

LEMMA ReadFlagIInv ==
    ASSUME IInv, NEW p \in Producers, ReadFlag(p)
    PROVE  IInv'
<1>1. /\ UNCHANGED <<configVars, threadVars, queueVars, metricVars>>
      /\ ppc[p] = "flag"
  BY DEF ReadFlag
<1>2. holder_pc \notin FinalizePC
  BY <1>1, PointExcludesFinalize
<1>3. live' = live \/ enabled_flag
  BY DEF ReadFlag, heapVars
<1>4. LockInv' /\ SwitchInv' /\ ThreadInv' /\ SessionInv'
  BY <1>1, <1>2, <1>3, PointInv DEF PointFrame, queueVars
<1>5. CASE /\ enabled_flag
           /\ \E n \in Messages \ live, a \in Names :
                 /\ live' = live \cup {n}
                 /\ dest' = [dest EXCEPT ![n] = a]
                 /\ msg' = [msg EXCEPT ![p] = n]
           /\ ppc' = [ppc EXCEPT ![p] = "push"]
  <2>1. PICK n \in Messages \ live, a \in Names :
                 /\ live' = live \cup {n}
                 /\ dest' = [dest EXCEPT ![n] = a]
                 /\ msg' = [msg EXCEPT ![p] = n]
    BY <1>5
  <2>2. /\ ppc'[p] = "push" /\ msg'[p] = n
        /\ \A r \in Producers : r # p => ppc'[r] = ppc[r] /\ msg'[r] = msg[r]
    BY <1>5, <2>1 DEF IInv, TypeOK
  <2>3. TypeOK'
    BY <1>1, <1>5, <2>1
    DEF IInv, TypeOK, configVars, threadVars, queueVars, metricVars, ProducerPC
  <2>4. CountInv'
    <3>1. Uncounted' = Uncounted
      BY <1>1, <2>2 DEF Uncounted
    <3>2. event_message_queue
      BY <1>5 DEF IInv, SwitchInv
    <3> QED
      BY <1>1, <3>1, <3>2 DEF IInv, CountInv, queueVars, threadVars
  <2>5. n \notin Queued /\ n # popped /\ n \in Messages
        /\ \A r \in Producers : ppc[r] = "push" => msg[r] # n
    BY CoreAssumption DEF IInv, OwnerInv, NoLeak
  <2>6. Queued' = Queued /\ q' = q /\ popped' = popped
    BY <1>1 DEF Queued, queueVars, threadVars
  <2>7. NoLeak'
    <3>1. {r \in Producers : ppc'[r] = "push"} = {r \in Producers : ppc[r] = "push"} \cup {p}
      BY <2>2
    <3>2. p \notin {r \in Producers : ppc[r] = "push"}
      BY <1>1
    <3>3. {msg'[r] : r \in {s \in Producers : ppc'[s] = "push"}}
            = {msg[r] : r \in {s \in Producers : ppc[s] = "push"}} \cup {n}
      BY <2>2, <3>1, <3>2
    <3> QED
      BY <2>1, <2>6, <3>3 DEF IInv, OwnerInv, NoLeak
  <2>8. OwnerInv'
    BY <2>2, <2>5, <2>6, <2>7 DEF IInv, OwnerInv
  <2> QED
    BY <1>4, <2>3, <2>4, <2>8 DEF IInv
<1>6. CASE /\ ~enabled_flag
           /\ ppc' = [ppc EXCEPT ![p] = "idle"]
           /\ UNCHANGED <<heapVars, msg>>
  <2>1. \A r \in Producers : ppc'[r] = IF r = p THEN "idle" ELSE ppc[r]
    BY <1>6 DEF IInv, TypeOK
  <2>2. TypeOK'
    BY <1>1, <1>6
    DEF IInv, TypeOK, configVars, threadVars, queueVars, heapVars, metricVars, ProducerPC
  <2>3. CountInv'
    <3>1. Uncounted' = Uncounted
      BY <1>1, <2>1 DEF Uncounted
    <3> QED
      BY <1>1, <2>1, <3>1 DEF IInv, CountInv, queueVars, threadVars
  <2>4. OwnerInv'
    <3>1. {r \in Producers : ppc'[r] = "push"} = {r \in Producers : ppc[r] = "push"}
      BY <1>1, <2>1
    <3>2. NoLeak' /\ Queued' = Queued
      BY <1>1, <1>6, <3>1 DEF IInv, OwnerInv, NoLeak, Queued, threadVars, queueVars, heapVars
    <3> QED
      BY <1>1, <1>6, <2>1, <3>2 DEF IInv, OwnerInv, threadVars, queueVars
  <2> QED
    BY <1>4, <2>2, <2>3, <2>4 DEF IInv
<1> QED
  BY <1>5, <1>6 DEF ReadFlag

\* The queue is there: a measuring point that saw the library enabled cannot
\* be overtaken by finalize().
LEMMA PushExchangeIInv ==
    ASSUME IInv, NEW p \in Producers, PushExchange(p)
    PROVE  IInv'
<1>1. event_message_queue
  BY DEF PushExchange, IInv, CountInv
<1>2. /\ UNCHANGED <<configVars, threadVars, event_message_queue, mq_size,
                     heapVars, metricVars, msg>>
      /\ ppc[p] = "push" /\ ppc' = [ppc EXCEPT ![p] = "link"]
      /\ q' = Append(q, msg[p])
  BY <1>1 DEF PushExchange
<1>3. holder_pc \notin FinalizePC
  BY <1>2, PointExcludesFinalize
<1>4. LockInv' /\ SwitchInv' /\ ThreadInv' /\ SessionInv'
  BY <1>2, <1>3, PointInv DEF PointFrame, heapVars, IInv, TypeOK
<1>5. /\ ppc'[p] = "link" /\ \A r \in Producers : r # p => ppc'[r] = ppc[r]
  BY <1>2 DEF IInv, TypeOK
<1>6. msg[p] \in Messages /\ msg[p] \notin Queued /\ msg[p] # popped
  BY <1>2 DEF IInv, OwnerInv
<1>7. /\ q \in Seq(Messages) /\ Len(q) \in Nat
      /\ q' \in Seq(Messages) /\ Len(q') = Len(q) + 1
      /\ \A i \in 1 .. Len(q) : q'[i] = q[i]
      /\ q'[Len(q) + 1] = msg[p]
  BY <1>2, <1>6 DEF IInv, TypeOK
<1>8. Queued' = Queued \cup {msg[p]}
  BY <1>7 DEF Queued
<1>9. TypeOK'
  BY <1>2, <1>7
  DEF IInv, TypeOK, configVars, threadVars, heapVars, metricVars, ProducerPC
<1>10. CountInv'
  <2>1. Uncounted' = Uncounted \cup {p} /\ p \notin Uncounted
    BY <1>2, <1>5 DEF Uncounted
  <2>2. Cardinality(Uncounted') = Cardinality(Uncounted) + 1
    BY <2>1, UncountedFinite, FS_AddElement
  <2>3. mq_size' + Cardinality(Uncounted')
          = Len(q') + (IF rpc' = "decrement" THEN 1 ELSE 0)
    BY <1>2, <1>7, <2>2, UncountedFinite DEF IInv, CountInv, TypeOK, threadVars
  <2> QED
    BY <1>1, <1>2, <2>3 DEF IInv, CountInv, threadVars
<1>11. OwnerInv'
  <2>1. \A i, j \in 1 .. Len(q') : q'[i] = q'[j] => i = j
    <3>1. \A i \in 1 .. Len(q) : q[i] # msg[p]
      BY <1>6 DEF Queued
    <3>2. \A i, j \in 1 .. Len(q) : q[i] = q[j] => i = j
      BY DEF IInv, OwnerInv
    <3> QED
      BY <1>7, <3>1, <3>2
  <2>2. NoLeak'
    <3>1. {r \in Producers : ppc'[r] = "push"} = {r \in Producers : ppc[r] = "push"} \ {p}
      BY <1>2, <1>5
    <3>2. {msg[r] : r \in {s \in Producers : ppc[s] = "push"}}
            = {msg[r] : r \in {s \in Producers : ppc'[s] = "push"}} \cup {msg[p]}
      BY <1>2, <3>1
    <3> QED
      BY <1>2, <1>8, <3>2 DEF IInv, OwnerInv, NoLeak, heapVars, threadVars
  <2>3. \A r \in Producers : ppc'[r] = "push" => ppc[r] = "push" /\ msg[r] # msg[p]
    BY <1>2, <1>5 DEF IInv, OwnerInv
  <2> QED
    BY <1>2, <1>6, <1>8, <2>1, <2>2, <2>3 DEF IInv, OwnerInv, threadVars
<1> QED
  BY <1>4, <1>9, <1>10, <1>11 DEF IInv

LEMMA PushLinkIInv ==
    ASSUME IInv, NEW p \in Producers, PushLink(p)
    PROVE  IInv'
<1>1. /\ UNCHANGED <<configVars, threadVars, queueVars, heapVars, metricVars>>
      /\ ppc[p] = "link" /\ ppc' = [ppc EXCEPT ![p] = "count"]
      /\ msg' = [msg EXCEPT ![p] = nullptr]
  BY DEF PushLink
<1>2. holder_pc \notin FinalizePC
  BY <1>1, PointExcludesFinalize
<1>3. LockInv' /\ SwitchInv' /\ ThreadInv' /\ SessionInv'
  BY <1>1, <1>2, PointInv DEF PointFrame, queueVars, heapVars
<1>4. /\ ppc'[p] = "count"
      /\ \A r \in Producers : r # p => ppc'[r] = ppc[r] /\ msg'[r] = msg[r]
  BY <1>1 DEF IInv, TypeOK
<1>5. TypeOK'
  BY <1>1
  DEF IInv, TypeOK, configVars, threadVars, queueVars, heapVars, metricVars, ProducerPC
<1>6. CountInv'
  <2>1. Uncounted' = Uncounted
    BY <1>1, <1>4 DEF Uncounted
  <2> QED
    BY <1>1, <1>4, <2>1 DEF IInv, CountInv, queueVars, threadVars
<1>7. OwnerInv'
  <2>1. \A r \in Producers : ppc'[r] = "push" <=> ppc[r] = "push"
    BY <1>1, <1>4
  <2>2. \A r \in Producers : ppc[r] = "push" => msg'[r] = msg[r]
    BY <1>1, <1>4
  <2>3. {msg'[r] : r \in {s \in Producers : ppc'[s] = "push"}}
            = {msg[r] : r \in {s \in Producers : ppc[s] = "push"}}
    BY <2>1, <2>2
  <2>4. Queued' = Queued /\ q' = q /\ popped' = popped
    BY <1>1 DEF Queued, queueVars, threadVars
  <2>5. NoLeak'
    BY <1>1, <2>3, <2>4 DEF IInv, OwnerInv, NoLeak, heapVars
  <2> QED
    BY <2>1, <2>2, <2>4, <2>5 DEF IInv, OwnerInv
<1> QED
  BY <1>3, <1>5, <1>6, <1>7 DEF IInv

LEMMA PushCountIInv ==
    ASSUME IInv, NEW p \in Producers, PushCount(p)
    PROVE  IInv'
<1>1. /\ UNCHANGED <<configVars, threadVars, event_message_queue, q, heapVars,
                     msg, metricVars>>
      /\ ppc[p] = "count" /\ ppc' = [ppc EXCEPT ![p] = "idle"]
      /\ mq_size' = mq_size + 1
  BY DEF PushCount
<1>2. holder_pc \notin FinalizePC
  BY <1>1, PointExcludesFinalize
<1>3. LockInv' /\ SwitchInv' /\ ThreadInv' /\ SessionInv'
  BY <1>1, <1>2, PointInv DEF PointFrame, heapVars
<1>4. ppc'[p] = "idle" /\ \A r \in Producers : r # p => ppc'[r] = ppc[r]
  BY <1>1 DEF IInv, TypeOK
<1>5. TypeOK'
  BY <1>1
  DEF IInv, TypeOK, configVars, threadVars, heapVars, metricVars, ProducerPC
<1>6. CountInv'
  <2>1. Uncounted' = Uncounted \ {p} /\ p \in Uncounted
    BY <1>1, <1>4 DEF Uncounted
  <2>2. Cardinality(Uncounted') = Cardinality(Uncounted) - 1
    BY <2>1, UncountedFinite, FS_RemoveElement
  <2>3. mq_size \in Nat /\ Len(q) \in Nat
    BY DEF IInv, TypeOK
  <2>4. mq_size' + Cardinality(Uncounted')
          = Len(q') + (IF rpc' = "decrement" THEN 1 ELSE 0)
    BY <1>1, <2>2, <2>3, UncountedFinite DEF IInv, CountInv, threadVars
  <2> QED
    BY <1>1, <1>4, <2>3, <2>4 DEF IInv, CountInv, threadVars
<1>7. OwnerInv'
  <2>1. \A r \in Producers : ppc'[r] = "push" <=> ppc[r] = "push"
    BY <1>1, <1>4
  <2>2. {r \in Producers : ppc'[r] = "push"} = {r \in Producers : ppc[r] = "push"}
    BY <2>1
  <2>3. NoLeak' /\ Queued' = Queued
    BY <1>1, <2>2 DEF IInv, OwnerInv, NoLeak, Queued, heapVars, threadVars
  <2> QED
    BY <1>1, <2>1, <2>3 DEF IInv, OwnerInv, threadVars
<1> QED
  BY <1>3, <1>5, <1>6, <1>7 DEF IInv

-----------------------------------------------------------------------------
(* The theorems. *)

LEMMA NextIInv == IInv /\ [Next]_vars => IInv'
<1> SUFFICES ASSUME IInv, [Next]_vars PROVE IInv'
  OBVIOUS
<1>1. ASSUME NEW c \in Controllers, LockInitialize(c) \/ LockFinalize(c) \/ ConfigJson(c)
      PROVE  IInv'
  BY <1>1, LockInitializeIInv, LockFinalizeIInv, ConfigJsonIInv
<1>2. ASSUME NEW c \in Controllers, HoldingStep(c) PROVE IInv'
  <2>1. CASE InitComponents(c) \/ SetEnabled(c) \/ StartThread(c) \/ Unlock(c)
    BY <2>1, InitComponentsIInv, SetEnabledIInv, StartThreadIInv, UnlockIInv
  <2>2. CASE Disable(c) \/ Join(c) \/ FinalizeInternal(c)
    BY <2>2, DisableIInv, JoinIInv, FinalizeInternalIInv
  <2>3. CASE Drain(c) \/ DeleteQueue(c) \/ FinalizeDump(c) \/ FinalizeConfig(c)
    BY <2>3, DrainIInv, DeleteQueueIInv, FinalizeDumpIInv, FinalizeConfigIInv
  <2> QED
    BY <1>2, <2>1, <2>2, <2>3 DEF HoldingStep, FinalizeStep
<1>3. CASE ProcessorStep
  BY <1>3, LoopTestIInv, PopIInv, DecrementIInv, ProcessMessageIInv, UpdateDumpIInv
  DEF ProcessorStep
<1>4. ASSUME NEW p \in Producers, ReadEnable(p) \/ MeasuringPointStep(p)
      PROVE  IInv'
  BY <1>4, ReadEnableIInv, ReadFlagIInv, PushExchangeIInv, PushLinkIInv, PushCountIInv
  DEF MeasuringPointStep
<1>5. CASE UNCHANGED vars
  <2> USE <1>5 DEF vars, configVars, threadVars, queueVars, heapVars, producerVars,
                  metricVars
  <2>1. CountInv' /\ OwnerInv' /\ Quiet' = Quiet
    BY FrameInv DEF IInv, Frame
  <2>2. TypeOK' /\ LockInv' /\ holder_pc' = holder_pc
    BY DEF IInv, TypeOK, LockInv, holder_pc
  <2>3. SwitchInv' /\ ThreadInv' /\ SessionInv'
    BY <2>1, <2>2 DEF IInv, SwitchInv, ThreadInv, SessionInv
  <2> QED
    BY <2>1, <2>2, <2>3 DEF IInv
<1> QED
  BY <1>1, <1>2, <1>3, <1>4, <1>5 DEF Next

\* IInv holds in every reachable state: the flags, the processor thread, the
\* queue, its counter and the metrics agree with the place where the holder of
\* operation_mutex is (initialize() and finalize(), core.cpp:83-116).
THEOREM Invariance == Spec => []IInv
<1>1. Init => IInv
  BY InitIInv
<1>2. IInv /\ [Next]_vars => IInv'
  BY NextIInv
<1> QED
  BY <1>1, <1>2, PTL DEF Spec

\* All variables keep their types; mq_size never goes below zero, although
\* pop() decrements it apart from its test (message_queue.cpp:179).
THEOREM TypeCorrect == Spec => []TypeOK
<1>1. IInv => TypeOK
  BY DEF IInv
<1> QED
  BY <1>1, Invariance, PTL

\* No thread uses what finalize() has destroyed (message_queue.cpp:165,
\* core.cpp:108-113).
THEOREM NoUseAfterDeleteHolds == Spec => []NoUseAfterDelete
<1>1. IInv => NoUseAfterDelete
  <2> SUFFICES ASSUME IInv PROVE NoUseAfterDelete
    OBVIOUS
  <2>1. ASSUME processor_thread = "running", NEW c \in Controllers
        PROVE  kpc[c] \notin {"internal", "drain", "delete", "dump", "config"}
    <3>1. holder_pc \in {"idle", "unlock", "disable", "join"}
      BY <2>1, Running
    <3>2. kpc[c] # "idle" => kpc[c] = holder_pc
      BY Holder DEF IInv
    <3> QED
      BY <3>1, <3>2
  <2> QED
    BY <2>1, Running DEF NoUseAfterDelete, IInv, CountInv
<1> QED
  BY <1>1, Invariance, PTL

\* Every allocated event is in exactly one place, so finalize() leaks none
\* when it drains the queue by its counter (message_queue.cpp:210-218).
THEOREM NoLeakHolds == Spec => []NoLeak
<1>1. IInv => NoLeak
  BY DEF IInv, OwnerInv
<1> QED
  BY <1>1, Invariance, PTL

\* An enabled library has its processor thread, and initialize() never assigns
\* to a joinable one (core.cpp:101).
THEOREM EnabledHasProcessorHolds == Spec => []EnabledHasProcessor
<1>1. IInv => EnabledHasProcessor
  <2> SUFFICES ASSUME IInv PROVE EnabledHasProcessor
    OBVIOUS
  <2>1. operation_mutex = free => holder_pc = "idle"
    BY DEF holder_pc
  <2>2. \A c \in Controllers : kpc[c] = "start" => holder_pc = "start"
    BY Holder DEF IInv
  <2> QED
    BY <2>1, <2>2 DEF EnabledHasProcessor, joinable, IInv, SwitchInv, ThreadInv
<1> QED
  BY <1>1, Invariance, PTL

\* A session starts without anything of an earlier one, whatever calls of
\* initialize(), finalize() and config_json() came before (core.cpp:83-116).
THEOREM CleanSessionHolds == Spec => []CleanSession
<1>1. IInv => CleanSession
  <2> SUFFICES ASSUME IInv, NEW c \in Controllers, kpc[c] = "enable"
               PROVE  /\ q = <<>> /\ mq_size = 0 /\ live = {}
                      /\ metrics_map = {} /\ dump = {}
    BY DEF CleanSession
  <2>1. holder_pc = "enable"
    BY Holder DEF IInv
  <2>2. live = {} /\ metrics_map = {} /\ dump = {}
    BY <2>1 DEF IInv, SwitchInv, SessionInv
  <2> QED
    BY <2>2, NoEvents DEF IInv
<1> QED
  BY <1>1, Invariance, PTL

\* Between operations the published dump shows metrics of this session only
\* (metrics_dump.cpp, and the order of the calls in finalize()).
THEOREM DumpWithinSessionHolds == Spec => []DumpWithinSession
<1>1. IInv => DumpWithinSession
  BY DEF IInv, SessionInv, DumpWithinSession, holder_pc
<1> QED
  BY <1>1, Invariance, PTL
=============================================================================
