-------------------------------- MODULE Core --------------------------------
(***************************************************************************)
(* The life cycle of the library, src/src/core.cpp, composed with the      *)
(* parts it starts and stops: the configuration switch, the message queue  *)
(* (at the level of EventQueue, which MessageQueue implements), the        *)
(* registry of metrics and the metrics dump.                               *)
(*                                                                         *)
(* Controllers are threads that call initialize(), finalize() and          *)
(* config_json() in any order and at any time; operation_mutex serializes  *)
(* them.  Producers are threads that call measuring points.  The processor *)
(* thread is created by initialize() and joined by finalize().             *)
(*                                                                         *)
(* Client obligation: finalize() is called while no measuring point is     *)
(* executing, and none is called until it returns.  The code needs it: the *)
(* measuring points read is_enabled() and then use event_message_queue     *)
(* without any lock, and finalize() deletes the queue.                     *)
(***************************************************************************)
EXTENDS Integers, Sequences, FiniteSets

CONSTANTS Controllers, Producers,
          Messages,          \* heap addresses of event messages
          Names,             \* names of metrics
          nullptr,
          free,              \* operation_mutex is not held
          ThreadStartMayFail \* std::thread's constructor may throw

ASSUME CoreAssumption ==
    /\ nullptr \notin Messages
    /\ free \notin Controllers
    /\ IsFiniteSet(Producers)
    /\ ThreadStartMayFail \in BOOLEAN

VARIABLES
    enable,              \* config::core_opts.enable
    enabled_flag,        \* atomic
    operation_mutex,     \* the controller that holds it, or free
    kpc,                 \* where each controller is
    processor_thread,    \* "none", "running", "exited" or "failed"
    rpc,                 \* where the processor thread is
    event_message_queue, \* TRUE when the pointer is not null
    q,                   \* the messages in the queue
    mq_size,
    live,                \* messages allocated and not deleted
    dest,                \* destination_name of each message
    ppc, msg,            \* where each producer is, the message it pushes
    popped,              \* the message the processor thread popped
    metrics_map,         \* names of the existing metrics
    dump                 \* names in the published dump

configVars == <<enable, enabled_flag, operation_mutex, kpc>>
threadVars == <<processor_thread, rpc, popped>>
queueVars == <<event_message_queue, q, mq_size>>
heapVars == <<live, dest>>
producerVars == <<ppc, msg>>
metricVars == <<metrics_map, dump>>
vars == <<configVars, threadVars, queueVars, heapVars, producerVars, metricVars>>

FinalizePC == {"disable", "join", "internal", "drain", "delete", "dump", "config"}
ControllerPC == {"idle", "init", "enable", "start", "unlock"} \cup FinalizePC
ProcessorPC == {"loop", "pop", "decrement", "process", "update"}
ProducerPC == {"idle", "flag", "push", "link", "count"}

\* Types of all variables; mq_size is a natural number, so --mq_size never
\* wraps around.
TypeOK ==
    /\ enable \in BOOLEAN /\ enabled_flag \in BOOLEAN
    /\ operation_mutex \in Controllers \cup {free}
    /\ kpc \in [Controllers -> ControllerPC]
    /\ processor_thread \in {"none", "running", "exited", "failed"}
    /\ rpc \in ProcessorPC
    /\ event_message_queue \in BOOLEAN
    /\ q \in Seq(Messages)
    /\ mq_size \in Nat
    /\ live \in SUBSET Messages
    /\ dest \in [Messages -> Names]
    /\ ppc \in [Producers -> ProducerPC]
    /\ msg \in [Producers -> Messages \cup {nullptr}]
    /\ popped \in Messages \cup {nullptr}
    /\ metrics_map \in SUBSET Names /\ dump \in SUBSET Names

Init ==
    /\ enable = TRUE /\ enabled_flag = FALSE
    /\ operation_mutex = free
    /\ kpc = [c \in Controllers |-> "idle"]
    /\ processor_thread = "none" /\ rpc = "loop"
    /\ event_message_queue = FALSE /\ q = <<>> /\ mq_size = 0
    /\ live = {} /\ dest \in {[n \in Messages |-> a] : a \in Names}
    /\ ppc = [p \in Producers |-> "idle"]
    /\ msg = [p \in Producers |-> nullptr]
    /\ popped = nullptr
    /\ metrics_map = {} /\ dump = {}

is_enabled == enable /\ enabled_flag
joinable == processor_thread \in {"running", "exited"}
Finalizing == \E c \in Controllers : kpc[c] \in FinalizePC
Quiet == \A p \in Producers : ppc[p] = "idle"

-----------------------------------------------------------------------------
(* The queue as its users see it. *)

Linked(n) == \A p \in Producers : ppc[p] = "link" => msg[p] # n

\* pop() returns the oldest message once it is linked.
CanPop == q # <<>> /\ Linked(Head(q))

\* pop() returns nullptr on an empty queue, and when the oldest message or
\* its successor is not linked yet.
CanPopNull ==
    \/ q = <<>>
    \/ ~Linked(Head(q))
    \/ Len(q) > 1 /\ ~Linked(q[2])

-----------------------------------------------------------------------------
(* initialize() *)

GoTo(c, l) == kpc' = [kpc EXCEPT ![c] = l]

LockInitialize(c) ==
    /\ kpc[c] = "idle" /\ operation_mutex = free
    /\ operation_mutex' = c
    /\ GoTo(c, IF enabled_flag THEN "unlock" ELSE "init")
    /\ UNCHANGED <<enable, enabled_flag, threadVars, queueVars, heapVars,
                   producerVars, metricVars>>

\* metrics_dump, internal and message_queue are initialized; an existing
\* queue is kept as it is.
InitComponents(c) ==
    /\ kpc[c] = "init"
    /\ dump' = {}
    /\ event_message_queue' = TRUE
    /\ q' = (IF event_message_queue THEN q ELSE <<>>)
    /\ mq_size' = (IF event_message_queue THEN mq_size ELSE 0)
    /\ GoTo(c, IF enable THEN "enable" ELSE "unlock")
    /\ UNCHANGED <<enable, enabled_flag, operation_mutex, threadVars, heapVars,
                   producerVars, metrics_map>>

SetEnabled(c) ==
    /\ kpc[c] = "enable"
    /\ enabled_flag' = TRUE
    /\ GoTo(c, "start")
    /\ UNCHANGED <<enable, operation_mutex, threadVars, queueVars, heapVars,
                   producerVars, metricVars>>

\* processor_thread = std::thread(run_processor); when the constructor throws
\* the mutex is released and the flag stays set.
StartThread(c) ==
    /\ kpc[c] = "start"
    /\ \/ processor_thread' = "running" /\ rpc' = "loop"
       \/ ThreadStartMayFail /\ processor_thread' = "failed" /\ UNCHANGED rpc
    /\ GoTo(c, "unlock")
    /\ UNCHANGED <<enable, enabled_flag, operation_mutex, popped, queueVars,
                   heapVars, producerVars, metricVars>>

Unlock(c) ==
    /\ kpc[c] = "unlock"
    /\ operation_mutex' = free
    /\ GoTo(c, "idle")
    /\ UNCHANGED <<enable, enabled_flag, threadVars, queueVars, heapVars,
                   producerVars, metricVars>>

-----------------------------------------------------------------------------
(* finalize() *)

LockFinalize(c) ==
    /\ kpc[c] = "idle" /\ operation_mutex = free
    /\ Quiet
    /\ operation_mutex' = c
    /\ GoTo(c, "disable")
    /\ UNCHANGED <<enable, enabled_flag, threadVars, queueVars, heapVars,
                   producerVars, metricVars>>

\* Defective variant: the flag is not cleared before the join.
Disable_forgotten(c) ==
    /\ kpc[c] = "disable"
    /\ GoTo(c, "join")
    /\ UNCHANGED <<enable, enabled_flag, operation_mutex, threadVars, queueVars,
                   heapVars, producerVars, metricVars>>

Disable(c) ==
    /\ kpc[c] = "disable"
    /\ enabled_flag' = FALSE
    /\ GoTo(c, "join")
    /\ UNCHANGED <<enable, operation_mutex, threadVars, queueVars, heapVars,
                   producerVars, metricVars>>

\* Defective variant: finalize() does not wait for the thread.
Join_skipped(c) ==
    /\ kpc[c] = "join"
    /\ GoTo(c, "internal")
    /\ UNCHANGED <<enable, enabled_flag, operation_mutex, threadVars,
                   queueVars, heapVars, producerVars, metricVars>>

Join(c) ==
    /\ kpc[c] = "join"
    /\ joinable => processor_thread = "exited"
    /\ processor_thread' = "none"
    /\ GoTo(c, "internal")
    /\ UNCHANGED <<enable, enabled_flag, operation_mutex, rpc, popped,
                   queueVars, heapVars, producerVars, metricVars>>

\* Defective variant: the metrics are kept.
FinalizeInternal_kept(c) ==
    /\ kpc[c] = "internal"
    /\ GoTo(c, "drain")
    /\ UNCHANGED <<enable, enabled_flag, operation_mutex, threadVars,
                   queueVars, heapVars, producerVars, metricVars>>

\* internal::finalize() deletes every metric.
FinalizeInternal(c) ==
    /\ kpc[c] = "internal"
    /\ metrics_map' = {}
    /\ GoTo(c, "drain")
    /\ UNCHANGED <<enable, enabled_flag, operation_mutex, threadVars,
                   queueVars, heapVars, producerVars, dump>>

\* Defective variant: the queue is deleted as it is.
Drain_skipped(c) ==
    /\ kpc[c] = "drain"
    /\ GoTo(c, "delete")
    /\ UNCHANGED <<q, mq_size, live>>
    /\ UNCHANGED <<enable, enabled_flag, operation_mutex, threadVars,
                   event_message_queue, dest, producerVars, metricVars>>

\* while (!empty()) { message = pop(); delete_event_message(message); }
\* A pop() that returns nullptr changes nothing, and the loop goes on.
Drain(c) ==
    /\ kpc[c] = "drain"
    /\ \/ /\ mq_size # 0 /\ CanPop
          /\ q' = Tail(q)
          /\ mq_size' = mq_size - 1
          /\ live' = live \ {Head(q)}
          /\ UNCHANGED kpc
       \/ mq_size = 0 /\ GoTo(c, "delete") /\ UNCHANGED <<q, mq_size, live>>
    /\ UNCHANGED <<enable, enabled_flag, operation_mutex, threadVars,
                   event_message_queue, dest, producerVars, metricVars>>

\* What is still in the queue is lost, and not deleted.
DeleteQueue(c) ==
    /\ kpc[c] = "delete"
    /\ mq_size' = 0
    /\ event_message_queue' = FALSE
    /\ q' = <<>>
    /\ GoTo(c, "dump")
    /\ UNCHANGED <<enable, enabled_flag, operation_mutex, threadVars, heapVars,
                   producerVars, metricVars>>

\* Defective variant: the dump is kept.
FinalizeDump_kept(c) ==
    /\ kpc[c] = "dump"
    /\ GoTo(c, "config")
    /\ UNCHANGED <<enable, enabled_flag, operation_mutex, threadVars,
                   queueVars, heapVars, producerVars, metricVars>>

FinalizeDump(c) ==
    /\ kpc[c] = "dump"
    /\ dump' = {}
    /\ GoTo(c, "config")
    /\ UNCHANGED <<enable, enabled_flag, operation_mutex, threadVars,
                   queueVars, heapVars, producerVars, metrics_map>>

\* config::finalize() restores the default, which is to enable the library.
FinalizeConfig(c) ==
    /\ kpc[c] = "config"
    /\ enable' = TRUE
    /\ GoTo(c, "unlock")
    /\ UNCHANGED <<enabled_flag, operation_mutex, threadVars, queueVars,
                   heapVars, producerVars, metricVars>>

FinalizeStep(c) ==
    \/ Disable(c) \/ Join(c) \/ FinalizeInternal(c) \/ Drain(c)
    \/ DeleteQueue(c) \/ FinalizeDump(c) \/ FinalizeConfig(c)

\* Defective variant: an enabled library is reconfigured.
ConfigJson_always(c) ==
    /\ kpc[c] = "idle" /\ operation_mutex = free
    /\ enable' \in BOOLEAN
    /\ UNCHANGED <<enabled_flag, operation_mutex, kpc, threadVars, queueVars,
                   heapVars, producerVars, metricVars>>

\* config_json() with a "core" section, in one critical section: an enabled
\* library ignores it.
ConfigJson(c) ==
    /\ kpc[c] = "idle" /\ operation_mutex = free
    /\ ~is_enabled
    /\ enable' \in BOOLEAN
    /\ UNCHANGED <<enabled_flag, operation_mutex, kpc, threadVars, queueVars,
                   heapVars, producerVars, metricVars>>

-----------------------------------------------------------------------------
(* run_processor() *)

ProcessorUnchanged == UNCHANGED <<configVars, producerVars, event_message_queue, dest>>

\* Defective variant: pop() without the test of empty().
LoopTest_nonempty ==
    /\ processor_thread = "running" /\ rpc = "loop"
    /\ \/ ~is_enabled /\ processor_thread' = "exited" /\ UNCHANGED rpc
       \/ is_enabled /\ rpc' = "pop" /\ UNCHANGED processor_thread
    /\ UNCHANGED <<popped, q, mq_size, live, metricVars>>
    /\ ProcessorUnchanged

\* while (is_enabled()) and the test of empty()
LoopTest ==
    /\ processor_thread = "running" /\ rpc = "loop"
    /\ \/ ~is_enabled /\ processor_thread' = "exited" /\ UNCHANGED rpc
       \/ /\ is_enabled
          /\ rpc' = (IF mq_size # 0 THEN "pop" ELSE "update")
          /\ UNCHANGED processor_thread
    /\ UNCHANGED <<popped, q, mq_size, live, metricVars>>
    /\ ProcessorUnchanged

Pop ==
    /\ processor_thread = "running" /\ rpc = "pop"
    /\ \/ /\ CanPop
          /\ popped' = Head(q) /\ q' = Tail(q)
          /\ rpc' = "decrement"
       \/ CanPopNull /\ rpc' = "update" /\ UNCHANGED <<popped, q>>
    /\ UNCHANGED <<processor_thread, mq_size, live, metricVars>>
    /\ ProcessorUnchanged

Decrement ==
    /\ processor_thread = "running" /\ rpc = "decrement"
    /\ mq_size' = mq_size - 1
    /\ rpc' = "process"
    /\ UNCHANGED <<processor_thread, popped, q, live, metricVars>>
    /\ ProcessorUnchanged

\* internal::process_event_message() creates the metric if there is none;
\* then the message is deleted.
ProcessMessage ==
    /\ processor_thread = "running" /\ rpc = "process"
    /\ metrics_map' = metrics_map \cup {dest[popped]}
    /\ live' = live \ {popped}
    /\ popped' = nullptr
    /\ rpc' = "update"
    /\ UNCHANGED <<processor_thread, q, mq_size, dump>>
    /\ ProcessorUnchanged

\* metrics_dump::update(): a new dump if the dump interval has elapsed.
UpdateDump ==
    /\ processor_thread = "running" /\ rpc = "update"
    /\ dump' \in {dump, metrics_map}
    /\ rpc' = "loop"
    /\ UNCHANGED <<processor_thread, popped, q, mq_size, live, metrics_map>>
    /\ ProcessorUnchanged

ProcessorStep == LoopTest \/ Pop \/ Decrement \/ ProcessMessage \/ UpdateDump

-----------------------------------------------------------------------------
(* A measuring point: is_enabled(), create the event, message_queue::push() *)

ReadEnable(p) ==
    /\ ppc[p] = "idle" /\ ~Finalizing
    /\ enable
    /\ ppc' = [ppc EXCEPT ![p] = "flag"]
    /\ UNCHANGED <<configVars, threadVars, queueVars, heapVars, msg, metricVars>>

ReadFlag(p) ==
    /\ ppc[p] = "flag"
    /\ \/ /\ enabled_flag
          /\ \E n \in Messages \ live, a \in Names :
                /\ live' = live \cup {n}
                /\ dest' = [dest EXCEPT ![n] = a]
                /\ msg' = [msg EXCEPT ![p] = n]
          /\ ppc' = [ppc EXCEPT ![p] = "push"]
       \/ /\ ~enabled_flag
          /\ ppc' = [ppc EXCEPT ![p] = "idle"]
          /\ UNCHANGED <<heapVars, msg>>
    /\ UNCHANGED <<configVars, threadVars, queueVars, metricVars>>

\* if (event_message_queue) event_message_queue->push(n), up to its exchange;
\* without a queue the message is simply forgotten.
PushExchange(p) ==
    /\ ppc[p] = "push"
    /\ IF event_message_queue
       THEN /\ q' = Append(q, msg[p])
            /\ ppc' = [ppc EXCEPT ![p] = "link"]
            /\ UNCHANGED msg
       ELSE /\ ppc' = [ppc EXCEPT ![p] = "idle"]
            /\ msg' = [msg EXCEPT ![p] = nullptr]
            /\ UNCHANGED q
    /\ UNCHANGED <<configVars, threadVars, event_message_queue, mq_size,
                   heapVars, metricVars>>

PushLink(p) ==
    /\ ppc[p] = "link"
    /\ msg' = [msg EXCEPT ![p] = nullptr]
    /\ ppc' = [ppc EXCEPT ![p] = "count"]
    /\ UNCHANGED <<configVars, threadVars, queueVars, heapVars, metricVars>>

\* Defective variant: the increment of the counter is lost.
PushCount_lost(p) ==
    /\ ppc[p] = "count"
    /\ ppc' = [ppc EXCEPT ![p] = "idle"]
    /\ UNCHANGED <<configVars, threadVars, queueVars, heapVars, msg, metricVars>>

PushCount(p) ==
    /\ ppc[p] = "count"
    /\ mq_size' = mq_size + 1
    /\ ppc' = [ppc EXCEPT ![p] = "idle"]
    /\ UNCHANGED <<configVars, threadVars, event_message_queue, q, heapVars,
                   msg, metricVars>>

MeasuringPointStep(p) == ReadFlag(p) \/ PushExchange(p) \/ PushLink(p) \/ PushCount(p)

-----------------------------------------------------------------------------
HoldingStep(c) ==
    \/ InitComponents(c) \/ SetEnabled(c) \/ StartThread(c) \/ Unlock(c)
    \/ FinalizeStep(c)

Next ==
    \/ \E c \in Controllers :
          LockInitialize(c) \/ LockFinalize(c) \/ ConfigJson(c) \/ HoldingStep(c)
    \/ ProcessorStep
    \/ \E p \in Producers : ReadEnable(p) \/ MeasuringPointStep(p)

Spec == Init /\ [][Next]_vars

\* Threads inside an operation keep being scheduled; nothing obliges a
\* client to call one.
FairSpec ==
    /\ Spec
    /\ \A c \in Controllers : WF_vars(HoldingStep(c))
    /\ WF_vars(ProcessorStep)
    /\ \A p \in Producers : WF_vars(MeasuringPointStep(p))

-----------------------------------------------------------------------------
(* Correctness. *)

Queued == {q[i] : i \in 1 .. Len(q)}

\* No thread uses what finalize() has destroyed: a measuring point that saw
\* the library enabled finds the queue (message_queue.cpp:165), and the
\* processor thread has ended before the metrics and the queue are deleted
\* (core.cpp:108-113).
NoUseAfterDelete ==
    /\ \A p \in Producers : ppc[p] \in {"push", "link", "count"} => event_message_queue
    /\ processor_thread = "running" =>
          /\ event_message_queue
          /\ \A c \in Controllers :
                kpc[c] \notin {"internal", "drain", "delete", "dump", "config"}

\* Every allocated event is in exactly one place: with the producer that
\* pushes it, in the queue, or with the processor thread; so finalize()
\* leaks none although it trusts the counter and not the list.
NoLeak ==
    live = {msg[p] : p \in {r \in Producers : ppc[r] = "push"}}
             \cup Queued \cup ({popped} \ {nullptr})

\* While the library says that it is enabled somebody consumes its events:
\* whatever was called before, the processor thread is there and has not
\* left its loop, unless starting it failed. And there is never a second one:
\* initialize() does not assign to a joinable std::thread, which would
\* terminate the process (core.cpp:101).
EnabledHasProcessor ==
    /\ enabled_flag /\ operation_mutex = free =>
        enable /\ processor_thread \in {"running", "failed"}
    /\ \A c \in Controllers : kpc[c] = "start" => ~joinable

\* A session starts without anything of an earlier one: no event, no metric,
\* no dump and a counter at zero, also when earlier calls of initialize()
\* found the library disabled and left a queue behind.
CleanSession ==
    \A c \in Controllers : kpc[c] = "enable" =>
        /\ q = <<>> /\ mq_size = 0 /\ live = {}
        /\ metrics_map = {} /\ dump = {}

\* Between operations the published dump shows metrics of this session only.
DumpWithinSession == operation_mutex = free => dump \subseteq metrics_map

\* Every operation that got operation_mutex returns: finalize() holds it
\* while it waits for the processor thread and while it drains the queue.
OperationsReturn ==
    \A c \in Controllers : operation_mutex = c ~> operation_mutex # c

\* No event stays in the queue: it is processed, or dropped by finalize().
EventsConsumed == \A n \in Messages : n \in Queued ~> n \notin Queued

-----------------------------------------------------------------------------
(* The inductive invariant behind the safety properties.                    *)

\* Where the controller that holds operation_mutex is.
holder_pc == IF operation_mutex = free THEN "idle" ELSE kpc[operation_mutex]

\* Only the controller that holds operation_mutex is inside an operation.
LockInv == \A c \in Controllers : kpc[c] # "idle" <=> operation_mutex = c

\* The library is never enabled without its queue, nor against its
\* configuration, and finalize() runs without measuring points.
SwitchInv ==
    /\ enabled_flag => enable /\ event_message_queue
    /\ holder_pc \in {"init", "enable"} \cup (FinalizePC \ {"disable"}) => ~enabled_flag
    /\ holder_pc = "enable" => enable /\ event_message_queue
    /\ holder_pc = "start" => enabled_flag
    /\ holder_pc \in FinalizePC => Quiet

\* The processor thread runs from the end of initialize() to the join of
\* finalize(), and holds a message between its pop and its deletion.
ThreadInv ==
    /\ processor_thread = "running" =>
          /\ event_message_queue
          /\ \/ enabled_flag /\ holder_pc \in {"idle", "unlock", "disable"}
             \/ holder_pc = "join"
    /\ processor_thread = "exited" => holder_pc = "join"
    /\ enabled_flag /\ holder_pc \in {"idle", "unlock", "disable"} =>
          processor_thread \in {"running", "failed"}
    /\ processor_thread # "running" => rpc = "loop"
    /\ popped # nullptr <=> rpc \in {"decrement", "process"}

\* Producers that have pushed a message and not counted it.
Uncounted == {p \in Producers : ppc[p] \in {"link", "count"}}

\* The counter agrees with the queue, and nobody but the processor thread
\* decrements it between its test and its --mq_size.
CountInv ==
    /\ mq_size + Cardinality(Uncounted) = Len(q) + (IF rpc = "decrement" THEN 1 ELSE 0)
    /\ rpc \in {"pop", "decrement"} => mq_size # 0
    /\ ~event_message_queue => q = <<>>
    /\ \A p \in Producers : ppc[p] \in {"push", "link", "count"} => event_message_queue

\* Every allocated message has one owner.
OwnerInv ==
    /\ NoLeak
    /\ \A i, j \in 1 .. Len(q) : q[i] = q[j] => i = j
    /\ popped \notin Queued
    /\ \A p \in Producers : ppc[p] = "push" =>
          msg[p] \in Messages /\ msg[p] \notin Queued /\ msg[p] # popped
    /\ \A p, r \in Producers :
          p # r /\ ppc[p] = "push" /\ ppc[r] = "push" => msg[p] # msg[r]

\* finalize() clears one part after the other, and while the library is
\* disabled nothing is added to them.
SessionInv ==
    /\ ~enabled_flag /\ holder_pc \in {"idle", "init", "enable", "unlock"} =>
          live = {} /\ metrics_map = {} /\ dump = {}
    /\ holder_pc \in {"drain", "delete", "dump", "config"} => metrics_map = {}
    /\ holder_pc = "delete" => mq_size = 0
    /\ holder_pc \in {"dump", "config"} => live = {}
    /\ holder_pc = "config" => dump = {}
    /\ holder_pc \notin {"drain", "delete", "dump"} => dump \subseteq metrics_map

IInv ==
    /\ TypeOK /\ LockInv /\ SwitchInv /\ ThreadInv
    /\ CountInv /\ OwnerInv /\ SessionInv
=============================================================================
