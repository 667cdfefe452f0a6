---------------------------- MODULE MessageQueue ----------------------------
(***************************************************************************)
(* The lock-free multi-producer single-consumer queue of                   *)
(* src/src/message_queue.cpp (Vyukov's intrusive queue with a stub node)   *)
(* together with the counter mq_size that its users consult before they    *)
(* pop.  Every access to an atomic shared between threads is one action.   *)
(*                                                                         *)
(* Producers are the threads inside a measuring point.  The consumer is    *)
(* the one thread that pops: the processor thread of core.cpp and, once it *)
(* is joined, the thread in message_queue::finalize(); both run the loop   *)
(*     if (!empty()) { m = pop(); ...; delete_event_message(m); }          *)
(*                                                                         *)
(* Messages is the set of heap addresses an event_message can have: an     *)
(* address that was freed may be allocated again, so the model has every   *)
(* ABA scenario the queue can meet and needs no bound on the number of     *)
(* pushes.  The gauges and the counter in namespace stats that pop() feeds *)
(* are written by the consumer only and read by no code modelled here;     *)
(* they are left out.                                                      *)
(*                                                                         *)
(* The interleavings are sequentially consistent: each store that          *)
(* publishes a node is a release store that the reader acquires, and the   *)
(* counter is updated with sequentially consistent read-modify-writes.     *)
(***************************************************************************)
EXTENDS Integers, Sequences, FiniteSets

CONSTANTS Producers,    \* threads that call measuring points
          Messages,     \* heap addresses of event messages
          m_stub_node,  \* the node embedded in the queue
          nullptr,
          SIZE_MAX      \* largest value of the size_t mq_size

ASSUME NodesAssumption ==
    /\ m_stub_node \notin Messages
    /\ nullptr \notin Messages \cup {m_stub_node}

\* Distinct live messages have distinct addresses, and size_t can count the
\* addresses there are.
ASSUME SizeAssumption ==
    /\ IsFiniteSet(Producers)
    /\ IsFiniteSet(Messages)
    /\ SIZE_MAX \in Nat
    /\ Cardinality(Messages) <= SIZE_MAX

VARIABLES
    m_head_node,  \* atomic: last node pushed
    m_tail_node,  \* private to the consumer: first node not yet popped
    next,         \* the atomic next pointer of every node
    mq_size,      \* atomic counter of the messages in the queue
    live,         \* messages allocated and not yet deleted
    ppc, msg, prev,    \* each producer: where it is, n and prev of its push()
    cpc, cprev, popped, \* the consumer: where it is, prev of its push(stub),
                        \* the message pop() returned
    chain         \* auxiliary: the nodes from tail to head, in the order in
                  \* which they were exchanged into m_head_node

producerVars == <<ppc, msg, prev>>
consumerVars == <<cpc, cprev, popped>>
vars == <<m_head_node, m_tail_node, next, mq_size, live,
          producerVars, consumerVars, chain>>

Nodes == Messages \cup {m_stub_node}

ProducerPC == {"idle", "store", "exchange", "link", "count"}
ConsumerPC == {"check", "first", "second", "head", "storestub",
               "exchangestub", "linkstub", "last", "decrement", "delete"}

\* Types of all variables.
TypeOK ==
    /\ m_head_node \in Nodes
    /\ m_tail_node \in Nodes
    /\ next \in [Nodes -> Nodes \cup {nullptr}]
    /\ mq_size \in 0 .. SIZE_MAX
    /\ live \in SUBSET Messages
    /\ ppc \in [Producers -> ProducerPC]
    /\ msg \in [Producers -> Messages \cup {nullptr}]
    /\ prev \in [Producers -> Nodes \cup {nullptr}]
    /\ cpc \in ConsumerPC
    /\ cprev \in Nodes \cup {nullptr}
    /\ popped \in Messages \cup {nullptr}
    /\ chain \in Seq(Nodes)

-----------------------------------------------------------------------------
\* initialize(): a queue that holds the stub only.
Init ==
    /\ m_head_node = m_stub_node
    /\ m_tail_node = m_stub_node
    /\ next = [n \in Nodes |-> nullptr]
    /\ mq_size = 0
    /\ live = {}
    /\ ppc = [p \in Producers |-> "idle"]
    /\ msg = [p \in Producers |-> nullptr]
    /\ prev = [p \in Producers |-> nullptr]
    /\ cpc = "check"
    /\ cprev = nullptr
    /\ popped = nullptr
    /\ chain = <<m_stub_node>>

-----------------------------------------------------------------------------
(* A producer: create_..._event(), then message_queue::push(). *)

\* new event_message leaves its next pointer uninitialized.
CreateEvent(p) ==
    /\ ppc[p] = "idle"
    /\ \E n \in Messages \ live, garbage \in Nodes \cup {nullptr} :
          /\ live' = live \cup {n}
          /\ msg' = [msg EXCEPT ![p] = n]
          /\ next' = [next EXCEPT ![n] = garbage]
    /\ ppc' = [ppc EXCEPT ![p] = "store"]
    /\ UNCHANGED <<m_head_node, m_tail_node, mq_size, prev, consumerVars, chain>>

\* n->next.store(nullptr)
StoreNext(p) ==
    /\ ppc[p] = "store"
    /\ next' = [next EXCEPT ![msg[p]] = nullptr]
    /\ ppc' = [ppc EXCEPT ![p] = "exchange"]
    /\ UNCHANGED <<m_head_node, m_tail_node, mq_size, live, msg, prev,
                   consumerVars, chain>>

\* prev = m_head_node.exchange(n)
Exchange(p) ==
    /\ ppc[p] = "exchange"
    /\ prev' = [prev EXCEPT ![p] = m_head_node]
    /\ m_head_node' = msg[p]
    /\ chain' = Append(chain, msg[p])
    /\ ppc' = [ppc EXCEPT ![p] = "link"]
    /\ UNCHANGED <<m_tail_node, next, mq_size, live, msg, consumerVars>>

\* prev->next.store(n); the producer does not touch n or prev any more.
Link(p) ==
    /\ ppc[p] = "link"
    /\ next' = [next EXCEPT ![prev[p]] = msg[p]]
    /\ msg' = [msg EXCEPT ![p] = nullptr]
    /\ prev' = [prev EXCEPT ![p] = nullptr]
    /\ ppc' = [ppc EXCEPT ![p] = "count"]
    /\ UNCHANGED <<m_head_node, m_tail_node, mq_size, live, consumerVars, chain>>

\* Defective variant: two threads increment a plain counter, one is lost.
Count_lost(p) ==
    /\ ppc[p] = "count"
    /\ ppc' = [ppc EXCEPT ![p] = "idle"]
    /\ UNCHANGED <<m_head_node, m_tail_node, next, mq_size, live, msg, prev,
                   consumerVars, chain>>

\* ++mq_size
Count(p) ==
    /\ ppc[p] = "count"
    /\ mq_size' = (mq_size + 1) % (SIZE_MAX + 1)
    /\ ppc' = [ppc EXCEPT ![p] = "idle"]
    /\ UNCHANGED <<m_head_node, m_tail_node, next, live, msg, prev,
                   consumerVars, chain>>

PushStep(p) == StoreNext(p) \/ Exchange(p) \/ Link(p) \/ Count(p)

-----------------------------------------------------------------------------
(* The consumer.  The local variable tail of pop() equals m_tail_node at    *)
(* every point where pop() uses it.                                         *)

\* Everything the consumer's steps up to its return leave alone.
PopUnchanged == UNCHANGED <<mq_size, live, producerVars>>

\* Defective variant: pop() without consulting the counter.
CheckEmpty_unguarded ==
    /\ cpc = "check"
    /\ cpc' = "first"
    /\ UNCHANGED <<m_head_node, m_tail_node, next, cprev, popped, chain>>
    /\ PopUnchanged

\* if (!empty())
CheckEmpty ==
    /\ cpc = "check"
    /\ mq_size # 0
    /\ cpc' = "first"
    /\ UNCHANGED <<m_head_node, m_tail_node, next, cprev, popped, chain>>
    /\ PopUnchanged

\* pop() returns nullptr; deleting nullptr does nothing.
ReturnNull ==
    /\ cpc' = "check"
    /\ UNCHANGED <<m_head_node, m_tail_node, next, cprev, popped, chain>>
    /\ PopUnchanged

\* Defective variant: next is used although it may be null.
ReturnTail_unchecked ==
    /\ m_tail_node' = next[m_tail_node]
    /\ popped' = m_tail_node
    /\ chain' = Tail(chain)
    /\ cpc' = "decrement"
    /\ UNCHANGED <<m_head_node, next, cprev>>
    /\ PopUnchanged

\* m_tail_node = next; return tail;
ReturnTail ==
    /\ next[m_tail_node] # nullptr
    /\ m_tail_node' = next[m_tail_node]
    /\ popped' = m_tail_node
    /\ chain' = Tail(chain)
    /\ cpc' = "decrement"
    /\ UNCHANGED <<m_head_node, next, cprev>>
    /\ PopUnchanged

\* next is null: go on to compare tail with m_head_node.
GoToHead ==
    /\ next[m_tail_node] = nullptr
    /\ cpc' = "head"
    /\ UNCHANGED <<m_head_node, m_tail_node, next, cprev, popped, chain>>
    /\ PopUnchanged

\* The first load of tail->next finds the stub at the tail, and skips it.
SkipStub ==
    /\ next[m_stub_node] # nullptr
    /\ m_tail_node' = next[m_stub_node]
    /\ chain' = Tail(chain)
    /\ cpc' = "second"
    /\ UNCHANGED <<m_head_node, next, cprev, popped>>
    /\ PopUnchanged

\* Defective variant: the stub is popped like a message.
LoadFirst_stub == cpc = "first" /\ (ReturnTail \/ GoToHead)

\* node* next = tail->next.load(); and what depends on it
LoadFirst ==
    /\ cpc = "first"
    /\ \/ /\ m_tail_node = m_stub_node
          /\ \/ next[m_stub_node] = nullptr /\ ReturnNull
             \/ SkipStub
       \/ /\ m_tail_node # m_stub_node
          /\ ReturnTail \/ GoToHead

\* next = next->next.load(), after the stub was skipped
LoadSecond ==
    /\ cpc = "second"
    /\ ReturnTail \/ GoToHead

\* Defective variant: the stub is pushed whatever the head is.
LoadHead_unchecked ==
    /\ cpc = "head"
    /\ cpc' = "storestub"
    /\ UNCHANGED <<m_head_node, m_tail_node, next, cprev, popped, chain>>
    /\ PopUnchanged

\* Defective variant: the last message is returned while m_head_node and
\* m_tail_node still point to it.
LoadHead_nostub ==
    /\ cpc = "head"
    /\ \/ m_tail_node # m_head_node /\ ReturnNull
       \/ /\ m_tail_node = m_head_node
          /\ popped' = m_tail_node
          /\ cpc' = "decrement"
          /\ UNCHANGED <<m_head_node, m_tail_node, next, cprev, chain>>
          /\ PopUnchanged

\* head = m_head_node.load(); if (tail != head) return nullptr;
LoadHead ==
    /\ cpc = "head"
    /\ \/ m_tail_node # m_head_node /\ ReturnNull
       \/ /\ m_tail_node = m_head_node
          /\ cpc' = "storestub"
          /\ UNCHANGED <<m_head_node, m_tail_node, next, cprev, popped, chain>>
          /\ PopUnchanged

\* push(&m_stub_node), in its three steps
StoreStub ==
    /\ cpc = "storestub"
    /\ next' = [next EXCEPT ![m_stub_node] = nullptr]
    /\ cpc' = "exchangestub"
    /\ UNCHANGED <<m_head_node, m_tail_node, cprev, popped, chain>>
    /\ PopUnchanged

ExchangeStub ==
    /\ cpc = "exchangestub"
    /\ cprev' = m_head_node
    /\ m_head_node' = m_stub_node
    /\ chain' = Append(chain, m_stub_node)
    /\ cpc' = "linkstub"
    /\ UNCHANGED <<m_tail_node, next, popped>>
    /\ PopUnchanged

\* Defective variant: the stub is exchanged in but never linked.
LinkStub_forgotten ==
    /\ cpc = "linkstub"
    /\ cprev' = nullptr
    /\ cpc' = "last"
    /\ UNCHANGED <<m_head_node, m_tail_node, next, popped, chain>>
    /\ PopUnchanged

LinkStub ==
    /\ cpc = "linkstub"
    /\ next' = [next EXCEPT ![cprev] = m_stub_node]
    /\ cprev' = nullptr
    /\ cpc' = "last"
    /\ UNCHANGED <<m_head_node, m_tail_node, popped, chain>>
    /\ PopUnchanged

\* next = tail->next.load(), after the stub was pushed
LoadLast ==
    /\ cpc = "last"
    /\ \/ ReturnTail
       \/ next[m_tail_node] = nullptr /\ ReturnNull

\* --mq_size in message_queue::pop(), with the wrap-around of size_t
Decrement ==
    /\ cpc = "decrement"
    /\ mq_size' = (mq_size - 1) % (SIZE_MAX + 1)
    /\ cpc' = "delete"
    /\ UNCHANGED <<m_head_node, m_tail_node, next, live, producerVars,
                   cprev, popped, chain>>

\* The message is processed (or dropped, in finalize()) and deleted.
DeleteMessage ==
    /\ cpc = "delete"
    /\ live' = live \ {popped}
    /\ popped' = nullptr
    /\ cpc' = "check"
    /\ UNCHANGED <<m_head_node, m_tail_node, next, mq_size, producerVars,
                   cprev, chain>>

ConsumerStep ==
    \/ CheckEmpty \/ LoadFirst \/ LoadSecond \/ LoadHead
    \/ StoreStub \/ ExchangeStub \/ LinkStub \/ LoadLast
    \/ Decrement \/ DeleteMessage

-----------------------------------------------------------------------------
Next ==
    \/ \E p \in Producers : CreateEvent(p) \/ PushStep(p)
    \/ ConsumerStep

Spec == Init /\ [][Next]_vars

\* A thread inside push() keeps being scheduled, and so does the consumer;
\* nothing obliges a thread to call a measuring point.
FairSpec ==
    /\ Spec
    /\ \A p \in Producers : WF_vars(PushStep(p))
    /\ WF_vars(ConsumerStep)

-----------------------------------------------------------------------------
(* Correctness. *)

InChain == {chain[i] : i \in 1 .. Len(chain)}

\* The messages in the queue, oldest first: chain without the stub.
Queue ==
    IF m_stub_node \notin InChain
    THEN chain
    ELSE LET k == CHOOSE i \in 1 .. Len(chain) : chain[i] = m_stub_node
         IN [i \in 1 .. Len(chain) - 1 |->
                IF i < k THEN chain[i] ELSE chain[i + 1]]

\* Messages whose push() has not reached the exchange yet.
Owned(p) == IF ppc[p] \in {"store", "exchange"} THEN {msg[p]} ELSE {}
ProducerOwned == UNION {Owned(p) : p \in Producers}
Popped == {popped} \ {nullptr}

\* Every allocated message has exactly one owner: the producer that is about
\* to push it, the queue, or the consumer.  Nothing is leaked, queued twice,
\* freed twice or freed while it is still linked, whatever the producers and
\* the consumer interleave (message_queue.cpp:45-90).
Ownership ==
    /\ live = ProducerOwned \cup (InChain \ {m_stub_node}) \cup Popped
    /\ \A p, r \in Producers : p # r => Owned(p) \cap Owned(r) = {}
    /\ \A p \in Producers : Owned(p) \cap (InChain \cup Popped) = {}
    /\ Popped \cap InChain = {}
    /\ \A i, j \in 1 .. Len(chain) : chain[i] = chain[j] => i = j

\* No step of push() or pop() dereferences a node that was deleted: not the
\* former head a producer is about to link from (line 51), however long it
\* waits after its exchange, and not the tail the consumer reads (57, 66, 82).
NoDanglingAccess ==
    LET valid == live \cup {m_stub_node}
    IN  /\ \A p \in Producers : ppc[p] = "link" => prev[p] \in valid
        /\ \A p \in Producers : ppc[p] = "store" => msg[p] \in valid
        /\ cpc = "linkstub" => cprev \in valid
        /\ m_tail_node \in valid
        /\ cpc \in {"decrement", "delete"} => popped \in live

\* Producers that have pushed a message and not counted it.
Uncounted == {p \in Producers : ppc[p] \in {"link", "count"}}

\* mq_size counts the queued messages except the ones whose producer has not
\* reached line 167 yet; the one just popped is counted until line 179.  The
\* counter is updated apart from the list, by every thread, and yet it never
\* wraps below zero.
SizeExact ==
    mq_size + Cardinality(Uncounted)
      = Len(Queue) + (IF cpc = "decrement" THEN 1 ELSE 0)

\* pop() is called only when the counter says that there is a message. Where
\* it returns nullptr, some producer is between its exchange and its link: a
\* stalled producer can hide messages that others pushed. The one exception is
\* line 77: the node behind the tail may have been linked since line 57 or 66
\* read a null pointer, and then the next call finds it.
NullOnlyIfPushConcurrent ==
    [][(cpc \notin {"check", "delete"} /\ cpc' = "check")
         => \/ \E p \in Producers : ppc[p] = "link"
            \/ cpc = "head" /\ next[m_tail_node] # nullptr]_vars

\* The queue is a FIFO queue of the messages in the order of their exchanges.
Abstract == INSTANCE EventQueue WITH q <- Queue, taken <- popped
ImplementsEventQueue == Abstract!FairSpec

\* Every message that entered the queue reaches the consumer, even when pop()
\* returned nullptr in the meantime because a producer was not done linking.
Delivered == \A n \in Messages : n \in InChain ~> popped = n

-----------------------------------------------------------------------------
(* The inductive invariant behind Ownership and NoDanglingAccess.           *)

Pushing == {"store", "exchange", "link"}
InPop == {"second", "head", "storestub", "exchangestub", "linkstub", "last"}

\* Somebody has exchanged b into the head after a, and not linked it yet.
Linking(a, b) ==
    \/ \E p \in Producers : ppc[p] = "link" /\ prev[p] = a /\ msg[p] = b
    \/ cpc = "linkstub" /\ cprev = a /\ b = m_stub_node

\* Following next from the tail visits the chain; where the way is interrupted
\* a thread is about to link the two nodes.
ChainInv ==
    /\ chain # <<>>
    /\ chain[1] = m_tail_node
    /\ chain[Len(chain)] = m_head_node
    /\ next[m_head_node] = nullptr
    /\ \A i, j \in 1 .. Len(chain) : chain[i] = chain[j] => i = j
    /\ \A i \in 1 .. Len(chain) - 1 :
          \/ next[chain[i]] = chain[i + 1]
          \/ next[chain[i]] = nullptr /\ Linking(chain[i], chain[i + 1])

\* A thread about to link holds two neighbours that are not linked.
LinkInv ==
    /\ \A p \in Producers : ppc[p] = "link" =>
          \E i \in 1 .. Len(chain) - 1 :
             chain[i] = prev[p] /\ chain[i + 1] = msg[p] /\ next[chain[i]] = nullptr
    /\ cpc = "linkstub" =>
          \E i \in 1 .. Len(chain) - 1 :
             chain[i] = cprev /\ chain[i + 1] = m_stub_node /\ next[chain[i]] = nullptr

\* A producer owns the message it has not exchanged yet.
ProducerInv ==
    /\ \A p \in Producers : ppc[p] \in Pushing => msg[p] \in Messages
    /\ \A p \in Producers : ppc[p] \in {"store", "exchange"} =>
          msg[p] \in live /\ msg[p] \notin InChain /\ msg[p] # popped
    /\ \A p \in Producers : ppc[p] = "exchange" => next[msg[p]] = nullptr
    /\ \A p, r \in Producers :
          (p # r /\ ppc[p] \in Pushing /\ ppc[r] \in Pushing) => msg[p] # msg[r]

\* The stub is never popped, nor pushed while it is in the queue.
ConsumerInv ==
    /\ cpc \in InPop => m_tail_node # m_stub_node
    /\ cpc \in {"storestub", "exchangestub"} => m_stub_node \notin InChain
    /\ cpc = "exchangestub" => next[m_stub_node] = nullptr
    /\ popped # nullptr <=> cpc \in {"decrement", "delete"}
    /\ popped # nullptr => popped \in live /\ popped \notin InChain

\* live is exactly what producers own, what is queued and what was popped.
HeapInv ==
    /\ \A n \in InChain : n \in live \/ n = m_stub_node
    /\ \A n \in live :
          \/ n \in InChain
          \/ n = popped
          \/ \E p \in Producers : ppc[p] \in {"store", "exchange"} /\ msg[p] = n

IInv == TypeOK /\ ChainInv /\ LinkInv /\ ProducerInv /\ ConsumerInv /\ HeapInv

\* What SizeExact and NullOnlyIfPushConcurrent need beyond IInv: only the consumer
\* decrements, so the counter it saw is not zero until it does, and the stub
\* it pushed is still in the queue when it reads the tail for the last time.
CounterInv ==
    /\ SizeExact
    /\ cpc \notin {"check", "delete"} => mq_size # 0
    /\ cpc = "last" => m_stub_node \in InChain
=============================================================================
