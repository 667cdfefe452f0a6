------------------------ MODULE MessageQueue_proofs -------------------------
(***************************************************************************)
(* Proofs about MessageQueue for any number of producers and messages:     *)
(* IInv is inductive, and it implies the typing of all variables, the      *)
(* ownership discipline of messages and the absence of dangling accesses;  *)
(* the counter mq_size is exact, pop() finds nothing only if a push() is   *)
(* between its exchange and its link or has just linked the next node, and *)
(* the list implements the FIFO queue of EventQueue.                       *)
(***************************************************************************)
EXTENDS MessageQueue, FiniteSetTheorems, FunctionTheorems, SequenceTheorems,
        TLAPS

-----------------------------------------------------------------------------
(* Facts about sequences and about the chain. *)

LEMMA AppendFacts ==
    ASSUME NEW S, NEW s \in Seq(S), NEW e \in S
    PROVE  /\ Append(s, e) \in Seq(S)
           /\ Append(s, e) # <<>>
           /\ Len(Append(s, e)) = Len(s) + 1
           /\ \A i \in 1 .. Len(s) : Append(s, e)[i] = s[i]
           /\ Append(s, e)[Len(s) + 1] = e
  OBVIOUS

LEMMA TailFacts ==
    ASSUME NEW S, NEW s \in Seq(S), s # <<>>
    PROVE  /\ Tail(s) \in Seq(S)
           /\ Len(s) \in Nat \ {0}
           /\ Len(Tail(s)) = Len(s) - 1
           /\ \A i \in 1 .. Len(s) - 1 : Tail(s)[i] = s[i + 1]
  OBVIOUS

LEMMA ModFacts ==
    ASSUME NEW a \in Int, NEW b \in Nat
    PROVE  a % (b + 1) \in 0 .. b
  OBVIOUS

-----------------------------------------------------------------------------
(* Initial states, and the steps that leave the list alone. *)

LEMMA InitIInv == Init => IInv
<1> SUFFICES ASSUME Init PROVE IInv
  OBVIOUS
<1>1. TypeOK
  BY NodesAssumption, SizeAssumption DEF Init, TypeOK, Nodes, ProducerPC, ConsumerPC
<1>2. Len(chain) = 1 /\ chain[1] = m_stub_node /\ InChain = {m_stub_node}
  BY DEF Init, InChain
<1>3. ChainInv
  BY <1>2 DEF Init, ChainInv, Nodes
<1>4. LinkInv /\ ProducerInv /\ ConsumerInv /\ HeapInv
  BY <1>2 DEF Init, LinkInv, ProducerInv, ConsumerInv, HeapInv, Pushing, InPop
<1> QED
  BY <1>1, <1>3, <1>4 DEF IInv

\* What the list invariants depend on.
listVars == <<m_head_node, m_tail_node, next, chain>>

LEMMA CountIInv ==
    ASSUME IInv, NEW p \in Producers, Count(p)
    PROVE  IInv'
<1>1. TypeOK'
  BY ModFacts, SizeAssumption DEF IInv, TypeOK, Count, consumerVars, ProducerPC
<1>2. ChainInv' /\ LinkInv'
  BY DEF IInv, TypeOK, Count, consumerVars, ChainInv, LinkInv, Linking
<1>3. ProducerInv' /\ ConsumerInv' /\ HeapInv'
  BY DEF IInv, TypeOK, Count, consumerVars, ProducerInv, ConsumerInv, HeapInv,
         Pushing, InPop, InChain
<1> QED
  BY <1>1, <1>2, <1>3 DEF IInv

LEMMA DecrementIInv ==
    ASSUME IInv, Decrement
    PROVE  IInv'
<1>1. TypeOK'
  BY ModFacts, SizeAssumption DEF IInv, TypeOK, Decrement, producerVars, ConsumerPC
<1>2. ChainInv' /\ LinkInv'
  BY DEF IInv, TypeOK, Decrement, producerVars, ChainInv, LinkInv, Linking
<1>3. ProducerInv' /\ ConsumerInv' /\ HeapInv'
  BY DEF IInv, TypeOK, Decrement, producerVars, ProducerInv, ConsumerInv, HeapInv,
         Pushing, InPop, InChain
<1> QED
  BY <1>1, <1>2, <1>3 DEF IInv

\* A step that only moves the consumer's program counter.
MoveTo(l) ==
    /\ cpc' = l
    /\ UNCHANGED <<listVars, mq_size, live, producerVars, cprev, popped>>

LEMMA MoveIInv ==
    ASSUME IInv, NEW l \in ConsumerPC, MoveTo(l),
           cpc \notin {"linkstub", "decrement", "delete"},
           l \notin {"linkstub", "exchangestub", "decrement", "delete"},
           l \in InPop => m_tail_node # m_stub_node,
           l = "storestub" => m_stub_node \notin InChain
    PROVE  IInv'
<1>1. TypeOK'
  BY DEF IInv, TypeOK, MoveTo, listVars, producerVars
<1>2. ChainInv' /\ LinkInv'
  BY DEF IInv, TypeOK, MoveTo, listVars, producerVars, ChainInv, LinkInv, Linking
<1>3. ProducerInv' /\ HeapInv'
  BY DEF IInv, TypeOK, MoveTo, listVars, producerVars, ProducerInv, HeapInv,
         Pushing, InChain
<1>4. ConsumerInv'
  BY DEF IInv, TypeOK, MoveTo, listVars, producerVars, ConsumerInv, InChain
<1> QED
  BY <1>1, <1>2, <1>3, <1>4 DEF IInv

LEMMA CreateEventIInv ==
    ASSUME IInv, NEW p \in Producers, CreateEvent(p)
    PROVE  IInv'
<1> PICK n \in Messages \ live, garbage \in Nodes \cup {nullptr} :
          /\ live' = live \cup {n}
          /\ msg' = [msg EXCEPT ![p] = n]
          /\ next' = [next EXCEPT ![n] = garbage]
  BY DEF CreateEvent
<1> USE DEF CreateEvent, consumerVars
<1>1. TypeOK'
  BY DEF IInv, TypeOK, Nodes, ProducerPC
<1>2. n \notin InChain /\ n # m_stub_node /\ n # popped /\ n # m_head_node
  BY NodesAssumption DEF IInv, TypeOK, HeapInv, ConsumerInv, ChainInv, InChain
<1>3. \A i \in 1 .. Len(chain) : next'[chain[i]] = next[chain[i]]
  BY <1>2 DEF IInv, TypeOK, InChain
<1>4. \A r \in Producers : ppc[r] \in Pushing => msg[r] # n
  BY <1>2 DEF IInv, TypeOK, ProducerInv, LinkInv, InChain, Pushing
<1>5. \A r \in Producers : r # p => ppc'[r] = ppc[r] /\ msg'[r] = msg[r]
  BY DEF IInv, TypeOK
<1>6. ppc'[p] = "store" /\ msg'[p] = n /\ ppc[p] = "idle"
  BY DEF IInv, TypeOK
<1>7. ChainInv'
  <2>1. \A a, b : Linking(a, b) => Linking(a, b)'
    BY <1>5, <1>6 DEF Linking
  <2>2. next'[m_head_node'] = nullptr
    BY <1>2 DEF IInv, TypeOK, ChainInv
  <2> QED
    BY <1>3, <2>1, <2>2 DEF IInv, TypeOK, ChainInv
<1>8. LinkInv'
  BY <1>3, <1>5, <1>6 DEF IInv, TypeOK, LinkInv
<1>9. InChain' = InChain
  BY DEF InChain
<1>10. ProducerInv'
  <2>1. \A r \in Producers : r # p /\ ppc[r] = "exchange" => next'[msg[r]] = next[msg[r]]
    BY <1>4 DEF IInv, TypeOK, ProducerInv, Pushing
  <2> QED
    BY <1>2, <1>4, <1>5, <1>6, <1>9, <2>1 DEF IInv, TypeOK, ProducerInv, Pushing
<1>11. ConsumerInv'
  BY <1>2, <1>9, NodesAssumption DEF IInv, TypeOK, ConsumerInv, Nodes
<1>12. HeapInv'
  <2>1. \A m \in live : (\E r \in Producers : ppc[r] \in {"store", "exchange"} /\ msg[r] = m)
          => \E r \in Producers : ppc'[r] \in {"store", "exchange"} /\ msg'[r] = m
    BY <1>5, <1>6
  <2> QED
    BY <1>6, <1>9, <2>1 DEF IInv, TypeOK, HeapInv
<1> QED
  BY <1>1, <1>7, <1>8, <1>10, <1>11, <1>12 DEF IInv

LEMMA StoreNextIInv ==
    ASSUME IInv, NEW p \in Producers, StoreNext(p)
    PROVE  IInv'
<1> USE DEF StoreNext, consumerVars
<1> DEFINE n == msg[p]
<1>1. n \in Messages /\ n \in live /\ n \notin InChain /\ n # m_stub_node
  BY NodesAssumption DEF IInv, ProducerInv, Pushing
<1>2. TypeOK'
  BY <1>1 DEF IInv, TypeOK, Nodes, ProducerPC
<1>3. \A i \in 1 .. Len(chain) : next'[chain[i]] = next[chain[i]]
  BY <1>1 DEF IInv, TypeOK, InChain
<1>4. \A r \in Producers : r # p => ppc'[r] = ppc[r]
  BY DEF IInv, TypeOK
<1>5. ppc'[p] = "exchange" /\ ppc[p] = "store" /\ next'[n] = nullptr
  BY <1>1 DEF IInv, TypeOK, Nodes
<1>6. InChain' = InChain
  BY DEF InChain
<1>7. ChainInv'
  <2>1. \A a, b : Linking(a, b) => Linking(a, b)'
    BY <1>4, <1>5 DEF Linking
  <2>2. next'[m_head_node'] = nullptr
    BY <1>3, <1>2, TailFacts DEF IInv, TypeOK, ChainInv
  <2> QED
    BY <1>3, <2>1, <2>2 DEF IInv, TypeOK, ChainInv
<1>8. LinkInv'
  BY <1>3, <1>4, <1>5 DEF IInv, TypeOK, LinkInv
<1>9. ProducerInv'
  <2>1. \A r \in Producers : r # p /\ ppc[r] = "exchange" => next'[msg[r]] = next[msg[r]]
    BY <1>1 DEF IInv, TypeOK, ProducerInv, Pushing
  <2> QED
    BY <1>1, <1>4, <1>5, <1>6, <2>1 DEF IInv, TypeOK, ProducerInv, Pushing
<1>10. ConsumerInv'
  BY <1>1, <1>6 DEF IInv, TypeOK, ConsumerInv
<1>11. HeapInv'
  BY <1>4, <1>5, <1>6 DEF IInv, TypeOK, HeapInv
<1> QED
  BY <1>2, <1>7, <1>8, <1>9, <1>10, <1>11 DEF IInv

-----------------------------------------------------------------------------
(* The steps that change the list. *)

\* What an exchange of node n into the head does to the chain.
LEMMA ExchangeFacts ==
    ASSUME IInv, NEW CONSTANT n \in Nodes, n \notin InChain, next[n] = nullptr,
           chain' = Append(chain, n), m_head_node' = n,
           m_tail_node' = m_tail_node, next' = next,
           \A a, b : Linking(a, b) => Linking(a, b)',
           \A a : a = m_head_node => Linking(a, n)'
    PROVE  /\ ChainInv'
           /\ chain' \in Seq(Nodes)
           /\ InChain' = InChain \cup {n}
           /\ Len(chain') = Len(chain) + 1
           /\ \A i \in 1 .. Len(chain) : chain'[i] = chain[i]
           /\ chain'[Len(chain)] = m_head_node
           /\ chain'[Len(chain) + 1] = n
<1>1. chain \in Seq(Nodes) /\ chain # <<>> /\ Len(chain) \in Nat \ {0}
  BY TailFacts DEF IInv, TypeOK, ChainInv
<1>2. /\ chain' \in Seq(Nodes)
      /\ chain' # <<>>
      /\ Len(chain') = Len(chain) + 1
      /\ \A i \in 1 .. Len(chain) : chain'[i] = chain[i]
      /\ chain'[Len(chain) + 1] = n
  BY <1>1, AppendFacts
<1>3. chain'[Len(chain)] = m_head_node
  BY <1>1, <1>2 DEF IInv, ChainInv
<1>4. InChain' = InChain \cup {n}
  BY <1>1, <1>2 DEF InChain
<1>5. \A i \in 1 .. Len(chain) : chain[i] # n
  BY DEF InChain
<1>6. \A i, j \in 1 .. Len(chain') : chain'[i] = chain'[j] => i = j
  BY <1>1, <1>2, <1>5 DEF IInv, ChainInv
<1>7. ASSUME NEW i \in 1 .. Len(chain') - 1
      PROVE  \/ next'[chain'[i]] = chain'[i + 1]
             \/ next'[chain'[i]] = nullptr /\ Linking(chain[i], chain[i + 1])'
  <2>1. CASE i = Len(chain)
    BY <1>2, <1>3, <2>1 DEF IInv, ChainInv
  <2>2. CASE i # Len(chain)
    <3>1. /\ i \in 1 .. Len(chain) - 1 /\ i + 1 \in 1 .. Len(chain)
          /\ chain'[i] = chain[i] /\ chain'[i + 1] = chain[i + 1]
      BY <1>1, <1>2, <2>2
    <3> QED
      BY <3>1 DEF IInv, ChainInv
  <2> QED
    BY <2>1, <2>2
<1>8. chain'[1] = m_tail_node' /\ chain'[Len(chain')] = m_head_node'
      /\ next'[m_head_node'] = nullptr
  BY <1>1, <1>2 DEF IInv, ChainInv
<1>9. ChainInv'
  BY <1>2, <1>6, <1>7, <1>8 DEF ChainInv
<1> QED
  BY <1>2, <1>3, <1>4, <1>9

LEMMA ExchangeIInv ==
    ASSUME IInv, NEW p \in Producers, Exchange(p)
    PROVE  IInv'
<1> USE DEF Exchange, consumerVars
<1> DEFINE n == msg[p]
<1>1. /\ n \in Messages /\ n \in live /\ n \notin InChain /\ n # m_stub_node
      /\ n # popped /\ next[n] = nullptr /\ n \in Nodes
  BY NodesAssumption DEF IInv, ProducerInv, Pushing, Nodes
<1>2. /\ ppc[p] = "exchange" /\ ppc'[p] = "link" /\ prev'[p] = m_head_node
      /\ \A r \in Producers : r # p => ppc'[r] = ppc[r] /\ prev'[r] = prev[r]
  BY DEF IInv, TypeOK
<1>3. \A a, b : Linking(a, b) => Linking(a, b)'
  BY <1>2 DEF Linking
<1>4. \A a : a = m_head_node => Linking(a, n)'
  BY <1>2 DEF Linking
<1>5. /\ ChainInv'
      /\ chain' \in Seq(Nodes)
      /\ InChain' = InChain \cup {n}
      /\ Len(chain') = Len(chain) + 1
      /\ \A i \in 1 .. Len(chain) : chain'[i] = chain[i]
      /\ chain'[Len(chain)] = m_head_node
      /\ chain'[Len(chain) + 1] = n
  BY <1>1, <1>3, <1>4, ExchangeFacts
<1>6. TypeOK'
  BY <1>1, <1>5 DEF IInv, TypeOK, Nodes, ProducerPC
<1>7. Len(chain) \in Nat \ {0}
  BY TailFacts DEF IInv, TypeOK, ChainInv
<1>8. LinkInv'
  <2>1. ASSUME NEW x, NEW y,
               \E i \in 1 .. Len(chain) - 1 :
                  chain[i] = x /\ chain[i + 1] = y /\ next[chain[i]] = nullptr
        PROVE  \E i \in 1 .. Len(chain') - 1 :
                  chain'[i] = x /\ chain'[i + 1] = y /\ next'[chain'[i]] = nullptr
    <3>1. PICK i \in 1 .. Len(chain) - 1 :
              chain[i] = x /\ chain[i + 1] = y /\ next[chain[i]] = nullptr
      BY <2>1
    <3>2. i \in 1 .. Len(chain') - 1 /\ i \in 1 .. Len(chain) /\ i + 1 \in 1 .. Len(chain)
      BY <1>5, <1>7
    <3>3. chain'[i] = x /\ chain'[i + 1] = y
      BY <1>5, <3>1, <3>2
    <3>4. next' = next
      OBVIOUS
    <3> QED
      BY <3>1, <3>2, <3>3, <3>4
  <2>2. \E i \in 1 .. Len(chain') - 1 :
           chain'[i] = prev'[p] /\ chain'[i + 1] = msg'[p] /\ next'[chain'[i]] = nullptr
    <3>1. Len(chain) \in 1 .. Len(chain') - 1
      BY <1>5, <1>7
    <3> QED
      BY <1>2, <1>5, <3>1 DEF IInv, ChainInv
  <2>3. \A r \in Producers : ppc'[r] = "link" =>
           \E i \in 1 .. Len(chain') - 1 :
              chain'[i] = prev'[r] /\ chain'[i + 1] = msg'[r] /\ next'[chain'[i]] = nullptr
    BY <1>2, <2>1, <2>2 DEF IInv, LinkInv
  <2>4. cpc' = "linkstub" =>
           \E i \in 1 .. Len(chain') - 1 :
              chain'[i] = cprev' /\ chain'[i + 1] = m_stub_node /\ next'[chain'[i]] = nullptr
    BY <2>1 DEF IInv, LinkInv
  <2> QED
    BY <2>3, <2>4 DEF LinkInv
<1>9. ProducerInv'
  BY <1>1, <1>2, <1>5 DEF IInv, ProducerInv, Pushing
<1>10. ConsumerInv'
  BY <1>1, <1>5 DEF IInv, ConsumerInv
<1>11. HeapInv'
  BY <1>1, <1>2, <1>5 DEF IInv, HeapInv
<1> QED
  BY <1>5, <1>6, <1>8, <1>9, <1>10, <1>11 DEF IInv

LEMMA ExchangeStubIInv ==
    ASSUME IInv, ExchangeStub
    PROVE  IInv'
<1> USE DEF ExchangeStub, PopUnchanged, producerVars
<1>1. /\ m_stub_node \notin InChain /\ next[m_stub_node] = nullptr
      /\ m_stub_node \in Nodes /\ m_tail_node # m_stub_node
  BY DEF IInv, ConsumerInv, Nodes, InPop
<1>2. \A a, b : Linking(a, b) => Linking(a, b)'
  BY DEF Linking
<1>3. \A a : a = m_head_node => Linking(a, m_stub_node)'
  BY DEF Linking
<1>4. /\ ChainInv'
      /\ chain' \in Seq(Nodes)
      /\ InChain' = InChain \cup {m_stub_node}
      /\ Len(chain') = Len(chain) + 1
      /\ \A i \in 1 .. Len(chain) : chain'[i] = chain[i]
      /\ chain'[Len(chain)] = m_head_node
      /\ chain'[Len(chain) + 1] = m_stub_node
  BY <1>1, <1>2, <1>3, ExchangeFacts
<1>5. TypeOK'
  BY <1>1, <1>4 DEF IInv, TypeOK, Nodes, ConsumerPC
<1>6. Len(chain) \in Nat \ {0}
  BY TailFacts DEF IInv, TypeOK, ChainInv
<1>7. LinkInv'
  <2>1. \A r \in Producers : ppc'[r] = "link" =>
           \E i \in 1 .. Len(chain') - 1 :
              chain'[i] = prev'[r] /\ chain'[i + 1] = msg'[r] /\ next'[chain'[i]] = nullptr
    BY <1>4, <1>6 DEF IInv, LinkInv
  <2>2. \E i \in 1 .. Len(chain') - 1 :
           chain'[i] = cprev' /\ chain'[i + 1] = m_stub_node /\ next'[chain'[i]] = nullptr
    <3>1. Len(chain) \in 1 .. Len(chain') - 1
      BY <1>4, <1>6
    <3> QED
      BY <1>4, <3>1 DEF IInv, ChainInv
  <2> QED
    BY <2>1, <2>2 DEF LinkInv
<1>8. ProducerInv'
  <2>1. \A r \in Producers : ppc[r] \in Pushing => msg[r] # m_stub_node
    BY NodesAssumption DEF IInv, ProducerInv
  <2> QED
    BY <1>4, <2>1 DEF IInv, ProducerInv, Pushing
<1>9. ConsumerInv'
  BY <1>1, <1>4, NodesAssumption DEF IInv, TypeOK, ConsumerInv, InPop
<1>10. HeapInv'
  BY <1>4 DEF IInv, HeapInv
<1> QED
  BY <1>4, <1>5, <1>7, <1>8, <1>9, <1>10 DEF IInv

\* Linking two neighbours of the chain leaves the chain correct, and no other
\* pair of neighbours is touched.
LEMMA LinkFacts ==
    ASSUME IInv, NEW i \in 1 .. Len(chain) - 1,
           chain' = chain, m_head_node' = m_head_node, m_tail_node' = m_tail_node,
           next' = [next EXCEPT ![chain[i]] = chain[i + 1]],
           \A a, b : Linking(a, b) /\ b # chain[i + 1] => Linking(a, b)'
    PROVE  /\ ChainInv'
           /\ InChain' = InChain
           /\ chain[i] \in InChain /\ chain[i + 1] \in InChain
           /\ next' \in [Nodes -> Nodes \cup {nullptr}]
           /\ \A j \in 1 .. Len(chain) - 1 :
                 j # i => next'[chain[j]] = next[chain[j]]
<1>1. chain \in Seq(Nodes) /\ Len(chain) \in Nat \ {0}
  BY TailFacts DEF IInv, TypeOK, ChainInv
<1>2. i \in 1 .. Len(chain) /\ i + 1 \in 1 .. Len(chain)
  BY <1>1
<1>3. chain[i] \in Nodes /\ chain[i + 1] \in Nodes
  BY <1>1, <1>2
<1>4. next' \in [Nodes -> Nodes \cup {nullptr}] /\ next'[chain[i]] = chain[i + 1]
  BY <1>3 DEF IInv, TypeOK
<1>5. \A j \in 1 .. Len(chain) : chain[j] \in Nodes /\ (j # i => chain[j] # chain[i])
  BY <1>1, <1>2 DEF IInv, ChainInv
<1>6. \A j \in 1 .. Len(chain) : j # i => next'[chain[j]] = next[chain[j]]
  BY <1>5 DEF IInv, TypeOK
<1>7. InChain' = InChain /\ chain[i] \in InChain /\ chain[i + 1] \in InChain
  BY <1>2 DEF InChain
<1>8. next'[m_head_node'] = nullptr
  <2>1. Len(chain) \in 1 .. Len(chain) /\ Len(chain) # i
    BY <1>1
  <2> QED
    BY <1>6, <2>1 DEF IInv, ChainInv
<1>9. ASSUME NEW j \in 1 .. Len(chain) - 1
      PROVE  \/ next'[chain[j]] = chain[j + 1]
             \/ next'[chain[j]] = nullptr /\ Linking(chain[j], chain[j + 1])'
  <2>1. CASE j = i
    BY <1>4, <2>1
  <2>2. CASE j # i
    <3>1. j \in 1 .. Len(chain) /\ j + 1 \in 1 .. Len(chain) /\ chain[j + 1] # chain[i + 1]
      BY <1>1, <1>2, <2>2 DEF IInv, ChainInv
    <3> QED
      BY <1>6, <2>2, <3>1 DEF IInv, ChainInv
  <2> QED
    BY <2>1, <2>2
<1>10. ChainInv'
  BY <1>8, <1>9 DEF IInv, ChainInv
<1>11. \A j \in 1 .. Len(chain) - 1 : j # i => next'[chain[j]] = next[chain[j]]
  BY <1>1, <1>6
<1> QED
  BY <1>4, <1>7, <1>10, <1>11

LEMMA LinkIInv ==
    ASSUME IInv, NEW p \in Producers, Link(p)
    PROVE  IInv'
<1> USE DEF Link, consumerVars
<1> PICK i \in 1 .. Len(chain) - 1 :
          chain[i] = prev[p] /\ chain[i + 1] = msg[p] /\ next[chain[i]] = nullptr
  BY DEF IInv, LinkInv
<1>1. /\ ppc[p] = "link" /\ ppc'[p] = "count"
      /\ \A r \in Producers : r # p => ppc'[r] = ppc[r] /\ prev'[r] = prev[r]
                                       /\ msg'[r] = msg[r]
  BY DEF IInv, TypeOK
<1>2. msg[p] \in Messages /\ msg[p] # m_stub_node
  BY <1>1, NodesAssumption DEF IInv, ProducerInv, Pushing
<1>3. \A a, b : Linking(a, b) /\ b # chain[i + 1] => Linking(a, b)'
  BY <1>1 DEF Linking
<1>4. /\ ChainInv'
      /\ InChain' = InChain
      /\ chain[i] \in InChain /\ chain[i + 1] \in InChain
      /\ next' \in [Nodes -> Nodes \cup {nullptr}]
      /\ \A j \in 1 .. Len(chain) - 1 : j # i => next'[chain[j]] = next[chain[j]]
  BY <1>3, LinkFacts
<1>5. TypeOK'
  BY <1>4 DEF IInv, TypeOK, ProducerPC
<1>6. LinkInv'
  <2>1. \A r \in Producers : r # p /\ ppc[r] \in Pushing => msg[r] # chain[i + 1]
    BY <1>1 DEF IInv, ProducerInv, Pushing
  <2>2. \A r \in Producers : ppc'[r] = "link" =>
           \E j \in 1 .. Len(chain) - 1 :
              chain[j] = prev'[r] /\ chain[j + 1] = msg'[r] /\ next'[chain[j]] = nullptr
    BY <1>1, <1>4, <2>1 DEF IInv, LinkInv, Pushing
  <2>3. cpc = "linkstub" =>
           \E j \in 1 .. Len(chain) - 1 :
              chain[j] = cprev /\ chain[j + 1] = m_stub_node /\ next'[chain[j]] = nullptr
    BY <1>2, <1>4 DEF IInv, LinkInv
  <2>4. chain' = chain /\ cpc' = cpc /\ cprev' = cprev
    OBVIOUS
  <2>5. \A r \in Producers : ppc'[r] = "link" =>
           \E j \in 1 .. Len(chain') - 1 :
              chain'[j] = prev'[r] /\ chain'[j + 1] = msg'[r] /\ next'[chain'[j]] = nullptr
    <3> HIDE DEF Link
    <3> QED
      BY <2>2, <2>4
  <2>6. cpc' = "linkstub" =>
           \E j \in 1 .. Len(chain') - 1 :
              chain'[j] = cprev' /\ chain'[j + 1] = m_stub_node /\ next'[chain'[j]] = nullptr
    <3> HIDE DEF Link
    <3> QED
      BY <2>3, <2>4
  <2> HIDE DEF Link
  <2> QED
    BY <2>5, <2>6 DEF LinkInv
<1>7. ProducerInv'
  <2>1. \A r \in Producers : ppc[r] = "exchange" => next'[msg[r]] = next[msg[r]]
    BY <1>4 DEF IInv, TypeOK, ProducerInv, Pushing
  <2> QED
    BY <1>1, <1>4, <2>1 DEF IInv, ProducerInv, Pushing
<1>8. ConsumerInv'
  <2>1. cpc = "exchangestub" => next'[m_stub_node] = nullptr
    BY <1>4 DEF IInv, TypeOK, ConsumerInv, Nodes
  <2> QED
    BY <1>4, <2>1 DEF IInv, ConsumerInv
<1>9. HeapInv'
  BY <1>1, <1>4 DEF IInv, HeapInv
<1> QED
  BY <1>4, <1>5, <1>6, <1>7, <1>8, <1>9 DEF IInv

LEMMA LinkStubIInv ==
    ASSUME IInv, LinkStub
    PROVE  IInv'
<1> USE DEF LinkStub, PopUnchanged, producerVars
<1> PICK i \in 1 .. Len(chain) - 1 :
          chain[i] = cprev /\ chain[i + 1] = m_stub_node /\ next[chain[i]] = nullptr
  BY DEF IInv, LinkInv
<1>1. \A r \in Producers : ppc[r] \in Pushing => msg[r] # m_stub_node
  BY NodesAssumption DEF IInv, ProducerInv
<1>2. \A a, b : Linking(a, b) /\ b # chain[i + 1] => Linking(a, b)'
  BY DEF Linking
<1>3. /\ ChainInv'
      /\ InChain' = InChain
      /\ chain[i] \in InChain /\ chain[i + 1] \in InChain
      /\ next' \in [Nodes -> Nodes \cup {nullptr}]
      /\ \A j \in 1 .. Len(chain) - 1 : j # i => next'[chain[j]] = next[chain[j]]
  BY <1>2, LinkFacts
<1>4. TypeOK'
  BY <1>3 DEF IInv, TypeOK, ConsumerPC
<1>5. LinkInv'
  BY <1>1, <1>3 DEF IInv, LinkInv, Pushing
<1>6. ProducerInv'
  <2>1. \A r \in Producers : ppc[r] = "exchange" => next'[msg[r]] = next[msg[r]]
    BY <1>3 DEF IInv, TypeOK, ProducerInv, Pushing
  <2> QED
    BY <1>3, <2>1 DEF IInv, ProducerInv, Pushing
<1>7. ConsumerInv'
  BY <1>3 DEF IInv, ConsumerInv, InPop
<1>8. HeapInv'
  BY <1>3 DEF IInv, HeapInv
<1> QED
  BY <1>3, <1>4, <1>5, <1>6, <1>7, <1>8 DEF IInv

\* What moving the tail to its successor does to the chain.
LEMMA AdvanceFacts ==
    ASSUME IInv, next[m_tail_node] # nullptr,
           m_tail_node' = next[m_tail_node], chain' = Tail(chain),
           m_head_node' = m_head_node, next' = next,
           \A a, b : Linking(a, b) => Linking(a, b)'
    PROVE  /\ ChainInv'
           /\ chain' \in Seq(Nodes)
           /\ m_tail_node' \in Nodes
           /\ m_tail_node \notin InChain'
           /\ InChain = InChain' \cup {m_tail_node}
           /\ Len(chain) \in Nat \ {0}
           /\ Len(chain') = Len(chain) - 1
           /\ \A i \in 1 .. Len(chain) - 1 : chain'[i] = chain[i + 1]
<1>1. /\ chain \in Seq(Nodes) /\ Len(chain) \in Nat \ {0}
      /\ chain' \in Seq(Nodes)
      /\ Len(chain') = Len(chain) - 1
      /\ \A i \in 1 .. Len(chain) - 1 : chain'[i] = chain[i + 1]
  BY TailFacts DEF IInv, TypeOK, ChainInv
<1>2. Len(chain) > 1
  BY <1>1 DEF IInv, ChainInv
<1>3. next[m_tail_node] = chain[2] /\ chain[2] \in Nodes
  BY <1>1, <1>2 DEF IInv, ChainInv
<1>4. chain' # <<>> /\ chain'[1] = m_tail_node' /\ m_tail_node' \in Nodes
  <2>1. 1 \in 1 .. Len(chain) - 1 /\ Len(chain') # 0
    BY <1>1, <1>2
  <2>2. chain'[1] = chain[2]
    BY <1>1, <2>1
  <2> QED
    BY <1>3, <2>1, <2>2
<1>5. chain'[Len(chain')] = m_head_node' /\ next'[m_head_node'] = nullptr
  BY <1>1, <1>2 DEF IInv, ChainInv
<1>6. \A i, j \in 1 .. Len(chain') : chain'[i] = chain'[j] => i = j
  BY <1>1 DEF IInv, ChainInv
<1>7. ASSUME NEW i \in 1 .. Len(chain') - 1
      PROVE  \/ next'[chain'[i]] = chain'[i + 1]
             \/ next'[chain'[i]] = nullptr /\ Linking(chain[i], chain[i + 1])'
  <2>1. /\ i + 1 \in 1 .. Len(chain) - 1
        /\ chain'[i] = chain[i + 1] /\ chain'[i + 1] = chain[(i + 1) + 1]
    BY <1>1
  <2> QED
    BY <2>1 DEF IInv, ChainInv
<1>8. ChainInv'
  BY <1>4, <1>5, <1>6, <1>7 DEF ChainInv
<1>9. m_tail_node \notin InChain'
  BY <1>1 DEF InChain, IInv, ChainInv
<1>10. InChain = InChain' \cup {m_tail_node}
  <2>1. InChain' \subseteq InChain
    BY <1>1 DEF InChain
  <2>2. m_tail_node \in InChain
    BY <1>1 DEF InChain, IInv, ChainInv
  <2>3. ASSUME NEW x \in InChain, x # m_tail_node PROVE x \in InChain'
    <3>1. PICK i \in 1 .. Len(chain) : chain[i] = x
      BY DEF InChain
    <3>2. i # 1 /\ i - 1 \in 1 .. Len(chain') /\ chain'[i - 1] = x
      BY <1>1, <2>3, <3>1 DEF IInv, ChainInv
    <3> QED
      BY <3>2 DEF InChain
  <2> QED
    BY <2>1, <2>2, <2>3
<1> QED
  BY <1>1, <1>4, <1>8, <1>9, <1>10

\* Pending links survive an advance: none of them starts at the tail.
LEMMA AdvanceLinkInv ==
    ASSUME IInv, next[m_tail_node] # nullptr,
           Len(chain) \in Nat \ {0},
           Len(chain') = Len(chain) - 1,
           \A i \in 1 .. Len(chain) - 1 : chain'[i] = chain[i + 1],
           next' = next, UNCHANGED producerVars,
           cpc # "linkstub", cpc' # "linkstub"
    PROVE  LinkInv'
<1>1. ASSUME NEW p \in Producers, ppc'[p] = "link"
      PROVE  \E i \in 1 .. Len(chain') - 1 :
                chain'[i] = prev'[p] /\ chain'[i + 1] = msg'[p] /\ next'[chain'[i]] = nullptr
  <2>1. PICK i \in 1 .. Len(chain) - 1 :
               chain[i] = prev[p] /\ chain[i + 1] = msg[p] /\ next[chain[i]] = nullptr
    BY <1>1 DEF IInv, LinkInv, producerVars
  <2>2. i # 1
    BY <2>1 DEF IInv, ChainInv
  <2>3. i - 1 \in 1 .. Len(chain') - 1 /\ i - 1 \in 1 .. Len(chain) - 1
    BY <2>2
  <2>4. chain'[i - 1] = chain[i] /\ chain'[(i - 1) + 1] = chain[i + 1]
    BY <2>3
  <2> QED
    BY <2>1, <2>3, <2>4 DEF producerVars
<1> QED
  BY <1>1 DEF LinkInv

LEMMA SkipStubIInv ==
    ASSUME IInv, cpc = "first", m_tail_node = m_stub_node, SkipStub
    PROVE  IInv'
<1> USE DEF SkipStub, PopUnchanged
<1>1. \A a, b : Linking(a, b) => Linking(a, b)'
  BY DEF Linking, producerVars
<1>2. /\ ChainInv'
      /\ chain' \in Seq(Nodes)
      /\ m_tail_node' \in Nodes
      /\ m_tail_node \notin InChain'
      /\ InChain = InChain' \cup {m_tail_node}
      /\ Len(chain) \in Nat \ {0}
      /\ Len(chain') = Len(chain) - 1
      /\ \A i \in 1 .. Len(chain) - 1 : chain'[i] = chain[i + 1]
  BY <1>1, AdvanceFacts
<1>3. LinkInv'
  BY <1>2, AdvanceLinkInv
<1>4. TypeOK'
  BY <1>2 DEF IInv, TypeOK, ConsumerPC, producerVars
<1>5. m_tail_node' # m_stub_node
  <2>1. Len(chain) > 1
    BY <1>2 DEF IInv, ChainInv
  <2>2. 1 \in 1 .. Len(chain') /\ chain'[1] = m_tail_node'
    BY <1>2, <2>1 DEF ChainInv
  <2> QED
    BY <1>2, <2>2 DEF InChain
<1>6. ProducerInv' /\ ConsumerInv'
  BY <1>2, <1>5 DEF IInv, ProducerInv, ConsumerInv, InPop, Pushing, producerVars
<1>7. HeapInv'
  BY <1>2, NodesAssumption DEF IInv, TypeOK, HeapInv, producerVars
<1> QED
  BY <1>2, <1>3, <1>4, <1>6, <1>7 DEF IInv

LEMMA ReturnTailIInv ==
    ASSUME IInv, cpc \in {"first", "second", "last"},
           m_tail_node # m_stub_node, ReturnTail
    PROVE  IInv'
<1> USE DEF ReturnTail, PopUnchanged
<1>1. \A a, b : Linking(a, b) => Linking(a, b)'
  BY DEF Linking, producerVars
<1>2. /\ ChainInv'
      /\ chain' \in Seq(Nodes)
      /\ m_tail_node' \in Nodes
      /\ m_tail_node \notin InChain'
      /\ InChain = InChain' \cup {m_tail_node}
      /\ Len(chain) \in Nat \ {0}
      /\ Len(chain') = Len(chain) - 1
      /\ \A i \in 1 .. Len(chain) - 1 : chain'[i] = chain[i + 1]
  BY <1>1, AdvanceFacts
<1>3. LinkInv'
  BY <1>2, AdvanceLinkInv
<1>4. popped' \in Messages /\ popped' \in live /\ popped' # nullptr
  BY <1>2, NodesAssumption DEF IInv, TypeOK, HeapInv, Nodes
<1>5. popped = nullptr
  BY DEF IInv, ConsumerInv
<1>6. TypeOK'
  BY <1>2, <1>4 DEF IInv, TypeOK, ConsumerPC, producerVars
<1>7. ProducerInv'
  BY <1>2 DEF IInv, ProducerInv, Pushing, producerVars
<1>8. ConsumerInv'
  BY <1>2, <1>4 DEF ConsumerInv, InPop
<1>9. HeapInv'
  BY <1>2, <1>5, NodesAssumption DEF IInv, TypeOK, HeapInv, producerVars
<1> QED
  BY <1>2, <1>3, <1>6, <1>7, <1>8, <1>9 DEF IInv

LEMMA StoreStubIInv ==
    ASSUME IInv, StoreStub
    PROVE  IInv'
<1> USE DEF StoreStub, PopUnchanged, producerVars
<1>1. m_stub_node \notin InChain /\ m_stub_node \in Nodes
  BY DEF IInv, ConsumerInv, Nodes
<1>2. /\ next' \in [Nodes -> Nodes \cup {nullptr}]
      /\ next'[m_stub_node] = nullptr
      /\ \A n : n # m_stub_node /\ n \in Nodes => next'[n] = next[n]
  BY <1>1 DEF IInv, TypeOK
<1>3. \A i \in 1 .. Len(chain) : next'[chain[i]] = next[chain[i]]
  BY <1>1, <1>2 DEF IInv, TypeOK, InChain
<1>4. \A a, b : Linking(a, b) => Linking(a, b)'
  BY DEF Linking
<1>5. ChainInv'
  <2>1. next'[m_head_node'] = nullptr
    BY <1>2 DEF IInv, TypeOK, ChainInv
  <2> QED
    BY <1>3, <1>4, <2>1 DEF IInv, TypeOK, ChainInv
<1>6. TypeOK'
  BY <1>2 DEF IInv, TypeOK, ConsumerPC
<1>7. LinkInv'
  BY <1>3 DEF IInv, TypeOK, LinkInv
<1>8. InChain' = InChain
  BY DEF InChain
<1>9. ProducerInv'
  BY <1>2, <1>8, NodesAssumption DEF IInv, ProducerInv, Pushing, Nodes
<1>10. ConsumerInv' /\ HeapInv'
  BY <1>2, <1>8 DEF IInv, ConsumerInv, HeapInv, InPop
<1> QED
  BY <1>5, <1>6, <1>7, <1>9, <1>10 DEF IInv

LEMMA DeleteMessageIInv ==
    ASSUME IInv, DeleteMessage
    PROVE  IInv'
<1> USE DEF DeleteMessage, producerVars
<1>1. popped # nullptr /\ popped \notin InChain
  BY DEF IInv, ConsumerInv
<1>2. TypeOK'
  BY DEF IInv, TypeOK, ConsumerPC
<1>3. \A a, b : Linking(a, b) => Linking(a, b)'
  BY DEF Linking
<1>4. ChainInv'
  BY <1>3 DEF IInv, ChainInv
<1>5. LinkInv'
  BY DEF IInv, LinkInv
<1>6. InChain' = InChain
  BY DEF InChain
<1>7. ProducerInv'
  BY <1>6, NodesAssumption DEF IInv, TypeOK, ProducerInv, Pushing
<1>8. ConsumerInv'
  BY <1>6 DEF IInv, ConsumerInv, InPop
<1>9. HeapInv'
  BY <1>1, <1>6 DEF IInv, HeapInv
<1> QED
  BY <1>2, <1>4, <1>5, <1>7, <1>8, <1>9 DEF IInv

-----------------------------------------------------------------------------
(* The consumer's loads, case by case. *)

LEMMA LoadIInv ==
    ASSUME IInv, LoadFirst \/ LoadSecond \/ LoadHead \/ LoadLast
    PROVE  IInv'
<1>1. ASSUME cpc \in {"first", "head", "last"}, ReturnNull PROVE IInv'
  <2>1. MoveTo("check")
    BY <1>1 DEF ReturnNull, MoveTo, PopUnchanged, listVars
  <2> QED
    BY <1>1, <2>1, MoveIInv DEF ConsumerPC, InPop
<1>2. ASSUME cpc \in {"first", "second"}, m_tail_node # m_stub_node, GoToHead
      PROVE  IInv'
  <2>1. MoveTo("head")
    BY <1>2 DEF GoToHead, MoveTo, PopUnchanged, listVars
  <2> QED
    BY <1>2, <2>1, MoveIInv DEF ConsumerPC, InPop
<1>3. CASE LoadFirst
  BY <1>1, <1>2, <1>3, SkipStubIInv, ReturnTailIInv DEF LoadFirst
<1>4. CASE LoadSecond
  <2>1. m_tail_node # m_stub_node
    BY <1>4 DEF LoadSecond, IInv, ConsumerInv, InPop
  <2> QED
    BY <1>2, <1>4, <2>1, ReturnTailIInv DEF LoadSecond
<1>5. CASE LoadHead
  <2>1. CASE m_tail_node # m_head_node
    BY <1>1, <1>5, <2>1 DEF LoadHead
  <2>2. CASE m_tail_node = m_head_node
    <3>1. MoveTo("storestub") /\ cpc = "head"
      BY <1>5, <2>2 DEF LoadHead, MoveTo, PopUnchanged, listVars
    <3>2. m_tail_node # m_stub_node
      BY <3>1 DEF IInv, ConsumerInv, InPop
    <3>3. m_stub_node \notin InChain
      <4>1. Len(chain) \in Nat \ {0}
        BY TailFacts DEF IInv, TypeOK, ChainInv
      <4>2. 1 \in 1 .. Len(chain) /\ Len(chain) \in 1 .. Len(chain)
        BY <4>1
      <4>3. Len(chain) = 1
        BY <2>2, <4>2 DEF IInv, ChainInv
      <4> QED
        BY <3>2, <4>3 DEF InChain, IInv, ChainInv
    <3> QED
      BY <3>1, <3>2, <3>3, MoveIInv DEF ConsumerPC
  <2> QED
    BY <2>1, <2>2
<1>6. CASE LoadLast
  <2>1. m_tail_node # m_stub_node
    BY <1>6 DEF LoadLast, IInv, ConsumerInv, InPop
  <2> QED
    BY <1>1, <1>6, <2>1, ReturnTailIInv DEF LoadLast
<1> QED
  BY <1>3, <1>4, <1>5, <1>6

LEMMA NextIInv == IInv /\ [Next]_vars => IInv'
<1> SUFFICES ASSUME IInv, [Next]_vars PROVE IInv'
  OBVIOUS
<1>1. ASSUME NEW p \in Producers, CreateEvent(p) PROVE IInv'
  BY <1>1, CreateEventIInv
<1>2. ASSUME NEW p \in Producers, PushStep(p) PROVE IInv'
  BY <1>2, StoreNextIInv, ExchangeIInv, LinkIInv, CountIInv DEF PushStep
<1>3. CASE CheckEmpty
  <2>1. MoveTo("first") /\ cpc = "check"
    BY <1>3 DEF CheckEmpty, MoveTo, PopUnchanged, listVars
  <2> QED
    BY <2>1, MoveIInv DEF ConsumerPC, InPop
<1>4. CASE LoadFirst \/ LoadSecond \/ LoadHead \/ LoadLast
  BY <1>4, LoadIInv
<1>5. CASE StoreStub \/ ExchangeStub \/ LinkStub
  BY <1>5, StoreStubIInv, ExchangeStubIInv, LinkStubIInv
<1>6. CASE Decrement \/ DeleteMessage
  BY <1>6, DecrementIInv, DeleteMessageIInv
<1>7. CASE UNCHANGED vars
  <2>1. TypeOK'
    BY <1>7 DEF vars, producerVars, consumerVars, IInv, TypeOK
  <2>2. ChainInv' /\ LinkInv'
    BY <1>7 DEF vars, producerVars, consumerVars, IInv, ChainInv, LinkInv, Linking
  <2>3. ProducerInv' /\ ConsumerInv' /\ HeapInv'
    BY <1>7 DEF vars, producerVars, consumerVars, IInv, ProducerInv, ConsumerInv,
                HeapInv, InChain
  <2> QED
    BY <2>1, <2>2, <2>3 DEF IInv
<1> QED
  BY <1>1, <1>2, <1>3, <1>4, <1>5, <1>6, <1>7 DEF Next, ConsumerStep

-----------------------------------------------------------------------------
(* The theorems. *)

\* IInv holds in every reachable state, for any number of producers and
\* messages (the steps of push() and pop(), message_queue.cpp:45-90).
THEOREM Invariance == Spec => []IInv
<1>1. Init => IInv
  BY InitIInv
<1>2. IInv /\ [Next]_vars => IInv'
  BY NextIInv
<1> QED
  BY <1>1, <1>2, PTL DEF Spec

\* All variables keep their types; mq_size stays a size_t.
THEOREM TypeCorrect == Spec => []TypeOK
<1>1. IInv => TypeOK
  BY DEF IInv
<1> QED
  BY <1>1, Invariance, PTL

\* Every allocated message has exactly one owner (message_queue.cpp:45-90).
THEOREM OwnershipHolds == Spec => []Ownership
<1>1. IInv => Ownership
  <2> SUFFICES ASSUME IInv PROVE Ownership
    OBVIOUS
  <2>1. \A n \in live : n \in ProducerOwned
                              \/ n \in InChain \ {m_stub_node} \/ n \in Popped
    <3> SUFFICES ASSUME NEW n \in live
                 PROVE  n \in ProducerOwned
                          \/ n \in InChain \ {m_stub_node} \/ n \in Popped
      OBVIOUS
    <3>1. n # m_stub_node /\ n # nullptr
      BY NodesAssumption DEF IInv, TypeOK
    <3>2. ASSUME NEW p \in Producers, ppc[p] \in {"store", "exchange"}, msg[p] = n
          PROVE  n \in ProducerOwned
      BY <3>2 DEF Owned, ProducerOwned
    <3> QED
      BY <3>1, <3>2 DEF IInv, HeapInv, Popped
  <2>2. \A p \in Producers : Owned(p) \subseteq live /\ Owned(p) \cap (InChain \cup Popped) = {}
    BY DEF IInv, ProducerInv, Owned, Popped
  <2>3. InChain \ {m_stub_node} \subseteq live
    BY DEF IInv, HeapInv
  <2>4. Popped \subseteq live /\ Popped \cap InChain = {}
    BY DEF IInv, ConsumerInv, Popped
  <2>5. \A p, r \in Producers : p # r => Owned(p) \cap Owned(r) = {}
    BY DEF IInv, ProducerInv, Owned, Pushing
  <2>6. \A i, j \in 1 .. Len(chain) : chain[i] = chain[j] => i = j
    BY DEF IInv, ChainInv
  <2>7. live = ProducerOwned \cup (InChain \ {m_stub_node}) \cup Popped
    <3>1. ProducerOwned \subseteq live
      BY <2>2 DEF ProducerOwned
    <3> QED
      BY <2>1, <2>3, <2>4, <3>1
  <2> QED
    BY <2>2, <2>4, <2>5, <2>6, <2>7 DEF Ownership
<1> QED
  BY <1>1, Invariance, PTL

\* No step dereferences a deleted node (message_queue.cpp:51, 57, 66, 82).
THEOREM NoDanglingAccessHolds == Spec => []NoDanglingAccess
<1>1. IInv => NoDanglingAccess
  <2> SUFFICES ASSUME IInv PROVE NoDanglingAccess
    OBVIOUS
  <2>1. \A i \in 1 .. Len(chain) : chain[i] \in live \cup {m_stub_node}
    BY DEF IInv, HeapInv, InChain
  <2>2. Len(chain) \in Nat \ {0}
    BY TailFacts DEF IInv, TypeOK, ChainInv
  <2>3. \A i \in 1 .. Len(chain) - 1 : i \in 1 .. Len(chain)
    BY <2>2
  <2>4. m_tail_node \in live \cup {m_stub_node}
    BY <2>1, <2>2 DEF IInv, ChainInv
  <2>5. \A p \in Producers : ppc[p] = "link" => prev[p] \in live \cup {m_stub_node}
    BY <2>1, <2>3 DEF IInv, LinkInv
  <2>6. cpc = "linkstub" => cprev \in live \cup {m_stub_node}
    BY <2>1, <2>3 DEF IInv, LinkInv
  <2>7. \A p \in Producers : ppc[p] = "store" => msg[p] \in live \cup {m_stub_node}
    BY DEF IInv, ProducerInv
  <2>8. cpc \in {"decrement", "delete"} => popped \in live
    BY DEF IInv, ConsumerInv
  <2> QED
    BY <2>4, <2>5, <2>6, <2>7, <2>8 DEF NoDanglingAccess
<1> QED
  BY <1>1, Invariance, PTL

-----------------------------------------------------------------------------
(* A sequence of distinct nodes without the stub.                           *)

Elements(c) == {c[i] : i \in 1 .. Len(c)}
Distinct(c) == \A i, j \in 1 .. Len(c) : c[i] = c[j] => i = j

\* c without its element at position k.
Without(c, k) ==
    [i \in 1 .. Len(c) - 1 |-> IF i < k THEN c[i] ELSE c[i + 1]]

\* Queue, as a function of the chain.
Stubless(c) ==
    IF m_stub_node \notin Elements(c)
    THEN c
    ELSE Without(c, CHOOSE i \in 1 .. Len(c) : c[i] = m_stub_node)

LEMMA QueueIsStubless == Queue = Stubless(chain) /\ InChain = Elements(chain)
  BY DEF Queue, Stubless, InChain, Elements, Without

LEMMA WithoutFacts ==
    ASSUME NEW S, NEW c \in Seq(S), NEW k \in 1 .. Len(c)
    PROVE  /\ Without(c, k) \in Seq(S)
           /\ Len(Without(c, k)) = Len(c) - 1
           /\ \A i \in 1 .. Len(c) - 1 :
                 Without(c, k)[i] = IF i < k THEN c[i] ELSE c[i + 1]
<1>1. Len(c) \in Nat /\ Len(c) - 1 \in Nat
  OBVIOUS
<1>2. \A i \in 1 .. Len(c) - 1 : (IF i < k THEN c[i] ELSE c[i + 1]) \in S
  OBVIOUS
<1>3. Without(c, k) \in [1 .. Len(c) - 1 -> S]
  BY <1>2 DEF Without
<1> QED
  BY <1>1, <1>3 DEF Without

\* The position of the stub is unique, so the CHOOSE of Queue is that one.
LEMMA StublessAt ==
    ASSUME NEW c, Distinct(c), NEW k \in 1 .. Len(c), c[k] = m_stub_node
    PROVE  Stubless(c) = Without(c, k)
<1>1. m_stub_node \in Elements(c)
  BY DEF Elements
<1>2. (CHOOSE i \in 1 .. Len(c) : c[i] = m_stub_node) = k
  BY DEF Distinct
<1> QED
  BY <1>1, <1>2 DEF Stubless

\* A chain without the stub holds messages only.
LEMMA StublessFacts ==
    ASSUME NEW c \in Seq(Nodes), Distinct(c)
    PROVE  /\ Stubless(c) \in Seq(Messages)
           /\ Len(Stubless(c)) =
                IF m_stub_node \in Elements(c) THEN Len(c) - 1 ELSE Len(c)
           /\ Elements(Stubless(c)) = Elements(c) \ {m_stub_node}
<1>1. CASE m_stub_node \notin Elements(c)
  <2>1. Stubless(c) = c
    BY <1>1 DEF Stubless
  <2>2. \A i \in 1 .. Len(c) : c[i] \in Messages
    BY <1>1 DEF Elements, Nodes
  <2>3. c \in [1 .. Len(c) -> Messages] /\ Len(c) \in Nat
    BY <2>2
  <2> QED
    BY <1>1, <2>1, <2>3 DEF Elements
<1>2. CASE m_stub_node \in Elements(c)
  <2>1. PICK k \in 1 .. Len(c) : c[k] = m_stub_node
    BY <1>2 DEF Elements
  <2> DEFINE w == Without(c, k)
  <2>2. /\ Stubless(c) = w
        /\ w \in Seq(Nodes)
        /\ Len(w) = Len(c) - 1
        /\ \A i \in 1 .. Len(c) - 1 : w[i] = IF i < k THEN c[i] ELSE c[i + 1]
    BY <2>1, StublessAt, WithoutFacts
  <2>3. Len(c) \in Nat /\ Len(w) \in Nat
    BY <2>2
  <2> HIDE DEF w
  <2>4. \A i \in 1 .. Len(w) : w[i] \in Elements(c) /\ w[i] # m_stub_node
    BY <2>1, <2>2, <2>3 DEF Elements, Distinct
  <2>5. ASSUME NEW x \in Elements(c), x # m_stub_node
        PROVE  x \in Elements(w)
    <3>1. PICK i \in 1 .. Len(c) : c[i] = x
      BY DEF Elements
    <3>2. CASE i < k
      <4>1. i \in 1 .. Len(w) /\ w[i] = x
        BY <2>2, <2>3, <3>1, <3>2
      <4> QED
        BY <4>1 DEF Elements
    <3>3. CASE i > k
      <4>1. i - 1 \in 1 .. Len(w) /\ w[i - 1] = c[(i - 1) + 1]
        BY <2>2, <2>3, <3>3
      <4> QED
        BY <3>1, <4>1 DEF Elements
    <3>4. i # k
      BY <2>1, <2>5, <3>1
    <3> QED
      BY <3>2, <3>3, <3>4
  <2>6. Elements(w) = Elements(c) \ {m_stub_node}
    BY <2>4, <2>5 DEF Elements
  <2>7. w \in Seq(Messages)
    <3>1. \A i \in 1 .. Len(w) : w[i] \in Messages
      BY <2>2, <2>4 DEF Nodes
    <3>2. w \in [1 .. Len(w) -> Messages]
      BY <2>2, <3>1
    <3> QED
      BY <2>3, <3>2
  <2> QED
    BY <1>2, <2>2, <2>6, <2>7
<1> QED
  BY <1>1, <1>2

-----------------------------------------------------------------------------
(* What the steps that change the chain do to the queue. *)

LEMMA ElementsOfAppend ==
    ASSUME NEW c \in Seq(Nodes), NEW n \in Nodes
    PROVE  Elements(Append(c, n)) = Elements(c) \cup {n}
<1>1. /\ Len(c) \in Nat
      /\ Len(Append(c, n)) = Len(c) + 1
      /\ \A i \in 1 .. Len(c) : Append(c, n)[i] = c[i]
      /\ Append(c, n)[Len(c) + 1] = n
  BY AppendFacts
<1> QED
  BY <1>1 DEF Elements

\* The exchange of a message: the queue grows at its end.
LEMMA StublessAppend ==
    ASSUME NEW c \in Seq(Nodes), Distinct(c), NEW n \in Messages, n \notin Elements(c)
    PROVE  /\ Stubless(Append(c, n)) = Append(Stubless(c), n)
           /\ Distinct(Append(c, n))
<1> DEFINE d == Append(c, n)
<1>1. /\ Len(c) \in Nat
      /\ n \in Nodes /\ n # m_stub_node
      /\ d \in Seq(Nodes) /\ Len(d) = Len(c) + 1
      /\ \A i \in 1 .. Len(c) : d[i] = c[i]
      /\ d[Len(c) + 1] = n
  BY AppendFacts, NodesAssumption DEF Nodes
<1>2. Elements(d) = Elements(c) \cup {n}
  BY <1>1, ElementsOfAppend
<1>3. Distinct(d)
  <2> HIDE DEF d
  <2> QED
    BY <1>1 DEF Distinct, Elements
<1>4. CASE m_stub_node \notin Elements(c)
  BY <1>1, <1>2, <1>3, <1>4 DEF Stubless
<1>5. CASE m_stub_node \in Elements(c)
  <2>1. PICK k \in 1 .. Len(c) : c[k] = m_stub_node
    BY <1>5 DEF Elements
  <2>2. k \in 1 .. Len(d) /\ d[k] = m_stub_node
    BY <1>1, <2>1
  <2>3. Stubless(c) = Without(c, k) /\ Stubless(d) = Without(d, k)
    BY <1>3, <2>1, <2>2, StublessAt
  <2>4. /\ Without(c, k) \in Seq(Nodes) /\ Len(Without(c, k)) = Len(c) - 1
        /\ \A i \in 1 .. Len(c) - 1 :
              Without(c, k)[i] = IF i < k THEN c[i] ELSE c[i + 1]
    BY WithoutFacts
  <2>5. /\ Without(d, k) \in Seq(Nodes) /\ Len(Without(d, k)) = Len(c)
        /\ \A i \in 1 .. Len(c) :
              Without(d, k)[i] = IF i < k THEN d[i] ELSE d[i + 1]
    <3> HIDE DEF d
    <3>1. Len(d) - 1 = Len(c)
      BY <1>1
    <3> QED
      BY <1>1, <2>2, <3>1, WithoutFacts
  <2> DEFINE w == Append(Without(c, k), n)
  <2>6. /\ w \in Seq(Nodes) /\ Len(w) = Len(c)
        /\ \A i \in 1 .. Len(c) - 1 : w[i] = IF i < k THEN c[i] ELSE c[i + 1]
        /\ w[Len(c)] = n
    BY <1>1, <2>4, AppendFacts
  <2>7. \A i \in 1 .. Len(c) : Without(d, k)[i] = w[i]
    <3> HIDE DEF d, w
    <3> SUFFICES ASSUME NEW i \in 1 .. Len(c)
                 PROVE  Without(d, k)[i] = w[i]
      OBVIOUS
    <3>1. CASE i = Len(c)
      BY <1>1, <2>1, <2>5, <2>6, <3>1
    <3>2. CASE i # Len(c)
      <4>1. i \in 1 .. Len(c) - 1 /\ i + 1 \in 1 .. Len(c)
        BY <1>1, <3>2
      <4> QED
        BY <1>1, <2>5, <2>6, <4>1
    <3> QED
      BY <3>1, <3>2
  <2>8. Without(d, k) = w
    BY <2>5, <2>6, <2>7, SeqEqual
  <2> QED
    BY <1>3, <2>3, <2>8
<1> QED
  BY <1>4, <1>5

\* The exchange of the stub: the queue stays the same.
LEMMA StublessAppendStub ==
    ASSUME NEW c \in Seq(Nodes), Distinct(c), m_stub_node \notin Elements(c)
    PROVE  /\ Stubless(Append(c, m_stub_node)) = Stubless(c)
           /\ Distinct(Append(c, m_stub_node))
<1> DEFINE d == Append(c, m_stub_node)
<1>1. /\ Len(c) \in Nat /\ m_stub_node \in Nodes
      /\ d \in Seq(Nodes) /\ Len(d) = Len(c) + 1
      /\ \A i \in 1 .. Len(c) : d[i] = c[i]
      /\ d[Len(c) + 1] = m_stub_node
  BY AppendFacts DEF Nodes
<1> HIDE DEF d
<1>2. Distinct(d)
  BY <1>1 DEF Distinct, Elements
<1>3. Len(c) + 1 \in 1 .. Len(d)
  BY <1>1
<1>4. Stubless(d) = Without(d, Len(c) + 1)
  BY <1>1, <1>2, <1>3, StublessAt
<1>5. /\ Without(d, Len(c) + 1) \in Seq(Nodes)
      /\ Len(Without(d, Len(c) + 1)) = Len(c)
      /\ \A i \in 1 .. Len(c) : Without(d, Len(c) + 1)[i] = c[i]
  <2>1. Len(d) - 1 = Len(c) /\ \A i \in 1 .. Len(c) : i < Len(c) + 1
    BY <1>1
  <2> QED
    BY <1>1, <1>3, <2>1, WithoutFacts
<1>6. Without(d, Len(c) + 1) = c
  BY <1>5, SeqEqual
<1> QED
  BY <1>2, <1>4, <1>6 DEF Stubless, d

\* What dropping the first node of a chain of distinct nodes gives.
LEMMA TailDistinct ==
    ASSUME NEW c \in Seq(Nodes), Distinct(c), c # <<>>
    PROVE  /\ Distinct(Tail(c))
           /\ Elements(Tail(c)) = Elements(c) \ {c[1]}
<1> DEFINE d == Tail(c)
<1>1. /\ d \in Seq(Nodes) /\ Len(c) \in Nat \ {0} /\ Len(d) = Len(c) - 1
      /\ \A i \in 1 .. Len(c) - 1 : d[i] = c[i + 1]
  BY TailFacts
<1> HIDE DEF d
<1>2. Distinct(d)
  BY <1>1 DEF Distinct
<1>3. Elements(d) \subseteq Elements(c) \ {c[1]}
  BY <1>1 DEF Elements, Distinct
<1>4. ASSUME NEW x \in Elements(c), x # c[1] PROVE x \in Elements(d)
  <2>1. PICK i \in 1 .. Len(c) : c[i] = x
    BY DEF Elements
  <2>2. i - 1 \in 1 .. Len(d) /\ d[i - 1] = c[(i - 1) + 1]
    BY <1>1, <1>4, <2>1
  <2> QED
    BY <2>1, <2>2 DEF Elements
<1> QED
  BY <1>2, <1>3, <1>4 DEF d

\* The tail is a message: it was the first of the queue.
LEMMA StublessTail ==
    ASSUME NEW c \in Seq(Nodes), Distinct(c), c # <<>>, c[1] # m_stub_node
    PROVE  /\ Stubless(c) # <<>>
           /\ Head(Stubless(c)) = c[1]
           /\ Stubless(Tail(c)) = Tail(Stubless(c))
<1> DEFINE d == Tail(c)
<1>1. /\ d \in Seq(Nodes) /\ Len(c) \in Nat \ {0} /\ Len(d) = Len(c) - 1
      /\ \A i \in 1 .. Len(c) - 1 : d[i] = c[i + 1]
      /\ Distinct(d) /\ Elements(d) = Elements(c) \ {c[1]}
  BY TailFacts, TailDistinct
<1>2. CASE m_stub_node \notin Elements(c)
  BY <1>1, <1>2 DEF Stubless
<1>3. CASE m_stub_node \in Elements(c)
  <2>1. PICK k \in 1 .. Len(c) : c[k] = m_stub_node
    BY <1>3 DEF Elements
  <2>2. k # 1 /\ k - 1 \in 1 .. Len(d) /\ d[k - 1] = c[(k - 1) + 1]
    <3> HIDE DEF d
    <3> QED
      BY <1>1, <2>1
  <2>3. d[k - 1] = m_stub_node
    BY <2>1, <2>2
  <2> DEFINE u == Without(c, k)
             v == Without(d, k - 1)
  <2>4. Stubless(c) = u /\ Stubless(d) = v
    <3> HIDE DEF d
    <3> QED
      BY <1>1, <2>1, <2>2, <2>3, StublessAt
  <2>5. /\ u \in Seq(Nodes) /\ Len(u) = Len(c) - 1
        /\ \A i \in 1 .. Len(c) - 1 : u[i] = IF i < k THEN c[i] ELSE c[i + 1]
    BY WithoutFacts
  <2>6. /\ v \in Seq(Nodes) /\ Len(v) = Len(d) - 1
        /\ \A i \in 1 .. Len(d) - 1 : v[i] = IF i < k - 1 THEN d[i] ELSE d[i + 1]
    <3> HIDE DEF d
    <3> QED
      BY <1>1, <2>2, WithoutFacts
  <2> HIDE DEF u, v, d
  <2>7. Len(c) - 1 \in Nat \ {0} /\ u # <<>>
    BY <1>1, <2>2, <2>5
  <2>8. Head(u) = c[1]
    <3>1. 1 \in 1 .. Len(c) - 1 /\ 1 < k
      BY <2>2, <2>7
    <3>2. u[1] = c[1]
      BY <2>5, <3>1
    <3> QED
      BY <2>5, <2>7, <3>2
  <2>9. /\ Tail(u) \in Seq(Nodes) /\ Len(Tail(u)) = Len(c) - 2
        /\ \A i \in 1 .. Len(c) - 2 : Tail(u)[i] = u[i + 1]
    BY <1>1, <2>5, <2>7, TailFacts
  <2>10. Len(v) = Len(c) - 2 /\ \A i \in 1 .. Len(c) - 2 : Tail(u)[i] = v[i]
    <3>1. Len(v) = Len(c) - 2
      BY <1>1, <2>6
    <3>2. ASSUME NEW i \in 1 .. Len(c) - 2
          PROVE  Tail(u)[i] = v[i]
      <4>1. /\ i \in 1 .. Len(d) - 1 /\ i \in 1 .. Len(c) - 1 /\ i + 1 \in 1 .. Len(c) - 1
            /\ i < k - 1 <=> i + 1 < k
        BY <1>1, <2>1
      <4>2. v[i] = IF i + 1 < k THEN c[i + 1] ELSE c[(i + 1) + 1]
        BY <1>1, <2>6, <4>1
      <4>3. u[i + 1] = IF i + 1 < k THEN c[i + 1] ELSE c[(i + 1) + 1]
        BY <2>5, <4>1
      <4> QED
        BY <2>9, <4>2, <4>3
    <3> QED
      BY <3>1, <3>2
  <2>11. Tail(u) = v
    BY <2>6, <2>9, <2>10, SeqEqual
  <2> QED
    BY <2>4, <2>7, <2>8, <2>11 DEF d
<1> QED
  BY <1>2, <1>3

\* The tail is the stub: skipping it leaves the queue alone.
LEMMA StublessTailStub ==
    ASSUME NEW c \in Seq(Nodes), Distinct(c), c # <<>>, c[1] = m_stub_node
    PROVE  Stubless(Tail(c)) = Stubless(c)
<1> DEFINE d == Tail(c)
<1>1. /\ d \in Seq(Nodes) /\ Len(c) \in Nat \ {0} /\ Len(d) = Len(c) - 1
      /\ \A i \in 1 .. Len(c) - 1 : d[i] = c[i + 1]
      /\ Distinct(d) /\ Elements(d) = Elements(c) \ {c[1]}
  BY TailFacts, TailDistinct
<1> HIDE DEF d
<1>2. Stubless(d) = d
  BY <1>1 DEF Stubless
<1>3. Stubless(c) = Without(c, 1) /\ 1 \in 1 .. Len(c)
  BY <1>1, StublessAt
<1>4. /\ Without(c, 1) \in Seq(Nodes) /\ Len(Without(c, 1)) = Len(c) - 1
      /\ \A i \in 1 .. Len(c) - 1 :
            Without(c, 1)[i] = IF i < 1 THEN c[i] ELSE c[i + 1]
  BY <1>3, WithoutFacts
<1>5. \A i \in 1 .. Len(d) : d[i] = Without(c, 1)[i]
  BY <1>1, <1>4
<1>6. d = Without(c, 1)
  BY <1>1, <1>4, <1>5, SeqEqual
<1> QED
  BY <1>2, <1>3, <1>6 DEF d

-----------------------------------------------------------------------------
(* What every step does to Queue and popped. *)

LEMMA ChainFacts ==
    ASSUME IInv
    PROVE  /\ chain \in Seq(Nodes) /\ chain # <<>> /\ Len(chain) \in Nat \ {0}
           /\ Distinct(chain) /\ chain[1] = m_tail_node
           /\ Queue = Stubless(chain) /\ InChain = Elements(chain)
           /\ Queue \in Seq(Messages)
           /\ Len(Queue) = IF m_stub_node \in InChain THEN Len(chain) - 1 ELSE Len(chain)
<1>1. chain \in Seq(Nodes) /\ chain # <<>> /\ Distinct(chain) /\ chain[1] = m_tail_node
  BY DEF IInv, TypeOK, ChainInv, Distinct
<1> QED
  BY <1>1, QueueIsStubless, StublessFacts, TailFacts

LEMMA SameChain ==
    ASSUME chain' = chain
    PROVE  Queue' = Queue /\ InChain' = InChain
  BY DEF Queue, InChain

LEMMA QueueInNext == Queue' = Stubless(chain') /\ InChain' = Elements(chain')
  BY DEF Queue, Stubless, InChain, Elements, Without

LEMMA ExchangeQueue ==
    ASSUME IInv, NEW p \in Producers, Exchange(p)
    PROVE  /\ msg[p] \in Messages /\ msg[p] \notin InChain /\ msg[p] # popped
           /\ Queue' = Append(Queue, msg[p])
           /\ InChain' = InChain \cup {msg[p]}
<1>1. msg[p] \in Messages /\ msg[p] \notin InChain /\ msg[p] # popped
  BY DEF Exchange, IInv, ProducerInv, Pushing
<1>2. chain' = Append(chain, msg[p])
  BY DEF Exchange
<1>3. Queue' = Append(Queue, msg[p])
  BY <1>1, <1>2, ChainFacts, QueueInNext, StublessAppend
<1>4. InChain' = InChain \cup {msg[p]}
  BY <1>1, <1>2, ChainFacts, QueueInNext, ElementsOfAppend DEF Nodes
<1> QED
  BY <1>1, <1>3, <1>4

LEMMA ExchangeStubQueue ==
    ASSUME IInv, ExchangeStub
    PROVE  Queue' = Queue
<1>1. m_stub_node \notin InChain
  BY DEF ExchangeStub, IInv, ConsumerInv
<1>2. chain' = Append(chain, m_stub_node)
  BY DEF ExchangeStub
<1> QED
  BY <1>1, <1>2, ChainFacts, QueueInNext, StublessAppendStub

LEMMA SkipStubQueue ==
    ASSUME IInv, m_tail_node = m_stub_node, SkipStub
    PROVE  Queue' = Queue
<1>1. chain' = Tail(chain)
  BY DEF SkipStub
<1> QED
  BY <1>1, ChainFacts, QueueInNext, StublessTailStub

\* pop() returns the tail, wherever it read the next pointer.
Return == cpc \in {"first", "second", "last"} /\ m_tail_node # m_stub_node /\ ReturnTail

LEMMA ReturnQueue ==
    ASSUME IInv, Return
    PROVE  /\ Queue # <<>> /\ popped = nullptr
           /\ popped' = Head(Queue) /\ Queue' = Tail(Queue)
<1>1. chain' = Tail(chain) /\ popped' = m_tail_node
  BY DEF Return, ReturnTail
<1>2. popped = nullptr
  BY DEF Return, IInv, ConsumerInv
<1> QED
  BY <1>1, <1>2, ChainFacts, QueueInNext, StublessTail DEF Return

\* A step of the consumer that leaves the queue, the message it holds and the
\* counter alone.
QuietStep ==
    /\ Queue' = Queue
    /\ UNCHANGED <<popped, mq_size, ppc>>
    /\ cpc # "decrement" /\ cpc' # "decrement"

LEMMA ConsumerCases ==
    ASSUME IInv, ConsumerStep
    PROVE  \/ Return
           \/ Decrement
           \/ DeleteMessage
           \/ /\ QuietStep
              /\ \/ cpc = "check" /\ mq_size # 0
                 \/ cpc' = "check"
                 \/ cpc \notin {"check", "delete"}
              /\ cpc' = "last" => m_stub_node \in InChain'
<1>1. CASE CheckEmpty
  BY <1>1, SameChain DEF CheckEmpty, QuietStep, PopUnchanged, producerVars
<1>2. CASE LoadFirst
  <2>1. CASE m_tail_node = m_stub_node /\ ReturnNull
    BY <1>2, <2>1, SameChain
    DEF LoadFirst, ReturnNull, QuietStep, PopUnchanged, producerVars
  <2>2. CASE m_tail_node = m_stub_node /\ SkipStub
    <3>1. Queue' = Queue
      BY <2>2, SkipStubQueue
    <3> QED
      BY <1>2, <2>2, <3>1
      DEF LoadFirst, SkipStub, QuietStep, PopUnchanged, producerVars
  <2>3. CASE m_tail_node # m_stub_node /\ ReturnTail
    BY <1>2, <2>3 DEF LoadFirst, Return
  <2>4. CASE GoToHead
    BY <1>2, <2>4, SameChain
    DEF LoadFirst, GoToHead, QuietStep, PopUnchanged, producerVars
  <2> QED
    BY <1>2, <2>1, <2>2, <2>3, <2>4 DEF LoadFirst
<1>3. CASE LoadSecond
  <2>1. cpc = "second" /\ m_tail_node # m_stub_node
    BY <1>3 DEF LoadSecond, IInv, ConsumerInv, InPop
  <2>2. CASE ReturnTail
    BY <2>1, <2>2 DEF Return
  <2>3. CASE GoToHead
    BY <2>1, <2>3, SameChain DEF GoToHead, QuietStep, PopUnchanged, producerVars
  <2> QED
    BY <1>3, <2>2, <2>3 DEF LoadSecond
<1>4. CASE LoadHead
  BY <1>4, SameChain DEF LoadHead, ReturnNull, QuietStep, PopUnchanged, producerVars
<1>5. CASE StoreStub
  BY <1>5, SameChain DEF StoreStub, QuietStep, PopUnchanged, producerVars
<1>6. CASE ExchangeStub
  <2>1. Queue' = Queue
    BY <1>6, ExchangeStubQueue
  <2> QED
    BY <1>6, <2>1 DEF ExchangeStub, QuietStep, PopUnchanged, producerVars
<1>7. CASE LinkStub
  <2>1. PICK i \in 1 .. Len(chain) - 1 : chain[i + 1] = m_stub_node
    BY <1>7 DEF LinkStub, IInv, LinkInv
  <2>2. i + 1 \in 1 .. Len(chain)
    BY ChainFacts
  <2>3. m_stub_node \in InChain
    BY <2>1, <2>2 DEF InChain
  <2> QED
    BY <1>7, <2>3, SameChain DEF LinkStub, QuietStep, PopUnchanged, producerVars
<1>8. CASE LoadLast
  <2>1. cpc = "last" /\ m_tail_node # m_stub_node
    BY <1>8 DEF LoadLast, IInv, ConsumerInv, InPop
  <2>2. CASE ReturnTail
    BY <2>1, <2>2 DEF Return
  <2>3. CASE ReturnNull
    BY <2>1, <2>3, SameChain DEF ReturnNull, QuietStep, PopUnchanged, producerVars
  <2> QED
    BY <1>8, <2>2, <2>3 DEF LoadLast
<1> QED
  BY <1>1, <1>2, <1>3, <1>4, <1>5, <1>6, <1>7, <1>8 DEF ConsumerStep

-----------------------------------------------------------------------------
(* The counter. *)

LEMMA UncountedFinite == IsFiniteSet(Uncounted) /\ Cardinality(Uncounted) \in Nat
<1>1. Uncounted \in SUBSET Producers
  BY DEF Uncounted
<1>2. IsFiniteSet(Uncounted)
  BY <1>1, FS_Subset, SizeAssumption
<1> QED
  BY <1>2, FS_CardinalityType

LEMMA IntervalSize ==
    ASSUME NEW n \in Nat
    PROVE  Cardinality(1 .. n) = n
<1>1. Cardinality(1 .. n) = IF 1 > n THEN 0 ELSE n - 1 + 1
  BY FS_Interval
<1> QED
  BY <1>1

\* The messages that mq_size may count have distinct addresses, so that there
\* are never too many of them for a size_t.
LEMMA CounterFits ==
    ASSUME IInv
    PROVE  Len(Queue) + (IF cpc = "decrement" THEN 1 ELSE 0) <= SIZE_MAX
<1> DEFINE held == IF cpc = "decrement" THEN {popped} ELSE {}
           room == Messages \ held
           D == 1 .. Len(Queue)
<1>1. /\ Queue \in Seq(Messages)
      /\ Elements(Queue) = InChain \ {m_stub_node}
  BY ChainFacts, StublessFacts
<1>2. Distinct(Queue)
  <2>1. CASE m_stub_node \notin InChain
    BY <2>1, ChainFacts DEF Stubless
  <2>2. CASE m_stub_node \in InChain
    <3>1. PICK k \in 1 .. Len(chain) : chain[k] = m_stub_node
      BY <2>2 DEF InChain
    <3>2. Queue = Without(chain, k)
      BY <3>1, ChainFacts, StublessAt
    <3>3. /\ Len(Queue) = Len(chain) - 1
          /\ \A i \in 1 .. Len(chain) - 1 :
                Queue[i] = IF i < k THEN chain[i] ELSE chain[i + 1]
      BY <3>2, ChainFacts, WithoutFacts
    <3>4. ASSUME NEW i \in 1 .. Len(chain) - 1, NEW j \in 1 .. Len(chain) - 1,
                 Queue[i] = Queue[j]
          PROVE  i = j
      <4>1. /\ i \in 1 .. Len(chain) /\ i + 1 \in 1 .. Len(chain)
            /\ j \in 1 .. Len(chain) /\ j + 1 \in 1 .. Len(chain)
        BY ChainFacts
      <4>2. \A a, b \in 1 .. Len(chain) : chain[a] = chain[b] => a = b
        BY ChainFacts DEF Distinct
      <4>3. (IF i < k THEN i ELSE i + 1) = (IF j < k THEN j ELSE j + 1)
        BY <3>3, <3>4, <4>1, <4>2
      <4> QED
        BY <4>3
    <3> QED
      BY <3>3, <3>4 DEF Distinct
  <2> QED
    BY <2>1, <2>2
<1>3. held \subseteq Messages /\ held \cap InChain = {}
  BY DEF IInv, TypeOK, ConsumerInv
<1>4. \A i \in D : Queue[i] \in room
  <2> SUFFICES ASSUME NEW i \in D PROVE Queue[i] \in room
    OBVIOUS
  <2>1. Queue[i] \in Messages
    BY <1>1
  <2>2. Queue[i] \in InChain
    BY <1>1 DEF Elements
  <2> QED
    BY <1>3, <2>1, <2>2
<1>5. Queue \in [D -> room] /\ Len(Queue) \in Nat
  BY <1>1, <1>4
<1>6. Queue \in Injection(D, room)
  <2> HIDE DEF room
  <2>1. \A i, j \in D : Queue[i] = Queue[j] => i = j
    BY <1>2 DEF Distinct
  <2> QED
    BY <1>5, <2>1, Fun_IsInj
<1>7. IsFiniteSet(Messages) /\ Cardinality(Messages) \in Nat
  BY SizeAssumption, FS_CardinalityType
<1>8. /\ IsFiniteSet(room)
      /\ Cardinality(room) = Cardinality(Messages)
                               - (IF cpc = "decrement" THEN 1 ELSE 0)
  <2>1. CASE cpc = "decrement"
    <3>1. popped \in Messages /\ room = Messages \ {popped}
      BY <1>3, <2>1
    <3> QED
      BY <1>7, <2>1, <3>1, FS_RemoveElement
  <2>2. CASE cpc # "decrement"
    <3>1. room = Messages
      BY <2>2
    <3> QED
      BY <1>7, <2>2, <3>1
  <2> QED
    BY <2>1, <2>2
<1>9. Cardinality(D) <= Cardinality(room)
  <2> HIDE DEF room, D
  <2> QED
    BY <1>6, <1>8, FS_Injection
<1>10. Cardinality(D) = Len(Queue)
  BY <1>5, IntervalSize
<1> QED
  BY <1>5, <1>7, <1>8, <1>9, <1>10, SizeAssumption

LEMMA SmallMod ==
    ASSUME NEW b \in Nat, NEW a \in 0 .. b
    PROVE  a % (b + 1) = a
  OBVIOUS

LEMMA InitCounter == Init => CounterInv
<1> SUFFICES ASSUME Init PROVE CounterInv
  OBVIOUS
<1>1. Uncounted = {}
  BY DEF Init, Uncounted
<1>2. Len(Queue) = 0
  <2>1. IInv
    BY InitIInv
  <2>2. Len(chain) = 1 /\ m_stub_node \in InChain
    BY DEF Init, InChain
  <2> QED
    BY <2>1, <2>2, ChainFacts
<1>3. cpc = "check" /\ mq_size = 0
  BY DEF Init
<1> QED
  BY <1>1, <1>2, <1>3, FS_EmptySet DEF CounterInv, SizeExact

LEMMA ProducerCounter ==
    ASSUME IInv, CounterInv, NEW p \in Producers, CreateEvent(p) \/ PushStep(p)
    PROVE  CounterInv'
<1> DEFINE extra == IF cpc = "decrement" THEN 1 ELSE 0
<1>1. cpc' = cpc
  BY DEF CreateEvent, PushStep, StoreNext, Exchange, Link, Count, consumerVars
<1>2. /\ mq_size \in 0 .. SIZE_MAX /\ SIZE_MAX \in Nat
      /\ Len(Queue) \in Nat /\ Queue \in Seq(Messages)
      /\ Len(Queue) + extra <= SIZE_MAX
  BY ChainFacts, CounterFits, SizeAssumption DEF IInv, TypeOK
<1>3. mq_size + Cardinality(Uncounted) = Len(Queue) + extra
  BY DEF CounterInv, SizeExact
<1>4. CASE CreateEvent(p) \/ StoreNext(p) \/ Link(p)
  <2>1. Queue' = Queue /\ InChain' = InChain /\ mq_size' = mq_size
    BY <1>4, SameChain DEF CreateEvent, StoreNext, Link
  <2>2. Uncounted' = Uncounted
    BY <1>4 DEF CreateEvent, StoreNext, Link, Uncounted, IInv, TypeOK
  <2> QED
    BY <1>1, <2>1, <2>2 DEF CounterInv, SizeExact
<1>5. CASE Exchange(p)
  <2>1. /\ Queue' = Append(Queue, msg[p]) /\ msg[p] \in Messages
        /\ InChain' = InChain \cup {msg[p]} /\ mq_size' = mq_size
    BY <1>5, ExchangeQueue DEF Exchange
  <2>2. Len(Queue') = Len(Queue) + 1
    BY <1>2, <2>1
  <2>3. Uncounted' = Uncounted \cup {p} /\ p \notin Uncounted
    BY <1>5 DEF Exchange, Uncounted, IInv, TypeOK
  <2>4. Cardinality(Uncounted') = Cardinality(Uncounted) + 1
    BY <2>3, UncountedFinite, FS_AddElement
  <2>5. SizeExact'
    BY <1>1, <1>2, <1>3, <2>1, <2>2, <2>4, UncountedFinite DEF SizeExact
  <2> QED
    BY <1>1, <2>1, <2>5 DEF CounterInv
<1>6. CASE Count(p)
  <2>1. Queue' = Queue /\ InChain' = InChain
    BY <1>6, SameChain DEF Count
  <2>2. Uncounted' = Uncounted \ {p} /\ p \in Uncounted
    BY <1>6 DEF Count, Uncounted, IInv, TypeOK
  <2>3. Cardinality(Uncounted') = Cardinality(Uncounted) - 1
    BY <2>2, UncountedFinite, FS_RemoveElement
  <2>4. Cardinality(Uncounted) # 0
    BY <2>2, UncountedFinite, FS_EmptySet
  <2>5. mq_size + 1 \in 0 .. SIZE_MAX
    BY <1>2, <1>3, <2>4, UncountedFinite
  <2>6. mq_size' = mq_size + 1
    BY <1>2, <1>6, <2>5, SmallMod DEF Count
  <2>7. SizeExact'
    BY <1>1, <1>2, <1>3, <2>1, <2>3, <2>6, UncountedFinite DEF SizeExact
  <2> QED
    BY <1>1, <1>2, <2>1, <2>6, <2>7 DEF CounterInv
<1> QED
  BY <1>4, <1>5, <1>6 DEF PushStep

LEMMA ConsumerCounter ==
    ASSUME IInv, CounterInv, ConsumerStep
    PROVE  CounterInv'
<1>1. /\ mq_size \in 0 .. SIZE_MAX /\ SIZE_MAX \in Nat
      /\ Len(Queue) \in Nat /\ Queue \in Seq(Messages)
  BY ChainFacts, SizeAssumption DEF IInv, TypeOK
<1>2. mq_size + Cardinality(Uncounted)
        = Len(Queue) + (IF cpc = "decrement" THEN 1 ELSE 0)
  BY DEF CounterInv, SizeExact
<1>3. CASE Return
  <2>1. /\ Queue # <<>> /\ Queue' = Tail(Queue)
        /\ cpc # "decrement" /\ cpc' = "decrement" /\ cpc \notin {"check", "delete"}
        /\ mq_size' = mq_size /\ Uncounted' = Uncounted
    BY <1>3, ReturnQueue
    DEF Return, ReturnTail, PopUnchanged, producerVars, Uncounted
  <2>2. Len(Queue') = Len(Queue) - 1
    BY <1>1, <2>1, TailFacts
  <2> QED
    BY <1>1, <1>2, <2>1, <2>2, UncountedFinite DEF CounterInv, SizeExact
<1>4. CASE Decrement
  <2>1. /\ Queue' = Queue /\ Uncounted' = Uncounted
        /\ cpc = "decrement" /\ cpc' = "delete"
    BY <1>4, SameChain DEF Decrement, producerVars, Uncounted
  <2>2. mq_size - 1 \in 0 .. SIZE_MAX
    BY <1>1, <2>1 DEF CounterInv
  <2>3. mq_size' = mq_size - 1
    BY <1>1, <1>4, <2>2, SmallMod DEF Decrement
  <2> QED
    BY <1>1, <1>2, <2>1, <2>3, UncountedFinite DEF CounterInv, SizeExact
<1>5. CASE DeleteMessage
  <2>1. /\ Queue' = Queue /\ Uncounted' = Uncounted /\ mq_size' = mq_size
        /\ cpc = "delete" /\ cpc' = "check"
    BY <1>5, SameChain DEF DeleteMessage, producerVars, Uncounted
  <2> QED
    BY <2>1 DEF CounterInv, SizeExact
<1>6. CASE /\ QuietStep
           /\ \/ cpc = "check" /\ mq_size # 0
              \/ cpc' = "check"
              \/ cpc \notin {"check", "delete"}
           /\ cpc' = "last" => m_stub_node \in InChain'
  <2>1. /\ Queue' = Queue /\ Uncounted' = Uncounted /\ mq_size' = mq_size
        /\ cpc # "decrement" /\ cpc' # "decrement"
    BY <1>6 DEF QuietStep, Uncounted
  <2> QED
    BY <1>6, <2>1 DEF CounterInv, SizeExact
<1> QED
  BY <1>3, <1>4, <1>5, <1>6, ConsumerCases

LEMMA NextCounter == IInv /\ CounterInv /\ [Next]_vars => CounterInv'
<1> SUFFICES ASSUME IInv, CounterInv, [Next]_vars PROVE CounterInv'
  OBVIOUS
<1>1. ASSUME NEW p \in Producers, CreateEvent(p) \/ PushStep(p) PROVE CounterInv'
  BY <1>1, ProducerCounter
<1>2. CASE ConsumerStep
  BY <1>2, ConsumerCounter
<1>3. CASE UNCHANGED vars
  <2>1. /\ Queue' = Queue /\ InChain' = InChain /\ Uncounted' = Uncounted
        /\ mq_size' = mq_size /\ cpc' = cpc
    BY <1>3, SameChain DEF vars, producerVars, consumerVars, Uncounted
  <2> QED
    BY <2>1 DEF CounterInv, SizeExact
<1> QED
  BY <1>1, <1>2, <1>3 DEF Next

LEMMA CounterInvariance == Spec => [](IInv /\ CounterInv)
<1>1. Init => IInv /\ CounterInv
  BY InitIInv, InitCounter
<1>2. IInv /\ CounterInv /\ [Next]_vars => (IInv /\ CounterInv)'
  BY NextIInv, NextCounter
<1> QED
  BY <1>1, <1>2, PTL DEF Spec

\* mq_size is the number of queued messages, up to the pushes and the pop that
\* are between their list operation and their update of the counter
\* (message_queue.cpp:167 and 179); in particular it never wraps.
THEOREM SizeExactHolds == Spec => []SizeExact
<1>1. CounterInv => SizeExact
  BY DEF CounterInv
<1> QED
  BY <1>1, CounterInvariance, PTL

\* The next pointer of the tail is null: the push() after it is not linked.
LEMMA TailNotLinked ==
    ASSUME IInv, next[m_tail_node] = nullptr, Len(chain) > 1
    PROVE  Linking(chain[1], chain[2])
<1>1. 1 \in 1 .. Len(chain) - 1 /\ 2 \in 1 .. Len(chain)
  BY ChainFacts
<1>2. chain[1] = m_tail_node /\ chain[2] \in Nodes
  BY <1>1, ChainFacts
<1>3. next[chain[1]] # chain[2]
  BY <1>2, NodesAssumption DEF Nodes
<1> QED
  BY <1>1, <1>3 DEF IInv, ChainInv

\* The loads of lines 57 and 82 that find a null pointer.
LEMMA NullLoad ==
    ASSUME IInv, CounterInv, LoadFirst \/ LoadLast, next[m_tail_node] = nullptr,
           cpc \in {"first", "last"}, cpc' = "check"
    PROVE  \E p \in Producers : ppc[p] = "link"
<1>1. CASE cpc = "first"
  <2>1. m_tail_node = m_stub_node
    BY <1>1 DEF LoadFirst, LoadLast, ReturnTail, GoToHead
  <2>2. m_stub_node \in InChain
    <3>1. 1 \in 1 .. Len(chain) /\ chain[1] = m_tail_node
      BY ChainFacts
    <3> QED
      BY <2>1, <3>1 DEF InChain
  <2>3. Len(Queue) \in Nat \ {0}
    <3>1. mq_size \in Nat /\ mq_size # 0 /\ Len(Queue) \in Nat
      BY <1>1, ChainFacts, SizeAssumption DEF CounterInv, IInv, TypeOK
    <3>2. mq_size + Cardinality(Uncounted) = Len(Queue)
      BY <1>1, <3>1 DEF CounterInv, SizeExact
    <3> QED
      BY <3>1, <3>2, UncountedFinite
  <2>4. Len(chain) > 1
    BY <2>2, <2>3, ChainFacts
  <2>5. Linking(chain[1], chain[2])
    BY <2>4, TailNotLinked
  <2> QED
    BY <1>1, <2>5 DEF Linking
<1>2. CASE cpc = "last"
  <2>1. m_tail_node # m_stub_node
    BY <1>2 DEF IInv, ConsumerInv, InPop
  <2>2. PICK k \in 1 .. Len(chain) : chain[k] = m_stub_node
    BY <1>2 DEF CounterInv, InChain
  <2>3. Len(chain) > 1
    BY <2>1, <2>2, ChainFacts
  <2>4. Linking(chain[1], chain[2])
    BY <2>3, TailNotLinked
  <2> QED
    BY <1>2, <2>4 DEF Linking
<1> QED
  BY <1>1, <1>2

LEMMA NullStep ==
    ASSUME IInv, CounterInv, Next, cpc \notin {"check", "delete"}, cpc' = "check"
    PROVE  \/ \E p \in Producers : ppc[p] = "link"
           \/ cpc = "head" /\ next[m_tail_node] # nullptr
<1>1. ConsumerStep
  <2>1. ASSUME NEW p \in Producers, CreateEvent(p) \/ PushStep(p) PROVE FALSE
    BY <2>1 DEF CreateEvent, PushStep, StoreNext, Exchange, Link, Count, consumerVars
  <2> QED
    BY <2>1 DEF Next
<1>2. LoadFirst \/ LoadHead \/ LoadLast
  BY <1>1 DEF ConsumerStep, CheckEmpty, LoadSecond, ReturnTail, GoToHead, StoreStub,
              ExchangeStub, LinkStub, Decrement, DeleteMessage
<1>3. CASE LoadHead
  <2>1. cpc = "head" /\ m_tail_node # m_head_node
    BY <1>3 DEF LoadHead
  <2>2. Len(chain) > 1
    <3>1. Len(chain) \in Nat \ {0} /\ chain[1] = m_tail_node /\ chain[Len(chain)] = m_head_node
      BY ChainFacts DEF IInv, ChainInv
    <3> QED
      BY <2>1, <3>1
  <2>3. next[m_tail_node] = nullptr => Linking(chain[1], chain[2])
    BY <2>2, TailNotLinked
  <2> QED
    BY <2>1, <2>3 DEF Linking
<1>4. CASE LoadFirst \/ LoadLast
  <2>1. next[m_tail_node] = nullptr /\ cpc \in {"first", "last"}
    BY <1>4 DEF LoadFirst, LoadLast, ReturnTail, SkipStub, GoToHead
  <2> QED
    BY <1>4, <2>1, NullLoad
<1> QED
  BY <1>2, <1>3, <1>4

\* Wherever pop() returns nullptr, some producer is between the exchange and
\* the link of its push() (message_queue.cpp:50-51), or the pointer that was
\* null has been linked since pop() read it (line 77 only).
THEOREM NullOnlyIfPushConcurrentHolds == Spec => NullOnlyIfPushConcurrent
<1>1. IInv /\ CounterInv /\ [Next]_vars
        => [(cpc \notin {"check", "delete"} /\ cpc' = "check")
              => \/ \E p \in Producers : ppc[p] = "link"
                 \/ cpc = "head" /\ next[m_tail_node] # nullptr]_vars
  BY NullStep
<1> QED
  BY <1>1, CounterInvariance, PTL DEF Spec, NullOnlyIfPushConcurrent

-----------------------------------------------------------------------------
(* The list implements the FIFO queue. *)

LEMMA InitImplements == Init => Abstract!Init
<1> SUFFICES ASSUME Init PROVE Queue = <<>> /\ popped = nullptr
  BY DEF Abstract!Init
<1>1. IInv
  BY InitIInv
<1>2. Len(chain) = 1 /\ m_stub_node \in InChain
  BY DEF Init, InChain
<1>3. Len(Queue) = 0 /\ Queue \in Seq(Messages)
  BY <1>1, <1>2, ChainFacts
<1> QED
  BY <1>3 DEF Init

LEMMA StepImplements == IInv /\ [Next]_vars => [Abstract!Next]_(Abstract!vars)
<1> SUFFICES ASSUME IInv, [Next]_vars
             PROVE  Abstract!Next \/ UNCHANGED <<Queue, popped>>
  BY DEF Abstract!vars
<1>1. ASSUME NEW p \in Producers, Exchange(p)
      PROVE  Abstract!Push(msg[p]) /\ msg[p] \in Messages
  <2>1. /\ msg[p] \in Messages /\ msg[p] \notin InChain /\ msg[p] # popped
        /\ Queue' = Append(Queue, msg[p])
    BY <1>1, ExchangeQueue
  <2>2. msg[p] \notin Abstract!Queued
    <3>1. Elements(Queue) = InChain \ {m_stub_node}
      BY ChainFacts, StublessFacts
    <3> QED
      BY <2>1, <3>1 DEF Abstract!Queued, Elements
  <2>3. popped' = popped
    BY <1>1 DEF Exchange, consumerVars
  <2> QED
    BY <2>1, <2>2, <2>3 DEF Abstract!Push
<1>2. ASSUME NEW p \in Producers, CreateEvent(p) \/ StoreNext(p) \/ Link(p) \/ Count(p)
      PROVE  UNCHANGED <<Queue, popped>>
  BY <1>2, SameChain DEF CreateEvent, StoreNext, Link, Count, consumerVars
<1>3. CASE Return
  BY <1>3, ReturnQueue DEF Abstract!Pop, Abstract!Next
<1>4. CASE Decrement
  BY <1>4, SameChain DEF Decrement
<1>5. CASE DeleteMessage
  <2>1. popped # nullptr
    BY <1>5 DEF DeleteMessage, IInv, ConsumerInv
  <2> QED
    BY <1>5, <2>1, SameChain DEF DeleteMessage, Abstract!Release, Abstract!Next
<1>6. CASE ConsumerStep
  BY <1>3, <1>4, <1>5, <1>6, ConsumerCases DEF QuietStep, Abstract!Next
<1>7. CASE UNCHANGED vars
  BY <1>7, SameChain DEF vars, consumerVars
<1> QED
  BY <1>1, <1>2, <1>6, <1>7 DEF Next, PushStep, Abstract!Next

\* The list of message_queue.cpp:45-90, with its stub, its counter and all its
\* interleavings, is a FIFO queue: a push() enters the queue at its exchange,
\* pop() takes the oldest message when it moves the tail, and every message is
\* freed once.
THEOREM ImplementsFifo == Spec => Abstract!Spec
<1>1. Init => Abstract!Init
  BY InitImplements
<1>2. IInv /\ [Next]_vars => [Abstract!Next]_(Abstract!vars)
  BY StepImplements
<1> QED
  BY <1>1, <1>2, Invariance, PTL DEF Spec, Abstract!Spec
=============================================================================
