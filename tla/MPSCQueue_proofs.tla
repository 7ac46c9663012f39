-------------------------- MODULE MPSCQueue_proofs --------------------------
(* Proofs for MPSCQueue: for any producers, any addresses and any number of   *)
(* elements, the list is a queue and no thread follows a dangling pointer.    *)
EXTENDS MPSCQueue, SequenceTheorems, TLAPS

----------------------------------------------------------------------------
(* The inductive invariant                                                    *)

Live == allocated \cup {Dummy}

(* The history `chain' is the list from _tail to _head: nodes that exist, each*)
(* in one place.                                                              *)
ChainHolds ==
    /\ chain # <<>>
    /\ chain[1] = tail
    /\ chain[Len(chain)] = head
    /\ \A i, j \in 1..Len(chain) : chain[i] = chain[j] => i = j
    /\ \A i \in 1..Len(chain) : chain[i] \in Live

(* A node is linked to its successor, or a thread is going to link them.      *)
Gap(t, i) == chain[i] = prevHead[t] /\ chain[i + 1] = node[t] /\ next[chain[i]] = Null
LinkHolds ==
    /\ next[head] = Null
    /\ \A i \in 1..(Len(chain) - 1) :
          \/ next[chain[i]] = chain[i + 1]
          \/ \E t \in Threads : pc[t] = "link" /\ Gap(t, i)
    /\ \A t \in Threads : pc[t] = "link" => \E i \in 1..(Len(chain) - 1) : Gap(t, i)

(* Who is in Enqueue has a node of his own, which exists and, before the      *)
(* exchange, is not in the list.                                              *)
ThreadHolds ==
    /\ \A t \in Threads : pc[t] # "idle" =>
          /\ node[t] \in Live
          /\ node[t] = Dummy <=> t = Consumer
    /\ \A t \in Threads : pc[t] = "exchange" =>
          /\ next[node[t]] = Null
          /\ \A i \in 1..Len(chain) : chain[i] # node[t]
    /\ \A t, u \in Threads :
          t # u /\ pc[t] # "idle" /\ pc[u] # "idle" => node[t] # node[u]

(* The consumer looks at the front; what it has loaded from its link, if it   *)
(* was not null, is still there.                                              *)
DequeueHolds ==
    /\ pc[Consumer] # "idle" => dpc = "dummy"
    /\ dpc # "idle" => ctail = tail
    /\ dpc \in {"second", "dummy", "last"} => ctail # Dummy
    /\ dpc \in {"first", "second", "last"} => cnext = Null \/ cnext = next[ctail]
    /\ dpc = "dummy" /\ pc[Consumer] # "exchange" =>
          \E i \in 1..Len(chain) : chain[i] = Dummy

(* The list without the dummy is what arrived and was not taken.              *)
NoDummyHolds ==
    /\ Len(order) = Len(taken) + Len(chain)
    /\ \A i \in 1..Len(chain) : chain[i] # Dummy /\ chain[i] = order[Len(taken) + i]
DummyHolds(d) ==
    /\ chain[d] = Dummy
    /\ Len(order) = Len(taken) + Len(chain) - 1
    /\ \A i \in 1..Len(chain) : i < d => chain[i] = order[Len(taken) + i]
    /\ \A i \in 1..Len(chain) : i > d => chain[i] = order[Len(taken) + i - 1]
OrderHolds == NoDummyHolds \/ \E d \in 1..Len(chain) : DummyHolds(d)

(* As long as no producer interferes, the consumer sees no gap.               *)
CalmHolds ==
    calm /\ dpc # "idle" =>
        /\ \A p \in Producers : pc[p] # "link"
        /\ dpc \in {"first", "second"} /\ cnext = Null => Len(chain) = 1
        /\ dpc = "last" => cnext # Null

IInv ==
    /\ TypeOK /\ ChainHolds /\ LinkHolds /\ ThreadHolds /\ DequeueHolds
    /\ OrderHolds /\ CalmHolds

----------------------------------------------------------------------------
(* The initial state                                                          *)

LEMMA InitHolds == Init => IInv
<1> SUFFICES ASSUME Init PROVE IInv
  OBVIOUS
<1>1. TypeOK
  BY QueueAssumption DEF Init, TypeOK, Nodes, Threads
<1>2. ChainHolds /\ LinkHolds
  BY QueueAssumption DEF Init, ChainHolds, LinkHolds, Live, Nodes, Threads
<1>3. ThreadHolds /\ DequeueHolds /\ CalmHolds
  BY QueueAssumption DEF Init, ThreadHolds, DequeueHolds, CalmHolds, Threads
<1>4. OrderHolds
  <2>1. DummyHolds(1)
    BY DEF Init, DummyHolds
  <2> QED BY <2>1 DEF Init, OrderHolds
<1> QED BY <1>1, <1>2, <1>3, <1>4 DEF IInv

----------------------------------------------------------------------------
(* What TypeOK says of the list, in the form in which the steps use it        *)

LEMMA Apart ==
    /\ Dummy \in Nodes /\ Items \subseteq Nodes /\ Null \notin Nodes /\ Dummy \notin Items
    /\ Producers \subseteq Threads /\ Consumer \in Threads /\ Consumer \notin Producers
BY QueueAssumption DEF Nodes, Threads

LEMMA Lengths ==
    ASSUME TypeOK, ChainHolds
    PROVE  /\ Len(chain) \in Nat \ {0} /\ Len(order) \in Nat /\ Len(taken) \in Nat
           /\ \A i \in 1..Len(chain) : chain[i] \in Nodes
           /\ Live \subseteq Nodes
BY EmptySeq, LenProperties, Apart DEF TypeOK, ChainHolds, Live

LEMMA OneLess == \A n \in Nat \ {0} : n # 1 => 1 \in 1..(n - 1)
OBVIOUS

(* Steps that change no shared variable keep what is said of the list.        *)
LEMMA ListKept ==
    ASSUME ChainHolds, LinkHolds, ThreadHolds, OrderHolds,
           UNCHANGED <<links, enqueues, chain, order, taken>>
    PROVE  ChainHolds' /\ LinkHolds' /\ ThreadHolds' /\ OrderHolds'
<1> USE DEF links, enqueues
<1>1. ChainHolds'
  BY DEF ChainHolds, Live
<1>2. LinkHolds'
  BY DEF LinkHolds, Gap
<1>3. ThreadHolds'
  BY DEF ThreadHolds, Live
<1>4. OrderHolds'
  BY DEF OrderHolds, NoDummyHolds, DummyHolds
<1> QED BY <1>1, <1>2, <1>3, <1>4

(* When nobody is between exchange and link, no link is missing.              *)
LEMMA NoGap ==
    ASSUME TypeOK, ChainHolds, LinkHolds, \A t \in Threads : pc[t] # "link",
           NEW i \in 1..(Len(chain) - 1)
    PROVE  next[chain[i]] # Null
BY Lengths, Apart DEF LinkHolds

LEMMA LinkedFront ==
    ASSUME TypeOK, ChainHolds, LinkHolds, next[chain[1]] # Null
    PROVE  Len(chain) >= 2 /\ next[chain[1]] = chain[2]
BY Lengths DEF ChainHolds, LinkHolds, Gap

----------------------------------------------------------------------------
(* Enqueue                                                                    *)

LEMMA EnqueueHolds ==
    ASSUME IInv, NEW p \in Producers, NEW x \in Items, Enqueue(p, x)
    PROVE  IInv'
<1> USE DEF IInv, Enqueue, dequeue, history
<1>1. TypeOK'
  BY Apart DEF TypeOK
<1>2. /\ x \in Nodes /\ x # Dummy /\ p \in Threads /\ p # Consumer
      /\ \A i \in 1..Len(chain) : chain[i] # x
      /\ head # x
      /\ Len(chain) \in Nat \ {0}
  BY Apart, Lengths DEF ChainHolds, Live
<1>3. ChainHolds'
  BY DEF ChainHolds, Live
<1>4. LinkHolds'
  <2>1. \A i \in 1..Len(chain) : next'[chain[i]] = next[chain[i]]
    BY <1>2, Lengths DEF TypeOK
  <2>2. \A t \in Threads : pc'[t] = "link" <=> pc[t] = "link"
    BY <1>2 DEF TypeOK
  <2>3. \A t \in Threads : pc[t] = "link" => node'[t] = node[t]
    BY <1>2 DEF TypeOK
  <2>4. \A t \in Threads, i \in 1..(Len(chain) - 1) :
           pc[t] = "link" /\ Gap(t, i) => Gap(t, i)'
    BY <1>2, <2>1, <2>3 DEF Gap
  <2>5. next'[head] = Null
    BY <1>2, <2>1 DEF LinkHolds, ChainHolds
  <2> QED BY <1>2, <2>1, <2>2, <2>4, <2>5 DEF LinkHolds
<1>5. ThreadHolds'
  <2>1. \A t \in Threads : pc[t] # "idle" => node[t] # x
    BY <1>2 DEF ThreadHolds, Live
  <2>2. \A t \in Threads : t # p => pc'[t] = pc[t] /\ node'[t] = node[t]
    BY DEF TypeOK
  <2>3. pc'[p] = "exchange" /\ node'[p] = x /\ x \in Live'
    BY <1>2 DEF TypeOK, Live
  <2>4. \A t \in Threads : pc[t] = "exchange" => next'[node[t]] = next[node[t]]
    BY <2>1, Apart, Lengths DEF ThreadHolds, TypeOK
  <2>5. next'[x] = Null
    BY <1>2 DEF TypeOK
  <2> QED BY <1>2, <2>1, <2>2, <2>3, <2>4, <2>5 DEF ThreadHolds, Live
<1>6. DequeueHolds'
  <2>1. pc'[Consumer] = pc[Consumer]
    BY <1>2 DEF TypeOK
  <2>2. ctail = tail => next'[ctail] = next[ctail]
    BY <1>2, Lengths DEF TypeOK, ChainHolds
  <2> QED BY <2>1, <2>2 DEF DequeueHolds
<1>7. OrderHolds'
  BY DEF OrderHolds, NoDummyHolds, DummyHolds
<1>8. CalmHolds'
  BY <1>2 DEF CalmHolds, TypeOK
<1> QED BY <1>1, <1>3, <1>4, <1>5, <1>6, <1>7, <1>8

(* The list grows at its end by a node that was not in it.                    *)
LEMMA AtTheEnd ==
    ASSUME TypeOK, ChainHolds, NEW n \in Nodes, chain' = Append(chain, n)
    PROVE  /\ Len(chain') = Len(chain) + 1
           /\ \A i \in 1..Len(chain) : chain'[i] = chain[i]
           /\ chain'[Len(chain) + 1] = n
           /\ chain' \in Seq(Nodes)
BY Lengths DEF TypeOK

LEMMA ExchangeHolds ==
    ASSUME IInv, NEW t \in Threads, Exchange(t)
    PROVE  IInv'
<1> USE DEF IInv, Exchange, dequeue
<1>0. PICK n \in Nat \ {0} : n = Len(chain)
  BY Lengths
<1>1. /\ node[t] \in Live /\ node[t] \in Nodes
      /\ node[t] = Dummy <=> t = Consumer
      /\ node[t] # Dummy => node[t] \in Items
      /\ next[node[t]] = Null
      /\ \A i \in 1..n : chain[i] # node[t]
  BY <1>0, Lengths DEF ThreadHolds, Live, TypeOK
<1>2. /\ Len(chain) = n /\ Len(chain') = n + 1
      /\ \A i \in 1..n : chain'[i] = chain[i]
      /\ chain'[n + 1] = node[t]
      /\ chain' \in Seq(Nodes)
  BY <1>0, <1>1, AtTheEnd
<1>3. TypeOK'
  BY <1>1, <1>2 DEF TypeOK
<1>4. ChainHolds'
  <2>1. chain' # <<>> /\ chain'[1] = tail' /\ chain'[Len(chain')] = head'
    BY <1>2 DEF ChainHolds
  <2>2. \A i, j \in 1..(n + 1) : chain'[i] = chain'[j] => i = j
    BY <1>1, <1>2 DEF ChainHolds
  <2>3. \A i \in 1..(n + 1) : chain'[i] \in Live'
    BY <1>1, <1>2 DEF ChainHolds, Live
  <2> QED BY <1>2, <2>1, <2>2, <2>3 DEF ChainHolds
<1>5. LinkHolds'
  <2>1. \A u \in Threads : u # t => pc'[u] = pc[u] /\ prevHead'[u] = prevHead[u]
    BY DEF TypeOK
  <2>2. pc'[t] = "link" /\ prevHead'[t] = head
    BY DEF TypeOK
  <2>3. Gap(t, n)'
    BY <1>2, <2>2 DEF Gap, LinkHolds, ChainHolds
  <2>4. \A u \in Threads, i \in 1..(n - 1) :
           pc[u] = "link" /\ Gap(u, i) => Gap(u, i)'
    BY <1>2, <2>1 DEF Gap
  <2>5. next'[head'] = Null
    BY <1>1
  <2>6. \A i \in 1..n :
           \/ next'[chain'[i]] = chain'[i + 1]
           \/ \E u \in Threads : pc'[u] = "link" /\ Gap(u, i)'
    <3> TAKE i \in 1..n
    <3>1. CASE i = n
      BY <2>2, <2>3, <3>1
    <3>2. CASE i # n
      <4>1. i \in 1..(n - 1)
        BY <1>2, <3>2
      <4>2. CASE next[chain[i]] = chain[i + 1]
        BY <1>2, <4>1, <4>2
      <4>3. CASE \E u \in Threads : pc[u] = "link" /\ Gap(u, i)
        BY <2>1, <2>4, <4>1, <4>3
      <4> QED BY <1>2, <4>1, <4>2, <4>3 DEF LinkHolds
    <3> QED BY <3>1, <3>2
  <2>7. ASSUME NEW u \in Threads, pc'[u] = "link"
        PROVE  \E i \in 1..n : Gap(u, i)'
    <3>1. CASE u = t
      BY <1>2, <2>3, <3>1
    <3>2. CASE u # t
      <4>1. pc[u] = "link"
        BY <2>1, <2>7, <3>2
      <4>2. PICK i \in 1..(n - 1) : Gap(u, i)
        BY <1>2, <4>1 DEF LinkHolds
      <4>3. Gap(u, i)'
        BY <2>4, <4>1, <4>2
      <4>4. i \in 1..n
        BY <4>2
      <4> QED BY <4>3, <4>4
    <3> QED BY <3>1, <3>2
  <2>8. Len(chain') - 1 = n
    BY <1>2
  <2> HIDE DEF Exchange, IInv
  <2> QED BY <2>5, <2>6, <2>7, <2>8 DEF LinkHolds
<1>6. ThreadHolds'
  <2>1. \A u \in Threads : u # t => pc'[u] = pc[u]
    BY DEF TypeOK
  <2>2. pc'[t] = "link"
    BY DEF TypeOK
  <2>3. \A u \in Threads : pc[u] = "exchange" /\ u # t => node[u] # node[t]
    BY DEF ThreadHolds
  <2>4. \A u \in Threads : pc'[u] = "exchange" =>
           \A i \in 1..(n + 1) : chain'[i] # node[u]
    BY <1>2, <2>1, <2>2, <2>3 DEF ThreadHolds
  <2> QED BY <1>2, <2>1, <2>2, <2>4 DEF ThreadHolds, Live
<1>7. DequeueHolds'
  <2>1. t # Consumer => pc'[Consumer] = pc[Consumer]
    BY Apart DEF TypeOK
  <2>2. t = Consumer => chain'[n + 1] = Dummy
    BY <1>1, <1>2
  <2>3. n + 1 \in 1..(n + 1) /\ \A i \in 1..n : i \in 1..Len(chain')
    BY <1>2
  <2> QED BY <1>2, <2>1, <2>2, <2>3, Apart DEF DequeueHolds
<1>8. OrderHolds'
  <2>0. Len(order) \in Nat /\ Len(taken) \in Nat /\ order \in Seq(Items)
    BY Lengths DEF TypeOK
  <2>1. CASE t = Consumer
    <3>1. NoDummyHolds
      BY <1>1, <1>2, <2>1 DEF OrderHolds, DummyHolds
    <3>2. order' = order /\ chain'[n + 1] = Dummy
      BY <1>1, <1>2, <2>1
    <3>3. Len(order') = Len(taken') + Len(chain') - 1
      BY <1>2, <2>0, <3>1, <3>2 DEF NoDummyHolds
    <3>4. \A i \in 1..n : chain'[i] = order'[Len(taken') + i]
      BY <1>2, <3>1, <3>2 DEF NoDummyHolds
    <3>5. DummyHolds(n + 1)'
      BY <1>2, <3>2, <3>3, <3>4 DEF DummyHolds
    <3> QED BY <1>2, <3>5 DEF OrderHolds
  <2>2. CASE t # Consumer
    <3>1. /\ Len(order') = Len(order) + 1
          /\ \A i \in 1..Len(order) : order'[i] = order[i]
          /\ order'[Len(order) + 1] = node[t]
          /\ taken' = taken
      BY <1>1, <2>0, <2>2
    <3> HIDE DEF Exchange, IInv
    <3>2. CASE NoDummyHolds
      <4>1. Len(order) = Len(taken) + n
        BY <1>2, <3>2 DEF NoDummyHolds
      <4>2. ASSUME NEW i \in 1..n
            PROVE  chain'[i] # Dummy /\ chain'[i] = order'[Len(taken) + i]
        <5>1. chain[i] # Dummy /\ chain[i] = order[Len(taken) + i]
          BY <1>2, <3>2 DEF NoDummyHolds
        <5>2. Len(taken) + i \in 1..Len(order)
          BY <2>0, <4>1
        <5> QED BY <1>2, <3>1, <5>1, <5>2
      <4>3. chain'[n + 1] # Dummy /\ chain'[n + 1] = order'[Len(taken) + (n + 1)]
        <5>1. Len(taken) + (n + 1) = Len(order) + 1
          BY <2>0, <4>1
        <5> QED BY <1>1, <1>2, <2>2, <3>1, <5>1
      <4>4. ASSUME NEW i \in 1..(n + 1)
            PROVE  chain'[i] # Dummy /\ chain'[i] = order'[Len(taken) + i]
        <5>1. i \in 1..n \/ i = n + 1
          OBVIOUS
        <5> QED BY <4>2, <4>3, <5>1
      <4>5. Len(order') = Len(taken) + (n + 1)
        BY <2>0, <3>1, <4>1
      <4>6. NoDummyHolds'
        BY <1>2, <3>1, <4>4, <4>5 DEF NoDummyHolds
      <4> QED BY <4>6 DEF OrderHolds
    <3>3. ASSUME NEW d \in 1..n, DummyHolds(d)
          PROVE  DummyHolds(d)'
      <4>1. chain[d] = Dummy /\ Len(order) = Len(taken) + n - 1
        BY <1>2, <3>3 DEF DummyHolds
      <4>2. ASSUME NEW i \in 1..n, i < d
            PROVE  chain'[i] = order'[Len(taken) + i]
        <5>1. chain[i] = order[Len(taken) + i]
          BY <1>2, <3>3, <4>2 DEF DummyHolds
        <5>2. Len(taken) + i \in 1..Len(order)
          BY <2>0, <4>1, <4>2
        <5> QED BY <1>2, <3>1, <5>1, <5>2
      <4>3. ASSUME NEW i \in 1..n, i > d
            PROVE  chain'[i] = order'[Len(taken) + i - 1]
        <5>1. chain[i] = order[Len(taken) + i - 1]
          BY <1>2, <3>3, <4>3 DEF DummyHolds
        <5>2. Len(taken) + i - 1 \in 1..Len(order)
          BY <2>0, <4>1, <4>3
        <5> QED BY <1>2, <3>1, <5>1, <5>2
      <4>4. chain'[n + 1] = order'[Len(taken) + (n + 1) - 1]
        <5>1. Len(taken) + (n + 1) - 1 = Len(order) + 1
          BY <2>0, <4>1
        <5> QED BY <1>2, <3>1, <5>1
      <4>5. ASSUME NEW i \in 1..(n + 1)
            PROVE  /\ i < d => chain'[i] = order'[Len(taken) + i]
                   /\ i > d => chain'[i] = order'[Len(taken) + i - 1]
        <5>1. CASE i \in 1..n
          BY <4>2, <4>3, <5>1
        <5>2. CASE i = n + 1
          <6>1. ~(i < d)
            BY <5>2
          <6> QED BY <4>4, <5>2, <6>1
        <5> QED BY <5>1, <5>2
      <4>6. chain'[d] = Dummy /\ Len(order') = Len(taken) + (n + 1) - 1
        BY <1>2, <2>0, <3>1, <4>1
      <4> QED BY <1>2, <3>1, <4>5, <4>6 DEF DummyHolds
    <3>4. CASE \E d \in 1..n : DummyHolds(d)
      <4>1. PICK d \in 1..n : DummyHolds(d)
        BY <3>4
      <4>2. DummyHolds(d)'
        BY <3>3, <4>1
      <4>3. d \in 1..Len(chain')
        BY <1>2
      <4> QED BY <4>2, <4>3 DEF OrderHolds
    <3> QED BY <1>2, <3>2, <3>4 DEF OrderHolds, IInv
  <2> QED BY <2>1, <2>2
<1>9. CalmHolds'
  <2>1. t = Consumer => /\ dpc = "dummy"
                        /\ \A p \in Producers : pc'[p] = pc[p]
    BY Apart DEF DequeueHolds, TypeOK
  <2> QED BY <2>1 DEF CalmHolds
<1> QED BY <1>3, <1>4, <1>5, <1>6, <1>7, <1>8, <1>9

LEMMA LinkStepHolds ==
    ASSUME IInv, NEW t \in Threads, Link(t)
    PROVE  IInv'
<1> USE DEF IInv, Link, dequeue, history
<1>1. PICK k \in 1..(Len(chain) - 1) : Gap(t, k)
  BY DEF LinkHolds
<1>2. /\ Len(chain) \in Nat \ {0} /\ k \in 1..Len(chain) /\ k + 1 \in 1..Len(chain)
      /\ chain[k] \in Nodes /\ chain[k + 1] \in Nodes
  BY Lengths
<1>3. /\ next'[chain[k]] = chain[k + 1]
      /\ \A n \in Nodes : n # chain[k] => next'[n] = next[n]
      /\ next' \in [Nodes -> Nodes \cup {Null}]
  BY <1>1, <1>2 DEF Gap, TypeOK
<1>4. \A u \in Threads : u # t => pc'[u] = pc[u]
  BY DEF TypeOK
<1>5. pc'[t] = "idle"
  BY DEF TypeOK
<1>6. TypeOK'
  BY <1>3 DEF TypeOK
<1>7. ChainHolds'
  BY DEF ChainHolds, Live
<1>8. LinkHolds'
  <2>1. \A i \in 1..(Len(chain) - 1) : i # k => next'[chain[i]] = next[chain[i]]
    BY <1>2, <1>3, Lengths DEF ChainHolds
  <2>2. next'[head] = Null
    BY <1>2, <1>3, Lengths DEF ChainHolds, LinkHolds, TypeOK
  <2>3. ASSUME NEW u \in Threads, u # t, pc[u] = "link",
               NEW i \in 1..(Len(chain) - 1), Gap(u, i)
        PROVE  i # k /\ Gap(u, i)'
    <3>1. i # k
      BY <1>1, <2>3 DEF Gap, ThreadHolds
    <3> QED BY <2>1, <2>3, <3>1 DEF Gap
  <2>4. \A i \in 1..(Len(chain) - 1) :
           \/ next'[chain[i]] = chain[i + 1]
           \/ \E u \in Threads : pc'[u] = "link" /\ Gap(u, i)'
    <3> TAKE i \in 1..(Len(chain) - 1)
    <3>1. CASE i = k
      BY <1>3, <3>1
    <3>2. CASE i # k /\ next[chain[i]] = chain[i + 1]
      BY <2>1, <3>2
    <3>3. CASE i # k /\ \E u \in Threads : pc[u] = "link" /\ Gap(u, i)
      <4>1. PICK u \in Threads : pc[u] = "link" /\ Gap(u, i)
        BY <3>3
      <4>2. u # t
        BY <1>1, <1>2, <3>3, <4>1, Lengths DEF Gap, ChainHolds
      <4> QED BY <1>4, <2>3, <4>1, <4>2
    <3> QED BY <3>1, <3>2, <3>3 DEF LinkHolds
  <2>5. ASSUME NEW u \in Threads, pc'[u] = "link"
        PROVE  \E i \in 1..(Len(chain) - 1) : Gap(u, i)'
    <3>1. u # t /\ pc[u] = "link"
      BY <1>4, <1>5, <2>5
    <3>2. PICK i \in 1..(Len(chain) - 1) : Gap(u, i)
      BY <3>1 DEF LinkHolds
    <3> QED BY <2>3, <3>1, <3>2
  <2> QED BY <2>2, <2>4, <2>5 DEF LinkHolds
<1>9. ThreadHolds'
  <2>1. \A u \in Threads : pc'[u] # "idle" => u # t /\ pc[u] = pc'[u]
    BY <1>4, <1>5
  <2>2. \A u \in Threads : pc[u] = "exchange" => next'[node[u]] = Null
    BY <1>2, <1>3, Lengths DEF ThreadHolds
  <2> QED BY <2>1, <2>2 DEF ThreadHolds, Live
<1>10. DequeueHolds'
  <2>1. pc'[Consumer] # "idle" => pc[Consumer] = pc'[Consumer]
    BY <1>4, <1>5, Apart
  <2>2. pc'[Consumer] # "exchange" => pc[Consumer] # "exchange"
    BY <1>4, Apart
  <2>3. dpc \in {"first", "second", "last"} => cnext = Null \/ cnext = next'[ctail]
    BY <1>1, <1>2, <1>3 DEF DequeueHolds, Gap, ChainHolds, TypeOK
  <2> QED BY <2>1, <2>2, <2>3 DEF DequeueHolds
<1>11. OrderHolds'
  BY DEF OrderHolds, NoDummyHolds, DummyHolds
<1>12. CalmHolds'
  BY <1>4, <1>5, Apart DEF CalmHolds
<1> QED BY <1>6, <1>7, <1>8, <1>9, <1>10, <1>11, <1>12

----------------------------------------------------------------------------
(* Dequeue                                                                    *)

LEMMA DequeueBeginsHolds ==
    ASSUME IInv, DequeueBegins
    PROVE  IInv'
<1> USE DEF IInv, DequeueBegins, links, enqueues
<1>1. TypeOK'
  BY DEF TypeOK
<1>2. ChainHolds' /\ LinkHolds' /\ ThreadHolds' /\ OrderHolds'
  BY ListKept
<1>3. pc[Consumer] = "idle"
  BY DEF DequeueHolds
<1>4. DequeueHolds'
  BY <1>3 DEF DequeueHolds
<1>5. CalmHolds'
  <2>1. ASSUME calm', cnext' = Null
        PROVE  Len(chain) = 1
    <3>1. \A t \in Threads : pc[t] # "link"
      BY <1>3, <2>1 DEF Threads
    <3>2. next[chain[1]] = Null
      BY <2>1 DEF ChainHolds
    <3>3. Len(chain) # 1 => 1 \in 1..(Len(chain) - 1)
      BY Lengths, OneLess
    <3> QED BY <3>1, <3>2, <3>3, NoGap
  <2> QED BY <2>1 DEF CalmHolds
<1> QED BY <1>1, <1>2, <1>4, <1>5

(* The list without its front.                                                *)
LEMMA WithoutFront ==
    ASSUME TypeOK, ChainHolds, Len(chain) >= 2, chain' = Tail(chain)
    PROVE  /\ Len(chain') = Len(chain) - 1
           /\ \A i \in 1..(Len(chain) - 1) : chain'[i] = chain[i + 1]
           /\ chain' \in Seq(Nodes) /\ chain' # <<>>
<1>1. chain \in Seq(Nodes) /\ chain # <<>>
  BY DEF TypeOK, ChainHolds
<1>2. /\ chain' \in Seq(Nodes) /\ Len(chain') = Len(chain) - 1
      /\ \A i \in 1..Len(Tail(chain)) : Tail(chain)[i] = chain[i + 1]
  BY <1>1, HeadTailProperties
<1>3. Len(chain') # 0
  BY <1>2, Lengths
<1> QED BY <1>2, <1>3, EmptySeq

LEMMA FrontLeaves ==
    ASSUME TypeOK, ChainHolds, LinkHolds, ThreadHolds,
           next[chain[1]] # Null,
           chain' = Tail(chain), tail' = next[chain[1]],
           UNCHANGED <<next, head, pc, node, prevHead>>,
           Live' = Live \/ Live' = Live \ {chain[1]}
    PROVE  ChainHolds' /\ LinkHolds' /\ ThreadHolds'
<1>1. PICK n \in Nat \ {0} : n + 1 = Len(chain)
  <2>1. Len(chain) >= 2 /\ Len(chain) \in Nat
    BY LinkedFront, Lengths
  <2>2. PICK l \in Nat : l = Len(chain)
    BY <2>1
  <2>3. l - 1 \in Nat \ {0} /\ (l - 1) + 1 = l
    BY <2>1, <2>2
  <2> QED BY <2>2, <2>3
<1>2. /\ tail' = chain[2]
      /\ Len(chain') = n /\ chain' # <<>>
      /\ \A i \in 1..n : chain'[i] = chain[i + 1]
  BY <1>1, LinkedFront, WithoutFront
<1>3. \A i \in 1..n : i + 1 \in 1..Len(chain) /\ chain[i + 1] # chain[1]
  BY <1>1 DEF ChainHolds
<1>4. ChainHolds'
  <2>1. chain'[1] = tail' /\ chain'[n] = head'
    BY <1>1, <1>2 DEF ChainHolds
  <2>2. \A i, j \in 1..n : chain'[i] = chain'[j] => i = j
    <3> TAKE i, j \in 1..n
    <3>1. chain[i + 1] = chain[j + 1] => i + 1 = j + 1
      BY <1>3 DEF ChainHolds
    <3> QED BY <1>2, <3>1
  <2>3. \A i \in 1..n : chain'[i] \in Live'
    BY <1>2, <1>3 DEF ChainHolds
  <2> QED BY <1>2, <2>1, <2>2, <2>3 DEF ChainHolds
<1>5. \A t \in Threads : pc[t] = "link" => \E i \in 1..(n - 1) : Gap(t, i + 1)
  <2> TAKE t \in Threads
  <2> HAVE pc[t] = "link"
  <2>1. PICK k \in 1..n : Gap(t, k)
    BY <1>1 DEF LinkHolds
  <2>2. k # 1
    BY <2>1 DEF Gap
  <2>3. k - 1 \in 1..(n - 1) /\ (k - 1) + 1 = k
    BY <2>1, <2>2
  <2> QED BY <2>1, <2>3
<1>6. \A t \in Threads, i \in 1..(n - 1) : Gap(t, i + 1) => Gap(t, i)'
  <2> TAKE t \in Threads, i \in 1..(n - 1)
  <2>1. i \in 1..n /\ i + 1 \in 1..n
    OBVIOUS
  <2>2. chain'[i] = chain[i + 1] /\ chain'[i + 1] = chain[(i + 1) + 1]
    BY <1>2, <2>1
  <2> QED BY <2>2 DEF Gap
<1>7. LinkHolds'
  <2>1. \A i \in 1..(n - 1) :
           \/ next[chain[i + 1]] = chain[(i + 1) + 1]
           \/ \E t \in Threads : pc[t] = "link" /\ Gap(t, i + 1)
    <3> TAKE i \in 1..(n - 1)
    <3>1. i + 1 \in 1..(Len(chain) - 1)
      BY <1>1
    <3> QED BY <3>1 DEF LinkHolds
  <2>2. \A i \in 1..(n - 1) :
           \/ next'[chain'[i]] = chain'[i + 1]
           \/ \E t \in Threads : pc'[t] = "link" /\ Gap(t, i)'
    <3> TAKE i \in 1..(n - 1)
    <3>1. i \in 1..n /\ i + 1 \in 1..n
      OBVIOUS
    <3>2. chain'[i] = chain[i + 1] /\ chain'[i + 1] = chain[(i + 1) + 1]
      BY <1>2, <3>1
    <3> QED BY <1>6, <2>1, <3>2
  <2>3. \A t \in Threads : pc'[t] = "link" => \E i \in 1..(n - 1) : Gap(t, i)'
    BY <1>5, <1>6
  <2>4. next'[head'] = Null
    BY DEF LinkHolds
  <2> QED BY <1>2, <2>2, <2>3, <2>4 DEF LinkHolds
<1>8. ThreadHolds'
  <2>1. ASSUME NEW t \in Threads, pc[t] # "idle"
        PROVE  node[t] \in Live'
    <3>1. node[t] \in Live
      BY <2>1 DEF ThreadHolds
    <3>2. CASE pc[t] = "exchange"
      BY <1>1, <3>1, <3>2 DEF ThreadHolds
    <3>3. CASE pc[t] = "link"
      <4>1. PICK i \in 1..(n - 1) : Gap(t, i + 1)
        BY <1>5, <3>3
      <4>2. i + 1 \in 1..n
        OBVIOUS
      <4> QED BY <1>3, <3>1, <4>1, <4>2 DEF Gap
    <3> QED BY <2>1, <3>2, <3>3 DEF TypeOK
  <2>2. \A t \in Threads : pc[t] = "exchange" => \A i \in 1..n : chain'[i] # node[t]
    BY <1>2, <1>3 DEF ThreadHolds
  <2> QED BY <1>2, <2>1, <2>2 DEF ThreadHolds
<1> QED BY <1>4, <1>7, <1>8

LEMMA NothingBehindDummyHolds ==
    ASSUME IInv, NothingBehindDummy
    PROVE  IInv'
<1> USE DEF IInv, NothingBehindDummy, links, enqueues, history
<1>1. TypeOK'
  BY DEF TypeOK
<1>2. ChainHolds' /\ LinkHolds' /\ ThreadHolds' /\ OrderHolds'
  BY ListKept
<1>3. DequeueHolds' /\ CalmHolds'
  BY DEF DequeueHolds, CalmHolds
<1> QED BY <1>1, <1>2, <1>3

LEMMA StillNoSuccessorHolds ==
    ASSUME IInv, StillNoSuccessor
    PROVE  IInv'
<1> USE DEF IInv, StillNoSuccessor, links, enqueues, history
<1>1. TypeOK'
  BY DEF TypeOK
<1>2. ChainHolds' /\ LinkHolds' /\ ThreadHolds' /\ OrderHolds'
  BY ListKept
<1>3. DequeueHolds' /\ CalmHolds'
  BY DEF DequeueHolds, CalmHolds
<1> QED BY <1>1, <1>2, <1>3

LEMMA LoadAgainHolds ==
    ASSUME IInv, LoadAgain
    PROVE  IInv'
<1> USE DEF IInv, LoadAgain, links, enqueues, history
<1>1. TypeOK'
  BY DEF TypeOK, DequeueHolds
<1>2. ChainHolds' /\ LinkHolds' /\ ThreadHolds' /\ OrderHolds'
  BY ListKept
<1>3. DequeueHolds'
  BY DEF DequeueHolds
<1>4. CalmHolds'
  <2>1. ASSUME calm
        PROVE  cnext' # Null
    <3>1. \A t \in Threads : pc[t] # "link"
      BY <2>1 DEF CalmHolds, Threads
    <3>2. PICK i \in 1..Len(chain) : chain[i] = Dummy
      BY DEF DequeueHolds
    <3>3. ctail = chain[1] /\ ctail # Dummy
      BY DEF DequeueHolds, ChainHolds
    <3>4. 1 \in 1..(Len(chain) - 1)
      BY <3>2, <3>3, Lengths
    <3> QED BY <3>1, <3>3, <3>4, NoGap
  <2> QED BY <2>1 DEF CalmHolds
<1> QED BY <1>1, <1>2, <1>3, <1>4

LEMMA TestLastHolds ==
    ASSUME IInv, TestLast
    PROVE  IInv'
<1> USE DEF IInv, TestLast, FrontAlone, EnqueueDummy, links, enqueues, history
<1>1. TypeOK'
  BY Apart DEF TypeOK
<1>2. CASE ctail # head
  <2>1. ChainHolds' /\ LinkHolds' /\ ThreadHolds' /\ OrderHolds'
    BY <1>2, ListKept
  <2>2. DequeueHolds' /\ CalmHolds'
    BY <1>2 DEF DequeueHolds, CalmHolds
  <2> QED BY <1>1, <2>1, <2>2
<1>3. CASE ctail = head
  <2>1. /\ Len(chain) = 1 /\ chain[1] = head /\ head # Dummy
        /\ pc[Consumer] = "idle"
    <3>1. chain[1] = chain[Len(chain)]
      BY <1>3 DEF DequeueHolds, ChainHolds
    <3>2. 1 \in 1..Len(chain) /\ Len(chain) \in 1..Len(chain)
      BY Lengths
    <3>3. Len(chain) = 1
      BY <3>1, <3>2 DEF ChainHolds
    <3> QED BY <1>3, <3>1, <3>3 DEF DequeueHolds, ChainHolds
  <2>2. \A t \in Threads : pc[t] # "link"
    BY <2>1 DEF LinkHolds
  <2>3. /\ \A t \in Threads : t # Consumer => pc'[t] = pc[t] /\ node'[t] = node[t]
        /\ pc'[Consumer] = "exchange" /\ node'[Consumer] = Dummy
        /\ next'[Dummy] = Null
        /\ \A n \in Nodes : n # Dummy => next'[n] = next[n]
    BY <1>3, Apart DEF TypeOK
  <2>4. ChainHolds'
    BY <1>3 DEF ChainHolds, Live
  <2>5. LinkHolds'
    <3>1. next'[head'] = Null
      BY <1>3, <2>1, <2>3 DEF LinkHolds, TypeOK
    <3>2. \A t \in Threads : pc'[t] # "link"
      BY <2>2, <2>3
    <3>3. ASSUME NEW i \in 1..(Len(chain') - 1)
          PROVE  FALSE
      <4>1. Len(chain') = 1
        BY <1>3, <2>1
      <4>2. i \in 1..(1 - 1)
        BY <4>1
      <4> QED BY <4>2
    <3> QED BY <3>1, <3>2, <3>3 DEF LinkHolds
  <2>6. ThreadHolds'
    <3>1. \A t \in Threads : pc'[t] # "idle" => node'[t] \in Live' /\ (node'[t] = Dummy <=> t = Consumer)
      BY <1>3, <2>3 DEF ThreadHolds, Live
    <3>2. \A t \in Threads : pc'[t] = "exchange" => next'[node'[t]] = Null
      <4> TAKE t \in Threads
      <4>1. CASE t = Consumer
        BY <2>3, <4>1
      <4>2. CASE t # Consumer /\ pc[t] = "exchange"
        <5>1. node[t] \in Nodes /\ node[t] # Dummy /\ next[node[t]] = Null
          BY <4>2, Lengths DEF ThreadHolds
        <5> QED BY <2>3, <4>2, <5>1
      <4>3. CASE t # Consumer /\ pc[t] # "exchange"
        BY <2>3, <4>3
      <4> QED BY <4>1, <4>2, <4>3
    <3>3. \A t \in Threads : pc'[t] = "exchange" => \A i \in 1..Len(chain') : chain'[i] # node'[t]
      <4>1. chain' = chain /\ Len(chain') = 1 /\ chain[1] # Dummy
        BY <1>3, <2>1
      <4>2. \A t \in Threads : t # Consumer /\ pc[t] = "exchange" => chain[1] # node[t]
        BY <2>1 DEF ThreadHolds
      <4>3. \A i \in 1..1 : i = 1
        OBVIOUS
      <4> HIDE DEF TestLast, IInv
      <4> QED BY <2>3, <4>1, <4>2, <4>3
    <3>4. \A t, u \in Threads :
             t # u /\ pc'[t] # "idle" /\ pc'[u] # "idle" => node'[t] # node'[u]
      BY <2>3, <3>1 DEF ThreadHolds
    <3> QED BY <3>1, <3>2, <3>3, <3>4 DEF ThreadHolds
  <2>7. DequeueHolds'
    BY <1>3, <2>3 DEF DequeueHolds
  <2>8. OrderHolds'
    BY <1>3 DEF OrderHolds, NoDummyHolds, DummyHolds
  <2>9. CalmHolds'
    BY <1>3, <2>2, <2>3, Apart DEF CalmHolds
  <2> QED BY <1>1, <2>4, <2>5, <2>6, <2>7, <2>8, <2>9
<1> QED BY <1>2, <1>3

LEMMA PassDummyHolds ==
    ASSUME IInv, PassDummy
    PROVE  IInv'
<1> USE DEF IInv, PassDummy, enqueues
<1>1. /\ chain[1] = Dummy /\ cnext = next[chain[1]] /\ next[chain[1]] # Null
      /\ pc[Consumer] = "idle"
  BY DEF DequeueHolds, ChainHolds
<1>2. PICK n \in Nat : n = Len(chain)
  BY Lengths
<1>3. /\ n >= 2 /\ next[chain[1]] = chain[2]
      /\ Len(chain') = n - 1
      /\ \A i \in 1..(n - 1) : chain'[i] = chain[i + 1]
      /\ chain' \in Seq(Nodes)
  BY <1>1, <1>2, LinkedFront, WithoutFront
<1>4. cnext \in Nodes /\ cnext # Dummy
  BY <1>1, <1>2, <1>3, Lengths DEF ChainHolds
<1>5. TypeOK'
  BY <1>3, <1>4 DEF TypeOK
<1>6. ChainHolds' /\ LinkHolds' /\ ThreadHolds'
  BY <1>1, FrontLeaves DEF Live
<1>7. DequeueHolds'
  BY <1>1, <1>4 DEF DequeueHolds
<1>8. OrderHolds'
  <2>1. PICK d \in 1..n : DummyHolds(d)
    BY <1>1, <1>2, <1>3 DEF OrderHolds, NoDummyHolds
  <2>2. d = 1
    BY <1>1, <1>2, <1>3, <2>1 DEF DummyHolds, ChainHolds
  <2>3. Len(order) = Len(taken) + n - 1
    BY <1>2, <2>1 DEF DummyHolds
  <2>4. ASSUME NEW i \in 1..(n - 1)
        PROVE  chain'[i] # Dummy /\ chain'[i] = order[Len(taken) + i]
    <3>1. i + 1 \in 1..n /\ i + 1 > 1 /\ 1 \in 1..n
      BY <1>3
    <3>2. chain[i + 1] = order[Len(taken) + (i + 1) - 1]
      BY <1>2, <2>1, <2>2, <3>1 DEF DummyHolds
    <3>3. Len(taken) + (i + 1) - 1 = Len(taken) + i
      BY Lengths
    <3>4. chain[i + 1] # chain[1]
      BY <1>2, <3>1 DEF ChainHolds
    <3> QED BY <1>1, <1>3, <3>2, <3>3, <3>4
  <2>5. NoDummyHolds'
    <3>1. Len(order') = Len(taken') + Len(chain')
      BY <1>3, <2>3, Lengths
    <3> QED BY <1>3, <2>4, <3>1 DEF NoDummyHolds
  <2> QED BY <2>5 DEF OrderHolds
<1>9. CalmHolds'
  <2>1. ASSUME calm, cnext' = Null
        PROVE  Len(chain') = 1
    <3>1. \A t \in Threads : pc[t] # "link"
      BY <1>1, <2>1 DEF CalmHolds, Threads
    <3>2. next[chain[2]] = Null
      BY <1>1, <1>3, <2>1
    <3>3. n # 2 => 2 \in 1..(Len(chain) - 1)
      BY <1>2, <1>3
    <3>4. n = 2
      BY <3>1, <3>2, <3>3, NoGap
    <3> QED BY <1>3, <3>4
  <2>2. calm => \A p \in Producers : pc[p] # "link"
    BY DEF CalmHolds
  <2> QED BY <2>1, <2>2 DEF CalmHolds
<1> QED BY <1>5, <1>6, <1>7, <1>8, <1>9

(* TakeFront returns the oldest element that was not taken.                   *)
LEMMA FrontIsOldest ==
    ASSUME TypeOK, ChainHolds, OrderHolds, chain[1] # Dummy
    PROVE  Len(taken) + 1 \in 1..Len(order) /\ chain[1] = order[Len(taken) + 1]
<1>1. PICK n \in Nat \ {0} : n = Len(chain)
  BY Lengths
<1>2. CASE NoDummyHolds
  BY <1>1, <1>2, Lengths DEF NoDummyHolds
<1>3. CASE \E d \in 1..n : DummyHolds(d)
  <2>1. PICK d \in 1..n : DummyHolds(d)
    BY <1>3
  <2>2. 1 < d /\ 1 \in 1..n /\ n >= 2
    BY <2>1 DEF DummyHolds
  <2>3. chain[1] = order[Len(taken) + 1] /\ Len(order) = Len(taken) + n - 1
    BY <1>1, <2>1, <2>2 DEF DummyHolds
  <2> QED BY <2>2, <2>3, Lengths
<1> QED BY <1>1, <1>2, <1>3 DEF OrderHolds

LEMMA TakeFrontHolds ==
    ASSUME IInv, TakeFront
    PROVE  IInv'
<1> USE DEF IInv, TakeFront, Return, enqueues
<1>1. /\ chain[1] = ctail /\ cnext = next[chain[1]] /\ next[chain[1]] # Null
      /\ pc[Consumer] = "idle" /\ ctail # Dummy
  BY DEF DequeueHolds, ChainHolds
<1>2. PICK n \in Nat : n = Len(chain)
  BY Lengths
<1>3. /\ n >= 2 /\ next[chain[1]] = chain[2]
      /\ Len(chain') = n - 1
      /\ \A i \in 1..(n - 1) : chain'[i] = chain[i + 1]
      /\ chain' \in Seq(Nodes)
  BY <1>1, <1>2, LinkedFront, WithoutFront
<1>4. cnext \in Nodes /\ ctail \in Items
  BY <1>1, <1>2, <1>3, Lengths DEF Nodes
<1>5. PICK m \in Nat : m = Len(taken)
  BY Lengths
<1>6. Len(taken') = m + 1 /\ taken' \in Seq(Items)
  BY <1>4, <1>5 DEF TypeOK
<1>7. TypeOK'
  BY <1>3, <1>4, <1>6 DEF TypeOK
<1>8. ChainHolds' /\ LinkHolds' /\ ThreadHolds'
  <2>1. Live' = Live \ {chain[1]}
    BY <1>1 DEF Live
  <2> QED BY <1>1, <2>1, FrontLeaves
<1>9. DequeueHolds'
  BY <1>1 DEF DequeueHolds
<1>10. OrderHolds'
  <2>1. CASE NoDummyHolds
    <3>1. Len(order) = m + n
      BY <1>2, <1>5, <2>1 DEF NoDummyHolds
    <3>2. ASSUME NEW i \in 1..(n - 1)
          PROVE  chain'[i] # Dummy /\ chain'[i] = order[(m + 1) + i]
      <4>1. i + 1 \in 1..n /\ m + (i + 1) = (m + 1) + i
        BY <1>3
      <4> QED BY <1>2, <1>3, <1>5, <2>1, <4>1 DEF NoDummyHolds
    <3>3. Len(order) = (m + 1) + (n - 1)
      BY <1>3, <3>1
    <3>4. NoDummyHolds'
      BY <1>3, <1>6, <3>2, <3>3 DEF NoDummyHolds
    <3> QED BY <3>4 DEF OrderHolds
  <2>2. CASE \E d \in 1..n : DummyHolds(d)
    <3>1. PICK d \in 1..n : DummyHolds(d)
      BY <2>2
    <3>2. d # 1
      BY <1>1, <3>1 DEF DummyHolds
    <3>3. PICK c \in 1..(n - 1) : d = c + 1
      <4>1. d - 1 \in 1..(n - 1) /\ d = (d - 1) + 1
        BY <3>1, <3>2
      <4> QED BY <4>1
    <3>4. chain'[c] = Dummy
      BY <1>3, <3>1, <3>3 DEF DummyHolds
    <3>5. Len(order) = (m + 1) + (n - 1) - 1
      BY <1>2, <1>3, <1>5, <3>1 DEF DummyHolds
    <3>6. ASSUME NEW i \in 1..(n - 1)
          PROVE  /\ i < c => chain'[i] = order[(m + 1) + i]
                 /\ i > c => chain'[i] = order[(m + 1) + i - 1]
      <4>1. /\ i + 1 \in 1..n
            /\ m + (i + 1) = (m + 1) + i
            /\ m + (i + 1) - 1 = (m + 1) + i - 1
            /\ i < c => i + 1 < d
            /\ i > c => i + 1 > d
        BY <1>3, <3>3
      <4>2. /\ i + 1 < d => chain[i + 1] = order[m + (i + 1)]
            /\ i + 1 > d => chain[i + 1] = order[m + (i + 1) - 1]
        BY <1>2, <1>5, <3>1, <4>1 DEF DummyHolds
      <4> QED BY <1>3, <4>1, <4>2
    <3>7. DummyHolds(c)'
      BY <1>3, <1>6, <3>4, <3>5, <3>6 DEF DummyHolds
    <3> QED BY <1>3, <3>7 DEF OrderHolds
  <2> QED BY <1>2, <2>1, <2>2 DEF OrderHolds
<1>11. CalmHolds'
  BY DEF CalmHolds
<1> QED BY <1>7, <1>8, <1>9, <1>10, <1>11

----------------------------------------------------------------------------
(* The theorems                                                               *)

LEMMA StepHolds == IInv /\ [Next]_vars => IInv'
<1> SUFFICES ASSUME IInv, [Next]_vars PROVE IInv'
  OBVIOUS
<1>1. ASSUME NEW p \in Producers, NEW x \in Items, Enqueue(p, x)
      PROVE  IInv'
  BY <1>1, EnqueueHolds
<1>2. ASSUME NEW t \in Threads, Finishes(t)
      PROVE  IInv'
  BY <1>2, ExchangeHolds, LinkStepHolds DEF Finishes
<1>3. CASE DequeueBegins
  BY <1>3, DequeueBeginsHolds
<1>4. CASE NothingBehindDummy
  BY <1>4, NothingBehindDummyHolds
<1>5. CASE PassDummy
  BY <1>5, PassDummyHolds
<1>6. CASE TakeFront
  BY <1>6, TakeFrontHolds
<1>7. CASE TestLast
  BY <1>7, TestLastHolds
<1>8. CASE LoadAgain
  BY <1>8, LoadAgainHolds
<1>9. CASE StillNoSuccessor
  BY <1>9, StillNoSuccessorHolds
<1>10. CASE UNCHANGED vars
  <2> USE <1>10 DEF vars, links, enqueues, dequeue, history, IInv
  <2>1. ChainHolds' /\ LinkHolds' /\ ThreadHolds' /\ OrderHolds'
    BY ListKept
  <2>2. TypeOK'
    BY DEF TypeOK
  <2>3. DequeueHolds' /\ CalmHolds'
    BY DEF DequeueHolds, CalmHolds
  <2> QED BY <2>1, <2>2, <2>3
<1> QED BY <1>1, <1>2, <1>3, <1>4, <1>5, <1>6, <1>7, <1>8, <1>9, <1>10, Apart
        DEF Next, Dequeue

(* The list has gaps exactly where a thread is about to link, and holds what  *)
(* arrived and was not taken, in order, with at most one dummy between.       *)
THEOREM Invariant == Spec => []IInv
  BY InitHolds, StepHolds, PTL DEF Spec

(* No thread writes through a pointer to an element that was deleted, nor does*)
(* Dequeue read one, whatever the number of producers and of addresses.       *)
THEOREM NoDanglingNode == Spec => []NoDeletedNode
<1>1. IInv => NoDeletedNode
  <2> SUFFICES ASSUME IInv PROVE NoDeletedNode
    OBVIOUS
  <2> USE DEF IInv
  <2>1. ASSUME NEW t \in Threads, pc[t] = "link"
        PROVE  prevHead[t] \in Live
    <3>1. PICK i \in 1..(Len(chain) - 1) : Gap(t, i)
      BY <2>1 DEF LinkHolds
    <3>2. i \in 1..Len(chain)
      BY Lengths
    <3> QED BY <3>1, <3>2 DEF Gap, ChainHolds
  <2>2. tail \in Live /\ head \in Live
    <3>1. 1 \in 1..Len(chain) /\ Len(chain) \in 1..Len(chain)
      BY Lengths
    <3> QED BY <3>1 DEF ChainHolds
  <2>3. \A t \in Threads : pc[t] # "idle" => node[t] \in Live
    BY DEF ThreadHolds
  <2>4. dpc # "idle" => ctail \in Live
    BY <2>2 DEF DequeueHolds
  <2> QED BY <2>1, <2>2, <2>3, <2>4 DEF NoDeletedNode, Live
<1> QED BY <1>1, Invariant, PTL

(* Dequeue returns false only of an empty queue, as long as no producer came  *)
(* between: the dummy is not mistaken for the end, nor the end for a gap.     *)
THEOREM HonestEmpty == Spec => EmptyIsHonest
<1>1. IInv /\ [Next]_vars =>
        [dpc # "idle" /\ dpc' = "idle" /\ taken' = taken => Empty \/ ~calm]_vars
  <2> SUFFICES ASSUME IInv, Next, calm,
                      dpc # "idle", dpc' = "idle", taken' = taken
               PROVE  Empty
    OBVIOUS
  <2> USE DEF IInv
  <2>1. CASE NothingBehindDummy
    <3>1. Len(chain) = 1 /\ chain[1] = Dummy
      BY <2>1 DEF NothingBehindDummy, CalmHolds, DequeueHolds, ChainHolds
    <3>2. PICK d \in 1..Len(chain) : DummyHolds(d)
      BY <3>1 DEF OrderHolds, NoDummyHolds
    <3>3. Len(order) = Len(taken) + 1 - 1
      BY <3>1, <3>2 DEF DummyHolds
    <3> QED BY <3>3, Lengths DEF Empty
  <2>2. CASE TestLast
    BY <2>2 DEF TestLast, FrontAlone, EnqueueDummy, CalmHolds, DequeueHolds, ChainHolds
  <2>3. CASE StillNoSuccessor
    BY <2>3 DEF StillNoSuccessor, CalmHolds
  <2>4. CASE TakeFront
    <3>1. Len(taken') = Len(taken) + 1
      BY <2>4 DEF TakeFront, Return, TypeOK, DequeueHolds, ChainHolds
    <3> QED BY <3>1, Lengths
  <2>5. ~DequeueBegins /\ ~PassDummy /\ ~LoadAgain
    BY DEF DequeueBegins, PassDummy, LoadAgain
  <2>6. \A t \in Threads : ~Finishes(t)
    BY DEF Finishes, Exchange, Link, dequeue
  <2>7. \A p \in Producers, x \in Items : ~Enqueue(p, x)
    BY DEF Enqueue, dequeue
  <2> QED BY <2>1, <2>2, <2>3, <2>4, <2>5, <2>6, <2>7, Apart DEF Next, Dequeue
<1> QED BY <1>1, Invariant, PTL DEF Spec, EmptyIsHonest

----------------------------------------------------------------------------
(* MPSCQueue implements ArrivalQueue.                                         *)

(* The rest of a sequence grows with the sequence.                            *)
LEMMA RestGrows ==
    ASSUME NEW S, NEW s \in Seq(S), NEW x \in S, NEW k \in 1..(Len(s) + 1)
    PROVE  SubSeq(Append(s, x), k, Len(Append(s, x))) = Append(SubSeq(s, k, Len(s)), x)
<1> DEFINE a == Append(s, x)
           r == SubSeq(s, k, Len(s))
           g == SubSeq(a, k, Len(a))
<1>1. PICK n \in Nat : n = Len(s)
  BY LenProperties
<1>2. /\ a \in Seq(S) /\ Len(a) = n + 1 /\ a[n + 1] = x
      /\ \A i \in 1..n : a[i] = s[i]
  BY <1>1, AppendProperties
<1>3. k \in 1..(n + 1)
  BY <1>1
<1>4. PICK l \in Nat : l = n - k + 1
  <2>1. n - k + 1 \in Nat
    BY <1>3
  <2> QED BY <2>1
<1>5. r \in Seq(S) /\ Len(r) = l /\ \A i \in 1..l : r[i] = s[k + i - 1]
  <2>1. \A i \in k..n : s[i] \in S
    BY <1>1, <1>3
  <2> QED BY <1>1, <1>3, <1>4, <2>1, SubSeqProperties
<1>6. g \in Seq(S) /\ Len(g) = l + 1 /\ \A i \in 1..(l + 1) : g[i] = a[k + i - 1]
  <2>1. \A i \in k..(n + 1) : a[i] \in S
    <3> TAKE i \in k..(n + 1)
    <3>1. i \in 1..Len(a)
      BY <1>2, <1>3
    <3> QED BY <1>2, <3>1
  <2>2. n + 1 - k + 1 = l + 1 /\ k <= n + 1
    BY <1>3, <1>4
  <2> HIDE DEF a
  <2>3. k \in Int /\ n + 1 \in Int
    BY <1>3
  <2>4. /\ SubSeq(a, k, n + 1) \in Seq(S)
        /\ Len(SubSeq(a, k, n + 1)) = l + 1
        /\ \A i \in 1..(l + 1) : SubSeq(a, k, n + 1)[i] = a[k + i - 1]
    BY <2>1, <2>2, <2>3, SubSeqProperties
  <2> QED BY <1>2, <2>4
<1> HIDE DEF a, r, g
<1>7. /\ Append(r, x) \in Seq(S) /\ Len(Append(r, x)) = l + 1
      /\ Append(r, x)[l + 1] = x
      /\ \A i \in 1..l : Append(r, x)[i] = r[i]
  BY <1>5, AppendProperties
<1>8. ASSUME NEW i \in 1..(l + 1)
      PROVE  g[i] = Append(r, x)[i]
  <2>1. CASE i = l + 1
    <3>1. k + i - 1 = n + 1 /\ k + i - 1 \in 1..(n + 1)
      BY <1>3, <1>4, <2>1
    <3> QED BY <1>2, <1>6, <1>7, <2>1, <3>1
  <2>2. CASE i \in 1..l
    <3>1. k + i - 1 \in 1..n
      BY <1>3, <1>4, <2>2
    <3>2. g[i] = a[k + i - 1] /\ a[k + i - 1] = s[k + i - 1] /\ r[i] = s[k + i - 1]
      BY <1>2, <1>5, <1>6, <2>2, <3>1
    <3> QED BY <1>7, <2>2, <3>2
  <2>3. i = l + 1 \/ i \in 1..l
    BY <1>4
  <2> QED BY <2>1, <2>2, <2>3
<1>9. g = Append(r, x)
  BY <1>6, <1>7, <1>8, SeqEqual
<1> QED BY <1>9 DEF a, r, g

(* The rest of a sequence without its first element.                          *)
LEMMA RestShrinks ==
    ASSUME NEW S, NEW s \in Seq(S), NEW k \in 1..Len(s)
    PROVE  /\ SubSeq(s, k, Len(s)) # <<>>
           /\ Head(SubSeq(s, k, Len(s))) = s[k]
           /\ Tail(SubSeq(s, k, Len(s))) = SubSeq(s, k + 1, Len(s))
<1>1. Len(s) \in k..Len(s) /\ Len(s) \in Nat
  BY LenProperties
<1>2. \A i \in k..Len(s) : s[i] \in S
  OBVIOUS
<1>3. Len(SubSeq(s, k, Len(s))) # 0
  BY <1>1, <1>2, SubSeqProperties
<1>4. SubSeq(s, k, Len(s)) # <<>>
  <2>1. Len(<<>>) = 0
    OBVIOUS
  <2> QED BY <1>3, <2>1, Zenon
<1>5. /\ Head(SubSeq(s, k, Len(s))) = s[k]
      /\ Tail(SubSeq(s, k, Len(s))) = SubSeq(s, k + 1, Len(s))
  <2>1. ASSUME NEW n \in k..Len(s)
        PROVE  /\ Head(SubSeq(s, k, n)) = s[k]
               /\ Tail(SubSeq(s, k, n)) = SubSeq(s, k + 1, n)
    BY HeadTailOfSubSeq
  <2> QED BY <1>1, <2>1
<1> QED BY <1>4, <1>5

LEMMA NotMoreTaken ==
    ASSUME TypeOK, ChainHolds, OrderHolds
    PROVE  Len(taken) + 1 \in 1..(Len(order) + 1)
<1>1. PICK n \in Nat \ {0} : n = Len(chain)
  BY Lengths
<1>2. Len(order) = Len(taken) + n \/ Len(order) = Len(taken) + n - 1
  BY <1>1 DEF OrderHolds, NoDummyHolds, DummyHolds
<1> QED BY <1>2, Lengths

LEMMA StepRefines == IInv /\ [Next]_vars => [Arrivals!Next]_(Arrivals!vars)
<1> DEFINE q == SubSeq(order, Len(taken) + 1, Len(order))
<1> SUFFICES ASSUME IInv, [Next]_vars
             PROVE  Arrivals!Next \/ (q' = q /\ taken' = taken)
  BY DEF Arrivals!vars
<1> USE DEF IInv
<1>1. ASSUME NEW t \in Threads, Exchange(t), node[t] # Dummy
      PROVE  Arrivals!Next
  <2>1. /\ order' = Append(order, node[t]) /\ taken' = taken
        /\ node[t] \in Items /\ order \in Seq(Items)
    BY <1>1 DEF Exchange, ThreadHolds, Live, TypeOK
  <2>2. q' = Append(q, node[t])
    BY <2>1, NotMoreTaken, RestGrows
  <2> QED BY <2>1, <2>2 DEF Arrivals!Next, Arrivals!Arrive
<1>2. CASE TakeFront
  <2>1. /\ order' = order /\ taken' = Append(taken, ctail)
        /\ chain[1] = ctail /\ chain[1] # Dummy
    BY <1>2 DEF TakeFront, Return, DequeueHolds, ChainHolds
  <2>2. /\ Len(taken) + 1 \in 1..Len(order) /\ ctail = order[Len(taken) + 1]
        /\ order \in Seq(Items) /\ taken \in Seq(Items)
    BY <2>1, FrontIsOldest DEF TypeOK
  <2>3. q # <<>> /\ Head(q) = ctail /\ Tail(q) = SubSeq(order, Len(taken) + 1 + 1, Len(order))
    BY <2>2, RestShrinks
  <2>4. Len(taken') = Len(taken) + 1
    BY <2>1, <2>2
  <2>5. q' = Tail(q)
    BY <2>1, <2>3, <2>4
  <2> QED BY <2>1, <2>3, <2>5 DEF Arrivals!Next, Arrivals!Take
<1>3. CASE order' = order /\ taken' = taken
  BY <1>3
<1>4. ASSUME NEW t \in Threads, Exchange(t), node[t] = Dummy
      PROVE  order' = order /\ taken' = taken
  BY <1>4 DEF Exchange
<1>5. ASSUME NEW t \in Threads, Link(t)
      PROVE  order' = order /\ taken' = taken
  BY <1>5 DEF Link, history
<1>6. ASSUME NEW p \in Producers, NEW x \in Items, Enqueue(p, x)
      PROVE  order' = order /\ taken' = taken
  BY <1>6 DEF Enqueue, history
<1>7. ASSUME \/ DequeueBegins \/ NothingBehindDummy \/ PassDummy
             \/ TestLast \/ LoadAgain \/ StillNoSuccessor
      PROVE  order' = order /\ taken' = taken
  BY <1>7 DEF DequeueBegins, NothingBehindDummy, PassDummy, TestLast, FrontAlone,
              EnqueueDummy, LoadAgain, StillNoSuccessor, history
<1>8. CASE UNCHANGED vars
  BY <1>8, <1>3 DEF vars, history
<1> HIDE DEF q
<1> QED BY <1>1, <1>2, <1>3, <1>4, <1>5, <1>6, <1>7, <1>8, Apart
        DEF Next, Dequeue, Finishes

(* What Dequeue returns, whatever the producers do, is what they exchanged    *)
(* into the list, in that order, each element once.                           *)
THEOREM Refinement == Spec => ImplementsArrivalQueue
<1>1. Init => Arrivals!Init
  <2> SUFFICES ASSUME Init PROVE Arrivals!Init
    OBVIOUS
  <2>1. order = <<>> /\ taken = <<>>
    BY DEF Init
  <2>2. SubSeq(order, Len(taken) + 1, Len(order)) = <<>>
    <3>1. Len(taken) + 1 = 1 /\ Len(order) = 0
      BY <2>1
    <3> QED BY <3>1, SubSeqEmpty
  <2> QED BY <2>1, <2>2 DEF Arrivals!Init
<1> QED BY <1>1, StepRefines, Invariant, PTL DEF Spec, ImplementsArrivalQueue, Arrivals!Spec
=============================================================================
