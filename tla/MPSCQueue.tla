----------------------------- MODULE MPSCQueue -----------------------------
(* MPSCQueueIntrusive of common/Threading/MPSCQueue.h: a linked list into     *)
(* which many threads put elements without a lock, and from which one thread  *)
(* takes them.  Every access to an atomic that threads share is a step; what  *)
(* only the consumer touches (_tail, the dummy outside the list) goes with the*)
(* step before.                                                               *)
(*                                                                            *)
(* Enqueue exchanges _head first and links the previous head afterwards: in   *)
(* between the list has a gap.  The consumer deletes what it has taken        *)
(* (WorldSocket::Update).                                                     *)
EXTENDS Sequences, Naturals

CONSTANTS
    Producers,      \* the threads that call Enqueue
    Consumer,       \* the thread that calls Dequeue; it enqueues the dummy itself
    Items,          \* the addresses of elements; one that was deleted is used again
    Dummy,          \* _dummyPtr
    Null,           \* nullptr
    MaxEnqueues     \* bound on the calls of Enqueue

ASSUME QueueAssumption ==
    /\ Consumer \notin Producers
    /\ Dummy \notin Items /\ Null \notin Items /\ Null # Dummy
    /\ MaxEnqueues \in Nat

Nodes == Items \cup {Dummy}
Threads == Producers \cup {Consumer}

VARIABLES
    next,           \* the links, IntrusiveLink of each node
    head,           \* _head: the last node
    tail,           \* _tail: the next node to take, or the dummy before it
    allocated,      \* the elements that exist: created and not deleted
    pc,             \* where each thread is in Enqueue
    node,           \* `input' of the Enqueue a thread is in
    prevHead,       \* what its exchange has returned
    dpc,            \* where the consumer is in Dequeue
    ctail, cnext,   \* `tail' and `next' of Dequeue
    chain,          \* history: the nodes from _tail to _head, in the order of their exchanges
    order,          \* history: the elements in the order of their exchanges
    taken,          \* history: what Dequeue has returned
    calm            \* history: since Dequeue began no Enqueue has been under way

links == <<next, head, tail, allocated>>
enqueues == <<pc, node, prevHead>>
dequeue == <<dpc, ctail, cnext>>
history == <<chain, order, taken, calm>>
vars == <<links, enqueues, dequeue, history>>

TypeOK ==
    /\ next \in [Nodes -> Nodes \cup {Null}]
    /\ head \in Nodes /\ tail \in Nodes
    /\ allocated \subseteq Items
    /\ pc \in [Threads -> {"idle", "exchange", "link"}]
    /\ node \in [Threads -> Nodes \cup {Null}]
    /\ prevHead \in [Threads -> Nodes \cup {Null}]
    /\ dpc \in {"idle", "first", "second", "dummy", "last"}
    /\ ctail \in Nodes \cup {Null} /\ cnext \in Nodes \cup {Null}
    /\ chain \in Seq(Nodes)
    /\ order \in Seq(Items) /\ taken \in Seq(Items) /\ calm \in BOOLEAN

Init ==
    /\ next = [n \in Nodes |-> Null]
    /\ head = Dummy /\ tail = Dummy
    /\ allocated = {}
    /\ pc = [t \in Threads |-> "idle"]
    /\ node = [t \in Threads |-> Null]
    /\ prevHead = [t \in Threads |-> Null]
    /\ dpc = "idle" /\ ctail = Null /\ cnext = Null
    /\ chain = <<Dummy>>
    /\ order = <<>> /\ taken = <<>> /\ calm = TRUE

----------------------------------------------------------------------------
(* Enqueue                                                                    *)

(* A thread calls Enqueue with a new element, whose link it clears.           *)
Enqueue(p, x) ==
    /\ pc[p] = "idle"
    /\ x \notin allocated
    /\ Len(order) < MaxEnqueues
    /\ allocated' = allocated \cup {x}
    /\ next' = [next EXCEPT ![x] = Null]
    /\ node' = [node EXCEPT ![p] = x]
    /\ pc' = [pc EXCEPT ![p] = "exchange"]
    /\ UNCHANGED <<head, tail, prevHead, dequeue, history>>

(* _head.exchange(input): from here on the element is in the queue.           *)
Exchange(t) ==
    /\ pc[t] = "exchange"
    /\ prevHead' = [prevHead EXCEPT ![t] = head]
    /\ head' = node[t]
    /\ pc' = [pc EXCEPT ![t] = "link"]
    /\ chain' = Append(chain, node[t])
    /\ order' = IF node[t] = Dummy THEN order ELSE Append(order, node[t])
    /\ calm' = (calm /\ t = Consumer)
    /\ UNCHANGED <<next, tail, allocated, node, dequeue, taken>>

(* prevHead->IntrusiveLink.store(input)                                       *)
Link(t) ==
    /\ pc[t] = "link"
    /\ next' = [next EXCEPT ![prevHead[t]] = node[t]]
    /\ pc' = [pc EXCEPT ![t] = "idle"]
    /\ UNCHANGED <<head, tail, allocated, node, prevHead, dequeue, history>>

----------------------------------------------------------------------------
(* Dequeue                                                                    *)

(* It returns true with `tail', which its caller deletes.                     *)
Return(x) ==
    /\ taken' = Append(taken, x)
    /\ chain' = Tail(chain)
    /\ allocated' = allocated \ {x}
    /\ dpc' = "idle"

(* The loads of _tail, which only this thread writes, and of its link.        *)
DequeueBegins ==
    /\ dpc = "idle"
    /\ ctail' = tail
    /\ cnext' = next[tail]
    /\ dpc' = "first"
    /\ calm' = \A p \in Producers : pc[p] # "link"
    /\ UNCHANGED <<links, enqueues, chain, order, taken>>

(* The dummy is in front and nothing behind it: false.                        *)
NothingBehindDummy ==
    /\ dpc = "first" /\ ctail = Dummy /\ cnext = Null
    /\ dpc' = "idle"
    /\ UNCHANGED <<links, enqueues, ctail, cnext, history>>

(* The dummy is in front: the queue goes on without it.                       *)
PassDummy ==
    /\ dpc = "first" /\ ctail = Dummy /\ cnext # Null
    /\ tail' = cnext
    /\ ctail' = cnext
    /\ cnext' = next[cnext]
    /\ chain' = Tail(chain)
    /\ dpc' = "second"
    /\ UNCHANGED <<next, head, allocated, enqueues, order, taken, calm>>

(* There is a successor: the front can be given away.                         *)
TakeFront ==
    /\ \/ dpc = "first" /\ ctail # Dummy
       \/ dpc = "second"
       \/ dpc = "last"
    /\ cnext # Null
    /\ tail' = cnext
    /\ Return(ctail)
    /\ UNCHANGED <<next, head, enqueues, ctail, cnext, order, calm>>

(* There is none: either the front is the last element, and the dummy must    *)
(* come behind it before it can be given away, or an Enqueue is under way     *)
(* (TestLast).                                                                *)
FrontAlone ==
    /\ dpc \in {"first", "second"}
    /\ ctail # Dummy /\ cnext = Null

EnqueueDummy ==
    /\ dpc' = "dummy"
    /\ next' = [next EXCEPT ![Dummy] = Null]
    /\ node' = [node EXCEPT ![Consumer] = Dummy]
    /\ pc' = [pc EXCEPT ![Consumer] = "exchange"]
    /\ UNCHANGED <<head, tail, allocated, prevHead, ctail, cnext, history>>

(* Variant: the test of _head is left out.                                    *)
TestLastUnread == FrontAlone /\ EnqueueDummy

(* Variant: the last element waits for a successor.                           *)
TestLastInVain ==
    /\ FrontAlone
    /\ dpc' = "idle"
    /\ UNCHANGED <<links, enqueues, ctail, cnext, history>>

TestLast ==
    /\ FrontAlone
    /\ IF ctail # head
       THEN dpc' = "idle" /\ UNCHANGED <<links, enqueues, ctail, cnext, history>>
       ELSE EnqueueDummy

(* Variant: the dummy is taken for the successor of the front.                *)
LoadDummy ==
    /\ dpc = "dummy" /\ pc[Consumer] = "idle"
    /\ cnext' = Dummy
    /\ dpc' = "last"
    /\ UNCHANGED <<links, enqueues, ctail, history>>

(* Variant: the link is not loaded again.                                     *)
LoadNothing ==
    /\ dpc = "dummy" /\ pc[Consumer] = "idle"
    /\ dpc' = "last"
    /\ UNCHANGED <<links, enqueues, ctail, cnext, history>>

(* Enqueue(_dummyPtr) has returned: the link of the front is loaded again.    *)
LoadAgain ==
    /\ dpc = "dummy" /\ pc[Consumer] = "idle"
    /\ cnext' = next[ctail]
    /\ dpc' = "last"
    /\ UNCHANGED <<links, enqueues, ctail, history>>

(* Another element came between the front and the dummy and is not linked.    *)
StillNoSuccessor ==
    /\ dpc = "last" /\ cnext = Null
    /\ dpc' = "idle"
    /\ UNCHANGED <<links, enqueues, ctail, cnext, history>>

Finishes(t) == Exchange(t) \/ Link(t)

Dequeue ==
    \/ DequeueBegins \/ NothingBehindDummy \/ PassDummy \/ TakeFront
    \/ TestLast \/ LoadAgain \/ StillNoSuccessor
    \/ Finishes(Consumer)

Next ==
    \/ \E p \in Producers : (\E x \in Items : Enqueue(p, x)) \/ Finishes(p)
    \/ Dequeue

Spec == Init /\ [][Next]_vars

(* A thread in Enqueue goes on, and the network thread polls the queue every  *)
(* millisecond (NetworkThread::Update).                                       *)
FairSpec ==
    /\ Spec
    /\ \A p \in Producers : WF_vars(Finishes(p))
    /\ WF_vars(Dequeue)

----------------------------------------------------------------------------
(* Properties                                                                 *)

(* No thread follows a pointer to an element that the consumer has deleted:   *)
(* the previous head that a producer is going to link, and the nodes that     *)
(* Dequeue looks at, exist (MPSCQueue.h:185, :200 and :207).                  *)
NoDeletedNode ==
    /\ \A t \in Threads :
          /\ pc[t] = "link" => prevHead[t] \in allocated \cup {Dummy}
          /\ pc[t] # "idle" => node[t] \in allocated \cup {Dummy}
    /\ dpc # "idle" => ctail \in allocated \cup {Dummy}
    /\ tail \in allocated \cup {Dummy} /\ head \in allocated \cup {Dummy}

(* Dequeue says that there is nothing only when that is true, or when an      *)
(* Enqueue was between its exchange and its link while it looked.             *)
Empty == Len(taken) = Len(order)
EmptyIsHonest ==
    [][dpc # "idle" /\ dpc' = "idle" /\ taken' = taken => Empty \/ ~calm]_vars

(* What Dequeue returns is what arrived, in the order of the exchanges, each  *)
(* element once, although the dummy moves through the list.                   *)
Arrivals == INSTANCE ArrivalQueue WITH
    queue <- SubSeq(order, Len(taken) + 1, Len(order))
ImplementsArrivalQueue == Arrivals!Spec

(* What has been exchanged is taken in the end: a gap closes, and the last    *)
(* element does not wait for a successor for ever.                            *)
EveryItemTaken ==
    \A n \in 1..MaxEnqueues : Len(order) >= n ~> Len(taken) >= n
=============================================================================
