------------------------------ MODULE PCQueue ------------------------------
(***************************************************************************)
(* ProducerConsumerQueue<T> (common/Threading/PCQueue.h): a std::queue     *)
(* under a mutex, a condition variable, and two flags.  The module gives   *)
(* the operations as actions; MapUpdater and DatabaseWorkerPool extend it  *)
(* and decide which thread calls what and when.                            *)
(*                                                                         *)
(* A critical section is one step, except that of a consumer which finds   *)
(* the wait predicate false: it keeps the mutex until it blocks, so the    *)
(* evaluation and the blocking are two steps with the mutex held between   *)
(* them.  notify_one in Push and everything in Shutdown run without the    *)
(* mutex and are steps of their own.                                       *)
(*                                                                         *)
(* A definition called a variant, here and in the other modules, is the    *)
(* one below it with a mistake the code could have: a property is of use   *)
(* only if TLC refutes it for some variant.                                *)
(***************************************************************************)
EXTENDS Naturals, Sequences

CONSTANTS
    Consumers,      \* threads that call WaitAndPop
    Values,         \* the pointers the queue carries
    Null            \* the null pointer, and "no thread" for a free mutex

ASSUME QueueAssumption == Null \notin Values /\ Null \notin Consumers

VARIABLES
    queue,          \* _queue
    qlock,          \* the consumer that holds _queueLock across two steps
    cpc,            \* where each consumer is inside WaitAndPop
    popped,         \* the caller's variable that WaitAndPop fills
    cancel,         \* _cancel
    shutdown        \* _shutdown

qvars == <<queue, qlock, cpc, popped, cancel, shutdown>>

(* "out": not in WaitAndPop; "lock": about to lock and test the predicate; *)
(* "blocking": predicate found false, mutex held; "asleep": blocked on the *)
(* condition variable, mutex released; "returned": WaitAndPop is over.     *)
QueuePC == {"out", "lock", "blocking", "asleep", "returned"}

QueueTypeOK ==
    /\ queue \in Seq(Values)
    /\ qlock \in Consumers \cup {Null}
    /\ cpc \in [Consumers -> QueuePC]
    /\ popped \in [Consumers -> Values \cup {Null}]
    /\ cancel \in BOOLEAN
    /\ shutdown \in BOOLEAN

QueueInit ==
    /\ queue = << >>
    /\ qlock = Null
    /\ cpc = [c \in Consumers |-> "out"]
    /\ popped = [c \in Consumers |-> Null]
    /\ cancel = FALSE
    /\ shutdown = FALSE

Asleep == {c \in Consumers : cpc[c] = "asleep"}

(* The predicate a consumer waits for.                                     *)
Ready == queue # << >> \/ cancel \/ shutdown

----------------------------------------------------------------------------
(* Producers.                                                              *)

(* The critical section of Push; the caller goes on to NotifyOne.          *)
PushLocked(v) ==
    /\ qlock = Null
    /\ queue' = Append(queue, v)
    /\ UNCHANGED <<qlock, cpc, popped, cancel, shutdown>>

(* Variant: Push forgets its notify_one.                                   *)
NotifyNobody == UNCHANGED qvars

(* notify_one, after Push has released the mutex: wakes one blocked        *)
(* consumer, whichever the implementation picks, or nobody.                *)
NotifyOne ==
    /\ IF Asleep = {} THEN cpc' = cpc
       ELSE \E c \in Asleep : cpc' = [cpc EXCEPT ![c] = "lock"]
    /\ UNCHANGED <<queue, qlock, popped, cancel, shutdown>>

WakeAll(pc) == [c \in Consumers |-> IF pc[c] = "asleep" THEN "lock" ELSE pc[c]]

(* Variant: Cancel forgets its notify_all.                                 *)
CancelQuietly ==
    /\ qlock = Null
    /\ queue' = << >>
    /\ cancel' = TRUE
    /\ UNCHANGED <<qlock, cpc, popped, shutdown>>

(* Cancel: clear the queue, set the flag and wake everyone, all of it      *)
(* under the mutex.                                                        *)
CancelQueue ==
    /\ qlock = Null
    /\ queue' = << >>
    /\ cancel' = TRUE
    /\ cpc' = WakeAll(cpc)
    /\ UNCHANGED <<qlock, popped, shutdown>>

(* Shutdown never takes the mutex: the store to the atomic flag ...        *)
ShutdownFlag ==
    /\ shutdown' = TRUE
    /\ UNCHANGED <<queue, qlock, cpc, popped, cancel>>

(* ... and then notify_all, for whoever is blocked at that instant.        *)
ShutdownNotify ==
    /\ cpc' = WakeAll(cpc)
    /\ UNCHANGED <<queue, qlock, popped, cancel, shutdown>>

----------------------------------------------------------------------------
(* Consumers.                                                              *)

(* A call of WaitAndPop on a variable the caller has just set to nullptr.  *)
CallWaitAndPop(c) ==
    /\ cpc[c] = "out"
    /\ cpc' = [cpc EXCEPT ![c] = "lock"]
    /\ popped' = [popped EXCEPT ![c] = Null]
    /\ UNCHANGED <<queue, qlock, cancel, shutdown>>

(* The predicate is false: keep the mutex, and block in the next step.     *)
TestFalse(c) ==
    /\ cpc[c] = "lock" /\ qlock = Null
    /\ ~Ready
    /\ qlock' = c
    /\ cpc' = [cpc EXCEPT ![c] = "blocking"]
    /\ UNCHANGED <<queue, popped, cancel, shutdown>>

Block(c) ==
    /\ cpc[c] = "blocking"
    /\ qlock' = Null
    /\ cpc' = [cpc EXCEPT ![c] = "asleep"]
    /\ UNCHANGED <<queue, popped, cancel, shutdown>>

(* std::condition_variable may wake a waiter for no reason.                *)
SpuriousWakeup(c) ==
    /\ cpc[c] = "asleep"
    /\ cpc' = [cpc EXCEPT ![c] = "lock"]
    /\ UNCHANGED <<queue, qlock, popped, cancel, shutdown>>

(* Variant: a consumer that sees the shutdown flag leaves work behind.     *)
ReturnAtShutdown(c) ==
    /\ cpc[c] = "lock" /\ qlock = Null
    /\ Ready
    /\ queue = << >> \/ cancel \/ shutdown
    /\ cpc' = [cpc EXCEPT ![c] = "returned"]
    /\ UNCHANGED <<queue, qlock, popped, cancel, shutdown>>

(* The predicate is true, but there is nothing to hand out: the caller's   *)
(* variable stays null.                                                    *)
ReturnEmpty(c) ==
    /\ cpc[c] = "lock" /\ qlock = Null
    /\ Ready
    /\ queue = << >> \/ cancel
    /\ cpc' = [cpc EXCEPT ![c] = "returned"]
    /\ UNCHANGED <<queue, qlock, popped, cancel, shutdown>>

(* Variant: the element is handed out and not removed.                     *)
ReturnFrontKept(c) ==
    /\ cpc[c] = "lock" /\ qlock = Null
    /\ queue # << >> /\ ~cancel
    /\ popped' = [popped EXCEPT ![c] = Head(queue)]
    /\ cpc' = [cpc EXCEPT ![c] = "returned"]
    /\ UNCHANGED <<queue, qlock, cancel, shutdown>>

(* Variant: the queue is a stack.                                          *)
ReturnBack(c) ==
    /\ cpc[c] = "lock" /\ qlock = Null
    /\ queue # << >> /\ ~cancel
    /\ popped' = [popped EXCEPT ![c] = queue[Len(queue)]]
    /\ queue' = SubSeq(queue, 1, Len(queue) - 1)
    /\ cpc' = [cpc EXCEPT ![c] = "returned"]
    /\ UNCHANGED <<qlock, cancel, shutdown>>

(* The element at the front is removed and handed out.                     *)
ReturnFront(c) ==
    /\ cpc[c] = "lock" /\ qlock = Null
    /\ queue # << >> /\ ~cancel
    /\ popped' = [popped EXCEPT ![c] = Head(queue)]
    /\ queue' = Tail(queue)
    /\ cpc' = [cpc EXCEPT ![c] = "returned"]
    /\ UNCHANGED <<qlock, cancel, shutdown>>

(* The steps a consumer takes inside WaitAndPop on its own account.        *)
WaitAndPop(c) == TestFalse(c) \/ Block(c) \/ ReturnEmpty(c) \/ ReturnFront(c)

(* Back in the caller's code.                                              *)
LeaveWaitAndPop(c) ==
    /\ cpc[c] = "returned"
    /\ cpc' = [cpc EXCEPT ![c] = "out"]
    /\ UNCHANGED <<queue, qlock, popped, cancel, shutdown>>
============================================================================
