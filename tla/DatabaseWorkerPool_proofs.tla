---------------------- MODULE DatabaseWorkerPool_proofs ---------------------
(* Proofs for DatabaseWorkerPool: for any number of asynchronous connections, *)
(* any tasks, any results of opening and any number of calls of Open, tasks   *)
(* are executed on open connections only, and the pool is a task queue that   *)
(* has executed everything when it is closed after its first Open.            *)
EXTENDS DatabaseWorkerPool, TLAPS

----------------------------------------------------------------------------
(* The inductive invariant                                                    *)

(* Open has succeeded.                                                        *)
Opened == {"open", "close", "notify", "joining", "closed"}

(* Connections are made one by one, and all of them before the pool is open.  *)
ConnectionsHold ==
    /\ dpc # "opening" => Consumers # {}
    /\ dpc = "opening" => \A w \in Consumers : conn[w] # "created"
    /\ dpc = "connecting" =>
          \A v, w \in Consumers : conn[v] = "created" /\ conn[w] = "created" => v = w
    /\ dpc \in {"opening", "connecting", "synch"} =>
          \A w \in Consumers : conn[w] # "destroyed"
    /\ dpc \in {"synch"} \cup Opened => \A w \in Consumers : conn[w] \in {"open", "destroyed"}
    /\ dpc = "closed" => \A w \in Consumers : conn[w] = "destroyed"

(* A connection outlives its worker, and a task is in a worker's hands only   *)
(* from the end of WaitAndPop to the end of the call.                         *)
WorkersHold ==
    \A w \in Consumers :
        /\ conn[w] = "none" <=> wpc[w] = "none"
        /\ conn[w] = "destroyed" => wpc[w] = "exited"
        /\ wpc[w] = "pop" <=> cpc[w] # "out"
        /\ wpc[w] = "call" => popped[w] # Null
        /\ popped[w] # Null => wpc[w] = "call" \/ cpc[w] = "returned"

InQueue(t) == \E i \in 1..Len(queue) : queue[i] = t

(* A task that was handed over waits, is executed or has been, one of these.  *)
TasksHold ==
    /\ \A i, j \in 1..Len(queue) : queue[i] = queue[j] => i = j
    /\ \A t \in Tasks : InQueue(t) => t \notin executed /\ \A w \in Consumers : popped[w] # t
    /\ \A v, w \in Consumers : popped[w] # Null /\ popped[v] = popped[w] => v = w
    /\ \A t \in Tasks :
          sender[t] # "before" <=>
              InQueue(t) \/ t \in executed \/ \E w \in Consumers : popped[w] = t
    /\ \A w \in Consumers : popped[w] \notin executed
    /\ \A t \in Tasks : sender[t] # "before" => dpc \in Opened

(* Until an Open has failed, a worker leaves only an empty queue of a pool    *)
(* that is being closed.                                                      *)
EndHolds ==
    /\ shutdown => dpc \in {"notify", "joining", "closed"}
    /\ cancel /\ opens = 1 => dpc \in {"failing", "failed"}
    /\ ~cancel => \A w \in Consumers :
          wpc[w] = "exited" \/ (cpc[w] = "returned" /\ popped[w] = Null)
              => shutdown /\ queue = << >>

IInv == TypeOK /\ ConnectionsHold /\ WorkersHold /\ TasksHold /\ EndHolds

----------------------------------------------------------------------------
(* Facts about the operators                                                  *)

LEMMA Constant ==
    /\ \A t \in Tasks : t # Null
    /\ Tasks = Values
    /\ MaxOpens \in Nat \ {0}
BY QueueAssumption, PoolAssumption DEF Tasks

LEMMA QueueType == TypeOK => queue \in Seq(Tasks)
BY DEF TypeOK, QueueTypeOK, Tasks

(* What waits after Push and after WaitAndPop.                                *)
LEMMA AppendFacts ==
    ASSUME NEW s \in Seq(Tasks), NEW t \in Tasks
    PROVE  /\ Append(s, t) \in Seq(Tasks)
           /\ Len(Append(s, t)) = Len(s) + 1
           /\ \A i \in 1..Len(s) : Append(s, t)[i] = s[i]
           /\ Append(s, t)[Len(s) + 1] = t
OBVIOUS

LEMMA TailFacts ==
    ASSUME NEW s \in Seq(Tasks), s # << >>
    PROVE  /\ Tail(s) \in Seq(Tasks)
           /\ Len(s) \in Nat /\ Len(s) >= 1
           /\ Head(s) = s[1] /\ Head(s) \in Tasks
           /\ Len(Tail(s)) = Len(s) - 1
           /\ \A i \in 1..Len(s) - 1 : Tail(s)[i] = s[i + 1]
OBVIOUS

(* Who sleeps is about to test the predicate again, the others stay.          *)
LEMMA WakeFacts ==
    ASSUME TypeOK
    PROVE  /\ WakeAll(cpc) \in [Consumers -> QueuePC]
           /\ \A w \in Consumers : \/ WakeAll(cpc)[w] = cpc[w]
                                   \/ cpc[w] = "asleep" /\ WakeAll(cpc)[w] = "lock"
<1>1. cpc \in [Consumers -> QueuePC]
  BY DEF TypeOK, QueueTypeOK
<1>2. \A w \in Consumers : WakeAll(cpc)[w] = IF cpc[w] = "asleep" THEN "lock" ELSE cpc[w]
  BY DEF WakeAll
<1>3. \A w \in Consumers : (IF cpc[w] = "asleep" THEN "lock" ELSE cpc[w]) \in QueuePC
  BY <1>1 DEF QueuePC
<1> QED BY <1>2, <1>3 DEF WakeAll

----------------------------------------------------------------------------
(* Opening, failing and closing                                               *)

(* Waking consumers disturbs nothing.                                         *)
LEMMA WakeHolds ==
    ASSUME IInv, UNCHANGED <<queue, qlock, popped, cancel, shutdown, pvars>>,
           \/ UNCHANGED cpc \/ cpc' = WakeAll(cpc)
           \/ \E w \in Consumers : cpc[w] = "asleep" /\ cpc' = [cpc EXCEPT ![w] = "lock"]
    PROVE  IInv'
<1> USE DEF IInv
<1>1. /\ cpc' \in [Consumers -> QueuePC]
      /\ \A w \in Consumers : cpc'[w] = cpc[w] \/ (cpc[w] = "asleep" /\ cpc'[w] = "lock")
  <2>1. cpc \in [Consumers -> QueuePC] /\ "lock" \in QueuePC
    BY DEF TypeOK, QueueTypeOK, QueuePC
  <2> QED BY <2>1, WakeFacts
<1>2. UNCHANGED <<queue, qlock, popped, cancel, shutdown, dpc, opens, conn, wpc, sender, executed>>
  BY DEF pvars
<1>3. TypeOK'
  BY <1>1, <1>2 DEF TypeOK, QueueTypeOK
<1>4. ConnectionsHold' /\ EndHolds'
  BY <1>1, <1>2 DEF ConnectionsHold, EndHolds
<1>5. WorkersHold'
  BY <1>1, <1>2 DEF WorkersHold
<1>6. TasksHold'
  BY <1>2 DEF TasksHold, InQueue
<1> QED BY <1>3, <1>4, <1>5, <1>6

(* The steps that only move the thread which opens and closes the pool.       *)
LEMMA PhaseHolds ==
    ASSUME IInv,
           \/ SynchConnected \/ ConnectError \/ Incompatible \/ PoolDown \/ CloseBegins
    PROVE  IInv'
<1> USE DEF IInv
<1>1. /\ UNCHANGED <<queue, qlock, cpc, popped, cancel, shutdown, opens, conn, wpc, sender,
                     executed>>
      /\ \/ dpc = "synch" /\ dpc' \in {"open", "cancelSynch", "refused"}
         \/ dpc = "connecting" /\ dpc' \in {"cancel", "aborting"}
         \/ /\ dpc = "joining" /\ dpc' = "closed"
            /\ \A w \in Consumers : conn[w] \in {"none", "destroyed"}
         \/ dpc = "failing" /\ dpc' = "failed"
         \/ dpc = "aborting" /\ dpc' = "refused"
         \/ dpc = "open" /\ dpc' = "close"
  BY DEF SynchConnected, ConnectError, Incompatible, PoolDown, CloseBegins, qvars
<1>2. TypeOK'
  BY <1>1 DEF TypeOK, QueueTypeOK, PoolPC
<1>3. ConnectionsHold'
  BY <1>1 DEF ConnectionsHold, Opened
<1>4. WorkersHold'
  BY <1>1 DEF WorkersHold
<1>5. TasksHold'
  BY <1>1 DEF TasksHold, InQueue, Opened
<1>6. EndHolds'
  BY <1>1 DEF EndHolds
<1> QED BY <1>2, <1>3, <1>4, <1>5, <1>6

(* The queue is cancelled only while nothing has been handed over.            *)
LEMMA CancelHolds ==
    ASSUME IInv, CancelPool
    PROVE  IInv' /\ queue = << >>
<1> USE DEF IInv
<1>1. /\ dpc \in {"cancel", "cancelSynch"} /\ dpc' \in {"failing", "failed"}
      /\ queue' = << >> /\ cancel' = TRUE /\ cpc' = WakeAll(cpc)
      /\ UNCHANGED <<qlock, popped, shutdown, opens, conn, wpc, sender, executed>>
  BY DEF CancelPool, CancelQueue
<1>2. \A t \in Tasks : ~InQueue(t)
  BY <1>1 DEF TasksHold, Opened
<1>3. queue = << >>
  <2>1. queue \in Seq(Tasks)
    BY QueueType
  <2> QED BY <1>2, <2>1 DEF InQueue
<1>4. /\ cpc' \in [Consumers -> QueuePC]
      /\ \A w \in Consumers : cpc'[w] = cpc[w] \/ (cpc[w] = "asleep" /\ cpc'[w] = "lock")
  BY <1>1, WakeFacts
<1>5. TypeOK'
  BY <1>1, <1>3, <1>4 DEF TypeOK, QueueTypeOK, QueuePC, PoolPC
<1>6. ConnectionsHold' /\ EndHolds'
  BY <1>1 DEF ConnectionsHold, EndHolds, Opened
<1>7. WorkersHold'
  BY <1>1, <1>4 DEF WorkersHold
<1>8. TasksHold'
  BY <1>1, <1>3 DEF TasksHold, InQueue, Opened
<1> QED BY <1>3, <1>5, <1>6, <1>7, <1>8

LEMMA OpenAgainHolds ==
    ASSUME IInv, OpenAgain
    PROVE  IInv'
<1> USE DEF IInv
<1>1. /\ dpc = "failed" /\ dpc' = "opening" /\ opens < MaxOpens /\ opens' = opens + 1
      /\ \A w \in Consumers : wpc[w] \in {"none", "exited"}
      /\ conn' = [w \in Consumers |-> "none"] /\ wpc' = [w \in Consumers |-> "none"]
      /\ UNCHANGED <<queue, qlock, cpc, popped, cancel, shutdown, sender, executed>>
  BY DEF OpenAgain, qvars
<1>2. opens' \in 1..MaxOpens /\ opens' # 1
  BY <1>1, Constant DEF TypeOK
<1>3. TypeOK'
  BY <1>1, <1>2 DEF TypeOK, QueueTypeOK, PoolPC
<1>4. ConnectionsHold'
  BY <1>1 DEF ConnectionsHold, Opened
<1>5. WorkersHold'
  BY <1>1 DEF WorkersHold, TypeOK, QueueTypeOK, QueuePC
<1>6. TasksHold'
  BY <1>1 DEF TasksHold, InQueue, Opened
<1>7. EndHolds'
  BY <1>1, <1>2, <1>5 DEF EndHolds, WorkersHold
<1> QED BY <1>3, <1>4, <1>5, <1>6, <1>7

LEMMA CloseFlagHolds ==
    ASSUME IInv, CloseFlag
    PROVE  IInv'
<1> USE DEF IInv
<1>1. /\ dpc = "close" /\ dpc' = "notify" /\ shutdown' = TRUE
      /\ UNCHANGED <<queue, qlock, cpc, popped, cancel, opens, conn, wpc, sender, executed>>
  BY DEF CloseFlag, ShutdownFlag
<1>2. TypeOK'
  BY <1>1 DEF TypeOK, QueueTypeOK, PoolPC
<1>3. ConnectionsHold' /\ WorkersHold'
  BY <1>1 DEF ConnectionsHold, WorkersHold, Opened
<1>4. TasksHold' /\ EndHolds'
  BY <1>1 DEF TasksHold, EndHolds, InQueue, Opened
<1> QED BY <1>2, <1>3, <1>4

LEMMA CloseNotifyHolds ==
    ASSUME IInv, CloseNotify
    PROVE  IInv'
<1> USE DEF IInv
<1>1. /\ dpc = "notify" /\ dpc' = "joining" /\ cpc' = WakeAll(cpc)
      /\ UNCHANGED <<queue, qlock, popped, cancel, shutdown, opens, conn, wpc, sender, executed>>
  BY DEF CloseNotify, ShutdownNotify
<1>2. /\ cpc' \in [Consumers -> QueuePC]
      /\ \A w \in Consumers : cpc'[w] = cpc[w] \/ (cpc[w] = "asleep" /\ cpc'[w] = "lock")
  BY <1>1, WakeFacts
<1>3. TypeOK'
  BY <1>1, <1>2 DEF TypeOK, QueueTypeOK, QueuePC, PoolPC
<1>4. ConnectionsHold' /\ EndHolds'
  BY <1>1, <1>2 DEF ConnectionsHold, EndHolds, Opened
<1>5. WorkersHold'
  BY <1>1, <1>2 DEF WorkersHold
<1>6. TasksHold'
  BY <1>1 DEF TasksHold, InQueue, Opened
<1> QED BY <1>3, <1>4, <1>5, <1>6

LEMMA CreateHolds ==
    ASSUME IInv, NEW w \in Consumers, CreateConnection(w)
    PROVE  IInv' /\ popped[w] = Null
<1> USE DEF IInv
<1>1. /\ dpc = "opening" /\ dpc' = "connecting" /\ conn[w] = "none" /\ cpc[w] = "out"
      /\ conn' = [conn EXCEPT ![w] = "created"] /\ wpc' = [wpc EXCEPT ![w] = "pop"]
      /\ cpc' = [cpc EXCEPT ![w] = "lock"] /\ popped' = [popped EXCEPT ![w] = Null]
      /\ UNCHANGED <<queue, qlock, cancel, shutdown, opens, sender, executed>>
  BY DEF CreateConnection, CallWaitAndPop
<1>2. popped[w] = Null
  BY <1>1 DEF WorkersHold, TypeOK
<1>3. popped' = popped
  BY <1>1, <1>2 DEF TypeOK, QueueTypeOK
<1>4. TypeOK'
  BY <1>1, <1>3 DEF TypeOK, QueueTypeOK, QueuePC, PoolPC
<1>5. /\ conn'[w] = "created" /\ wpc'[w] = "pop" /\ cpc'[w] = "lock"
      /\ \A v \in Consumers \ {w} : conn'[v] = conn[v] /\ wpc'[v] = wpc[v] /\ cpc'[v] = cpc[v]
  BY <1>1 DEF TypeOK, QueueTypeOK
<1>6. ConnectionsHold'
  BY <1>1, <1>5 DEF ConnectionsHold, Opened
<1>7. WorkersHold'
  BY <1>2, <1>3, <1>5 DEF WorkersHold
<1>8. TasksHold'
  BY <1>1, <1>3 DEF TasksHold, InQueue, Opened
<1>9. EndHolds'
  BY <1>1, <1>3, <1>5 DEF EndHolds
<1> QED BY <1>2, <1>4, <1>6, <1>7, <1>8, <1>9

LEMMA ConnectedHolds ==
    ASSUME IInv, NEW w \in Consumers, Connected(w)
    PROVE  IInv'
<1> USE DEF IInv
<1>1. /\ dpc = "connecting" /\ conn[w] = "created" /\ conn' = [conn EXCEPT ![w] = "open"]
      /\ \/ dpc' = "opening"
         \/ dpc' = "synch" /\ \A v \in Consumers : conn[v] # "none"
      /\ UNCHANGED <<queue, qlock, cpc, popped, cancel, shutdown, opens, wpc, sender, executed>>
  BY DEF Connected, qvars
<1>2. conn'[w] = "open" /\ \A v \in Consumers \ {w} : conn'[v] = conn[v]
  BY <1>1 DEF TypeOK
<1>3. TypeOK'
  BY <1>1 DEF TypeOK, QueueTypeOK, PoolPC
<1>4. ConnectionsHold'
  BY <1>1, <1>2 DEF ConnectionsHold, Opened, TypeOK
<1>5. WorkersHold'
  BY <1>1, <1>2 DEF WorkersHold
<1>6. TasksHold' /\ EndHolds'
  BY <1>1 DEF TasksHold, EndHolds, InQueue, Opened
<1> QED BY <1>3, <1>4, <1>5, <1>6

LEMMA DestroyHolds ==
    ASSUME IInv, NEW w \in Consumers, DestroyConnection(w)
    PROVE  IInv'
<1> USE DEF IInv
<1>1. /\ dpc \in {"joining", "failing", "aborting"} /\ wpc[w] = "exited"
      /\ conn[w] \in {"created", "open"} /\ conn' = [conn EXCEPT ![w] = "destroyed"]
      /\ UNCHANGED <<queue, qlock, cpc, popped, cancel, shutdown, dpc, opens, wpc, sender,
                     executed>>
  BY DEF DestroyConnection, qvars
<1>2. conn'[w] = "destroyed" /\ \A v \in Consumers \ {w} : conn'[v] = conn[v]
  BY <1>1 DEF TypeOK
<1>3. TypeOK'
  BY <1>1 DEF TypeOK, QueueTypeOK
<1>4. ConnectionsHold'
  BY <1>1, <1>2 DEF ConnectionsHold
<1>5. WorkersHold'
  BY <1>1, <1>2 DEF WorkersHold
<1>6. TasksHold' /\ EndHolds'
  BY <1>1 DEF TasksHold, EndHolds, InQueue
<1> QED BY <1>3, <1>4, <1>5, <1>6

----------------------------------------------------------------------------
(* Enqueue and the workers                                                    *)

LEMMA SubmitHolds ==
    ASSUME IInv, NEW t \in Tasks, Submit(t)
    PROVE  IInv'
<1> USE DEF IInv
<1>1. /\ dpc = "open" /\ sender[t] = "before" /\ queue' = Append(queue, t)
      /\ sender' = [sender EXCEPT ![t] = "pushed"]
      /\ UNCHANGED <<qlock, cpc, popped, cancel, shutdown, dpc, opens, conn, wpc, executed>>
  BY DEF Submit, PushLocked
<1>2. queue \in Seq(Tasks)
  BY QueueType
<1>3. /\ queue' \in Seq(Tasks) /\ Len(queue) \in Nat /\ Len(queue') = Len(queue) + 1
      /\ \A i \in 1..Len(queue) : queue'[i] = queue[i]
      /\ queue'[Len(queue) + 1] = t
  BY <1>1, <1>2, AppendFacts
<1>4. \A u \in Tasks : InQueue(u)' <=> InQueue(u) \/ u = t
  BY <1>3 DEF InQueue
<1>5. ~InQueue(t) /\ t \notin executed /\ \A w \in Consumers : popped[w] # t
  BY <1>1 DEF TasksHold
<1>6. sender'[t] = "pushed" /\ \A u \in Tasks \ {t} : sender'[u] = sender[u]
  BY <1>1 DEF TypeOK
<1>7. TypeOK'
  BY <1>1, <1>3, Constant DEF TypeOK, QueueTypeOK
<1>8. ConnectionsHold' /\ WorkersHold'
  BY <1>1 DEF ConnectionsHold, WorkersHold
<1>9. TasksHold'
  <2>1. \A i, j \in 1..Len(queue') : queue'[i] = queue'[j] => i = j
    BY <1>3, <1>5 DEF TasksHold, InQueue
  <2> QED BY <1>1, <1>4, <1>5, <1>6, <2>1 DEF TasksHold, Opened
<1>10. EndHolds'
  BY <1>1 DEF EndHolds
<1> QED BY <1>7, <1>8, <1>9, <1>10

LEMMA SubmitNotifyHolds ==
    ASSUME IInv, NEW t \in Tasks, SubmitNotify(t)
    PROVE  IInv'
<1> USE DEF IInv
<1>1. /\ sender[t] = "pushed" /\ sender' = [sender EXCEPT ![t] = "after"]
      /\ \/ UNCHANGED cpc
         \/ \E w \in Consumers : cpc[w] = "asleep" /\ cpc' = [cpc EXCEPT ![w] = "lock"]
      /\ UNCHANGED <<queue, qlock, popped, cancel, shutdown, dpc, opens, conn, wpc, executed>>
  BY DEF SubmitNotify, NotifyOne, Asleep
<1>2. /\ cpc' \in [Consumers -> QueuePC]
      /\ \A w \in Consumers : cpc'[w] = cpc[w] \/ (cpc[w] = "asleep" /\ cpc'[w] = "lock")
  BY <1>1 DEF TypeOK, QueueTypeOK, QueuePC
<1>3. sender'[t] = "after" /\ \A u \in Tasks \ {t} : sender'[u] = sender[u]
  BY <1>1 DEF TypeOK
<1>4. TypeOK'
  BY <1>1, <1>2 DEF TypeOK, QueueTypeOK
<1>5. ConnectionsHold' /\ EndHolds'
  BY <1>1, <1>2 DEF ConnectionsHold, EndHolds
<1>6. WorkersHold'
  BY <1>1, <1>2 DEF WorkersHold
<1>7. TasksHold'
  BY <1>1, <1>3 DEF TasksHold, InQueue
<1> QED BY <1>4, <1>5, <1>6, <1>7

(* TestFalse, Block and ReturnEmpty take nothing.                             *)
LEMMA NothingPoppedHolds ==
    ASSUME IInv, NEW w \in Consumers, wpc[w] = "pop",
           TestFalse(w) \/ Block(w) \/ ReturnEmpty(w), UNCHANGED pvars
    PROVE  IInv'
<1> USE DEF IInv
<1>1. PICK l \in {"blocking", "asleep", "returned"} : cpc' = [cpc EXCEPT ![w] = l]
  BY DEF TestFalse, Block, ReturnEmpty
<1>2. /\ UNCHANGED <<queue, popped, cancel, shutdown, dpc, opens, conn, wpc, sender, executed>>
      /\ qlock' \in Consumers \cup {Null}
  BY DEF TestFalse, Block, ReturnEmpty, pvars, TypeOK, QueueTypeOK
<1>3. /\ l = "returned" => cancel \/ (shutdown /\ queue = << >>)
      /\ cpc[w] \in {"lock", "blocking"}
  <2>1. l = cpc'[w]
    BY <1>1 DEF TypeOK, QueueTypeOK
  <2>2. CASE TestFalse(w)
    BY <2>1, <2>2 DEF TestFalse, TypeOK, QueueTypeOK
  <2>3. CASE Block(w)
    BY <2>1, <2>3 DEF Block, TypeOK, QueueTypeOK
  <2>4. CASE ReturnEmpty(w)
    BY <2>4 DEF ReturnEmpty, Ready
  <2> QED BY <2>2, <2>3, <2>4
<1>4. cpc'[w] = l /\ \A v \in Consumers \ {w} : cpc'[v] = cpc[v]
  BY <1>1 DEF TypeOK, QueueTypeOK
<1>5. popped[w] = Null
  BY <1>3 DEF WorkersHold
<1>6. TypeOK'
  BY <1>1, <1>2 DEF TypeOK, QueueTypeOK, QueuePC
<1>7. ConnectionsHold' /\ TasksHold'
  BY <1>2 DEF ConnectionsHold, TasksHold, InQueue
<1>8. WorkersHold'
  BY <1>2, <1>4, <1>5 DEF WorkersHold
<1>9. EndHolds'
  BY <1>2, <1>3, <1>4 DEF EndHolds
<1> QED BY <1>6, <1>7, <1>8, <1>9

LEMMA ReturnFrontHolds ==
    ASSUME IInv, NEW w \in Consumers, wpc[w] = "pop", ReturnFront(w), UNCHANGED pvars
    PROVE  /\ IInv'
           /\ queue # << >> /\ popped[w] = Null /\ queue' = Tail(queue)
           /\ popped'[w] = Head(queue) /\ Head(queue) \in Tasks
           /\ \A v \in Consumers \ {w} : popped'[v] = popped[v]
<1> USE DEF IInv
<1>0. PICK t : t = Head(queue)
  OBVIOUS
<1>1. /\ cpc[w] = "lock" /\ queue # << >> /\ ~cancel /\ queue' = Tail(queue)
      /\ cpc' = [cpc EXCEPT ![w] = "returned"] /\ popped' = [popped EXCEPT ![w] = t]
      /\ UNCHANGED <<qlock, cancel, shutdown, dpc, opens, conn, wpc, sender, executed>>
  BY <1>0 DEF ReturnFront, pvars
<1>2. queue \in Seq(Tasks)
  BY QueueType
<1>3. /\ queue' \in Seq(Tasks) /\ Len(queue) \in Nat /\ Len(queue) >= 1
      /\ Len(queue') = Len(queue) - 1 /\ t = queue[1] /\ t \in Tasks
      /\ \A i \in 1..Len(queue) - 1 : queue'[i] = queue[i + 1]
  BY <1>0, <1>1, <1>2, TailFacts
<1>4. \A u \in Tasks : InQueue(u) <=> InQueue(u)' \/ u = t
  <2>1. ASSUME NEW i \in 1..Len(queue)
        PROVE  i = 1 \/ (i - 1 \in 1..Len(queue') /\ queue'[i - 1] = queue[i])
    BY <1>3
  <2>2. ASSUME NEW i \in 1..Len(queue') PROVE i + 1 \in 1..Len(queue) /\ queue'[i] = queue[i + 1]
    BY <1>3
  <2>3. 1 \in 1..Len(queue)
    BY <1>3
  <2>4. ASSUME NEW u \in Tasks, InQueue(u) PROVE InQueue(u)' \/ u = t
    <3>1. PICK i \in 1..Len(queue) : queue[i] = u
      BY <2>4 DEF InQueue
    <3> QED BY <1>3, <2>1, <3>1 DEF InQueue
  <2>5. ASSUME NEW u \in Tasks, InQueue(u)' PROVE InQueue(u)
    <3>1. PICK i \in 1..Len(queue') : queue'[i] = u
      BY <2>5 DEF InQueue
    <3> QED BY <2>2, <3>1 DEF InQueue
  <2>6. InQueue(t)
    BY <1>3, <2>3 DEF InQueue
  <2> QED BY <2>4, <2>5, <2>6
<1>5. ~InQueue(t)'
  BY <1>3 DEF TasksHold, InQueue
<1>6. /\ t # Null /\ t \notin executed /\ \A v \in Consumers : popped[v] # t
      /\ popped[w] = Null
  BY <1>1, <1>3, <1>4, Constant DEF TasksHold, WorkersHold
<1>7. /\ cpc'[w] = "returned" /\ popped'[w] = t
      /\ \A v \in Consumers \ {w} : cpc'[v] = cpc[v] /\ popped'[v] = popped[v]
  BY <1>1 DEF TypeOK, QueueTypeOK
<1>8. TypeOK'
  BY <1>1, <1>3, Constant DEF TypeOK, QueueTypeOK, QueuePC
<1>9. ConnectionsHold'
  BY <1>1 DEF ConnectionsHold
<1>10. WorkersHold'
  BY <1>1, <1>7 DEF WorkersHold
<1>11. TasksHold'
  <2>1. \A i, j \in 1..Len(queue') : queue'[i] = queue'[j] => i = j
    <3> SUFFICES ASSUME NEW i \in 1..Len(queue'), NEW j \in 1..Len(queue'), queue'[i] = queue'[j]
                 PROVE  i = j
      OBVIOUS
    <3>1. /\ i + 1 \in 1..Len(queue) /\ j + 1 \in 1..Len(queue)
          /\ queue[i + 1] = queue[j + 1]
      BY <1>3
    <3>2. i + 1 = j + 1
      BY <3>1 DEF TasksHold
    <3> QED BY <1>3, <3>2
  <2>2. \A u \in Tasks : InQueue(u)' => u \notin executed' /\ \A v \in Consumers : popped'[v] # u
    BY <1>1, <1>4, <1>5, <1>7 DEF TasksHold
  <2>3. \A v, u \in Consumers : popped'[u] # Null /\ popped'[v] = popped'[u] => v = u
    BY <1>6, <1>7 DEF TasksHold
  <2>4. ASSUME NEW u \in Tasks
        PROVE  (\E v \in Consumers : popped'[v] = u) <=> u = t \/ \E v \in Consumers : popped[v] = u
    BY <1>6, <1>7, Constant
  <2>5. \A u \in Tasks : sender'[u] # "before" <=>
              InQueue(u)' \/ u \in executed' \/ \E v \in Consumers : popped'[v] = u
    BY <1>1, <1>4, <2>4 DEF TasksHold
  <2>6. \A v \in Consumers : popped'[v] \notin executed'
    BY <1>1, <1>6, <1>7 DEF TasksHold
  <2> QED BY <1>1, <2>1, <2>2, <2>3, <2>5, <2>6 DEF TasksHold
<1>12. EndHolds'
  BY <1>1, <1>6, <1>7 DEF EndHolds
<1> QED BY <1>0, <1>1, <1>3, <1>6, <1>7, <1>8, <1>9, <1>10, <1>11, <1>12

LEMMA PoppedHolds ==
    ASSUME IInv, NEW w \in Consumers, WorkerPopped(w)
    PROVE  IInv'
<1> USE DEF IInv
<1>1. /\ wpc[w] = "pop" /\ cpc[w] = "returned" /\ cpc' = [cpc EXCEPT ![w] = "out"]
      /\ wpc' = [wpc EXCEPT ![w] = IF popped[w] = Null THEN "exited" ELSE "call"]
      /\ UNCHANGED <<queue, qlock, popped, cancel, shutdown, dpc, opens, conn, sender, executed>>
  BY DEF WorkerPopped, LeaveWaitAndPop
<1>2. /\ cpc'[w] = "out" /\ wpc'[w] = IF popped[w] = Null THEN "exited" ELSE "call"
      /\ \A v \in Consumers \ {w} : cpc'[v] = cpc[v] /\ wpc'[v] = wpc[v]
  BY <1>1 DEF TypeOK, QueueTypeOK
<1>3. TypeOK'
  BY <1>1 DEF TypeOK, QueueTypeOK, QueuePC
<1>4. ConnectionsHold' /\ TasksHold'
  BY <1>1 DEF ConnectionsHold, TasksHold, InQueue
<1>5. WorkersHold'
  BY <1>1, <1>2 DEF WorkersHold
<1>6. EndHolds'
  BY <1>1, <1>2 DEF EndHolds
<1> QED BY <1>3, <1>4, <1>5, <1>6

LEMMA ExecutedHolds ==
    ASSUME IInv, NEW w \in Consumers, WorkerExecuted(w)
    PROVE  /\ IInv'
           /\ popped[w] \in Tasks /\ executed' = executed \cup {popped[w]}
           /\ popped'[w] = Null
           /\ \A v \in Consumers \ {w} : popped'[v] = popped[v] /\ popped[v] # popped[w]
           /\ UNCHANGED <<queue, dpc>>
<1> USE DEF IInv
<1>0. PICK t : t = popped[w]
  OBVIOUS
<1>1. /\ wpc[w] = "call" /\ executed' = executed \cup {t} /\ cpc[w] = "out"
      /\ cpc' = [cpc EXCEPT ![w] = "lock"] /\ popped' = [popped EXCEPT ![w] = Null]
      /\ wpc' = [wpc EXCEPT ![w] = "pop"]
      /\ UNCHANGED <<queue, qlock, cancel, shutdown, dpc, opens, conn, sender>>
  BY <1>0 DEF WorkerExecuted, CallWaitAndPop
<1>2. t \in Tasks /\ t # Null
  BY <1>0, <1>1, Constant DEF WorkersHold, TypeOK, QueueTypeOK
<1>3. \A v \in Consumers \ {w} : popped[v] # t
  BY <1>0, <1>2 DEF TasksHold
<1>4. /\ cpc'[w] = "lock" /\ popped'[w] = Null /\ wpc'[w] = "pop"
      /\ \A v \in Consumers \ {w} : /\ cpc'[v] = cpc[v] /\ popped'[v] = popped[v]
                                    /\ wpc'[v] = wpc[v]
  BY <1>1 DEF TypeOK, QueueTypeOK
<1>5. TypeOK'
  BY <1>1, <1>2 DEF TypeOK, QueueTypeOK, QueuePC
<1>6. ConnectionsHold'
  BY <1>1 DEF ConnectionsHold
<1>7. WorkersHold'
  BY <1>1, <1>4 DEF WorkersHold
<1>8. TasksHold'
  <2>1. \A u \in Tasks : InQueue(u)' <=> InQueue(u)
    BY <1>1 DEF InQueue
  <2>2. \A i, j \in 1..Len(queue') : queue'[i] = queue'[j] => i = j
    BY <1>1 DEF TasksHold
  <2>3. \A u \in Tasks : InQueue(u) => u # t
    BY <1>0 DEF TasksHold
  <2>4. \A u \in Tasks : InQueue(u)' => u \notin executed' /\ \A v \in Consumers : popped'[v] # u
    BY <1>1, <1>4, <2>1, <2>3, Constant DEF TasksHold
  <2>5. \A v, u \in Consumers : popped'[u] # Null /\ popped'[v] = popped'[u] => v = u
    BY <1>4 DEF TasksHold
  <2>6. ASSUME NEW u \in Tasks
        PROVE  (\E v \in Consumers : popped[v] = u) <=> u = t \/ \E v \in Consumers : popped'[v] = u
    BY <1>0, <1>3, <1>4, Constant
  <2>7. \A u \in Tasks : sender'[u] # "before" <=>
              InQueue(u)' \/ u \in executed' \/ \E v \in Consumers : popped'[v] = u
    BY <1>1, <2>1, <2>6 DEF TasksHold
  <2>8. \A v \in Consumers : popped'[v] \notin executed'
    BY <1>1, <1>2, <1>3, <1>4, Constant DEF TasksHold, TypeOK
  <2> QED BY <1>1, <2>2, <2>4, <2>5, <2>7, <2>8 DEF TasksHold
<1>9. EndHolds'
  BY <1>1, <1>4 DEF EndHolds
<1> QED BY <1>0, <1>1, <1>2, <1>3, <1>4, <1>5, <1>6, <1>7, <1>8, <1>9

----------------------------------------------------------------------------
(* The theorems                                                               *)

LEMMA InitHolds == Init => IInv
<1> SUFFICES ASSUME Init PROVE IInv
  OBVIOUS
<1> USE DEF Init, QueueInit
<1>1. TypeOK
  <2>1. opens \in 1..MaxOpens
    BY Constant
  <2>2. QueueTypeOK
    <3>1. queue \in Seq(Values)
      OBVIOUS
    <3>2. cpc \in [Consumers -> QueuePC]
      BY DEF QueuePC
    <3>3. /\ popped \in [Consumers -> Values \cup {Null}] /\ qlock \in Consumers \cup {Null}
          /\ cancel \in BOOLEAN /\ shutdown \in BOOLEAN
      OBVIOUS
    <3> QED BY <3>1, <3>2, <3>3 DEF QueueTypeOK
  <2> QED BY <2>1, <2>2 DEF TypeOK, PoolPC
<1>2. ConnectionsHold /\ WorkersHold /\ EndHolds
  BY DEF ConnectionsHold, WorkersHold, EndHolds, Opened
<1>3. TasksHold
  BY Constant DEF TasksHold, InQueue
<1> QED BY <1>1, <1>2, <1>3 DEF IInv

LEMMA StutterHolds == IInv /\ UNCHANGED vars => IInv'
BY WakeHolds DEF vars, qvars, pvars

LEMMA StepHolds == IInv /\ [Next]_vars => IInv'
<1> SUFFICES ASSUME IInv, [Next]_vars PROVE IInv'
  OBVIOUS
<1>1. CASE Pool
  BY <1>1, PhaseHolds, CancelHolds, OpenAgainHolds, CloseFlagHolds, CloseNotifyHolds,
     CreateHolds, ConnectedHolds, DestroyHolds DEF Pool
<1>2. CASE CloseBegins
  BY <1>2, PhaseHolds
<1>3. ASSUME NEW t \in Tasks, Submit(t) \/ SubmitNotify(t) PROVE IInv'
  BY <1>3, SubmitHolds, SubmitNotifyHolds
<1>4. ASSUME NEW w \in Consumers, WorkerInQueue(w) PROVE IInv'
  BY <1>4, NothingPoppedHolds, ReturnFrontHolds DEF WorkerInQueue, WaitAndPop
<1>5. ASSUME NEW w \in Consumers, WorkerSpuriousWakeup(w) PROVE IInv'
  BY <1>5, WakeHolds DEF WorkerSpuriousWakeup, SpuriousWakeup
<1>6. ASSUME NEW w \in Consumers, WorkerPopped(w) \/ WorkerExecuted(w) PROVE IInv'
  BY <1>6, PoppedHolds, ExecutedHolds
<1>7. CASE UNCHANGED vars
  BY <1>7, StutterHolds
<1> QED BY <1>1, <1>2, <1>3, <1>4, <1>5, <1>6, <1>7 DEF Next, Worker, Terminated

(* What every interleaving of the pool's owner, the submitters and the        *)
(* workers keeps true, through any number of calls of Open that fail.         *)
THEOREM Invariant == Spec => []IInv
BY InitHolds, StepHolds, PTL DEF Spec

(* A worker that exists before its connection is open, and one that drains    *)
(* the queue while other connections are destroyed, has its own open whenever *)
(* it has a task.                                                             *)
THEOREM OpenWhileExecuting == Spec => []ExecutesOnOpenConnection
<1>1. IInv => ExecutesOnOpenConnection
  <2> SUFFICES ASSUME IInv, NEW w \in Consumers,
                      wpc[w] = "call" \/ (cpc[w] = "returned" /\ popped[w] # Null)
               PROVE  conn[w] = "open"
    BY DEF ExecutesOnOpenConnection
  <2>1. popped[w] # Null /\ popped[w] \in Tasks
    BY DEF IInv, WorkersHold, TypeOK, QueueTypeOK, Tasks
  <2>2. sender[popped[w]] # "before"
    BY <2>1 DEF IInv, TasksHold
  <2>3. dpc \in Opened
    BY <2>1, <2>2 DEF IInv, TasksHold
  <2>4. wpc[w] # "exited"
    BY DEF IInv, WorkersHold
  <2> QED BY <2>3, <2>4 DEF IInv, ConnectionsHold, WorkersHold
<1> QED BY <1>1, Invariant, PTL

(* When the connections have been destroyed by Close, and no Open has failed  *)
(* before, nobody left work behind.                                           *)
LEMMA NothingLeft ==
    ASSUME IInv, opens = 1, dpc \in {"joining", "closed"},
           \A w \in Consumers : conn[w] \in {"none", "destroyed"}
    PROVE  queue = << >> /\ \A w \in Consumers : popped[w] = Null
<1> USE DEF IInv
<1>1. \A w \in Consumers : wpc[w] = "exited" /\ popped[w] = Null
  BY DEF ConnectionsHold, WorkersHold, Opened
<1>2. Consumers # {} /\ ~cancel
  BY DEF ConnectionsHold, EndHolds
<1> QED BY <1>1, <1>2 DEF EndHolds

(* Close after the first Open is graceful: what was handed over has been      *)
(* executed.  After an Open that failed it is not, as the run                 *)
(* DatabaseWorkerPool_reopen shows, since the queue stays cancelled.          *)
THEOREM Graceful == Spec => []FirstCloseIsGraceful
<1>1. IInv => FirstCloseIsGraceful
  <2> SUFFICES ASSUME IInv, opens = 1, dpc = "closed", NEW t \in Tasks, sender[t] # "before"
               PROVE  t \in executed
    BY DEF FirstCloseIsGraceful, ClosedMeansExecuted
  <2>1. queue = << >> /\ \A w \in Consumers : popped[w] = Null
    BY NothingLeft DEF IInv, ConnectionsHold
  <2>2. InQueue(t) \/ t \in executed \/ \E w \in Consumers : popped[w] = t
    BY DEF IInv, TasksHold
  <2> QED BY <2>1, <2>2, Constant DEF InQueue
<1> QED BY <1>1, Invariant, PTL

----------------------------------------------------------------------------
(* The refinement                                                             *)

Running == {popped[w] : w \in {v \in Consumers : popped[v] # Null}}

(* Close has been called, and no Open had failed before.                      *)
Closed == dpc = "closed" /\ opens = 1

(* A step after which the same tasks wait, are executed and have been, and    *)
(* the pool is no more closed than before, is none of the task queue's.       *)
LEMMA TaskQueueStutters ==
    ASSUME UNCHANGED <<queue, popped, executed>>, Closed <=> Closed'
    PROVE  UNCHANGED TQ!tqvars
BY DEF TQ!tqvars, Closed

LEMMA TaskQueueSubmit ==
    ASSUME IInv, NEW t \in Tasks, Submit(t)
    PROVE  TQ!Submit(t)
<1>1. /\ dpc = "open" /\ sender[t] = "before" /\ queue' = Append(queue, t)
      /\ UNCHANGED <<popped, dpc, opens, executed>>
  BY DEF Submit, PushLocked
<1>2. t \notin executed /\ \A w \in Consumers : popped[w] # t
  BY <1>1 DEF IInv, TasksHold
<1> QED BY <1>1, <1>2 DEF TQ!Submit

LEMMA TaskQueueBegin ==
    ASSUME IInv, NEW w \in Consumers, wpc[w] = "pop", ReturnFront(w), UNCHANGED pvars
    PROVE  TQ!Begin
<1>0. PICK t : t = Head(queue)
  OBVIOUS
<1>1. /\ queue # << >> /\ popped[w] = Null /\ queue' = Tail(queue) /\ popped'[w] = t
      /\ t # Null /\ \A v \in Consumers \ {w} : popped'[v] = popped[v]
  BY <1>0, ReturnFrontHolds, Constant
<1>2. Running' = Running \cup {t}
  BY <1>1 DEF Running
<1>3. UNCHANGED <<executed, dpc, opens>>
  BY DEF pvars
<1> QED BY <1>0, <1>1, <1>2, <1>3 DEF TQ!Begin, Running

LEMMA TaskQueueFinish ==
    ASSUME IInv, NEW w \in Consumers, WorkerExecuted(w)
    PROVE  \E t \in Tasks : TQ!Finish(t)
<1>0. PICK t : t = popped[w]
  OBVIOUS
<1>1. /\ t \in Tasks /\ executed' = executed \cup {t} /\ popped'[w] = Null
      /\ \A v \in Consumers \ {w} : popped'[v] = popped[v] /\ popped[v] # t
      /\ UNCHANGED <<queue, dpc, opens>> /\ t # Null
  BY <1>0, ExecutedHolds, Constant DEF WorkerExecuted
<1>2. t \in Running /\ Running' = Running \ {t}
  BY <1>0, <1>1 DEF Running
<1>3. TQ!Finish(t)
  BY <1>1, <1>2 DEF TQ!Finish, Running
<1> QED BY <1>1, <1>3

LEMMA TaskQueueClose ==
    ASSUME IInv, PoolDown
    PROVE  [TQ!Next]_(TQ!tqvars)
<1>1. UNCHANGED <<queue, popped, executed, opens>>
  BY DEF PoolDown, qvars
<1>2. CASE dpc = "joining" /\ opens = 1
  <2>1. dpc' = "closed" /\ \A w \in Consumers : conn[w] \in {"none", "destroyed"}
    BY <1>2 DEF PoolDown
  <2>2. queue = << >> /\ \A w \in Consumers : popped[w] = Null
    BY <1>2, <2>1, NothingLeft
  <2>3. TQ!Close
    BY <1>1, <1>2, <2>1, <2>2 DEF TQ!Close
  <2> QED BY <2>3 DEF TQ!Next
<1>3. CASE dpc # "joining" \/ opens # 1
  <2>1. ~Closed /\ ~Closed'
    BY <1>1, <1>3 DEF PoolDown, Closed
  <2> QED BY <1>1, <2>1, TaskQueueStutters
<1> QED BY <1>2, <1>3

LEMMA TaskQueueStep ==
    ASSUME IInv, [Next]_vars
    PROVE  [TQ!Next]_(TQ!tqvars)
<1>1. CASE Pool
  <2>1. CASE PoolDown
    BY <2>1, TaskQueueClose
  <2>2. CASE CancelPool
    <3>1. queue' = queue
      BY <2>2, CancelHolds DEF CancelPool, CancelQueue
    <3>2. UNCHANGED <<popped, executed>> /\ ~Closed /\ ~Closed'
      BY <2>2 DEF CancelPool, CancelQueue, Closed
    <3> QED BY <3>1, <3>2, TaskQueueStutters
  <2>3. ASSUME NEW w \in Consumers, CreateConnection(w) PROVE UNCHANGED TQ!tqvars
    <3>1. /\ popped' = [popped EXCEPT ![w] = Null] /\ UNCHANGED <<queue, executed>>
          /\ ~Closed /\ ~Closed'
      BY <2>3 DEF CreateConnection, CallWaitAndPop, Closed
    <3>2. popped' = popped
      BY <2>3, <3>1, CreateHolds DEF IInv, TypeOK, QueueTypeOK
    <3> QED BY <3>1, <3>2, TaskQueueStutters
  <2>4. CASE \/ SynchConnected \/ ConnectError \/ Incompatible \/ OpenAgain
             \/ CloseFlag \/ CloseNotify
             \/ \E w \in Consumers : Connected(w) \/ DestroyConnection(w)
    <3>1. UNCHANGED <<queue, popped, executed>> /\ (Closed <=> Closed')
      BY <2>4 DEF Closed, SynchConnected, ConnectError, Incompatible, OpenAgain, CloseFlag, CloseNotify,
                  ShutdownFlag, ShutdownNotify, Connected, DestroyConnection, qvars
    <3> QED BY <3>1, TaskQueueStutters
  <2> QED BY <1>1, <2>1, <2>2, <2>3, <2>4 DEF Pool
<1>2. CASE CloseBegins
  BY <1>2, TaskQueueStutters DEF Closed, CloseBegins, qvars
<1>3. ASSUME NEW t \in Tasks, Submit(t) PROVE TQ!Next
  BY <1>3, TaskQueueSubmit DEF TQ!Next
<1>4. ASSUME NEW t \in Tasks, SubmitNotify(t) PROVE UNCHANGED TQ!tqvars
  BY <1>4, TaskQueueStutters DEF Closed, SubmitNotify, NotifyOne
<1>5. ASSUME NEW w \in Consumers, WorkerInQueue(w) PROVE [TQ!Next]_(TQ!tqvars)
  <2>1. CASE ReturnFront(w)
    BY <1>5, <2>1, TaskQueueBegin DEF WorkerInQueue, TQ!Next
  <2>2. CASE TestFalse(w) \/ Block(w) \/ ReturnEmpty(w)
    BY <1>5, <2>2, TaskQueueStutters DEF Closed, WorkerInQueue, TestFalse, Block, ReturnEmpty, pvars
  <2> QED BY <1>5, <2>1, <2>2 DEF WorkerInQueue, WaitAndPop
<1>6. ASSUME NEW w \in Consumers, WorkerSpuriousWakeup(w) PROVE UNCHANGED TQ!tqvars
  BY <1>6, TaskQueueStutters DEF Closed, WorkerSpuriousWakeup, SpuriousWakeup, pvars
<1>7. ASSUME NEW w \in Consumers, WorkerPopped(w) PROVE UNCHANGED TQ!tqvars
  BY <1>7, TaskQueueStutters DEF Closed, WorkerPopped, LeaveWaitAndPop
<1>8. ASSUME NEW w \in Consumers, WorkerExecuted(w) PROVE TQ!Next
  BY <1>8, TaskQueueFinish DEF TQ!Next
<1>9. CASE UNCHANGED vars
  BY <1>9, TaskQueueStutters DEF Closed, vars, qvars, pvars
<1> QED BY <1>1, <1>2, <1>3, <1>4, <1>5, <1>6, <1>7, <1>8, <1>9 DEF Next, Worker, Terminated

(* The pool implements the task queue: tasks are begun in order, once, and a  *)
(* Close with no failed Open before it comes when everything handed over is   *)
(* executed.                                                                  *)
THEOREM Refinement == Spec => ImplementsTaskQueue
<1>1. Init => TQ!Init
  BY DEF Init, QueueInit, TQ!Init
<1>2. IInv /\ [Next]_vars => [TQ!Next]_(TQ!tqvars)
  BY TaskQueueStep
<1> QED BY <1>1, <1>2, Invariant, PTL DEF Spec, ImplementsTaskQueue, TQ!Spec
=============================================================================
