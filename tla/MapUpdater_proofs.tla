------------------------- MODULE MapUpdater_proofs -------------------------
(***************************************************************************)
(* The safety properties of MapUpdater, proved for any number of workers,  *)
(* maps, instances and ticks.  The inductive invariant ties each job's     *)
(* history, status, to the place where its request is: in the hands of the *)
(* thread that counted it, in the queue, with the worker that popped it or *)
(* under update.                                                           *)
(***************************************************************************)
EXTENDS MapUpdater, FiniteSetTheorems, TLAPS

Busy == {"call", "visit", "push", "notify", "finish"}
Visiting == {"visit", "push", "notify"}
HasPopped(w) == cpc[w] = "returned" /\ popped[w] # Null

(* What is queued has the status "queued", and is queued once.             *)
QueueHolds ==
    /\ \A i \in 1..Len(queue) : status[queue[i]] = "queued"
    /\ \A i, k \in 1..Len(queue) : queue[i] = queue[k] => i = k

(* What WaitAndPop has handed out has the status "taken", and one taker.   *)
PoppedHolds ==
    /\ \A w \in Consumers : wpc[w] = "pop" <=> cpc[w] # "out"
    /\ \A w \in Consumers :
          cpc[w] \in {"lock", "blocking", "asleep"} => popped[w] = Null
    /\ \A w \in Consumers : HasPopped(w) => status[popped[w]] = "taken"
    /\ \A v, w \in Consumers :
          HasPopped(v) /\ HasPopped(w) /\ popped[v] = popped[w] => v = w

(* What a worker updates has the status "running", and no other worker.    *)
WorkHolds ==
    /\ \A w \in Consumers : wjob[w] # Null <=> wpc[w] \in Busy
    /\ \A w \in Consumers : wjob[w] # Null => status[wjob[w]] = "running"
    /\ OneWorkerPerJob

(* A worker visits instances of the map it updates that exist and were not *)
(* scheduled yet; one that it is about to queue is counted.                *)
ChildHolds ==
    /\ \A w \in Consumers : wtodo[w] # {} => wpc[w] \in Visiting
    /\ \A w \in Consumers : \A i \in wtodo[w] :
          ParentOf[i] = wjob[w] /\ status[i] = "none" /\ i \in live
    /\ \A w \in Consumers : wpc[w] = "push" =>
          /\ wchild[w] \in Instances /\ ParentOf[wchild[w]] = wjob[w]
          /\ status[wchild[w]] = "counted"

(* An instance is scheduled only after the update of its map has begun.    *)
ParentHolds ==
    \A i \in Instances : status[i] # "none" =>
        /\ status[ParentOf[i]] \in {"running", "done"}
        /\ \A w \in Consumers : wjob[w] = ParentOf[i] => wpc[w] # "call"

MainHolds ==
    /\ \A j \in mtodo : status[j] = "none"
    /\ mpc = "push" => mjob \in BaseMaps \cup {Lfg} /\ status[mjob] = "counted"

CountHolds ==
    /\ PendingIsExact
    /\ Exclusive => pending = 0

Unloaded == mpc \in {"unload", "waitLast", "blockingLast", "blockedLast",
                     "cancel", "join", "stopped"}

LiveHolds ==
    /\ NoDanglingMap
    /\ ~Unloaded => BaseMaps \subseteq live

Scheduling == {"schedule", "push", "notify"}
Waiting == {"wait", "blocking", "blocked", "delayed"}

(* Within a tick, whatever exists and has not been scheduled is still to be *)
(* met by the thread that will schedule it.                                *)
DoneHolds ==
    /\ mpc \in Waiting => mtodo = {}
    /\ mpc \in Scheduling \cup Waiting =>
          /\ \A j \in BaseMaps \cup {Lfg} : status[j] = "none" => j \in mtodo
          /\ \A i \in live \cap Instances : status[i] = "none" /\ i \notin skipped =>
                /\ status[ParentOf[i]] # "done"
                /\ \A w \in Consumers : wjob[w] = ParentOf[i] =>
                      wpc[w] = "call" \/ i \in wtodo[w]

IInv ==
    /\ TypeOK
    /\ QueueHolds
    /\ PoppedHolds
    /\ WorkHolds
    /\ ChildHolds
    /\ ParentHolds
    /\ MainHolds
    /\ CountHolds
    /\ LiveHolds
    /\ DoneHolds

----------------------------------------------------------------------------
(* Counting.                                                               *)

(* There are finitely many requests under way.                             *)
LEMMA JobsFinite == IsFiniteSet(Outstanding)
  BY UpdaterAssumption, FS_Subset DEF Outstanding

(* The counter is zero exactly if no request is under way.                 *)
LEMMA ZeroIsNone ==
    ASSUME IInv
    PROVE  pending = 0 <=> Outstanding = {}
  BY JobsFinite, FS_EmptySet DEF IInv, CountHolds, PendingIsExact

(* A worker inside an update is counted.                                   *)
LEMMA BusyIsCounted ==
    ASSUME IInv, NEW w \in Consumers, wpc[w] \in Busy
    PROVE  pending > 0 /\ wjob[w] \in Outstanding
<1>1. wjob[w] \in Jobs /\ status[wjob[w]] = "running" /\ pending \in Nat
  BY DEF IInv, WorkHolds, TypeOK
<1> QED BY <1>1, ZeroIsNone DEF Outstanding

----------------------------------------------------------------------------
(* Typing.                                                                 *)

(* No step takes a variable out of its type: what is pushed is a job, and  *)
(* the counter is positive when it is decremented.                         *)
LEMMA TypeStep ==
    ASSUME IInv, [Next]_vars
    PROVE  TypeOK'
<1> USE QueueAssumption, UpdaterAssumption
<1> USE DEF TypeOK, QueueTypeOK, qvars, counterVars, mainVars, workerVars,
            tickVars
<1>0. TypeOK /\ Null \notin Jobs
  BY DEF IInv
<1>1. CASE UNCHANGED vars
  BY <1>0, <1>1 DEF vars, uvars
<1>2. CASE \E i \in Instances : CreateInstance(i)
  BY <1>0, <1>2 DEF CreateInstance, Maps
<1>3. CASE BeginTick
  BY <1>0, <1>3 DEF BeginTick, MainPC, JobStatus
<1>4. CASE \E j \in Jobs : MainSchedule(j)
  BY <1>0, <1>4 DEF MainSchedule, CountUp, MainPC, JobStatus
<1>5. CASE MainPush
  <2>1. mjob \in Jobs
    BY <1>5 DEF IInv, MainHolds, MainPush, Jobs, Maps
  <2> QED BY <1>0, <1>5, <2>1 DEF MainPush, Enqueue, PushLocked, MainPC, JobStatus
<1>6. CASE MainNotify
  BY <1>0, <1>6 DEF MainNotify, NotifyOne, Asleep, QueuePC, MainPC
<1>7. CASE MainAllScheduled
  BY <1>0, <1>7 DEF MainAllScheduled, MainPC
<1>8. CASE MainWaitOver
  BY <1>0, <1>8 DEF MainWaitOver, MainPC, WaitPC, AfterWait
<1>9. CASE MainWaitTest
  BY <1>0, <1>9 DEF MainWaitTest, MainPC, WaitPC, BlockingPC
<1>10. CASE MainWaitBlock
  <2>1. mpc' \in {"blocked", "blockedLast"}
    BY <1>10 DEF MainWaitBlock, BlockedPC
  <2> QED BY <1>0, <1>10, <2>1 DEF MainWaitBlock, MainPC
<1>11. CASE MainSpuriousWakeup
  BY <1>0, <1>11 DEF MainSpuriousWakeup, MainPC, AwakePC
<1>12. CASE MainDelayedUpdate
  BY <1>0, <1>12 DEF MainDelayedUpdate, MainPC
<1>13. CASE UnloadMaps
  BY <1>0, <1>13 DEF UnloadMaps, MainPC
<1>14. CASE SetToken
  BY <1>0, <1>14 DEF SetToken, MainPC
<1>15. CASE MainCancel
  BY <1>0, <1>15 DEF MainCancel, CancelQueue, WakeAll, QueuePC, MainPC
<1>16. CASE MainJoin
  BY <1>0, <1>16 DEF MainJoin, MainPC
<1>17. ASSUME NEW w \in Consumers, WorkerTop(w) PROVE TypeOK'
  BY <1>0, <1>17 DEF WorkerTop, CallWaitAndPop, QueuePC, WorkerPC
<1>18. ASSUME NEW w \in Consumers, WorkerInQueue(w) PROVE TypeOK'
  <2>1. QueueTypeOK'
    <3>1. CASE TestFalse(w)
      BY <1>0, <3>1 DEF TestFalse, QueuePC
    <3>2. CASE Block(w)
      BY <1>0, <3>2 DEF Block, QueuePC
    <3>3. CASE ReturnEmpty(w)
      BY <1>0, <3>3 DEF ReturnEmpty, QueuePC
    <3>4. CASE ReturnFront(w)
      <4>1. Head(queue) \in Values /\ Tail(queue) \in Seq(Values)
        BY <1>0, <3>4 DEF ReturnFront
      <4> QED BY <1>0, <3>4, <4>1 DEF ReturnFront, QueuePC
    <3> QED BY <1>18, <3>1, <3>2, <3>3, <3>4 DEF WorkerInQueue, WaitAndPop
  <2>2. status' \in [Jobs -> JobStatus]
    BY <1>0, <1>18 DEF WorkerInQueue, JobStatus
  <2> QED BY <1>0, <1>18, <2>1, <2>2 DEF WorkerInQueue
<1>19. ASSUME NEW w \in Consumers, WorkerSpuriousWakeup(w) PROVE TypeOK'
  BY <1>0, <1>19 DEF WorkerSpuriousWakeup, SpuriousWakeup, uvars, QueuePC
<1>20. ASSUME NEW w \in Consumers, WorkerPopped(w) PROVE TypeOK'
  BY <1>0, <1>20 DEF WorkerPopped, LeaveWaitAndPop, QueuePC, WorkerPC, JobStatus
<1>21. ASSUME NEW w \in Consumers, WorkerUpdate(w) PROVE TypeOK'
  BY <1>0, <1>21 DEF WorkerUpdate, Children, WorkerPC
<1>22. ASSUME NEW w \in Consumers, NEW i \in Instances, WorkerDestroyInstance(w, i)
       PROVE  TypeOK'
  BY <1>0, <1>22 DEF WorkerDestroyInstance
<1>23. ASSUME NEW w \in Consumers, NEW i \in Instances, WorkerSkipInstance(w, i)
       PROVE  TypeOK'
  BY <1>0, <1>23 DEF WorkerSkipInstance
<1>24. ASSUME NEW w \in Consumers, NEW i \in Instances, WorkerSchedule(w, i)
       PROVE  TypeOK'
  <2>1. pending' \in Nat /\ status' \in [Jobs -> JobStatus]
    <3>1. pending' = pending + 1 /\ status' = [status EXCEPT ![i] = "counted"]
      BY <1>24 DEF WorkerSchedule, CountUp
    <3> QED BY <1>0, <3>1 DEF JobStatus, Jobs, Maps
  <2>2. wpc' \in [Consumers -> WorkerPC] /\ wtodo' \in [Consumers -> SUBSET Instances]
    BY <1>0, <1>24 DEF WorkerSchedule, WorkerPC
  <2> QED BY <1>0, <1>24, <2>1, <2>2 DEF WorkerSchedule
<1>25. ASSUME NEW w \in Consumers, WorkerPush(w) PROVE TypeOK'
  <2>1. wchild[w] \in Jobs
    BY <1>25 DEF IInv, ChildHolds, WorkerPush, Jobs, Maps
  <2> QED BY <1>0, <1>25, <2>1 DEF WorkerPush, Enqueue, PushLocked, WorkerPC, JobStatus
<1>26. ASSUME NEW w \in Consumers, WorkerNotify(w) PROVE TypeOK'
  BY <1>0, <1>26 DEF WorkerNotify, NotifyOne, Asleep, QueuePC, WorkerPC
<1>27. ASSUME NEW w \in Consumers, WorkerAllVisited(w) PROVE TypeOK'
  BY <1>0, <1>27 DEF WorkerAllVisited, WorkerPC
<1>28. ASSUME NEW w \in Consumers, WorkerFinish(w) PROVE TypeOK'
  <2>1. pending > 0
    BY <1>28, BusyIsCounted DEF WorkerFinish, Busy
  <2>2. pending' \in Nat
    BY <1>0, <1>28, <2>1 DEF WorkerFinish, CountDown
  <2>3. wpc' \in [Consumers -> WorkerPC]
    BY <1>0, <1>28 DEF WorkerFinish, CountDown, WorkerPC
  <2>4. status' \in [Jobs -> JobStatus] /\ wjob' \in [Consumers -> Jobs \cup {Null}]
    BY <1>0, <1>28 DEF WorkerFinish, CountDown, JobStatus
  <2> QED BY <1>0, <1>28, <2>2, <2>3, <2>4 DEF WorkerFinish
<1>29. ASSUME NEW w \in Consumers, WorkerSignal(w) PROVE TypeOK'
  BY <1>0, <1>29 DEF WorkerSignal, WorkerPC, MainPC, AwakePC
<1> QED
  BY <1>1, <1>2, <1>3, <1>4, <1>5, <1>6, <1>7, <1>8, <1>9, <1>10, <1>11,
     <1>12, <1>13, <1>14, <1>15, <1>16, <1>17, <1>18, <1>19, <1>20, <1>21,
     <1>22, <1>23, <1>24, <1>25, <1>26, <1>27, <1>28, <1>29
  DEF Next, MainTick, MainShutdown, Worker, Visit, Terminated
----------------------------------------------------------------------------
(* Steps that move no request.                                             *)

(* The sorts of jobs are disjoint, and none of them is the null pointer.   *)
LEMMA Sorts ==
    /\ Values = Jobs /\ Null \notin Jobs
    /\ BaseMaps \subseteq Jobs /\ Instances \subseteq Jobs /\ Lfg \in Jobs
    /\ BaseMaps \cap Instances = {} /\ Lfg \notin Maps
    /\ ParentOf \in [Instances -> BaseMaps]
  BY QueueAssumption, UpdaterAssumption DEF Jobs, Maps

(* Outside the updating part of a tick all the workers are idle.           *)
LEMMA ExclusiveIsIdle ==
    ASSUME IInv, Exclusive
    PROVE  /\ Outstanding = {} /\ pending = 0
           /\ queue = << >>
           /\ \A w \in Consumers :
                 /\ wjob[w] = Null /\ wpc[w] \notin Busy /\ wtodo[w] = {}
                 /\ ~HasPopped(w)
<1> USE Sorts
<1>1. pending = 0 /\ Outstanding = {}
  BY ZeroIsNone DEF IInv, CountHolds
<1>2. \A j \in Jobs : status[j] \notin {"counted", "queued", "taken", "running"}
  BY <1>1 DEF Outstanding
<1>3. queue = << >>
  <2>1. queue \in Seq(Jobs)
    BY DEF IInv, TypeOK, QueueTypeOK
  <2>2. ASSUME queue # << >> PROVE FALSE
    <3>1. 1 \in 1..Len(queue) /\ queue[1] \in Jobs
      BY <2>1, <2>2
    <3> QED BY <1>2, <3>1 DEF IInv, QueueHolds
  <2> QED BY <2>2
<1>4. ASSUME NEW w \in Consumers
      PROVE  /\ wjob[w] = Null /\ wpc[w] \notin Busy /\ wtodo[w] = {}
             /\ ~HasPopped(w)
  <2>1. wjob[w] \in Jobs \cup {Null} /\ popped[w] \in Jobs \cup {Null}
    BY DEF IInv, TypeOK, QueueTypeOK
  <2>2. wjob[w] = Null
    BY <1>2, <2>1 DEF IInv, WorkHolds
  <2>3. wpc[w] \notin Busy
    BY <2>2 DEF IInv, WorkHolds
  <2>4. wtodo[w] = {}
    BY <2>3 DEF IInv, ChildHolds, Visiting, Busy
  <2>5. ~HasPopped(w)
    BY <1>2, <2>1 DEF IInv, PoppedHolds, HasPopped
  <2> QED BY <2>2, <2>3, <2>4, <2>5
<1> QED BY <1>1, <1>3, <1>4

(* A step of the main thread that only moves it on, to a place that allows *)
(* for it.                                                                 *)
LEMMA QuietStep ==
    ASSUME IInv, TypeOK',
           UNCHANGED <<queue, popped, cpc, workerVars, tickVars, pending, mtodo,
                       mjob>>,
           mpc' = "push" => mpc = "push",
           Exclusive' => pending = 0,
           Unloaded => Unloaded',
           mpc' \in Waiting => mtodo = {},
           mpc' \in Scheduling \cup Waiting => mpc \in Scheduling \cup Waiting
    PROVE  IInv'
<1> USE DEF workerVars, tickVars
<1>1. QueueHolds' /\ PoppedHolds' /\ WorkHolds'
  BY DEF IInv, QueueHolds, PoppedHolds, HasPopped, WorkHolds, OneWorkerPerJob
<1>2. ChildHolds' /\ ParentHolds' /\ MainHolds'
  BY DEF IInv, ChildHolds, ParentHolds, MainHolds
<1>3. CountHolds'
  BY DEF IInv, CountHolds, PendingIsExact, Outstanding
<1>4. LiveHolds'
  BY DEF IInv, LiveHolds, NoDanglingMap
<1>5. DoneHolds'
  BY DEF IInv, DoneHolds
<1> QED BY <1>1, <1>2, <1>3, <1>4, <1>5 DEF IInv

(* The main thread moves on without touching a request.                    *)
LEMMA MainMoves ==
    ASSUME IInv, TypeOK',
           \/ MainAllScheduled \/ MainWaitOver \/ MainWaitTest \/ MainWaitBlock
           \/ MainSpuriousWakeup \/ MainDelayedUpdate \/ SetToken \/ MainJoin
    PROVE  IInv'
<1> USE DEF qvars, counterVars, workerVars, tickVars, Exclusive, Unloaded,
            Scheduling, Waiting
<1>1. mpc \in Waiting => mtodo = {}
  BY DEF IInv, DoneHolds
<1>2. Exclusive => pending = 0
  BY DEF IInv, CountHolds
<1>3. CASE MainAllScheduled
  BY <1>1, <1>3, QuietStep DEF MainAllScheduled
<1>4. CASE MainWaitOver
  BY <1>1, <1>4, QuietStep DEF MainWaitOver, WaitPC, AfterWait
<1>5. CASE MainWaitTest
  <2>1. mpc' = IF mpc = "wait" THEN "blocking" ELSE "blockingLast"
    BY <1>5 DEF MainWaitTest, WaitPC, BlockingPC
  <2>2. mpc \in {"wait", "waitLast"}
    BY <1>5 DEF MainWaitTest, WaitPC
  <2> QED BY <1>1, <1>2, <1>5, <2>1, <2>2, QuietStep DEF MainWaitTest
<1>6. CASE MainWaitBlock
  <2>1. mpc' = IF mpc = "blocking" THEN "blocked" ELSE "blockedLast"
    BY <1>6 DEF MainWaitBlock, BlockedPC
  <2>2. mpc \in {"blocking", "blockingLast"}
    BY <1>6 DEF MainWaitBlock, BlockedPC
  <2> QED BY <1>1, <1>2, <1>6, <2>1, <2>2, QuietStep DEF MainWaitBlock
<1>7. CASE MainSpuriousWakeup
  <2>1. mpc' = IF mpc = "blocked" THEN "wait" ELSE "waitLast"
    BY <1>7 DEF MainSpuriousWakeup, AwakePC
  <2>2. mpc \in {"blocked", "blockedLast"}
    BY <1>7 DEF MainSpuriousWakeup, AwakePC
  <2> QED BY <1>1, <1>2, <1>7, <2>1, <2>2, QuietStep DEF MainSpuriousWakeup
<1>8. CASE MainDelayedUpdate
  BY <1>2, <1>8, QuietStep DEF MainDelayedUpdate
<1>9. CASE SetToken
  BY <1>2, <1>9, QuietStep DEF SetToken
<1>10. CASE MainJoin
  BY <1>2, <1>10, QuietStep DEF MainJoin
<1> QED BY <1>3, <1>4, <1>5, <1>6, <1>7, <1>8, <1>9, <1>10

(* Waking consumers moves them from "asleep" to "lock", where they still   *)
(* have nothing in their hands.                                            *)
Woken == \A w \in Consumers :
            cpc'[w] = cpc[w] \/ (cpc[w] = "asleep" /\ cpc'[w] = "lock")

(* notify_one only turns a blocked consumer into a runnable one.           *)
LEMMA NotifyWakes ==
    ASSUME TypeOK, NotifyOne
    PROVE  Woken /\ UNCHANGED <<queue, popped>>
  BY DEF TypeOK, QueueTypeOK, NotifyOne, Asleep, Woken

(* A woken consumer still has nothing in hand.                             *)
LEMMA WokenPopped ==
    ASSUME PoppedHolds, Woken, UNCHANGED <<popped, wpc, status>>
    PROVE  PoppedHolds'
<1>1. \A w \in Consumers :
        /\ cpc'[w] # "out" <=> cpc[w] # "out"
        /\ cpc'[w] = "returned" <=> cpc[w] = "returned"
        /\ cpc'[w] \in {"lock", "blocking", "asleep"}
              => cpc[w] \in {"lock", "blocking", "asleep"}
  BY DEF Woken
<1> QED BY <1>1 DEF PoppedHolds, HasPopped

(* Spurious wake-ups, of the main thread and of the workers.               *)
LEMMA SpuriousWakeups ==
    ASSUME IInv, TypeOK', NEW w \in Consumers, WorkerSpuriousWakeup(w)
    PROVE  IInv'
<1> USE DEF uvars, counterVars, mainVars, workerVars, tickVars
<1>1. UNCHANGED <<queue, popped, uvars>>
  BY DEF WorkerSpuriousWakeup, SpuriousWakeup
<1>2. Woken
  BY DEF WorkerSpuriousWakeup, SpuriousWakeup, Woken, IInv, TypeOK, QueueTypeOK
<1>3. PoppedHolds'
  BY <1>1, <1>2, WokenPopped DEF IInv
<1>4. QueueHolds' /\ WorkHolds' /\ ChildHolds' /\ ParentHolds' /\ MainHolds'
  BY <1>1 DEF IInv, QueueHolds, WorkHolds, OneWorkerPerJob, ChildHolds,
              ParentHolds, MainHolds
<1>5. CountHolds' /\ LiveHolds' /\ DoneHolds'
  BY <1>1 DEF IInv, CountHolds, PendingIsExact, Outstanding, Exclusive,
              LiveHolds, NoDanglingMap, Unloaded, DoneHolds
<1> QED BY <1>3, <1>4, <1>5 DEF IInv

(* The main thread is past the notify_one of its Push.                     *)
LEMMA MainNotifies ==
    ASSUME IInv, TypeOK', MainNotify
    PROVE  IInv'
<1> USE DEF counterVars, workerVars, tickVars
<1>1. /\ UNCHANGED <<queue, popped, counterVars, mtodo, workerVars, tickVars>>
      /\ mpc = "notify" /\ mpc' = "schedule" /\ Woken
  BY NotifyWakes DEF MainNotify, IInv
<1>2. PoppedHolds'
  BY <1>1, WokenPopped DEF IInv
<1>3. QueueHolds' /\ WorkHolds' /\ ChildHolds' /\ ParentHolds' /\ MainHolds'
  BY <1>1 DEF IInv, QueueHolds, WorkHolds, OneWorkerPerJob, ChildHolds,
              ParentHolds, MainHolds
<1>4. CountHolds' /\ LiveHolds' /\ DoneHolds'
  BY <1>1 DEF IInv, CountHolds, PendingIsExact, Outstanding, Exclusive,
              LiveHolds, NoDanglingMap, Unloaded, DoneHolds, Scheduling, Waiting
<1> QED BY <1>2, <1>3, <1>4 DEF IInv

(* The worker was and stays in the loop over the instances.                *)
LEMMA WorkerNotifies ==
    ASSUME IInv, TypeOK', NEW w \in Consumers, WorkerNotify(w)
    PROVE  IInv'
<1> USE DEF counterVars, mainVars, tickVars
<1>1. /\ UNCHANGED <<queue, popped, counterVars, mainVars, wjob, wtodo, tickVars>>
      /\ wpc[w] = "notify" /\ wpc' = [wpc EXCEPT ![w] = "visit"]
      /\ wchild' = [wchild EXCEPT ![w] = Null]
      /\ Woken
  BY NotifyWakes DEF WorkerNotify, IInv
<1>2. \A v \in Consumers :
        /\ wpc'[v] = IF v = w THEN "visit" ELSE wpc[v]
        /\ v # w => wchild'[v] = wchild[v]
  BY <1>1 DEF IInv, TypeOK
<1>3. PoppedHolds'
  <2>1. \A v \in Consumers :
          /\ cpc'[v] # "out" <=> cpc[v] # "out"
          /\ cpc'[v] = "returned" <=> cpc[v] = "returned"
          /\ cpc'[v] \in {"lock", "blocking", "asleep"}
                => cpc[v] \in {"lock", "blocking", "asleep"}
    BY <1>1 DEF Woken
  <2> QED BY <1>1, <1>2, <2>1 DEF IInv, PoppedHolds, HasPopped
<1>4. QueueHolds' /\ MainHolds' /\ WorkHolds'
  BY <1>1, <1>2 DEF IInv, QueueHolds, WorkHolds, OneWorkerPerJob, MainHolds, Busy
<1>5. ChildHolds' /\ ParentHolds'
  BY <1>1, <1>2 DEF IInv, ChildHolds, ParentHolds, Visiting
<1>6. CountHolds' /\ LiveHolds'
  BY <1>1 DEF IInv, CountHolds, PendingIsExact, Outstanding, Exclusive,
              LiveHolds, NoDanglingMap, Unloaded
<1>7. DoneHolds'
  BY <1>1, <1>2 DEF IInv, DoneHolds
<1> QED BY <1>3, <1>4, <1>5, <1>6, <1>7 DEF IInv

(* Cancel clears a queue that is already empty.                            *)
LEMMA MainCancels ==
    ASSUME IInv, TypeOK', MainCancel
    PROVE  IInv'
<1> USE DEF counterVars, workerVars, tickVars
<1>1. /\ UNCHANGED <<popped, counterVars, mtodo, mjob, workerVars, tickVars>>
      /\ mpc = "cancel" /\ mpc' = "join" /\ queue' = << >>
      /\ cpc' = WakeAll(cpc)
  BY DEF MainCancel, CancelQueue
<1>2. Woken
  BY <1>1 DEF WakeAll, Woken
<1>3. PoppedHolds'
  BY <1>1, <1>2, WokenPopped DEF IInv
<1>4. QueueHolds'
  BY <1>1 DEF QueueHolds
<1>5. WorkHolds' /\ ChildHolds' /\ ParentHolds' /\ MainHolds'
  BY <1>1 DEF IInv, WorkHolds, OneWorkerPerJob, ChildHolds, ParentHolds, MainHolds
<1>6. CountHolds' /\ LiveHolds' /\ DoneHolds'
  BY <1>1 DEF IInv, CountHolds, PendingIsExact, Outstanding, Exclusive,
              LiveHolds, NoDanglingMap, Unloaded, DoneHolds, Scheduling, Waiting
<1> QED BY <1>3, <1>4, <1>5, <1>6 DEF IInv

----------------------------------------------------------------------------
(* Between two ticks.                                                      *)

(* An instance is created between two ticks.                               *)
LEMMA InstancesAppear ==
    ASSUME IInv, TypeOK', NEW i \in Instances, CreateInstance(i)
    PROVE  IInv'
<1> USE DEF qvars, counterVars, mainVars, workerVars
<1>1. /\ UNCHANGED <<qvars, counterVars, mainVars, workerVars, status, skipped>>
      /\ mpc = "idle" /\ live' = live \cup {i}
  BY DEF CreateInstance
<1>2. QueueHolds' /\ PoppedHolds' /\ WorkHolds' /\ ParentHolds' /\ MainHolds'
  BY <1>1 DEF IInv, QueueHolds, PoppedHolds, HasPopped, WorkHolds,
              OneWorkerPerJob, ParentHolds, MainHolds
<1>3. ChildHolds'
  BY <1>1 DEF IInv, ChildHolds
<1>4. CountHolds'
  BY <1>1 DEF IInv, CountHolds, PendingIsExact, Outstanding, Exclusive
<1>5. LiveHolds'
  BY <1>1 DEF IInv, LiveHolds, NoDanglingMap, Unloaded
<1>6. DoneHolds'
  BY <1>1 DEF DoneHolds, Scheduling, Waiting
<1> QED BY <1>2, <1>3, <1>4, <1>5, <1>6 DEF IInv

(* UnloadAll deletes the maps when nobody is in them.                      *)
LEMMA MapsDisappear ==
    ASSUME IInv, TypeOK', UnloadMaps
    PROVE  IInv'
<1> USE DEF qvars, counterVars, workerVars
<1>1. /\ UNCHANGED <<qvars, counterVars, mtodo, mjob, workerVars, status, skipped>>
      /\ mpc = "idle" /\ mpc' = "unload" /\ live' = {}
  BY DEF UnloadMaps
<1>2. /\ Outstanding = {} /\ pending = 0
      /\ \A w \in Consumers : wtodo[w] = {}
  BY <1>1, ExclusiveIsIdle DEF Exclusive
<1>3. QueueHolds' /\ PoppedHolds' /\ WorkHolds' /\ ParentHolds' /\ MainHolds'
  BY <1>1 DEF IInv, QueueHolds, PoppedHolds, HasPopped, WorkHolds,
              OneWorkerPerJob, ParentHolds, MainHolds
<1>4. ChildHolds'
  BY <1>1, <1>2 DEF IInv, ChildHolds
<1>5. CountHolds'
  BY <1>1, <1>2 DEF IInv, CountHolds, PendingIsExact, Outstanding
<1>6. LiveHolds'
  BY <1>1, <1>2 DEF LiveHolds, NoDanglingMap, Outstanding, Unloaded, Jobs
<1>7. DoneHolds'
  BY <1>1 DEF DoneHolds, Scheduling, Waiting
<1> QED BY <1>3, <1>4, <1>5, <1>6, <1>7 DEF IInv

(* A tick begins with every job in nobody's hands.                         *)
LEMMA TicksBegin ==
    ASSUME IInv, TypeOK', BeginTick
    PROVE  IInv'
<1> USE Sorts
<1>1. /\ UNCHANGED <<queue, cpc, popped, pending, mjob, wpc, wjob, wtodo, wchild,
                     live>>
      /\ mpc = "idle" /\ mpc' = "schedule" /\ skipped' = {}
      /\ mtodo' = BaseMaps \cup {Lfg}
      /\ status' = [j \in Jobs |-> "none"]
  BY DEF BeginTick, qvars, counterVars, workerVars
<1>2. /\ pending = 0 /\ queue = << >>
      /\ \A w \in Consumers :
            /\ wjob[w] = Null /\ wpc[w] \notin Busy /\ wtodo[w] = {}
            /\ ~HasPopped(w)
  BY <1>1, ExclusiveIsIdle DEF Exclusive
<1>3. QueueHolds'
  BY <1>1, <1>2 DEF QueueHolds
<1>4. PoppedHolds'
  BY <1>1, <1>2 DEF IInv, PoppedHolds, HasPopped
<1>5. WorkHolds'
  BY <1>1, <1>2 DEF WorkHolds, OneWorkerPerJob
<1>6. ChildHolds'
  BY <1>1, <1>2 DEF ChildHolds, Busy
<1>7. ParentHolds'
  BY <1>1 DEF ParentHolds
<1>8. MainHolds'
  BY <1>1 DEF MainHolds
<1>9. CountHolds'
  <2>1. Outstanding' = {}
    BY <1>1 DEF Outstanding
  <2> QED BY <1>1, <1>2, <2>1, FS_EmptySet DEF CountHolds, PendingIsExact, Exclusive
<1>10. LiveHolds'
  BY <1>1 DEF IInv, LiveHolds, NoDanglingMap, Jobs, Unloaded
<1>11. DoneHolds'
  <2>1. ASSUME NEW i \in Instances
        PROVE  /\ status'[ParentOf[i]] = "none"
               /\ \A w \in Consumers : wjob'[w] # ParentOf[i]
    BY <1>1, <1>2
  <2> QED BY <1>1, <2>1 DEF DoneHolds, Waiting
<1> QED BY <1>3, <1>4, <1>5, <1>6, <1>7, <1>8, <1>9, <1>10, <1>11 DEF IInv

----------------------------------------------------------------------------
(* A request changes hands: the status of one job changes.                 *)

Under == {"counted", "queued", "taken", "running"}

(* A step that changes one status leaves the others.                       *)
LEMMA OneStatusChanges ==
    ASSUME TypeOK, NEW j \in Jobs, NEW s \in JobStatus,
           status' = [status EXCEPT ![j] = s]
    PROVE  /\ \A k \in Jobs : status'[k] = IF k = j THEN s ELSE status[k]
           /\ s \in Under => Outstanding' = Outstanding \cup {j}
           /\ s \notin Under => Outstanding' = Outstanding \ {j}
<1>1. \A k \in Jobs : status'[k] = IF k = j THEN s ELSE status[k]
  BY DEF TypeOK
<1> QED BY <1>1 DEF Outstanding, Under

(* fetch_add of a request that was in nobody's hands.                      *)
LEMMA CountedUp ==
    ASSUME IInv, NEW j \in Jobs, status[j] = "none", ~Exclusive', CountUp(j)
    PROVE  /\ CountHolds'
           /\ \A k \in Jobs : status'[k] = IF k = j THEN "counted" ELSE status[k]
<1>1. TypeOK /\ pending = Cardinality(Outstanding) /\ pending' = pending + 1
  BY DEF IInv, CountHolds, PendingIsExact, CountUp
<1>2. /\ \A k \in Jobs : status'[k] = IF k = j THEN "counted" ELSE status[k]
      /\ Outstanding' = Outstanding \cup {j}
  BY <1>1, OneStatusChanges DEF CountUp, JobStatus, Under
<1>3. j \notin Outstanding
  BY DEF Outstanding
<1>4. pending' = Cardinality(Outstanding')
  BY <1>1, <1>2, <1>3, JobsFinite, FS_AddElement
<1> QED BY <1>2, <1>4 DEF CountHolds, PendingIsExact

(* fetch_sub by the worker that has run the request.                       *)
LEMMA CountedDown ==
    ASSUME IInv, NEW j \in Outstanding, pending' = pending - 1,
           status' = [status EXCEPT ![j] = "done"], mpc' = mpc
    PROVE  CountHolds'
<1>1. TypeOK /\ pending = Cardinality(Outstanding) /\ j \in Jobs
  BY DEF IInv, CountHolds, PendingIsExact, Outstanding
<1>2. Outstanding' = Outstanding \ {j}
  BY <1>1, OneStatusChanges DEF JobStatus, Under
<1>3. pending' = Cardinality(Outstanding')
  BY <1>1, <1>2, JobsFinite, FS_RemoveElement
<1>4. ~Exclusive
  BY ExclusiveIsIdle
<1> QED BY <1>3, <1>4 DEF CountHolds, PendingIsExact, Exclusive

(* A request that is passed on stays counted.                              *)
LEMMA StillCounted ==
    ASSUME IInv, NEW j \in Outstanding, NEW s \in Under,
           status' = [status EXCEPT ![j] = s], pending' = pending,
           Exclusive' => Exclusive
    PROVE  CountHolds'
<1>1. TypeOK /\ j \in Jobs
  BY DEF IInv, Outstanding
<1>2. s \in JobStatus
  BY DEF JobStatus, Under
<1>3. Outstanding' = Outstanding \cup {j}
  BY <1>1, <1>2, OneStatusChanges
<1>4. Outstanding' = Outstanding
  BY <1>3
<1> QED BY <1>4 DEF IInv, CountHolds, PendingIsExact, Exclusive

(* The main thread counts a request.                                       *)
LEMMA MainSchedules ==
    ASSUME IInv, TypeOK', NEW j \in Jobs, MainSchedule(j)
    PROVE  IInv'
<1> USE Sorts
<1>0. TypeOK
  BY DEF IInv
<1>1. /\ UNCHANGED <<queue, cpc, popped, wpc, wjob, wtodo, wchild, live, skipped>>
      /\ mpc = "schedule" /\ mpc' = "push" /\ mjob' = j
      /\ j \in mtodo /\ mtodo' = mtodo \ {j}
      /\ CountUp(j)
  BY DEF MainSchedule, qvars, workerVars
<1>2. j \in BaseMaps \cup {Lfg} /\ status[j] = "none"
  BY <1>0, <1>1 DEF TypeOK, IInv, MainHolds
<1>3. ~Exclusive'
  BY <1>1 DEF Exclusive
<1>4. /\ CountHolds'
      /\ \A k \in Jobs : status'[k] = IF k = j THEN "counted" ELSE status[k]
  BY <1>1, <1>2, <1>3, CountedUp
<1>5. QueueHolds'
  <2>1. \A k \in 1..Len(queue) : queue[k] \in Jobs
    BY <1>0 DEF TypeOK, QueueTypeOK
  <2> QED BY <1>1, <1>2, <1>4, <2>1 DEF IInv, QueueHolds
<1>6. PoppedHolds'
  <2>1. \A w \in Consumers : popped[w] \in Jobs \cup {Null}
    BY <1>0 DEF TypeOK, QueueTypeOK
  <2> QED BY <1>1, <1>2, <1>4, <2>1 DEF IInv, PoppedHolds, HasPopped
<1>7. WorkHolds'
  <2>1. \A w \in Consumers : wjob[w] \in Jobs \cup {Null}
    BY <1>0 DEF TypeOK
  <2> QED BY <1>1, <1>2, <1>4, <2>1 DEF IInv, WorkHolds, OneWorkerPerJob
<1>8. ChildHolds'
  <2>1. \A i \in Instances : status'[i] = status[i]
    BY <1>2, <1>4 DEF Maps
  <2>2. \A w \in Consumers : wtodo[w] \subseteq Instances
    BY <1>0 DEF TypeOK
  <2> QED BY <1>1, <2>1, <2>2 DEF IInv, ChildHolds
<1>9. ParentHolds'
  <2>1. \A i \in Instances : status'[i] = status[i] /\ ParentOf[i] \in Jobs
    BY <1>2, <1>4 DEF Maps
  <2> QED BY <1>1, <1>2, <1>4, <2>1 DEF IInv, ParentHolds
<1>10. MainHolds'
  BY <1>0, <1>1, <1>2, <1>4 DEF IInv, MainHolds, TypeOK
<1>11. LiveHolds'
  <2>1. BaseMaps \subseteq live
    BY <1>1 DEF IInv, LiveHolds, Unloaded
  <2> QED BY <1>1, <1>2, <1>4, <2>1 DEF IInv, LiveHolds, NoDanglingMap, Jobs
<1>12. DoneHolds'
  <2>1. \A i \in Instances : status'[i] = status[i] /\ ParentOf[i] \in Jobs
    BY <1>2, <1>4 DEF Maps
  <2> QED BY <1>1, <1>2, <1>4, <2>1 DEF IInv, DoneHolds, Scheduling, Waiting
<1> QED BY <1>4, <1>5, <1>6, <1>7, <1>8, <1>9, <1>10, <1>11, <1>12 DEF IInv

(* A counted request enters the queue, whoever counted it.                 *)
LEMMA QueueGrows ==
    ASSUME IInv, NEW j \in Jobs, status[j] = "counted", Enqueue(j)
    PROVE  /\ QueueHolds'
           /\ \A k \in Jobs : status'[k] = IF k = j THEN "queued" ELSE status[k]
           /\ UNCHANGED <<cpc, popped>>
           /\ j \in Outstanding
<1>1. TypeOK /\ queue \in Seq(Jobs)
  BY Sorts DEF IInv, TypeOK, QueueTypeOK
<1>2. queue' = Append(queue, j) /\ UNCHANGED <<cpc, popped>>
      /\ status' = [status EXCEPT ![j] = "queued"]
  BY DEF Enqueue, PushLocked
<1>3. \A k \in Jobs : status'[k] = IF k = j THEN "queued" ELSE status[k]
  BY <1>1, <1>2, OneStatusChanges DEF JobStatus
<1>4. QueueHolds'
  <2>1. Len(queue') = Len(queue) + 1 /\ Len(queue) \in Nat
    BY <1>1, <1>2
  <2>2. \A i \in 1..Len(queue) :
          queue'[i] = queue[i] /\ queue[i] \in Jobs /\ status[queue[i]] = "queued"
    BY <1>1, <1>2 DEF IInv, QueueHolds
  <2>3. queue'[Len(queue) + 1] = j
    BY <1>1, <1>2
  <2>4. \A i \in 1..Len(queue') : i \in 1..Len(queue) \/ i = Len(queue) + 1
    BY <2>1
  <2>5. \A i \in 1..Len(queue') : status'[queue'[i]] = "queued"
    BY <1>3, <2>2, <2>3, <2>4
  <2>6. \A i \in 1..Len(queue) : queue'[i] # j
    BY <2>2
  <2>7. \A i, k \in 1..Len(queue) : queue[i] = queue[k] => i = k
    BY DEF IInv, QueueHolds
  <2>8. \A i, k \in 1..Len(queue') : queue'[i] = queue'[k] => i = k
    BY <2>2, <2>3, <2>4, <2>6, <2>7
  <2> QED BY <2>5, <2>8 DEF QueueHolds
<1> QED BY <1>2, <1>3, <1>4 DEF Outstanding

(* The main thread queues the request it has counted.                      *)
LEMMA MainPushes ==
    ASSUME IInv, TypeOK', MainPush
    PROVE  IInv'
<1> USE Sorts
<1>0. TypeOK
  BY DEF IInv
<1>1. /\ UNCHANGED <<pending, mtodo, mjob, wpc, wjob, wtodo, wchild, live, skipped>>
      /\ mpc = "push" /\ mpc' = "notify"
      /\ Enqueue(mjob)
  BY DEF MainPush, counterVars, workerVars
<1>2. mjob \in Jobs /\ mjob \notin Instances /\ status[mjob] = "counted"
  BY <1>1 DEF IInv, MainHolds, Maps
<1>3. /\ QueueHolds' /\ UNCHANGED <<cpc, popped>>
      /\ \A k \in Jobs : status'[k] = IF k = mjob THEN "queued" ELSE status[k]
      /\ mjob \in Outstanding
  BY <1>1, <1>2, QueueGrows
<1>4. CountHolds'
  <2>1. status' = [status EXCEPT ![mjob] = "queued"] /\ "queued" \in Under
    BY <1>1 DEF Enqueue, Under
  <2>2. Exclusive' => Exclusive
    BY <1>1 DEF Exclusive
  <2> QED BY <1>1, <1>3, <2>1, <2>2, StillCounted
<1>5. PoppedHolds'
  <2>1. \A w \in Consumers : popped[w] \in Jobs \cup {Null}
    BY <1>0 DEF TypeOK, QueueTypeOK
  <2> QED BY <1>1, <1>2, <1>3, <2>1 DEF IInv, PoppedHolds, HasPopped
<1>6. WorkHolds'
  <2>1. \A w \in Consumers : wjob[w] \in Jobs \cup {Null}
    BY <1>0 DEF TypeOK
  <2> QED BY <1>1, <1>2, <1>3, <2>1 DEF IInv, WorkHolds, OneWorkerPerJob
<1>7. \A i \in Instances : status'[i] = status[i] /\ ParentOf[i] \in Jobs
  BY <1>2, <1>3
<1>8. ChildHolds'
  <2>1. \A w \in Consumers : wtodo[w] \subseteq Instances
    BY <1>0 DEF TypeOK
  <2> QED BY <1>1, <1>7, <2>1 DEF IInv, ChildHolds
<1>9. ParentHolds'
  BY <1>1, <1>2, <1>3, <1>7 DEF IInv, ParentHolds
<1>10. MainHolds'
  BY <1>0, <1>1, <1>2, <1>3 DEF IInv, MainHolds, TypeOK
<1>11. LiveHolds'
  BY <1>1, <1>2, <1>3 DEF IInv, LiveHolds, NoDanglingMap, Jobs, Unloaded
<1>12. DoneHolds'
  BY <1>1, <1>2, <1>3, <1>7 DEF IInv, DoneHolds, Scheduling, Waiting
<1> QED BY <1>3, <1>4, <1>5, <1>6, <1>8, <1>9, <1>10, <1>11, <1>12 DEF IInv

----------------------------------------------------------------------------
(* The steps of a worker.                                                  *)

(* A worker enters WaitAndPop, or ends.                                    *)
LEMMA WorkerTops ==
    ASSUME IInv, TypeOK', NEW w \in Consumers, WorkerTop(w)
    PROVE  IInv'
<1> USE Sorts DEF counterVars, mainVars, tickVars
<1>0. TypeOK
  BY DEF IInv
<1>1. /\ UNCHANGED <<queue, counterVars, mainVars, wjob, wtodo, wchild, tickVars>>
      /\ wpc[w] = "top"
  BY DEF WorkerTop, CallWaitAndPop, qvars
<1>2. \/ /\ wpc' = [wpc EXCEPT ![w] = "exited"]
         /\ UNCHANGED <<cpc, popped>>
      \/ /\ wpc' = [wpc EXCEPT ![w] = "pop"]
         /\ cpc' = [cpc EXCEPT ![w] = "lock"]
         /\ popped' = [popped EXCEPT ![w] = Null]
  BY DEF WorkerTop, CallWaitAndPop, qvars
<1>3. cpc[w] = "out"
  BY <1>1 DEF IInv, PoppedHolds
<1>4. \A v \in Consumers :
        /\ wpc'[v] \in Busy <=> wpc[v] \in Busy
        /\ wpc'[v] \in Visiting <=> wpc[v] \in Visiting
        /\ wpc'[v] = "call" <=> wpc[v] = "call"
        /\ wpc'[v] = "push" <=> wpc[v] = "push"
  BY <1>0, <1>1, <1>2 DEF TypeOK, Busy, Visiting
<1>5. PoppedHolds'
  <2>1. CASE UNCHANGED <<cpc, popped>> /\ wpc' = [wpc EXCEPT ![w] = "exited"]
    <3>1. \A v \in Consumers : wpc'[v] = "pop" <=> wpc[v] = "pop"
      BY <1>0, <1>1, <2>1 DEF TypeOK
    <3> QED BY <1>1, <2>1, <3>1 DEF IInv, PoppedHolds, HasPopped
  <2>2. CASE /\ wpc' = [wpc EXCEPT ![w] = "pop"]
             /\ cpc' = [cpc EXCEPT ![w] = "lock"]
             /\ popped' = [popped EXCEPT ![w] = Null]
    <3>1. \A v \in Consumers :
            IF v = w THEN wpc'[v] = "pop" /\ cpc'[v] = "lock" /\ popped'[v] = Null
            ELSE wpc'[v] = wpc[v] /\ cpc'[v] = cpc[v] /\ popped'[v] = popped[v]
      BY <1>0, <2>2 DEF TypeOK, QueueTypeOK
    <3> QED BY <1>1, <3>1 DEF IInv, PoppedHolds, HasPopped
  <2> QED BY <1>2, <2>1, <2>2
<1>6. QueueHolds' /\ WorkHolds' /\ ChildHolds' /\ ParentHolds' /\ MainHolds'
  BY <1>1, <1>4 DEF IInv, QueueHolds, WorkHolds, OneWorkerPerJob, ChildHolds,
                    ParentHolds, MainHolds
<1>7. CountHolds' /\ LiveHolds' /\ DoneHolds'
  BY <1>1, <1>4 DEF IInv, CountHolds, PendingIsExact, Outstanding, Exclusive,
                    LiveHolds, NoDanglingMap, Unloaded, DoneHolds
<1> QED BY <1>5, <1>6, <1>7 DEF IInv

(* A worker waits, or comes back with nothing.                             *)
LEMMA WorkerWaits ==
    ASSUME IInv, TypeOK', NEW w \in Consumers, WorkerInQueue(w), ~ReturnFront(w)
    PROVE  IInv'
<1> USE DEF counterVars, mainVars, workerVars, tickVars
<1>1. /\ UNCHANGED <<queue, popped, counterVars, mainVars, workerVars, tickVars>>
      /\ cpc[w] \in {"lock", "blocking"}
      /\ \/ cpc' = [cpc EXCEPT ![w] = "blocking"]
         \/ cpc' = [cpc EXCEPT ![w] = "asleep"]
         \/ cpc' = [cpc EXCEPT ![w] = "returned"]
  BY DEF WorkerInQueue, WaitAndPop, TestFalse, Block, ReturnEmpty
<1>2. popped[w] = Null
  BY <1>1 DEF IInv, PoppedHolds
<1>3. \A v \in Consumers :
        /\ v # w => cpc'[v] = cpc[v]
        /\ cpc'[v] = "out" <=> cpc[v] = "out"
  BY <1>1 DEF IInv, TypeOK, QueueTypeOK
<1>4. PoppedHolds'
  BY <1>1, <1>2, <1>3 DEF IInv, PoppedHolds, HasPopped
<1>5. QueueHolds' /\ WorkHolds' /\ ChildHolds' /\ ParentHolds' /\ MainHolds'
  BY <1>1 DEF IInv, QueueHolds, WorkHolds, OneWorkerPerJob, ChildHolds,
              ParentHolds, MainHolds
<1>6. CountHolds' /\ LiveHolds' /\ DoneHolds'
  BY <1>1 DEF IInv, CountHolds, PendingIsExact, Outstanding, Exclusive,
              LiveHolds, NoDanglingMap, Unloaded, DoneHolds
<1> QED BY <1>4, <1>5, <1>6 DEF IInv

(* A worker takes the front of the queue.                                  *)
LEMMA WorkerTakes ==
    ASSUME IInv, TypeOK', NEW w \in Consumers, WorkerInQueue(w), ReturnFront(w),
           NEW j, j = Head(queue)
    PROVE  IInv'
<1> USE Sorts
<1>0. TypeOK
  BY DEF IInv
<1>1. /\ UNCHANGED <<pending, mpc, mtodo, mjob, wpc, wjob, wtodo, wchild, live,
                     skipped>>
      /\ wpc[w] = "pop" /\ cpc[w] = "lock" /\ queue # << >>
      /\ queue' = Tail(queue)
      /\ cpc' = [cpc EXCEPT ![w] = "returned"]
      /\ popped' = [popped EXCEPT ![w] = j]
  BY DEF WorkerInQueue, ReturnFront, counterVars, mainVars, workerVars
<1>2. /\ queue \in Seq(Jobs) /\ Len(queue) \in Nat /\ 1 \in 1..Len(queue)
      /\ j \in Jobs /\ j = queue[1]
  <2>1. queue \in Seq(Jobs)
    BY <1>0 DEF TypeOK, QueueTypeOK
  <2> QED BY <1>1, <2>1
<1>3. status[j] = "queued"
  BY <1>2 DEF IInv, QueueHolds
<1>4. popped[w] = Null /\ popped'[w] = j
  BY <1>0, <1>1 DEF IInv, PoppedHolds, TypeOK, QueueTypeOK
<1>5. status' = [status EXCEPT ![j] = "taken"]
  BY <1>2, <1>4 DEF WorkerInQueue
<1>6. \A k \in Jobs : status'[k] = IF k = j THEN "taken" ELSE status[k]
  BY <1>0, <1>2, <1>5, OneStatusChanges DEF JobStatus
<1>7. CountHolds'
  <2>1. j \in Outstanding /\ "taken" \in Under
    BY <1>2, <1>3 DEF Outstanding, Under
  <2>2. Exclusive' => Exclusive
    BY <1>1 DEF Exclusive
  <2> QED BY <1>1, <1>5, <2>1, <2>2, StillCounted
<1>8. QueueHolds'
  <2>1. Len(queue') = Len(queue) - 1
    BY <1>1, <1>2
  <2>2. \A i \in 1..Len(queue') : queue'[i] = queue[i + 1] /\ i + 1 \in 1..Len(queue)
    BY <1>1, <1>2, <2>1
  <2>3. \A i, k \in 1..Len(queue) : queue[i] = queue[k] => i = k
    BY DEF IInv, QueueHolds
  <2>4. \A i \in 1..Len(queue) : status[queue[i]] = "queued" /\ queue[i] \in Jobs
    BY <1>2 DEF IInv, QueueHolds
  <2>5. \A i \in 1..Len(queue') : queue'[i] # j
    BY <1>2, <2>2, <2>3
  <2>6. \A i \in 1..Len(queue') : status'[queue'[i]] = "queued"
    BY <1>6, <2>2, <2>4, <2>5
  <2>7. \A i, k \in 1..Len(queue') : queue'[i] = queue'[k] => i = k
    BY <2>1, <2>2, <2>3
  <2> QED BY <2>6, <2>7 DEF QueueHolds
<1>9. PoppedHolds'
  <2>1. \A v \in Consumers :
          IF v = w THEN cpc'[v] = "returned" /\ popped'[v] = j
          ELSE cpc'[v] = cpc[v] /\ popped'[v] = popped[v]
    BY <1>0, <1>1 DEF TypeOK, QueueTypeOK
  <2>2. \A v \in Consumers : popped[v] \in Jobs \cup {Null}
    BY <1>0 DEF TypeOK, QueueTypeOK
  <2>3. ASSUME NEW v \in Consumers, HasPopped(v) PROVE popped[v] # j
    BY <1>3, <2>3 DEF IInv, PoppedHolds
  <2>4. HasPopped(w)' /\ popped'[w] = j /\ status'[j] = "taken"
    BY <1>2, <1>6, <2>1, Sorts DEF HasPopped
  <2>5. ASSUME NEW v \in Consumers, v # w, HasPopped(v)'
        PROVE  /\ HasPopped(v) /\ popped'[v] = popped[v] /\ popped[v] # j
               /\ status'[popped[v]] = "taken"
    <3>1. HasPopped(v) /\ popped'[v] = popped[v] /\ popped[v] \in Jobs
      BY <2>1, <2>2, <2>5 DEF HasPopped
    <3>2. popped[v] # j /\ status[popped[v]] = "taken"
      BY <2>3, <3>1 DEF IInv, PoppedHolds
    <3> QED BY <1>6, <3>1, <3>2
  <2>6. \A v \in Consumers : HasPopped(v)' => status'[popped'[v]] = "taken"
    BY <2>4, <2>5
  <2>7. \A u, v \in Consumers :
          HasPopped(u)' /\ HasPopped(v)' /\ popped'[u] = popped'[v] => u = v
    BY <2>4, <2>5 DEF IInv, PoppedHolds
  <2>8. \A v \in Consumers :
          /\ wpc'[v] = "pop" <=> cpc'[v] # "out"
          /\ cpc'[v] \in {"lock", "blocking", "asleep"} => popped'[v] = Null
    BY <1>1, <2>1 DEF IInv, PoppedHolds
  <2> QED BY <2>6, <2>7, <2>8 DEF PoppedHolds
<1>10. WorkHolds'
  <2>1. \A v \in Consumers : wjob[v] \in Jobs \cup {Null}
    BY <1>0 DEF TypeOK
  <2> QED BY <1>1, <1>3, <1>6, <2>1 DEF IInv, WorkHolds, OneWorkerPerJob
<1>11. ChildHolds'
  <2>1. \A v \in Consumers : wtodo[v] \subseteq Instances
    BY <1>0 DEF TypeOK
  <2> QED BY <1>1, <1>3, <1>6, <2>1 DEF IInv, ChildHolds
<1>12. ParentHolds'
  BY <1>1, <1>3, <1>6 DEF IInv, ParentHolds
<1>13. MainHolds'
  BY <1>0, <1>1, <1>3, <1>6 DEF IInv, MainHolds, TypeOK
<1>14. LiveHolds'
  BY <1>1, <1>3, <1>6 DEF IInv, LiveHolds, NoDanglingMap, Jobs, Unloaded
<1>15. DoneHolds'
  <2>1. \A i \in Instances : ParentOf[i] \in Jobs
    OBVIOUS
  <2> QED BY <1>1, <1>3, <1>6, <2>1 DEF IInv, DoneHolds
<1> QED BY <1>7, <1>8, <1>9, <1>10, <1>11, <1>12, <1>13, <1>14, <1>15 DEF IInv

(* Back from WaitAndPop, with a request or without.                        *)
LEMMA WorkerStarts ==
    ASSUME IInv, TypeOK', NEW w \in Consumers, WorkerPopped(w)
    PROVE  IInv'
<1> USE Sorts
<1>0. TypeOK
  BY DEF IInv
<1>1. /\ UNCHANGED <<queue, popped, pending, mpc, mtodo, mjob, wtodo, wchild,
                     live, skipped>>
      /\ wpc[w] = "pop" /\ cpc[w] = "returned" /\ cpc' = [cpc EXCEPT ![w] = "out"]
  BY DEF WorkerPopped, LeaveWaitAndPop, counterVars, mainVars
<1>2. wjob[w] = Null /\ wtodo[w] = {}
  BY <1>1 DEF IInv, WorkHolds, ChildHolds, Busy, Visiting
<1>3. \A v \in Consumers : cpc'[v] = IF v = w THEN "out" ELSE cpc[v]
  BY <1>0, <1>1 DEF TypeOK, QueueTypeOK
<1>4. CASE UNCHANGED <<wjob, status>> /\ wpc' = [wpc EXCEPT ![w] = "top"]
  <2>1. \A v \in Consumers : wpc'[v] = IF v = w THEN "top" ELSE wpc[v]
    BY <1>0, <1>4 DEF TypeOK
  <2>2. QueueHolds' /\ PoppedHolds'
    BY <1>1, <1>3, <1>4, <2>1 DEF IInv, QueueHolds, PoppedHolds, HasPopped
  <2>3. WorkHolds' /\ ChildHolds'
    BY <1>1, <1>2, <1>4, <2>1 DEF IInv, WorkHolds, OneWorkerPerJob, ChildHolds,
                                  Busy, Visiting
  <2>4. ParentHolds' /\ MainHolds'
    BY <1>1, <1>4, <2>1 DEF IInv, ParentHolds, MainHolds
  <2>5. CountHolds' /\ LiveHolds'
    BY <1>1, <1>4 DEF IInv, CountHolds, PendingIsExact, Outstanding, Exclusive,
                      LiveHolds, NoDanglingMap, Unloaded
  <2>6. DoneHolds'
    BY <1>1, <1>2, <1>4, <2>1 DEF IInv, DoneHolds
  <2> QED BY <2>2, <2>3, <2>4, <2>5, <2>6 DEF IInv
<1>5. ASSUME NEW j, j = popped[w], j # Null,
             wpc' = [wpc EXCEPT ![w] = "call"],
             wjob' = [wjob EXCEPT ![w] = j],
             status' = [status EXCEPT ![j] = "running"]
      PROVE  IInv'
  <2>1. j \in Jobs /\ status[j] = "taken"
    BY <1>0, <1>1, <1>5 DEF TypeOK, QueueTypeOK, IInv, PoppedHolds, HasPopped
  <2>2. \A k \in Jobs : status'[k] = IF k = j THEN "running" ELSE status[k]
    BY <1>0, <1>5, <2>1, OneStatusChanges DEF JobStatus
  <2>3. \A v \in Consumers :
          IF v = w THEN wpc'[v] = "call" /\ wjob'[v] = j
          ELSE wpc'[v] = wpc[v] /\ wjob'[v] = wjob[v]
    BY <1>0, <1>5 DEF TypeOK
  <2>4. \A v \in Consumers : popped[v] \in Jobs \cup {Null} /\ wjob[v] \in Jobs \cup {Null}
    BY <1>0 DEF TypeOK, QueueTypeOK
  <2>5. QueueHolds'
    <3>1. \A k \in 1..Len(queue) : queue[k] \in Jobs
      BY <1>0 DEF TypeOK, QueueTypeOK
    <3> QED BY <1>1, <2>1, <2>2, <3>1 DEF IInv, QueueHolds
  <2>6. PoppedHolds'
    <3>1. ASSUME NEW v \in Consumers, v # w, HasPopped(v) PROVE popped[v] # j
      BY <1>1, <1>5, <3>1 DEF IInv, PoppedHolds, HasPopped
    <3> QED BY <1>1, <1>3, <2>1, <2>2, <2>3, <2>4, <3>1
            DEF IInv, PoppedHolds, HasPopped
  <2>7. WorkHolds'
    <3>1. \A v \in Consumers : wjob[v] # j
      BY <2>1, <2>4, <1>5 DEF IInv, WorkHolds
    <3>2. \A v \in Consumers : wjob'[v] # Null <=> wpc'[v] \in Busy
      BY <1>5, <2>3 DEF IInv, WorkHolds, Busy
    <3>3. \A v \in Consumers : wjob'[v] # Null => status'[wjob'[v]] = "running"
      BY <2>1, <2>2, <2>3, <2>4 DEF IInv, WorkHolds
    <3>4. OneWorkerPerJob'
      BY <2>3, <3>1 DEF IInv, WorkHolds, OneWorkerPerJob
    <3> QED BY <3>2, <3>3, <3>4 DEF WorkHolds
  <2>8. ChildHolds'
    <3>1. \A v \in Consumers : wtodo[v] \subseteq Instances
      BY <1>0 DEF TypeOK
    <3> QED BY <1>1, <1>2, <2>1, <2>2, <2>3, <3>1 DEF IInv, ChildHolds
  <2>9. ParentHolds'
    <3>1. ASSUME NEW i \in Instances, ParentOf[i] = j PROVE status[i] = "none"
      BY <2>1, <3>1 DEF IInv, ParentHolds
    <3>2. \A i \in Instances : ParentOf[i] \in Jobs /\ ParentOf[i] # i
      OBVIOUS
    <3>3. ASSUME NEW i \in Instances, status'[i] # "none"
          PROVE  /\ ParentOf[i] # j
                 /\ status'[ParentOf[i]] \in {"running", "done"}
      BY <2>1, <2>2, <3>1, <3>2, <3>3 DEF IInv, ParentHolds
    <3>4. ASSUME NEW i \in Instances, status'[i] # "none",
                 NEW v \in Consumers, wjob'[v] = ParentOf[i]
          PROVE  wpc'[v] # "call"
      BY <2>1, <2>2, <2>3, <3>3, <3>4 DEF IInv, ParentHolds
    <3> QED BY <3>3, <3>4 DEF ParentHolds
  <2>10. MainHolds'
    BY <1>0, <1>1, <2>1, <2>2 DEF IInv, MainHolds, TypeOK
  <2>11. CountHolds'
    <3>1. j \in Outstanding /\ "running" \in Under
      BY <2>1 DEF Outstanding, Under
    <3>2. Exclusive' => Exclusive
      BY <1>1 DEF Exclusive
    <3> QED BY <1>1, <1>5, <3>1, <3>2, StillCounted
  <2>12. LiveHolds'
    BY <1>1, <2>1, <2>2 DEF IInv, LiveHolds, NoDanglingMap, Jobs, Unloaded
  <2>13. DoneHolds'
    <3>1. \A i \in Instances : ParentOf[i] \in Jobs
      OBVIOUS
    <3> QED BY <1>1, <2>1, <2>2, <2>3, <3>1 DEF IInv, DoneHolds
  <2> QED BY <2>5, <2>6, <2>7, <2>8, <2>9, <2>10, <2>11, <2>12, <2>13 DEF IInv
<1> QED BY <1>4, <1>5 DEF WorkerPopped

(* A worker updates its map and turns to the instances.                    *)
LEMMA WorkerUpdates ==
    ASSUME IInv, TypeOK', NEW w \in Consumers, WorkerUpdate(w)
    PROVE  IInv'
<1> USE Sorts DEF qvars, counterVars, mainVars, tickVars
<1>0. TypeOK
  BY DEF IInv
<1>1. /\ UNCHANGED <<qvars, counterVars, mainVars, wjob, wchild, tickVars>>
      /\ wpc[w] = "call" /\ wpc' = [wpc EXCEPT ![w] = "visit"]
      /\ wtodo' = [wtodo EXCEPT ![w] = live \cap Children(wjob[w])]
  BY DEF WorkerUpdate
<1>2. \A v \in Consumers :
        IF v = w THEN wpc'[v] = "visit" /\ wtodo'[v] = live \cap Children(wjob[w])
        ELSE wpc'[v] = wpc[v] /\ wtodo'[v] = wtodo[v]
  BY <1>0, <1>1 DEF TypeOK
<1>3. QueueHolds' /\ PoppedHolds' /\ WorkHolds' /\ MainHolds'
  BY <1>1, <1>2 DEF IInv, QueueHolds, PoppedHolds, HasPopped, WorkHolds,
                    OneWorkerPerJob, MainHolds, Busy
<1>4. ChildHolds'
  <2>1. ASSUME NEW i \in live \cap Children(wjob[w])
        PROVE  ParentOf[i] = wjob[w] /\ status[i] = "none" /\ i \in live
    BY <1>1 DEF IInv, ParentHolds, Children
  <2> QED BY <1>1, <1>2, <2>1 DEF IInv, ChildHolds, Visiting
<1>5. ParentHolds'
  BY <1>1, <1>2 DEF IInv, ParentHolds
<1>6. CountHolds' /\ LiveHolds'
  BY <1>1 DEF IInv, CountHolds, PendingIsExact, Outstanding, Exclusive,
              LiveHolds, NoDanglingMap, Unloaded
<1>7. DoneHolds'
  BY <1>1, <1>2 DEF IInv, DoneHolds, Children
<1> QED BY <1>3, <1>4, <1>5, <1>6, <1>7 DEF IInv

(* An instance is visited by the worker of its map and no other.           *)
LEMMA OneVisitor ==
    ASSUME IInv, NEW v \in Consumers, NEW w \in Consumers,
           NEW i \in wtodo[v], i \in wtodo[w]
    PROVE  v = w
<1>1. i \in Instances /\ ParentOf[i] = wjob[v] /\ ParentOf[i] = wjob[w]
  BY DEF IInv, TypeOK, ChildHolds
<1>2. wjob[v] # Null
  BY <1>1, Sorts
<1> QED BY <1>1, <1>2 DEF IInv, WorkHolds, OneWorkerPerJob

(* A worker destroys an instance of its own map.                           *)
LEMMA WorkerDestroys ==
    ASSUME IInv, TypeOK', NEW w \in Consumers, NEW i \in Instances,
           WorkerDestroyInstance(w, i)
    PROVE  IInv'
<1> USE Sorts DEF qvars, counterVars, mainVars
<1>0. TypeOK
  BY DEF IInv
<1>1. /\ UNCHANGED <<qvars, counterVars, mainVars, wpc, wjob, wchild, status, skipped>>
      /\ i \in wtodo[w] /\ live' = live \ {i}
      /\ wtodo' = [wtodo EXCEPT ![w] = wtodo[w] \ {i}]
  BY DEF WorkerDestroyInstance
<1>2. \A v \in Consumers : wtodo'[v] = wtodo[v] \ {i}
  <2>1. \A v \in Consumers : wtodo'[v] = IF v = w THEN wtodo[w] \ {i} ELSE wtodo[v]
    BY <1>0, <1>1 DEF TypeOK
  <2>2. \A v \in Consumers : i \in wtodo[v] => v = w
    BY <1>1, OneVisitor
  <2> QED BY <2>1, <2>2
<1>3. status[i] = "none"
  BY <1>1 DEF IInv, ChildHolds
<1>4. QueueHolds' /\ PoppedHolds' /\ WorkHolds' /\ ParentHolds' /\ MainHolds'
  BY <1>1 DEF IInv, QueueHolds, PoppedHolds, HasPopped, WorkHolds,
              OneWorkerPerJob, ParentHolds, MainHolds
<1>5. ChildHolds'
  BY <1>1, <1>2 DEF IInv, ChildHolds
<1>6. CountHolds'
  BY <1>1 DEF IInv, CountHolds, PendingIsExact, Outstanding, Exclusive
<1>7. LiveHolds'
  BY <1>1, <1>3 DEF IInv, LiveHolds, NoDanglingMap, Unloaded
<1>8. DoneHolds'
  BY <1>1, <1>2 DEF IInv, DoneHolds
<1> QED BY <1>4, <1>5, <1>6, <1>7, <1>8 DEF IInv

(* A worker leaves an instance that cannot be destroyed.                   *)
LEMMA WorkerSkips ==
    ASSUME IInv, TypeOK', NEW w \in Consumers, NEW i \in Instances,
           WorkerSkipInstance(w, i)
    PROVE  IInv'
<1> USE Sorts DEF qvars, counterVars, mainVars
<1>0. TypeOK
  BY DEF IInv
<1>1. /\ UNCHANGED <<qvars, counterVars, mainVars, wpc, wjob, wchild, status, live>>
      /\ skipped' = skipped \cup {i}
      /\ wtodo' = [wtodo EXCEPT ![w] = wtodo[w] \ {i}]
  BY DEF WorkerSkipInstance
<1>2. \A v \in Consumers : wtodo'[v] = IF v = w THEN wtodo[w] \ {i} ELSE wtodo[v]
  BY <1>0, <1>1 DEF TypeOK
<1>3. QueueHolds' /\ PoppedHolds' /\ WorkHolds' /\ ParentHolds' /\ MainHolds'
  BY <1>1 DEF IInv, QueueHolds, PoppedHolds, HasPopped, WorkHolds,
              OneWorkerPerJob, ParentHolds, MainHolds
<1>4. ChildHolds'
  BY <1>1, <1>2 DEF IInv, ChildHolds
<1>5. CountHolds' /\ LiveHolds'
  BY <1>1 DEF IInv, CountHolds, PendingIsExact, Outstanding, Exclusive,
              LiveHolds, NoDanglingMap, Unloaded
<1>6. DoneHolds'
  BY <1>1, <1>2 DEF IInv, DoneHolds
<1> QED BY <1>3, <1>4, <1>5, <1>6 DEF IInv

(* A worker counts a request for an instance.                              *)
LEMMA WorkerSchedules ==
    ASSUME IInv, TypeOK', NEW w \in Consumers, NEW i \in Instances,
           WorkerSchedule(w, i)
    PROVE  IInv'
<1> USE Sorts
<1>0. TypeOK
  BY DEF IInv
<1>1. /\ UNCHANGED <<queue, cpc, popped, mpc, mtodo, mjob, wjob, live, skipped>>
      /\ wpc[w] = "visit" /\ i \in wtodo[w]
      /\ CountUp(i)
      /\ wtodo' = [wtodo EXCEPT ![w] = wtodo[w] \ {i}]
      /\ wchild' = [wchild EXCEPT ![w] = i]
      /\ wpc' = [wpc EXCEPT ![w] = "push"]
  BY DEF WorkerSchedule, qvars, mainVars
<1>2. /\ status[i] = "none" /\ ParentOf[i] = wjob[w] /\ i \in live
      /\ wjob[w] \in Jobs /\ status[wjob[w]] = "running"
  BY <1>0, <1>1 DEF IInv, ChildHolds, WorkHolds, TypeOK
<1>3. ~Exclusive'
  <2>1. ~Exclusive
    BY <1>1, ExclusiveIsIdle
  <2> QED BY <1>1, <2>1 DEF Exclusive
<1>4. /\ CountHolds'
      /\ \A k \in Jobs : status'[k] = IF k = i THEN "counted" ELSE status[k]
  BY <1>1, <1>2, <1>3, CountedUp
<1>5. \A v \in Consumers :
        IF v = w THEN /\ wpc'[v] = "push" /\ wchild'[v] = i
                      /\ wtodo'[v] = wtodo[v] \ {i}
        ELSE /\ wpc'[v] = wpc[v] /\ wchild'[v] = wchild[v]
             /\ wtodo'[v] = wtodo[v]
  BY <1>0, <1>1 DEF TypeOK
<1>6. \A v \in Consumers : i \in wtodo[v] => v = w
  BY <1>1, OneVisitor
<1>7. QueueHolds'
  <2>1. \A k \in 1..Len(queue) : queue[k] \in Jobs
    BY <1>0 DEF TypeOK, QueueTypeOK
  <2> QED BY <1>1, <1>2, <1>4, <2>1 DEF IInv, QueueHolds
<1>8. PoppedHolds'
  <2>1. \A v \in Consumers : popped[v] \in Jobs \cup {Null}
    BY <1>0 DEF TypeOK, QueueTypeOK
  <2>2. \A v \in Consumers : wpc'[v] = "pop" <=> wpc[v] = "pop"
    BY <1>1, <1>5
  <2> QED BY <1>1, <1>2, <1>4, <2>1, <2>2 DEF IInv, PoppedHolds, HasPopped
<1>9. WorkHolds'
  <2>1. \A v \in Consumers : wjob[v] \in Jobs \cup {Null}
    BY <1>0 DEF TypeOK
  <2>2. \A v \in Consumers : wpc'[v] \in Busy <=> wpc[v] \in Busy
    BY <1>1, <1>5 DEF Busy
  <2> QED BY <1>1, <1>2, <1>4, <2>1, <2>2 DEF IInv, WorkHolds, OneWorkerPerJob
<1>10. ChildHolds'
  <2>1. \A v \in Consumers : wtodo[v] \subseteq Instances
    BY <1>0 DEF TypeOK
  <2>2. \A v \in Consumers : wtodo'[v] # {} => wpc'[v] \in Visiting
    BY <1>5 DEF IInv, ChildHolds, Visiting
  <2>3. \A v \in Consumers : \A k \in wtodo'[v] :
          ParentOf[k] = wjob'[v] /\ status'[k] = "none" /\ k \in live'
    BY <1>1, <1>4, <1>5, <1>6, <2>1 DEF IInv, ChildHolds
  <2>4. ASSUME NEW v \in Consumers, wpc'[v] = "push"
        PROVE  /\ wchild'[v] \in Instances /\ ParentOf[wchild'[v]] = wjob'[v]
               /\ status'[wchild'[v]] = "counted"
    <3>1. CASE v = w
      BY <1>1, <1>2, <1>4, <1>5, <3>1
    <3>2. CASE v # w
      BY <1>1, <1>4, <1>5, <2>4, <3>2 DEF IInv, ChildHolds
    <3> QED BY <3>1, <3>2
  <2> QED BY <2>2, <2>3, <2>4 DEF ChildHolds
<1>11. ParentHolds'
  <2>1. \A k \in Instances : ParentOf[k] \in Jobs /\ ParentOf[k] # i
    OBVIOUS
  <2>2. \A v \in Consumers : wpc'[v] = "call" => wpc[v] = "call" /\ v # w
    BY <1>5
  <2>3. ASSUME NEW v \in Consumers, wjob[v] = wjob[w] PROVE v = w
    BY <1>2, <2>3 DEF IInv, WorkHolds, OneWorkerPerJob
  <2> QED BY <1>1, <1>2, <1>4, <2>1, <2>2, <2>3 DEF IInv, ParentHolds
<1>12. MainHolds'
  BY <1>0, <1>1, <1>2, <1>4 DEF IInv, MainHolds, TypeOK, Maps
<1>13. LiveHolds'
  BY <1>1, <1>2, <1>4 DEF IInv, LiveHolds, NoDanglingMap, Jobs, Unloaded
<1>14. DoneHolds'
  <2>1. \A k \in Instances : ParentOf[k] \in Jobs /\ ParentOf[k] # i
    OBVIOUS
  <2>2. \A j \in BaseMaps \cup {Lfg} : j # i
    BY DEF Maps
  <2> QED BY <1>1, <1>4, <1>5, <2>1, <2>2 DEF IInv, DoneHolds
<1> QED BY <1>4, <1>7, <1>8, <1>9, <1>10, <1>11, <1>12, <1>13, <1>14 DEF IInv

(* A worker queues the request it has counted.                             *)
LEMMA WorkerPushes ==
    ASSUME IInv, TypeOK', NEW w \in Consumers, WorkerPush(w), NEW i, i = wchild[w]
    PROVE  IInv'
<1> USE Sorts
<1>0. TypeOK
  BY DEF IInv
<1>1. /\ UNCHANGED <<pending, mpc, mtodo, mjob, wjob, wtodo, wchild, live, skipped>>
      /\ wpc[w] = "push" /\ wpc' = [wpc EXCEPT ![w] = "notify"]
      /\ Enqueue(i)
  BY DEF WorkerPush, counterVars, mainVars
<1>2. i \in Instances /\ ParentOf[i] = wjob[w] /\ status[i] = "counted"
  BY <1>1 DEF IInv, ChildHolds
<1>3. /\ QueueHolds' /\ UNCHANGED <<cpc, popped>>
      /\ \A k \in Jobs : status'[k] = IF k = i THEN "queued" ELSE status[k]
      /\ i \in Outstanding
  BY <1>1, <1>2, QueueGrows
<1>4. \A v \in Consumers : wpc'[v] = IF v = w THEN "notify" ELSE wpc[v]
  BY <1>0, <1>1 DEF TypeOK
<1>5. CountHolds'
  <2>1. status' = [status EXCEPT ![i] = "queued"] /\ "queued" \in Under
    BY <1>1 DEF Enqueue, Under
  <2>2. Exclusive' => Exclusive
    BY <1>1 DEF Exclusive
  <2> QED BY <1>1, <1>3, <2>1, <2>2, StillCounted
<1>6. PoppedHolds'
  <2>1. \A v \in Consumers : popped[v] \in Jobs \cup {Null}
    BY <1>0 DEF TypeOK, QueueTypeOK
  <2>2. \A v \in Consumers : wpc'[v] = "pop" <=> wpc[v] = "pop"
    BY <1>1, <1>4
  <2> QED BY <1>1, <1>2, <1>3, <2>1, <2>2 DEF IInv, PoppedHolds, HasPopped
<1>7. WorkHolds'
  <2>1. \A v \in Consumers : wjob[v] \in Jobs \cup {Null}
    BY <1>0 DEF TypeOK
  <2>2. \A v \in Consumers : wpc'[v] \in Busy <=> wpc[v] \in Busy
    BY <1>1, <1>4 DEF Busy
  <2> QED BY <1>1, <1>2, <1>3, <2>1, <2>2 DEF IInv, WorkHolds, OneWorkerPerJob
<1>8. ChildHolds'
  <2>1. \A v \in Consumers : wtodo[v] \subseteq Instances
    BY <1>0 DEF TypeOK
  <2>2. ASSUME NEW v \in Consumers, wpc'[v] = "push"
        PROVE  /\ wchild[v] \in Instances /\ ParentOf[wchild[v]] = wjob[v]
               /\ status[wchild[v]] = "counted" /\ wchild[v] # i
    <3>1. v # w /\ wpc[v] = "push"
      BY <1>4, <2>2
    <3>2. /\ wchild[v] \in Instances /\ ParentOf[wchild[v]] = wjob[v]
          /\ status[wchild[v]] = "counted"
      BY <3>1 DEF IInv, ChildHolds
    <3>3. wjob[v] # wjob[w]
      BY <1>2, <3>1 DEF IInv, WorkHolds, OneWorkerPerJob
    <3> QED BY <1>2, <3>2, <3>3
  <2>3. \A v \in Consumers : wtodo'[v] # {} => wpc'[v] \in Visiting
    BY <1>1, <1>4 DEF IInv, ChildHolds, Visiting
  <2>4. \A v \in Consumers : \A k \in wtodo'[v] :
          ParentOf[k] = wjob'[v] /\ status'[k] = "none" /\ k \in live'
    BY <1>1, <1>2, <1>3, <2>1 DEF IInv, ChildHolds
  <2>5. \A v \in Consumers : wpc'[v] = "push" =>
          /\ wchild'[v] \in Instances /\ ParentOf[wchild'[v]] = wjob'[v]
          /\ status'[wchild'[v]] = "counted"
    BY <1>1, <1>3, <2>2
  <2> QED BY <2>3, <2>4, <2>5 DEF ChildHolds
<1>9. ParentHolds'
  <2>1. \A k \in Instances : ParentOf[k] \in Jobs /\ ParentOf[k] # i
    BY <1>2
  <2>2. \A v \in Consumers : wpc'[v] = "call" => wpc[v] = "call"
    BY <1>4
  <2> QED BY <1>1, <1>2, <1>3, <2>1, <2>2 DEF IInv, ParentHolds
<1>10. MainHolds'
  BY <1>0, <1>1, <1>2, <1>3 DEF IInv, MainHolds, TypeOK, Maps
<1>11. LiveHolds'
  BY <1>1, <1>2, <1>3 DEF IInv, LiveHolds, NoDanglingMap, Jobs, Unloaded
<1>12. DoneHolds'
  <2>1. \A k \in Instances : ParentOf[k] \in Jobs /\ ParentOf[k] # i
    BY <1>2
  <2>2. \A v \in Consumers : wpc[v] = "call" => wpc'[v] = "call"
    BY <1>1, <1>4
  <2> QED BY <1>1, <1>2, <1>3, <2>1, <2>2 DEF IInv, DoneHolds
<1> QED BY <1>3, <1>5, <1>6, <1>7, <1>8, <1>9, <1>10, <1>11, <1>12 DEF IInv

(* A worker has visited all the instances.                                 *)
LEMMA WorkerEndsLoop ==
    ASSUME IInv, TypeOK', NEW w \in Consumers, WorkerAllVisited(w)
    PROVE  IInv'
<1> USE Sorts DEF qvars, counterVars, mainVars, tickVars
<1>1. /\ UNCHANGED <<qvars, counterVars, mainVars, wjob, wtodo, wchild, tickVars>>
      /\ wpc[w] = "visit" /\ wtodo[w] = {}
      /\ wpc' = [wpc EXCEPT ![w] = "finish"]
  BY DEF WorkerAllVisited
<1>2. \A v \in Consumers : wpc'[v] = IF v = w THEN "finish" ELSE wpc[v]
  BY <1>1 DEF IInv, TypeOK
<1>3. QueueHolds' /\ PoppedHolds' /\ WorkHolds' /\ MainHolds'
  BY <1>1, <1>2 DEF IInv, QueueHolds, PoppedHolds, HasPopped, WorkHolds,
                    OneWorkerPerJob, MainHolds, Busy
<1>4. ChildHolds' /\ ParentHolds'
  BY <1>1, <1>2 DEF IInv, ChildHolds, ParentHolds
<1>5. CountHolds' /\ LiveHolds'
  BY <1>1 DEF IInv, CountHolds, PendingIsExact, Outstanding, Exclusive,
              LiveHolds, NoDanglingMap, Unloaded
<1>6. DoneHolds'
  BY <1>1, <1>2 DEF IInv, DoneHolds
<1> QED BY <1>3, <1>4, <1>5, <1>6 DEF IInv

(* A worker decrements the counter.                                        *)
LEMMA WorkerFinishes ==
    ASSUME IInv, TypeOK', NEW w \in Consumers, WorkerFinish(w), NEW j, j = wjob[w]
    PROVE  IInv'
<1> USE Sorts
<1>0. TypeOK
  BY DEF IInv
<1>1. /\ UNCHANGED <<queue, cpc, popped, mpc, mtodo, mjob, wtodo, wchild, live,
                     skipped>>
      /\ wpc[w] = "finish"
      /\ pending' = pending - 1
      /\ status' = [status EXCEPT ![j] = "done"]
      /\ wjob' = [wjob EXCEPT ![w] = Null]
      /\ wpc' = [wpc EXCEPT ![w] = IF pending = 1 THEN "signal" ELSE "top"]
  BY DEF WorkerFinish, CountDown, qvars, mainVars
<1>2. /\ j \in Outstanding /\ j \in Jobs /\ j # Null /\ status[j] = "running"
      /\ wtodo[w] = {}
  BY <1>0, <1>1, BusyIsCounted
  DEF Busy, Outstanding, IInv, WorkHolds, ChildHolds, Visiting
<1>3. \A k \in Jobs : status'[k] = IF k = j THEN "done" ELSE status[k]
  BY <1>0, <1>1, <1>2, OneStatusChanges DEF JobStatus
<1>4. \A v \in Consumers :
        IF v = w THEN wpc'[v] \in {"signal", "top"} /\ wjob'[v] = Null
        ELSE wpc'[v] = wpc[v] /\ wjob'[v] = wjob[v]
  BY <1>0, <1>1 DEF TypeOK
<1>5. CountHolds'
  BY <1>1, <1>2, CountedDown
<1>6. \A v \in Consumers : v # w => wjob[v] # j
  BY <1>2 DEF IInv, WorkHolds, OneWorkerPerJob
<1>7. QueueHolds'
  <2>1. \A k \in 1..Len(queue) : queue[k] \in Jobs
    BY <1>0 DEF TypeOK, QueueTypeOK
  <2> QED BY <1>1, <1>2, <1>3, <2>1 DEF IInv, QueueHolds
<1>8. PoppedHolds'
  <2>1. \A v \in Consumers : popped[v] \in Jobs \cup {Null}
    BY <1>0 DEF TypeOK, QueueTypeOK
  <2>2. \A v \in Consumers : wpc'[v] = "pop" <=> wpc[v] = "pop"
    BY <1>1, <1>4
  <2> QED BY <1>1, <1>2, <1>3, <2>1, <2>2 DEF IInv, PoppedHolds, HasPopped
<1>9. WorkHolds'
  <2>1. \A v \in Consumers : wjob[v] \in Jobs \cup {Null}
    BY <1>0 DEF TypeOK
  <2>2. \A v \in Consumers : wjob'[v] # Null <=> wpc'[v] \in Busy
    BY <1>4 DEF IInv, WorkHolds, Busy
  <2>3. \A v \in Consumers : wjob'[v] # Null => status'[wjob'[v]] = "running"
    BY <1>3, <1>4, <1>6, <2>1 DEF IInv, WorkHolds
  <2>4. OneWorkerPerJob'
    BY <1>4 DEF IInv, WorkHolds, OneWorkerPerJob
  <2> QED BY <2>2, <2>3, <2>4 DEF WorkHolds
<1>10. ChildHolds'
  <2>1. \A v \in Consumers : wtodo[v] \subseteq Instances
    BY <1>0 DEF TypeOK
  <2> QED BY <1>1, <1>2, <1>3, <1>4, <2>1 DEF IInv, ChildHolds, Visiting
<1>11. ParentHolds'
  <2>1. \A k \in Instances : ParentOf[k] \in Jobs /\ ParentOf[k] # Null
    OBVIOUS
  <2>2. ASSUME NEW k \in Instances, status'[k] # "none" PROVE status[k] # "none"
    BY <1>2, <1>3, <2>2
  <2> QED BY <1>2, <1>3, <1>4, <2>1, <2>2 DEF IInv, ParentHolds
<1>12. MainHolds'
  BY <1>0, <1>1, <1>2, <1>3 DEF IInv, MainHolds, TypeOK
<1>13. LiveHolds'
  BY <1>1, <1>2, <1>3 DEF IInv, LiveHolds, NoDanglingMap, Jobs, Unloaded
<1>14. DoneHolds'
  <2>1. \A k \in Instances : ParentOf[k] \in Jobs /\ ParentOf[k] # Null
    OBVIOUS
  <2>2. ASSUME mpc \in Scheduling \cup Waiting, NEW k \in live \cap Instances,
               status'[k] = "none", k \notin skipped
        PROVE  /\ status'[ParentOf[k]] # "done"
               /\ \A v \in Consumers : wjob'[v] = ParentOf[k] =>
                     wpc'[v] = "call" \/ k \in wtodo[v]
    <3>1. status[k] = "none"
      BY <1>2, <1>3, <2>2
    <3>2. /\ status[ParentOf[k]] # "done"
          /\ \A v \in Consumers : wjob[v] = ParentOf[k] =>
                wpc[v] = "call" \/ k \in wtodo[v]
      BY <2>2, <3>1 DEF IInv, DoneHolds
    <3>3. ParentOf[k] # j
      BY <1>1, <1>2, <3>2
    <3> QED BY <1>3, <1>4, <2>1, <3>2, <3>3
  <2> QED BY <1>1, <1>2, <1>3, <2>2 DEF IInv, DoneHolds
<1> QED BY <1>5, <1>7, <1>8, <1>9, <1>10, <1>11, <1>12, <1>13, <1>14 DEF IInv

(* A worker wakes the main thread.                                         *)
LEMMA WorkerSignals ==
    ASSUME IInv, TypeOK', NEW w \in Consumers, WorkerSignal(w)
    PROVE  IInv'
<1> USE Sorts DEF qvars, counterVars, tickVars
<1>1. /\ UNCHANGED <<qvars, counterVars, mtodo, mjob, wjob, wtodo, wchild, tickVars>>
      /\ wpc[w] = "signal" /\ wpc' = [wpc EXCEPT ![w] = "top"]
  BY DEF WorkerSignal
<1>2. mpc' = IF mpc = "blocked" THEN "wait"
             ELSE IF mpc = "blockedLast" THEN "waitLast" ELSE mpc
  BY DEF WorkerSignal, AwakePC
<1>3. \A v \in Consumers : wpc'[v] = IF v = w THEN "top" ELSE wpc[v]
  BY <1>1 DEF IInv, TypeOK
<1>4. QueueHolds' /\ PoppedHolds' /\ WorkHolds' /\ MainHolds'
  BY <1>1, <1>2, <1>3 DEF IInv, QueueHolds, PoppedHolds, HasPopped, WorkHolds,
                          OneWorkerPerJob, MainHolds, Busy
<1>5. ChildHolds' /\ ParentHolds'
  BY <1>1, <1>3 DEF IInv, ChildHolds, ParentHolds, Visiting
<1>6. CountHolds' /\ LiveHolds'
  BY <1>1, <1>2 DEF IInv, CountHolds, PendingIsExact, Outstanding, Exclusive,
                    LiveHolds, NoDanglingMap, Unloaded
<1>7. DoneHolds'
  BY <1>1, <1>2, <1>3 DEF IInv, DoneHolds, Scheduling, Waiting
<1> QED BY <1>4, <1>5, <1>6, <1>7 DEF IInv

----------------------------------------------------------------------------
(* The invariant, and what it implies.                                     *)

(* The strengthened invariant holds initially ...                          *)
LEMMA InvInit == Init => IInv
<1> SUFFICES ASSUME Init PROVE IInv
  OBVIOUS
<1> USE QueueAssumption, UpdaterAssumption, Sorts DEF Init, QueueInit
<1>1. TypeOK
  <2>1. QueueTypeOK
    <3>1. << >> \in Seq(Values)
      OBVIOUS
    <3>2. cpc \in [Consumers -> QueuePC] /\ popped \in [Consumers -> Values \cup {Null}]
      BY DEF QueuePC
    <3> QED BY <3>1, <3>2 DEF QueueTypeOK
  <2>2. status \in [Jobs -> JobStatus] /\ wpc \in [Consumers -> WorkerPC]
    BY DEF JobStatus, WorkerPC
  <2>3. /\ wjob \in [Consumers -> Jobs \cup {Null}]
        /\ wtodo \in [Consumers -> SUBSET Instances]
        /\ wchild \in [Consumers -> Instances \cup {Null}]
    OBVIOUS
  <2>4. ticks \in 0..MaxTicks /\ mpc \in MainPC /\ live \subseteq Maps
    BY DEF MainPC, Maps
  <2> QED BY <2>1, <2>2, <2>3, <2>4 DEF TypeOK
<1>2. QueueHolds /\ PoppedHolds /\ WorkHolds
  BY DEF QueueHolds, PoppedHolds, HasPopped, WorkHolds, OneWorkerPerJob, Busy
<1>3. ChildHolds /\ ParentHolds /\ MainHolds
  BY DEF ChildHolds, ParentHolds, MainHolds
<1>4. CountHolds
  <2>1. Outstanding = {}
    BY DEF Outstanding
  <2> QED BY <2>1, FS_EmptySet DEF CountHolds, PendingIsExact
<1>5. LiveHolds /\ DoneHolds
  BY DEF LiveHolds, NoDanglingMap, Jobs, DoneHolds, Scheduling, Waiting
<1> QED BY <1>1, <1>2, <1>3, <1>4, <1>5 DEF IInv

(* ... and every step preserves it.                                        *)
LEMMA InvStep == IInv /\ [Next]_vars => IInv'
<1> SUFFICES ASSUME IInv, [Next]_vars PROVE IInv'
  OBVIOUS
<1>0. TypeOK'
  BY TypeStep
<1>1. CASE UNCHANGED vars
  BY <1>0, <1>1, QuietStep
  DEF vars, qvars, uvars, counterVars, mainVars, workerVars, tickVars, IInv,
      CountHolds, Exclusive, Unloaded, DoneHolds
<1>2. ASSUME NEW i \in Instances, CreateInstance(i) PROVE IInv'
  BY <1>0, <1>2, InstancesAppear
<1>3. CASE BeginTick
  BY <1>0, <1>3, TicksBegin
<1>4. CASE MainTick
  <2>1. ASSUME NEW j \in Jobs, MainSchedule(j) PROVE IInv'
    BY <1>0, <2>1, MainSchedules
  <2>2. CASE MainPush
    BY <1>0, <2>2, MainPushes
  <2>3. CASE MainNotify
    BY <1>0, <2>3, MainNotifies
  <2> QED BY <1>0, <1>4, <2>1, <2>2, <2>3, MainMoves DEF MainTick
<1>5. CASE UnloadMaps
  BY <1>0, <1>5, MapsDisappear
<1>6. CASE MainShutdown
  BY <1>0, <1>6, MainMoves, MainCancels DEF MainShutdown
<1>7. CASE MainSpuriousWakeup
  BY <1>0, <1>7, MainMoves
<1>8. ASSUME NEW w \in Consumers, Worker(w) PROVE IInv'
  <2>1. CASE WorkerTop(w)
    BY <1>0, <2>1, WorkerTops
  <2>2. CASE WorkerInQueue(w)
    BY <1>0, <2>2, WorkerWaits, WorkerTakes
  <2>3. CASE WorkerPopped(w)
    BY <1>0, <2>3, WorkerStarts
  <2>4. CASE WorkerUpdate(w)
    BY <1>0, <2>4, WorkerUpdates
  <2>5. CASE Visit(w)
    BY <1>0, <2>5, WorkerDestroys, WorkerSkips, WorkerSchedules DEF Visit
  <2>6. CASE WorkerPush(w)
    BY <1>0, <2>6, WorkerPushes
  <2>7. CASE WorkerNotify(w)
    BY <1>0, <2>7, WorkerNotifies
  <2>8. CASE WorkerAllVisited(w)
    BY <1>0, <2>8, WorkerEndsLoop
  <2>9. CASE WorkerFinish(w)
    BY <1>0, <2>9, WorkerFinishes
  <2>10. CASE WorkerSignal(w)
    BY <1>0, <2>10, WorkerSignals
  <2> QED BY <1>8, <2>1, <2>2, <2>3, <2>4, <2>5, <2>6, <2>7, <2>8, <2>9, <2>10
          DEF Worker
<1>9. ASSUME NEW w \in Consumers, WorkerSpuriousWakeup(w) PROVE IInv'
  BY <1>0, <1>9, SpuriousWakeups
<1> QED
  BY <1>1, <1>2, <1>3, <1>4, <1>5, <1>6, <1>7, <1>8, <1>9 DEF Next, Terminated

(* The strengthened invariant holds of every behaviour.                    *)
THEOREM Invariant == Spec => []IInv
  BY InvInit, InvStep, PTL DEF Spec

(* Every variable keeps its type; above all pending_requests, which is     *)
(* decremented without a test, never becomes negative.                     *)
THEOREM TypeCorrect == Spec => []TypeOK
<1>1. IInv => TypeOK
  BY DEF IInv
<1> QED BY <1>1, Invariant, PTL

(* pending_requests counts exactly the requests under way.                 *)
THEOREM CounterExact == Spec => []PendingIsExact
<1>1. IInv => PendingIsExact
  BY DEF IInv, CountHolds
<1> QED BY <1>1, Invariant, PTL

(* When wait() has returned nobody is in an update, or can get into one.   *)
THEOREM Exclusion == Spec => []MapsAreExclusive
<1>1. IInv => MapsAreExclusive
  <2> SUFFICES ASSUME IInv, Exclusive
               PROVE  /\ queue = << >>
                      /\ \A w \in Consumers :
                            wjob[w] = Null /\ (wpc[w] = "pop" => popped[w] = Null)
    BY DEF MapsAreExclusive
  <2>1. ASSUME NEW w \in Consumers, wpc[w] = "pop" PROVE popped[w] = Null
    <3>1. cpc[w] # "out" /\ cpc[w] \in QueuePC
      BY <2>1 DEF IInv, PoppedHolds, TypeOK, QueueTypeOK
    <3>2. ~HasPopped(w)
      BY ExclusiveIsIdle
    <3> QED BY <3>1, <3>2 DEF IInv, PoppedHolds, HasPopped, QueuePC
  <2> QED BY <2>1, ExclusiveIsIdle
<1> QED BY <1>1, Invariant, PTL

(* No two workers update the same map at once.                             *)
THEOREM Unshared == Spec => []OneWorkerPerJob
<1>1. IInv => OneWorkerPerJob
  BY DEF IInv, WorkHolds
<1> QED BY <1>1, Invariant, PTL

(* No request under way refers to a map that has been destroyed.           *)
THEOREM NeverDangling == Spec => []NoDanglingMap
<1>1. IInv => NoDanglingMap
  BY DEF IInv, LiveHolds
<1> QED BY <1>1, Invariant, PTL

(* Before DelayedUpdate every map has been updated.                        *)
THEOREM AllUpdated == Spec => []EveryMapUpdated
<1>1. IInv => EveryMapUpdated
  <2> SUFFICES ASSUME IInv, mpc = "delayed", NEW j \in live \cup {Lfg},
                      j \notin skipped
               PROVE  status[j] = "done"
    BY DEF EveryMapUpdated
  <2> USE Sorts
  <2>1. \A k \in Jobs : status[k] \in {"none", "done"}
    BY ExclusiveIsIdle DEF Exclusive, Outstanding, IInv, TypeOK, JobStatus
  <2>2. \A k \in BaseMaps \cup {Lfg} : status[k] = "done"
    BY <2>1 DEF IInv, DoneHolds, Waiting
  <2>3. CASE j \in Instances
    <3>1. status[ParentOf[j]] = "done"
      BY <2>2, <2>3
    <3> QED BY <2>1, <2>3, <3>1 DEF IInv, DoneHolds, Waiting
  <2>4. CASE j \notin Instances
    <3>1. j \in BaseMaps \cup {Lfg}
      BY <2>4 DEF IInv, TypeOK, Maps
    <3> QED BY <2>2, <3>1
  <2> QED BY <2>3, <2>4
<1> QED BY <1>1, Invariant, PTL

----------------------------------------------------------------------------
(* MapUpdater implements TickBarrier.                                      *)

(* A step that starts and finishes no job, and leaves the main thread on   *)
(* its side of wait(), is a stutter of the barrier.                        *)
LEMMA BarrierStutter ==
    ASSUME UNCHANGED wjob, Exclusive' <=> Exclusive,
           \A k \in Jobs : status'[k] = "done" <=> status[k] = "done"
    PROVE  UNCHANGED TB!tbvars
<1>1. {k \in Jobs : status'[k] = "done"} = {k \in Jobs : status[k] = "done"}
  OBVIOUS
<1> QED BY <1>1 DEF TB!tbvars

(* ... as is one that takes a single job from one status to another short  *)
(* of "done".                                                              *)
LEMMA PassingOnStutters ==
    ASSUME TypeOK, UNCHANGED wjob, Exclusive' <=> Exclusive, NEW j \in Jobs,
           status[j] # "done", NEW s \in JobStatus, s # "done",
           status' = [status EXCEPT ![j] = s]
    PROVE  UNCHANGED TB!tbvars
  BY OneStatusChanges, BarrierStutter

(* A worker that calls a request starts the job.                           *)
LEMMA BarrierStart ==
    ASSUME IInv, NEW w \in Consumers, WorkerPopped(w), NEW j, j = popped[w],
           ~UNCHANGED wjob
    PROVE  TB!Start(j) /\ j \in Jobs
<1> USE Sorts
<1>0. TypeOK
  BY DEF IInv
<1>1. /\ wjob' = [wjob EXCEPT ![w] = j] /\ status' = [status EXCEPT ![j] = "running"]
      /\ j # Null /\ cpc[w] = "returned" /\ wpc[w] = "pop" /\ mpc' = mpc
  BY DEF WorkerPopped, LeaveWaitAndPop, mainVars
<1>2. j \in Jobs /\ status[j] = "taken" /\ wjob[w] = Null
  BY <1>0, <1>1 DEF TypeOK, QueueTypeOK, IInv, PoppedHolds, HasPopped, WorkHolds, Busy
<1>3. ~Exclusive /\ ~Exclusive'
  BY <1>1, <1>2, ExclusiveIsIdle DEF HasPopped, Exclusive
<1>4. \A k \in Jobs : status'[k] = IF k = j THEN "running" ELSE status[k]
  BY <1>0, <1>1, <1>2, OneStatusChanges DEF JobStatus
<1>5. {k \in Jobs : status'[k] = "done"} = {k \in Jobs : status[k] = "done"}
  BY <1>2, <1>4
<1>6. j \notin {wjob[v] : v \in Consumers}
  BY <1>2 DEF IInv, WorkHolds
<1>7. {wjob'[v] : v \in Consumers} \ {Null}
        = ({wjob[v] : v \in Consumers} \ {Null}) \cup {j}
  <2>1. \A v \in Consumers : wjob'[v] = IF v = w THEN j ELSE wjob[v]
    BY <1>0, <1>1 DEF TypeOK
  <2> QED BY <1>1, <1>2, <2>1
<1> QED BY <1>2, <1>3, <1>5, <1>6, <1>7 DEF TB!Start

(* A worker that decrements the counter finishes the job.                  *)
LEMMA BarrierFinish ==
    ASSUME IInv, NEW w \in Consumers, WorkerFinish(w), NEW j, j = wjob[w]
    PROVE  TB!Finish(j) /\ j \in Jobs
<1> USE Sorts
<1>0. TypeOK
  BY DEF IInv
<1>1. /\ wjob' = [wjob EXCEPT ![w] = Null] /\ status' = [status EXCEPT ![j] = "done"]
      /\ wpc[w] = "finish" /\ mpc' = mpc
  BY DEF WorkerFinish, CountDown, mainVars
<1>2. j \in Jobs /\ j # Null
  BY <1>0, <1>1 DEF TypeOK, IInv, WorkHolds, Busy
<1>3. \A k \in Jobs : status'[k] = IF k = j THEN "done" ELSE status[k]
  BY <1>0, <1>1, <1>2, OneStatusChanges DEF JobStatus
<1>4. {k \in Jobs : status'[k] = "done"} = {k \in Jobs : status[k] = "done"} \cup {j}
  BY <1>2, <1>3
<1>5. {wjob'[v] : v \in Consumers} \ {Null}
        = ({wjob[v] : v \in Consumers} \ {Null}) \ {j}
  <2>1. \A v \in Consumers : wjob'[v] = IF v = w THEN Null ELSE wjob[v]
    BY <1>0, <1>1 DEF TypeOK
  <2>2. \A v \in Consumers : wjob[v] = j => v = w
    BY <1>2 DEF IInv, WorkHolds, OneWorkerPerJob
  <2> QED BY <2>1, <2>2
<1>6. j \in {wjob[v] : v \in Consumers} \ {Null}
  BY <1>2
<1>7. Exclusive' <=> Exclusive
  BY <1>1 DEF Exclusive
<1> QED BY <1>2, <1>4, <1>5, <1>6, <1>7 DEF TB!Finish

(* wait() returns when the barrier may fall.                               *)
LEMMA BarrierWaitOver ==
    ASSUME IInv, MainWaitOver
    PROVE  TB!EndUpdates \/ UNCHANGED TB!tbvars
<1> USE Sorts
<1>1. Exclusive' /\ UNCHANGED <<wjob, status>> /\ pending = 0
  BY DEF MainWaitOver, WaitPC, AfterWait, Exclusive, workerVars, tickVars
<1>2. {wjob[w] : w \in Consumers} \ {Null} = {}
  <2>1. ASSUME NEW w \in Consumers PROVE wjob[w] = Null
    BY <1>1, BusyIsCounted DEF IInv, WorkHolds
  <2> QED BY <2>1
<1>3. CASE Exclusive
  BY <1>1, <1>3, BarrierStutter
<1>4. CASE ~Exclusive
  BY <1>1, <1>2, <1>4 DEF TB!EndUpdates
<1> QED BY <1>3, <1>4

(* Every step is a step of the barrier, or a stutter.                      *)
LEMMA BarrierStep ==
    ASSUME IInv, [Next]_vars
    PROVE  [TB!Next]_(TB!tbvars)
<1> USE Sorts
<1> USE DEF workerVars, tickVars, mainVars, qvars, Exclusive
<1>0. TypeOK
  BY DEF IInv
<1>1. CASE UNCHANGED vars
  BY <1>1, BarrierStutter DEF vars, uvars
<1>2. ASSUME NEW i \in Instances, CreateInstance(i) PROVE UNCHANGED TB!tbvars
  BY <1>2, BarrierStutter DEF CreateInstance
<1>3. CASE BeginTick
  <2>1. Exclusive /\ ~Exclusive' /\ UNCHANGED wjob
    BY <1>3 DEF BeginTick
  <2>2. {k \in Jobs : status'[k] = "done"} = {}
    BY <1>3 DEF BeginTick
  <2>3. TB!BeginTick
    BY <2>1, <2>2 DEF TB!BeginTick
  <2> QED BY <2>3 DEF TB!Next
<1>4. ASSUME NEW j \in Jobs, MainSchedule(j) PROVE UNCHANGED TB!tbvars
  <2>1. /\ status' = [status EXCEPT ![j] = "counted"] /\ UNCHANGED wjob
        /\ Exclusive' <=> Exclusive
        /\ status[j] = "none"
    BY <1>4 DEF MainSchedule, CountUp, IInv, MainHolds
  <2> QED BY <1>0, <2>1, PassingOnStutters DEF JobStatus
<1>5. CASE MainPush
  <2>1. /\ status' = [status EXCEPT ![mjob] = "queued"] /\ UNCHANGED wjob
        /\ Exclusive' <=> Exclusive
        /\ status[mjob] = "counted" /\ mjob \in Jobs
    BY <1>5 DEF MainPush, Enqueue, IInv, MainHolds
  <2> QED BY <1>0, <2>1, PassingOnStutters DEF JobStatus
<1>6. CASE MainNotify \/ MainAllScheduled \/ MainDelayedUpdate
  BY <1>6, BarrierStutter DEF MainNotify, MainAllScheduled, MainDelayedUpdate
<1>7. CASE MainWaitOver
  BY <1>7, BarrierWaitOver DEF TB!Next
<1>8. CASE MainWaitTest
  <2>1. /\ mpc' = IF mpc = "wait" THEN "blocking" ELSE "blockingLast"
        /\ mpc \in {"wait", "waitLast"} /\ UNCHANGED <<wjob, status>>
    BY <1>8 DEF MainWaitTest, WaitPC, BlockingPC
  <2> QED BY <2>1, BarrierStutter
<1>9. CASE MainWaitBlock
  <2>1. /\ mpc' = IF mpc = "blocking" THEN "blocked" ELSE "blockedLast"
        /\ mpc \in {"blocking", "blockingLast"} /\ UNCHANGED <<wjob, status>>
    BY <1>9 DEF MainWaitBlock, BlockedPC
  <2> QED BY <2>1, BarrierStutter
<1>10. CASE MainSpuriousWakeup
  <2>1. /\ mpc' = IF mpc = "blocked" THEN "wait" ELSE "waitLast"
        /\ mpc \in {"blocked", "blockedLast"} /\ UNCHANGED <<wjob, status>>
    BY <1>10 DEF MainSpuriousWakeup, AwakePC
  <2> QED BY <2>1, BarrierStutter
<1>11. CASE UnloadMaps \/ MainShutdown
  BY <1>11, BarrierStutter DEF UnloadMaps, MainShutdown, SetToken, MainCancel, MainJoin
<1>12. ASSUME NEW w \in Consumers, WorkerTop(w) \/ WorkerUpdate(w) \/ WorkerNotify(w)
                                   \/ WorkerAllVisited(w)
       PROVE  UNCHANGED TB!tbvars
  <2>1. UNCHANGED <<wjob, status, mpc>>
    BY <1>12 DEF WorkerTop, WorkerUpdate, WorkerNotify, WorkerAllVisited
  <2> QED BY <2>1, BarrierStutter
<1>13. ASSUME NEW w \in Consumers, WorkerInQueue(w) PROVE UNCHANGED TB!tbvars
  <2>1. UNCHANGED <<wjob, mpc>>
    BY <1>13 DEF WorkerInQueue
  <2>2. CASE ReturnFront(w)
    <3>1. PICK j : j = Head(queue)
      OBVIOUS
    <3>2. queue \in Seq(Jobs) /\ queue # << >> /\ cpc[w] = "lock"
      BY <1>0, <2>2 DEF TypeOK, QueueTypeOK, ReturnFront
    <3>3. j \in Jobs /\ j = queue[1] /\ 1 \in 1..Len(queue)
      BY <3>1, <3>2
    <3>4. status[j] = "queued" /\ popped[w] = Null
      BY <3>2, <3>3 DEF IInv, QueueHolds, PoppedHolds
    <3>5. popped'[w] = j
      BY <1>0, <2>2, <3>1 DEF ReturnFront, TypeOK, QueueTypeOK
    <3>6. status' = [status EXCEPT ![j] = "taken"]
      BY <1>13, <3>3, <3>4, <3>5 DEF WorkerInQueue
    <3> QED BY <1>0, <2>1, <3>3, <3>4, <3>6, PassingOnStutters DEF JobStatus
  <2>3. CASE ~ReturnFront(w)
    <3>1. UNCHANGED popped
      BY <1>13, <2>3 DEF WorkerInQueue, WaitAndPop, TestFalse, Block, ReturnEmpty
    <3>2. UNCHANGED status
      BY <1>13, <3>1 DEF WorkerInQueue
    <3> QED BY <2>1, <3>2, BarrierStutter
  <2> QED BY <2>2, <2>3
<1>14. ASSUME NEW w \in Consumers, WorkerSpuriousWakeup(w) PROVE UNCHANGED TB!tbvars
  BY <1>14, BarrierStutter DEF WorkerSpuriousWakeup, uvars
<1>15. ASSUME NEW w \in Consumers, WorkerPopped(w) PROVE [TB!Next]_(TB!tbvars)
  <2>1. CASE UNCHANGED wjob
    <3>1. UNCHANGED <<status, mpc>>
      <4>1. UNCHANGED mpc
        BY <1>15 DEF WorkerPopped
      <4>2. ASSUME popped[w] # Null, wjob' = [wjob EXCEPT ![w] = popped[w]],
                   wpc[w] = "pop"
            PROVE  FALSE
        <5>1. wjob[w] = Null /\ wjob'[w] = popped[w]
          BY <1>0, <4>2 DEF IInv, WorkHolds, Busy, TypeOK
        <5> QED BY <2>1, <4>2, <5>1
      <4> QED BY <1>15, <4>1, <4>2 DEF WorkerPopped
    <3> QED BY <2>1, <3>1, BarrierStutter
  <2>2. CASE ~UNCHANGED wjob
    BY <1>15, <2>2, BarrierStart DEF TB!Next
  <2> QED BY <2>1, <2>2
<1>16. ASSUME NEW w \in Consumers, Visit(w) PROVE UNCHANGED TB!tbvars
  <2>1. PICK i \in Instances : \/ WorkerDestroyInstance(w, i)
                               \/ WorkerSkipInstance(w, i)
                               \/ WorkerSchedule(w, i)
    BY <1>16 DEF Visit
  <2>2. CASE WorkerDestroyInstance(w, i) \/ WorkerSkipInstance(w, i)
    BY <2>2, BarrierStutter DEF WorkerDestroyInstance, WorkerSkipInstance
  <2>3. CASE WorkerSchedule(w, i)
    <3>1. /\ status' = [status EXCEPT ![i] = "counted"] /\ UNCHANGED <<wjob, mpc>>
          /\ status[i] = "none"
      BY <2>3 DEF WorkerSchedule, CountUp, IInv, ChildHolds
    <3> QED BY <1>0, <3>1, PassingOnStutters DEF JobStatus
  <2> QED BY <2>1, <2>2, <2>3
<1>17. ASSUME NEW w \in Consumers, WorkerPush(w) PROVE UNCHANGED TB!tbvars
  <2>1. PICK i : i = wchild[w]
    OBVIOUS
  <2>2. /\ status' = [status EXCEPT ![i] = "queued"] /\ UNCHANGED <<wjob, mpc>>
        /\ status[i] = "counted" /\ i \in Jobs
    BY <1>17, <2>1 DEF WorkerPush, Enqueue, IInv, ChildHolds
  <2> QED BY <1>0, <2>2, PassingOnStutters DEF JobStatus
<1>18. ASSUME NEW w \in Consumers, WorkerFinish(w) PROVE [TB!Next]_(TB!tbvars)
  BY <1>18, BarrierFinish DEF TB!Next
<1>19. ASSUME NEW w \in Consumers, WorkerSignal(w) PROVE UNCHANGED TB!tbvars
  <2>1. mpc' = IF mpc = "blocked" THEN "wait"
               ELSE IF mpc = "blockedLast" THEN "waitLast" ELSE mpc
    BY <1>19 DEF WorkerSignal, AwakePC
  <2>2. UNCHANGED <<wjob, status>>
    BY <1>19 DEF WorkerSignal
  <2> QED BY <2>1, <2>2, BarrierStutter
<1>20. ASSUME NEW w \in Consumers, Worker(w) PROVE [TB!Next]_(TB!tbvars)
  BY <1>12, <1>13, <1>15, <1>16, <1>17, <1>18, <1>19, <1>20 DEF Worker
<1> QED
  BY <1>1, <1>2, <1>3, <1>4, <1>5, <1>6, <1>7, <1>8, <1>9, <1>10, <1>11, <1>14,
     <1>20
  DEF Next, MainTick, Terminated

(* The updater implements the tick barrier: in a tick each job runs at     *)
(* most once, and the world thread goes on only when none is running.      *)
THEOREM Refinement == Spec => ImplementsBarrier
<1>1. Init => TB!Init
  <2> SUFFICES ASSUME Init PROVE TB!Init
    OBVIOUS
  <2>1. {wjob[w] : w \in Consumers} \ {Null} = {}
    BY DEF Init
  <2>2. {j \in Jobs : status[j] = "done"} = {}
    BY DEF Init
  <2> QED BY <2>1, <2>2 DEF Init, TB!Init, Exclusive
<1>2. IInv /\ [Next]_vars => [TB!Next]_(TB!tbvars)
  BY BarrierStep
<1> QED BY <1>1, <1>2, Invariant, PTL DEF Spec, ImplementsBarrier, TB!Spec
============================================================================
