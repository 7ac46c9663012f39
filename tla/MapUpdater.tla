----------------------------- MODULE MapUpdater -----------------------------
(***************************************************************************)
(* The world tick and its worker threads: MapUpdater, the loop of          *)
(* MapMgr::Update that feeds it, MapInstanced::Update, which schedules     *)
(* more work from inside a worker, and MapMgr::UnloadAll at shutdown.      *)
(* What a map does in its own Update is outside the module: an update is   *)
(* an interval in which the map must not be touched by anyone else.        *)
(***************************************************************************)
EXTENDS PCQueue, FiniteSets

CONSTANTS
    BaseMaps,       \* the keys of MapMgr::i_maps
    Instances,      \* instances a MapInstanced may hold
    ParentOf,       \* the base map of each instance
    Lfg,            \* the LFGUpdateRequest
    MaxTicks        \* bound on the ticks before shutdown

Maps == BaseMaps \cup Instances
Jobs == Maps \cup {Lfg}

ASSUME UpdaterAssumption ==
    /\ IsFiniteSet(Jobs)
    /\ Values = Jobs
    /\ Lfg \notin Maps
    /\ BaseMaps \cap Instances = {}
    /\ ParentOf \in [Instances -> BaseMaps]
    /\ MaxTicks \in Nat

VARIABLES
    pending,        \* pending_requests
    token,          \* _cancelationToken
    mlock,          \* TRUE while the main thread holds _lock across two steps
    mpc,            \* where the main thread is
    mtodo,          \* what MapMgr::Update has still to schedule
    mjob,           \* the request the main thread is scheduling
    wpc,            \* where each worker thread is
    wjob,           \* the request a worker calls
    wtodo,          \* the instances MapInstanced::Update has still to visit
    wchild,         \* the instance a worker is scheduling
    live,           \* the maps that exist
    ticks,          \* world ticks begun so far
    status,         \* history: how far each job has come in this tick
    skipped         \* history: instances not updated as DestroyInstance failed

counterVars == <<pending, token, mlock>>
mainVars == <<mpc, mtodo, mjob>>
workerVars == <<wpc, wjob, wtodo, wchild>>
tickVars == <<live, ticks, status, skipped>>
uvars == <<counterVars, mainVars, workerVars, tickVars>>
vars == <<qvars, uvars>>

MainPC == {"idle", "schedule", "push", "notify", "wait", "blocking", "blocked",
           "delayed", "unload", "waitLast", "blockingLast", "blockedLast",
           "cancel", "join", "stopped"}

WorkerPC == {"top", "pop", "call", "visit", "push", "notify", "finish",
             "signal", "exited"}

(* A request is counted by fetch_add, then queued by Push, then taken by a *)
(* worker, which runs it and leaves it done by fetch_sub.                  *)
JobStatus == {"none", "counted", "queued", "taken", "running", "done"}

TypeOK ==
    /\ QueueTypeOK
    /\ pending \in Nat
    /\ token \in BOOLEAN
    /\ mlock \in BOOLEAN
    /\ mpc \in MainPC
    /\ mtodo \subseteq BaseMaps \cup {Lfg}
    /\ mjob \in Jobs \cup {Null}
    /\ wpc \in [Consumers -> WorkerPC]
    /\ wjob \in [Consumers -> Jobs \cup {Null}]
    /\ wtodo \in [Consumers -> SUBSET Instances]
    /\ wchild \in [Consumers -> Instances \cup {Null}]
    /\ live \subseteq Maps
    /\ ticks \in 0..MaxTicks
    /\ status \in [Jobs -> JobStatus]
    /\ skipped \subseteq Instances

(* After MapMgr::Initialize and the creation of the base maps; the worker  *)
(* threads have been started.                                              *)
Init ==
    /\ QueueInit
    /\ pending = 0
    /\ token = FALSE
    /\ mlock = FALSE
    /\ mpc = "idle"
    /\ mtodo = {}
    /\ mjob = Null
    /\ wpc = [w \in Consumers |-> "top"]
    /\ wjob = [w \in Consumers |-> Null]
    /\ wtodo = [w \in Consumers |-> {}]
    /\ wchild = [w \in Consumers |-> Null]
    /\ live = BaseMaps
    /\ ticks = 0
    /\ status = [j \in Jobs |-> "none"]
    /\ skipped = {}

Children(m) == {i \in Instances : ParentOf[i] = m}

----------------------------------------------------------------------------
(* schedule_task and update_finished, the two operations on the counter.   *)

(* Variant: the request is not counted.                                    *)
CountForgotten(j) ==
    /\ status' = [status EXCEPT ![j] = "counted"]
    /\ UNCHANGED pending

(* fetch_add; the request is in no queue yet.                              *)
CountUp(j) ==
    /\ pending' = pending + 1
    /\ status' = [status EXCEPT ![j] = "counted"]

Enqueue(j) ==
    /\ PushLocked(j)
    /\ status' = [status EXCEPT ![j] = "queued"]

(* fetch_sub: only the step that brings the counter to zero goes on to     *)
(* signal the main thread.                                                 *)
CountDown(w) ==
    /\ pending' = pending - 1
    /\ status' = [status EXCEPT ![wjob[w]] = "done"]
    /\ wpc' = [wpc EXCEPT ![w] = IF pending = 1 THEN "signal" ELSE "top"]

----------------------------------------------------------------------------
(* The main thread.                                                        *)

(* Between two ticks the world thread lets players enter instances.        *)
CreateInstance(i) ==
    /\ mpc = "idle"
    /\ i \notin live
    /\ live' = live \cup {i}
    /\ UNCHANGED <<qvars, counterVars, mainVars, workerVars, ticks, status,
                   skipped>>

BeginTick ==
    /\ mpc = "idle" /\ ticks < MaxTicks
    /\ mpc' = "schedule"
    /\ mtodo' = BaseMaps \cup {Lfg}
    /\ ticks' = ticks + 1
    /\ status' = [j \in Jobs |-> "none"]
    /\ skipped' = {}
    /\ UNCHANGED <<qvars, counterVars, mjob, workerVars, live>>

(* Variant: a request may be scheduled more than once.                     *)
MainScheduleAgain(j) ==
    /\ mpc = "schedule"
    /\ j \in mtodo
    /\ CountUp(j)
    /\ mjob' = j
    /\ mpc' = "push"
    /\ UNCHANGED <<qvars, token, mlock, mtodo, workerVars, live, ticks, skipped>>

(* schedule_lfg_update comes first, then schedule_update for every base    *)
(* map in the order of an unordered_map.                                   *)
MainSchedule(j) ==
    /\ mpc = "schedule"
    /\ j \in mtodo
    /\ Lfg \in mtodo => j = Lfg
    /\ CountUp(j)
    /\ mtodo' = mtodo \ {j}
    /\ mjob' = j
    /\ mpc' = "push"
    /\ UNCHANGED <<qvars, token, mlock, workerVars, live, ticks, skipped>>

MainPush ==
    /\ mpc = "push"
    /\ Enqueue(mjob)
    /\ mpc' = "notify"
    /\ UNCHANGED <<counterVars, mtodo, mjob, workerVars, live, ticks,
                   skipped>>

MainNotify ==
    /\ mpc = "notify"
    /\ NotifyOne
    /\ mjob' = Null
    /\ mpc' = "schedule"
    /\ UNCHANGED <<counterVars, mtodo, workerVars, tickVars>>

MainAllScheduled ==
    /\ mpc = "schedule" /\ mtodo = {}
    /\ mpc' = "wait"
    /\ UNCHANGED <<qvars, counterVars, mtodo, mjob, workerVars, tickVars>>

(* wait() is entered at the end of the scheduling and again, with the      *)
(* token set, in deactivate(); it leads to a different place each time.    *)
WaitPC     == {"wait", "waitLast"}
BlockingPC == [wait |-> "blocking", waitLast |-> "blockingLast"]
BlockedPC  == [blocking |-> "blocked", blockingLast |-> "blockedLast"]
AwakePC    == [blocked |-> "wait", blockedLast |-> "waitLast"]
AfterWait  == [wait |-> "delayed", waitLast |-> "cancel"]

(* Variant: wait for the queue, not for the requests.                      *)
MainWaitOverQueue ==
    /\ mpc \in WaitPC
    /\ queue = << >>
    /\ mpc' = AfterWait[mpc]
    /\ UNCHANGED <<qvars, counterVars, mtodo, mjob, workerVars, tickVars>>

(* wait() returns.                                                         *)
MainWaitOver ==
    /\ mpc \in WaitPC
    /\ pending = 0
    /\ mpc' = AfterWait[mpc]
    /\ UNCHANGED <<qvars, counterVars, mtodo, mjob, workerVars, tickVars>>

(* The predicate is false; _lock stays held until the thread blocks.       *)
MainWaitTest ==
    /\ mpc \in WaitPC
    /\ pending # 0
    /\ mlock' = TRUE
    /\ mpc' = BlockingPC[mpc]
    /\ UNCHANGED <<qvars, pending, token, mtodo, mjob, workerVars, tickVars>>

MainWaitBlock ==
    /\ mpc \in DOMAIN BlockedPC
    /\ mlock' = FALSE
    /\ mpc' = BlockedPC[mpc]
    /\ UNCHANGED <<qvars, pending, token, mtodo, mjob, workerVars, tickVars>>

MainSpuriousWakeup ==
    /\ mpc \in DOMAIN AwakePC
    /\ mpc' = AwakePC[mpc]
    /\ UNCHANGED <<qvars, counterVars, mtodo, mjob, workerVars, tickVars>>

(* The DelayedUpdate loop of MapMgr::Update, over all maps and instances.  *)
MainDelayedUpdate ==
    /\ mpc = "delayed"
    /\ mpc' = "idle"
    /\ UNCHANGED <<qvars, counterVars, mtodo, mjob, workerVars, tickVars>>

(* MapMgr::UnloadAll, once the world loop has ended: delete every map, ... *)
UnloadMaps ==
    /\ mpc = "idle"
    /\ live' = {}
    /\ mpc' = "unload"
    /\ UNCHANGED <<qvars, counterVars, mtodo, mjob, workerVars, ticks, status,
                   skipped>>

(* ... then deactivate(): set the token, wait, cancel the queue, join.     *)
SetToken ==
    /\ mpc = "unload"
    /\ token' = TRUE
    /\ mpc' = "waitLast"
    /\ UNCHANGED <<qvars, pending, mlock, mtodo, mjob, workerVars, tickVars>>

MainCancel ==
    /\ mpc = "cancel"
    /\ CancelQueue
    /\ mpc' = "join"
    /\ UNCHANGED <<counterVars, mtodo, mjob, workerVars, tickVars>>

MainJoin ==
    /\ mpc = "join"
    /\ \A w \in Consumers : wpc[w] = "exited"
    /\ mpc' = "stopped"
    /\ UNCHANGED <<qvars, counterVars, mtodo, mjob, workerVars, tickVars>>

----------------------------------------------------------------------------
(* A worker thread.                                                        *)

(* The test of the while loop.                                             *)
WorkerTop(w) ==
    /\ wpc[w] = "top"
    /\ \/ /\ token
          /\ wpc' = [wpc EXCEPT ![w] = "exited"]
          /\ UNCHANGED qvars
       \/ /\ ~token
          /\ CallWaitAndPop(w)
          /\ wpc' = [wpc EXCEPT ![w] = "pop"]
    /\ UNCHANGED <<counterVars, mainVars, wjob, wtodo, wchild, tickVars>>

WorkerInQueue(w) ==
    /\ wpc[w] = "pop"
    /\ WaitAndPop(w)
    /\ status' = IF popped'[w] # popped[w]
                 THEN [status EXCEPT ![popped'[w]] = "taken"] ELSE status
    /\ UNCHANGED <<counterVars, mainVars, workerVars, live, ticks, skipped>>

WorkerSpuriousWakeup(w) ==
    /\ SpuriousWakeup(w)
    /\ UNCHANGED uvars

(* A request is called only if the token is still clear.  Called or not,   *)
(* it is then gone from the queue.                                         *)
WorkerPopped(w) ==
    /\ wpc[w] = "pop"
    /\ LeaveWaitAndPop(w)
    /\ \/ /\ ~token /\ popped[w] # Null
          /\ wpc' = [wpc EXCEPT ![w] = "call"]
          /\ wjob' = [wjob EXCEPT ![w] = popped[w]]
          /\ status' = [status EXCEPT ![popped[w]] = "running"]
       \/ /\ token \/ popped[w] = Null
          /\ wpc' = [wpc EXCEPT ![w] = "top"]
          /\ UNCHANGED <<wjob, status>>
    /\ UNCHANGED <<counterVars, mainVars, wtodo, wchild, live, ticks,
                   skipped>>

(* Variant: the instances are left to nobody.                              *)
WorkerUpdateOnly(w) ==
    /\ wpc[w] = "call"
    /\ wtodo' = [wtodo EXCEPT ![w] = {}]
    /\ wpc' = [wpc EXCEPT ![w] = "visit"]
    /\ UNCHANGED <<qvars, counterVars, mainVars, wjob, wchild, tickVars>>

(* Map::Update, or LFGMgr::Update, has run.  A MapInstanced then visits    *)
(* the instances it holds; other maps hold none.                           *)
WorkerUpdate(w) ==
    /\ wpc[w] = "call"
    /\ wtodo' = [wtodo EXCEPT ![w] = live \cap Children(wjob[w])]
    /\ wpc' = [wpc EXCEPT ![w] = "visit"]
    /\ UNCHANGED <<qvars, counterVars, mainVars, wjob, wchild, tickVars>>

(* Variant: the iterator still points at the destroyed instance.           *)
WorkerDestroyOnly(w, i) ==
    /\ wpc[w] = "visit" /\ i \in wtodo[w]
    /\ live' = live \ {i}
    /\ UNCHANGED <<qvars, counterVars, mainVars, workerVars, ticks, status,
                   skipped>>

(* An instance that CanUnload is destroyed ...                             *)
WorkerDestroyInstance(w, i) ==
    /\ wpc[w] = "visit" /\ i \in wtodo[w]
    /\ live' = live \ {i}
    /\ wtodo' = [wtodo EXCEPT ![w] = @ \ {i}]
    /\ UNCHANGED <<qvars, counterVars, mainVars, wpc, wjob, wchild, ticks,
                   status, skipped>>

(* ... unless players remain in it: then it stays, not updated this tick.  *)
WorkerSkipInstance(w, i) ==
    /\ wpc[w] = "visit" /\ i \in wtodo[w]
    /\ skipped' = skipped \cup {i}
    /\ wtodo' = [wtodo EXCEPT ![w] = @ \ {i}]
    /\ UNCHANGED <<qvars, counterVars, mainVars, wpc, wjob, wchild, live,
                   ticks, status>>

(* Any other instance is scheduled, as the main thread schedules a map.    *)
WorkerSchedule(w, i) ==
    /\ wpc[w] = "visit" /\ i \in wtodo[w]
    /\ CountUp(i)
    /\ wtodo' = [wtodo EXCEPT ![w] = @ \ {i}]
    /\ wchild' = [wchild EXCEPT ![w] = i]
    /\ wpc' = [wpc EXCEPT ![w] = "push"]
    /\ UNCHANGED <<qvars, token, mlock, mainVars, wjob, live, ticks, skipped>>

WorkerPush(w) ==
    /\ wpc[w] = "push"
    /\ Enqueue(wchild[w])
    /\ wpc' = [wpc EXCEPT ![w] = "notify"]
    /\ UNCHANGED <<counterVars, mainVars, wjob, wtodo, wchild, live, ticks,
                   skipped>>

WorkerNotify(w) ==
    /\ wpc[w] = "notify"
    /\ NotifyOne
    /\ wchild' = [wchild EXCEPT ![w] = Null]
    /\ wpc' = [wpc EXCEPT ![w] = "visit"]
    /\ UNCHANGED <<counterVars, mainVars, wjob, wtodo, tickVars>>

WorkerAllVisited(w) ==
    /\ wpc[w] = "visit" /\ wtodo[w] = {}
    /\ wpc' = [wpc EXCEPT ![w] = "finish"]
    /\ UNCHANGED <<qvars, counterVars, mainVars, wjob, wtodo, wchild,
                   tickVars>>

WorkerFinish(w) ==
    /\ wpc[w] = "finish"
    /\ CountDown(w)
    /\ wjob' = [wjob EXCEPT ![w] = Null]
    /\ UNCHANGED <<qvars, token, mlock, mainVars, wtodo, wchild, live, ticks,
                   skipped>>

(* Variant: notify_all without _lock.                                      *)
WorkerSignalUnlocked(w) ==
    /\ wpc[w] = "signal"
    /\ mpc' = IF mpc \in DOMAIN AwakePC THEN AwakePC[mpc] ELSE mpc
    /\ wpc' = [wpc EXCEPT ![w] = "top"]
    /\ UNCHANGED <<qvars, counterVars, mtodo, mjob, wjob, wtodo, wchild,
                   tickVars>>

(* notify_all under _lock.                                                 *)
WorkerSignal(w) ==
    /\ wpc[w] = "signal"
    /\ ~mlock
    /\ mpc' = IF mpc \in DOMAIN AwakePC THEN AwakePC[mpc] ELSE mpc
    /\ wpc' = [wpc EXCEPT ![w] = "top"]
    /\ UNCHANGED <<qvars, counterVars, mtodo, mjob, wjob, wtodo, wchild,
                   tickVars>>

----------------------------------------------------------------------------
MainTick ==
    \/ \E j \in Jobs : MainSchedule(j)
    \/ MainPush \/ MainNotify \/ MainAllScheduled
    \/ MainWaitOver \/ MainWaitTest \/ MainWaitBlock \/ MainDelayedUpdate

MainShutdown == SetToken \/ MainCancel \/ MainJoin

Visit(w) ==
    \E i \in Instances : \/ WorkerDestroyInstance(w, i)
                         \/ WorkerSkipInstance(w, i)
                         \/ WorkerSchedule(w, i)

Worker(w) ==
    \/ WorkerTop(w) \/ WorkerInQueue(w) \/ WorkerPopped(w) \/ WorkerUpdate(w)
    \/ Visit(w) \/ WorkerPush(w) \/ WorkerNotify(w) \/ WorkerAllVisited(w)
    \/ WorkerFinish(w) \/ WorkerSignal(w)

(* The process has ended.                                                  *)
Terminated == mpc = "stopped" /\ UNCHANGED vars

Next ==
    \/ BeginTick \/ MainTick
    \/ UnloadMaps \/ MainShutdown
    \/ \E i \in Instances : CreateInstance(i)
    \/ MainSpuriousWakeup
    \/ \E w \in Consumers : Worker(w) \/ WorkerSpuriousWakeup(w)
    \/ Terminated

Spec == Init /\ [][Next]_vars

(* Threads that can run do run, and a thread that keeps asking for a mutex *)
(* which is released again and again gets it in the end: hence strong      *)
(* fairness.  Nothing has to wake spuriously, nobody has to enter an       *)
(* instance; a tick is begun by the loop of WorldUpdateLoop and shutdown   *)
(* by whoever asks for it.                                                 *)
Fairness ==
    /\ SF_vars(MainTick \/ MainShutdown)
    /\ \A w \in Consumers : SF_vars(Worker(w))

FairSpec == Spec /\ Fairness
----------------------------------------------------------------------------
(* Properties.                                                             *)

(* The main thread is between wait() and the next tick, or shutting down.  *)
Exclusive == mpc \in {"idle", "delayed", "unload", "waitLast", "blockingLast",
                      "blockedLast", "cancel", "join", "stopped"}

(* What DelayedUpdate, the sessions and UnloadAll rely on: once wait() has *)
(* returned, and until the next tick, no worker is inside an update, and   *)
(* none can get into one, since no request is queued or in a worker's      *)
(* hands.  A worker schedules instances while it is itself counted, so     *)
(* the counter must not reach zero between the two.                        *)
MapsAreExclusive ==
    Exclusive => /\ queue = << >>
                 /\ \A w \in Consumers :
                      /\ wjob[w] = Null
                      /\ wpc[w] = "pop" => popped[w] = Null

(* No two workers update the same map, or the dungeon finder, at once.     *)
OneWorkerPerJob ==
    \A v, w \in Consumers : wjob[v] = wjob[w] /\ wjob[v] # Null => v = w

(* MapUpdateRequest holds a reference to its map: whatever is queued,      *)
(* taken or being updated exists, although MapInstanced::Update destroys   *)
(* instances while other workers run, and UnloadAll deletes everything     *)
(* while the workers are still there.                                      *)
NoDanglingMap ==
    \A j \in Maps : status[j] \in {"counted", "queued", "taken", "running"} =>
        j \in live

(* When DelayedUpdate runs, every map that exists has been updated in this *)
(* tick, but for instances that could not be destroyed.                    *)
EveryMapUpdated ==
    mpc = "delayed" =>
        \A j \in live \cup {Lfg} : status[j] = "done" \/ j \in skipped

(* pending_requests is the number of requests counted and not finished:    *)
(* nothing is counted twice and no worker forgets update_finished.         *)
Outstanding == {j \in Jobs : status[j] \in {"counted", "queued", "taken",
                                            "running"}}
PendingIsExact == pending = Cardinality(Outstanding)

(* The updater provides the tick barrier.                                  *)
TB == INSTANCE TickBarrier WITH
        phase <- IF Exclusive THEN "exclusive" ELSE "updating",
        running <- {wjob[w] : w \in Consumers} \ {Null},
        done <- {j \in Jobs : status[j] = "done"}
ImplementsBarrier == TB!Spec

(* A tick that has begun ends: the wake-ups of both condition variables    *)
(* suffice, whatever the interleaving.                                     *)
TickEnds == mpc = "schedule" ~> mpc = "delayed"

(* deactivate() returns: every worker leaves WaitAndPop and is joined.     *)
ShutdownEnds == mpc = "unload" ~> mpc = "stopped"
============================================================================
