------------------------- MODULE DatabaseWorkerPool -------------------------
(***************************************************************************)
(* The asynchronous half of DatabaseWorkerPool<T>: the connections that    *)
(* Open creates, the DatabaseWorker thread each of them owns, the queue    *)
(* they share, and the two ways down, Close and a failed Open.  A task is  *)
(* opaque here; Transactions says what executing one does.                 *)
(***************************************************************************)
EXTENDS PCQueue

CONSTANTS
    OpenResults,    \* what MySQLConnection::Open and the version test may say
    MaxOpens        \* bound on the calls of Open that DatabaseLoader makes

Tasks == Values
Results == {"ok", "error", "incompatible"}

ASSUME PoolAssumption == OpenResults \subseteq Results /\ MaxOpens \in Nat \ {0}

VARIABLES
    dpc,            \* where the thread that opens and closes the pool is
    opens,          \* calls of Open so far
    conn,           \* each connection: not created, created, open, destroyed
    wpc,            \* where the worker thread of each connection is
    sender,         \* where the thread that submits each task is
    executed        \* history: the tasks executed

pvars == <<dpc, opens, conn, wpc, sender, executed>>
vars == <<qvars, pvars>>

PoolPC == {"opening", "connecting", "synch", "open", "close", "notify",
           "joining", "closed", "cancel", "failing", "cancelSynch", "failed",
           "aborting", "refused"}

TypeOK ==
    /\ QueueTypeOK
    /\ dpc \in PoolPC
    /\ opens \in 1..MaxOpens
    /\ conn \in [Consumers -> {"none", "created", "open", "destroyed"}]
    /\ wpc \in [Consumers -> {"none", "pop", "call", "exited"}]
    /\ sender \in [Tasks -> {"before", "pushed", "after"}]
    /\ executed \subseteq Tasks

Init ==
    /\ QueueInit
    /\ dpc = "opening"
    /\ opens = 1
    /\ conn = [w \in Consumers |-> "none"]
    /\ wpc = [w \in Consumers |-> "none"]
    /\ sender = [t \in Tasks |-> "before"]
    /\ executed = {}

----------------------------------------------------------------------------
(* Open.                                                                   *)

(* The constructor of an asynchronous connection starts its worker, which  *)
(* is in WaitAndPop before the connection is open.                         *)
CreateConnection(w) ==
    /\ dpc = "opening" /\ conn[w] = "none"
    /\ conn' = [conn EXCEPT ![w] = "created"]
    /\ wpc' = [wpc EXCEPT ![w] = "pop"]
    /\ CallWaitAndPop(w)
    /\ dpc' = "connecting"
    /\ UNCHANGED <<opens, sender, executed>>

Connected(w) ==
    /\ dpc = "connecting" /\ conn[w] = "created" /\ "ok" \in OpenResults
    /\ conn' = [conn EXCEPT ![w] = "open"]
    /\ dpc' = IF \E v \in Consumers : conn'[v] = "none"
            THEN "opening" ELSE "synch"
    /\ UNCHANGED <<qvars, opens, wpc, sender, executed>>

(* The synchronous connections have no thread: they open, or they fail,    *)
(* and then the queue is cancelled as below but the asynchronous           *)
(* connections are left alone.                                             *)
SynchConnected ==
    /\ dpc = "synch"
    /\ \/ "ok" \in OpenResults /\ dpc' = "open"
       \/ "error" \in OpenResults /\ dpc' = "cancelSynch"
       \/ "incompatible" \in OpenResults /\ dpc' = "refused"
    /\ UNCHANGED <<qvars, opens, conn, wpc, sender, executed>>

(* connection->Open() failed: the queue is cancelled, then the connections *)
(* made so far and the failed one are destroyed.                           *)
ConnectError ==
    /\ dpc = "connecting" /\ "error" \in OpenResults
    /\ dpc' = "cancel"
    /\ UNCHANGED <<qvars, opens, conn, wpc, sender, executed>>

CancelPool ==
    /\ dpc \in {"cancel", "cancelSynch"}
    /\ CancelQueue
    /\ dpc' = IF dpc = "cancel" THEN "failing" ELSE "failed"
    /\ UNCHANGED <<opens, conn, wpc, sender, executed>>

(* The server's version is too old: return at once, which destroys only    *)
(* the connection at hand.                                                 *)
Incompatible ==
    /\ dpc = "connecting" /\ "incompatible" \in OpenResults
    /\ dpc' = "aborting"
    /\ UNCHANGED <<qvars, opens, conn, wpc, sender, executed>>

(* DatabaseLoader calls Open again, after a pause or after creating the    *)
(* database; the queue is the same object.  By then the threads of the     *)
(* asynchronous connections that an earlier Open left behind have ended.   *)
OpenAgain ==
    /\ dpc = "failed" /\ opens < MaxOpens
    /\ \A w \in Consumers : wpc[w] \in {"none", "exited"}
    /\ opens' = opens + 1
    /\ dpc' = "opening"
    /\ conn' = [w \in Consumers |-> "none"]
    /\ wpc' = [w \in Consumers |-> "none"]
    /\ UNCHANGED <<qvars, sender, executed>>

----------------------------------------------------------------------------
(* Close, once every other thread that uses the pool has finished.         *)

CloseBegins ==
    /\ dpc = "open"
    /\ \A t \in Tasks : sender[t] # "pushed"
    /\ dpc' = "close"
    /\ UNCHANGED <<qvars, opens, conn, wpc, sender, executed>>

CloseFlag ==
    /\ dpc = "close"
    /\ ShutdownFlag
    /\ dpc' = "notify"
    /\ UNCHANGED <<opens, conn, wpc, sender, executed>>

CloseNotify ==
    /\ dpc = "notify"
    /\ ShutdownNotify
    /\ dpc' = "joining"
    /\ UNCHANGED <<opens, conn, wpc, sender, executed>>

(* Variant: the connection is closed while its worker runs.                *)
DestroyUnjoined(w) ==
    /\ \/ dpc \in {"joining", "failing"} /\ conn[w] \in {"created", "open"}
       \/ dpc = "aborting" /\ conn[w] = "created"
    /\ conn' = [conn EXCEPT ![w] = "destroyed"]
    /\ UNCHANGED <<qvars, dpc, opens, wpc, sender, executed>>

(* ~MySQLConnection joins the worker before it closes the connection.      *)
DestroyConnection(w) ==
    /\ \/ dpc \in {"joining", "failing"} /\ conn[w] \in {"created", "open"}
       \/ dpc = "aborting" /\ conn[w] = "created"
    /\ wpc[w] = "exited"
    /\ conn' = [conn EXCEPT ![w] = "destroyed"]
    /\ UNCHANGED <<qvars, dpc, opens, wpc, sender, executed>>

PoolDown ==
    /\ \/ /\ dpc \in {"joining", "failing"}
          /\ \A w \in Consumers : conn[w] \in {"none", "destroyed"}
       \/ /\ dpc = "aborting"
          /\ \A w \in Consumers : conn[w] # "created"
    /\ dpc' = [joining |-> "closed", failing |-> "failed",
               aborting |-> "refused"][dpc]
    /\ UNCHANGED <<qvars, opens, conn, wpc, sender, executed>>

----------------------------------------------------------------------------
(* Enqueue, by any thread of the server, while the pool is open.           *)

Submit(t) ==
    /\ dpc = "open" /\ sender[t] = "before"
    /\ PushLocked(t)
    /\ sender' = [sender EXCEPT ![t] = "pushed"]
    /\ UNCHANGED <<dpc, opens, conn, wpc, executed>>

SubmitNotify(t) ==
    /\ sender[t] = "pushed"
    /\ NotifyOne
    /\ sender' = [sender EXCEPT ![t] = "after"]
    /\ UNCHANGED <<dpc, opens, conn, wpc, executed>>

----------------------------------------------------------------------------
(* DatabaseWorker::WorkerThread.                                           *)

WorkerInQueue(w) ==
    /\ wpc[w] = "pop"
    /\ WaitAndPop(w)
    /\ UNCHANGED pvars

WorkerSpuriousWakeup(w) ==
    /\ SpuriousWakeup(w)
    /\ UNCHANGED pvars

(* No operation: the thread ends.  Otherwise it executes the operation.    *)
WorkerPopped(w) ==
    /\ wpc[w] = "pop"
    /\ LeaveWaitAndPop(w)
    /\ wpc' = [wpc EXCEPT ![w] = IF popped[w] = Null THEN "exited" ELSE "call"]
    /\ UNCHANGED <<dpc, opens, conn, sender, executed>>

WorkerExecuted(w) ==
    /\ wpc[w] = "call"
    /\ executed' = executed \cup {popped[w]}
    /\ CallWaitAndPop(w)
    /\ wpc' = [wpc EXCEPT ![w] = "pop"]
    /\ UNCHANGED <<dpc, opens, conn, sender>>

----------------------------------------------------------------------------
Pool ==
    \/ SynchConnected \/ ConnectError \/ CancelPool \/ Incompatible \/ OpenAgain
    \/ CloseFlag \/ CloseNotify \/ PoolDown
    \/ \E w \in Consumers :
          CreateConnection(w) \/ Connected(w) \/ DestroyConnection(w)

Worker(w) == WorkerInQueue(w) \/ WorkerPopped(w) \/ WorkerExecuted(w)

Terminated == dpc \in {"closed", "failed", "refused"} /\ UNCHANGED vars

Next ==
    \/ Pool \/ CloseBegins
    \/ \E t \in Tasks : Submit(t) \/ SubmitNotify(t)
    \/ \E w \in Consumers : Worker(w) \/ WorkerSpuriousWakeup(w)
    \/ Terminated

Spec == Init /\ [][Next]_vars

(* As in MapUpdater: runnable threads run, a contended mutex is granted in *)
(* the end.  Nothing forces a submission, a close or a spurious wake-up.   *)
Fairness ==
    /\ SF_vars(Pool)
    /\ \A t \in Tasks : WF_vars(SubmitNotify(t))
    /\ \A w \in Consumers : SF_vars(Worker(w))

FairSpec == Spec /\ Fairness

----------------------------------------------------------------------------
(* Properties.                                                             *)

(* Worker threads run before their connection is open, and other           *)
(* connections are destroyed while a worker is still draining the queue:   *)
(* a task is only ever executed on a connection that is open.              *)
ExecutesOnOpenConnection ==
    \A w \in Consumers :
        wpc[w] = "call" \/ (cpc[w] = "returned" /\ popped[w] # Null)
            => conn[w] = "open"

(* Close is graceful: whoever handed a task over before Close finds it     *)
(* executed afterwards, although every worker stops on its own.            *)
ClosedMeansExecuted ==
    dpc = "closed" => \A t \in Tasks : sender[t] # "before" => t \in executed

(* So it is if no Open has failed before.                                  *)
FirstCloseIsGraceful == opens = 1 => ClosedMeansExecuted

(* The pool is a task queue: begun in order, once, nothing lost by Close   *)
(* if no Open has failed before.                                           *)
TQ == INSTANCE TaskQueue WITH
        waiting <- queue,
        running <- {popped[w] : w \in {v \in Consumers : popped[v] # Null}},
        closed <- dpc = "closed" /\ opens = 1
ImplementsTaskQueue == TQ!Spec

(* A task handed over is executed in the end, even if Close comes first    *)
(* and a worker misses the shutdown: one notify_one per Push is enough,    *)
(* unless an Open has failed before and the queue has stayed cancelled.    *)
EveryTaskRuns ==
    \A t \in Tasks : sender[t] = "pushed" ~> t \in executed \/ opens > 1

(* "Graceful stop: waits for the queue to become empty before stopping     *)
(* consumers", says PCQueue.h of Shutdown, and Close relies on it: Close   *)
(* returns.                                                                *)
CloseReturns == dpc = "close" ~> dpc = "closed"

(* An Open to which the server gives no connection returns: Cancel lets    *)
(* the workers made so far end, then ~MySQLConnection can join them.  Not  *)
(* so an Open that finds the server's version too old: it cancels nothing, *)
(* and the worker whose connection it destroys sleeps on.                  *)
FailedOpenReturns == dpc = "cancel" ~> dpc = "failed"
============================================================================
