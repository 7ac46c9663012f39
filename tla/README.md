# Verification of the AzerothCore server core

TLA+ models of the parts of this repository where several threads, connections
or players meet: the world tick with its map-update threads, the pool of database
workers, the execution of transactions over connections that fail, the sessions of
connected accounts with their login queue, the sockets of their clients with the
lock-free queue behind them, and trading. TLC checks each model on a small instance;
TLAPS proves the safety properties, and the refinements of the three abstract
specifications, for every instance (section 4).

Paths below are relative to `src/src/`.

## 1. Inventory

### Threads

`worldserver` runs one *world thread* (`World::Update`, every tick), a number of
*map update threads* (`MapUpdate.Threads`), one *database worker* per asynchronous
connection of each of three pools, *network threads*, and helpers (console, freeze
detector, metric). The world thread handles most packets; map threads handle
those marked thread-safe. Everything the threads share goes through a queue with a
mutex, a future, or the rule that the world thread has the maps for itself outside
`MapMgr::Update`'s updating part.

### Components

| Component | State | Operations | Talks to | Hard behaviour | Should hold |
|---|---|---|---|---|---|
| `ProducerConsumerQueue` (common/Threading/PCQueue.h) | queue, mutex, condition variable, `_cancel`, `_shutdown` | Push, WaitAndPop, Cancel, Shutdown | map workers, database workers | notify outside the mutex, flags that are never cleared | each element to one consumer, in order; nobody sleeps for ever |
| `MapUpdater` (server/game/Maps) | `pending_requests`, `_cancelationToken`, `_lock`, workers | schedule_*, wait, update_finished, activate, deactivate | MapMgr, MapInstanced (which schedules from inside a worker) | counter against condition variable, work that creates work, shutdown | `wait()` is a barrier; a map is updated once per tick, by one thread |
| `MapMgr`, `MapInstanced` | `i_maps`, `m_InstancedMaps`, timers | Update, CreateBaseMap, CreateInstance…, DestroyInstance, UnloadAll | MapUpdater | instances destroyed while other workers run; unlocked first look-up in CreateBaseMap | no request refers to a deleted map |
| `DatabaseWorkerPool`, `DatabaseWorker`, `DatabaseLoader` (server/database) | connections, queue, workers | Open, Close, Enqueue, GetFreeConnection, PrepareStatements, KeepAlive | PCQueue, MySQLConnection, every subsystem that saves | workers older than their connection; failed and repeated Open; graceful Close | each task executed once, in order, on an open connection; Close loses none |
| `MySQLConnection`, `Transaction*Task` | handle, `m_Mutex`, `_deadlockLock` | Execute, ExecuteTransaction, reconnect, retry | MySQL server | deadlock victims, lost sessions, retry of what was already done | all or nothing; the answer is true unless the server refuses to begin or to commit; no session handed back inside a transaction |
| `QueryCallback`, `AsyncCallbackProcessor`, `QueryHolder` | futures, list of callbacks | AddCallback, ProcessReadyCallbacks, InvokeIfReady | sessions, world | callbacks that add callbacks; owners that die first | each callback once, after its result |
| `WorldSessionMgr` | sessions, login queue, offline sessions | AddSession, RemoveQueuedPlayer, UpdateSessions, KickAll | network threads, WorldSession | replacement of a session of the same account, admission from the queue | limit respected; nobody queued while there is room; a session in one place |
| `WorldSession` | packet queue, player, socket | QueuePacket, Update (two filters), LogoutPlayer | map threads, world thread, sockets | the same queue drained by two threads in turn; socket closed meanwhile | packets in order; player saved once at logout |
| `LockedQueue`, `MPSCQueue` (common/Threading) | deque and mutex; linked list | add, next; Enqueue, Dequeue | sessions, sockets, logging | gap between exchange and link | nothing lost or reordered per producer |
| `Socket`, `NetworkThread` (server/shared/Network) | write queue, `_closing`, `_closed`, new sockets | QueuePacket, HandleQueue, DelayedCloseSocket, AddSocket | boost.asio, sessions | delayed close without anything to write; packets read before the session went | a closed socket leaves its thread; no session is used after its end |
| `AuthSession` (server/apps/authserver) | `_status` | logon challenge/proof, reconnect, realm list | login database | commands out of order, asynchronous queries | proof only after its own challenge |
| Trade (TradeHandler.cpp, TradeData, Player::TradeCancel) | `m_trade` of both players | the trade opcodes, cancel, complete | inventory, gold, character database | offers that change between two acceptances; items that leave the bags; crash before the save | informed acceptance; conservation; no duplicate after a crash |
| `LFGMgr`, `BattlegroundQueue`, `Group` (rolls), `AuctionHouseMgr`, `InstanceSaveMgr` | proposals, invitations, votes, auctions, binds | join, answer, expire, leave | players, mail, events | time-outs against late answers, members that leave | one outcome per proposal, roll, auction |
| `EventProcessor`, `TaskScheduler`, `MotionMaster`, `ThreatMgr` | events, tasks, movement stack | add, kill, update | units | changes during iteration | each event once |
| Guild, Mail, Calendar, Warden, PoolMgr, Config, Log, content scripts | | | | little concurrency, or content | not modelled |

`data/`, `deps/`, `apps/` and `modules/` are data, vendored code and build files.

### Hazards

`PROJECT.json` lists what is hard to test, each at its line, with the property
that watches it, or with the reason why none does yet.

## 2. Modules

| Module | Models | Composed with |
|---|---|---|
| `PCQueue` | PCQueue.h | extended by the next two users |
| `TickBarrier` | abstract: what `MapMgr::Update` expects of its updater | implemented by `MapUpdater` |
| `MapUpdater` | MapUpdater.cpp, `MapMgr::Update`/`UnloadAll`, `MapInstanced::Update` | `PCQueue` |
| `MapUpdater_proofs` | theorems about `MapUpdater` | |
| `TaskQueue` | abstract: what the server expects of a pool of database workers | implemented by `DatabaseWorkerPool` |
| `DatabaseWorkerPool` | Open, Close, Enqueue, DatabaseWorker, the retries of DatabaseLoader | `PCQueue` |
| `DatabaseWorkerPool_proofs` | theorems about `DatabaseWorkerPool` | |
| `Transactions` | ExecuteTransaction, reconnection, deadlock retries; MySQL is external | |
| `Transactions_proofs` | theorems about `Transactions` | |
| `WorldSessions` | WorldSessionMgr.cpp; login, take-back, logout and kick of WorldSession and CharacterHandler; the end of the server in Main.cpp | |
| `WorldSessions_proofs` | theorems about `WorldSessions` | |
| `ArrivalQueue` | abstract: what the users of `MPSCQueue` expect of it | implemented by `MPSCQueue` |
| `MPSCQueue` | the intrusive queue of MPSCQueue.h | what it shows of order is used by `WorldSocket` |
| `MPSCQueue_proofs` | theorems about `MPSCQueue` | |
| `WorldSocket` | Socket.h, NetworkThread.h, WorldSocket.cpp: one client's connection, with the part of WorldSession that closes it and gives it up | |
| `WorldSocket_proofs` | theorems about `WorldSocket` | |
| `Trade` | TradeHandler.cpp, TradeData, TradeCancel, saves and crashes | |
| `Trade_proofs` | theorems about `Trade` | |
| `Induction` | induction over the natural numbers, for `Trade_proofs` and `WorldSocket_proofs` | |
| `MC*` | constants for TLC | |

**PCQueue.** A critical section is one step, with one exception: a consumer that
finds its predicate false holds the mutex (`qlock`) until it blocks, so that test
and block are two steps (`TestFalse`, `Block`). `notify_one` of Push, and both parts of
Shutdown, happen without the mutex and are steps of their own. Waiters wake
spuriously. `popped` is the variable that the caller passes to WaitAndPop.

**MapUpdater.** `mpc` follows the world thread through `MapMgr::Update` (schedule,
push, notify for each request, then `wait()`, DelayedUpdate) and through
`UnloadAll`/`deactivate`; `wpc` follows each worker through `WorkerThread`, the
request's `call()` and, for a MapInstanced, the loop over its instances, in which
it destroys, skips or schedules each. `mlock` is `_lock`, held by the main thread
between its test and its wait; `update_finished` locks it only to notify. An
update of a map is an interval (`wjob[w]` is set); what happens inside is left out.
`status` and `skipped` are history variables. Instances appear only between ticks
(`CreateInstance`): players enter them from the world thread.

**DatabaseWorkerPool.** `dpc` follows the thread of DatabaseLoader through Open,
each outcome of a connection (`ok`, `error`, `incompatible`), the failure paths and
Close. The worker of a connection starts in the connection's constructor. A second
Open (`OpenAgain`) works on the same queue object, as in DatabaseLoader.

**Transactions.** Each connection has one thread that uses it. `Executes`,
`Rejected` (of a statement), `Refused` (of START TRANSACTION or COMMIT, whose results
nobody looks at), `RejectedFatally`, `Deadlocked`, `LostAndReconnected`, `LostAndAborted`,
`LostForGood` and `NoHandle` are the outcomes of `MySQLConnection::Execute`; the server's
session (`inTrans`, `tentative`) and its tables (`applied`: how often each statement
took effect) are external and follow MySQL's rules: autocommit, implicit commit by
START TRANSACTION, rollback of a deadlock's victim, loss of the session.
`Take … Answer` are the callers: TransactionTask, TransactionWithResultTask
(`Async`) and DirectCommitTransaction (`Synch`). Without a handle the error code is
whatever the client library answers, zero included (`NullErrno`). `refused` is a history
variable: of which transactions the server refused the beginning or the end.

**WorldSessions.** `pc` follows the world thread through the three loops of
`UpdateSessions` (`add`, `visit`, `offline`) and into `WorldSession::Update` of the
session of account `cur` (`update`: its packets, `callbacks`: answers to queries, then
the test of the socket). The loop over `_sessions` visits the accounts of `todo` in
any order, as an unordered map does. Network threads connect and drop clients between
any two steps; bans and map threads kick between two updates, handlers also within
one. A session is an address that is used again after `delete`; `alive` says which are
allocated. A query's answer is there when `Update` looks, or is not: `asked` is the
pending query of `InitializeSession`, `loading` that of a login. `kicked`, `inQueue`,
`player` are the members; `sock` is `none` once `m_Socket` has been reset. Packets other
than CMSG_CHAR_ENUM and CMSG_PLAYER_LOGIN, and what the player does in the world, are
left out. Time is nondeterministic: the tolerance for lost connections (`recent`), the
60 seconds of an offline session (`late`), the 20 seconds of a logout.
`entered` is a history variable: who was admitted because there was room. As in
`RemoveQueuedPlayer`, leaving the queue erases the first occurrence of the session
(`Others`) and admitting one pops the front (`QueueWithout`); that a session is in the
queue once is a property.

**MPSCQueue.** Every access to an atomic that several threads use is a step: the
exchange of `_head` (`Exchange`), the store of the previous head's link (`Link`), the
loads of links (`DequeueBegins`, `PassDummy`, `LoadAgain`). `_tail` and the dummy's place
belong to the consumer and change with the step before. `pc` follows each thread
through Enqueue, the consumer too, who enqueues the dummy (`TestLast`); `dpc` follows it
through Dequeue. `TakeFront` returns an element, whose caller deletes it: its address may
be allocated again at once. `chain`, `order`, `taken` and `calm` are history variables:
the list from `_tail` to `_head`, the arrivals, the departures, and whether the Dequeue
under way has seen no unfinished Enqueue. The order of atomic operations is taken
as sequentially consistent; the code's acquire and release pairs are on the
links and the head, through which all data is published.

**WorldSocket.** `npc` follows the network thread through `NetworkThread::Update` (`drain`:
`WorldSocket::Update` packs `_bufferQueue`; `update`, `write`: `Socket::Update` and
`HandleQueue`; `callbacks`) and through the handlers of reads (`packets` … `using`).
Between two of these it is `idle`, where boost's completions run. `wpc` follows the world
thread: before its maps, in the session's update, and while map threads run; `spc` and
`cpc` follow those who are in SendPacket and CloseSocket, which other threads can
interrupt. `closed`, `closing` are the members, `shut` that the connection has been shut
down; `worldSession` is `_worldSession`, `locked` its mutex, which only the network thread
holds for more than a step. A packet is the number of its exchange; the operating
system takes some, all or none of a buffer (`WritesAll`, `WritesPart`, `WouldBlock`), or
reports an error once the peer has gone or the socket is shut. `_bufferQueue` is a
sequence with the one trait that `MPSCQueue` leaves visible: Dequeue may find nothing
while an Enqueue is under way. The client may vanish at any time, and may send
CMSG_AUTH_SESSION before it has received the challenge, since the socket reads before the
challenge is written (`WorldSocket.cpp:160-161`): `early` remembers that. A second
CMSG_AUTH_SESSION of a client that is authenticated is `LocksForDuplicate` and
`LogsDuplicate`, where the code does not test `_worldSession`; with a null one the process
ends (`npc` = `crashed`, `Up` no longer).

**Trade.** The handlers run one at a time on the world thread, so a handler is a
step. Items are tokens without stacking, a spell on the untraded slot is on or off.
Between two handlers gold is spent, items are lost or bound, players save, log out,
come back, or the process crashes and returns with what the database has
(`writes` is the queue of the character database, with one worker).

## 3. Runs

| Run | Checks | Instance |
|---|---|---|
| `MapUpdater_tick` | type, `MapsAreExclusive`, `OneWorkerPerJob`, `NoDanglingMap`, `EveryMapUpdated`, `PendingIsExact`, `ImplementsBarrier`; `TickEnds`, `ShutdownEnds` | 2 workers, continent + dungeon with 2 instances + dungeon finder, 2 ticks, shutdown |
| `DatabaseWorkerPool_pool` | `ExecutesOnOpenConnection`, `FirstCloseIsGraceful`, `ImplementsTaskQueue`; `EveryTaskRuns`, `FailedOpenReturns` | 2 workers, 3 tasks, 2 calls of Open, every outcome |
| `DatabaseWorkerPool_close` | `CloseReturns`, violated | 2 workers |
| `DatabaseWorkerPool_reopen` | `ClosedMeansExecuted`, violated | 2 calls of Open |
| `Transactions_commit` | `AllOrNothing`, `OnlyRefusalsMislead`, `NothingLeftOpen`; `EveryCommitAnswered` | 2 workers + 1 synchronous connection; transactions of 2 and 1 statements; 1 loss |
| `Transactions_lost` | `WholeOnceAnswered`, violated | 2 workers, 2 transactions, 1 loss |
| `WorldSessions_tick` | `EverySessionInOnePlace`, `OnePlayerPerCharacter`, `QueueMeansFull`, `LimitRespected`, `QueuedCannotPlay`, `NoneOfflineBesidePlayer`, `StoppedMeansSaved` | 2 accounts; 3 sessions and 2 characters of one, 1 session of the other; limit 1; one session may skip the queue |
| `MPSCQueue_fifo` | `NoDeletedNode`, `EmptyIsHonest`, `ImplementsArrivalQueue`, `EveryItemTaken` | 2 producers, 3 addresses, 4 elements |
| `WorldSocket_close` | `SessionAlive`, `StreamIntact`, `RefusalReachesClient`; `ConnectionEnds`, `EverythingWritten` | world thread, network thread, 2 map threads, 3 packets |
| `WorldSocket_duplicate` | `LogsSafely`, violated | the same |
| `Trade_gold` | type, `NothingDuplicated`, `NothingLost`, `AcceptanceIsInformed` | 2 players with 1 and 2 gold, 1 item, limit 2, database up to 2 transactions behind |
| `Trade_three` | `PartnersAreMutual`, `TradeConserves` | 3 players, 2 items, room for 2, 1 and 0, no gold |

Each run checks one thing of its component that its actors can only break
together. `MPSCQueue_fifo`: nobody follows a pointer to what was deleted, Dequeue does
not call a queue empty without a reason, what comes out is what came in, and nothing
stays in. `WorldSocket_close`: the session is not touched after it was deleted, what the
operating system has taken is a prefix of what was sent, a refusal reaches a client
that waits for the challenge and reads, every connection that one side wants to end leaves
its thread, and while it is open everything is written. The last two end where the
process does (`LogsDuplicate`). `Trade_gold`: after a crash at any point no item is with
two players, none that somebody held is with nobody, and no gold has been made;
`TradeConserves`, what one completed trade does, is a matter of unequal room and checked in
`Trade_three`.

### Bounds, and why they are enough

* Two workers are the least with which wake-ups can be given to the wrong one, and
  with which one visits instances while another updates one of them. Two instances
  let one be destroyed while the other is queued.
* `MaxTicks` = 2: what a tick leaves behind meets the next one, then the shutdown.
  The theorems need no bound.
* `MaxOpens` = 2: one failure and one retry; the queue keeps nothing else. What the code
  promises of the first Open only, the properties say so (`opens`).
* `MaxLosses` = 1: one loss suffices for the finding. `SynchRetries` = 5 is the code's
  loopBreaker; `AsyncRetries` = 1 stands for the minute, which may end at any time
  (`GiveUp`). The transaction without statements, to which the code answers -1 at once, is
  not in the instance; the theorems include it.
* `MaxWrites`: 2 in `Trade_gold`, so that a crash can fall between two transactions
  of the same player.
* Three sessions of one account are the most that matter at once: one offline, one
  listed, one new. Addresses are used again, so connections are unlimited. With a limit
  of 1 the second account queues, and the session that may skip lets the limit be
  exceeded. Two characters let an offline one be refused for the other. The symmetry
  is sound: it swaps two sessions of the same account and rights, and two characters of
  the same account; the run checks no liveness.
* Three addresses for four elements of two producers: an address is used again while
  its earlier element may still be the previous head of someone; the dummy is in the
  list, before it, behind it, and about to be linked. The theorems need no bound.
* `MaxSent` = 3 in `WorldSocket`: the challenge, a refusal or a pong, and one more that
  a map thread sends; buffers of one and of several packets, written whole and in
  part. Two map threads can be in SendPacket and in CloseSocket at once.
* The instance of `Trade_three` has no gold, which `Trade_gold` has; a player without
  room makes every kind of refused acceptance happen.
* `MaxMoney` = 2 with one and two gold: together the two have more than one of them may
  own, and if `TooMuchGold` were not tested a trade would break the type invariant.

### Fairness

`FairSpec` gives strong fairness to the steps of each thread as a whole: a thread
that is runnable runs, and a mutex that is freed again and again is granted in the
end to one who keeps asking. `std::mutex` promises no order, but a thread starved
for ever by a finite number of others is excluded by every scheduler the server runs
on. Nothing is assumed of spurious wake-ups, of the start of a tick, of players, of
submissions of tasks, or of a call of Close.

In `MPSCQueue` a producer that is in Enqueue goes on, and the network thread polls the
queue every millisecond. In `WorldSocket` the event loop runs each handler that stays
ready again and again (strong fairness), what was read at once holds finitely many packets,
the database answers a query, and the operating system takes bytes or reports an error
in the end: there is no time-out for a client that stops reading, so without this the
code would wait for ever. Nothing is assumed of the client, who may send or not, and
vanish or not; `ConnectionEnds` is about a connection that one side has ended.
A connection that has left its thread does nothing more, nor does a process that has
ended, which is why the two runs of `WorldSocket` alone do not check deadlock.

### What the violated runs show

1. `PCQueue.h:101`: `Shutdown` neither stores its flag nor notifies under the mutex; a
   worker between test and wait misses both, and `DatabaseWorkerPool::Close` hangs in
   `join`.
2. `PCQueue.h:94`: `_cancel` is never cleared; a pool opened at the second attempt has
   workers that exit at once, and silently executes nothing.
3. `MySQLConnection.cpp:241`: after a reconnection only the current statement is
   repeated, now in autocommit mode: half a transaction takes effect.
4. `WorldSocket.cpp:436`: when a client that is authenticated sends CMSG_AUTH_SESSION
   again, its session's player is logged without a test of `_worldSession`, which OnClose
   of another thread has reset if the packet was read before the socket was closed.

Three more things the models show are not stated as findings, since no comment promises
the contrary, but bound what the properties can say. The answer of a committer is not
always true: the results of START TRANSACTION and COMMIT are ignored
(`MySQLConnection.cpp:367-380`, `452-453`), and after a COMMIT that the server refuses the
answer is true and nothing has taken effect; after a START TRANSACTION that it refuses,
statements take effect one by one. `OnlyRefusalsMislead` is what is left, and
`AllOrNothing` excepts the second. A client that sends CMSG_AUTH_SESSION early and is
refused may not receive the refusal: `WriteHandler` writes the challenge, finds its queue
empty and closes, while the refusal is still in `_bufferQueue` (`RefusalReachesClient`
excepts it). And an Open that finds an incompatible server version
(`DatabaseWorkerPool.cpp:447-452`) cancels nothing: the destructor of the connection joins a
worker that sleeps for ever, and Open does not return. `FailedOpenReturns` is about
connections that cannot be opened, after which the queue is cancelled; of the other failure it
claims nothing, although the run includes it.

Two things read in the code agree with no comment and no property: a reconnection
refused with CR_CONNECTION_ERROR is not tried again and does not stop the server
(`MySQLConnection.cpp:615`, modelled as `LostForGood`; the comment at 601-603 promises a
shutdown); and a connection that closes between `HandleSocketClosed` and the end of the
same `Update` logs the player out at once instead of keeping him for 60 seconds
(`UpdateReturnsFalse` with a player).

## 4. Proofs

Each module `X_proofs` extends `X` and proves an inductive invariant `IInv` of it, with
`Init => IInv`, one lemma or a group of them per action for `IInv /\ [Next]_vars => IInv'`,
and the properties as consequences. Every invariant that a passing run checks is a
theorem, and so are the action properties `TradeConserves` and `EmptyIsHonest` and the
three refinements. The theorems need no bounds: sets of threads, maps, tasks,
sessions, addresses and items, the numbers of ticks, losses, retries, packets
and elements, and limits of gold and of players are parameters. The assumptions are the
named `ASSUME`s of the modules, which TLC evaluates in the runs: constants have their
types, model values differ, and sets that the code keeps in memory are finite
where a proof counts them (`BaseMaps`, `Instances`, workers, `Accounts`, `Players`, `Items`, the
`Maps` threads). Each `IInv` was checked by TLC, in the instance of a run, before it
was proved.

### The map updater

`MapUpdater_proofs` proves, for any finite sets of base maps, instances and workers
and any number of ticks (the assumptions are `QueueAssumption` and
`UpdaterAssumption`, which TLC evaluates in the runs):

| Theorem | Property |
|---|---|
| `Invariant` | `Spec => []IInv` |
| `TypeCorrect` | `Spec => []TypeOK`; its heart is that `pending - 1` stays a natural number |
| `CounterExact` | `Spec => []PendingIsExact` |
| `Exclusion` | `Spec => []MapsAreExclusive` |
| `Unshared` | `Spec => []OneWorkerPerJob` |
| `NeverDangling` | `Spec => []NoDanglingMap` |
| `AllUpdated` | `Spec => []EveryMapUpdated` |
| `Refinement` | `Spec => TB!Spec` |

None of the safety properties is inductive. `MapsAreExclusive`, for one, follows
from the counter being zero only if the counter counts everything, a request in a
queue, in a worker's hands or about to be pushed. So `IInv` first says where each
request is: a request with status `queued` is in the queue exactly once
(`QueueHolds`), `taken` in the `popped` of exactly one worker (`PoppedHolds`),
`running` the `wjob` of exactly one (`WorkHolds`), `counted` in the hands of the main
thread (`MainHolds`) or of the worker that is visiting its parent (`ChildHolds`). It
then says that the counter is the number of such requests (`CountHolds`) and, the
central point, that an instance is under way only if its parent's request is, or
was in this tick (`ParentHolds`): a worker that is going to schedule instances is itself
counted, so the counter cannot pass through zero. `LiveHolds` says that what is
under way exists and `DoneHolds` what has been updated when. The proof has one lemma
per action; actions that change the same parts share a lemma (`QueueGrows`,
`CountedUp`, `StillCounted`). The refinement theorem maps each action to `Start`,
`Finish`, `EndUpdates`, `BeginTick`, or a stutter.

### The lock-free queue

`MPSCQueue_proofs` proves, for any sets of producers and addresses and any number of
elements (from `QueueAssumption` alone):

| Theorem | Property |
|---|---|
| `Invariant` | `Spec => []IInv` |
| `NoDanglingNode` | `Spec => []NoDeletedNode` |
| `HonestEmpty` | `Spec => EmptyIsHonest` |
| `Refinement` | `Spec => ImplementsArrivalQueue` |

`NoDeletedNode` is not inductive: that the previous head of a producer exists depends on
its still being in the list, and that on the consumer's not having passed it, because
its link is missing. `IInv` says so. `ChainHolds`: `chain` runs from `_tail` to
`_head` through nodes that exist, each once. `LinkHolds`, the central part: of two neighbours
the first is linked to the second, or some thread is about to link exactly these two, and
every thread that is about to link has such a pair. So the consumer, who goes on only
along links that are not null, never leaves a node that somebody will write to.
`ThreadHolds`: a thread's node is its own and not yet in the list. `OrderHolds`: without
the dummy, which is in the list at most once, the list is what arrived and was not taken.
`DequeueHolds` and `CalmHolds`: what Dequeue has loaded is still so. The proof has one lemma per
action; `FrontLeaves` serves both actions that shorten the list. The refinement theorem
maps a producer's `Exchange` to `Arrive`, `TakeFront` to `Take`, everything else to a stutter.

### The database worker pool

`DatabaseWorkerPool_proofs` proves, for any connections and workers, tasks, outcomes of
opening a connection and number of calls of Open (from `QueueAssumption` and
`PoolAssumption`):

| Theorem | Property |
|---|---|
| `Invariant` | `Spec => []IInv` |
| `OpenWhileExecuting` | `Spec => []ExecutesOnOpenConnection` |
| `Graceful` | `Spec => []FirstCloseIsGraceful` |
| `Refinement` | `Spec => ImplementsTaskQueue` |

`FirstCloseIsGraceful` is `ClosedMeansExecuted` as long as no Open has failed before, and
the refinement maps Close to the abstract one only then. This is a fact about the code, not
about the proof: after a second Open the run `DatabaseWorkerPool_reopen` refutes
`ClosedMeansExecuted`, since the queue stays cancelled. That tasks are begun in order and
once, the rest of the refinement, holds for any number of Opens.

A worker exists before its connection is open, so that it executes only on an open
connection is a matter of what it can find in the queue. `IInv` says: tasks are handed over
only to an open pool and a task handed over is in the queue, in one worker's hands, or
executed, one of these (`TasksHold`); connections are opened one by one and all before the
pool is (`ConnectionsHold`); one is destroyed only after its worker's end, and a worker
holds a task only between WaitAndPop's return and the end of the call (`WorkersHold`);
and, unless the queue is cancelled, a worker leaves only an empty queue that has been
shut down (`EndHolds`), which is why the last one to be joined leaves nothing. In the
refinement `SubmitTask` is `Submit`, leaving WaitAndPop with a task is `Begin`, the
end of the call `Finish`, and the end of Close `Close`.

### Transactions

`Transactions_proofs` proves, for any connections of both kinds, any transactions of any
size, any numbers of retries and of lost connections (from `TransactionsAssumption`):

| Theorem | Property |
|---|---|
| `Invariant` | `Spec => []IInv` |
| `NoneLeftOpen` | `Spec => []NothingLeftOpen` |
| `Atomic` | `Spec => []AllOrNothing` |
| `Truthful` | `Spec => []OnlyRefusalsMislead` |

`AllOrNothing` and `OnlyRefusalsMislead` are stated as long as no connection has been lost
(`losses` = 0), as the runs check them; beyond that `Transactions_lost` refutes
atomicity. They say nothing of a transaction that the server did not begin, whose statements
take effect one by one; of one whose COMMIT it refused they say that nothing of it has taken
effect, though the answer is true. `NothingLeftOpen` has no such condition: `SessionHolds` says that the server's
session is inside a transaction only between the calls of one attempt, on a connection
with a handle, reconnections included. For the others `AttemptHolds` says what an
attempt has executed when it is at statement `next`, and `EffectHolds` that a statement has
taken effect once if its transaction was committed and not at all otherwise, a refused COMMIT
being such a case; a
transaction has one thread at a time (`ThreadHolds`), so a retry starts from nothing. All
outcomes of a statement that fails share `FailedHolds`, those of a loss `LostHolds`.

### Sessions and the login queue

`WorldSessions_proofs` proves, for any finite set of accounts, any sessions and
characters, any limit, and whoever may skip the queue (from `SessionsAssumption`):

| Theorem | Property |
|---|---|
| `Invariant` | `Spec => []IInv` |
| `TypeCorrect` | `Spec => []TypeOK` |
| `OnePlace` | `Spec => []EverySessionInOnePlace` |
| `OnePlayer` | `Spec => []OnePlayerPerCharacter` |
| `NobodyWaitsInVain` | `Spec => []QueueMeansFull` |
| `WithinLimit` | `Spec => []LimitRespected` |
| `WaitingDoNotPlay` | `Spec => []QueuedCannotPlay` |
| `NoneBeside` | `Spec => []NoneOfflineBesidePlayer` |
| `SavedAtTheEnd` | `Spec => []StoppedMeansSaved` |

Only `EverySessionInOnePlace` is nearly inductive; it needs that a session is listed under
its own account (`PlacesHold`). The others depend on what a session in each list can be
doing (`MembersHold`: a new one has only a socket, one that waits has no query of its own
and no character, an offline one loads nothing, the world has exactly the
players of the sessions). That two sessions of an account never hold one character
rests on where the loop of `UpdateSessions` is: `BesideHolds` says that a session which
plays or loads beside an offline one has been visited in this loop, that the offline one
is kicked or empty, and that the two characters differ; the third loop then
deletes it, before another session can go offline. `NoneOfflineBesidePlayer`, the
code's comment, is a consequence. `EndHolds` does the same for the end: after KickAll every
session with a character has a closed connection, sessions that have been visited have
none, and the new clients who are still admitted cannot log in before the loop is over,
because they have not been sent the list of their characters.

The queue's invariants are about numbers: GetActiveSessionCount is a difference of two
sizes, and AddSession_ counts the sessions of other accounts. `AccountsAreCounted` shows
that accounts and their sessions are equally many (a session belongs to one account),
`ListedAreCounted` that the difference is the number of sessions that are listed and do
not wait. With these, `Departure` is what RemoveQueuedPlayer guarantees and `Arrival` what
AddSession_ does, each as a statement about sets and sequences alone. The actions fall into
four groups, each with one lemma that keeps `IInv`: those that disturb a session from
outside (`Disturb`), those that move the loops on (`Moving`), those of the session
under `Update` (`Members`), and those that move an account's sessions from one list to
another (`MovesKeeps`: AddSession_ in its two forms, the loss of a connection, the end of a
session).

### Sockets

`WorldSocket_proofs` proves, for any finite set of map threads and any number of packets
(from `SocketAssumption`):

| Theorem | Property |
|---|---|
| `Invariant` | `Spec => []IInv` |
| `TypeCorrect` | `Spec => []TypeOK` |
| `Alive` | `Spec => []SessionAlive` |
| `Intact` | `Spec => []StreamIntact` |
| `Answered` | `Spec => []RefusalReachesClient` |

`SessionAlive` is about the network thread between test and unlock; the world thread deletes
the session when the socket is no longer open, without that lock. `SessionHolds` connects the
two: `_worldSession` of a closed socket is still set only while some thread is in
CloseSocket, and it is set of a deleted session only while that thread is the network
thread itself, which then uses nothing. So where the network thread does not test it, for
the log of a duplicate CMSG_AUTH_SESSION, it is null or the session exists; that it may be
null is what the run `WorldSocket_duplicate` shows. `LoginHolds` says that until a client is
authenticated it has one query or one read pending, or has been refused.

`StreamIntact` is the equation of `Streaming`: what is on the wire, in the write queue, in the
buffer that is being packed, and in `_bufferQueue`, one after another, is 1, 2, … up to the
last exchange. Each step of the network thread cuts this sequence in another place
(packing, a buffer that is full, a partial write); the lemmas are those of concatenation,
and FlattenSeq, the one recursive operator in it, is unfolded by induction over the number
of buffers (`FlattenHead`, `FlattenAppend`). Concatenation is used through `Cat`, whose
definition is opened only where it matters: the solver would otherwise rewrite
every sequence. `RefusalHolds` adds that a socket which is to be closed and goes on to write
has packed everything, unless the client was early: only then can a write be under way that
has not seen the refusal. A step leaves the packets where they are, adds one, packs, finds
nothing, or writes (`Kinds`); each kind has a lemma (`StillFlows`, `AddsFlows`, …).

### Trading

`Trade_proofs` proves, for any slots and amounts of gold, any finite sets of players and
items and any number of transactions in flight (from `TradeAssumption`, which TLC
evaluates in the runs):

| Theorem | Property |
|---|---|
| `Invariant` | `Spec => []IInv` |
| `TypeCorrect` | `Spec => []TypeOK`; its heart is that gold stays between 0 and the limit |
| `TradesAreMutual` | `Spec => []PartnersAreMutual` |
| `TradesAreInformed` | `Spec => []AcceptanceIsInformed` |
| `TradesConserve` | `Spec => TradeConserves`, checked in `Trade_three` |
| `NothingTwice` | `Spec => []NothingDuplicated`, of items and of gold |
| `NothingIsLost` | `Spec => []NothingLost`, of items |

`PartnersAreMutual` and `AcceptanceIsInformed` are inductive together with the type: a
step of a player touches his window and his partner's, and a third player's partner is
neither of the two. `NoItemTwice` is not. A crash gives the players what the database
has then, a Commit makes the database have more of the transactions, and a player who
comes back finds what his last transaction holds, so an item must be with one player in
each of these states. `HeldOnce` says it of all of them at once: `Recorded(k, p, v)` means
that v is what the database has of p after k more transactions; `RecordsHold` states
disjointness after every prefix of the queue, which is what each crash leaves,
`BagsRecorded` that nobody holds what another has after all of them. A transaction of
one player who gained an item would break `RecordsHold` at the prefix that ends with it;
the trade's single transaction of both does not, and `WriteHolds`, the lemma that all
saves share, needs only that the bags are disjoint from each other and from the records of
the players who are not saved. `TradesConserve` rests on `Exchanged` (what
`AcceptBoth` does, within the limits tested before), `Swapped` and `FitsAfterwards`.

The gold is a sum over all players, a fold of the model. `GroupSum` unfolds it over the
groups of players that the fold goes through, and induction over their sizes
shows what the proofs need: the sum of naturals is one, it grows with each part, and it is
the same when two players only exchange. `GInv` is inductive beside `IInv`: after any
number of the queued transactions the database has no more gold than the players began
with (`GoldRecorded`), and no player carries more than what his last transaction
holds (`GoldCovered`), so that a save, which writes what he carries, adds nothing.

`NothingLost` is the other half: `ItemsCovered` says that an item somebody holds is in
some inventory after every prefix of the queue. It needs `HeldOnce`: a save overwrites an
inventory, and that the items of another player were not in it is `BagsRecorded`. The lemmas
`WrittenBack` and `CommittedBack` are the converses of `Written` and `Committed`, and
`CoveredWritten` is shared by saves, logouts and trades, which deal anew what the players
of a transaction had; the two apart, in two transactions, would break it.

### Induction

The induction theorems of the library take the statement as an operator parameter, which
none of the provers can instantiate. `Induction` states induction for a *set* of naturals
(`InductionOnSets`), from the well-foundedness of <, whose theorem has no such parameter;
what is to be proved is put as the set of the numbers for which it holds.

### Only model-checked

* Liveness: `TickEnds`, `ShutdownEnds`, `EveryTaskRuns`, `FailedOpenReturns`,
  `EveryCommitAnswered`, `EveryItemTaken`, `ConnectionEnds`, `EverythingWritten`. Fairness and
  ENABLED are beyond the prover.
  The abstract specifications ask for no liveness, so that their refinement is proved in
  full.
* That the properties violated in `DatabaseWorkerPool_close`, `DatabaseWorkerPool_reopen`,
  `Transactions_lost` and `WorldSocket_duplicate` fail: counterexamples, which TLC shows.

## 5. Not modelled

* The models are sequentially consistent. `update_finished` decrements with
  `memory_order_acquire`, where publication of the update to the world thread would
  need a release; on x86 the instruction is a full barrier.
* What a map update, a query or a spell does.
* `Pop`, `Empty`, `Size` of the queue (no caller that matters); KeepAlive, prepared
  statements, result sets.
* `MapPreloadRequest` and the unlocked look-up in `CreateBaseMap` (planned, see 6), the updating of maps without worker threads (`num_threads` = 0).
* A change of the player limit at run time (`QueueMeansFull` needs it constant: nothing
  admits the queue when the limit is raised), KickAllLess, bots, deletion of accounts,
  realm-wide messages and counters.
* Of the network: the header of a proxy, the IOCP variant of the write queue,
  `NetworkThread::Stop`, the count of pings that come too fast, what `QueuePacket` does to
  the session's packets, the protocol of the authentication server. The network
  thread's own SendPacket is one step of `WorldSocket`, since that thread is also the consumer.
* The non-intrusive `MPSCQueue` and the destructors of both.
* `TypeOK` of `DatabaseWorkerPool`, `Transactions`, `WorldSessions`, `WorldSocket` and
  `MPSCQueue` is not an invariant of a run; it is part of each `IInv`, and so proved.
* Stacks of items, and the position of items in bags, in Trade; and with them the branches
  of `moveItems` that give an item back, or lose it, when it cannot be stored although
  CanStoreItems has found room (`TradeHandler.cpp:172-195`). `TradeConserves` watches the
  room that both have afterwards, which a wrong count would break first. That no gold is
  lost is not stated: it is spent in the game as well.
* The components listed with status `not_modelled` in `PROJECT.json`.

## 6. Plan

1. Done in `WorldSessions`; open: an abstract specification (each account is nowhere,
   queued, active or offline; room and queue exclude each other) and a refinement, whose
   steps would follow from `MovesKeeps`.
2. `WorldSession`: packet queue with the two filters, on top of `LockedQueue`; the world
   tick from `TickBarrier` says who may drain it when. Refinement of a FIFO.
3. `QueryCallbacks`: AsyncCallbackProcessor, chained callbacks, owners that die.
   Composed with `TaskQueue`.
4. `MapPreload`: CreateBaseMap with its unlocked test.
5. `BattlegroundQueue`, loot rolls, auctions: time-outs and crashes.
6. Proofs: those of section 4 are complete for what the runs check; next, the refinement
   of 1, and the invariants of 2 to 5 as they are modelled.
