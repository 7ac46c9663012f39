---------------------------- MODULE Transactions ----------------------------
(**************************************************************************   *)
(* How a transaction is executed: MySQLConnection::ExecuteTransaction,        *)
(* the retry of TransactionTask and TransactionWithResultTask on a            *)
(* database worker, that of DirectCommitTransaction on a synchronous          *)
(* connection, and the reconnection hidden inside MySQLConnection::Execute.   *)
(*                                                                            *)
(* The MySQL server is external: it keeps a session for each connection,      *)
(* in autocommit mode or inside a transaction, may choose a transaction as    *)
(* the victim of a deadlock, may reject a statement, START TRANSACTION and    *)
(* COMMIT included, and may be lost.                                          *)
(**************************************************************************   *)
EXTENDS Naturals, FiniteSets

CONSTANTS
    Async,          \* connections owned by a DatabaseWorker
    Synch,          \* connections of the synchronous pool
    Transactions,   \* the transactions to commit
    Size,           \* m_queries.size() of each
    Null,
    SynchRetries,   \* loopBreaker of DirectCommitTransaction
    AsyncRetries,   \* bound on the retries that fit into one minute
    MaxLosses       \* bound on the connections lost

Connections == Async \cup Synch
Statements == UNION {1..Size[t] : t \in Transactions}

ASSUME TransactionsAssumption ==
    /\ Async \cap Synch = {} /\ Null \notin Connections \cup Transactions
    /\ Size \in [Transactions -> Nat]
    /\ SynchRetries \in Nat /\ AsyncRetries \in Nat \ {0} /\ MaxLosses \in Nat

VARIABLES
    pc,             \* where the thread that uses the connection is
    trans,          \* the transaction it executes
    next,           \* index of the statement to execute
    code,           \* error code of the last attempt
    retries,        \* attempts after the first
    deadlockLock,   \* the thread that holds _deadlockLock
    handle,         \* m_Mysql # nullptr
    up,             \* the worldserver process runs
    answer,         \* what the committer was told, or would be
    inTrans,        \* MySQL: the session is inside START TRANSACTION
    tentative,      \* MySQL: statements executed in the open transaction
    applied,        \* MySQL: how often each statement took effect for good
    losses,         \* connections lost so far
    refused         \* history: of each transaction, which of "begin" and
                    \* "commit" the server has refused

threadVars == <<pc, trans, next, code, retries, deadlockLock, answer>>
serverVars == <<inTrans, tentative, applied>>
faults == <<losses, refused>>
vars == <<threadVars, serverVars, handle, up, faults>>

TypeOK ==
    /\ pc \in [Connections -> {"idle", "begin", "statement", "commit",
                               "rollback", "succeeded", "failed", "lock"}]
    /\ trans \in [Connections -> Transactions \cup {Null}]
    /\ next \in [Connections -> Statements \cup {1}]
    /\ code \in [Connections -> {"none", "deadlock", "error"}]
    /\ retries \in [Connections -> 0..SynchRetries \cup 0..AsyncRetries]
    /\ deadlockLock \in Async \cup {Null}
    /\ handle \in [Connections -> BOOLEAN]
    /\ up \in BOOLEAN
    /\ answer \in [Transactions -> {"none", "pending", "true", "false"}]
    /\ inTrans \in [Connections -> BOOLEAN]
    /\ tentative \in [Connections -> SUBSET Statements]
    /\ DOMAIN applied = Transactions
    /\ \A t \in Transactions : applied[t] \in [1..Size[t] -> Nat]
    /\ losses \in 0..MaxLosses
    /\ refused \in [Transactions -> SUBSET {"begin", "commit"}]

Init ==
    /\ pc = [c \in Connections |-> "idle"]
    /\ trans = [c \in Connections |-> Null]
    /\ next = [c \in Connections |-> 1]
    /\ code = [c \in Connections |-> "none"]
    /\ retries = [c \in Connections |-> 0]
    /\ deadlockLock = Null
    /\ handle = [c \in Connections |-> TRUE]
    /\ up = TRUE
    /\ answer = [t \in Transactions |-> "none"]
    /\ inTrans = [c \in Connections |-> FALSE]
    /\ tentative = [c \in Connections |-> {}]
    /\ applied = [t \in Transactions |-> [k \in 1..Size[t] |-> 0]]
    /\ losses = 0
    /\ refused = [t \in Transactions |-> {}]

----------------------------------------------------------------------------
(* What the server does with the statement a connection is executing.         *)

Apply(t, stmts) ==
    [applied EXCEPT ![t] = [k \in DOMAIN @ |-> IF k \in stmts THEN @[k] + 1 ELSE @[k]]]

LeaveTrans(c) ==
    /\ inTrans' = [inTrans EXCEPT ![c] = FALSE]
    /\ tentative' = [tentative EXCEPT ![c] = {}]

(* What the current statement makes permanent: COMMIT, and any statement      *)
(* that opens a transaction, all that is tentative; an ordinary statement     *)
(* itself, unless a transaction is open.                                      *)
Permanent(c) ==
    CASE pc[c] \in {"begin", "commit"} -> tentative[c]
      [] pc[c] = "statement" /\ ~inTrans[c] -> {next[c]}
      [] OTHER -> {}

(* Variant: ExecuteTransaction returns 0 after its rollback.                  *)
AfterTrueAlways(c) ==
    CASE pc[c] = "begin" -> "statement"
      [] pc[c] = "statement" -> IF next[c] = Size[trans[c]] THEN "commit"
                                                            ELSE "statement"
      [] pc[c] \in {"commit", "rollback"} -> "succeeded"

(* Which call follows the current one if it returned true, and if false:      *)
(* the results of START TRANSACTION, ROLLBACK and COMMIT are ignored.         *)
(* After ROLLBACK the error code is returned, and zero means success.         *)
AfterTrue(c) ==
    CASE pc[c] = "begin" -> "statement"
      [] pc[c] = "statement" -> IF next[c] = Size[trans[c]] THEN "commit"
                                                            ELSE "statement"
      [] pc[c] = "commit" -> "succeeded"
      [] pc[c] = "rollback" -> IF code[c] = "none" THEN "succeeded" ELSE "failed"

(* Variants: a failed statement is skipped; a failed transaction is not       *)
(* rolled back.                                                               *)
AfterFalseGoOn(c) == AfterTrue(c)
AfterFalseLeave(c) == IF pc[c] = "statement" THEN "failed" ELSE AfterTrue(c)

AfterFalse(c) == IF pc[c] = "statement" THEN "rollback" ELSE AfterTrue(c)

Executing(c) == up /\ pc[c] \in {"begin", "statement", "commit", "rollback"}

Advance(c) ==
    /\ pc' = [pc EXCEPT ![c] = AfterTrue(c)]
    /\ next' = [next EXCEPT ![c] = IF pc[c] = "statement" /\ @ < Size[trans[c]]
                                   THEN @ + 1 ELSE @]
    /\ UNCHANGED <<trans, code, retries, deadlockLock, answer>>

FailWith(c, error) ==
    /\ pc' = [pc EXCEPT ![c] = AfterFalse(c)]
    /\ code' = [code EXCEPT ![c] = IF pc[c] = "statement" THEN error ELSE @]
    /\ UNCHANGED <<trans, next, retries, deadlockLock, answer>>

(* MySQLConnection::Execute succeeds.                                         *)
Executes(c) ==
    /\ Executing(c) /\ handle[c]
    /\ Advance(c)
    /\ applied' = Apply(trans[c], Permanent(c))
    /\ CASE pc[c] = "begin" ->
              /\ inTrans' = [inTrans EXCEPT ![c] = TRUE]
              /\ tentative' = [tentative EXCEPT ![c] = {}]
         [] pc[c] = "statement" ->
              /\ tentative' = IF inTrans[c]
                              THEN [tentative EXCEPT ![c] = @ \cup {next[c]}]
                              ELSE tentative
              /\ UNCHANGED inTrans
         [] OTHER -> LeaveTrans(c)
    /\ UNCHANGED <<handle, up, faults>>

(* The server rejects a statement, e.g. with ER_DUP_ENTRY; an open            *)
(* transaction stays open.                                                    *)
Rejected(c) ==
    /\ Executing(c) /\ handle[c] /\ pc[c] = "statement"
    /\ FailWith(c, "error")
    /\ UNCHANGED <<serverVars, handle, up, faults>>

(* The server refuses START TRANSACTION, and the session stays in autocommit  *)
(* mode; or COMMIT, and the storage engine rolls back what it cannot commit.  *)
(* Nobody looks at the result of either.                                      *)
Refused(c) ==
    /\ Executing(c) /\ handle[c] /\ pc[c] \in {"begin", "commit"}
    /\ FailWith(c, "error")
    /\ refused' = [refused EXCEPT ![trans[c]] = @ \cup {pc[c]}]
    /\ LeaveTrans(c)
    /\ UNCHANGED <<applied, handle, up, losses>>

(* Some errors, e.g. ER_NO_SUCH_TABLE or ER_PARSE_ERROR, abort the process.   *)
RejectedFatally(c) ==
    /\ Executing(c) /\ handle[c] /\ pc[c] = "statement"
    /\ up' = FALSE
    /\ LeaveTrans(c)
    /\ UNCHANGED <<threadVars, applied, handle, faults>>

(* The server breaks a deadlock with another open transaction by rolling      *)
(* this one back.                                                             *)
Deadlocked(c) ==
    /\ Executing(c) /\ handle[c] /\ pc[c] = "statement" /\ inTrans[c]
    /\ \E d \in Connections \ {c} : inTrans[d] /\ tentative[d] # {}
    /\ FailWith(c, "deadlock")
    /\ LeaveTrans(c)
    /\ UNCHANGED <<applied, handle, up, faults>>

(* The connection is lost, before or after the server executed the            *)
(* statement: the server forgets the session and what is tentative in it.     *)
SessionLost(c) ==
    /\ Executing(c) /\ handle[c] /\ losses < MaxLosses
    /\ losses' = losses + 1
    /\ LeaveTrans(c)
    /\ \E executed \in BOOLEAN :
          applied' = IF executed THEN Apply(trans[c], Permanent(c)) ELSE applied

(* Execute reconnects and executes the current statement again, on a new      *)
(* session.                                                                   *)
LostAndReconnected(c) ==
    /\ SessionLost(c)
    /\ UNCHANGED <<threadVars, handle, up, refused>>

(* Every attempt failed with CR_CONN_HOST_ERROR: the process aborts.          *)
LostAndAborted(c) ==
    /\ SessionLost(c)
    /\ up' = FALSE
    /\ UNCHANGED <<threadVars, handle, refused>>

(* GetLastError on a null handle: the client library answers with an error    *)
(* of no connection in particular, which may be zero.                         *)
NullErrno == {"none", "error"}

(* The first attempt failed with another error, such as the                   *)
(* CR_CONNECTION_ERROR of a local socket: no further attempt is made and      *)
(* the handle stays null.                                                     *)
LostForGood(c) ==
    /\ SessionLost(c)
    /\ handle' = [handle EXCEPT ![c] = FALSE]
    /\ \E error \in NullErrno : FailWith(c, error)
    /\ UNCHANGED <<up, refused>>

(* Execute returns false at once when there is no handle.                     *)
NoHandle(c) ==
    /\ Executing(c) /\ ~handle[c]
    /\ \E error \in NullErrno : FailWith(c, error)
    /\ UNCHANGED <<serverVars, handle, up, faults>>

----------------------------------------------------------------------------
(* The callers of ExecuteTransaction.                                         *)

(* ExecuteTransaction returns -1 for a transaction without statements.        *)
StartAttempt(c, t) ==
    /\ pc' = [pc EXCEPT ![c] = IF Size[t] = 0 THEN "failed" ELSE "begin"]
    /\ code' = [code EXCEPT ![c] = IF Size[t] = 0 THEN "error" ELSE "none"]
    /\ next' = [next EXCEPT ![c] = 1]

Take(c, t) ==
    /\ up /\ pc[c] = "idle" /\ answer[t] = "none"
    /\ StartAttempt(c, t)
    /\ trans' = [trans EXCEPT ![c] = t]
    /\ retries' = [retries EXCEPT ![c] = 0]
    /\ answer' = [answer EXCEPT ![t] = "pending"]
    /\ UNCHANGED <<deadlockLock, serverVars, handle, up, faults>>

(* Variant: _deadlockLock is kept.                                            *)
AnswerLocked(c, told) ==
    /\ answer' = [answer EXCEPT ![trans[c]] = told]
    /\ pc' = [pc EXCEPT ![c] = "idle"]
    /\ trans' = [trans EXCEPT ![c] = Null]
    /\ UNCHANGED <<next, code, retries, deadlockLock, serverVars, handle, up, faults>>

(* The promise is set, _deadlockLock released, the connection free again.     *)
Answer(c, told) ==
    /\ answer' = [answer EXCEPT ![trans[c]] = told]
    /\ deadlockLock' = IF deadlockLock = c THEN Null ELSE deadlockLock
    /\ pc' = [pc EXCEPT ![c] = "idle"]
    /\ trans' = [trans EXCEPT ![c] = Null]
    /\ UNCHANGED <<next, code, retries, serverVars, handle, up, faults>>

Succeed(c) == up /\ pc[c] = "succeeded" /\ Answer(c, "true")

(* Only a deadlock of the first attempt is retried, and then every failure    *)
(* is until the minute, or loopBreaker, has run out.                          *)
MayRetry(c) ==
    IF retries[c] = 0 THEN code[c] = "deadlock"
    ELSE retries[c] < (IF c \in Async THEN AsyncRetries ELSE SynchRetries)

Retry(c) ==
    /\ up /\ pc[c] = "failed" /\ MayRetry(c)
    /\ c \in Async => deadlockLock = c
    /\ StartAttempt(c, trans[c])
    /\ retries' = [retries EXCEPT ![c] = @ + 1]
    /\ UNCHANGED <<trans, deadlockLock, answer, serverVars, handle, up, faults>>

(* At most one worker of the process retries at a time.                       *)
LockDeadlock(c) ==
    /\ up /\ pc[c] = "failed" /\ c \in Async
    /\ retries[c] = 0 /\ code[c] = "deadlock"
    /\ deadlockLock = Null
    /\ deadlockLock' = c
    /\ UNCHANGED <<pc, trans, next, code, retries, answer, serverVars, handle,
                   up, faults>>

(* A worker's minute may be over before the bound on its retries.             *)
GiveUp(c) ==
    /\ up /\ pc[c] = "failed"
    /\ ~MayRetry(c) \/ (c \in Async /\ retries[c] > 0)
    /\ Answer(c, "false")

----------------------------------------------------------------------------
Step(c) ==
    \/ Executes(c) \/ Rejected(c) \/ Refused(c) \/ RejectedFatally(c)
    \/ Deadlocked(c) \/ NoHandle(c)
    \/ LostAndReconnected(c) \/ LostAndAborted(c) \/ LostForGood(c)
    \/ Succeed(c) \/ LockDeadlock(c) \/ Retry(c) \/ GiveUp(c)

AllAnswered == \A t \in Transactions : answer[t] \in {"true", "false"}

Terminated == (~up \/ AllAnswered) /\ UNCHANGED vars

Next ==
    \/ \E c \in Connections : Step(c) \/ \E t \in Transactions : Take(c, t)
    \/ Terminated

Spec == Init /\ [][Next]_vars

(* A thread that executes a transaction goes on; std::mutex is granted to     *)
(* one that keeps asking.                                                     *)
Fairness == \A c \in Connections : SF_vars(Step(c))

FairSpec == Spec /\ Fairness

----------------------------------------------------------------------------
(* Properties.                                                                *)

Effect(t, times) == \A k \in 1..Size[t] : applied[t][k] = times

(* "Begins an automanaged transaction pointer that will automatically         *)
(* rollback if not commited", says DatabaseWorkerPool.h: at any time all      *)
(* the statements of a transaction have taken effect once, or none has,       *)
(* however the attempts of several connections interleave and fail, COMMIT    *)
(* included, as long as no connection is lost and the server has opened the   *)
(* transaction it was asked for.                                              *)
AllOrNothing ==
    losses = 0 => \A t \in Transactions :
        "begin" \in refused[t] \/ Effect(t, 0) \/ Effect(t, 1)

(* The same sentence when connections are lost, of transactions whose         *)
(* execution is over, whatever was answered.                                  *)
WholeOnceAnswered ==
    \A t \in Transactions : answer[t] \in {"true", "false"} /\ refused[t] = {} =>
        Effect(t, 0) \/ Effect(t, 1)

(* The boolean handed to AfterComplete is wrong only about a transaction that *)
(* the server did not begin or did not commit when it was told to:            *)
(* ExecuteTransaction ignores both results.  Every other failure, retry and   *)
(* rollback is answered for what it is ("So to prevent data loss, we only     *)
(* clean up when it's all done"); and after a refused COMMIT, which is        *)
(* answered with "true", nothing has taken effect.                            *)
OnlyRefusalsMislead ==
    losses = 0 => \A t \in Transactions : "begin" \notin refused[t] =>
        /\ answer[t] = "true"  => Effect(t, IF "commit" \in refused[t] THEN 0 ELSE 1)
        /\ answer[t] = "false" => Effect(t, 0)

(* A connection is given back with no transaction open: what is left open     *)
(* would be committed by the START TRANSACTION of the next user.              *)
NothingLeftOpen == \A c \in Connections : pc[c] = "idle" => ~inTrans[c]

(* Whoever commits with a callback gets an answer, though a worker may        *)
(* have to wait for the retries of all the others.                            *)
EveryCommitAnswered ==
    \A t \in Transactions :
        answer[t] = "pending" ~> (answer[t] \in {"true", "false"} \/ ~up)
============================================================================
