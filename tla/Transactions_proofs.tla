------------------------- MODULE Transactions_proofs ------------------------
(* Proofs for Transactions: for any connections, any transactions of any size *)
(* and any number of retries and lost connections, no session is given back   *)
(* inside a transaction; and while no connection has been lost, a transaction *)
(* that the server has begun is all or nothing, and is answered for what it   *)
(* is unless its COMMIT is refused.                                           *)
EXTENDS Transactions, TLAPS

----------------------------------------------------------------------------
(* The inductive invariant                                                    *)

InExecute == {"begin", "statement", "commit", "rollback"}

(* A thread has a transaction that nobody else has, and that is not answered. *)
ThreadHolds ==
    \A c \in Connections :
        /\ pc[c] = "idle" <=> trans[c] = Null
        /\ trans[c] # Null => answer[trans[c]] = "pending"
        /\ \A d \in Connections : trans[c] # Null /\ trans[c] = trans[d] => c = d
        /\ pc[c] \in InExecute => next[c] \in 1..Size[trans[c]]
        /\ pc[c] = "begin" => next[c] = 1

(* A transaction is open on a session only between the calls of one attempt.  *)
SessionHolds ==
    \A c \in Connections :
        /\ inTrans[c] => handle[c] /\ pc[c] \in {"statement", "commit", "rollback"}
        /\ ~inTrans[c] => tentative[c] = {}

(* START TRANSACTION and COMMIT are refused in the course of an attempt, and  *)
(* a refused COMMIT ends the last one.                                        *)
RefusalHolds ==
    /\ \A t \in Transactions : answer[t] = "none" => refused[t] = {}
    /\ \A c \in Connections :
          pc[c] \notin {"idle", "succeeded"} => "commit" \notin refused[trans[c]]

(* What an attempt has open at the server, unless it was refused at its start.*)
Open(c, executed) == "begin" \in refused[trans[c]] \/ (inTrans[c] /\ tentative[c] = executed)

(* Until a connection is lost, an attempt has its transaction open, with what *)
(* it has executed, and knows when it has failed.                             *)
AttemptHolds ==
    losses = 0 => \A c \in Connections :
        /\ handle[c]
        /\ up /\ pc[c] = "statement" => Open(c, 1..next[c] - 1)
        /\ up /\ pc[c] = "commit" => Open(c, 1..Size[trans[c]])
        /\ pc[c] = "rollback" => code[c] # "none"

Told(t) == answer[t] = "true" \/ \E c \in Connections : trans[c] = t /\ pc[c] = "succeeded"

Committed(t) == Told(t) /\ "commit" \notin refused[t]

(* Until a connection is lost, what has been committed has taken effect once, *)
(* and nothing else has, of the transactions that were begun.                 *)
EffectHolds ==
    losses = 0 => \A t \in Transactions : "begin" \notin refused[t] =>
        \A k \in 1..Size[t] : applied[t][k] = IF Committed(t) THEN 1 ELSE 0

IInv ==
    /\ TypeOK /\ ThreadHolds /\ SessionHolds
    /\ RefusalHolds /\ AttemptHolds /\ EffectHolds

----------------------------------------------------------------------------
(* Facts about the operators                                                  *)

LEMMA Constant ==
    /\ Null \notin Connections /\ Null \notin Transactions
    /\ \A t \in Transactions : Size[t] \in Nat /\ 1..Size[t] \subseteq Statements
    /\ SynchRetries \in Nat /\ AsyncRetries \in Nat \ {0} /\ MaxLosses \in Nat
    /\ Async \subseteq Connections
BY TransactionsAssumption DEF Statements, Connections

(* Apply counts the statements of S for t, and changes nothing else.          *)
LEMMA ApplyFacts ==
    ASSUME TypeOK, NEW t \in Transactions, NEW S
    PROVE  /\ DOMAIN Apply(t, S) = Transactions
           /\ \A u \in Transactions : Apply(t, S)[u] \in [1..Size[u] -> Nat]
           /\ \A u \in Transactions : u # t => Apply(t, S)[u] = applied[u]
           /\ \A k \in 1..Size[t] :
                 Apply(t, S)[t][k] = IF k \in S THEN applied[t][k] + 1 ELSE applied[t][k]
<1>1. /\ DOMAIN applied = Transactions /\ applied[t] \in [1..Size[t] -> Nat]
      /\ \A u \in Transactions : applied[u] \in [1..Size[u] -> Nat]
  BY DEF TypeOK
<1> DEFINE f == [k \in 1..Size[t] |-> IF k \in S THEN applied[t][k] + 1 ELSE applied[t][k]]
<1>2. Apply(t, S) = [applied EXCEPT ![t] = f]
  BY <1>1 DEF Apply
<1>3. f \in [1..Size[t] -> Nat]
  BY <1>1
<1> QED BY <1>1, <1>2, <1>3

LEMMA BusyThread ==
    ASSUME IInv, NEW c \in Connections, pc[c] # "idle"
    PROVE  /\ trans[c] \in Transactions /\ Size[trans[c]] \in Nat
           /\ answer[trans[c]] = "pending"
BY Constant DEF IInv, TypeOK, ThreadHolds

----------------------------------------------------------------------------
(* Steps inside ExecuteTransaction                                            *)

(* What a call of Execute that returned leaves of the thread's state.         *)
LEMMA ThreadGoesOn ==
    ASSUME IInv, NEW c \in Connections, Executing(c),
           \/ Advance(c) /\ code' = code
           \/ \E e \in {"none", "deadlock", "error"} : FailWith(c, e)
    PROVE  /\ ThreadHolds'
           /\ pc' \in [Connections -> {"idle", "begin", "statement", "commit",
                                       "rollback", "succeeded", "failed", "lock"}]
           /\ next' \in [Connections -> Statements \cup {1}]
           /\ code' \in [Connections -> {"none", "deadlock", "error"}]
           /\ UNCHANGED <<trans, retries, deadlockLock, answer>>
           /\ pc'[c] \in {"statement", "commit", "rollback", "succeeded", "failed"}
<1> USE DEF IInv
<1>1. trans[c] \in Transactions /\ Size[trans[c]] \in Nat /\ 1..Size[trans[c]] \subseteq Statements
  BY BusyThread, Constant DEF Executing
<1>2. next[c] \in 1..Size[trans[c]]
  BY DEF Executing, ThreadHolds, InExecute
<1>3. PICK l \in {"statement", "commit", "rollback", "succeeded", "failed"} :
        pc' = [pc EXCEPT ![c] = l]
  BY DEF Executing, Advance, FailWith, AfterTrue, AfterFalse
<1>4. PICK n \in 1..Size[trans[c]] : next' = [next EXCEPT ![c] = n]
  <2>1. CASE Advance(c)
    <3> DEFINE m == IF pc[c] = "statement" /\ next[c] < Size[trans[c]] THEN next[c] + 1 ELSE next[c]
    <3>1. m \in 1..Size[trans[c]]
      BY <1>1, <1>2
    <3>2. next' = [next EXCEPT ![c] = m]
      BY <2>1 DEF Advance
    <3> HIDE DEF m
    <3> QED BY <3>1, <3>2
  <2>2. CASE \E e \in {"none", "deadlock", "error"} : FailWith(c, e)
    <3>1. next' = next
      BY <2>2 DEF FailWith
    <3>2. next = [next EXCEPT ![c] = next[c]]
      BY DEF TypeOK
    <3> QED BY <1>2, <3>1, <3>2
  <2> QED BY <2>1, <2>2
<1>5. UNCHANGED <<trans, retries, deadlockLock, answer>>
  BY DEF Advance, FailWith
<1>6. code' \in [Connections -> {"none", "deadlock", "error"}]
  BY DEF Advance, FailWith, TypeOK
<1>7. /\ pc' \in [Connections -> {"idle", "begin", "statement", "commit",
                                  "rollback", "succeeded", "failed", "lock"}]
      /\ next' \in [Connections -> Statements \cup {1}]
  BY <1>1, <1>3, <1>4 DEF TypeOK
<1>8. \A d \in Connections : /\ d # c => pc'[d] = pc[d] /\ next'[d] = next[d]
                             /\ pc'[c] = l /\ next'[c] = n
  BY <1>3, <1>4 DEF TypeOK
<1>9. ThreadHolds'
  BY <1>1, <1>5, <1>8, Constant DEF ThreadHolds, InExecute, TypeOK, Executing
<1> QED BY <1>3, <1>5, <1>6, <1>7, <1>8, <1>9

(* A step of an attempt after which nothing more has been refused.            *)
LEMMA RefusalKept ==
    ASSUME RefusalHolds, NEW c \in Connections, UNCHANGED <<refused, answer, trans>>,
           \A d \in Connections \ {c} : pc'[d] = pc[d],
           pc[c] \notin {"idle", "succeeded"} \/ pc'[c] = pc[c]
    PROVE  RefusalHolds'
BY DEF RefusalHolds

(* Nobody else's session, attempt or transaction is touched.                  *)
OnlySession(c) ==
    /\ \E b \in BOOLEAN : inTrans' = [inTrans EXCEPT ![c] = b]
    /\ \E S \in SUBSET Statements : tentative' = [tentative EXCEPT ![c] = S]

LEMMA ExecutesHolds ==
    ASSUME IInv, NEW c \in Connections, Executes(c)
    PROVE  IInv'
<1> USE DEF IInv
<1>0. PICK t : t = trans[c]
  OBVIOUS
<1>1. /\ Executing(c) /\ handle[c] /\ Advance(c) /\ code' = code
      /\ UNCHANGED <<handle, up, losses, refused>> /\ up
  BY DEF Executes, Advance, Executing, faults
<1>2. t \in Transactions /\ Size[t] \in Nat /\ 1..Size[t] \subseteq Statements
  BY <1>0, <1>1, BusyThread, Constant DEF Executing
<1>3. next[c] \in 1..Size[t]
  BY <1>0, <1>1 DEF Executing, ThreadHolds, InExecute
<1>4. applied' = Apply(t, Permanent(c))
  BY <1>0 DEF Executes
<1>5. /\ ThreadHolds'
      /\ pc' \in [Connections -> {"idle", "begin", "statement", "commit",
                                  "rollback", "succeeded", "failed", "lock"}]
      /\ next' \in [Connections -> Statements \cup {1}]
      /\ code' \in [Connections -> {"none", "deadlock", "error"}]
      /\ UNCHANGED <<trans, retries, deadlockLock, answer>>
  BY <1>1, ThreadGoesOn
<1>6. PICK l : pc' = [pc EXCEPT ![c] = l] /\ l = AfterTrue(c)
  BY <1>1 DEF Advance
<1>7. PICK n : /\ next' = [next EXCEPT ![c] = n] 
            /\ n = IF pc[c] = "statement" /\ next[c] < Size[t] THEN next[c] + 1 ELSE next[c]
  BY <1>0, <1>1 DEF Advance, TypeOK
<1>8. /\ pc'[c] = AfterTrue(c) /\ \A d \in Connections \ {c} : pc'[d] = pc[d] /\ next'[d] = next[d]
      /\ next'[c] = IF pc[c] = "statement" /\ next[c] < Size[t] THEN next[c] + 1 ELSE next[c]
  BY <1>6, <1>7 DEF TypeOK
<1>9. OnlySession(c)
  <2>1. CASE pc[c] = "statement"
    <3>1. inTrans' = [inTrans EXCEPT ![c] = inTrans[c]] /\ inTrans[c] \in BOOLEAN
      BY <2>1 DEF Executes, TypeOK
    <3>2. \/ tentative' = [tentative EXCEPT ![c] = tentative[c]]
          \/ tentative' = [tentative EXCEPT ![c] = tentative[c] \cup {next[c]}]
      BY <2>1 DEF Executes, TypeOK
    <3>3. tentative[c] \in SUBSET Statements /\ tentative[c] \cup {next[c]} \in SUBSET Statements
      BY <1>2, <1>3 DEF TypeOK
    <3> QED BY <3>1, <3>2, <3>3 DEF OnlySession
  <2>2. CASE pc[c] # "statement"
    BY <2>2 DEF Executes, LeaveTrans, OnlySession
  <2> QED BY <2>1, <2>2
<1>10. TypeOK'
  <2>1. inTrans' \in [Connections -> BOOLEAN] /\ tentative' \in [Connections -> SUBSET Statements]
    BY <1>9 DEF TypeOK, OnlySession
  <2>2. /\ DOMAIN applied' = Transactions
        /\ \A u \in Transactions : applied'[u] \in [1..Size[u] -> Nat]
    BY <1>2, <1>4, ApplyFacts
  <2> QED BY <1>1, <1>5, <2>1, <2>2 DEF TypeOK
<1>11. /\ \A d \in Connections \ {c} : inTrans'[d] = inTrans[d] /\ tentative'[d] = tentative[d]
       /\ CASE pc[c] = "begin" -> inTrans'[c] /\ tentative'[c] = {}
                                  /\ pc'[c] = "statement" /\ next'[c] = next[c]
            [] pc[c] = "statement" -> /\ inTrans'[c] = inTrans[c]
                                      /\ tentative'[c] = IF inTrans[c] THEN tentative[c] \cup {next[c]} ELSE tentative[c]
                                      /\ pc'[c] = IF next[c] = Size[t] THEN "commit" ELSE "statement"
            [] pc[c] \in {"commit", "rollback"} -> ~inTrans'[c] /\ tentative'[c] = {}
                                                 /\ pc'[c] \in {"succeeded", "failed"}
  <2>1. \A d \in Connections \ {c} : inTrans'[d] = inTrans[d] /\ tentative'[d] = tentative[d]
    BY <1>9 DEF OnlySession, TypeOK
  <2>2. CASE pc[c] = "begin"
    BY <1>8, <2>1, <2>2 DEF Executes, TypeOK, AfterTrue
  <2>3. CASE pc[c] = "statement"
    BY <1>0, <1>8, <2>1, <2>3 DEF Executes, TypeOK, AfterTrue
  <2>4. CASE pc[c] \in {"commit", "rollback"}
    BY <1>8, <2>1, <2>4 DEF Executes, TypeOK, AfterTrue, LeaveTrans
  <2> QED BY <1>1, <2>1, <2>2, <2>3, <2>4 DEF Executing
<1>12. SessionHolds'
  BY <1>1, <1>8, <1>11 DEF SessionHolds, Executing
<1>13. AttemptHolds'
  <2> SUFFICES ASSUME losses = 0, NEW d \in Connections
               PROVE /\ handle'[d]
                     /\ up' /\ pc'[d] = "statement" => Open(d, 1..next[d] - 1)'
                     /\ up' /\ pc'[d] = "commit" => Open(d, 1..Size[trans[d]])'
                     /\ pc'[d] = "rollback" => code'[d] # "none"
    BY <1>1 DEF AttemptHolds
  <2>1. CASE d # c
    BY <1>1, <1>5, <1>8, <1>11, <2>1 DEF AttemptHolds, Open
  <2>2. CASE d = c /\ pc[c] = "begin"
    <3>1. next'[c] = 1
      BY <1>8, <2>2 DEF ThreadHolds
    <3> QED BY <1>1, <1>11, <2>2, <3>1 DEF Open
  <2>3. CASE d = c /\ pc[c] = "statement"
    <3>1. CASE "begin" \in refused[t]
      BY <1>0, <1>1, <1>5, <1>8, <1>11, <2>3, <3>1 DEF Open, AttemptHolds
    <3>2. CASE "begin" \notin refused[t]
      <4>1. inTrans[c] /\ tentative[c] = 1..next[c] - 1
        BY <1>0, <1>1, <2>3, <3>2 DEF AttemptHolds, Open
      <4>2. tentative'[c] = 1..next[c] - 1 \cup {next[c]} /\ inTrans'[c] /\ handle'[c]
        BY <1>1, <1>11, <2>3, <4>1
      <4>3. CASE next[c] = Size[t]
        <5>1. pc'[c] = "commit" /\ trans'[c] = t
          BY <1>0, <1>5, <1>11, <2>3, <4>3
        <5>2. tentative'[c] = 1..Size[t]
          BY <1>2, <1>3, <4>2, <4>3
        <5> QED BY <2>3, <4>2, <5>1, <5>2 DEF Open
      <4>4. CASE next[c] # Size[t]
        <5>1. pc'[c] = "statement" /\ next'[c] = next[c] + 1
          BY <1>2, <1>3, <1>8, <1>11, <2>3, <4>4
        <5>2. tentative'[c] = 1..next'[c] - 1
          BY <1>2, <1>3, <4>2, <5>1
        <5> QED BY <2>3, <4>2, <5>1, <5>2 DEF Open
      <4> QED BY <4>3, <4>4
    <3> QED BY <3>1, <3>2
  <2>4. CASE d = c /\ pc[c] \in {"commit", "rollback"}
    BY <1>1, <1>11, <2>4 DEF AttemptHolds
  <2> QED BY <1>1, <2>1, <2>2, <2>3, <2>4 DEF Executing
<1>14. EffectHolds'
  <2> SUFFICES ASSUME losses = 0, NEW u \in Transactions, "begin" \notin refused[u],
                      NEW k \in 1..Size[u]
               PROVE  applied'[u][k] = IF Committed(u)' THEN 1 ELSE 0
    BY <1>1 DEF EffectHolds
  <2>1. applied[u][k] = IF Committed(u) THEN 1 ELSE 0
    BY DEF EffectHolds
  <2>2. /\ answer' = answer /\ trans' = trans /\ refused' = refused
        /\ \A d \in Connections : d # c => pc'[d] = pc[d]
    BY <1>1, <1>5, <1>8
  <2>3. CASE u # t
    <3>1. Committed(u)' = Committed(u)
      BY <1>0, <2>2, <2>3 DEF Committed, Told
    <3> QED BY <1>2, <1>4, <2>1, <2>3, <3>1, ApplyFacts
  <2>4. CASE u = t
    <3>1. ~Told(t) /\ "commit" \notin refused[t]
      BY <1>0, <1>1 DEF Told, ThreadHolds, RefusalHolds, Executing
    <3>2. applied[t][k] = 0
      BY <2>1, <2>4, <3>1 DEF Committed
    <3>3. applied'[t][k] = IF k \in Permanent(c) THEN 1 ELSE 0
      BY <1>0, <1>2, <1>4, <2>4, <3>2, ApplyFacts
    <3>4. Committed(t)' <=> pc'[c] = "succeeded"
      BY <1>0, <2>2, <3>1 DEF Committed, Told
    <3>5. CASE pc[c] = "commit"
      <4>1. tentative[c] = 1..Size[t]
        BY <1>0, <1>1, <2>4, <3>5 DEF AttemptHolds, Open
      <4>2. Permanent(c) = 1..Size[t]
        BY <3>5, <4>1 DEF Permanent
      <4>3. pc'[c] = "succeeded"
        BY <1>8, <3>5 DEF AfterTrue
      <4> QED BY <2>4, <3>3, <3>4, <4>2, <4>3
    <3>6. CASE pc[c] \in {"begin", "statement", "rollback"}
      <4>1. Permanent(c) = {}
        <5>1. CASE pc[c] = "begin"
          BY <5>1 DEF Permanent, SessionHolds
        <5>2. CASE pc[c] = "statement"
          BY <1>0, <1>1, <2>4, <5>2 DEF Permanent, AttemptHolds, Open
        <5>3. CASE pc[c] = "rollback"
          BY <5>3 DEF Permanent
        <5> QED BY <3>6, <5>1, <5>2, <5>3
      <4>2. pc'[c] # "succeeded"
        BY <1>8, <3>6 DEF AttemptHolds, AfterTrue
      <4> QED BY <2>4, <3>3, <3>4, <4>1, <4>2
    <3> QED BY <1>1, <3>5, <3>6 DEF Executing
  <2> QED BY <2>3, <2>4
<1>15. RefusalHolds'
  BY <1>1, <1>5, <1>8, RefusalKept DEF Executing
<1> QED BY <1>5, <1>10, <1>12, <1>13, <1>14, <1>15

(* A step after which no more has been committed than before.                 *)
LEMMA EffectKept ==
    ASSUME EffectHolds, NEW c \in Connections,
           UNCHANGED <<applied, answer, trans, losses, refused>>,
           \A d \in Connections \ {c} : pc'[d] = pc[d],
           pc[c] # "succeeded", losses = 0 => pc'[c] # "succeeded"
    PROVE  EffectHolds'
<1> SUFFICES ASSUME losses = 0, NEW t \in Transactions, "begin" \notin refused[t],
                    NEW k \in 1..Size[t]
             PROVE  applied[t][k] = IF Committed(t)' THEN 1 ELSE 0
  BY DEF EffectHolds
<1>1. Committed(t)' = Committed(t)
  BY DEF Committed, Told
<1> QED BY <1>1 DEF EffectHolds

(* A statement fails, and the server keeps its session or leaves it.          *)
LEMMA FailedHolds ==
    ASSUME IInv, NEW c \in Connections, Rejected(c) \/ Deadlocked(c)
    PROVE  IInv'
<1> USE DEF IInv
<1>1. /\ Executing(c) /\ pc[c] = "statement" /\ UNCHANGED <<handle, up, losses, refused, applied>>
      /\ FailWith(c, "error") \/ FailWith(c, "deadlock")
      /\ UNCHANGED <<inTrans, tentative>> \/ LeaveTrans(c)
  BY DEF Rejected, Deadlocked, serverVars, faults
<1>2. /\ ThreadHolds'
      /\ pc' \in [Connections -> {"idle", "begin", "statement", "commit",
                                  "rollback", "succeeded", "failed", "lock"}]
      /\ next' \in [Connections -> Statements \cup {1}]
      /\ code' \in [Connections -> {"none", "deadlock", "error"}]
      /\ UNCHANGED <<trans, retries, deadlockLock, answer>>
  BY <1>1, ThreadGoesOn
<1>3. /\ pc' = [pc EXCEPT ![c] = "rollback"] /\ code'[c] # "none"
      /\ UNCHANGED next /\ \A d \in Connections \ {c} : code'[d] = code[d]
  BY <1>1 DEF FailWith, AfterFalse, TypeOK
<1>4. /\ pc'[c] = "rollback" /\ \A d \in Connections \ {c} : pc'[d] = pc[d]
      /\ \A d \in Connections \ {c} : inTrans'[d] = inTrans[d] /\ tentative'[d] = tentative[d]
      /\ \/ inTrans'[c] = inTrans[c] /\ tentative'[c] = tentative[c]
         \/ ~inTrans'[c] /\ tentative'[c] = {}
  BY <1>1, <1>3 DEF LeaveTrans, TypeOK
<1>5. TypeOK'
  <2>1. inTrans' \in [Connections -> BOOLEAN] /\ tentative' \in [Connections -> SUBSET Statements]
    BY <1>1 DEF LeaveTrans, TypeOK
  <2> QED BY <1>1, <1>2, <2>1 DEF TypeOK
<1>6. SessionHolds'
  BY <1>1, <1>4 DEF SessionHolds
<1>7. AttemptHolds'
  BY <1>1, <1>2, <1>3, <1>4 DEF AttemptHolds, Open
<1>8. EffectHolds'
  BY <1>1, <1>2, <1>4, EffectKept
<1>9. RefusalHolds'
  BY <1>1, <1>2, <1>4, RefusalKept
<1> QED BY <1>2, <1>5, <1>6, <1>7, <1>8, <1>9

(* START TRANSACTION or COMMIT is refused, and ExecuteTransaction goes on.    *)
LEMMA RefusedHolds ==
    ASSUME IInv, NEW c \in Connections, Refused(c)
    PROVE  IInv'
<1> USE DEF IInv
<1>0. PICK t : t = trans[c]
  OBVIOUS
<1>1. /\ Executing(c) /\ pc[c] \in {"begin", "commit"}
      /\ FailWith(c, "error") /\ LeaveTrans(c) /\ UNCHANGED <<handle, up, losses, applied>>
      /\ refused' = [refused EXCEPT ![t] = @ \cup {pc[c]}]
  BY <1>0 DEF Refused
<1>2. t \in Transactions /\ answer[t] = "pending"
  BY <1>0, <1>1, BusyThread DEF Executing
<1>3. /\ ThreadHolds'
      /\ pc' \in [Connections -> {"idle", "begin", "statement", "commit",
                                  "rollback", "succeeded", "failed", "lock"}]
      /\ next' \in [Connections -> Statements \cup {1}]
      /\ code' \in [Connections -> {"none", "deadlock", "error"}]
      /\ UNCHANGED <<trans, retries, deadlockLock, answer>>
  BY <1>1, ThreadGoesOn
<1>4. /\ pc' = [pc EXCEPT ![c] = IF pc[c] = "begin" THEN "statement" ELSE "succeeded"]
      /\ UNCHANGED <<code, next>>
  BY <1>1 DEF FailWith, AfterFalse, AfterTrue, TypeOK
<1>5. /\ pc'[c] = IF pc[c] = "begin" THEN "statement" ELSE "succeeded"
      /\ \A d \in Connections \ {c} : pc'[d] = pc[d]
      /\ \A d \in Connections \ {c} : inTrans'[d] = inTrans[d] /\ tentative'[d] = tentative[d]
      /\ ~inTrans'[c] /\ tentative'[c] = {}
  BY <1>1, <1>4 DEF LeaveTrans, TypeOK
<1>6. /\ refused'[t] = refused[t] \cup {pc[c]}
      /\ \A u \in Transactions \ {t} : refused'[u] = refused[u]
  BY <1>1, <1>2 DEF TypeOK
<1>7. \A d \in Connections \ {c} : trans[d] # t
  BY <1>0, <1>2, Constant DEF ThreadHolds
<1>8. TypeOK'
  <2>1. inTrans' \in [Connections -> BOOLEAN] /\ tentative' \in [Connections -> SUBSET Statements]
    BY <1>1 DEF LeaveTrans, TypeOK
  <2>2. refused' \in [Transactions -> SUBSET {"begin", "commit"}]
    BY <1>1 DEF TypeOK
  <2> QED BY <1>1, <1>3, <2>1, <2>2 DEF TypeOK
<1>9. SessionHolds'
  BY <1>1, <1>5 DEF SessionHolds
<1>10. RefusalHolds'
  <2>1. \A u \in Transactions : answer'[u] = "none" => refused'[u] = {}
    BY <1>2, <1>3, <1>6 DEF RefusalHolds
  <2>2. ASSUME NEW d \in Connections, pc'[d] \notin {"idle", "succeeded"}
        PROVE  "commit" \notin refused'[trans'[d]]
    <3>1. CASE d = c
      <4>1. pc[c] = "begin" /\ "commit" \notin refused[t]
        BY <1>0, <1>1, <1>5, <2>2, <3>1 DEF RefusalHolds
      <4> QED BY <1>0, <1>3, <1>6, <3>1, <4>1
    <3>2. CASE d # c
      <4>1. trans[d] \in Transactions /\ pc[d] \notin {"idle", "succeeded"}
        BY <1>5, <2>2, <3>2, BusyThread
      <4> QED BY <1>3, <1>6, <1>7, <3>2, <4>1 DEF RefusalHolds
    <3> QED BY <3>1, <3>2
  <2> QED BY <2>1, <2>2 DEF RefusalHolds
<1>11. AttemptHolds'
  <2> SUFFICES ASSUME losses = 0, NEW d \in Connections
               PROVE /\ handle'[d]
                     /\ up' /\ pc'[d] = "statement" => Open(d, 1..next[d] - 1)'
                     /\ up' /\ pc'[d] = "commit" => Open(d, 1..Size[trans[d]])'
                     /\ pc'[d] = "rollback" => code'[d] # "none"
    BY <1>1 DEF AttemptHolds
  <2>1. CASE d = c
    BY <1>0, <1>1, <1>3, <1>5, <1>6, <2>1 DEF AttemptHolds, Open
  <2>2. CASE d # c /\ pc[d] = "idle"
    BY <1>1, <1>5, <2>2 DEF AttemptHolds
  <2>3. CASE d # c /\ pc[d] # "idle"
    <3>1. refused'[trans'[d]] = refused[trans[d]]
      BY <1>3, <1>6, <1>7, <2>3, BusyThread
    <3> QED BY <1>1, <1>3, <1>4, <1>5, <2>3, <3>1 DEF AttemptHolds, Open
  <2> QED BY <2>1, <2>2, <2>3
<1>12. EffectHolds'
  <2> SUFFICES ASSUME losses = 0, NEW u \in Transactions, "begin" \notin refused'[u],
                      NEW k \in 1..Size[u]
               PROVE  applied[u][k] = IF Committed(u)' THEN 1 ELSE 0
    BY <1>1 DEF EffectHolds
  <2>1. CASE u = t
    <3>1. "commit" \in refused'[t] /\ "begin" \notin refused[t]
      BY <1>1, <1>6, <2>1
    <3>2. ~Told(t)
      BY <1>0, <1>1, <1>2, <1>7 DEF Told
    <3> QED BY <2>1, <3>1, <3>2 DEF EffectHolds, Committed
  <2>2. CASE u # t
    <3>1. Told(u)' = Told(u)
      BY <1>0, <1>3, <1>5, <2>2 DEF Told
    <3> QED BY <1>6, <2>2, <3>1 DEF EffectHolds, Committed
  <2> QED BY <2>1, <2>2
<1> QED BY <1>3, <1>8, <1>9, <1>10, <1>11, <1>12

LEMMA FatallyHolds ==
    ASSUME IInv, NEW c \in Connections, RejectedFatally(c)
    PROVE  IInv'
<1> USE DEF IInv, RejectedFatally, LeaveTrans, threadVars, faults
<1>1. TypeOK'
  BY DEF TypeOK
<1>2. ThreadHolds'
  BY DEF ThreadHolds
<1>3. SessionHolds'
  BY DEF SessionHolds, TypeOK
<1>4. AttemptHolds'
  BY DEF AttemptHolds, Open
<1>5. EffectHolds'
  BY DEF EffectHolds, Committed, Told
<1>6. RefusalHolds'
  BY DEF RefusalHolds
<1> QED BY <1>1, <1>2, <1>3, <1>4, <1>5, <1>6

(* Without a handle there is no session, and a connection has been lost.      *)
LEMMA NoHandleHolds ==
    ASSUME IInv, NEW c \in Connections, NoHandle(c)
    PROVE  IInv'
<1> USE DEF IInv
<1>1. /\ Executing(c) /\ ~handle[c] /\ UNCHANGED <<inTrans, tentative, applied, handle, up, losses,
                                                    refused>>
      /\ \E e \in {"none", "deadlock", "error"} : FailWith(c, e)
  BY DEF NoHandle, NullErrno, serverVars, faults
<1>2. /\ ThreadHolds'
      /\ pc' \in [Connections -> {"idle", "begin", "statement", "commit",
                                  "rollback", "succeeded", "failed", "lock"}]
      /\ next' \in [Connections -> Statements \cup {1}]
      /\ code' \in [Connections -> {"none", "deadlock", "error"}]
      /\ UNCHANGED <<trans, retries, deadlockLock, answer>>
  BY <1>1, ThreadGoesOn
<1>3. ~inTrans[c] /\ losses # 0
  BY <1>1 DEF SessionHolds, AttemptHolds
<1>4. \A d \in Connections \ {c} : pc'[d] = pc[d]
  BY <1>1 DEF FailWith, TypeOK
<1>5. TypeOK'
  BY <1>1, <1>2 DEF TypeOK
<1>6. SessionHolds'
  BY <1>1, <1>3, <1>4 DEF SessionHolds
<1>7. AttemptHolds' /\ EffectHolds'
  BY <1>1, <1>3 DEF AttemptHolds, EffectHolds
<1>8. RefusalHolds'
  BY <1>1, <1>2, <1>4, RefusalKept DEF Executing
<1> QED BY <1>2, <1>5, <1>6, <1>7, <1>8

LEMMA LostHolds ==
    ASSUME IInv, NEW c \in Connections,
           LostAndReconnected(c) \/ LostAndAborted(c) \/ LostForGood(c)
    PROVE  IInv'
<1> USE DEF IInv
<1>1. /\ Executing(c) /\ losses < MaxLosses /\ losses' = losses + 1
      /\ LeaveTrans(c)
      /\ applied' = applied \/ applied' = Apply(trans[c], Permanent(c))
      /\ UNCHANGED refused
  BY DEF LostAndReconnected, LostAndAborted, LostForGood, SessionLost
<1>2. \/ UNCHANGED <<pc, trans, next, code, retries, deadlockLock, answer, handle>>
      \/ /\ \E e \in {"none", "deadlock", "error"} : FailWith(c, e)
         /\ handle' = [handle EXCEPT ![c] = FALSE]
  BY DEF LostAndReconnected, LostAndAborted, LostForGood, NullErrno, threadVars
<1>3. /\ ThreadHolds'
      /\ pc' \in [Connections -> {"idle", "begin", "statement", "commit",
                                  "rollback", "succeeded", "failed", "lock"}]
      /\ next' \in [Connections -> Statements \cup {1}]
      /\ code' \in [Connections -> {"none", "deadlock", "error"}]
      /\ UNCHANGED <<trans, retries, deadlockLock, answer>>
  <2>1. CASE UNCHANGED <<pc, trans, next, code, retries, deadlockLock, answer>>
    BY <2>1 DEF ThreadHolds, TypeOK
  <2> QED BY <1>1, <1>2, <2>1, ThreadGoesOn
<1>4. \A d \in Connections \ {c} : /\ pc'[d] = pc[d] /\ handle'[d] = handle[d]
                                   /\ inTrans'[d] = inTrans[d] /\ tentative'[d] = tentative[d]
  BY <1>1, <1>2 DEF FailWith, LeaveTrans, TypeOK
<1>5. ~inTrans'[c] /\ tentative'[c] = {}
  BY <1>1 DEF LeaveTrans, TypeOK
<1>6. TypeOK'
  <2>1. /\ handle' \in [Connections -> BOOLEAN]
        /\ up' \in BOOLEAN
        /\ losses' \in 0..MaxLosses
    <3>1. handle' \in [Connections -> BOOLEAN]
      BY <1>2 DEF TypeOK
    <3>2. up' \in BOOLEAN
      BY DEF LostAndReconnected, LostAndAborted, LostForGood, TypeOK
    <3>3. losses' \in 0..MaxLosses
      BY <1>1, Constant DEF TypeOK
    <3> QED BY <3>1, <3>2, <3>3
  <2>2. inTrans' \in [Connections -> BOOLEAN] /\ tentative' \in [Connections -> SUBSET Statements]
    BY <1>1 DEF LeaveTrans, TypeOK
  <2>3. trans[c] \in Transactions
    BY <1>1, BusyThread DEF Executing
  <2>4. /\ DOMAIN applied' = Transactions
        /\ \A u \in Transactions : applied'[u] \in [1..Size[u] -> Nat]
    BY <1>1, <2>3, ApplyFacts DEF TypeOK
  <2> QED BY <1>1, <1>3, <2>1, <2>2, <2>4 DEF TypeOK
<1>7. SessionHolds'
  BY <1>4, <1>5 DEF SessionHolds
<1>8. AttemptHolds' /\ EffectHolds'
  <2>1. losses' # 0
    BY <1>1 DEF TypeOK
  <2> QED BY <2>1 DEF AttemptHolds, EffectHolds
<1>9. RefusalHolds'
  BY <1>1, <1>3, <1>4, RefusalKept DEF Executing
<1> QED BY <1>3, <1>6, <1>7, <1>8, <1>9

----------------------------------------------------------------------------
(* The callers                                                                *)

(* An attempt begins: the thread has no transaction open.                     *)
LEMMA StartHolds ==
    ASSUME IInv, NEW c \in Connections, NEW t \in Transactions, StartAttempt(c, t),
           pc[c] \in {"idle", "failed"}
    PROVE  /\ pc' \in [Connections -> {"idle", "begin", "statement", "commit",
                                       "rollback", "succeeded", "failed", "lock"}]
           /\ next' \in [Connections -> Statements \cup {1}]
           /\ code' \in [Connections -> {"none", "deadlock", "error"}]
           /\ \A d \in Connections \ {c} : pc'[d] = pc[d] /\ next'[d] = next[d] /\ code'[d] = code[d]
           /\ next'[c] = 1 /\ pc'[c] \in {"begin", "failed"}
           /\ pc'[c] = "begin" => Size[t] # 0
BY DEF IInv, TypeOK, StartAttempt

LEMMA TakeHolds ==
    ASSUME IInv, NEW c \in Connections, NEW t \in Transactions, Take(c, t)
    PROVE  IInv'
<1> USE DEF IInv
<1>1. /\ up /\ pc[c] = "idle" /\ answer[t] = "none" /\ StartAttempt(c, t)
      /\ trans' = [trans EXCEPT ![c] = t] /\ answer' = [answer EXCEPT ![t] = "pending"]
      /\ retries' = [retries EXCEPT ![c] = 0]
      /\ UNCHANGED <<deadlockLock, inTrans, tentative, applied, handle, up, losses, refused>>
  BY DEF Take, serverVars, faults
<1>2. /\ pc' \in [Connections -> {"idle", "begin", "statement", "commit",
                                  "rollback", "succeeded", "failed", "lock"}]
      /\ next' \in [Connections -> Statements \cup {1}]
      /\ code' \in [Connections -> {"none", "deadlock", "error"}]
      /\ \A d \in Connections \ {c} : pc'[d] = pc[d] /\ next'[d] = next[d] /\ code'[d] = code[d]
      /\ next'[c] = 1 /\ pc'[c] \in {"begin", "failed"}
      /\ pc'[c] = "begin" => Size[t] # 0
  BY <1>1, StartHolds
<1>3. /\ trans'[c] = t /\ \A d \in Connections \ {c} : trans'[d] = trans[d]
      /\ answer'[t] = "pending" /\ \A u \in Transactions \ {t} : answer'[u] = answer[u]
  BY <1>1 DEF TypeOK
<1>4. TypeOK'
  <2>1. trans' \in [Connections -> Transactions \cup {Null}]
    BY <1>1 DEF TypeOK
  <2>2. answer' \in [Transactions -> {"none", "pending", "true", "false"}]
    BY <1>1 DEF TypeOK
  <2>3. retries' \in [Connections -> 0..SynchRetries \cup 0..AsyncRetries]
    <3>1. 0 \in 0..SynchRetries \cup 0..AsyncRetries
      BY Constant
    <3> QED BY <1>1, <3>1 DEF TypeOK
  <2> QED BY <1>1, <1>2, <2>1, <2>2, <2>3 DEF TypeOK
<1>5. \A d \in Connections : trans[d] # t
  BY <1>1, Constant DEF ThreadHolds
<1>6. ThreadHolds'
  <2>1. \A d \in Connections : trans[d] \in Transactions \cup {Null}
    BY DEF TypeOK
  <2>2. Size[t] # 0 => 1 \in 1..Size[t]
    BY Constant
  <2> QED BY <1>2, <1>3, <1>5, <2>1, <2>2, Constant DEF ThreadHolds, InExecute
<1>7. SessionHolds'
  BY <1>1, <1>2 DEF SessionHolds
<1>8. AttemptHolds'
  BY <1>1, <1>2, <1>3 DEF AttemptHolds, Open
<1>9. EffectHolds'
  <2> SUFFICES ASSUME losses = 0, NEW u \in Transactions, "begin" \notin refused[u],
                      NEW k \in 1..Size[u]
               PROVE  applied[u][k] = IF Committed(u)' THEN 1 ELSE 0
    BY <1>1 DEF EffectHolds
  <2>1. Committed(u)' <=> Committed(u)
    BY <1>1, <1>2, <1>3, <1>5 DEF Committed, Told
  <2> QED BY <2>1 DEF EffectHolds
<1>10. RefusalHolds'
  BY <1>1, <1>2, <1>3 DEF RefusalHolds
<1> QED BY <1>4, <1>6, <1>7, <1>8, <1>9, <1>10

LEMMA RetryHolds ==
    ASSUME IInv, NEW c \in Connections, Retry(c)
    PROVE  IInv'
<1> USE DEF IInv
<1>0. PICK t : t = trans[c]
  OBVIOUS
<1>1. /\ up /\ pc[c] = "failed" /\ StartAttempt(c, t) /\ t \in Transactions
      /\ retries' = [retries EXCEPT ![c] = @ + 1] /\ MayRetry(c)
      /\ UNCHANGED <<trans, answer, deadlockLock, inTrans, tentative, applied, handle, up, losses,
                     refused>>
  BY <1>0, BusyThread DEF Retry, serverVars, faults
<1>2. /\ pc' \in [Connections -> {"idle", "begin", "statement", "commit",
                                  "rollback", "succeeded", "failed", "lock"}]
      /\ next' \in [Connections -> Statements \cup {1}]
      /\ code' \in [Connections -> {"none", "deadlock", "error"}]
      /\ \A d \in Connections \ {c} : pc'[d] = pc[d] /\ next'[d] = next[d] /\ code'[d] = code[d]
      /\ next'[c] = 1 /\ pc'[c] \in {"begin", "failed"}
      /\ pc'[c] = "begin" => Size[t] # 0
  BY <1>1, StartHolds
<1>3. TypeOK'
  <2>1. retries[c] + 1 \in 0..SynchRetries \cup 0..AsyncRetries
    BY <1>1, Constant DEF MayRetry, TypeOK
  <2>2. retries' \in [Connections -> 0..SynchRetries \cup 0..AsyncRetries]
    BY <1>1, <2>1 DEF TypeOK
  <2> QED BY <1>1, <1>2, <2>2 DEF TypeOK
<1>4. ThreadHolds'
  <2>1. Size[t] # 0 => 1 \in 1..Size[t]
    BY <1>1, Constant
  <2> QED BY <1>0, <1>1, <1>2, <2>1 DEF ThreadHolds, InExecute
<1>5. SessionHolds'
  BY <1>1, <1>2 DEF SessionHolds
<1>6. AttemptHolds'
  BY <1>1, <1>2 DEF AttemptHolds, Open
<1>7. EffectHolds'
  BY <1>1, <1>2, EffectKept
<1>8. RefusalHolds'
  BY <1>1, <1>2, RefusalKept
<1> QED BY <1>3, <1>4, <1>5, <1>6, <1>7, <1>8

LEMMA AnswerHolds ==
    ASSUME IInv, NEW c \in Connections, Succeed(c) \/ GiveUp(c)
    PROVE  IInv'
<1> USE DEF IInv
<1>0. PICK t : t = trans[c]
  OBVIOUS
<1>1. /\ pc[c] \in {"succeeded", "failed"} /\ t \in Transactions /\ answer[t] = "pending"
      /\ answer' = [answer EXCEPT ![t] = IF pc[c] = "succeeded" THEN "true" ELSE "false"]
      /\ pc' = [pc EXCEPT ![c] = "idle"] /\ trans' = [trans EXCEPT ![c] = Null]
      /\ deadlockLock' = IF deadlockLock = c THEN Null ELSE deadlockLock
      /\ UNCHANGED <<next, code, retries, inTrans, tentative, applied, handle, up, losses,
                     refused>>
  BY <1>0, BusyThread DEF Succeed, GiveUp, Answer, serverVars, faults
<1>2. /\ pc'[c] = "idle" /\ trans'[c] = Null
      /\ \A d \in Connections \ {c} : pc'[d] = pc[d] /\ trans'[d] = trans[d]
      /\ answer'[t] = IF pc[c] = "succeeded" THEN "true" ELSE "false"
      /\ \A u \in Transactions \ {t} : answer'[u] = answer[u]
  BY <1>1 DEF TypeOK
<1>3. TypeOK'
  BY <1>1 DEF TypeOK
<1>4. \A d \in Connections \ {c} : trans[d] # t
  BY <1>0, <1>1, Constant DEF ThreadHolds
<1>5. ThreadHolds'
  BY <1>1, <1>2, <1>4 DEF ThreadHolds, InExecute, TypeOK
<1>6. SessionHolds'
  BY <1>1, <1>2 DEF SessionHolds
<1>7. AttemptHolds'
  BY <1>1, <1>2 DEF AttemptHolds, Open
<1>8. EffectHolds'
  <2> SUFFICES ASSUME losses = 0, NEW u \in Transactions, "begin" \notin refused[u],
                      NEW k \in 1..Size[u]
               PROVE  applied[u][k] = IF Committed(u)' THEN 1 ELSE 0
    BY <1>1 DEF EffectHolds
  <2>1. CASE u = t
    <3>1. Told(u) <=> pc[c] = "succeeded"
      BY <1>0, <1>1, <1>4, <2>1 DEF Told
    <3>2. Told(u)' <=> pc[c] = "succeeded"
      BY <1>1, <1>2, <1>4, <2>1, Constant DEF Told
    <3> QED BY <1>1, <3>1, <3>2 DEF EffectHolds, Committed
  <2>2. CASE u # t
    <3>1. Told(u)' <=> Told(u)
      BY <1>0, <1>2, <2>2, Constant DEF Told
    <3> QED BY <1>1, <3>1 DEF EffectHolds, Committed
  <2> QED BY <2>1, <2>2
<1>9. RefusalHolds'
  BY <1>1, <1>2 DEF RefusalHolds
<1> QED BY <1>3, <1>5, <1>6, <1>7, <1>8, <1>9

LEMMA LockHolds ==
    ASSUME IInv, (\E c \in Connections : LockDeadlock(c)) \/ UNCHANGED vars
    PROVE  IInv'
<1> USE DEF IInv
<1>1. /\ UNCHANGED <<pc, trans, next, code, retries, answer, inTrans, tentative, applied,
                     handle, up, losses, refused>>
      /\ deadlockLock' \in Async \cup {Null}
  BY DEF LockDeadlock, vars, threadVars, serverVars, faults, TypeOK
<1>2. TypeOK'
  BY <1>1 DEF TypeOK
<1>3. ThreadHolds' /\ SessionHolds' /\ RefusalHolds'
  BY <1>1 DEF ThreadHolds, SessionHolds, RefusalHolds
<1>4. AttemptHolds' /\ EffectHolds'
  BY <1>1 DEF AttemptHolds, Open, EffectHolds, Committed, Told
<1> QED BY <1>2, <1>3, <1>4

----------------------------------------------------------------------------
(* The theorems                                                               *)

LEMMA InitHolds == Init => IInv
<1> SUFFICES ASSUME Init PROVE IInv
  OBVIOUS
<1> USE DEF Init
<1>1. TypeOK
  BY Constant DEF TypeOK
<1>2. ThreadHolds /\ SessionHolds /\ RefusalHolds
  BY DEF ThreadHolds, SessionHolds, RefusalHolds, InExecute
<1>3. AttemptHolds /\ EffectHolds
  BY Constant DEF AttemptHolds, EffectHolds, Committed, Told
<1> QED BY <1>1, <1>2, <1>3 DEF IInv

LEMMA StepHolds == IInv /\ [Next]_vars => IInv'
<1> SUFFICES ASSUME IInv, [Next]_vars PROVE IInv'
  OBVIOUS
<1>1. ASSUME NEW c \in Connections, Step(c)
      PROVE  IInv'
  BY <1>1, ExecutesHolds, FailedHolds, RefusedHolds, FatallyHolds, NoHandleHolds, LostHolds,
     RetryHolds, AnswerHolds, LockHolds DEF Step
<1>2. ASSUME NEW c \in Connections, NEW t \in Transactions, Take(c, t)
      PROVE  IInv'
  BY <1>2, TakeHolds
<1>3. CASE UNCHANGED vars
  BY <1>3, LockHolds
<1> QED BY <1>1, <1>2, <1>3 DEF Next, Terminated

(* What every interleaving of the connections, every retry and every failure  *)
(* of ExecuteTransaction keeps true.                                          *)
THEOREM Invariant == Spec => []IInv
BY InitHolds, StepHolds, PTL DEF Spec

(* ExecuteTransaction never hands a connection back inside a transaction, not *)
(* even one on which it has lost and found again its session.                 *)
THEOREM NoneLeftOpen == Spec => []NothingLeftOpen
<1>1. IInv => NothingLeftOpen
  BY DEF IInv, SessionHolds, NothingLeftOpen
<1> QED BY <1>1, Invariant, PTL

(* As long as no connection is lost, the statements of a transaction that the *)
(* server has begun take effect all once or not at all, retries, deadlocks    *)
(* and a refused COMMIT included.                                             *)
THEOREM Atomic == Spec => []AllOrNothing
<1>1. IInv => AllOrNothing
  BY DEF IInv, EffectHolds, AllOrNothing, Effect
<1> QED BY <1>1, Invariant, PTL

(* As long as no connection is lost, a committer is told what has happened,   *)
(* except about a START TRANSACTION or a COMMIT that the server has refused;  *)
(* and a transaction whose COMMIT it has refused has had no effect.           *)
THEOREM Truthful == Spec => []OnlyRefusalsMislead
<1>1. IInv => OnlyRefusalsMislead
  <2> SUFFICES ASSUME IInv, losses = 0, NEW t \in Transactions, "begin" \notin refused[t],
                      NEW k \in 1..Size[t]
               PROVE  /\ answer[t] = "true" =>
                             applied[t][k] = IF "commit" \in refused[t] THEN 0 ELSE 1
                      /\ answer[t] = "false" => applied[t][k] = 0
    BY DEF OnlyRefusalsMislead, Effect
  <2>1. applied[t][k] = IF Committed(t) THEN 1 ELSE 0
    BY DEF IInv, EffectHolds
  <2>2. answer[t] = "false" => ~Told(t)
    BY Constant DEF IInv, ThreadHolds, Told
  <2> QED BY <2>1, <2>2 DEF Committed, Told
<1> QED BY <1>1, Invariant, PTL
=============================================================================
