------------------------ MODULE WorldSessions_proofs -------------------------
(******************************************************************************)
(* What holds of WorldSessions for any accounts, characters, sessions and     *)
(* limit: no session is lost or listed twice, no character is in the world    *)
(* through two of them, the queue holds players back only while the server is *)
(* full, and at the end every player has been saved.                          *)
(*                                                                            *)
(* The invariant IInv says more: what a session in each of the lists can be   *)
(* doing, which of the accounts with a session beside an offline one have     *)
(* been visited by the loop of UpdateSessions, and what KickAll leaves for    *)
(* the last call of it.  The steps fall into four groups, each with a lemma   *)
(* of its own: those that only disturb a session (Disturb), those that move   *)
(* the loops on (Moving), those of the session that is being updated          *)
(* (Members), and those that move the sessions of one account from one list   *)
(* to another (MovesKeeps), which is where the login queue moves too          *)
(* (Departure, Arrival).                                                      *)
(******************************************************************************)
EXTENDS WorldSessions, FiniteSetTheorems, SequenceTheorems, TLAPS

----------------------------------------------------------------------------
(* Sequences without repetitions, as the queues are                           *)

(* push_back: one more element, at the end.                                   *)
LEMMA AppendElements ==
    ASSUME NEW S, NEW q \in Seq(S), NEW e \in S
    PROVE  /\ Append(q, e) \in Seq(S) /\ ToSet(Append(q, e)) = ToSet(q) \cup {e}
           /\ Append(q, e) # <<>>
           /\ IsInjective(q) /\ e \notin ToSet(q) => IsInjective(Append(q, e))
<1>0. PICK r : r = Append(q, e)
  OBVIOUS
<1>1. PICK n \in Nat : n = Len(q)
  BY LenProperties
<1>2. /\ r \in Seq(S) /\ DOMAIN q = 1..n /\ DOMAIN r = 1..(n + 1) /\ r[n + 1] = e
      /\ \A i \in 1..n : r[i] = q[i]
  BY <1>0, <1>1, AppendProperties, LenProperties
<1>3. ToSet(r) = ToSet(q) \cup {e}
  <2>1. \A i \in 1..n : i \in 1..(n + 1)
    OBVIOUS
  <2>2. \A i \in 1..(n + 1) : i \in 1..n \/ i = n + 1
    OBVIOUS
  <2>3. n + 1 \in 1..(n + 1)
    OBVIOUS
  <2>4. PICK m : m = n + 1
    OBVIOUS
  <2> QED BY <1>2, <2>1, <2>2, <2>3, <2>4 DEF ToSet
<1>4. ASSUME IsInjective(q), e \notin ToSet(q) PROVE IsInjective(r)
  <2>1. \A i \in 1..n : q[i] # e
    BY <1>2, <1>4 DEF ToSet
  <2>2. \A i, j \in 1..n : q[i] = q[j] => i = j
    BY <1>2, <1>4 DEF IsInjective
  <2>3. \A i, j \in 1..(n + 1) : r[i] = r[j] => i = j
    <3>1. SUFFICES ASSUME NEW i \in 1..(n + 1), NEW j \in 1..(n + 1), r[i] = r[j] PROVE i = j
      OBVIOUS
    <3>2. CASE i \in 1..n /\ j \in 1..n
      BY <1>2, <2>2, <3>1, <3>2
    <3>3. CASE i = n + 1 \/ j = n + 1
      BY <1>2, <2>1, <3>1, <3>3
    <3> QED BY <3>2, <3>3
  <2> QED BY <1>2, <2>3 DEF IsInjective
<1>5. r # <<>>
  BY <1>2, EmptySeq
<1> QED BY <1>0, <1>2, <1>3, <1>4, <1>5

(* pop_front: one element less, the first.                                    *)
LEMMA HeadElements ==
    ASSUME NEW S, NEW q \in Seq(S), q # <<>>, IsInjective(q)
    PROVE  /\ Head(q) \in ToSet(q) /\ Head(q) \in S
           /\ Tail(q) \in Seq(S) /\ IsInjective(Tail(q))
           /\ ToSet(Tail(q)) = ToSet(q) \ {Head(q)}
<1>0. PICK r, h : r = Tail(q) /\ h = Head(q)
  OBVIOUS
<1>1. PICK n \in Nat : n = Len(q) - 1
  <2>1. Len(q) \in Nat /\ Len(q) # 0
    BY EmptySeq
  <2> QED BY <2>1
<1>2. /\ r \in Seq(S) /\ h \in S /\ h = q[1] /\ DOMAIN q = 1..(n + 1) /\ DOMAIN r = 1..n
      /\ \A i \in 1..n : r[i] = q[i + 1]
  <2>1. Len(q) = n + 1
    BY <1>1, LenProperties
  <2>2. r \in Seq(S) /\ h \in S /\ h = q[1] /\ Len(r) = n /\ \A i \in 1..n : r[i] = q[i + 1]
    BY <1>0, <1>1, <2>1, HeadTailProperties
  <2> QED BY <2>1, <2>2, LenProperties
<1>3. \A i, j \in 1..(n + 1) : q[i] = q[j] => i = j
  BY <1>2 DEF IsInjective
<1>4. IsInjective(r)
  <2>1. \A i, j \in 1..n : r[i] = r[j] => i = j
    <3>1. SUFFICES ASSUME NEW i \in 1..n, NEW j \in 1..n, r[i] = r[j] PROVE i = j
      OBVIOUS
    <3>2. i + 1 \in 1..(n + 1) /\ j + 1 \in 1..(n + 1) /\ q[i + 1] = q[j + 1]
      BY <1>2, <3>1
    <3>3. i + 1 = j + 1
      BY <1>3, <3>2
    <3> QED BY <3>3
  <2> QED BY <1>2, <2>1 DEF IsInjective
<1>5. ToSet(r) = ToSet(q) \ {h} /\ h \in ToSet(q)
  <2>1. \A x : x \in ToSet(q) <=> \E i \in 1..(n + 1) : q[i] = x
    BY <1>2 DEF ToSet
  <2>2. \A x : x \in ToSet(r) <=> \E i \in 1..n : q[i + 1] = x
    BY <1>2 DEF ToSet
  <2>3. ASSUME NEW x \in ToSet(r) PROVE x \in ToSet(q) \ {h}
    <3>1. PICK i \in 1..n : q[i + 1] = x
      BY <2>2, <2>3
    <3>2. i + 1 \in 1..(n + 1) /\ i + 1 # 1 /\ 1 \in 1..(n + 1)
      OBVIOUS
    <3> QED BY <1>2, <1>3, <2>1, <3>1, <3>2
  <2>4. ASSUME NEW x \in ToSet(q) \ {h} PROVE x \in ToSet(r)
    <3>1. PICK i \in 1..(n + 1) : q[i] = x
      BY <2>1, <2>4
    <3>2. PICK j \in 1..n : i = j + 1
      BY <1>2, <2>4, <3>1
    <3> QED BY <2>2, <3>1, <3>2
  <2>5. 1 \in 1..(n + 1)
    OBVIOUS
  <2> QED BY <1>2, <2>1, <2>3, <2>4, <2>5
<1> QED BY <1>0, <1>2, <1>4, <1>5

(* The place that RemoveFirst finds.                                          *)
Found(q, e) == {i \in 1..Len(q) : q[i] = e}
LEMMA RemoveUnfold ==
    \A q, e : RemoveFirst(q, e) =
        IF \E i \in 1..Len(q) : q[i] = e
        THEN RemoveAt(q, IF Found(q, e) # {} THEN Min(Found(q, e)) ELSE 0)
        ELSE q
BY DEF RemoveFirst, SelectInSeq, Found

(* erase of the first occurrence takes the element out, since there is only   *)
(* one.                                                                       *)
LEMMA RemoveElements ==
    ASSUME NEW S, NEW q \in Seq(S), NEW e, IsInjective(q)
    PROVE  /\ RemoveFirst(q, e) \in Seq(S) /\ IsInjective(RemoveFirst(q, e))
           /\ ToSet(RemoveFirst(q, e)) = ToSet(q) \ {e}
<1>1. PICK n \in Nat : n = Len(q)
  BY LenProperties
<1>2. DOMAIN q = 1..n
  BY <1>1, LenProperties
<1>3. ToSet(q) = {q[i] : i \in 1..n} /\ \A i, j \in 1..n : q[i] = q[j] => i = j
  BY <1>2 DEF ToSet, IsInjective
<1>4. CASE ~\E i \in 1..n : q[i] = e
  <2>1. RemoveFirst(q, e) = q
    BY <1>1, <1>4, RemoveUnfold
  <2>2. e \notin ToSet(q)
    BY <1>3, <1>4
  <2> QED BY <2>1, <2>2
<1>5. CASE \E i \in 1..n : q[i] = e
  <2>1. PICK k \in 1..n : q[k] = e
    BY <1>5
  <2>2. Found(q, e) = {k}
    BY <1>1, <1>3, <2>1 DEF Found
  <2>3. Min(Found(q, e)) = k
    BY <2>2 DEF Min
  <2>0. PICK l \in Nat : l = k - 1
    OBVIOUS
  <2>4. PICK r, a, b : /\ r = RemoveFirst(q, e)
                       /\ a = SubSeq(q, 1, l) /\ b = SubSeq(q, k + 1, n)
    OBVIOUS
  <2>5. r = a \o b
    <3>1. r = RemoveAt(q, k)
      BY <1>1, <1>5, <2>2, <2>3, <2>0, <2>4, RemoveUnfold
    <3>2. k - 1 = l
      BY <2>0, <2>4
    <3> QED BY <1>1, <2>0, <2>4, <3>1, <3>2 DEF RemoveAt
  <2>6. /\ a \in Seq(S) /\ Len(a) = l /\ b \in Seq(S) /\ Len(b) = n - k
        /\ \A i \in 1..l : a[i] = q[i]
        /\ \A i \in 1..(n - k) : b[i] = q[k + i]
    BY <1>1, <2>0, <2>4, SubSeqProperties
  <2>7. /\ r \in Seq(S) /\ DOMAIN r = 1..(n - 1)
        /\ \A i \in 1..(n - 1) : r[i] = IF i < k THEN q[i] ELSE q[i + 1]
    <3>1. /\ r \in Seq(S) /\ Len(r) = n - 1
          /\ \A i \in 1..(n - 1) : r[i] = IF i <= l THEN a[i] ELSE b[i - l]
      <4>1. Len(a) + Len(b) = n - 1
        BY <2>0, <2>4, <2>6
      <4>2. /\ r \in Seq(S) /\ Len(r) = Len(a) + Len(b)
            /\ \A i \in 1..(Len(a) + Len(b)) : r[i] = IF i <= Len(a) THEN a[i] ELSE b[i - Len(a)]
        BY <2>5, <2>6, ConcatProperties
      <4> QED BY <2>6, <4>1, <4>2
    <3>2. \A i \in 1..(n - 1) : i < k => i \in 1..l /\ i <= l
      BY <2>0, <2>4
    <3>3. ASSUME NEW i \in 1..(n - 1), ~(i < k) PROVE r[i] = q[i + 1]
      <4>1. PICK j \in 1..(n - k) : j = i - l /\ k + j = i + 1 /\ ~(i <= l)
        BY <2>0, <2>4, <3>3
      <4> QED BY <2>6, <3>1, <4>1
    <3> QED BY <2>6, <3>1, <3>2, <3>3, LenProperties
  <2>8. IsInjective(r)
    <3>1. SUFFICES ASSUME NEW i \in 1..(n - 1), NEW j \in 1..(n - 1), r[i] = r[j] PROVE i = j
      BY <2>7 DEF IsInjective
    <3>2. PICK x \in 1..n : x = IF i < k THEN i ELSE i + 1
      OBVIOUS
    <3>3. PICK y \in 1..n : y = IF j < k THEN j ELSE j + 1
      OBVIOUS
    <3>4. r[i] = q[x] /\ r[j] = q[y]
      BY <2>7, <3>2, <3>3
    <3>5. x = y
      BY <1>3, <3>1, <3>4
    <3> QED BY <3>2, <3>3, <3>5
  <2>9. ToSet(r) = ToSet(q) \ {e}
    <3>0. ToSet(r) = {r[i] : i \in 1..(n - 1)}
      BY <2>7 DEF ToSet
    <3>1. ASSUME NEW i \in 1..(n - 1) PROVE r[i] \in ToSet(q) \ {e}
      <4>1. PICK x \in 1..n : x = IF i < k THEN i ELSE i + 1
        OBVIOUS
      <4>2. r[i] = q[x] /\ x # k
        BY <2>7, <4>1
      <4> QED BY <1>3, <2>1, <4>2
    <3>2. ASSUME NEW x \in 1..n, q[x] # e PROVE q[x] \in ToSet(r)
      <4>1. x # k
        BY <2>1, <3>2
      <4>2. PICK i \in 1..(n - 1) : x = IF i < k THEN i ELSE i + 1
        <5>1. CASE x < k
          BY <5>1
        <5>2. CASE ~(x < k)
          <6>1. PICK i \in 1..(n - 1) : x = i + 1
            BY <4>1, <5>2
          <6>2. k \in 1..n /\ x # k /\ ~(x < k)
            BY <4>1, <5>2
          <6>3. ~(i < k)
            BY <6>1, <6>2
          <6>4. x = IF i < k THEN i ELSE i + 1
            BY <6>1, <6>3
          <6> QED BY <6>4
        <5> QED BY <5>1, <5>2
      <4>3. r[i] = q[x]
        BY <2>7, <4>2
      <4> QED BY <3>0, <4>3
    <3>3. ASSUME NEW y \in ToSet(r) PROVE y \in ToSet(q) \ {e}
      BY <3>0, <3>1, <3>3
    <3>4. ASSUME NEW y \in ToSet(q) \ {e} PROVE y \in ToSet(r)
      BY <1>3, <3>2, <3>4
    <3> QED BY <3>3, <3>4
  <2> QED BY <2>0, <2>4, <2>7, <2>8, <2>9
<1> QED BY <1>4, <1>5

(* A queue without repetitions is as long as it has elements.                 *)
LEMMA ElementsAreCounted ==
    ASSUME NEW S, NEW q \in Seq(S), IsInjective(q)
    PROVE  IsFiniteSet(ToSet(q)) /\ Cardinality(ToSet(q)) = Len(q)
<1>1. PICK n \in Nat : n = Len(q)
  BY LenProperties
<1>2. DOMAIN q = 1..n /\ q \in [1..n -> S]
  BY <1>1, LenProperties
<1>3. q \in [1..n -> ToSet(q)]
  BY <1>2 DEF ToSet
<1>4. q \in Bijection(1..n, ToSet(q))
  BY <1>2, <1>3 DEF Bijection, Injection, Surjection, IsInjective, ToSet
<1>5. ExistsBijection(1..n, ToSet(q))
  BY <1>4 DEF ExistsBijection
<1> QED BY <1>1, <1>5, FS_CountingElements, FS_NatBijection

----------------------------------------------------------------------------
(* Counting the listed sessions: sessions maps accounts to sessions one to    *)
(* one, because each has its own account.                                     *)
Values(f) == {f[a] : a \in Accounts} \ {None}
OwnPlaces(f) ==
    /\ f \in [Accounts -> Sessions \cup {None}]
    /\ \A a \in Accounts : f[a] # None => AccountOf[f[a]] = a

(* Accounts and the sessions they have in one list are as many: a session is  *)
(* of one account.                                                            *)
LEMMA AccountsAreCounted ==
    ASSUME NEW f, OwnPlaces(f), NEW A \in SUBSET Accounts, \A a \in A : f[a] # None,
           NEW T, T = {f[a] : a \in A}
    PROVE  /\ IsFiniteSet(A) /\ IsFiniteSet(T) /\ Cardinality(A) = Cardinality(T)
           /\ Cardinality(A) \in Nat
<1>1. IsFiniteSet(A) /\ Cardinality(A) \in Nat
  BY SessionsAssumption, FS_Subset, FS_CardinalityType
<1>2. PICK g : g = [a \in A |-> f[a]]
  OBVIOUS
<1>3. g \in Bijection(A, T)
  <2>1. g \in [A -> T] /\ \A a \in A : g[a] = f[a] /\ AccountOf[f[a]] = a
    BY <1>2 DEF OwnPlaces
  <2>2. \A t \in T : \E a \in A : g[a] = t
    BY <1>2
  <2> QED BY <2>1, <2>2 DEF Bijection, Injection, Surjection, IsInjective
<1>4. ExistsBijection(A, T)
  BY <1>3 DEF ExistsBijection
<1> QED BY <1>1, <1>2, <1>4, FS_Bijection

(* size() of the map of sessions is the number of sessions in it.             *)
LEMMA ValuesAreCounted ==
    ASSUME NEW f, OwnPlaces(f)
    PROVE  /\ IsFiniteSet(Values(f)) /\ Cardinality(Values(f)) \in Nat
           /\ Cardinality({a \in Accounts : f[a] # None}) = Cardinality(Values(f))
<1>1. PICK A, T : A = {a \in Accounts : f[a] # None} /\ T = {f[a] : a \in A}
  OBVIOUS
<1>2. A \in SUBSET Accounts /\ \A a \in A : f[a] # None
  BY <1>1
<1>3. IsFiniteSet(T) /\ Cardinality(A) = Cardinality(T) /\ Cardinality(A) \in Nat
  BY <1>1, <1>2, AccountsAreCounted
<1>4. T = Values(f)
  BY <1>1 DEF Values
<1> QED BY <1>1, <1>3, <1>4

(* GetActiveSessionCount, a difference of sizes, counts the sessions that are *)
(* listed and do not wait.                                                    *)
LEMMA ListedAreCounted ==
    ASSUME NEW f, OwnPlaces(f), NEW q \in Seq(Sessions), IsInjective(q),
           ToSet(q) \subseteq Values(f)
    PROVE  /\ IsFiniteSet(Values(f)) /\ IsFiniteSet(ToSet(q))
           /\ Cardinality({a \in Accounts : f[a] # None}) - Len(q)
                 = Cardinality(Values(f) \ ToSet(q))
<1>1. PICK T, Q : T = Values(f) /\ Q = ToSet(q)
  OBVIOUS
<1>2. /\ IsFiniteSet(T) /\ Cardinality(T) \in Nat
      /\ Cardinality({a \in Accounts : f[a] # None}) = Cardinality(T)
  BY <1>1, ValuesAreCounted
<1>3. IsFiniteSet(Q) /\ Cardinality(Q) = Len(q)
  BY <1>1, ElementsAreCounted
<1>4. T \cap Q = Q
  BY <1>1
<1>5. Cardinality(T \ Q) = Cardinality(T) - Cardinality(T \cap Q)
  BY <1>2, FS_Difference
<1> QED BY <1>1, <1>2, <1>3, <1>4, <1>5

(* The sessions of all accounts but one, as AddSession_ counts them.          *)
LEMMA OthersAreCounted ==
    ASSUME NEW f, OwnPlaces(f), NEW a \in Accounts
    PROVE  Cardinality({x \in Accounts \ {a} : f[x] # None})
                 = Cardinality(Values(f) \ {f[a]})
<1>1. PICK A, T : A = {x \in Accounts \ {a} : f[x] # None} /\ T = {f[x] : x \in A}
  OBVIOUS
<1>2. A \in SUBSET Accounts /\ \A x \in A : f[x] # None
  BY <1>1
<1>3. Cardinality(A) = Cardinality(T)
  BY <1>1, <1>2, AccountsAreCounted
<1>4. T = Values(f) \ {f[a]}
  BY <1>1 DEF Values, OwnPlaces
<1> QED BY <1>1, <1>3, <1>4

----------------------------------------------------------------------------
(* RemoveQueuedPlayer for s, one of the listed sessions L, with the queue w:  *)
(* the rest d of those active, with the first in the queue if it gets in, are *)
(* enough to justify the queue that is left, and not too many.                *)
LEMMA Departure ==
    ASSUME waiting \in Seq(Sessions), IsInjective(waiting), ToSet(waiting) \subseteq Listed,
           IsFiniteSet(Listed), Active = Cardinality(Listed \ ToSet(waiting)), QueueMeansFull,
           NEW s \in Listed
    PROVE  /\ FirstIn(s) \subseteq ToSet(waiting) \ {s}
           /\ QueueWithout(s) \in Seq(Sessions) /\ IsInjective(QueueWithout(s))
           /\ ToSet(QueueWithout(s)) = ToSet(waiting) \ ({s} \cup FirstIn(s))
           /\ QueueWithout(s) # <<>> =>
                 /\ Limit > 0
                 /\ Cardinality(((Listed \ ToSet(waiting)) \ {s}) \cup FirstIn(s)) >= Limit
           /\ FirstIn(s) # {} /\ Limit > 0 =>
                 Cardinality(((Listed \ ToSet(waiting)) \ {s}) \cup FirstIn(s)) <= Limit
           /\ IsFiniteSet(((Listed \ ToSet(waiting)) \ {s}) \cup FirstIn(s))
<1>0. PICK L, w, F, q, D : /\ L = Listed /\ w = waiting /\ F = FirstIn(s) /\ q = QueueWithout(s)
                           /\ D = (L \ ToSet(w)) \ {s}
  OBVIOUS
<1> SUFFICES /\ F \subseteq ToSet(w) \ {s}
             /\ q \in Seq(Sessions) /\ IsInjective(q) /\ ToSet(q) = ToSet(w) \ ({s} \cup F)
             /\ q # <<>> => Limit > 0 /\ Cardinality(D \cup F) >= Limit
             /\ F # {} /\ Limit > 0 => Cardinality(D \cup F) <= Limit
             /\ IsFiniteSet(D \cup F)
  BY <1>0
<1>1. PICK o : o = Others(s)
  OBVIOUS
<1>2. o \in Seq(Sessions) /\ IsInjective(o) /\ ToSet(o) = ToSet(w) \ {s}
  BY <1>0, <1>1, RemoveElements DEF Others
<1>3. IsFiniteSet(L \ ToSet(w)) /\ IsFiniteSet(D)
  BY <1>0, FS_Subset
<1>4. PICK n \in Nat : n = Cardinality(L \ ToSet(w))
  BY <1>3, FS_CardinalityType
<1>5. PICK d \in Nat : d = Cardinality(D)
  BY <1>3, FS_CardinalityType
<1>6. d = IF IsQueued(s) THEN n ELSE n - 1
  BY <1>0, <1>3, <1>4, <1>5, FS_RemoveElement DEF IsQueued
<1>7. F = IF (Limit = 0 \/ d < Limit) /\ o # <<>> THEN {Head(o)} ELSE {}
  BY <1>0, <1>1, <1>4, <1>6 DEF FirstIn
<1>8. q = IF F = {} THEN o ELSE Tail(o)
  BY <1>0, <1>1 DEF QueueWithout
<1>9. w # <<>> => n >= Limit /\ Limit > 0
  BY <1>0, <1>4 DEF QueueMeansFull
<1>10. o # <<>> => w # <<>>
  <2>1. ASSUME w = <<>>, o # <<>> PROVE FALSE
    <3>1. Head(o) \in ToSet(o)
      BY <1>2, <2>1, HeadElements
    <3>2. ToSet(w) = {}
      BY <2>1 DEF ToSet
    <3> QED BY <1>2, <3>1, <3>2
  <2> QED BY <2>1
<1>11. CASE F = {}
  <2>1. q = o /\ D \cup F = D
    BY <1>8, <1>11
  <2>2. q # <<>> => Limit > 0 /\ d >= Limit
    <3>1. ~((Limit = 0 \/ d < Limit) /\ o # <<>>)
      BY <1>7, <1>11
    <3> QED BY <2>1, <3>1, SessionsAssumption
  <2> QED BY <1>2, <1>3, <1>5, <1>11, <2>1, <2>2
<1>12. CASE F # {}
  <2>1. PICK h : h = Head(o)
    OBVIOUS
  <2>2. F = {h} /\ o # <<>> /\ (Limit = 0 \/ d < Limit) /\ q = Tail(o)
    BY <1>7, <1>8, <1>12, <2>1
  <2>3. /\ h \in ToSet(o) /\ q \in Seq(Sessions) /\ IsInjective(q)
        /\ ToSet(q) = ToSet(o) \ {h}
    BY <1>2, <2>1, <2>2, HeadElements
  <2>4. h \notin D
    BY <1>0, <1>2, <2>3
  <2>5. Cardinality(D \cup F) = d + 1 /\ IsFiniteSet(D \cup F)
    <3>1. /\ IsFiniteSet(D \cup {h})
          /\ Cardinality(D \cup {h}) = IF h \in D THEN Cardinality(D) ELSE Cardinality(D) + 1
      BY <1>3, FS_AddElement
    <3> QED BY <1>5, <2>2, <2>4, <3>1
  <2>6. n >= Limit /\ Limit > 0
    BY <1>9, <1>10, <2>2
  <2>7. d + 1 >= Limit /\ d + 1 <= Limit
    BY <1>6, <2>2, <2>6, SessionsAssumption
  <2> QED BY <1>2, <2>2, <2>3, <2>5, <2>6, <2>7
<1> QED BY <1>11, <1>12

(* The end of AddSession_ for s, when L are the sessions of other accounts:   *)
(* it waits if they are too many, and may enter in any case; E have been      *)
(* admitted so far because there was room.                                    *)
Arrives(L, s, q, E, r, H) ==
    /\ IsFiniteSet(L) /\ s \in Sessions /\ s \notin L
    /\ q \in Seq(Sessions) /\ IsInjective(q) /\ ToSet(q) \subseteq L
    /\ q # <<>> => Limit > 0 /\ Cardinality(L \ ToSet(q)) >= Limit
    /\ E \subseteq L \ ToSet(q)
    /\ Limit > 0 => Cardinality(E) <= Limit
    /\ r = q \/ (r = Append(q, s) /\ Limit > 0 /\ Cardinality(L) >= Limit)
    /\ H \subseteq E \cup {s}
    /\ s \in H => r = q /\ ~(Limit > 0 /\ Cardinality(L) >= Limit)

(* A new session s is listed and waits or gets in, by the room that there is: *)
(* the queue holds nobody back in vain, and the limit is kept.                *)
LEMMA Arrival ==
    ASSUME NEW L, NEW s, NEW q, NEW E, NEW r, NEW H, Arrives(L, s, q, E, r, H)
    PROVE  /\ r \in Seq(Sessions) /\ IsInjective(r)
           /\ ToSet(r) = ToSet(q) \/ (ToSet(r) = ToSet(q) \cup {s} /\ r = Append(q, s))
           /\ r # <<>> => Limit > 0 /\ Cardinality((L \cup {s}) \ ToSet(r)) >= Limit
           /\ H \subseteq (L \cup {s}) \ ToSet(r)
           /\ Limit > 0 => Cardinality(H) <= Limit
<1> USE DEF Arrives
<1>1. IsFiniteSet(L \ ToSet(q)) /\ IsFiniteSet(E)
  BY FS_Subset
<1>2. PICK n \in Nat : n = Cardinality(L \ ToSet(q))
  BY <1>1, FS_CardinalityType
<1>3. PICK l \in Nat : l = Cardinality(L)
  BY FS_CardinalityType
<1>4. PICK e \in Nat : e = Cardinality(E)
  BY <1>1, FS_CardinalityType
<1>5. Limit > 0 => Cardinality(H) <= Limit
  <2>1. CASE s \in H
    <3>1. H \subseteq L \cup {s} /\ IsFiniteSet(L \cup {s}) /\ Cardinality(L \cup {s}) = l + 1
      BY <1>3, FS_AddElement
    <3>2. PICK h \in Nat : h = Cardinality(H) /\ h <= l + 1
      BY <3>1, FS_Subset, FS_CardinalityType
    <3>3. Limit > 0 => l < Limit
      BY <1>3, <2>1, SessionsAssumption
    <3> QED BY <3>2, <3>3, SessionsAssumption
  <2>2. CASE s \notin H
    <3>1. H \subseteq E
      BY <2>2
    <3>2. PICK h \in Nat : h = Cardinality(H) /\ h <= e
      BY <1>1, <1>4, <3>1, FS_Subset, FS_CardinalityType
    <3> QED BY <1>4, <3>2, SessionsAssumption
  <2> QED BY <2>1, <2>2
<1>6. CASE r = q
  <2>1. r # <<>> => Limit > 0 /\ Cardinality((L \cup {s}) \ ToSet(r)) >= Limit
    <3>1. ASSUME r # <<>> PROVE Limit > 0 /\ Cardinality((L \cup {s}) \ ToSet(r)) >= Limit
      <4>1. (L \cup {s}) \ ToSet(r) = (L \ ToSet(q)) \cup {s} /\ s \notin L \ ToSet(q)
        BY <1>6
      <4>2. Cardinality((L \cup {s}) \ ToSet(r)) = n + 1
        <5>1. PICK A : A = L \ ToSet(q)
          OBVIOUS
        <5>2. Cardinality(A \cup {s}) = IF s \in A THEN Cardinality(A) ELSE Cardinality(A) + 1
          BY <1>1, <5>1, FS_AddElement
        <5> QED BY <1>2, <4>1, <5>1, <5>2
      <4>3. Limit > 0 /\ n >= Limit
        BY <1>2, <1>6, <3>1
      <4> QED BY <4>2, <4>3, SessionsAssumption
    <3> QED BY <3>1
  <2>2. H \subseteq (L \cup {s}) \ ToSet(r)
    BY <1>6
  <2> QED BY <1>5, <1>6, <2>1, <2>2
<1>7. CASE r # q
  <2>1. r = Append(q, s) /\ Limit > 0 /\ l >= Limit
    BY <1>3, <1>7
  <2>2. s \notin ToSet(q)
    OBVIOUS
  <2>3. r \in Seq(Sessions) /\ IsInjective(r) /\ ToSet(r) = ToSet(q) \cup {s}
    BY <2>1, <2>2, AppendElements
  <2>4. (L \cup {s}) \ ToSet(r) = L \ ToSet(q)
    BY <2>2, <2>3
  <2>5. n >= Limit
    <3>1. CASE q = <<>>
      <4>1. ToSet(q) = {}
        BY <3>1 DEF ToSet
      <4>2. L \ ToSet(q) = L
        BY <4>1
      <4> QED BY <1>2, <1>3, <2>1, <4>2
    <3>2. CASE q # <<>>
      BY <1>2, <3>2
    <3> QED BY <3>1, <3>2
  <2>6. H \subseteq E
    BY <1>3, <2>1
  <2> QED BY <1>2, <1>5, <2>1, <2>3, <2>4, <2>5, <2>6
<1> QED BY <1>6, <1>7

(* Where the sessions are: the accounts of those listed and offline.          *)
PlacesHold ==
    /\ EverySessionInOnePlace
    /\ \A a \in Accounts :
          /\ sessions[a] # None => AccountOf[sessions[a]] = a
          /\ offline[a] # None => AccountOf[offline[a]] = a

(* The members of sessions, by the place where they are: a new one has only a *)
(* socket, one that waits has no query of its own, and no session loads one   *)
(* character and plays another.                                               *)
Fresh(m) == m.player = None /\ m.loading = None /\ ~m.asked /\ ~m.listed /\ m.sock # "none"
Plays(m, c) == c # None /\ (m.player = c \/ m.loading = c)
MembersHold ==
    /\ \A s \in ToSet(added) : Fresh(sess[s])
    /\ \A s \in Listed : sess[s].sock # "none"
    /\ \A s \in Lingering : sess[s].loading = None
    /\ \A s \in ToSet(waiting) : sess[s].inQueue /\ ~sess[s].asked /\ Idle(s)
    /\ \A s \in alive : sess[s].player = None \/ sess[s].loading = None
    /\ \A s \in alive, c \in Characters : Plays(sess[s], c) => OwnerOf[c] = AccountOf[s]
    /\ world = {sess[s].player : s \in alive} \ {None}

(* The loop over the sessions visits each once.                               *)
Inside == pc \in {"update", "callbacks"}
LoopHolds ==
    /\ Inside => cur \in Accounts \ todo /\ Current # None
    /\ pc \in {"idle", "add", "offline", "down"} => todo = {}

(* A session that plays or loads a character beside an offline one has been   *)
(* visited; the offline one has another character, and will go at the end.    *)
Past(a) == pc = "offline" \/ (a \notin todo /\ pc \in {"visit", "update", "callbacks"})
BesideHolds ==
    \A a \in Accounts :
        sessions[a] # None /\ offline[a] # None /\ ~Idle(sessions[a]) =>
            /\ Past(a)
            /\ sess[offline[a]].kicked \/ sess[offline[a]].player = None
            /\ ~Plays(sess[sessions[a]], sess[offline[a]].player)

(* After KickAll every connection but those of new clients is closed, these   *)
(* cannot log in before the loop is over, and who has been visited is gone or *)
(* has no character.                                                          *)
Visited(a) == Past(a) /\ ~(Inside /\ cur = a)
EndHolds ==
    /\ kickedAll =>
        /\ stopped /\ pc # "idle"
        /\ \A s \in Lingering : sess[s].kicked
        /\ \A a \in Accounts : sessions[a] # None =>
              /\ \/ sess[sessions[a]].sock = "closed"
                 \/ /\ Idle(sessions[a])
                    /\ pc = "down" \/ Visited(a) \/ (pc = "callbacks" /\ cur = a)
                          \/ ~sess[sessions[a]].listed
              /\ Visited(a) => Idle(sessions[a])
    /\ pc = "down" => kickedAll /\ world = {}

(* Those that were admitted because there was room are listed and do not wait.*)
QueueHolds ==
    /\ entered \subseteq Listed \ ToSet(waiting)
    /\ QueueMeansFull
    /\ LimitRespected

IInv ==
    /\ TypeOK /\ PlacesHold /\ MembersHold /\ LoopHolds
    /\ BesideHolds /\ EndHolds /\ QueueHolds

----------------------------------------------------------------------------
(* The members of a session, one by one, so that the steps below need not     *)
(* unfold records.                                                            *)
LEMMA Fields ==
    /\ Blank \in SessionState /\ [Blank EXCEPT !.sock = "open"] \in SessionState
    /\ Blank.player = None /\ Blank.loading = None
    /\ Fresh([Blank EXCEPT !.sock = "open"])
BY DEF Blank, SessionState, Fresh

(* m has been disturbed at most: its socket closed, or it has been kicked.    *)
Disturbed(m, n) ==
    /\ n.player = m.player /\ n.loading = m.loading
    /\ n.inQueue <=> m.inQueue
    /\ n.asked <=> m.asked
    /\ n.listed <=> m.listed
    /\ n.sock = m.sock \/ (n.sock = "closed" /\ m.sock # "none")
    /\ m.kicked => n.kicked

(* What has not changed has not been disturbed.                               *)
LEMMA UndisturbedIs == \A m : Disturbed(m, m)
BY DEF Disturbed

(* Kicking a session changes its socket and its mark.                         *)
LEMMA KickedIs ==
    ASSUME NEW m \in SessionState, NEW mark \in BOOLEAN
    PROVE  /\ Kicked(m, mark) \in SessionState /\ Disturbed(m, Kicked(m, mark))
           /\ Kicked(m, mark).sock # "open"
           /\ mark => Kicked(m, mark).kicked
<1>1. Kicked(m, mark) \in SessionState
  BY DEF Kicked, SessionState
<1>2. /\ Kicked(m, mark).player = m.player /\ Kicked(m, mark).loading = m.loading
      /\ Kicked(m, mark).inQueue = m.inQueue
      /\ Kicked(m, mark).asked = m.asked
      /\ Kicked(m, mark).listed = m.listed
      /\ Kicked(m, mark).sock = IF m.sock = "open" THEN "closed" ELSE m.sock
  BY DEF Kicked, SessionState
<1>3. /\ m.kicked => Kicked(m, mark).kicked
      /\ mark => Kicked(m, mark).kicked
  BY DEF Kicked, SessionState
<1> QED BY <1>1, <1>2, <1>3 DEF Disturbed

(* Losing a connection changes the socket alone.                              *)
LEMMA ClosedIs ==
    ASSUME NEW m \in SessionState, m.sock = "open", NEW n, n = [m EXCEPT !.sock = "closed"]
    PROVE  n \in SessionState /\ Disturbed(m, n)
<1>1. n \in SessionState
  BY DEF SessionState
<1>2. /\ n.player = m.player /\ n.loading = m.loading /\ n.inQueue = m.inQueue
      /\ n.asked = m.asked /\ n.listed = m.listed /\ n.sock = "closed" /\ n.kicked = m.kicked
  BY DEF SessionState
<1> QED BY <1>1, <1>2 DEF Disturbed

(* A session without its socket has its player still.                         *)
LEMMA UnpluggedIs ==
    ASSUME NEW m \in SessionState
    PROVE  /\ Unplugged(m) \in SessionState
           /\ Unplugged(m).player = m.player /\ Unplugged(m).loading = m.loading
           /\ Unplugged(m).kicked = m.kicked
BY DEF Unplugged, SessionState

(* A session that has asked for its account's data is otherwise the same.     *)
LEMMA AskedIs ==
    ASSUME NEW m \in SessionState, NEW n, n = [m EXCEPT !.asked = TRUE]
    PROVE  /\ n \in SessionState
           /\ n.player = m.player /\ n.loading = m.loading /\ n.inQueue = m.inQueue
           /\ n.listed = m.listed /\ n.sock = m.sock /\ n.kicked = m.kicked
BY DEF SessionState

----------------------------------------------------------------------------
(* What the invariant says of a place.                                        *)
LEMMA Placed ==
    ASSUME IInv
    PROVE  /\ OwnPlaces(sessions) /\ OwnPlaces(offline)
           /\ Listed = Values(sessions) /\ IsFiniteSet(Listed)
           /\ Active = Cardinality(Listed \ ToSet(waiting))
           /\ \A a \in Accounts : sessions[a] # None =>
                 /\ sessions[a] \in Listed /\ sessions[a] \in alive
                 /\ sessions[a] \in Sessions /\ sessions[a] \notin ToSet(added)
                 /\ sessions[a] \notin Lingering
           /\ \A a \in Accounts : offline[a] # None =>
                 /\ offline[a] \in Lingering /\ offline[a] \in alive
                 /\ offline[a] \in Sessions /\ offline[a] \notin ToSet(added)
                 /\ offline[a] \notin Listed
           /\ \A a, b \in Accounts : sessions[a] # None /\ sessions[a] = sessions[b] => a = b
           /\ \A a, b \in Accounts : offline[a] # None /\ offline[a] = offline[b] => a = b
<1>1. OwnPlaces(sessions) /\ OwnPlaces(offline)
  BY DEF IInv, TypeOK, PlacesHold, OwnPlaces
<1>2. Listed = Values(sessions)
  BY DEF Listed, Values
<1>3. waiting \in Seq(Sessions) /\ IsInjective(waiting) /\ ToSet(waiting) \subseteq Listed
  BY DEF IInv, TypeOK, PlacesHold, EverySessionInOnePlace
<1>4. IsFiniteSet(Listed) /\ Active = Cardinality(Listed \ ToSet(waiting))
  BY <1>1, <1>2, <1>3, ListedAreCounted DEF Active
<1>5. \A a \in Accounts : sessions[a] # None =>
                 /\ sessions[a] \in Listed /\ sessions[a] \in alive
                 /\ sessions[a] \in Sessions /\ sessions[a] \notin ToSet(added)
                 /\ sessions[a] \notin Lingering
  <2>1. \A a \in Accounts : sessions[a] # None => sessions[a] \in Listed
    BY DEF Listed
  <2> QED BY <1>1, <2>1 DEF IInv, PlacesHold, EverySessionInOnePlace, OwnPlaces
<1>6. \A a \in Accounts : offline[a] # None =>
                 /\ offline[a] \in Lingering /\ offline[a] \in alive
                 /\ offline[a] \in Sessions /\ offline[a] \notin ToSet(added)
                 /\ offline[a] \notin Listed
  <2>1. \A a \in Accounts : offline[a] # None => offline[a] \in Lingering
    BY DEF Lingering
  <2> QED BY <1>1, <2>1 DEF IInv, PlacesHold, EverySessionInOnePlace, OwnPlaces
<1> QED BY <1>1, <1>2, <1>4, <1>5, <1>6 DEF OwnPlaces

(* Steps that leave the lists alone keep PlacesHold,                          *)
LEMMA SamePlaces ==
    ASSUME PlacesHold, UNCHANGED <<added, sessions, waiting, offline, alive>>
    PROVE  PlacesHold'
BY DEF PlacesHold, EverySessionInOnePlace, Listed, Lingering

(* those that leave the queue and the sessions alone keep QueueHolds,         *)
LEMMA SameQueue ==
    ASSUME QueueHolds, UNCHANGED <<sessions, waiting, entered>>
    PROVE  QueueHolds'
BY DEF QueueHolds, QueueMeansFull, LimitRespected, Listed, Active

(* and those that leave sessions and lists alone keep MembersHold.            *)
LEMMA SameMembers ==
    ASSUME MembersHold, UNCHANGED <<added, sessions, waiting, offline, alive, sess, world>>
    PROVE  MembersHold'
BY DEF MembersHold, Fresh, Plays, Idle, Listed, Lingering

----------------------------------------------------------------------------
(* Steps that only disturb sessions: HangUp, Kick, LoginAgain.                *)
LEMMA Disturb ==
    ASSUME IInv, UNCHANGED <<mgrVars, alive, world, loopVars, entered>>,
           sess' \in [Sessions -> SessionState],
           \A t \in Sessions : Disturbed(sess[t], sess'[t])
    PROVE  IInv'
<1> USE DEF IInv
<1>1. UNCHANGED <<added, sessions, waiting, offline, dropped, alive, world,
                  pc, todo, cur, stopped, kickedAll, entered>>
  BY DEF mgrVars, loopVars
<1>2. TypeOK'
  BY <1>1 DEF TypeOK
<1>3. PlacesHold' /\ QueueHolds'
  BY <1>1, SamePlaces, SameQueue
<1>4. /\ Listed' = Listed /\ Lingering' = Lingering
      /\ alive \subseteq Sessions /\ Listed \subseteq alive /\ Lingering \subseteq alive
      /\ ToSet(added) \subseteq alive /\ ToSet(waiting) \subseteq alive
  BY <1>1 DEF TypeOK, PlacesHold, EverySessionInOnePlace, Listed, Lingering
<1>5. \A t \in alive :
        /\ sess'[t].player = sess[t].player /\ sess'[t].loading = sess[t].loading
        /\ sess'[t].inQueue <=> sess[t].inQueue
        /\ sess'[t].asked <=> sess[t].asked
        /\ sess'[t].listed <=> sess[t].listed
        /\ sess[t].sock # "none" => sess'[t].sock # "none"
        /\ sess[t].sock = "closed" => sess'[t].sock = "closed"
        /\ sess[t].kicked => sess'[t].kicked
        /\ Idle(t)' <=> Idle(t)
        /\ \A c : Plays(sess'[t], c) <=> Plays(sess[t], c)
        /\ Fresh(sess[t]) => Fresh(sess'[t])
  BY <1>4 DEF Disturbed, Idle, Plays, Fresh
<1>6. MembersHold'
  <2>1. world' = {sess'[s].player : s \in alive} \ {None}
    BY <1>1, <1>5 DEF MembersHold
  <2> QED BY <1>1, <1>4, <1>5, <2>1 DEF MembersHold
<1>7. LoopHolds'
  BY <1>1 DEF LoopHolds, Inside, Current
<1>8. \A a \in Accounts : /\ sessions[a] # None => sessions[a] \in alive
                          /\ offline[a] # None => offline[a] \in alive
  BY Placed
<1>9. BesideHolds'
  BY <1>1, <1>5, <1>8 DEF BesideHolds, Past
<1>10. EndHolds'
  BY <1>1, <1>4, <1>5, <1>8 DEF EndHolds, Visited, Past, Inside
<1> QED BY <1>2, <1>3, <1>6, <1>7, <1>9, <1>10

(* HangUp, Kick and LoginAgain are such steps.                                *)
LEMMA Disturbing ==
    ASSUME IInv,
           \/ \E s \in Sessions : HangUp(s) \/ Kick(s)
           \/ \E c \in Characters : LoginAgain(c)
    PROVE  IInv'
<1> DEFINE Frame == UNCHANGED <<mgrVars, alive, world, loopVars, entered>>
<1>1. sess \in [Sessions -> SessionState]
  BY DEF IInv, TypeOK
<1>2. ASSUME NEW s \in Sessions, NEW n \in SessionState, Disturbed(sess[s], n),
             sess' = [sess EXCEPT ![s] = n], Frame
      PROVE  IInv'
  <2>1. sess' \in [Sessions -> SessionState] /\ \A t \in Sessions : Disturbed(sess[t], sess'[t])
    BY <1>1, <1>2, UndisturbedIs
  <2> QED BY <1>2, <2>1, Disturb
<1>3. ASSUME NEW s \in Sessions, HangUp(s) PROVE IInv'
  <2>1. PICK n : n = [sess[s] EXCEPT !.sock = "closed"]
    OBVIOUS
  <2>2. n \in SessionState /\ Disturbed(sess[s], n)
    BY <1>1, <1>3, <2>1, ClosedIs DEF HangUp
  <2>3. sess' = [sess EXCEPT ![s] = n]
    BY <1>3, <2>1 DEF HangUp
  <2> QED BY <1>2, <1>3, <2>2, <2>3 DEF HangUp
<1>4. ASSUME NEW s \in Sessions, sess' = [sess EXCEPT ![s] = Kicked(@, TRUE)], Frame PROVE IInv'
  <2>1. PICK n : n = Kicked(sess[s], TRUE)
    OBVIOUS
  <2>2. n \in SessionState /\ Disturbed(sess[s], n)
    BY <1>1, <2>1, KickedIs
  <2>3. sess' = [sess EXCEPT ![s] = n]
    BY <1>4, <2>1
  <2> QED BY <1>2, <1>4, <2>2, <2>3
<1>5. ASSUME NEW s \in Sessions, Kick(s) PROVE IInv'
  BY <1>4, <1>5 DEF Kick
<1>6. ASSUME NEW c \in Characters, LoginAgain(c) PROVE IInv'
  <2>1. cur \in Accounts /\ Current # None
    BY <1>6 DEF IInv, LoopHolds, Inside, LoginAgain, MayLogin
  <2>2. Current \in Sessions
    BY <2>1, Placed DEF Current
  <2> QED BY <1>4, <1>6, <2>2 DEF LoginAgain
<1> QED BY <1>3, <1>5, <1>6

----------------------------------------------------------------------------
(* Steps that only move the loops on.                                         *)
LEMMA Moving ==
    ASSUME IInv,
           \/ BeginUpdate \/ AddDone \/ PacketsDone \/ UpdateReturnsTrue \/ VisitsDone
           \/ StopNow \/ Terminated
           \/ \E a \in Accounts : Visit(a)
    PROVE  IInv'
<1>1. /\ UNCHANGED <<added, sessions, waiting, offline, dropped, alive, sess, world,
                     kickedAll, entered>>
      /\ stopped => stopped'
  BY DEF BeginUpdate, AddDone, PacketsDone, UpdateReturnsTrue, VisitsDone, StopNow, Terminated,
         Visit, vars, mgrVars, sessVars, loopVars
<1>2. PlacesHold' /\ QueueHolds' /\ MembersHold'
  BY <1>1, SamePlaces, SameQueue, SameMembers DEF IInv
<1>3. ASSUME pc' \in {"idle", "add", "visit", "update", "callbacks", "offline", "down"},
             todo' \subseteq {a \in Accounts : sessions[a] # None},
             cur' \in Accounts \cup {None}, stopped' \in BOOLEAN
      PROVE  TypeOK'
  BY <1>1, <1>3 DEF IInv, TypeOK
<1>4. \A a \in Accounts : sessions[a] # None => /\ sess[sessions[a]] \in SessionState
                                                /\ sess[sessions[a]].sock # "none"
  <2>1. \A a \in Accounts : sessions[a] # None => sessions[a] \in Listed /\ sessions[a] \in Sessions
    BY Placed
  <2> QED BY <2>1 DEF IInv, TypeOK, MembersHold
<1>5. \A m \in SessionState : m.sock # "none" => m.sock = "open" \/ m.sock = "closed"
  BY DEF SessionState
<1> USE DEF Inside, Past, Visited, Current, Idle
<1>0. /\ TypeOK /\ LoopHolds /\ BesideHolds /\ EndHolds
      /\ pc \in {"idle", "add", "visit", "update", "callbacks", "offline", "down"}
      /\ todo \subseteq {a \in Accounts : sessions[a] # None}
      /\ cur \in Accounts \cup {None} /\ stopped \in BOOLEAN
  BY DEF IInv, TypeOK
<1>14. Lingering' = Lingering
  BY <1>1 DEF Lingering
<1>6. CASE BeginUpdate
  <2>1. pc = "idle" /\ pc' = "add" /\ UNCHANGED <<todo, cur, stopped>> /\ ~kickedAll
    BY <1>0, <1>6 DEF BeginUpdate, EndHolds
  <2>3. LoopHolds'
    BY <1>0, <1>1, <2>1 DEF LoopHolds
  <2>4. BesideHolds'
    BY <1>0, <1>1, <2>1 DEF BesideHolds, LoopHolds
  <2>5. EndHolds'
    BY <1>0, <1>1, <1>4, <1>5, <1>14, <2>1 DEF EndHolds, LoopHolds
  <2>6. TypeOK'
    BY <1>0, <1>3, <2>1
  <2> QED BY <1>2, <2>3, <2>4, <2>5, <2>6 DEF IInv
<1>7. CASE AddDone
  <2>1. /\ pc = "add" /\ pc' = "visit" /\ UNCHANGED <<cur, stopped>>
        /\ todo' = {a \in Accounts : sessions[a] # None}
    BY <1>7 DEF AddDone
  <2>3. LoopHolds'
    BY <1>0, <1>1, <2>1 DEF LoopHolds
  <2>4. BesideHolds'
    BY <1>0, <1>1, <2>1 DEF BesideHolds, LoopHolds
  <2>5. EndHolds'
    BY <1>0, <1>1, <1>4, <1>5, <1>14, <2>1 DEF EndHolds, LoopHolds
  <2>6. TypeOK'
    BY <1>0, <1>3, <2>1
  <2> QED BY <1>2, <2>3, <2>4, <2>5, <2>6 DEF IInv
<1>8. CASE PacketsDone
  <2>1. pc = "update" /\ pc' = "callbacks" /\ UNCHANGED <<todo, cur, stopped>>
    BY <1>8 DEF PacketsDone
  <2>3. LoopHolds'
    BY <1>0, <1>1, <2>1 DEF LoopHolds
  <2>4. BesideHolds'
    BY <1>0, <1>1, <2>1 DEF BesideHolds, LoopHolds
  <2>5. EndHolds'
    BY <1>0, <1>1, <1>4, <1>5, <1>14, <2>1 DEF EndHolds, LoopHolds
  <2>6. TypeOK'
    BY <1>0, <1>3, <2>1
  <2> QED BY <1>2, <2>3, <2>4, <2>5, <2>6 DEF IInv
<1>9. CASE UpdateReturnsTrue
  <2>1. /\ pc = "callbacks" /\ pc' = "visit" /\ cur' = None /\ UNCHANGED <<todo, stopped>>
        /\ sess[Current].sock = "open"
    BY <1>9 DEF UpdateReturnsTrue
  <2>2. None \notin Accounts
    BY SessionsAssumption
  <2>3. LoopHolds'
    BY <1>0, <1>1, <2>1, <2>2 DEF LoopHolds
  <2>4. BesideHolds'
    BY <1>0, <1>1, <2>1, <2>2 DEF BesideHolds, LoopHolds
  <2>5. EndHolds'
    BY <1>0, <1>1, <1>4, <1>5, <1>14, <2>1, <2>2 DEF EndHolds, LoopHolds
  <2>6. TypeOK'
    BY <1>0, <1>3, <2>1, <2>2
  <2> QED BY <1>2, <2>3, <2>4, <2>5, <2>6 DEF IInv
<1>10. CASE VisitsDone
  <2>1. pc = "visit" /\ todo = {} /\ pc' = "offline" /\ UNCHANGED <<todo, cur, stopped>>
    BY <1>10 DEF VisitsDone
  <2>3. LoopHolds'
    BY <1>0, <1>1, <2>1 DEF LoopHolds
  <2>4. BesideHolds'
    BY <1>0, <1>1, <2>1 DEF BesideHolds, LoopHolds
  <2>5. EndHolds'
    BY <1>0, <1>1, <1>4, <1>5, <1>14, <2>1 DEF EndHolds, LoopHolds
  <2>6. TypeOK'
    BY <1>0, <1>3, <2>1
  <2> QED BY <1>2, <2>3, <2>4, <2>5, <2>6 DEF IInv
<1>11. CASE StopNow
  <2>1. UNCHANGED <<pc, todo, cur>> /\ stopped' = TRUE
    BY <1>11 DEF StopNow
  <2>3. LoopHolds'
    BY <1>0, <1>1, <2>1 DEF LoopHolds
  <2>4. BesideHolds'
    BY <1>0, <1>1, <2>1 DEF BesideHolds, LoopHolds
  <2>5. EndHolds'
    BY <1>0, <1>1, <1>4, <1>5, <1>14, <2>1 DEF EndHolds, LoopHolds
  <2>6. TypeOK'
    BY <1>0, <1>3, <2>1
  <2> QED BY <1>2, <2>3, <2>4, <2>5, <2>6 DEF IInv
<1>12. CASE Terminated
  <2>1. UNCHANGED <<pc, todo, cur, stopped>>
    BY <1>12 DEF Terminated, vars, loopVars
  <2>3. LoopHolds'
    BY <1>0, <1>1, <2>1 DEF LoopHolds
  <2>4. BesideHolds'
    BY <1>0, <1>1, <2>1 DEF BesideHolds, LoopHolds
  <2>5. EndHolds'
    BY <1>0, <1>1, <1>4, <1>5, <1>14, <2>1 DEF EndHolds, LoopHolds
  <2>6. TypeOK'
    BY <1>0, <1>3, <2>1
  <2> QED BY <1>2, <2>3, <2>4, <2>5, <2>6 DEF IInv
<1>13. ASSUME NEW a \in Accounts, Visit(a) PROVE IInv'
  <2>1. /\ pc = "visit" /\ a \in todo /\ todo' = todo \ {a} /\ cur' = a /\ pc' = "update"
        /\ UNCHANGED stopped /\ sessions[a] # None
    BY <1>0, <1>13 DEF Visit
  <2>3. LoopHolds'
    BY <1>0, <1>1, <2>1 DEF LoopHolds
  <2>4. BesideHolds'
    BY <1>0, <1>1, <2>1 DEF BesideHolds, LoopHolds
  <2>5. EndHolds'
    BY <1>0, <1>1, <1>4, <1>5, <1>14, <2>1 DEF EndHolds, LoopHolds
  <2>6. TypeOK'
    BY <1>0, <1>3, <2>1
  <2> QED BY <1>2, <2>3, <2>4, <2>5, <2>6 DEF IInv
<1> QED BY <1>6, <1>7, <1>8, <1>9, <1>10, <1>11, <1>12, <1>13

----------------------------------------------------------------------------
(* Steps of the current session t, which may change the session o that is     *)
(* offline for its account: what they must keep.                              *)
LEMMA Members ==
    ASSUME IInv, Inside, UNCHANGED <<mgrVars, alive, loopVars, entered>>,
           NEW t, t = Current, NEW o, o = offline[cur],
           sess' \in [Sessions -> SessionState], world' \subseteq Characters,
           \A s \in Sessions \ {t, o} : sess'[s] = sess[s],
           t \notin ToSet(waiting), sess'[t].sock = sess[t].sock \/ sess'[t].sock = "closed",
           sess'[t].player = None \/ sess'[t].loading = None,
           \A c \in Characters : Plays(sess'[t], c) => OwnerOf[c] = cur,
           world' = {sess'[s].player : s \in alive} \ {None},
           o # None => /\ sess'[o].loading = None
                       /\ sess[o].kicked => sess'[o].kicked
                       /\ sess'[o].player \in {sess[o].player, None},
           o # None /\ ~Idle(t)' =>
               /\ sess'[o].kicked \/ sess'[o].player = None
               /\ ~Plays(sess'[t], sess'[o].player),
           kickedAll => sess'[t].sock = "closed" \/ (Idle(t)' /\ pc = "callbacks")
    PROVE  IInv'
<1>1. UNCHANGED <<added, sessions, waiting, offline, dropped, alive, pc, todo, cur, stopped,
                  kickedAll, entered>>
  BY DEF mgrVars, loopVars
<1>2. TypeOK /\ PlacesHold /\ MembersHold /\ LoopHolds /\ BesideHolds /\ EndHolds /\ QueueHolds
  BY DEF IInv
<1>3. /\ cur \in Accounts /\ cur \notin todo /\ t = sessions[cur] /\ t # None
      /\ pc \in {"update", "callbacks"}
  BY <1>2 DEF LoopHolds, Inside, Current
<1>4. /\ t \in Listed /\ t \in alive /\ t \in Sessions /\ t \notin ToSet(added)
      /\ t \notin Lingering
      /\ o # None => /\ o \in Lingering /\ o \in alive /\ o \in Sessions
                     /\ o \notin ToSet(added) /\ o \notin Listed
      /\ AccountOf[t] = cur /\ (o # None => AccountOf[o] = cur)
  BY <1>2, <1>3, Placed DEF PlacesHold
<1>5. /\ Listed' = Listed /\ Lingering' = Lingering
      /\ alive \subseteq Sessions /\ Listed \subseteq alive /\ Lingering \subseteq alive
      /\ ToSet(added) \subseteq alive /\ ToSet(waiting) \subseteq Listed
      /\ None \notin Lingering /\ None \notin Sessions
  BY <1>1, <1>2, SessionsAssumption
  DEF TypeOK, PlacesHold, EverySessionInOnePlace, Listed, Lingering
<1>6. TypeOK' /\ PlacesHold' /\ QueueHolds'
  <2>1. TypeOK'
    BY <1>1, <1>2 DEF TypeOK
  <2> QED BY <1>1, <1>2, <2>1, SamePlaces, SameQueue
<1>7. MembersHold'
  <2>1. \A s \in ToSet(added) : Fresh(sess'[s])
    <3>1. \A s \in ToSet(added) : s \in Sessions /\ s # t /\ s # o
      BY <1>4, <1>5
    <3>2. \A s \in ToSet(added) : sess'[s] = sess[s]
      BY <3>1
    <3> QED BY <1>2, <3>2 DEF MembersHold
  <2>2. \A s \in Listed : sess'[s].sock # "none"
    <3>1. \A s \in Listed : s \in Sessions /\ s # o
      BY <1>4, <1>5
    <3> QED BY <1>2, <1>4, <3>1 DEF MembersHold
  <2>3. \A s \in Lingering : sess'[s].loading = None
    BY <1>2, <1>4, <1>5 DEF MembersHold
  <2>4. \A s \in ToSet(waiting) : sess'[s].inQueue /\ ~sess'[s].asked /\ Idle(s)'
    <3>1. \A s \in ToSet(waiting) : sess'[s] = sess[s]
      <4>1. \A s \in ToSet(waiting) : s \in Sessions /\ s # o /\ s # t
        BY <1>4, <1>5
      <4> QED BY <4>1
    <3> QED BY <1>2, <3>1 DEF MembersHold, Idle
  <2>5. \A s \in alive : sess'[s].player = None \/ sess'[s].loading = None
    <3>1. ASSUME NEW s \in alive PROVE sess'[s].player = None \/ sess'[s].loading = None
      <4>1. CASE s = t \/ s = o
        BY <1>5, <4>1
      <4>2. CASE s # t /\ s # o
        BY <1>2, <1>5, <4>2 DEF MembersHold
      <4> QED BY <4>1, <4>2
    <3> QED BY <3>1
  <2>6. \A s \in alive, c \in Characters : Plays(sess'[s], c) => OwnerOf[c] = AccountOf[s]
    <3>1. ASSUME NEW s \in alive, NEW c \in Characters, Plays(sess'[s], c)
          PROVE  OwnerOf[c] = AccountOf[s]
      <4>1. CASE s = t
        BY <1>4, <3>1, <4>1
      <4>2. CASE s = o /\ s # t
        <5>1. o # None /\ Plays(sess[o], c)
          BY <1>5, <3>1, <4>2, SessionsAssumption DEF Plays
        <5> QED BY <1>2, <1>4, <3>1, <4>2, <5>1 DEF MembersHold
      <4>3. CASE s # o /\ s # t
        BY <1>2, <1>5, <3>1, <4>3 DEF MembersHold
      <4> QED BY <4>1, <4>2, <4>3
    <3> QED BY <3>1
  <2> QED BY <1>1, <1>5, <2>1, <2>2, <2>3, <2>4, <2>5, <2>6 DEF MembersHold
<1>8. LoopHolds'
  BY <1>1, <1>2 DEF LoopHolds, Inside, Current
<1>9. \A a \in Accounts \ {cur} :
         /\ sessions[a] # None => sess'[sessions[a]] = sess[sessions[a]]
         /\ offline[a] # None => sess'[offline[a]] = sess[offline[a]]
  <2>1. \A a \in Accounts \ {cur} :
         /\ sessions[a] # None => sessions[a] \in Sessions \ {t, o}
         /\ offline[a] # None => offline[a] \in Sessions \ {t, o}
    BY <1>3, <1>4, Placed
  <2> QED BY <2>1
<1>10. BesideHolds'
  <2>1. ASSUME NEW a \in Accounts, sessions[a] # None, offline[a] # None, ~Idle(sessions[a])'
        PROVE  /\ Past(a)
               /\ sess'[offline[a]].kicked \/ sess'[offline[a]].player = None
               /\ ~Plays(sess'[sessions[a]], sess'[offline[a]].player)
    <3>1. CASE a = cur
      BY <1>1, <1>3, <2>1, <3>1 DEF Past, Idle
    <3>2. CASE a # cur
      BY <1>1, <1>2, <1>9, <2>1, <3>2 DEF BesideHolds, Idle
    <3> QED BY <3>1, <3>2
  <2> QED BY <1>1, <2>1 DEF BesideHolds, Past, Idle
<1>11. EndHolds'
  <2>1. ASSUME kickedAll, NEW s \in Lingering PROVE sess'[s].kicked
    <3>1. sess[s].kicked
      BY <1>2, <2>1 DEF EndHolds
    <3> QED BY <1>4, <1>5, <2>1, <3>1
  <2>2. ASSUME kickedAll, NEW a \in Accounts, sessions[a] # None
        PROVE  /\ \/ sess'[sessions[a]].sock = "closed"
                  \/ /\ Idle(sessions[a])'
                     /\ pc = "down" \/ Visited(a) \/ (pc = "callbacks" /\ cur = a)
                           \/ ~sess'[sessions[a]].listed
               /\ Visited(a) => Idle(sessions[a])'
    <3>1. CASE a = cur
      BY <1>1, <1>3, <2>2, <3>1 DEF Visited, Inside, Idle
    <3>2. CASE a # cur
      BY <1>1, <1>2, <1>9, <2>2, <3>2 DEF EndHolds, Visited, Past, Inside, Idle
    <3> QED BY <3>1, <3>2
  <2>3. kickedAll => stopped /\ pc # "idle"
    BY <1>2 DEF EndHolds
  <2> QED BY <1>1, <1>3, <1>5, <2>1, <2>2, <2>3 DEF EndHolds, Visited, Past, Inside, Idle
<1> QED BY <1>6, <1>7, <1>8, <1>10, <1>11 DEF IInv

(* Only the two sessions of an account can hold one of its characters.        *)
LEMMA Holders ==
    ASSUME IInv, NEW s \in alive, NEW c \in Characters, Plays(sess[s], c)
    PROVE  /\ s = sessions[OwnerOf[c]] \/ s = offline[OwnerOf[c]]
           /\ OwnerOf[c] \in Accounts
<1>1. OwnerOf[c] = AccountOf[s] /\ OwnerOf[c] \in Accounts
  BY SessionsAssumption DEF IInv, MembersHold
<1>2. s \notin ToSet(added)
  BY DEF IInv, MembersHold, Fresh, Plays
<1>3. s \in Listed \/ s \in Lingering
  BY <1>2 DEF IInv, PlacesHold, EverySessionInOnePlace
<1>4. ASSUME s \in Listed PROVE s = sessions[OwnerOf[c]]
  <2>1. PICK a \in Accounts : s = sessions[a] /\ s # None
    BY <1>4 DEF Listed
  <2>2. AccountOf[s] = a
    BY <2>1 DEF IInv, PlacesHold
  <2> QED BY <1>1, <2>1, <2>2
<1>5. ASSUME s \in Lingering PROVE s = offline[OwnerOf[c]]
  <2>1. PICK a \in Accounts : s = offline[a] /\ s # None
    BY <1>5 DEF Lingering
  <2>2. AccountOf[s] = a
    BY <2>1 DEF IInv, PlacesHold
  <2> QED BY <1>1, <2>1, <2>2
<1> QED BY <1>1, <1>3, <1>4, <1>5

(* What is known of the current session, and of the offline one beside it.    *)
LEMMA CurrentIs ==
    ASSUME IInv, Inside, NEW t, t = Current, NEW o, o = offline[cur]
    PROVE  /\ cur \in Accounts /\ t = sessions[cur] /\ t \in Sessions /\ t \in alive
           /\ sess \in [Sessions -> SessionState] /\ alive \subseteq Sessions
           /\ world \subseteq Characters
           /\ sess[t] \in SessionState
           /\ t # o /\ None \notin Sessions /\ None \notin Characters
           /\ o # None => o \in Sessions /\ o \in alive /\ sess[o] \in SessionState
           /\ o # None => sess[o].loading = None
           /\ t \in ToSet(waiting) => sess[t].inQueue /\ ~sess[t].asked /\ Idle(t)
           /\ sess[t].player = None \/ sess[t].loading = None
           /\ \A c \in Characters : Plays(sess[t], c) => OwnerOf[c] = cur
           /\ world = {sess[s].player : s \in alive} \ {None}
           /\ o # None /\ ~Idle(t) =>
                 /\ sess[o].kicked \/ sess[o].player = None
                 /\ ~Plays(sess[t], sess[o].player)
           /\ kickedAll => \/ sess[t].sock = "closed"
                           \/ Idle(t) /\ (pc = "callbacks" \/ ~sess[t].listed)
<1>1. TypeOK /\ PlacesHold /\ MembersHold /\ LoopHolds /\ BesideHolds /\ EndHolds
  BY DEF IInv
<1>2. cur \in Accounts /\ t = sessions[cur] /\ t # None /\ pc \in {"update", "callbacks"}
  BY <1>1 DEF LoopHolds, Inside, Current
<1>3. /\ t \in Sessions /\ t \in alive /\ t \notin Lingering
      /\ o # None => o \in Sessions /\ o \in alive /\ o \in Lingering
      /\ AccountOf[t] = cur
  BY <1>1, <1>2, Placed DEF PlacesHold
<1>4. t # o
  BY <1>2, <1>3
<1>5. o # None => sess[o].loading = None
  BY <1>1, <1>3 DEF MembersHold
<1>6. /\ sess \in [Sessions -> SessionState] /\ alive \subseteq Sessions
      /\ world \subseteq Characters
  BY <1>1 DEF TypeOK
<1>7. o # None /\ ~Idle(t) =>
                 /\ sess[o].kicked \/ sess[o].player = None
                 /\ ~Plays(sess[t], sess[o].player)
  BY <1>1, <1>2 DEF BesideHolds
<1>8. kickedAll => \/ sess[t].sock = "closed"
                   \/ Idle(t) /\ (pc = "callbacks" \/ ~sess[t].listed)
  BY <1>1, <1>2 DEF EndHolds, Visited, Inside
<1>9. /\ t \in ToSet(waiting) => sess[t].inQueue /\ ~sess[t].asked /\ Idle(t)
      /\ sess[t].player = None \/ sess[t].loading = None
      /\ \A c \in Characters : Plays(sess[t], c) => OwnerOf[c] = cur
      /\ world = {sess[s].player : s \in alive} \ {None}
  BY <1>1, <1>3 DEF MembersHold
<1> QED BY <1>2, <1>3, <1>4, <1>5, <1>6, <1>7, <1>8, <1>9, SessionsAssumption

(* The characters in the world, when t and o change.                          *)
LEMMA TakeBackKeeps ==
    ASSUME IInv, NEW c \in Characters, TakeBack(c)
    PROVE  IInv'
<1>1. PICK t, o : t = Current /\ o = offline[cur]
  OBVIOUS
<1>2. /\ Inside /\ UNCHANGED <<mgrVars, alive, loopVars, entered>> /\ world' = world
      /\ OwnerOf[c] = cur /\ sess[t].listed /\ ~sess[t].inQueue /\ Idle(t) /\ pc = "update"
      /\ o # None /\ sess[o].player = c
      /\ sess' = [sess EXCEPT ![o].player = None, ![t].player = c]
  BY <1>1 DEF TakeBack, MayLogin, Inside
<1>3. /\ t \in Sessions /\ o \in Sessions /\ t # o /\ t \in alive /\ o \in alive
      /\ sess \in [Sessions -> SessionState] /\ sess[t] \in SessionState
      /\ sess[o] \in SessionState /\ alive \subseteq Sessions
      /\ sess[o].loading = None /\ t \notin ToSet(waiting)
      /\ world = {sess[s].player : s \in alive} \ {None} /\ world \subseteq Characters
      /\ None \notin Characters
      /\ kickedAll => sess[t].sock = "closed"
  BY <1>1, <1>2, CurrentIs
<1>4. PICK m, n : m = [sess[t] EXCEPT !.player = c] /\ n = [sess[o] EXCEPT !.player = None]
  OBVIOUS
<1>5. /\ m \in SessionState /\ m.player = c /\ m.loading = sess[t].loading
      /\ m.sock = sess[t].sock
      /\ n \in SessionState /\ n.player = None /\ n.loading = sess[o].loading
      /\ n.kicked = sess[o].kicked
  BY <1>3, <1>4 DEF SessionState
<1>6. /\ sess' \in [Sessions -> SessionState] /\ sess'[t] = m /\ sess'[o] = n
      /\ \A s \in Sessions \ {t, o} : sess'[s] = sess[s]
  BY <1>2, <1>3, <1>4, <1>5
<1>7. sess[t].loading = None /\ sess[t].player = None
  BY <1>2 DEF Idle
<1>8. world' = {sess'[s].player : s \in alive} \ {None}
  <2>1. ASSUME NEW x \in world PROVE x \in {sess'[s].player : s \in alive} \ {None}
    BY <1>2, <1>3, <1>5, <1>6, <1>7, <2>1
  <2>2. ASSUME NEW s \in alive, sess'[s].player # None PROVE sess'[s].player \in world
    BY <1>2, <1>3, <1>5, <1>6, <1>7, <2>2
  <2> QED BY <1>2, <2>1, <2>2
<1>9. /\ \A x \in Characters : Plays(sess'[t], x) => OwnerOf[x] = cur
      /\ ~Plays(sess'[t], sess'[o].player)
      /\ sess[o].kicked => sess'[o].kicked
  BY <1>2, <1>3, <1>5, <1>6, <1>7 DEF Plays
<1>10. /\ sess'[t].sock = sess[t].sock /\ sess'[t].loading = None
       /\ sess'[o].loading = None /\ sess'[o].player = None
       /\ kickedAll => sess'[t].sock = "closed"
  BY <1>3, <1>5, <1>6, <1>7
<1>11. t \notin ToSet(waiting) /\ world' \subseteq Characters
  BY <1>2, <1>3
<1>12. Inside /\ UNCHANGED <<mgrVars, alive, loopVars, entered>>
  BY <1>2
<1>13. sess' \in [Sessions -> SessionState]
  BY <1>6
<1>14. \A s \in Sessions \ {t, o} : sess'[s] = sess[s]
  BY <1>6
<1> QED BY <1>1, <1>8, <1>9, <1>10, <1>11, <1>12, <1>13, <1>14, Members

(* The world stays as it is when no player changes.                           *)
LEMMA SameWorld ==
    ASSUME IInv, \A s \in alive : sess'[s].player = sess[s].player
    PROVE  world = {sess'[s].player : s \in alive} \ {None}
BY DEF IInv, MembersHold

(* A login that loads its character: an offline session of the account, which *)
(* has another one, is kicked.                                                *)
LEMMA LoadKeeps ==
    ASSUME IInv, NEW c \in Characters, Load(c)
    PROVE  IInv'
<1>1. PICK t, o : t = Current /\ o = offline[cur]
  OBVIOUS
<1>2. PICK f : f = [sess EXCEPT ![t].loading = c]
  OBVIOUS
<1>3. /\ Inside /\ UNCHANGED <<mgrVars, alive, loopVars, entered>> /\ world' = world
      /\ OwnerOf[c] = cur /\ sess[t].listed /\ ~sess[t].inQueue /\ Idle(t) /\ pc = "update"
      /\ \/ o = None /\ sess' = f
         \/ /\ o # None /\ sess[o].player \notin {None, c}
            /\ sess' = [f EXCEPT ![o] = Kicked(@, TRUE)]
  BY <1>1, <1>2 DEF Load, MayLogin, Inside
<1>4. /\ t \in Sessions /\ t # o /\ t \in alive /\ None \notin Sessions
      /\ sess \in [Sessions -> SessionState] /\ sess[t] \in SessionState
      /\ o # None => o \in Sessions /\ sess[o] \in SessionState /\ sess[o].loading = None
      /\ alive \subseteq Sessions /\ t \notin ToSet(waiting)
      /\ world \subseteq Characters /\ None \notin Characters
      /\ kickedAll => sess[t].sock = "closed"
  BY <1>1, <1>3, CurrentIs
<1>5. PICK m : m = [sess[t] EXCEPT !.loading = c]
  OBVIOUS
<1>6. /\ m \in SessionState /\ m.loading = c /\ m.player = sess[t].player
      /\ m.sock = sess[t].sock
  BY <1>4, <1>5 DEF SessionState
<1>7. sess[t].loading = None /\ sess[t].player = None
  BY <1>3 DEF Idle
<1>8. f \in [Sessions -> SessionState] /\ f[t] = m /\ \A s \in Sessions \ {t} : f[s] = sess[s]
  BY <1>2, <1>4, <1>5, <1>6
<1>9. CASE o = None
  <2>1. /\ sess' \in [Sessions -> SessionState] /\ sess'[t] = m
        /\ \A s \in Sessions \ {t, o} : sess'[s] = sess[s]
        /\ \A s \in alive : sess'[s].player = sess[s].player
    BY <1>3, <1>4, <1>6, <1>8, <1>9
  <2>2. world' = {sess'[s].player : s \in alive} \ {None}
    BY <1>3, <2>1, SameWorld
  <2>3. \A x \in Characters : Plays(sess'[t], x) => OwnerOf[x] = cur
    BY <1>3, <1>4, <1>6, <1>7, <2>1 DEF Plays
  <2> QED BY <1>1, <1>3, <1>4, <1>6, <1>7, <1>9, <2>1, <2>2, <2>3, Members
<1>10. CASE o # None
  <2>1. PICK n : n = Kicked(sess[o], TRUE)
    OBVIOUS
  <2>2. n \in SessionState /\ n.player = sess[o].player /\ n.loading = None /\ n.kicked
    BY <1>4, <1>10, <2>1, KickedIs DEF Disturbed
  <2>3. /\ sess' \in [Sessions -> SessionState] /\ sess'[t] = m /\ sess'[o] = n
        /\ \A s \in Sessions \ {t, o} : sess'[s] = sess[s]
        /\ \A s \in alive : sess'[s].player = sess[s].player
    <3>1. f[o] = sess[o] /\ o \in Sessions
      BY <1>4, <1>8, <1>10
    <3>2. sess' = [f EXCEPT ![o] = n]
      BY <1>3, <1>10, <2>1, <3>1
    <3>3. /\ sess' \in [Sessions -> SessionState] /\ sess'[t] = m /\ sess'[o] = n
          /\ \A s \in Sessions \ {t, o} : sess'[s] = sess[s]
      BY <1>4, <1>8, <2>2, <3>1, <3>2
    <3> QED BY <1>4, <1>6, <2>2, <3>3
  <2>4. world' = {sess'[s].player : s \in alive} \ {None}
    BY <1>3, <2>3, SameWorld
  <2>5. /\ \A x \in Characters : Plays(sess'[t], x) => OwnerOf[x] = cur
        /\ ~Plays(sess'[t], sess'[o].player)
    BY <1>3, <1>4, <1>6, <1>7, <1>10, <2>2, <2>3 DEF Plays
  <2> QED BY <1>1, <1>3, <1>4, <1>6, <1>7, <1>10, <2>2, <2>3, <2>4, <2>5, Members
<1> QED BY <1>9, <1>10

(* The answers to InitializeSession and to CMSG_CHAR_ENUM.                    *)
LEMMA InitializeSessionCallbackKeeps ==
    ASSUME IInv, InitializeSessionCallback \/ HandleCharEnum
    PROVE  IInv'
<1>1. PICK t, o : t = Current /\ o = offline[cur]
  OBVIOUS
<1>2. Inside /\ pc = "callbacks"
  BY DEF InitializeSessionCallback, HandleCharEnum, Inside
<1>3. /\ UNCHANGED <<mgrVars, alive, loopVars, entered>> /\ world' = world
      /\ t \notin ToSet(waiting)
  BY <1>1, <1>2, CurrentIs DEF InitializeSessionCallback, HandleCharEnum
<1>4. /\ t \in Sessions /\ t # o /\ t \in alive /\ None \notin Sessions
      /\ sess \in [Sessions -> SessionState] /\ sess[t] \in SessionState
      /\ o # None => o \in Sessions /\ sess[o].loading = None
      /\ alive \subseteq Sessions /\ world \subseteq Characters
      /\ sess[t].player = None \/ sess[t].loading = None
      /\ \A c \in Characters : Plays(sess[t], c) => OwnerOf[c] = cur
      /\ o # None /\ ~Idle(t) =>
            /\ sess[o].kicked \/ sess[o].player = None
            /\ ~Plays(sess[t], sess[o].player)
      /\ kickedAll => sess[t].sock = "closed" \/ Idle(t)
  BY <1>1, <1>2, CurrentIs
<1>5. PICK m \in SessionState :
        /\ m.player = sess[t].player /\ m.loading = sess[t].loading /\ m.sock = sess[t].sock
        /\ sess' = [sess EXCEPT ![t] = m]
  <2>1. CASE InitializeSessionCallback
    <3>1. PICK m : m = [sess[t] EXCEPT !.asked = FALSE, !.inQueue = FALSE]
      OBVIOUS
    <3>2. /\ m \in SessionState
          /\ m.player = sess[t].player /\ m.loading = sess[t].loading /\ m.sock = sess[t].sock
      BY <1>4, <3>1 DEF SessionState
    <3>3. sess' = [sess EXCEPT ![t] = m]
      BY <1>1, <1>4, <2>1, <3>1 DEF InitializeSessionCallback
    <3> QED BY <3>2, <3>3
  <2>2. CASE HandleCharEnum
    <3>1. PICK m : m = [sess[t] EXCEPT !.listed = TRUE]
      OBVIOUS
    <3>2. /\ m \in SessionState
          /\ m.player = sess[t].player /\ m.loading = sess[t].loading /\ m.sock = sess[t].sock
      BY <1>4, <3>1 DEF SessionState
    <3>3. sess' = [sess EXCEPT ![t] = m]
      BY <1>1, <2>2, <3>1 DEF HandleCharEnum
    <3> QED BY <3>2, <3>3
  <2> QED BY <2>1, <2>2
<1>6. /\ sess' \in [Sessions -> SessionState] /\ sess'[t] = m
      /\ \A s \in Sessions \ {t} : sess'[s] = sess[s]
      /\ \A s \in alive : sess'[s].player = sess[s].player
  BY <1>4, <1>5
<1>7. world' = {sess'[s].player : s \in alive} \ {None}
  BY <1>3, <1>6, SameWorld
<1>8. /\ Idle(t)' <=> Idle(t)
      /\ \A x : Plays(sess'[t], x) <=> Plays(sess[t], x)
      /\ o # None => sess'[o] = sess[o]
  BY <1>4, <1>5, <1>6 DEF Idle, Plays
<1> QED BY <1>1, <1>2, <1>3, <1>4, <1>5, <1>6, <1>7, <1>8, Members

(* The answer of a login: the player that was loading is in the world.        *)
LEMMA LoginFromDBKeeps ==
    ASSUME IInv, LoginFromDB
    PROVE  IInv'
<1>1. PICK t, o, c : t = Current /\ o = offline[cur] /\ c = sess[t].loading
  OBVIOUS
<1>2. PICK f : f = [sess EXCEPT ![t].loading = None]
  OBVIOUS
<1>3. /\ Inside /\ UNCHANGED <<mgrVars, alive, loopVars, entered>> /\ c # None
      /\ \/ sess' = [f EXCEPT ![t].player = c] /\ world' = world \cup {c}
         \/ sess' = [f EXCEPT ![t] = Kicked(@, TRUE)] /\ world' = world
  BY <1>1, <1>2 DEF LoginFromDB, Inside
<1>4. /\ t \in Sessions /\ t # o /\ t \in alive /\ None \notin Sessions
      /\ sess \in [Sessions -> SessionState] /\ sess[t] \in SessionState
      /\ o # None => o \in Sessions /\ sess[o].loading = None
      /\ alive \subseteq Sessions /\ world \subseteq Characters /\ ~Idle(t)
      /\ t \notin ToSet(waiting)
      /\ sess[t].player = None /\ None \notin Characters
      /\ \A x \in Characters : Plays(sess[t], x) => OwnerOf[x] = cur
      /\ world = {sess[s].player : s \in alive} \ {None}
      /\ o # None => /\ sess[o].kicked \/ sess[o].player = None
                     /\ ~Plays(sess[t], sess[o].player)
      /\ kickedAll => sess[t].sock = "closed"
  BY <1>1, <1>3, CurrentIs DEF Idle
<1>5. c \in Characters /\ OwnerOf[c] = cur
  <2>1. c \in Characters
    BY <1>1, <1>3, <1>4 DEF SessionState
  <2> QED BY <1>1, <1>4, <2>1 DEF Plays
<1>6. PICK m : m = [sess[t] EXCEPT !.loading = None]
  OBVIOUS
<1>7. /\ m \in SessionState /\ m.loading = None /\ m.player = None
      /\ m.sock = sess[t].sock
  BY <1>4, <1>6 DEF SessionState
<1>8. f \in [Sessions -> SessionState] /\ f[t] = m /\ \A s \in Sessions \ {t} : f[s] = sess[s]
  BY <1>2, <1>4, <1>6, <1>7
<1>9. ASSUME sess' = [f EXCEPT ![t].player = c], world' = world \cup {c} PROVE IInv'
  <2>1. PICK n : n = [m EXCEPT !.player = c]
    OBVIOUS
  <2>2. n \in SessionState /\ n.loading = None /\ n.player = c /\ n.sock = sess[t].sock
    BY <1>5, <1>7, <2>1 DEF SessionState
  <2>3. /\ sess' \in [Sessions -> SessionState] /\ sess'[t] = n
        /\ \A s \in Sessions \ {t, o} : sess'[s] = sess[s]
        /\ o # None => sess'[o] = sess[o]
    BY <1>4, <1>8, <1>9, <2>1, <2>2
  <2>4. world' = {sess'[s].player : s \in alive} \ {None}
    <3>1. ASSUME NEW x \in world' PROVE x \in {sess'[s].player : s \in alive} \ {None}
      <4>1. CASE x = c
        BY <1>3, <1>4, <2>2, <2>3, <4>1
      <4>2. CASE x # c
        <5>1. PICK s \in alive : x = sess[s].player /\ x # None
          BY <1>4, <1>9, <3>1, <4>2
        <5>2. s # t
          BY <1>4, <5>1
        <5> QED BY <1>4, <2>3, <5>1, <5>2
      <4> QED BY <4>1, <4>2
    <3>2. ASSUME NEW s \in alive, sess'[s].player # None PROVE sess'[s].player \in world'
      <4>1. CASE s = t
        BY <1>9, <2>2, <2>3, <4>1
      <4>2. CASE s # t
        BY <1>4, <1>9, <2>3, <3>2, <4>2
      <4> QED BY <4>1, <4>2
    <3> QED BY <3>1, <3>2
  <2>5. /\ \A x \in Characters : Plays(sess'[t], x) => OwnerOf[x] = cur
        /\ o # None => /\ sess'[o].kicked \/ sess'[o].player = None
                       /\ ~Plays(sess'[t], sess'[o].player)
    BY <1>1, <1>3, <1>4, <1>5, <2>2, <2>3 DEF Plays
  <2>6. world' \subseteq Characters
    BY <1>4, <1>5, <1>9
  <2> QED BY <1>1, <1>3, <1>4, <2>2, <2>3, <2>4, <2>5, <2>6, Members
<1>10. ASSUME sess' = [f EXCEPT ![t] = Kicked(@, TRUE)], world' = world PROVE IInv'
  <2>1. PICK n : n = Kicked(m, TRUE)
    OBVIOUS
  <2>2. /\ n \in SessionState /\ n.loading = None /\ n.player = None
        /\ n.sock = sess[t].sock \/ n.sock = "closed"
    BY <1>7, <2>1, KickedIs DEF Disturbed
  <2>3. /\ sess' \in [Sessions -> SessionState] /\ sess'[t] = n
        /\ \A s \in Sessions \ {t} : sess'[s] = sess[s]
        /\ \A s \in alive : sess'[s].player = sess[s].player
    BY <1>4, <1>8, <1>10, <2>1, <2>2
  <2>4. world' = {sess'[s].player : s \in alive} \ {None}
    BY <1>10, <2>3, SameWorld
  <2>5. /\ \A x \in Characters : ~Plays(sess'[t], x)
        /\ Idle(t)'
        /\ o # None => sess'[o] = sess[o]
    BY <1>4, <2>2, <2>3 DEF Plays, Idle
  <2>6. /\ \A s \in Sessions \ {t, o} : sess'[s] = sess[s]
        /\ sess'[t].sock = sess[t].sock \/ sess'[t].sock = "closed"
        /\ kickedAll => sess'[t].sock = "closed"
        /\ sess'[t].player = None /\ world' \subseteq Characters
        /\ o # None => sess'[o].loading = None
    BY <1>4, <1>10, <2>2, <2>3, <2>5
  <2> QED BY <1>1, <1>3, <1>4, <2>3, <2>4, <2>5, <2>6, Members
<1> QED BY <1>3, <1>9, <1>10

(* Logout: the player is saved and leaves the world.                          *)
LEMMA LogoutKeeps ==
    ASSUME IInv, Logout
    PROVE  IInv'
<1>1. PICK t, o, c : t = Current /\ o = offline[cur] /\ c = sess[t].player
  OBVIOUS
<1>2. /\ Inside /\ UNCHANGED <<mgrVars, alive, loopVars, entered>> /\ c # None
      /\ sess' = [sess EXCEPT ![t].player = None] /\ world' = world \ {c}
  BY <1>1 DEF Logout, Inside
<1>3. /\ t \in Sessions /\ t # o /\ t \in alive /\ None \notin Sessions /\ cur \in Accounts
      /\ t = sessions[cur]
      /\ sess \in [Sessions -> SessionState] /\ sess[t] \in SessionState
      /\ o # None => o \in Sessions /\ sess[o].loading = None
      /\ alive \subseteq Sessions /\ world \subseteq Characters /\ ~Idle(t)
      /\ t \notin ToSet(waiting)
      /\ sess[t].loading = None /\ None \notin Characters
      /\ \A x \in Characters : Plays(sess[t], x) => OwnerOf[x] = cur
      /\ world = {sess[s].player : s \in alive} \ {None}
      /\ o # None => /\ sess[o].kicked \/ sess[o].player = None
                     /\ ~Plays(sess[t], sess[o].player)
      /\ kickedAll => sess[t].sock = "closed"
  BY <1>1, <1>2, CurrentIs DEF Idle
<1>4. PICK m : m = [sess[t] EXCEPT !.player = None]
  OBVIOUS
<1>5. /\ m \in SessionState /\ m.loading = None /\ m.player = None
      /\ m.sock = sess[t].sock
  BY <1>3, <1>4 DEF SessionState
<1>6. /\ sess' \in [Sessions -> SessionState] /\ sess'[t] = m
      /\ \A s \in Sessions \ {t} : sess'[s] = sess[s]
      /\ o # None => sess'[o] = sess[o]
  BY <1>2, <1>3, <1>4, <1>5
<1>7. \A s \in alive : sess[s].player = c => s = t
  <2>1. ASSUME NEW s \in alive, sess[s].player = c PROVE s = t
    <3>1. c \in Characters
      BY <1>1, <1>2, <1>3 DEF SessionState
    <3>2. OwnerOf[c] = cur /\ Plays(sess[s], c)
      BY <1>1, <1>2, <1>3, <2>1, <3>1 DEF Plays
    <3>3. s = t \/ s = o
      BY <1>1, <1>3, <3>1, <3>2, Holders
    <3>4. Plays(sess[t], c)
      BY <1>1, <1>2 DEF Plays
    <3> QED BY <1>3, <2>1, <3>3, <3>4
  <2> QED BY <2>1
<1>8. world' = {sess'[s].player : s \in alive} \ {None}
  <2>1. ASSUME NEW x \in world' PROVE x \in {sess'[s].player : s \in alive} \ {None}
    <3>1. PICK s \in alive : x = sess[s].player /\ x # None /\ x # c
      BY <1>2, <1>3, <2>1
    <3>2. s # t
      BY <1>1, <3>1
    <3> QED BY <1>3, <1>6, <3>1, <3>2
  <2>2. ASSUME NEW s \in alive, sess'[s].player # None PROVE sess'[s].player \in world'
    <3>1. s # t /\ sess'[s] = sess[s]
      BY <1>3, <1>5, <1>6, <2>2
    <3>2. sess[s].player # c
      BY <1>7, <3>1
    <3> QED BY <1>2, <1>3, <2>2, <3>1, <3>2
  <2> QED BY <2>1, <2>2
<1>9. /\ \A x \in Characters : ~Plays(sess'[t], x)
      /\ Idle(t)'
  BY <1>3, <1>5, <1>6 DEF Plays, Idle
<1>10. /\ sess'[t].sock = sess[t].sock /\ sess'[t].player = None
       /\ o # None => /\ sess'[o].loading = None /\ sess'[o].player = sess[o].player
                      /\ sess'[o].kicked = sess[o].kicked
       /\ kickedAll => sess'[t].sock = "closed"
  BY <1>3, <1>5, <1>6
<1>11. t \notin ToSet(waiting) /\ world' \subseteq Characters
  BY <1>2, <1>3
<1>12. \A s \in Sessions \ {t, o} : sess'[s] = sess[s]
  BY <1>6
<1>13. sess' \in [Sessions -> SessionState]
  BY <1>6
<1> QED BY <1>1, <1>2, <1>8, <1>9, <1>10, <1>11, <1>12, <1>13, Members

----------------------------------------------------------------------------
(* The steps that move the sessions of one account a: x, from the first list  *)
(* or None, is listed for it, and y, one of those it had, is offline for it.  *)
Moves(a, x, y) ==
    /\ x \in ToSet(added) \cup {None}
    /\ x # None => AccountOf[x] = a
    /\ y \in {sessions[a], offline[a]}
    /\ sessions' = [sessions EXCEPT ![a] = x]
    /\ offline' = [offline EXCEPT ![a] = y]
    /\ alive' = (alive \ {sessions[a], offline[a]}) \cup ({y} \ {None})
    /\ added' \in Seq(Sessions) /\ IsInjective(added') /\ ToSet(added') = ToSet(added) \ {x}
    /\ waiting' \in Seq(Sessions) /\ IsInjective(waiting')
    /\ ToSet(waiting') \subseteq (ToSet(waiting) \ {sessions[a]}) \cup ({x} \ {None})

(* Such a step keeps every session in one place.                              *)
LEMMA MovesPlaces ==
    ASSUME IInv, NEW a \in Accounts, NEW x, NEW y, Moves(a, x, y)
    PROVE  /\ PlacesHold'
           /\ Listed' = (Listed \ {sessions[a]}) \cup ({x} \ {None})
           /\ Lingering' = (Lingering \ {offline[a]}) \cup ({y} \ {None})
           /\ IsFiniteSet(Listed') /\ Active' = Cardinality(Listed' \ ToSet(waiting'))
           /\ sessions' \in [Accounts -> Sessions \cup {None}]
           /\ offline' \in [Accounts -> Sessions \cup {None}]
           /\ alive' \subseteq Sessions
<1>1. TypeOK /\ PlacesHold /\ EverySessionInOnePlace
  BY DEF IInv, PlacesHold
<1>2. PICK f, g, r, q, o, p : /\ f = sessions' /\ g = offline' /\ r = added' /\ q = waiting'
                              /\ o = sessions[a] /\ p = offline[a]
  OBVIOUS
<1>3. /\ f = [sessions EXCEPT ![a] = x] /\ g = [offline EXCEPT ![a] = y]
      /\ r \in Seq(Sessions) /\ IsInjective(r) /\ ToSet(r) = ToSet(added) \ {x}
      /\ q \in Seq(Sessions) /\ IsInjective(q)
      /\ ToSet(q) \subseteq (ToSet(waiting) \ {o}) \cup ({x} \ {None})
      /\ x \in ToSet(added) \cup {None} /\ (x # None => AccountOf[x] = a)
      /\ y = o \/ y = p
      /\ alive' = (alive \ {o, p}) \cup ({y} \ {None})
  BY <1>2 DEF Moves
<1>4. /\ sessions \in [Accounts -> Sessions \cup {None}]
      /\ offline \in [Accounts -> Sessions \cup {None}]
      /\ \A b \in Accounts : /\ sessions[b] # None => AccountOf[sessions[b]] = b
                             /\ offline[b] # None => AccountOf[offline[b]] = b
      /\ alive = ToSet(added) \cup Listed \cup Lingering /\ alive \subseteq Sessions
      /\ Listed \cap Lingering = {}
      /\ ToSet(added) \cap (Listed \cup Lingering) = {}
      /\ ToSet(waiting) \subseteq Listed
      /\ None \notin Sessions
  BY <1>1, SessionsAssumption DEF TypeOK, PlacesHold, EverySessionInOnePlace
<1>5. x \in Sessions \cup {None} /\ y \in Sessions \cup {None}
  BY <1>2, <1>3, <1>4
<1>6. OwnPlaces(f) /\ OwnPlaces(g)
  BY <1>2, <1>3, <1>4, <1>5 DEF OwnPlaces
<1>7. Values(f) = (Listed \ {o}) \cup ({x} \ {None})
  <2>1. \A b \in Accounts : f[b] = IF b = a THEN x ELSE sessions[b]
    BY <1>3, <1>4
  <2>2. \A b \in Accounts \ {a} : sessions[b] # None => sessions[b] # o
    BY <1>2, <1>4
  <2>3. ASSUME NEW t \in Values(f) PROVE t \in (Listed \ {o}) \cup ({x} \ {None})
    <3>1. PICK b \in Accounts : t = f[b] /\ t # None
      BY <2>3 DEF Values
    <3> QED BY <2>1, <2>2, <3>1 DEF Listed
  <2>4. ASSUME NEW t \in Listed \ {o} PROVE t \in Values(f)
    <3>1. PICK b \in Accounts : t = sessions[b] /\ t # None
      BY <2>4 DEF Listed
    <3>2. b # a
      BY <1>2, <2>4, <3>1
    <3> QED BY <2>1, <3>1, <3>2 DEF Values
  <2>5. ASSUME x # None PROVE x \in Values(f)
    BY <2>1, <2>5 DEF Values
  <2> QED BY <2>3, <2>4, <2>5
<1>8. Values(g) = (Lingering \ {p}) \cup ({y} \ {None})
  <2>1. \A b \in Accounts : g[b] = IF b = a THEN y ELSE offline[b]
    BY <1>3, <1>4
  <2>2. \A b \in Accounts \ {a} : offline[b] # None => offline[b] # p
    BY <1>2, <1>4
  <2>3. ASSUME NEW t \in Values(g) PROVE t \in (Lingering \ {p}) \cup ({y} \ {None})
    <3>1. PICK b \in Accounts : t = g[b] /\ t # None
      BY <2>3 DEF Values
    <3> QED BY <2>1, <2>2, <3>1 DEF Lingering
  <2>4. ASSUME NEW t \in Lingering \ {p} PROVE t \in Values(g)
    <3>1. PICK b \in Accounts : t = offline[b] /\ t # None
      BY <2>4 DEF Lingering
    <3>2. b # a
      BY <1>2, <2>4, <3>1
    <3> QED BY <2>1, <3>1, <3>2 DEF Values
  <2>5. ASSUME y # None PROVE y \in Values(g)
    BY <2>1, <2>5 DEF Values
  <2> QED BY <2>3, <2>4, <2>5
<1>9. Listed' = Values(f) /\ Lingering' = Values(g)
  BY <1>2 DEF Listed, Lingering, Values
<1>10. /\ o # None => o \in Listed
       /\ p # None => p \in Lingering
       /\ o # None => o \notin Lingering /\ o \notin ToSet(added)
       /\ p # None => p \notin Listed /\ p \notin ToSet(added)
       /\ None \notin Listed /\ None \notin Lingering /\ None \notin ToSet(added)
  <2>1. /\ o # None => o \in Listed
        /\ p # None => p \in Lingering
        /\ None \notin Listed /\ None \notin Lingering
    BY <1>2 DEF Listed, Lingering
  <2> QED BY <1>4, <2>1
<1>11. /\ ToSet(r) \cap (Values(f) \cup Values(g)) = {}
       /\ Values(f) \cap Values(g) = {}
       /\ ToSet(q) \subseteq Values(f)
       /\ alive' = ToSet(r) \cup Values(f) \cup Values(g)
  <2>1. PICK A, L, G, W, R, F, H, Q :
           /\ A = ToSet(added) /\ L = Listed /\ G = Lingering /\ W = ToSet(waiting)
           /\ R = ToSet(r) /\ F = Values(f) /\ H = Values(g) /\ Q = ToSet(q)
    OBVIOUS
  <2>2. /\ R = A \ {x} /\ F = (L \ {o}) \cup ({x} \ {None}) /\ H = (G \ {p}) \cup ({y} \ {None})
        /\ Q \subseteq (W \ {o}) \cup ({x} \ {None}) /\ W \subseteq L
        /\ x \in A \cup {None} /\ (y = o \/ y = p)
        /\ L \cap G = {} /\ A \cap (L \cup G) = {}
        /\ o \in L \cup {None} /\ p \in G \cup {None}
        /\ None \notin L /\ None \notin G /\ None \notin A
        /\ alive' = ((A \cup L \cup G) \ {o, p}) \cup ({y} \ {None})
    BY <1>3, <1>4, <1>7, <1>8, <1>10, <2>1
  <2>3. R \cap (F \cup H) = {}
    BY <2>2
  <2>4. F \cap H = {}
    BY <2>2
  <2>5. Q \subseteq F
    BY <2>2
  <2>6. ((A \cup L \cup G) \ {o, p}) \cup ({y} \ {None}) = R \cup F \cup H
    <3>1. ASSUME NEW t \in ((A \cup L \cup G) \ {o, p}) \cup ({y} \ {None})
          PROVE  t \in R \cup F \cup H
      BY <2>2, <3>1
    <3>2. ASSUME NEW t \in R \cup F \cup H
          PROVE  t \in ((A \cup L \cup G) \ {o, p}) \cup ({y} \ {None})
      BY <2>2, <3>2
    <3> QED BY <3>1, <3>2
  <2> QED BY <2>1, <2>2, <2>3, <2>4, <2>5, <2>6
<1>13. /\ IsFiniteSet(Values(f))
       /\ Cardinality({b \in Accounts : f[b] # None}) - Len(q) = Cardinality(Values(f) \ ToSet(q))
  <2>1. ToSet(q) \subseteq Values(f) /\ q \in Seq(Sessions) /\ IsInjective(q) /\ OwnPlaces(f)
    BY <1>3, <1>6, <1>11
  <2> QED BY ONLY <2>1, ListedAreCounted
<1>14. Active' = Cardinality({b \in Accounts : f[b] # None}) - Len(q)
  BY <1>2 DEF Active
<1>15. PlacesHold'
  BY <1>2, <1>3, <1>6, <1>9, <1>11 DEF PlacesHold, EverySessionInOnePlace, OwnPlaces
<1>16. alive' \subseteq Sessions
  BY <1>3, <1>4, <1>5
<1> QED BY <1>2, <1>6, <1>7, <1>8, <1>9, <1>13, <1>14, <1>15, <1>16 DEF OwnPlaces

(* The members after such a step, when J are the first in the queue that got  *)
(* in: only x, y and J have changed.                                          *)
Joins(m, n, asks) ==
    /\ n.player = m.player /\ n.loading = m.loading /\ n.sock = m.sock
    /\ n.inQueue <=> m.inQueue
    /\ n.listed <=> m.listed
    /\ n.kicked <=> m.kicked
    /\ ~asks => (n.asked <=> m.asked)
MovesMembers(a, x, y, J) ==
    /\ sess' \in [Sessions -> SessionState]
    /\ J \subseteq ToSet(waiting) /\ J \cap ToSet(waiting') = {}
    /\ \A t \in alive' \ {x, y} : Joins(sess[t], sess'[t], t \in J)
    /\ x # None =>
          /\ sess'[x].player = None /\ sess'[x].loading = None /\ sess'[x].sock # "none"
          /\ ~sess'[x].listed
          /\ x \in ToSet(waiting') => sess'[x].inQueue /\ ~sess'[x].asked
    /\ y # None =>
          /\ sess'[y].player = sess[y].player /\ sess'[y].loading = None
          /\ IF y = offline[a] THEN sess[y].kicked => sess'[y].kicked ELSE ~stopped
    /\ world' = world \ {sess[t].player : t \in {sessions[a], offline[a]} \ {y, None}}
MovesLoop(a) ==
    /\ \/ pc \in {"add", "visit"} /\ UNCHANGED <<pc, cur>>
       \/ pc = "callbacks" /\ a = cur /\ pc' = "visit" /\ cur' = None
    /\ todo' = todo \ {a} /\ UNCHANGED <<stopped, kickedAll>>
    /\ dropped' \subseteq Accounts

(* Such a step keeps the whole invariant, when the queue is right afterwards. *)
LEMMA MovesKeeps ==
    ASSUME IInv, NEW a \in Accounts, NEW x, NEW y, NEW J,
           Moves(a, x, y), MovesMembers(a, x, y, J), MovesLoop(a), QueueHolds'
    PROVE  IInv'
<1>1. /\ PlacesHold' /\ IsFiniteSet(Listed')
      /\ Listed' = (Listed \ {sessions[a]}) \cup ({x} \ {None})
      /\ Lingering' = (Lingering \ {offline[a]}) \cup ({y} \ {None})
      /\ sessions' \in [Accounts -> Sessions \cup {None}]
      /\ offline' \in [Accounts -> Sessions \cup {None}]
      /\ alive' \subseteq Sessions
  BY MovesPlaces
<1>2. TypeOK /\ PlacesHold /\ MembersHold /\ LoopHolds /\ BesideHolds /\ EndHolds
  BY DEF IInv
<1>3. PICK o, p : o = sessions[a] /\ p = offline[a]
  OBVIOUS
<1>4. /\ alive = ToSet(added) \cup Listed \cup Lingering /\ alive \subseteq Sessions
      /\ Listed \cap Lingering = {} /\ ToSet(added) \cap (Listed \cup Lingering) = {}
      /\ ToSet(waiting) \subseteq Listed
      /\ None \notin Sessions /\ None \notin Accounts
      /\ o # None => o \in Listed
      /\ p # None => p \in Lingering
      /\ sessions \in [Accounts -> Sessions \cup {None}]
      /\ offline \in [Accounts -> Sessions \cup {None}]
      /\ world \subseteq Characters
  <2>1. /\ alive = ToSet(added) \cup Listed \cup Lingering
        /\ Listed \cap Lingering = {} /\ ToSet(added) \cap (Listed \cup Lingering) = {}
        /\ ToSet(waiting) \subseteq Listed
    BY <1>2 DEF PlacesHold, EverySessionInOnePlace
  <2>2. /\ alive \subseteq Sessions /\ world \subseteq Characters
        /\ sessions \in [Accounts -> Sessions \cup {None}]
        /\ offline \in [Accounts -> Sessions \cup {None}]
    BY <1>2 DEF TypeOK
  <2>3. None \notin Sessions /\ None \notin Accounts
    BY SessionsAssumption
  <2>4. (o # None => o \in Listed) /\ (p # None => p \in Lingering)
    BY <1>3 DEF Listed, Lingering
  <2> QED BY <2>1, <2>2, <2>3, <2>4
<1>5. /\ alive' = ToSet(added') \cup Listed' \cup Lingering'
      /\ Listed' \cap Lingering' = {} /\ ToSet(added') \cap (Listed' \cup Lingering') = {}
      /\ ToSet(waiting') \subseteq Listed'
  BY <1>1 DEF PlacesHold, EverySessionInOnePlace
<1>6. /\ x \in ToSet(added) \cup {None} /\ (y = o \/ y = p)
      /\ x # y \/ (x = None /\ y = None)
      /\ x # None => x \in Listed'
      /\ y # None => y \in Lingering'
      /\ ToSet(added') = ToSet(added) \ {x}
      /\ ToSet(waiting') \subseteq (ToSet(waiting) \ {o}) \cup ({x} \ {None})
      /\ alive' = (alive \ {o, p}) \cup ({y} \ {None})
      /\ \A b \in Accounts : sessions'[b] = IF b = a THEN x ELSE sessions[b]
      /\ \A b \in Accounts : offline'[b] = IF b = a THEN y ELSE offline[b]
  <2>1. x # None => x \in Listed'
    BY <1>1
  <2>2. y # None => y \in Lingering'
    BY <1>1
  <2>3. x # y \/ (x = None /\ y = None)
    BY <1>5, <2>1, <2>2
  <2> QED BY <1>3, <1>4, <2>1, <2>2, <2>3 DEF Moves
<1>7. /\ J \subseteq Listed /\ J \cap ToSet(waiting') = {}
      /\ sess' \in [Sessions -> SessionState]
      /\ \A t \in alive' \ {x, y} : Joins(sess[t], sess'[t], t \in J)
      /\ x # None =>
          /\ sess'[x].player = None /\ sess'[x].loading = None /\ sess'[x].sock # "none"
          /\ ~sess'[x].listed
          /\ x \in ToSet(waiting') => sess'[x].inQueue /\ ~sess'[x].asked
      /\ y # None =>
          /\ sess'[y].player = sess[y].player /\ sess'[y].loading = None
          /\ IF y = p THEN sess[y].kicked => sess'[y].kicked ELSE ~stopped
      /\ world' = world \ {sess[t].player : t \in {o, p} \ {y, None}}
  BY <1>3, <1>4 DEF MovesMembers
<1>8. \A t \in alive' \ {x, y} : t \in alive /\ t # o /\ t # p
  BY <1>6
<1>9. TypeOK'
  <2>1. todo' \subseteq {b \in Accounts : sessions'[b] # None}
    BY <1>2, <1>6 DEF TypeOK, MovesLoop
  <2>2. entered' \subseteq Sessions
    BY <1>1, <1>5 DEF QueueHolds
  <2>3. pc' \in {"add", "visit"} /\ cur' \in Accounts \cup {None} /\ stopped' \in BOOLEAN
        /\ kickedAll' \in BOOLEAN /\ dropped' \subseteq Accounts
    BY <1>2 DEF TypeOK, MovesLoop
  <2>4. added' \in Seq(Sessions) /\ waiting' \in Seq(Sessions)
    BY DEF Moves
  <2>5. world' \subseteq Characters
    BY <1>4, <1>7
  <2> QED BY <1>1, <1>7, <2>1, <2>2, <2>3, <2>4, <2>5 DEF TypeOK
<1>10. LoopHolds'
  BY <1>2 DEF LoopHolds, MovesLoop, Inside
(* The sessions of other accounts are not disturbed.                          *)
<1>11. ASSUME NEW b \in Accounts \ {a}
       PROVE  /\ sessions'[b] = sessions[b] /\ offline'[b] = offline[b]
              /\ sessions[b] # None =>
                    Joins(sess[sessions[b]], sess'[sessions[b]], sessions[b] \in J)
              /\ offline[b] # None =>
                    Joins(sess[offline[b]], sess'[offline[b]], offline[b] \in J)
              /\ Past(b)' <=> Past(b)
              /\ Visited(b)' <=> Visited(b)
              /\ pc = "callbacks" => cur # b
  <2>1. sessions'[b] = sessions[b] /\ offline'[b] = offline[b]
    BY <1>6
  <2>2. sessions[b] # None => /\ sessions[b] \in Listed /\ sessions[b] \in Listed'
                              /\ sessions[b] # x
    <3>1. sessions[b] # None => sessions[b] \in Listed /\ sessions[b] # o
      BY <1>3, Placed
    <3> QED BY <1>1, <1>3, <1>4, <1>6, <3>1
  <2>3. offline[b] # None => /\ offline[b] \in Lingering /\ offline[b] \in Lingering'
                             /\ offline[b] # y
    <3>1. offline[b] # None => offline[b] \in Lingering /\ offline[b] # p
      BY <1>3, Placed
    <3> QED BY <1>1, <1>3, <1>4, <1>6, <3>1
  <2>4. /\ Past(b)' <=> Past(b)
        /\ Visited(b)' <=> Visited(b)
        /\ pc = "callbacks" => cur # b
    BY DEF MovesLoop, Past, Visited, Inside
  <2> QED BY <1>4, <1>5, <1>6, <1>7, <2>1, <2>2, <2>3, <2>4
<1>12. BesideHolds'
  <2>1. ASSUME NEW b \in Accounts, sessions'[b] # None, offline'[b] # None, ~Idle(sessions[b])'
        PROVE  /\ Past(b)'
               /\ sess'[offline'[b]].kicked \/ sess'[offline'[b]].player = None
               /\ ~Plays(sess'[sessions'[b]], sess'[offline'[b]].player)
    <3>1. b # a
      BY <1>6, <1>7, <2>1 DEF Idle
    <3> QED BY <1>2, <1>11, <2>1, <3>1 DEF BesideHolds, Idle, Joins, Plays
  <2> QED BY <2>1 DEF BesideHolds
<1>13. EndHolds'
  <2>1. pc' \in {"add", "visit"} /\ UNCHANGED <<stopped, kickedAll>>
    BY DEF MovesLoop
  <2>2. ASSUME kickedAll, NEW s \in Lingering' PROVE sess'[s].kicked
    <3>1. \A t \in Lingering : sess[t].kicked
      BY <1>2, <2>2 DEF EndHolds
    <3>2. stopped
      BY <1>2, <2>2 DEF EndHolds
    <3>3. CASE s = y
      <4>1. y # None /\ y = p
        BY <1>1, <1>4, <1>7, <2>2, <3>2, <3>3
      <4> QED BY <1>4, <1>7, <3>1, <3>3, <4>1
    <3>4. CASE s # y
      <4>1. s \in Lingering /\ s \in alive' \ {x, y}
        BY <1>1, <1>4, <1>5, <1>6, <2>2, <3>4
      <4> QED BY <1>7, <3>1, <4>1 DEF Joins
    <3> QED BY <3>3, <3>4
  <2>3. ASSUME kickedAll, NEW b \in Accounts, sessions'[b] # None
        PROVE  /\ \/ sess'[sessions'[b]].sock = "closed"
                  \/ /\ Idle(sessions[b])'
                     /\ pc' = "down" \/ Visited(b)' \/ (pc' = "callbacks" /\ cur' = b)
                           \/ ~sess'[sessions'[b]].listed
               /\ Visited(b)' => Idle(sessions[b])'
    <3>1. CASE b = a
      BY <1>6, <1>7, <2>3, <3>1 DEF Idle
    <3>2. CASE b # a
      BY <1>2, <1>11, <2>3, <3>2 DEF EndHolds, Idle, Joins, MovesLoop
    <3> QED BY <3>1, <3>2
  <2>4. kickedAll => stopped
    BY <1>2 DEF EndHolds
  <2> QED BY <2>1, <2>2, <2>3, <2>4 DEF EndHolds
<1>14. MembersHold'
  <2>1. \A s \in ToSet(added') : Fresh(sess'[s])
    <3>1. \A s \in ToSet(added') : s \in alive' \ {x, y} /\ s \in ToSet(added) /\ s \notin J
      BY <1>4, <1>5, <1>6, <1>7
    <3> QED BY <1>2, <1>7, <3>1 DEF MembersHold, Fresh, Joins
  <2>2. \A s \in Listed' : sess'[s].sock # "none"
    <3>1. \A s \in Listed' : s = x \/ (s \in alive' \ {x, y} /\ s \in Listed)
      BY <1>1, <1>5, <1>6
    <3>2. x \in Listed' => x # None
      BY <1>1, <1>4, <1>5
    <3> QED BY <1>2, <1>7, <3>1, <3>2 DEF MembersHold, Joins
  <2>3. \A s \in Lingering' : sess'[s].loading = None
    <3>1. \A s \in Lingering' : (s = y /\ y # None) \/ (s \in alive' \ {x, y} /\ s \in Lingering)
      BY <1>1, <1>4, <1>5, <1>6
    <3> QED BY <1>2, <1>7, <3>1 DEF MembersHold, Joins
  <2>4. \A s \in ToSet(waiting') : sess'[s].inQueue /\ ~sess'[s].asked /\ Idle(s)'
    <3>1. \A s \in ToSet(waiting') :
            (s = x /\ x # None) \/ (s \in alive' \ {x, y} /\ s \in ToSet(waiting) /\ s \notin J)
      BY <1>4, <1>5, <1>6, <1>7
    <3> QED BY <1>2, <1>7, <3>1 DEF MembersHold, Joins, Idle
  <2>5. \A s \in alive' : (s = x /\ x # None) \/ (s = y /\ y # None /\ y \in alive)
                             \/ (s \in alive' \ {x, y} /\ s \in alive)
    BY <1>1, <1>4, <1>6
  <2>6. \A s \in alive' : sess'[s].player = None \/ sess'[s].loading = None
    BY <1>2, <1>7, <2>5 DEF MembersHold, Joins
  <2>7. \A s \in alive', c \in Characters : Plays(sess'[s], c) => OwnerOf[c] = AccountOf[s]
    <3>1. \A s \in alive', c \in Characters : Plays(sess'[s], c) => s \in alive /\ Plays(sess[s], c)
      BY <1>7, <2>5 DEF Plays, Joins
    <3> QED BY <1>2, <3>1 DEF MembersHold
  <2>8. world' = {sess'[s].player : s \in alive'} \ {None}
    <3>1. world = {sess[s].player : s \in alive} \ {None}
      BY <1>2 DEF MembersHold
    <3>2. ASSUME NEW c \in world' PROVE c \in {sess'[s].player : s \in alive'} \ {None}
      <4>1. PICK s \in alive : c = sess[s].player /\ c # None
        BY <1>7, <3>1, <3>2
      <4>2. s \in {o, p} \ {y} => FALSE
        BY <1>4, <1>7, <3>2, <4>1
      <4>3. s \in alive'
        BY <1>4, <1>6, <4>1, <4>2
      <4>4. s # x
        BY <1>2, <1>4, <1>6, <4>1 DEF MembersHold, Fresh
      <4>5. sess'[s].player = c
        BY <1>4, <1>7, <4>1, <4>3, <4>4 DEF Joins
      <4> QED BY <4>1, <4>3, <4>5
    <3>3. ASSUME NEW s \in alive', sess'[s].player # None PROVE sess'[s].player \in world'
      <4>1. s \in alive /\ sess'[s].player = sess[s].player
        BY <1>7, <2>5, <3>3 DEF Joins
      <4>2. PICK c : c = sess[s].player /\ c # None
        BY <3>3, <4>1
      <4>3. c \in world /\ c \in Characters /\ Plays(sess[s], c)
        BY <1>4, <3>1, <4>1, <4>2 DEF Plays
      <4>4. ASSUME NEW t \in {o, p} \ {y, None}, c = sess[t].player PROVE FALSE
        <5>1. t \in alive /\ Plays(sess[t], c)
          BY <1>4, <4>2, <4>4 DEF Plays
        <5>2. /\ s = sessions[OwnerOf[c]] \/ s = offline[OwnerOf[c]]
              /\ t = sessions[OwnerOf[c]] \/ t = offline[OwnerOf[c]]
              /\ OwnerOf[c] \in Accounts
          BY <4>1, <4>3, <5>1, Holders
        <5>3. OwnerOf[c] = a
          <6>1. AccountOf[t] = a
            BY <1>2, <1>3, <4>4 DEF PlacesHold
          <6> QED BY <1>2, <4>3, <5>1, <6>1 DEF MembersHold
        <5>4. s \in {o, p} /\ s = y /\ s # t /\ s # None
          BY <1>3, <1>4, <1>6, <1>8, <2>5, <3>3, <4>1, <4>4, <5>2, <5>3
        <5>5. Plays(sess[o], sess[p].player) /\ o # None /\ p # None /\ ~Idle(o)
          BY <4>2, <4>3, <4>4, <5>1, <5>4 DEF Plays, Idle
        <5> QED BY <1>2, <1>3, <5>5 DEF BesideHolds
      <4> QED BY <1>7, <4>1, <4>2, <4>3, <4>4
    <3> QED BY <3>2, <3>3
  <2> QED BY <2>1, <2>2, <2>3, <2>4, <2>6, <2>7, <2>8 DEF MembersHold
<1> QED BY <1>1, <1>9, <1>10, <1>12, <1>13, <1>14 DEF IInv

(* What RemoveQueuedPlayer does to the queue and to those admitted.           *)
LEMMA Left ==
    ASSUME IInv, NEW s \in Listed
    PROVE  /\ FirstIn(s) \subseteq ToSet(waiting) \ {s} /\ IsFiniteSet(Listed \ {s})
           /\ QueueWithout(s) \in Seq(Sessions) /\ IsInjective(QueueWithout(s))
           /\ ToSet(QueueWithout(s)) = ToSet(waiting) \ ({s} \cup FirstIn(s))
           /\ ToSet(QueueWithout(s)) \subseteq Listed \ {s}
           /\ QueueWithout(s) # <<>> =>
                 Limit > 0 /\ Cardinality((Listed \ {s}) \ ToSet(QueueWithout(s))) >= Limit
           /\ (entered \cup FirstIn(s)) \ {s} \subseteq (Listed \ {s}) \ ToSet(QueueWithout(s))
           /\ Limit > 0 => Cardinality((entered \cup FirstIn(s)) \ {s}) <= Limit
<1>0. PICK J, q, E, L : /\ J = FirstIn(s) /\ q = QueueWithout(s)
                        /\ E = (entered \cup J) \ {s} /\ L = Listed \ {s}
  OBVIOUS
<1> SUFFICES /\ J \subseteq ToSet(waiting) \ {s} /\ IsFiniteSet(L)
             /\ q \in Seq(Sessions) /\ IsInjective(q)
             /\ ToSet(q) = ToSet(waiting) \ ({s} \cup J)
             /\ ToSet(q) \subseteq L
             /\ q # <<>> => Limit > 0 /\ Cardinality(L \ ToSet(q)) >= Limit
             /\ E \subseteq L \ ToSet(q)
             /\ Limit > 0 => Cardinality(E) <= Limit
  BY <1>0
<1>1. PICK M, w, D : M = Listed /\ w = waiting /\ D = (M \ ToSet(w)) \ {s}
  OBVIOUS
<1>2. /\ w \in Seq(Sessions) /\ IsInjective(w) /\ ToSet(w) \subseteq M /\ QueueMeansFull
      /\ entered \subseteq M \ ToSet(w) /\ (Limit > 0 => Cardinality(entered) <= Limit)
  BY <1>1
  DEF IInv, TypeOK, PlacesHold, EverySessionInOnePlace, QueueHolds, LimitRespected
<1>3. IsFiniteSet(M) /\ Active = Cardinality(M \ ToSet(w)) /\ s \in M
  BY <1>1, Placed
<1>4. /\ J \subseteq ToSet(w) \ {s}
      /\ q \in Seq(Sessions) /\ IsInjective(q) /\ ToSet(q) = ToSet(w) \ ({s} \cup J)
      /\ q # <<>> => Limit > 0 /\ Cardinality(D \cup J) >= Limit
      /\ J # {} /\ Limit > 0 => Cardinality(D \cup J) <= Limit
      /\ IsFiniteSet(D \cup J)
  BY <1>0, <1>1, <1>2, <1>3, Departure
<1>5. D \cup J = L \ ToSet(q) /\ ToSet(q) \subseteq L
  BY <1>0, <1>1, <1>2, <1>4
<1>6. E \subseteq D \cup J
  BY <1>0, <1>1, <1>2
<1>7. IsFiniteSet(L) /\ IsFiniteSet(entered)
  <2>1. PICK N : N = M \ ToSet(w)
    OBVIOUS
  <2>2. IsFiniteSet(N) /\ entered \subseteq N /\ L \subseteq M
    BY <1>0, <1>1, <1>2, <1>3, <2>1, FS_Subset
  <2> QED BY <1>3, <2>2, FS_Subset
<1>8. Limit > 0 => Cardinality(E) <= Limit
  <2>1. CASE J = {}
    <3>1. E \subseteq entered
      BY <1>0, <2>1
    <3>2. PICK m, n : m = Cardinality(E) /\ n = Cardinality(entered)
      OBVIOUS
    <3>3. m \in Nat /\ n \in Nat /\ m <= n
      BY <1>7, <3>1, <3>2, FS_Subset, FS_CardinalityType
    <3> QED BY <1>2, <3>2, <3>3, SessionsAssumption
  <2>2. CASE J # {}
    <3>1. PICK m, n : m = Cardinality(E) /\ n = Cardinality(D \cup J)
      OBVIOUS
    <3>2. m \in Nat /\ n \in Nat /\ m <= n
      BY <1>4, <1>6, <3>1, FS_Subset, FS_CardinalityType
    <3> QED BY <1>4, <2>2, <3>1, <3>2, SessionsAssumption
  <2> QED BY <2>1, <2>2
<1> QED BY <1>1, <1>4, <1>5, <1>6, <1>7, <1>8

(* The first in the list of new sessions.                                     *)
LEMMA Comes ==
    ASSUME IInv, added # <<>>, NEW s, s = Head(added), NEW r, r = Tail(added)
    PROVE  /\ s \in Sessions /\ s \in alive /\ s \in ToSet(added) /\ s # None
           /\ s \notin Listed /\ s \notin Lingering
           /\ Fresh(sess[s]) /\ sess[s] \in SessionState /\ AccountOf[s] \in Accounts
           /\ r \in Seq(Sessions) /\ IsInjective(r) /\ ToSet(r) = ToSet(added) \ {s}
<1>1. added \in Seq(Sessions) /\ IsInjective(added) /\ sess \in [Sessions -> SessionState]
  BY DEF IInv, TypeOK, PlacesHold, EverySessionInOnePlace
<1>2. /\ s \in ToSet(added) /\ s \in Sessions /\ r \in Seq(Sessions) /\ IsInjective(r)
      /\ ToSet(r) = ToSet(added) \ {s}
  BY <1>1, HeadElements
<1>3. s \in alive /\ s \notin Listed /\ s \notin Lingering
  BY <1>2 DEF IInv, PlacesHold, EverySessionInOnePlace
<1>4. Fresh(sess[s])
  BY <1>2 DEF IInv, MembersHold
<1> QED BY <1>1, <1>2, <1>3, <1>4, SessionsAssumption

(* Nothing has changed but, perhaps, that the session has asked for its data. *)
LEMMA JoinsIs ==
    ASSUME NEW m \in SessionState
    PROVE  /\ Joins(m, m, FALSE) /\ Joins(m, m, TRUE)
           /\ Joins(m, [m EXCEPT !.asked = TRUE], TRUE)
           /\ [m EXCEPT !.asked = TRUE] \in SessionState
<1>1. Joins(m, m, FALSE) /\ Joins(m, m, TRUE)
  BY DEF Joins
<1>2. PICK n : n = [m EXCEPT !.asked = TRUE]
  OBVIOUS
<1>3. /\ n \in SessionState /\ n.player = m.player /\ n.loading = m.loading
      /\ n.inQueue = m.inQueue
      /\ n.listed = m.listed /\ n.sock = m.sock /\ n.kicked = m.kicked
  BY <1>2, AskedIs
<1>4. Joins(m, n, TRUE)
  BY <1>3 DEF Joins
<1> QED BY <1>1, <1>2, <1>3, <1>4

(* InitializeSession for those that get in, J.                                *)
LEMMA InitializedIs ==
    ASSUME NEW f \in [Sessions -> SessionState], NEW J, NEW g, g = Initialized(f, J)
    PROVE  /\ g \in [Sessions -> SessionState]
           /\ \A t \in Sessions : Joins(f[t], g[t], t \in J)
           /\ \A t \in Sessions \ J : g[t] = f[t]
           /\ \A t \in J \cap Sessions : g[t] = [f[t] EXCEPT !.asked = TRUE]
<1>1. \A t \in Sessions : g[t] = IF t \in J THEN [f[t] EXCEPT !.asked = TRUE] ELSE f[t]
  BY DEF Initialized
<1>2. \A t \in Sessions : g[t] \in SessionState /\ Joins(f[t], g[t], t \in J)
  <2>1. ASSUME NEW t \in Sessions PROVE g[t] \in SessionState /\ Joins(f[t], g[t], t \in J)
    <3>1. CASE t \in J
      <4>1. g[t] = [f[t] EXCEPT !.asked = TRUE] /\ f[t] \in SessionState
        BY <1>1, <3>1
      <4>2. g[t] \in SessionState /\ Joins(f[t], g[t], TRUE)
        BY <4>1, JoinsIs
      <4> QED BY <3>1, <4>2 DEF Joins
    <3>2. CASE t \notin J
      BY <1>1, <3>2, JoinsIs DEF Joins
    <3> QED BY <3>1, <3>2
  <2> QED BY <2>1
<1>3. g \in [Sessions -> SessionState]
  <2>1. g = [t \in Sessions |-> IF t \in J THEN [f[t] EXCEPT !.asked = TRUE] ELSE f[t]]
    BY DEF Initialized
  <2> QED BY <1>1, <1>2, <2>1
<1> QED BY <1>1, <1>2, <1>3

(* Deleting sessions leaves the others as they were.                          *)
LEMMA ErasedIs ==
    ASSUME NEW f \in [Sessions -> SessionState], NEW S, NEW g, g = Erased(f, S)
    PROVE  /\ g \in [Sessions -> SessionState]
           /\ \A t \in Sessions \ S : g[t] = f[t]
           /\ \A t \in Sessions \cap S : g[t] = Blank
BY Fields DEF Erased

(* QueueHolds from what the lemmas on the queue say.                          *)
LEMMA QueueIs ==
    ASSUME NEW L, L = Listed', NEW q, q = waiting',
           Active' = Cardinality(L \ ToSet(q)),
           q # <<>> => Limit > 0 /\ Cardinality(L \ ToSet(q)) >= Limit,
           entered' \subseteq L \ ToSet(q), Limit > 0 => Cardinality(entered') <= Limit
    PROVE  QueueHolds'
BY DEF QueueHolds, QueueMeansFull, LimitRespected

(* The session of cur has lost its connection: it is deleted, and the queue   *)
(* moves on.                                                                  *)
LEMMA UpdateReturnsFalseKeeps ==
    ASSUME IInv, UpdateReturnsFalse
    PROVE  IInv'
<1>1. PICK a, s, p, J, q : /\ a = cur /\ s = Current /\ p = offline[a]
                           /\ J = FirstIn(s) /\ q = QueueWithout(s)
  OBVIOUS
<1>2. /\ Inside /\ pc = "callbacks" /\ pc' = "visit" /\ cur' = None
      /\ waiting' = q /\ dropped' = dropped \cup Remembered(s)
      /\ sess' = Initialized(Erased(sess, {s}), J)
      /\ alive' = alive \ {s} /\ world' = world \ {sess[t].player : t \in {s} \ {None}}
      /\ entered' = (entered \cup J) \ {s}
      /\ sessions' = [sessions EXCEPT ![a] = None]
      /\ UNCHANGED <<added, offline, todo, stopped, kickedAll>>
  BY <1>1 DEF UpdateReturnsFalse, Inside, Delete
<1>3. /\ a \in Accounts /\ s = sessions[a] /\ s # None /\ s \in Sessions /\ s # p
      /\ a \notin todo
  BY <1>1, <1>2, CurrentIs DEF IInv, LoopHolds, Inside
<1>4. /\ J \subseteq ToSet(waiting) \ {s}
      /\ q \in Seq(Sessions) /\ IsInjective(q) /\ ToSet(q) = ToSet(waiting) \ ({s} \cup J)
      /\ q # <<>> => Limit > 0 /\ Cardinality((Listed \ {s}) \ ToSet(q)) >= Limit
      /\ entered' \subseteq (Listed \ {s}) \ ToSet(q)
      /\ Limit > 0 => Cardinality(entered') <= Limit
  <2>1. s \in Listed
    BY <1>3, Placed
  <2> QED BY <1>1, <1>2, <2>1, Left
<1>5. /\ sess \in [Sessions -> SessionState] /\ added \in Seq(Sessions)
      /\ sessions \in [Accounts -> Sessions \cup {None}]
      /\ offline \in [Accounts -> Sessions \cup {None}]
      /\ alive \subseteq Sessions /\ dropped \subseteq Accounts
      /\ None \notin Sessions /\ IsInjective(added)
      /\ ToSet(waiting) \subseteq Listed
      /\ \A t \in Lingering : sess[t].loading = None
  BY SessionsAssumption DEF IInv, TypeOK, PlacesHold, EverySessionInOnePlace, MembersHold
<1>6. p # None => p \in alive /\ p \in Sessions /\ p \in Lingering /\ p \notin Listed
  BY <1>1, <1>3, Placed
<1>7. Moves(a, None, p)
  <2>1. /\ offline' = [offline EXCEPT ![a] = p]
        /\ alive' = (alive \ {sessions[a], offline[a]}) \cup ({p} \ {None})
    BY <1>1, <1>2, <1>3, <1>5, <1>6
  <2>2. ToSet(added') = ToSet(added) \ {None}
    <3>1. None \notin ToSet(added)
      BY <1>5 DEF IInv, PlacesHold, EverySessionInOnePlace
    <3> QED BY <1>2, <3>1
  <2> QED BY <1>1, <1>2, <1>3, <1>4, <1>5, <2>1, <2>2 DEF Moves
<1>8. PICK f : f = Erased(sess, {s})
  OBVIOUS
<1>9. f \in [Sessions -> SessionState] /\ \A t \in Sessions \ {s} : f[t] = sess[t]
  BY <1>5, <1>8, ErasedIs
<1>10. /\ sess' \in [Sessions -> SessionState]
       /\ \A t \in Sessions : Joins(f[t], sess'[t], t \in J)
       /\ \A t \in Sessions \ J : sess'[t] = f[t]
  <2>1. PICK g : g = sess'
    OBVIOUS
  <2>2. g = Initialized(f, J)
    BY <1>2, <1>8, <2>1
  <2> QED BY <1>9, <2>1, <2>2, InitializedIs
<1>11. MovesMembers(a, None, p, J)
  <2>1. \A t \in alive' \ {None, p} : Joins(sess[t], sess'[t], t \in J)
    BY <1>2, <1>5, <1>9, <1>10
  <2>2. p # None => sess'[p] = sess[p]
    BY <1>3, <1>4, <1>5, <1>6, <1>9, <1>10
  <2>3. world' = world \ {sess[t].player : t \in {sessions[a], offline[a]} \ {p, None}}
    <3>1. {sessions[a], offline[a]} \ {p, None} = {s} \ {None}
      BY <1>1, <1>3
    <3> QED BY <1>2, <3>1
  <2>4. J \cap ToSet(waiting') = {}
    BY <1>2, <1>4
  <2> QED BY <1>1, <1>4, <1>5, <1>6, <1>10, <2>1, <2>2, <2>3, <2>4 DEF MovesMembers
<1>12. MovesLoop(a)
  <2>1. Remembered(s) \subseteq Accounts
    BY <1>3, SessionsAssumption DEF Remembered
  <2> QED BY <1>1, <1>2, <1>3, <1>5, <2>1 DEF MovesLoop
<1>13. QueueHolds'
  <2>1. /\ Listed' = (Listed \ {s}) \cup ({None} \ {None})
        /\ Active' = Cardinality(Listed' \ ToSet(waiting'))
    BY <1>3, <1>7, MovesPlaces
  <2>2. Listed' = Listed \ {s}
    BY <2>1
  <2> QED BY <1>2, <1>4, <2>1, <2>2, QueueIs
<1> QED BY <1>3, <1>7, <1>11, <1>12, <1>13, MovesKeeps

(* A session that has lost its connection goes offline, in the place of the   *)
(* one that was offline, which is deleted; the queue moves on.                *)
LEMMA VisitLingeringKeeps ==
    ASSUME IInv, NEW a \in Accounts, VisitLingering(a)
    PROVE  IInv'
<1>1. PICK s, p, J, q, h : /\ s = sessions[a] /\ p = offline[a]
                           /\ J = FirstIn(s) /\ q = QueueWithout(s)
                           /\ h = [sess EXCEPT ![s] = Unplugged(@)]
  OBVIOUS
<1>2. /\ pc = "visit" /\ a \in todo /\ MayLinger(sess[s])
      /\ waiting' = q /\ dropped' = dropped \cup Remembered(s)
      /\ sess' = Initialized(Erased(h, {p} \ {None}), J)
      /\ alive' = alive \ {p} /\ world' = world \ {sess[t].player : t \in {p} \ {None}}
      /\ entered' = (entered \cup J) \ {s}
      /\ sessions' = [sessions EXCEPT ![a] = None]
      /\ offline' = [offline EXCEPT ![a] = s]
      /\ todo' = todo \ {a}
      /\ UNCHANGED <<added, pc, cur, stopped, kickedAll>>
  BY <1>1 DEF VisitLingering, Delete
<1>3. /\ sess \in [Sessions -> SessionState] /\ added \in Seq(Sessions)
      /\ sessions \in [Accounts -> Sessions \cup {None}]
      /\ offline \in [Accounts -> Sessions \cup {None}]
      /\ alive \subseteq Sessions /\ dropped \subseteq Accounts
      /\ None \notin Sessions /\ IsInjective(added)
      /\ ToSet(waiting) \subseteq Listed
      /\ todo \subseteq {b \in Accounts : sessions[b] # None}
  BY SessionsAssumption DEF IInv, TypeOK, PlacesHold, EverySessionInOnePlace
<1>4. s # None
  BY <1>1, <1>2, <1>3
<1>5. /\ s \in Sessions /\ s \in alive /\ s \in Listed
      /\ p # None => p \in alive /\ p \in Sessions /\ p \notin Listed
      /\ s # p
  <2>1. /\ s \in Sessions /\ s \in alive /\ s \in Listed
        /\ p # None => p \in alive /\ p \in Sessions /\ p \notin Listed
    BY <1>1, <1>4, Placed
  <2> QED BY <1>4, <2>1
<1>6. /\ J \subseteq ToSet(waiting) \ {s}
      /\ q \in Seq(Sessions) /\ IsInjective(q) /\ ToSet(q) = ToSet(waiting) \ ({s} \cup J)
      /\ q # <<>> => Limit > 0 /\ Cardinality((Listed \ {s}) \ ToSet(q)) >= Limit
      /\ entered' \subseteq (Listed \ {s}) \ ToSet(q)
      /\ Limit > 0 => Cardinality(entered') <= Limit
  BY <1>1, <1>2, <1>5, Left
<1>7. sess[s].player # None /\ sess[s].loading = None /\ ~stopped
  <2>1. sess[s].player # None /\ ~stopped
    BY <1>2 DEF MayLinger
  <2> QED BY <1>5, <2>1 DEF IInv, MembersHold
<1>8. Moves(a, None, s)
  <2>1. alive' = (alive \ {sessions[a], offline[a]}) \cup ({s} \ {None})
    BY <1>1, <1>2, <1>4, <1>5
  <2>2. ToSet(added') = ToSet(added) \ {None}
    <3>1. None \notin ToSet(added)
      BY <1>3 DEF IInv, PlacesHold, EverySessionInOnePlace
    <3> QED BY <1>2, <3>1
  <2> QED BY <1>1, <1>2, <1>3, <1>6, <2>1, <2>2 DEF Moves
<1>9. PICK f : f = Erased(h, {p} \ {None})
  OBVIOUS
<1>10. /\ h \in [Sessions -> SessionState] /\ \A t \in Sessions \ {s} : h[t] = sess[t]
       /\ h[s].player = sess[s].player /\ h[s].loading = sess[s].loading
  <2>1. PICK n : n = Unplugged(sess[s])
    OBVIOUS
  <2>2. n \in SessionState /\ n.player = sess[s].player /\ n.loading = sess[s].loading
    BY <1>3, <1>5, <2>1, UnpluggedIs
  <2>3. h = [sess EXCEPT ![s] = n]
    BY <1>1, <2>1
  <2> QED BY <1>3, <1>5, <2>2, <2>3
<1>11. f \in [Sessions -> SessionState] /\ \A t \in Sessions \ ({p} \ {None}) : f[t] = h[t]
  BY <1>9, <1>10, ErasedIs
<1>12. /\ sess' \in [Sessions -> SessionState]
       /\ \A t \in Sessions : Joins(f[t], sess'[t], t \in J)
       /\ \A t \in Sessions \ J : sess'[t] = f[t]
  <2>1. sess' = Initialized(f, J)
    BY <1>2, <1>9
  <2> QED BY <1>11, <2>1, InitializedIs
<1>13. MovesMembers(a, None, s, J)
  <2>1. \A t \in alive' \ {None, s} : Joins(sess[t], sess'[t], t \in J)
    BY <1>2, <1>3, <1>10, <1>11, <1>12
  <2>2. sess'[s] = h[s]
    BY <1>5, <1>6, <1>11, <1>12
  <2>3. world' = world \ {sess[t].player : t \in {sessions[a], offline[a]} \ {s, None}}
    <3>1. {sessions[a], offline[a]} \ {s, None} = {p} \ {None}
      BY <1>1, <1>5
    <3> QED BY <1>2, <3>1
  <2>4. J \cap ToSet(waiting') = {}
    BY <1>2, <1>6
  <2> QED BY <1>1, <1>5, <1>6, <1>7, <1>10, <1>12, <2>1, <2>2, <2>3, <2>4 DEF MovesMembers
<1>14. MovesLoop(a)
  <2>1. Remembered(s) \subseteq Accounts
    BY <1>5, SessionsAssumption DEF Remembered
  <2> QED BY <1>2, <1>3, <2>1 DEF MovesLoop
<1>15. QueueHolds'
  <2>1. /\ Listed' = (Listed \ {s}) \cup ({None} \ {None})
        /\ Active' = Cardinality(Listed' \ ToSet(waiting'))
    BY <1>1, <1>8, MovesPlaces
  <2>2. Listed' = Listed \ {s}
    BY <2>1
  <2> QED BY <1>2, <1>6, <2>1, <2>2, QueueIs
<1> QED BY <1>8, <1>13, <1>14, <1>15, MovesKeeps

(* Full compares the limit with the sessions of the other accounts.           *)
LEMMA FullIs ==
    ASSUME IInv, NEW s \in Sessions, NEW a, a = AccountOf[s]
    PROVE  Full(s) <=> Limit > 0 /\ Cardinality(Listed \ {sessions[a]}) >= Limit
<1>1. a \in Accounts
  BY SessionsAssumption
<1>2. OwnPlaces(sessions) /\ Values(sessions) = Listed
  BY Placed
<1>3. Cardinality({x \in Accounts \ {a} : sessions[x] # None})
        = Cardinality(Values(sessions) \ {sessions[a]})
  BY <1>1, <1>2, OthersAreCounted
<1> QED BY <1>2, <1>3 DEF Full

(* The end of AddSession_, for the members f and the queue q that were left.  *)
LEMMA Enters ==
    ASSUME NEW f \in [Sessions -> SessionState], NEW s \in Sessions, Fresh(f[s]), NEW q,
           NEW recent, EnterOrWait(s, f, q, recent)
    PROVE  /\ sess' \in [Sessions -> SessionState]
           /\ \A t \in Sessions \ {s} : sess'[t] = f[t]
           /\ sess'[s].player = None /\ sess'[s].loading = None /\ sess'[s].sock # "none"
           /\ ~sess'[s].listed
           /\ \/ waiting' = q
              \/ /\ waiting' = Append(q, s) /\ Full(s)
                 /\ sess'[s].inQueue /\ ~sess'[s].asked
           /\ ~Full(s) => waiting' = q
           /\ sessions' = [sessions EXCEPT ![AccountOf[s]] = s]
<1>1. CASE Full(s) /\ s \notin MaySkip /\ ~recent
  <2>1. waiting' = Append(q, s) /\ sess' = [f EXCEPT ![s].inQueue = TRUE]
    BY <1>1 DEF EnterOrWait
  <2>2. PICK n : n = [f[s] EXCEPT !.inQueue = TRUE]
    OBVIOUS
  <2>3. f[s] \in SessionState
    OBVIOUS
  <2>4. /\ n \in SessionState /\ n.player = f[s].player /\ n.loading = f[s].loading
        /\ n.sock = f[s].sock /\ n.asked = f[s].asked /\ n.listed = f[s].listed
        /\ n.inQueue = TRUE
    BY <2>2, <2>3 DEF SessionState
  <2>5. sess' = [f EXCEPT ![s] = n]
    BY <2>1, <2>2
  <2>6. n.inQueue
    BY <2>4
  <2>7. ~n.asked /\ ~n.listed
    BY <2>4 DEF Fresh
  <2> QED BY <1>1, <2>1, <2>4, <2>5, <2>6, <2>7 DEF Fresh, EnterOrWait
<1>2. CASE ~(Full(s) /\ s \notin MaySkip /\ ~recent)
  <2>1. waiting' = q /\ sess' = Initialized(f, {s})
    BY <1>2 DEF EnterOrWait
  <2>2. PICK g : g = sess'
    OBVIOUS
  <2>3. /\ g \in [Sessions -> SessionState]
        /\ \A t \in Sessions : Joins(f[t], g[t], t \in {s})
        /\ \A t \in Sessions \ {s} : g[t] = f[t]
    BY <2>1, <2>2, InitializedIs
  <2>4. /\ g[s].player = None /\ g[s].loading = None /\ g[s].sock # "none"
        /\ ~g[s].listed
    BY <2>3 DEF Joins, Fresh
  <2> QED BY <2>1, <2>2, <2>3, <2>4 DEF EnterOrWait
<1> QED BY <1>1, <1>2

(* AddSession_ for an account without a session.                              *)
LEMMA AddFirstKeeps ==
    ASSUME IInv, NEW recent \in BOOLEAN, AddFirst(recent)
    PROVE  IInv'
<1>1. PICK s, a, p, r : /\ s = Head(added) /\ a = AccountOf[s] /\ p = offline[a]
                        /\ r = Tail(added)
  OBVIOUS
<1>2. /\ pc = "add" /\ added # <<>> /\ sessions[a] = None
      /\ EnterOrWait(s, sess, waiting, recent)
      /\ recent => a \in dropped
      /\ dropped' = IF recent THEN dropped ELSE dropped \ {a}
      /\ entered' = IF Full(s) THEN entered ELSE entered \cup {s}
      /\ added' = r
      /\ UNCHANGED <<offline, alive, world, pc, todo, cur, stopped, kickedAll>>
  BY <1>1 DEF AddFirst, loopVars
<1>3. /\ s \in Sessions /\ s \in alive /\ s \in ToSet(added) /\ s # None
      /\ s \notin Listed /\ s \notin Lingering
      /\ Fresh(sess[s]) /\ a \in Accounts
      /\ r \in Seq(Sessions) /\ IsInjective(r) /\ ToSet(r) = ToSet(added) \ {s}
  BY <1>1, <1>2, Comes
<1>4. /\ sess \in [Sessions -> SessionState] /\ waiting \in Seq(Sessions) /\ IsInjective(waiting)
      /\ offline \in [Accounts -> Sessions \cup {None}]
      /\ alive \subseteq Sessions /\ dropped \subseteq Accounts /\ todo = {}
      /\ None \notin Sessions /\ ToSet(waiting) \subseteq Listed /\ None \notin Listed
      /\ \A t \in Lingering : sess[t].loading = None
  BY <1>2, SessionsAssumption
  DEF IInv, TypeOK, PlacesHold, EverySessionInOnePlace, MembersHold, LoopHolds, Listed
<1>5. p # None => p \in alive /\ p \in Sessions /\ p \in Lingering /\ p \notin Listed
  BY <1>1, <1>3, Placed
<1>6. /\ sess' \in [Sessions -> SessionState]
      /\ \A t \in Sessions \ {s} : sess'[t] = sess[t]
      /\ sess'[s].player = None /\ sess'[s].loading = None /\ sess'[s].sock # "none"
      /\ ~sess'[s].listed
      /\ \/ waiting' = waiting
         \/ /\ waiting' = Append(waiting, s) /\ Full(s)
            /\ sess'[s].inQueue /\ ~sess'[s].asked
      /\ ~Full(s) => waiting' = waiting
      /\ sessions' = [sessions EXCEPT ![a] = s]
  <2>1. PICK f, q : f = sess /\ q = waiting
    OBVIOUS
  <2>2. f \in [Sessions -> SessionState] /\ Fresh(f[s]) /\ EnterOrWait(s, f, q, recent)
    BY <1>2, <1>3, <1>4, <2>1
  <2>3. /\ sess' \in [Sessions -> SessionState]
        /\ \A t \in Sessions \ {s} : sess'[t] = f[t]
        /\ sess'[s].player = None /\ sess'[s].loading = None /\ sess'[s].sock # "none"
        /\ ~sess'[s].listed
        /\ \/ waiting' = q
           \/ /\ waiting' = Append(q, s) /\ Full(s)
              /\ sess'[s].inQueue /\ ~sess'[s].asked
        /\ ~Full(s) => waiting' = q
        /\ sessions' = [sessions EXCEPT ![AccountOf[s]] = s]
    BY <1>3, <2>2, Enters
  <2> QED BY <1>1, <2>1, <2>3
<1>7. Full(s) <=> Limit > 0 /\ Cardinality(Listed) >= Limit
  <2>1. Listed \ {sessions[a]} = Listed
    BY <1>2, <1>4
  <2> QED BY <1>1, <1>3, <2>1, FullIs
<1>8. PICK q, L, H : q = waiting' /\ L = Listed /\ H = entered'
  OBVIOUS
<1>9. Arrives(L, s, waiting, entered, q, H)
  <2>1. IsFiniteSet(L) /\ Active = Cardinality(L \ ToSet(waiting))
    BY <1>8, Placed
  <2>2. /\ entered \subseteq L \ ToSet(waiting) /\ QueueMeansFull
        /\ Limit > 0 => Cardinality(entered) <= Limit
    BY <1>8 DEF IInv, QueueHolds, LimitRespected
  <2>3. waiting # <<>> => Limit > 0 /\ Cardinality(L \ ToSet(waiting)) >= Limit
    BY <2>1, <2>2 DEF QueueMeansFull
  <2>4. /\ H \subseteq entered \cup {s}
        /\ s \in H => ~Full(s)
    BY <1>2, <1>3, <1>8, <2>2
  <2>5. /\ q = waiting \/ (q = Append(waiting, s) /\ Full(s))
        /\ ~Full(s) => q = waiting
    BY <1>6, <1>8
  <2> QED BY <1>3, <1>4, <1>7, <1>8, <2>1, <2>2, <2>3, <2>4, <2>5 DEF Arrives
<1>10. /\ q \in Seq(Sessions) /\ IsInjective(q)
       /\ \/ ToSet(q) = ToSet(waiting)
          \/ ToSet(q) = ToSet(waiting) \cup {s} /\ q = Append(waiting, s)
       /\ q # <<>> => Limit > 0 /\ Cardinality((L \cup {s}) \ ToSet(q)) >= Limit
       /\ H \subseteq (L \cup {s}) \ ToSet(q)
       /\ Limit > 0 => Cardinality(H) <= Limit
  BY <1>9, Arrival
<1>11. Moves(a, s, p)
  <2>1. /\ offline' = [offline EXCEPT ![a] = p]
        /\ alive' = (alive \ {sessions[a], offline[a]}) \cup ({p} \ {None})
    BY <1>1, <1>2, <1>3, <1>4, <1>5
  <2>2. ToSet(waiting') \subseteq (ToSet(waiting) \ {sessions[a]}) \cup ({s} \ {None})
    BY <1>2, <1>3, <1>4, <1>8, <1>10
  <2> QED BY <1>1, <1>2, <1>3, <1>6, <1>8, <1>10, <2>1, <2>2 DEF Moves
<1>12. MovesMembers(a, s, p, {})
  <2>1. \A t \in alive' \ {s, p} : Joins(sess[t], sess'[t], t \in {})
    <3>1. \A t \in alive' \ {s, p} : t \in Sessions /\ sess'[t] = sess[t]
      BY <1>2, <1>4, <1>6
    <3>2. \A t \in Sessions : Joins(sess[t], sess[t], FALSE)
      BY <1>4, JoinsIs
    <3> QED BY <3>1, <3>2 DEF Joins
  <2>2. p # None => sess'[p] = sess[p] /\ sess[p].loading = None
    BY <1>3, <1>4, <1>5, <1>6
  <2>3. world' = world \ {sess[t].player : t \in {sessions[a], offline[a]} \ {p, None}}
    <3>1. {sessions[a], offline[a]} \ {p, None} = {}
      BY <1>1, <1>2
    <3> QED BY <1>2, <3>1
  <2>4. s \in ToSet(waiting') => sess'[s].inQueue /\ ~sess'[s].asked
    <3>1. s \notin ToSet(waiting)
      BY <1>3, <1>4
    <3> QED BY <1>6, <3>1
  <2> QED BY <1>1, <1>6, <2>1, <2>2, <2>3, <2>4 DEF MovesMembers
<1>13. MovesLoop(a)
  BY <1>2, <1>3, <1>4 DEF MovesLoop
<1>14. QueueHolds'
  <2>1. /\ Listed' = (Listed \ {sessions[a]}) \cup ({s} \ {None})
        /\ Active' = Cardinality(Listed' \ ToSet(waiting'))
    BY <1>3, <1>11, MovesPlaces
  <2>2. Listed' = L \cup {s}
    BY <1>2, <1>3, <1>4, <1>8, <2>1
  <2> QED BY <1>8, <1>10, <2>1, <2>2, QueueIs
<1> QED BY <1>3, <1>11, <1>12, <1>13, <1>14, MovesKeeps

(* AddSession_ for an account that has one: it is removed from the queue,     *)
(* kicked and goes offline or is deleted.                                     *)
LEMMA AddReplacingKeeps ==
    ASSUME IInv, NEW recent \in BOOLEAN, NEW linger \in BOOLEAN, AddReplacing(recent, linger)
    PROVE  IInv'
<1>1. PICK s, a, o, p, r, J, q, y, gone, f, e, g, k :
          /\ s = Head(added) /\ a = AccountOf[s] /\ o = sessions[a] /\ p = offline[a]
          /\ r = Tail(added) /\ J = FirstIn(o) /\ q = QueueWithout(o)
          /\ y = (IF linger THEN o ELSE p)
          /\ gone = (IF linger THEN {p} ELSE {o})
          /\ f = [sess EXCEPT ![o] = Kicked(@, FALSE)]
          /\ e = [f EXCEPT ![o] = Unplugged(@)]
          /\ g = Erased(e, gone \ {None})
          /\ k = Initialized(g, J)
  OBVIOUS
<1>2. /\ pc = "add" /\ added # <<>> /\ o # None /\ sess[o].loading = None
      /\ linger => MayLinger(f[o])
      /\ recent => a \in dropped \cup Remembered(o)
      /\ EnterOrWait(s, k, q, recent)
      /\ offline' = IF linger THEN [offline EXCEPT ![a] = o] ELSE offline
      /\ dropped' = IF recent THEN dropped \cup {a} ELSE dropped \ {a}
      /\ alive' = alive \ gone /\ world' = world \ {sess[t].player : t \in gone \ {None}}
      /\ entered' = (entered \cup J \cup (IF Full(s) THEN {} ELSE {s})) \ (gone \cup {o})
      /\ added' = r
      /\ UNCHANGED <<pc, todo, cur, stopped, kickedAll>>
  BY <1>1 DEF AddReplacing, loopVars, Delete
<1>3. /\ s \in Sessions /\ s \in alive /\ s \in ToSet(added) /\ s # None
      /\ s \notin Listed /\ s \notin Lingering
      /\ Fresh(sess[s]) /\ a \in Accounts
      /\ r \in Seq(Sessions) /\ IsInjective(r) /\ ToSet(r) = ToSet(added) \ {s}
  BY <1>1, <1>2, Comes
<1>4. /\ sess \in [Sessions -> SessionState] /\ waiting \in Seq(Sessions) /\ IsInjective(waiting)
      /\ offline \in [Accounts -> Sessions \cup {None}]
      /\ alive \subseteq Sessions /\ dropped \subseteq Accounts /\ todo = {}
      /\ None \notin Sessions /\ ToSet(waiting) \subseteq Listed /\ None \notin Listed
      /\ \A t \in Lingering : sess[t].loading = None
  BY <1>2, SessionsAssumption
  DEF IInv, TypeOK, PlacesHold, EverySessionInOnePlace, MembersHold, LoopHolds, Listed
<1>5. /\ p # None => p \in alive /\ p \in Sessions /\ p \in Lingering /\ p \notin Listed
      /\ o \in Listed /\ o \in alive /\ o \in Sessions
  BY <1>1, <1>2, <1>3, Placed
<1>6. o # p /\ s # o /\ s # p
  BY <1>2, <1>3, <1>5
(* The old session is disturbed, and its members cleared.                     *)
<1>7. /\ e \in [Sessions -> SessionState] /\ \A t \in Sessions \ {o} : e[t] = sess[t]
      /\ e[o].player = sess[o].player /\ e[o].loading = None
      /\ linger => ~stopped
  <2>1. PICK m, n : m = Kicked(sess[o], FALSE) /\ n = Unplugged(m)
    OBVIOUS
  <2>2. m \in SessionState /\ m.player = sess[o].player /\ m.loading = None
    BY <1>2, <1>4, <1>5, <2>1, KickedIs DEF Disturbed
  <2>3. n \in SessionState /\ n.player = sess[o].player /\ n.loading = None
    BY <2>1, <2>2, UnpluggedIs
  <2>4. f \in [Sessions -> SessionState] /\ f[o] = m /\ \A t \in Sessions \ {o} : f[t] = sess[t]
    BY <1>1, <1>4, <1>5, <2>1, <2>2
  <2>5. e = [f EXCEPT ![o] = n]
    BY <1>1, <2>1, <2>4
  <2> QED BY <1>2, <1>5, <2>3, <2>4, <2>5 DEF MayLinger
<1>8. g \in [Sessions -> SessionState] /\ \A t \in Sessions \ gone : g[t] = e[t]
  <2>1. /\ g \in [Sessions -> SessionState]
        /\ \A t \in Sessions \ (gone \ {None}) : g[t] = e[t]
    <3>1. PICK S : S = gone \ {None}
      OBVIOUS
    <3>2. g = Erased(e, S)
      BY <1>1, <3>1
    <3> QED BY <1>7, <3>1, <3>2, ErasedIs
  <2> QED BY <2>1
<1>9. /\ J \subseteq ToSet(waiting) \ {o} /\ IsFiniteSet(Listed \ {o})
      /\ q \in Seq(Sessions) /\ IsInjective(q) /\ ToSet(q) = ToSet(waiting) \ ({o} \cup J)
      /\ ToSet(q) \subseteq Listed \ {o}
      /\ q # <<>> => Limit > 0 /\ Cardinality((Listed \ {o}) \ ToSet(q)) >= Limit
      /\ (entered \cup J) \ {o} \subseteq (Listed \ {o}) \ ToSet(q)
      /\ Limit > 0 => Cardinality((entered \cup J) \ {o}) <= Limit
  BY <1>1, <1>5, Left
<1>10. /\ k \in [Sessions -> SessionState]
       /\ \A t \in Sessions : Joins(g[t], k[t], t \in J)
       /\ \A t \in Sessions \ J : k[t] = g[t]
  <2>1. k = Initialized(g, J)
    BY <1>1
  <2> QED BY <1>8, <2>1, InitializedIs
<1>11. /\ \A t \in Sessions \ {o, p, s} : Joins(sess[t], k[t], t \in J)
       /\ k[s] = sess[s]
       /\ linger => k[o] = e[o]
       /\ ~linger /\ p # None => k[p] = sess[p]
  <2>1. gone \subseteq {o, p} /\ (linger => o \notin gone) /\ (~linger => p \notin gone)
    BY <1>1, <1>6
  <2>2. s \notin J /\ o \notin J /\ (p # None => p \notin J)
    BY <1>3, <1>4, <1>5, <1>9
  <2>3. \A t \in Sessions \ {o, p, s} : Joins(sess[t], k[t], t \in J)
    BY <1>7, <1>8, <1>10, <2>1
  <2>4. k[s] = sess[s]
    BY <1>3, <1>6, <1>7, <1>8, <1>10, <2>1, <2>2
  <2>5. linger => k[o] = e[o]
    BY <1>5, <1>8, <1>10, <2>1, <2>2
  <2>6. ~linger /\ p # None => k[p] = sess[p]
    BY <1>5, <1>6, <1>7, <1>8, <1>10, <2>1, <2>2
  <2> QED BY <2>3, <2>4, <2>5, <2>6
<1>12. /\ sess' \in [Sessions -> SessionState]
       /\ \A t \in Sessions \ {s} : sess'[t] = k[t]
       /\ sess'[s].player = None /\ sess'[s].loading = None /\ sess'[s].sock # "none"
       /\ ~sess'[s].listed
       /\ \/ waiting' = q
          \/ /\ waiting' = Append(q, s) /\ Full(s)
             /\ sess'[s].inQueue /\ ~sess'[s].asked
       /\ ~Full(s) => waiting' = q
       /\ sessions' = [sessions EXCEPT ![a] = s]
  <2>1. Fresh(k[s])
    BY <1>3, <1>11
  <2>2. EnterOrWait(s, k, q, recent) /\ a = AccountOf[s]
    BY <1>1, <1>2
  <2>3. s \in Sessions /\ k \in [Sessions -> SessionState]
    BY <1>3, <1>10
  <2> QED BY <2>1, <2>2, <2>3, Enters
<1>13. Full(s) <=> Limit > 0 /\ Cardinality(Listed \ {o}) >= Limit
  BY <1>1, <1>3, FullIs
<1>14. PICK w, L, E, H : /\ w = waiting' /\ L = Listed \ {o}
                         /\ E = (entered \cup J) \ {o} /\ H = entered'
  OBVIOUS
<1>15. Arrives(L, s, q, E, w, H)
  <2>1. /\ H \subseteq E \cup {s}
        /\ s \in H => ~Full(s)
    <3>1. s \notin E
      BY <1>3, <1>9, <1>14
    <3>2. H \subseteq E \cup (IF Full(s) THEN {} ELSE {s})
      BY <1>2, <1>14
    <3> QED BY <3>1, <3>2
  <2>2. /\ w = q \/ (w = Append(q, s) /\ Full(s))
        /\ ~Full(s) => w = q
    BY <1>12, <1>14
  <2> QED BY <1>3, <1>9, <1>13, <1>14, <2>1, <2>2 DEF Arrives
<1>16. /\ w \in Seq(Sessions) /\ IsInjective(w)
       /\ ToSet(w) = ToSet(q) \/ (ToSet(w) = ToSet(q) \cup {s} /\ w = Append(q, s))
       /\ w # <<>> => Limit > 0 /\ Cardinality((L \cup {s}) \ ToSet(w)) >= Limit
       /\ H \subseteq (L \cup {s}) \ ToSet(w)
       /\ Limit > 0 => Cardinality(H) <= Limit
  BY <1>15, Arrival
<1>17. Moves(a, s, y)
  <2>1. offline' = [offline EXCEPT ![a] = y]
    BY <1>1, <1>2, <1>3, <1>4
  <2>2. alive' = (alive \ {sessions[a], offline[a]}) \cup ({y} \ {None})
    <3>1. /\ sessions[a] = o /\ offline[a] = p /\ alive' = alive \ gone
          /\ linger => gone = {p} /\ y = o
          /\ ~linger => gone = {o} /\ y = p
      BY <1>1, <1>2
    <3>2. o \in alive /\ o # None /\ o # p /\ (p # None => p \in alive) /\ None \notin alive
      BY <1>4, <1>5, <1>6
    <3> QED BY <3>1, <3>2
  <2>3. ToSet(waiting') \subseteq (ToSet(waiting) \ {sessions[a]}) \cup ({s} \ {None})
    <3>1. ToSet(w) \subseteq ToSet(q) \cup {s}
      BY <1>16
    <3>2. ToSet(q) \subseteq ToSet(waiting) \ {o} /\ s # None /\ waiting' = w /\ sessions[a] = o
      BY <1>1, <1>3, <1>9, <1>14
    <3> QED BY <3>1, <3>2
  <2> QED BY <1>1, <1>2, <1>3, <1>12, <1>14, <1>16, <2>1, <2>2, <2>3 DEF Moves
<1>18. MovesMembers(a, s, y, J)
  <2>1. \A t \in alive' \ {s, y} : Joins(sess[t], sess'[t], t \in J)
    <3>1. alive' = alive \ gone /\ gone \cup {y} = {o, p} /\ alive \subseteq Sessions
      BY <1>1, <1>2, <1>4
    <3>2. alive' \ {s, y} \subseteq Sessions \ {o, p, s}
      BY <3>1
    <3> QED BY <1>11, <1>12, <3>2
  <2>2. y # None =>
          /\ sess'[y].player = sess[y].player /\ sess'[y].loading = None
          /\ IF y = offline[a] THEN sess[y].kicked => sess'[y].kicked ELSE ~stopped
    <3>1. CASE linger
      <4>1. y = o /\ y # offline[a] /\ ~stopped /\ sess'[o] = e[o]
        <5>1. y = o /\ y # offline[a]
          BY <1>1, <1>6, <3>1
        <5>2. ~stopped
          BY <1>7, <3>1
        <5>3. sess'[o] = e[o]
          BY <1>5, <1>6, <1>11, <1>12, <3>1
        <5> QED BY <5>1, <5>2, <5>3
      <4> QED BY <1>7, <4>1
    <3>2. CASE ~linger
      <4>1. y = p /\ y = offline[a]
        BY <1>1, <3>2
      <4>2. p # None => sess'[p] = sess[p] /\ sess[p].loading = None
        BY <1>4, <1>5, <1>6, <1>11, <1>12, <3>2
      <4> QED BY <4>1, <4>2
    <3> QED BY <3>1, <3>2
  <2>3. world' = world \ {sess[t].player : t \in {sessions[a], offline[a]} \ {y, None}}
    <3>1. {sessions[a], offline[a]} \ {y, None} = gone \ {None}
      BY <1>1, <1>2, <1>6
    <3> QED BY <1>2, <3>1
  <2>4. s \in ToSet(waiting') => sess'[s].inQueue /\ ~sess'[s].asked
    <3>1. s \notin ToSet(q)
      BY <1>3, <1>9
    <3> QED BY <1>12, <3>1
  <2>5. J \subseteq ToSet(waiting) /\ J \cap ToSet(waiting') = {}
    BY <1>3, <1>4, <1>9, <1>14, <1>16
  <2> QED BY <1>12, <2>1, <2>2, <2>3, <2>4, <2>5 DEF MovesMembers
<1>19. MovesLoop(a)
  BY <1>2, <1>3, <1>4 DEF MovesLoop
<1>20. QueueHolds'
  <2>1. /\ Listed' = (Listed \ {sessions[a]}) \cup ({s} \ {None})
        /\ Active' = Cardinality(Listed' \ ToSet(waiting'))
    BY <1>3, <1>17, MovesPlaces
  <2>2. Listed' = L \cup {s}
    BY <1>1, <1>3, <1>14, <2>1
  <2> QED BY <1>14, <1>16, <2>1, <2>2, QueueIs
<1> QED BY <1>3, <1>17, <1>18, <1>19, <1>20, MovesKeeps

----------------------------------------------------------------------------
(* Steps that leave the listed and the offline sessions alone.                *)
LEMMA Aside ==
    ASSUME IInv, UNCHANGED <<sessions, waiting, offline, dropped, world, loopVars, entered>>,
           sess' \in [Sessions -> SessionState],
           \A t \in Listed \cup Lingering : sess'[t] = sess[t],
           added' \in Seq(Sessions), IsInjective(added'), alive' \subseteq Sessions,
           alive' = ToSet(added') \cup Listed \cup Lingering,
           ToSet(added') \cap (Listed \cup Lingering) = {},
           \A t \in ToSet(added') : Fresh(sess'[t])
    PROVE  IInv'
<1>1. UNCHANGED <<sessions, waiting, offline, dropped, world, pc, todo, cur, stopped,
                  kickedAll, entered>>
  BY DEF loopVars
<1>2. TypeOK /\ PlacesHold /\ MembersHold /\ LoopHolds /\ BesideHolds /\ EndHolds /\ QueueHolds
  BY DEF IInv
<1>3. Listed' = Listed /\ Lingering' = Lingering
  BY <1>1 DEF Listed, Lingering
<1>4. TypeOK'
  BY <1>1, <1>2 DEF TypeOK
<1>5. PlacesHold'
  BY <1>1, <1>2, <1>3 DEF PlacesHold, EverySessionInOnePlace
<1>6. QueueHolds'
  BY <1>1, <1>2, SameQueue
<1>7. alive = ToSet(added) \cup Listed \cup Lingering /\ ToSet(waiting) \subseteq Listed
  BY <1>2 DEF PlacesHold, EverySessionInOnePlace
<1>8. MembersHold'
  <2>1. \A s \in alive' : s \in ToSet(added') \/ (s \in alive /\ sess'[s] = sess[s])
    BY <1>7
  <2>2. \A s \in alive' : sess'[s].player = None \/ sess'[s].loading = None
    BY <1>2, <2>1 DEF MembersHold, Fresh
  <2>3. \A s \in alive', c \in Characters : Plays(sess'[s], c) => OwnerOf[c] = AccountOf[s]
    BY <1>2, <2>1 DEF MembersHold, Fresh, Plays
  <2>4. world' = {sess'[s].player : s \in alive'} \ {None}
    <3>1. world = {sess[s].player : s \in alive} \ {None}
      BY <1>2 DEF MembersHold
    <3>2. ASSUME NEW c \in world PROVE c \in {sess'[s].player : s \in alive'} \ {None}
      <4>1. PICK s \in alive : c = sess[s].player /\ c # None
        BY <3>1, <3>2
      <4>2. s \in Listed \cup Lingering
        BY <1>2, <1>7, <4>1 DEF MembersHold, Fresh
      <4> QED BY <4>1, <4>2
    <3>3. ASSUME NEW s \in alive', sess'[s].player # None PROVE sess'[s].player \in world
      BY <2>1, <3>1, <3>3 DEF Fresh
    <3> QED BY <1>1, <3>2, <3>3
  <2>5. /\ \A s \in Listed : sess'[s].sock # "none"
        /\ \A s \in Lingering : sess'[s].loading = None
        /\ \A s \in ToSet(waiting) : sess'[s].inQueue /\ ~sess'[s].asked /\ Idle(s)'
    <3>1. \A s \in ToSet(waiting) : sess'[s] = sess[s]
      BY <1>7
    <3> QED BY <1>2, <3>1 DEF MembersHold, Idle
  <2> QED BY <1>1, <1>3, <2>2, <2>3, <2>4, <2>5 DEF MembersHold
<1>9. LoopHolds'
  BY <1>1, <1>2 DEF LoopHolds, Inside, Current
<1>10. \A a \in Accounts : /\ sessions[a] # None => sess'[sessions[a]] = sess[sessions[a]]
                           /\ offline[a] # None => sess'[offline[a]] = sess[offline[a]]
  BY Placed
<1>11. BesideHolds'
  BY <1>1, <1>2, <1>10 DEF BesideHolds, Past, Idle
<1>12. EndHolds'
  BY <1>1, <1>2, <1>3, <1>10 DEF EndHolds, Visited, Past, Inside, Idle
<1> QED BY <1>4, <1>5, <1>6, <1>8, <1>9, <1>11, <1>12 DEF IInv

(* A new client.                                                              *)
LEMMA ConnectKeeps ==
    ASSUME IInv, NEW s \in Sessions, Connect(s)
    PROVE  IInv'
<1>1. PICK r, n : r = Append(added, s) /\ n = [Blank EXCEPT !.sock = "open"]
  OBVIOUS
<1>2. /\ s \notin alive /\ alive' = alive \cup {s} /\ sess' = [sess EXCEPT ![s] = n]
      /\ added' = r /\ UNCHANGED <<sessions, waiting, offline, dropped, world, loopVars, entered>>
  BY <1>1 DEF Connect
<1>3. /\ sess \in [Sessions -> SessionState] /\ added \in Seq(Sessions) /\ alive \subseteq Sessions
      /\ IsInjective(added) /\ alive = ToSet(added) \cup Listed \cup Lingering
      /\ ToSet(added) \cap (Listed \cup Lingering) = {}
      /\ \A t \in ToSet(added) : Fresh(sess[t])
  BY DEF IInv, TypeOK, PlacesHold, EverySessionInOnePlace, MembersHold
<1>4. n \in SessionState /\ Fresh(n)
  BY <1>1, Fields
<1>5. r \in Seq(Sessions) /\ IsInjective(r) /\ ToSet(r) = ToSet(added) \cup {s}
  BY <1>1, <1>2, <1>3, AppendElements
<1>6. /\ sess' \in [Sessions -> SessionState] /\ \A t \in alive : sess'[t] = sess[t]
      /\ sess'[s] = n
  BY <1>2, <1>3, <1>4
<1>7. /\ \A t \in Listed \cup Lingering : sess'[t] = sess[t]
      /\ alive' = ToSet(r) \cup Listed \cup Lingering
      /\ ToSet(r) \cap (Listed \cup Lingering) = {}
      /\ alive' \subseteq Sessions
      /\ \A t \in ToSet(r) : Fresh(sess'[t])
  BY <1>2, <1>3, <1>4, <1>5, <1>6
<1> QED BY <1>2, <1>5, <1>6, <1>7, Aside

(* AddSession_ while the account's session is loading a character: the new    *)
(* one is deleted.                                                            *)
LEMMA AddRefusedKeeps ==
    ASSUME IInv, AddRefused
    PROVE  IInv'
<1>1. PICK s, r : s = Head(added) /\ r = Tail(added)
  OBVIOUS
<1>2. /\ added # <<>> /\ alive' = alive \ {s}
      /\ world' = world \ {sess[t].player : t \in {s} \ {None}}
      /\ sess' = Erased(sess, {s}) /\ added' = r
      /\ UNCHANGED <<sessions, waiting, offline, dropped, loopVars, entered>>
  BY <1>1 DEF AddRefused, Delete
<1>3. /\ s \in ToSet(added) /\ s \notin Listed /\ s \notin Lingering /\ Fresh(sess[s])
      /\ r \in Seq(Sessions) /\ IsInjective(r) /\ ToSet(r) = ToSet(added) \ {s}
  BY <1>1, <1>2, Comes
<1>4. /\ sess \in [Sessions -> SessionState] /\ alive \subseteq Sessions
      /\ alive = ToSet(added) \cup Listed \cup Lingering
      /\ ToSet(added) \cap (Listed \cup Lingering) = {}
      /\ \A t \in ToSet(added) : Fresh(sess[t])
      /\ world \subseteq Characters /\ None \notin Characters
  BY SessionsAssumption DEF IInv, TypeOK, PlacesHold, EverySessionInOnePlace, MembersHold
<1>5. sess' \in [Sessions -> SessionState] /\ \A t \in Sessions \ {s} : sess'[t] = sess[t]
  BY <1>2, <1>4, ErasedIs
<1>6. world' = world
  BY <1>2, <1>3, <1>4 DEF Fresh
<1>7. /\ \A t \in Listed \cup Lingering : sess'[t] = sess[t]
      /\ alive' = ToSet(r) \cup Listed \cup Lingering
      /\ ToSet(r) \cap (Listed \cup Lingering) = {}
      /\ alive' \subseteq Sessions
      /\ \A t \in ToSet(r) : Fresh(sess'[t])
  BY <1>2, <1>3, <1>4, <1>5
<1> QED BY <1>2, <1>3, <1>5, <1>6, <1>7, Aside

----------------------------------------------------------------------------
(* KickAll: everyone is kicked and the queue is empty.                        *)
LEMMA KickAllKeeps ==
    ASSUME IInv, KickAll
    PROVE  IInv'
<1>1. PICK all : all = {sessions[a] : a \in Accounts} \cup {offline[a] : a \in Accounts}
  OBVIOUS
<1>2. /\ pc = "idle" /\ stopped /\ waiting' = << >> /\ kickedAll' = TRUE /\ pc' = "add"
      /\ sess' = [s \in Sessions |-> IF s \in all THEN Kicked(sess[s], TRUE) ELSE sess[s]]
      /\ UNCHANGED <<added, sessions, offline, dropped, alive, world, todo, cur, stopped, entered>>
  BY <1>1 DEF KickAll
<1>3. TypeOK /\ PlacesHold /\ MembersHold /\ LoopHolds /\ BesideHolds /\ EndHolds /\ QueueHolds
  BY DEF IInv
<1>4. /\ sess \in [Sessions -> SessionState] /\ alive \subseteq Sessions /\ None \notin Sessions
      /\ Listed \subseteq alive /\ Lingering \subseteq alive /\ ToSet(added) \subseteq alive
      /\ todo = {}
  BY <1>2, <1>3, SessionsAssumption
  DEF TypeOK, PlacesHold, EverySessionInOnePlace, LoopHolds
<1>5. Listed' = Listed /\ Lingering' = Lingering
  BY <1>2 DEF Listed, Lingering
<1>6. \A t \in Sessions :
        /\ sess'[t] \in SessionState /\ Disturbed(sess[t], sess'[t])
        /\ t \in all => sess'[t].sock # "open" /\ sess'[t].kicked
  <2>1. ASSUME NEW t \in Sessions
        PROVE  /\ sess'[t] \in SessionState /\ Disturbed(sess[t], sess'[t])
               /\ t \in all => sess'[t].sock # "open" /\ sess'[t].kicked
    <3>1. PICK m : m = sess[t] /\ m \in SessionState
      BY <1>4
    <3>2. CASE t \in all
      <4>1. sess'[t] = Kicked(m, TRUE)
        BY <1>2, <3>1, <3>2
      <4> QED BY <3>1, <4>1, KickedIs
    <3>3. CASE t \notin all
      BY <1>2, <3>1, <3>3, UndisturbedIs
    <3> QED BY <3>2, <3>3
  <2> QED BY <2>1
<1>7. sess' \in [Sessions -> SessionState]
  <2>1. sess' = [s \in Sessions |-> sess'[s]]
    BY <1>2
  <2> QED BY <1>6, <2>1
<1>8. <<>> \in Seq(Sessions) /\ IsInjective(<<>>) /\ ToSet(<<>>) = {}
  BY DEF IsInjective, ToSet
<1>9. TypeOK'
  BY <1>2, <1>3, <1>7, <1>8 DEF TypeOK
<1>10. PlacesHold'
  BY <1>2, <1>3, <1>5, <1>8 DEF PlacesHold, EverySessionInOnePlace
<1>11. QueueHolds'
  BY <1>2, <1>3, <1>5, <1>8 DEF QueueHolds, QueueMeansFull, LimitRespected
<1>12. LoopHolds'
  BY <1>2, <1>4 DEF LoopHolds, Inside
<1>13. \A t \in alive :
        /\ sess'[t].player = sess[t].player /\ sess'[t].loading = sess[t].loading
        /\ sess'[t].asked <=> sess[t].asked
        /\ sess'[t].listed <=> sess[t].listed
        /\ sess[t].sock # "none" => sess'[t].sock # "none"
        /\ Idle(t)' <=> Idle(t)
        /\ \A c : Plays(sess'[t], c) <=> Plays(sess[t], c)
        /\ Fresh(sess[t]) => Fresh(sess'[t])
  BY <1>4, <1>6 DEF Disturbed, Idle, Plays, Fresh
<1>14. MembersHold'
  <2>1. world' = {sess'[s].player : s \in alive} \ {None}
    BY <1>2, <1>13, SameWorld
  <2>2. ToSet(waiting') = {}
    BY <1>2, <1>8
  <2>3. /\ added' = added /\ alive' = alive /\ Listed' = Listed /\ Lingering' = Lingering
        /\ ToSet(added) \subseteq alive /\ Listed \subseteq alive /\ Lingering \subseteq alive
    BY <1>2, <1>4, <1>5
  <2>4. /\ \A s \in ToSet(added) : Fresh(sess'[s])
        /\ \A s \in Listed : sess'[s].sock # "none"
        /\ \A s \in Lingering : sess'[s].loading = None
    BY <1>3, <1>13, <2>3 DEF MembersHold
  <2>5. /\ \A s \in alive : sess'[s].player = None \/ sess'[s].loading = None
        /\ \A s \in alive, c \in Characters : Plays(sess'[s], c) => OwnerOf[c] = AccountOf[s]
    BY <1>3, <1>13 DEF MembersHold
  <2> QED BY <2>1, <2>2, <2>3, <2>4, <2>5 DEF MembersHold
<1>15. \A a \in Accounts : /\ sessions[a] # None => /\ sessions[a] \in alive /\ sessions[a] \in all
                                                    /\ sessions[a] \in Listed
                           /\ offline[a] # None => offline[a] \in alive /\ offline[a] \in all
  BY <1>1, Placed
<1>16. BesideHolds'
  BY <1>2, <1>3, <1>13, <1>15 DEF BesideHolds, Past, Idle
<1>17. EndHolds'
  <2>1. \A s \in Lingering' : sess'[s].kicked
    BY <1>1, <1>4, <1>5, <1>6 DEF Lingering
  <2>2. \A a \in Accounts : sessions[a] # None => sess'[sessions[a]].sock = "closed"
    <3>1. ASSUME NEW a \in Accounts, sessions[a] # None PROVE sess'[sessions[a]].sock = "closed"
      <4>1. PICK t : t = sessions[a] /\ t \in alive /\ t \in all /\ t \in Listed /\ t \in Sessions
        BY <1>4, <1>15, <3>1
      <4>2. sess'[t].sock # "open" /\ sess'[t].sock # "none" /\ sess'[t] \in SessionState
        BY <1>3, <1>6, <1>13, <4>1 DEF MembersHold
      <4>3. \A m \in SessionState : m.sock \in {"none", "open", "closed"}
        BY DEF SessionState
      <4> QED BY <4>1, <4>2, <4>3
    <3> QED BY <3>1
  <2> QED BY <1>2, <2>1, <2>2 DEF EndHolds, Visited, Past, Inside
<1> QED BY <1>9, <1>10, <1>11, <1>12, <1>14, <1>16, <1>17 DEF IInv

(* The sessions that are offline and whose time is over, without a player or  *)
(* kicked.                                                                    *)
LEMMA ExpireKeeps ==
    ASSUME IInv, NEW late \in SUBSET Accounts, Expire(late)
    PROVE  IInv'
<1>1. PICK over, gone :
         /\ over = {a \in Accounts : /\ offline[a] # None
                                     /\ \/ a \in late
                                        \/ sess[offline[a]].player = None
                                        \/ sess[offline[a]].kicked}
         /\ gone = {offline[a] : a \in over}
  OBVIOUS
<1>2. /\ pc = "offline" /\ pc' = (IF kickedAll THEN "down" ELSE "idle")
      /\ offline' = [a \in Accounts |-> IF a \in over THEN None ELSE offline[a]]
      /\ sess' = Erased(sess, gone)
      /\ alive' = alive \ gone /\ world' = world \ {sess[s].player : s \in gone \ {None}}
      /\ entered' = entered \ gone
      /\ UNCHANGED <<added, sessions, waiting, dropped, todo, cur, stopped, kickedAll>>
  BY <1>1 DEF Expire, Delete
<1>3. TypeOK /\ PlacesHold /\ MembersHold /\ LoopHolds /\ BesideHolds /\ EndHolds /\ QueueHolds
  BY DEF IInv
<1>4. /\ alive = ToSet(added) \cup Listed \cup Lingering /\ alive \subseteq Sessions
      /\ Listed \cap Lingering = {} /\ ToSet(added) \cap (Listed \cup Lingering) = {}
      /\ ToSet(waiting) \subseteq Listed
      /\ None \notin Sessions /\ None \notin Characters /\ todo = {}
      /\ offline \in [Accounts -> Sessions \cup {None}]
      /\ sess \in [Sessions -> SessionState] /\ world \subseteq Characters
      /\ entered \subseteq Listed
  BY <1>2, <1>3, SessionsAssumption
  DEF TypeOK, PlacesHold, EverySessionInOnePlace, LoopHolds, QueueHolds
<1>5. gone \subseteq Lingering /\ None \notin gone /\ over \subseteq Accounts
  BY <1>1 DEF Lingering
<1>6. /\ \A a \in over : offline'[a] = None
      /\ \A a \in Accounts \ over : offline'[a] = offline[a]
      /\ offline' \in [Accounts -> Sessions \cup {None}]
  BY <1>2, <1>4, <1>5
<1>7. \A a \in Accounts \ over : offline[a] # None => offline[a] \notin gone
  BY <1>1, <1>5, Placed
<1>8. Listed' = Listed /\ Lingering' = Lingering \ gone
  <2>1. ASSUME NEW t \in Lingering' PROVE t \in Lingering \ gone
    <3>1. PICK a \in Accounts : t = offline'[a] /\ t # None
      BY <2>1 DEF Lingering
    <3>2. a \notin over /\ t = offline[a]
      BY <1>6, <3>1
    <3> QED BY <1>7, <3>1, <3>2 DEF Lingering
  <2>2. ASSUME NEW t \in Lingering \ gone PROVE t \in Lingering'
    <3>1. PICK a \in Accounts : t = offline[a] /\ t # None
      BY <2>2 DEF Lingering
    <3>2. a \notin over
      BY <1>1, <2>2, <3>1
    <3> QED BY <1>6, <3>1, <3>2 DEF Lingering
  <2>3. Listed' = Listed
    BY <1>2 DEF Listed
  <2> QED BY <2>1, <2>2, <2>3
<1>9. entered' = entered /\ alive' = ToSet(added) \cup Listed \cup (Lingering \ gone)
  BY <1>2, <1>4, <1>5
<1>10. sess' \in [Sessions -> SessionState] /\ \A t \in alive' : sess'[t] = sess[t]
  <2>1. sess' \in [Sessions -> SessionState] /\ \A t \in Sessions \ gone : sess'[t] = sess[t]
    BY <1>2, <1>4, ErasedIs
  <2> QED BY <1>2, <1>4, <2>1
<1>11. TypeOK'
  <2>1. world' \subseteq Characters /\ alive' \subseteq Sessions
        /\ pc' \in {"idle", "add", "visit", "update", "callbacks", "offline", "down"}
    BY <1>2, <1>4
  <2> QED BY <1>2, <1>3, <1>6, <1>9, <1>10, <2>1 DEF TypeOK
<1>12. PlacesHold'
  <2>1. EverySessionInOnePlace'
    BY <1>2, <1>3, <1>4, <1>8, <1>9 DEF PlacesHold, EverySessionInOnePlace
  <2>2. \A a \in Accounts : offline'[a] # None => AccountOf[offline'[a]] = a
    BY <1>3, <1>6 DEF PlacesHold
  <2> QED BY <1>2, <1>3, <2>1, <2>2 DEF PlacesHold
<1>13. QueueHolds'
  BY <1>2, <1>3, <1>9, SameQueue
<1>14. LoopHolds'
  BY <1>2, <1>4 DEF LoopHolds, Inside
<1>15. MembersHold'
  <2>1. /\ \A s \in ToSet(added) : Fresh(sess'[s])
        /\ \A s \in Listed : sess'[s].sock # "none"
        /\ \A s \in Lingering \ gone : sess'[s].loading = None
        /\ \A s \in ToSet(waiting) : sess'[s].inQueue /\ ~sess'[s].asked /\ Idle(s)'
        /\ \A s \in alive' : sess'[s].player = None \/ sess'[s].loading = None
        /\ \A s \in alive', c \in Characters : Plays(sess'[s], c) => OwnerOf[c] = AccountOf[s]
    BY <1>2, <1>3, <1>4, <1>9, <1>10 DEF MembersHold, Idle
  <2>2. world' = {sess'[s].player : s \in alive'} \ {None}
    <3>1. world = {sess[s].player : s \in alive} \ {None}
      BY <1>3 DEF MembersHold
    <3>2. ASSUME NEW c \in world' PROVE c \in {sess'[s].player : s \in alive'} \ {None}
      <4>1. PICK s \in alive : c = sess[s].player /\ c # None
        BY <1>2, <3>1, <3>2
      <4>2. s \notin gone
        BY <1>2, <1>5, <3>2, <4>1
      <4> QED BY <1>2, <1>10, <4>1, <4>2
    <3>3. ASSUME NEW s \in alive', sess'[s].player # None PROVE sess'[s].player \in world'
      <4>1. PICK c : c = sess[s].player /\ c # None /\ s \in alive /\ c = sess'[s].player
        BY <1>2, <1>10, <3>3
      <4>2. c \in world /\ c \in Characters /\ Plays(sess[s], c)
        BY <1>4, <3>1, <4>1 DEF Plays
      <4>3. ASSUME NEW t \in gone, c = sess[t].player PROVE FALSE
        <5>1. PICK a \in Accounts : t = offline[a] /\ t # None
          BY <1>1, <4>3
        <5>2. t \in alive /\ Plays(sess[t], c) /\ s # t
          BY <1>2, <1>4, <1>5, <3>3, <4>1, <4>3 DEF Plays
        <5>3. OwnerOf[c] = a
          <6>1. AccountOf[t] = a
            BY <1>3, <5>1 DEF PlacesHold
          <6> QED BY <1>3, <4>2, <5>2, <6>1 DEF MembersHold
        <5>4. s = sessions[a]
          BY <4>1, <4>2, <5>1, <5>2, <5>3, Holders
        <5>5. /\ sessions[a] # None /\ offline[a] # None /\ ~Idle(sessions[a])
              /\ Plays(sess[sessions[a]], sess[offline[a]].player)
          BY <1>4, <4>1, <4>2, <4>3, <5>1, <5>4 DEF Idle
        <5> QED BY <1>3, <5>5 DEF BesideHolds
      <4> QED BY <1>2, <4>1, <4>2, <4>3
    <3> QED BY <3>2, <3>3
  <2> QED BY <1>2, <1>8, <2>1, <2>2 DEF MembersHold
(* Whoever is still offline has a player and has not been kicked.             *)
<1>16. \A a \in Accounts \ over : offline[a] # None =>
           sess[offline[a]].player # None /\ ~sess[offline[a]].kicked
  BY <1>1
<1>17. \A a \in Accounts : sessions[a] # None => sess'[sessions[a]] = sess[sessions[a]]
  <2>1. \A a \in Accounts : sessions[a] # None => sessions[a] \in alive'
    BY <1>9, Placed
  <2> QED BY <1>10, <2>1
<1>18. BesideHolds'
  <2>1. ASSUME NEW a \in Accounts, sessions[a] # None, offline'[a] # None PROVE Idle(sessions[a])'
    <3>1. a \notin over /\ offline[a] # None
      BY <1>6, <2>1
    <3>2. Idle(sessions[a])
      BY <1>3, <1>16, <2>1, <3>1 DEF BesideHolds
    <3> QED BY <1>2, <1>17, <2>1, <3>2 DEF Idle
  <2> QED BY <1>2, <2>1 DEF BesideHolds
<1>19. EndHolds'
  <2>1. CASE ~kickedAll
    BY <1>2, <2>1 DEF EndHolds
  <2>2. CASE kickedAll
    <3>1. pc' = "down" /\ stopped
      BY <1>2, <1>3, <2>2 DEF EndHolds
    <3>2. Lingering \ gone = {}
      <4>1. ASSUME NEW t \in Lingering PROVE t \in gone
        <5>1. PICK a \in Accounts : t = offline[a] /\ t # None
          BY <4>1 DEF Lingering
        <5>2. sess[t].kicked
          BY <1>3, <2>2, <4>1 DEF EndHolds
        <5> QED BY <1>1, <5>1, <5>2
      <4> QED BY <4>1
    <3>3. \A a \in Accounts : sessions[a] # None => Idle(sessions[a]) /\ Idle(sessions[a])'
      <4>1. \A a \in Accounts : sessions[a] # None => Idle(sessions[a])
        BY <1>2, <1>3, <2>2 DEF EndHolds, Visited, Past, Inside
      <4> QED BY <1>2, <1>17, <4>1 DEF Idle
    <3>4. world' = {}
      <4>1. \A s \in Listed : sess'[s].player = None
        BY <1>2, <3>3 DEF Listed, Idle
      <4>2. \A s \in ToSet(added) : sess'[s].player = None
        BY <1>2, <1>15 DEF MembersHold, Fresh
      <4>3. \A s \in alive' : sess'[s].player = None
        BY <1>9, <3>2, <4>1, <4>2
      <4> QED BY <1>15, <4>3 DEF MembersHold
    <3> QED BY <1>2, <1>8, <2>2, <3>1, <3>2, <3>3, <3>4 DEF EndHolds, Visited, Past, Inside
  <2> QED BY <2>1, <2>2
<1> QED BY <1>11, <1>12, <1>13, <1>14, <1>15, <1>18, <1>19 DEF IInv

----------------------------------------------------------------------------
(* The initial states, and all the steps.                                     *)
LEMMA Initially == Init => IInv
<1> SUFFICES ASSUME Init PROVE IInv
  OBVIOUS
<1>1. /\ added = << >> /\ waiting = << >> /\ dropped = {}
      /\ sessions = [a \in Accounts |-> None] /\ offline = [a \in Accounts |-> None]
      /\ alive = {} /\ world = {} /\ entered = {}
      /\ sess = [s \in Sessions |-> Blank]
      /\ pc = "idle" /\ todo = {} /\ cur = None /\ stopped = FALSE /\ kickedAll = FALSE
  BY DEF Init
<1>2. <<>> \in Seq(Sessions) /\ IsInjective(<<>>) /\ ToSet(<<>>) = {}
  BY DEF IsInjective, ToSet
<1>3. Listed = {} /\ Lingering = {}
  BY <1>1 DEF Listed, Lingering
<1>4. TypeOK
  BY <1>1, <1>2, Fields DEF TypeOK
<1>5. PlacesHold
  BY <1>1, <1>2, <1>3 DEF PlacesHold, EverySessionInOnePlace
<1>6. MembersHold
  BY <1>1, <1>2, <1>3 DEF MembersHold
<1>7. LoopHolds
  BY <1>1 DEF LoopHolds, Inside
<1>8. BesideHolds
  BY <1>1 DEF BesideHolds
<1>9. EndHolds
  BY <1>1 DEF EndHolds
<1>10. QueueHolds
  BY <1>1, <1>2, <1>3, FS_EmptySet, SessionsAssumption
  DEF QueueHolds, QueueMeansFull, LimitRespected
<1> QED BY <1>4, <1>5, <1>6, <1>7, <1>8, <1>9, <1>10 DEF IInv

(* A step that changes nothing keeps the invariant.                           *)
LEMMA Stuttering == IInv /\ UNCHANGED vars => IInv'
<1> SUFFICES ASSUME IInv, UNCHANGED vars PROVE IInv'
  OBVIOUS
<1>1. UNCHANGED <<mgrVars, alive, world, loopVars, entered>> /\ sess' = sess
  BY DEF vars, sessVars
<1>2. sess \in [Sessions -> SessionState]
  BY DEF IInv, TypeOK
<1>3. \A t \in Sessions : Disturbed(sess[t], sess'[t])
  BY <1>1, UndisturbedIs
<1> QED BY <1>1, <1>2, <1>3, Disturb

(* Every step does.                                                           *)
LEMMA Inductive == IInv /\ [Next]_vars => IInv'
<1> SUFFICES ASSUME IInv, [Next]_vars PROVE IInv'
  OBVIOUS
<1>1. CASE UpdateSessions
  <2>1. CASE BeginUpdate \/ AddDone \/ PacketsDone \/ VisitsDone
    BY <2>1, Moving
  <2>2. CASE AddSession_
    BY <2>2, AddRefusedKeeps, AddFirstKeeps, AddReplacingKeeps DEF AddSession_
  <2>3. CASE \E a \in Accounts : VisitLingering(a) \/ Visit(a)
    BY <2>3, VisitLingeringKeeps, Moving
  <2>4. CASE UpdateReturns
    BY <2>4, Moving, UpdateReturnsFalseKeeps DEF UpdateReturns
  <2>5. CASE \E late \in SUBSET Accounts : Expire(late)
    BY <2>5, ExpireKeeps
  <2> QED BY <1>1, <2>1, <2>2, <2>3, <2>4, <2>5 DEF UpdateSessions
<1>2. CASE Packet
  BY <1>2, Disturbing, TakeBackKeeps, LoadKeeps DEF Packet
<1>3. CASE Callback
  BY <1>3, InitializeSessionCallbackKeeps, LoginFromDBKeeps DEF Callback
<1>4. CASE Logout
  BY <1>4, LogoutKeeps
<1>5. CASE Network
  BY <1>5, ConnectKeeps, Disturbing DEF Network
<1>6. CASE \E s \in Sessions : Kick(s)
  BY <1>6, Disturbing
<1>7. CASE StopNow \/ Terminated
  BY <1>7, Moving
<1>8. CASE KickAll
  BY <1>8, KickAllKeeps
<1>9. CASE UNCHANGED vars
  BY <1>9, Stuttering
<1> QED BY <1>1, <1>2, <1>3, <1>4, <1>5, <1>6, <1>7, <1>8, <1>9 DEF Next

(* IInv holds in every state.                                                 *)
THEOREM Invariant == Spec => []IInv
BY Initially, Inductive, PTL DEF Spec

(* Variables keep their types, and the iterators of the loop over _sessions   *)
(* stay valid while sessions are erased and added.                            *)
THEOREM TypeCorrect == Spec => []TypeOK
<1>1. IInv => TypeOK
  BY DEF IInv
<1> QED BY <1>1, Invariant, PTL

(* Every session that has not been deleted is new, listed or offline, only    *)
(* one of these, and those that wait in the login queue are listed.           *)
THEOREM OnePlace == Spec => []EverySessionInOnePlace
<1>1. IInv => EverySessionInOnePlace
  BY DEF IInv, PlacesHold
<1> QED BY <1>1, Invariant, PTL

(* Two sessions that hold one character are the listed and the offline one of *)
(* its owner, which never play the same.                                      *)
LEMMA HeldOnce == IInv => OnePlayerPerCharacter
<1> SUFFICES ASSUME IInv PROVE OnePlayerPerCharacter
  OBVIOUS
<1>1. world = {sess[s].player : s \in alive} \ {None} /\ world \subseteq Characters
      /\ None \notin Characters /\ alive \subseteq Sessions /\ None \notin Sessions
  BY SessionsAssumption DEF IInv, TypeOK, MembersHold
<1>2. ASSUME NEW c \in Characters
      PROVE  Cardinality({s \in alive : sess[s].player = c \/ sess[s].loading = c}) <= 1
  <2>1. PICK T, a : /\ T = {s \in alive : sess[s].player = c \/ sess[s].loading = c}
                    /\ a = OwnerOf[c] /\ a \in Accounts
    BY SessionsAssumption
  <2>2. \A s \in T : s \in alive /\ Plays(sess[s], c)
    BY <1>1, <2>1 DEF Plays
  <2>3. \A s \in T : s = sessions[a] \/ s = offline[a]
    BY <2>1, <2>2, Holders
  <2>4. ~(sessions[a] \in T /\ offline[a] \in T)
    <3>1. SUFFICES ASSUME sessions[a] \in T, offline[a] \in T PROVE FALSE
      OBVIOUS
    <3>2. /\ sessions[a] # None /\ offline[a] # None /\ Plays(sess[sessions[a]], c)
          /\ Plays(sess[offline[a]], c) /\ offline[a] \in Lingering
      BY <1>1, <2>1, <2>2, <3>1, Placed
    <3>3. sess[offline[a]].player = c /\ ~Idle(sessions[a])
      BY <3>2 DEF IInv, MembersHold, Plays, Idle
    <3> QED BY <2>1, <3>2, <3>3 DEF IInv, BesideHolds
  <2>5. T = {} \/ \E s : T = {s}
    <3>1. CASE sessions[a] \in T
      <4>1. T = {sessions[a]}
        BY <2>3, <2>4, <3>1
      <4> QED BY <4>1
    <3>2. CASE sessions[a] \notin T
      <4>1. T \subseteq {offline[a]}
        BY <2>3, <3>2
      <4> QED BY <4>1
    <3> QED BY <3>1, <3>2
  <2>6. Cardinality(T) = 0 \/ Cardinality(T) = 1
    BY <2>5, FS_EmptySet, FS_Singleton
  <2> QED BY <2>1, <2>6
<1>3. /\ \A c \in world : \E s \in alive : sess[s].player = c
      /\ \A s \in alive : sess[s].player # None => sess[s].player \in world
  BY <1>1
<1> QED BY <1>2, <1>3 DEF OnePlayerPerCharacter

(* No character is played or loaded by two sessions, and the world has the    *)
(* players of the sessions and no others.                                     *)
THEOREM OnePlayer == Spec => []OnePlayerPerCharacter
BY HeldOnce, Invariant, PTL

(* While the queue is not empty the server is full.                           *)
THEOREM NobodyWaitsInVain == Spec => []QueueMeansFull
<1>1. IInv => QueueMeansFull
  BY DEF IInv, QueueHolds
<1> QED BY <1>1, Invariant, PTL

(* Those admitted because there was room are never more than the limit.       *)
THEOREM WithinLimit == Spec => []LimitRespected
<1>1. IInv => LimitRespected
  BY DEF IInv, QueueHolds
<1> QED BY <1>1, Invariant, PTL

(* A session in the login queue neither plays a character nor loads one.      *)
THEOREM WaitingDoNotPlay == Spec => []QueuedCannotPlay
<1>1. IInv => QueuedCannotPlay
  BY DEF IInv, MembersHold, QueuedCannotPlay
<1> QED BY <1>1, Invariant, PTL

(* What the code asserts in a comment when a session goes offline: no other   *)
(* is offline for the account of a session that plays.                        *)
THEOREM NoneBeside == Spec => []NoneOfflineBesidePlayer
<1>1. IInv => NoneOfflineBesidePlayer
  <2> SUFFICES ASSUME IInv PROVE NoneOfflineBesidePlayer
    OBVIOUS
  <2>1. ASSUME NEW a \in Accounts, pc \in {"add", "visit"}, pc = "visit" => a \in todo,
               sessions[a] # None, offline[a] # None
        PROVE  sess[sessions[a]].player = None
    <3>1. ~Past(a)
      BY <2>1 DEF Past
    <3> QED BY <2>1, <3>1 DEF IInv, BesideHolds, Idle
  <2> QED BY <2>1 DEF NoneOfflineBesidePlayer
<1> QED BY <1>1, Invariant, PTL

(* When the last UpdateSessions has returned every player has been saved.     *)
THEOREM SavedAtTheEnd == Spec => []StoppedMeansSaved
<1>1. IInv => StoppedMeansSaved
  BY DEF IInv, EndHolds, StoppedMeansSaved
<1> QED BY <1>1, Invariant, PTL
==============================================================================
