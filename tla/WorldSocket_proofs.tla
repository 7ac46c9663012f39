------------------------- MODULE WorldSocket_proofs -------------------------
(* Proofs about WorldSocket, for any set of map threads and any number of     *)
(* packets: the session is alive while the network thread uses it, the client *)
(* receives what was sent in its order, and a refused one that was not early  *)
(* the refusal too.  The packets on their way are one sequence that the steps of the  *)
(* network thread only cut in other places; FlattenSeq is unfolded by         *)
(* induction over the number of buffers.                                      *)
EXTENDS WorldSocket, Induction, FiniteSetTheorems, SequenceTheorems, TLAPS

(* Concatenation, as the provers should see it.                               *)
Cat(a, b) == a \o b

(* The inductive invariant                                                    *)

(* The types of what is not a sequence of packets.                            *)
ControlTypes ==
    /\ listed \in {"new", "sockets", "removed"} /\ peer \in {"up", "gone"}
    /\ closed \in BOOLEAN /\ shut \in BOOLEAN /\ closing \in BOOLEAN
    /\ isWritingAsync \in BOOLEAN /\ reading \in BOOLEAN
    /\ query \in {"none", "ip", "auth"}
    /\ worldSession \in BOOLEAN /\ locked \in BOOLEAN /\ early \in BOOLEAN
    /\ session \in {"none", "created", "listed", "deleted"}
    /\ npc \in {"idle", "drain", "update", "write", "callbacks", "packets",
                "locked", "using", "duplicate", "add", "crashed"}
    /\ wpc \in {"tick", "session", "maps"}
    /\ spc \in [Senders -> {"idle", "open"}]
    /\ cpc \in [Closers -> {"no", "shutdown", "onClose"}]
    /\ sent \in Nat /\ linking \in [Senders -> Nat]

Handling == {"packets", "locked", "using", "duplicate", "add", "crashed"}

(* A closer was the first, the network thread closes at the end of a handler  *)
(* only, and a thread of the world leaves no call unfinished.                 *)
ThreadsHold ==
    /\ \A t \in Closers : cpc[t] # "no" => closed
    /\ cpc["network"] # "no" => npc \in {"idle", "callbacks"}
    /\ \A t \in Senders : ~Free(t) => Runs(t)
    /\ shut => closed

(* The session is used while _worldSession is set, under the lock, and set it *)
(* is until a closer is done: so the session is not deleted before the        *)
(* network thread itself closes, or is done.                                  *)
SessionHolds ==
    /\ locked <=> npc \in {"locked", "using", "duplicate", "crashed"}
    /\ npc = "using" => worldSession
    /\ npc \in {"duplicate", "crashed"} => session # "none"
    /\ wpc # "tick" => session = "listed"
    /\ session = "created" <=> npc = "add"
    /\ worldSession => session # "none"
    /\ worldSession /\ session = "deleted" => cpc["network"] # "no"
    /\ worldSession /\ closed => \E t \in Closers : cpc[t] # "no"

(* Until a client is authenticated it has one query or one read pending, or   *)
(* has been refused.                                                          *)
LoginHolds ==
    /\ query # "none" => session = "none" /\ ~closed /\ ~closing
    /\ closing => session = "none" /\ query = "none"
    /\ session = "none" /\ npc \in Handling => ~closed
    /\ query # "none" \/ closing \/ npc \in Handling => ~reading
    /\ query # "none" \/ closing => npc \notin Handling
    /\ listed = "new" => /\ npc = "idle" /\ query = "none" /\ session = "none"
                         /\ ~reading /\ ~closing /\ sent = 0
    /\ query = "ip" => sent = 0
    /\ query = "auth" => wire # <<>> \/ early
    /\ session = "none" /\ ~closing => sent <= 1

Threads == ControlTypes /\ ThreadsHold /\ SessionHolds /\ LoginHolds

(* What is on its way is what was sent and is not on the wire, and a socket   *)
(* that waits to write has something to write.                                *)
Stream == Cat(Cat(Cat(wire, FlattenSeq(writeQueue)), buffer), bufferQueue)
Waits == isWritingAsync => writeQueue # <<>> /\ Head(writeQueue) # <<>>
Streaming ==
    /\ wire = Numbers(Len(wire))
    /\ peer = "up" /\ ~shut => Stream = Numbers(sent)
    /\ npc # "drain" => buffer = <<>>
    /\ Waits

(* A socket that is to be closed, and goes on to write, has packed all; once  *)
(* it is closed, all is on the wire.                                          *)
RefusalHolds ==
    peer = "up" /\ closing /\ ~early =>
        /\ ~closed /\ (isWritingAsync \/ npc \in {"update", "write"}) => bufferQueue = <<>>
        /\ closed => wire = Numbers(sent)

Flows == Streaming /\ RefusalHolds

(* There is room for what the threads in the middle of SendPacket enqueue.    *)
Opened == {t \in Senders : spc[t] = "open"}
Room == sent + Cardinality(Opened) <= MaxSent

(* The sequences of packets, as sequences over S.                             *)
Packets(S) ==
    /\ bufferQueue \in Seq(S) /\ buffer \in Seq(S)
    /\ writeQueue \in Seq(Seq(S)) /\ wire \in Seq(S)

IInv == TypeOK /\ Threads /\ Flows /\ Room

(* HandleQueue closes a socket that is closing with the last buffer.          *)
Empties == closing /\ writeQueue' = <<>> /\ CloseSocket("network")

(* A step that leaves the packets where they are.                             *)
Still ==
    /\ UNCHANGED <<bufferQueue, sent, buffer, writeQueue, isWritingAsync, wire>>
    /\ peer' = "up" => peer = "up"
    /\ ~shut' => ~shut
    /\ npc' # "drain" => npc # "drain"
    /\ peer' = "up" /\ closing' =>
            /\ closing /\ closed' = closed /\ early' = early
            /\ npc' \in {"update", "write"} => npc \in {"update", "write"}

(* A step that adds a packet to _bufferQueue: a refused client's last one, or *)
(* the socket is not to be closed.                                            *)
Adds ==
    /\ Exchange
    /\ UNCHANGED <<writing, peer, shut, closed, early>>
    /\ npc' # "drain" => npc # "drain"
    /\ closing' => query # "none" /\ npc' = "idle"

----------------------------------------------------------------------------
(* Concatenation, and the buffers of _writeQueue one after another            *)

(* Concatenation is associative, and the empty sequence its unit.             *)
LEMMA CatType ==
    ASSUME NEW S, NEW a \in Seq(S), NEW b \in Seq(S)
    PROVE  Cat(a, b) \in Seq(S) /\ Len(Cat(a, b)) = Len(a) + Len(b)
BY ConcatProperties DEF Cat

LEMMA CatElements ==
    ASSUME NEW S, NEW a \in Seq(S), NEW b \in Seq(S)
    PROVE  \A i \in 1..(Len(a) + Len(b)) :
                Cat(a, b)[i] = IF i <= Len(a) THEN a[i] ELSE b[i - Len(a)]
BY ConcatProperties DEF Cat

LEMMA CatAssociative ==
    ASSUME NEW S, NEW a \in Seq(S), NEW b \in Seq(S), NEW c \in Seq(S)
    PROVE  Cat(Cat(a, b), c) = Cat(a, Cat(b, c))
<1>1. (a \o b) \o c = a \o (b \o c)
  OBVIOUS
<1> QED BY <1>1, Zenon DEF Cat

LEMMA CatEmpty ==
    ASSUME NEW S, NEW a \in Seq(S)
    PROVE  Cat(a, <<>>) = a /\ Cat(<<>>, a) = a
BY ConcatEmptySeq DEF Cat

(* What FlattenSeq unfolds to: a function that joins more and more buffers.   *)
Joins(f, q) == f = [i \in 1..Len(q) |-> IF i = 1 THEN q[i] ELSE Cat(f[i - 1], q[i])]
Joined(q) == CHOOSE f : Joins(f, q)

LEMMA FlattenUnfold == \A q : FlattenSeq(q) = IF Len(q) = 0 THEN q ELSE Joined(q)[Len(q)]
BY DEF FlattenSeq, Joined, Joins, Cat

(* There is such a function, by induction over how far it goes.               *)
LEMMA JoinsExists ==
    ASSUME NEW q, NEW n \in Nat, n = Len(q)
    PROVE  \E f : Joins(f, q)
<1> DEFINE Partly(f, k) ==
        \A i \in 1..k : f[i] = IF i = 1 THEN q[i] ELSE Cat(f[i - 1], q[i])
           T == {k \in Nat : \E f : Partly(f, k)}
<1>1. 0 \in T
  <2>1. Partly(q, 0)
    OBVIOUS
  <2> QED BY <2>1
<1>2. ASSUME NEW k \in Nat, k \in T PROVE k + 1 \in T
  <2>1. PICK f : Partly(f, k)
    BY <1>2
  <2> DEFINE g == [i \in 1..(k + 1) |-> IF i = 1 THEN q[i] ELSE Cat(f[i - 1], q[i])]
  <2>2. \A i \in 1..k : g[i] = f[i]
    <3>1. \A i \in 1..k : i \in 1..(k + 1)
      OBVIOUS
    <3>2. \A i \in 1..k : f[i] = IF i = 1 THEN q[i] ELSE Cat(f[i - 1], q[i])
      BY <2>1
    <3> QED BY <3>1, <3>2
  <2>3. \A i \in 1..(k + 1) : i # 1 => i - 1 \in 1..k
    OBVIOUS
  <2>4. \A i \in 1..(k + 1) : g[i] = IF i = 1 THEN q[i] ELSE Cat(f[i - 1], q[i])
    OBVIOUS
  <2> HIDE DEF g
  <2>5. Partly(g, k + 1)
    BY <2>2, <2>3, <2>4
  <2> HIDE DEF Partly
  <2> QED BY <2>5
<1>3. T = Nat
  <2> HIDE DEF T
  <2> QED BY <1>1, <1>2, InductionOnSets DEF T
<1>4. PICK f : Partly(f, n)
  BY <1>3
<1> DEFINE g == [i \in 1..n |-> f[i]]
<1>5. g = [i \in 1..n |-> IF i = 1 THEN q[i] ELSE Cat(g[i - 1], q[i])]
  BY <1>4
<1>6. Joins(g, q)
  BY <1>5 DEF Joins
<1> QED BY <1>6

(* What it joins one after another.                                           *)
LEMMA JoinedFacts ==
    ASSUME NEW S, NEW q \in Seq(Seq(S)), NEW n \in Nat, n = Len(q), n # 0
    PROVE  /\ Joined(q)[1] = q[1]
           /\ \A i \in Nat : i # 0 /\ i + 1 <= n => Joined(q)[i + 1] = Cat(Joined(q)[i], q[i + 1])
           /\ \A i \in 1..n : q[i] \in Seq(S) /\ Joined(q)[i] \in Seq(S)
<1>1. PICK f : f = Joined(q)
  OBVIOUS
<1>2. Joins(f, q)
  BY <1>1, JoinsExists DEF Joined
<1>3. \A i \in 1..n : f[i] = IF i = 1 THEN q[i] ELSE Cat(f[i - 1], q[i])
  BY <1>2 DEF Joins
<1>4. \A i \in 1..n : q[i] \in Seq(S)
  OBVIOUS
<1>5. f[1] = q[1] /\ 1 \in 1..n
  BY <1>3
<1>6. ASSUME NEW i \in Nat, i # 0, i + 1 <= n
      PROVE  f[i + 1] = Cat(f[i], q[i + 1])
  <2>1. i + 1 \in 1..n /\ i + 1 # 1 /\ (i + 1) - 1 = i
    BY <1>6
  <2>2. f[i + 1] = Cat(f[(i + 1) - 1], q[i + 1])
    BY <1>3, <2>1
  <2> QED BY <2>1, <2>2
<1> DEFINE T == {k \in Nat : f[k] \in Seq(S)}
<1>7. 1 \in T
  BY <1>4, <1>5
<1>8. ASSUME NEW k \in Nat, k # 0, k + 1 <= n, k \in T PROVE k + 1 \in T
  <2>1. q[k + 1] \in Seq(S) /\ f[k] \in Seq(S)
    <3>1. k + 1 \in 1..n
      BY <1>8
    <3> QED BY <1>4, <1>8, <3>1
  <2>2. f[k + 1] = Cat(f[k], q[k + 1])
    BY <1>6, <1>8
  <2>3. Cat(f[k], q[k + 1]) \in Seq(S)
    BY <2>1, CatType
  <2> QED BY <2>2, <2>3
<1>9. 1..n \subseteq T
  <2> HIDE DEF T
  <2> QED BY <1>7, <1>8, InductionUpTo
<1> QED BY <1>1, <1>4, <1>5, <1>6, <1>9

(* The packets of all buffers are a sequence of packets.                      *)
LEMMA FlattenType ==
    ASSUME NEW S, NEW q \in Seq(Seq(S))
    PROVE  FlattenSeq(q) \in Seq(S) /\ (q = <<>> => FlattenSeq(q) = <<>>)
<1>1. PICK n \in Nat : n = Len(q)
  OBVIOUS
<1>2. CASE n = 0
  <2>1. q = <<>> /\ <<>> \in Seq(S)
    BY <1>1, <1>2, EmptySeq
  <2>2. FlattenSeq(q) = q
    BY <1>1, <1>2, FlattenUnfold
  <2> QED BY <2>1, <2>2
<1>3. CASE n # 0
  <2>1. FlattenSeq(q) = Joined(q)[n] /\ n \in 1..n
    BY <1>1, <1>3, FlattenUnfold
  <2>2. Joined(q)[n] \in Seq(S)
    BY <1>1, <1>3, <2>1, JoinedFacts
  <2> QED BY <1>1, <1>3, <2>1, <2>2
<1> QED BY <1>2, <1>3

(* A buffer is queued: its packets come last.                                 *)
LEMMA FlattenAppend ==
    ASSUME NEW S, NEW q \in Seq(Seq(S)), NEW b \in Seq(S)
    PROVE  FlattenSeq(Append(q, b)) = Cat(FlattenSeq(q), b)
<1>1. PICK n \in Nat : n = Len(q)
  OBVIOUS
<1>2. PICK r : r = Append(q, b)
  OBVIOUS
<1>3. /\ r \in Seq(Seq(S)) /\ Len(r) = n + 1 /\ r[n + 1] = b
      /\ \A i \in 1..n : r[i] = q[i]
  BY <1>1, <1>2, AppendProperties
<1>4. FlattenSeq(r) = Joined(r)[n + 1] /\ n + 1 \in Nat /\ n + 1 # 0
  BY <1>3, FlattenUnfold
<1>5. /\ Joined(r)[1] = r[1]
      /\ \A i \in Nat : i # 0 /\ i + 1 <= n + 1 => Joined(r)[i + 1] = Cat(Joined(r)[i], r[i + 1])
  BY <1>3, <1>4, JoinedFacts
<1>6. CASE n = 0
  <2>1. FlattenSeq(q) = <<>>
    BY <1>1, <1>6, FlattenType, EmptySeq
  <2>2. Joined(r)[n + 1] = b
    BY <1>3, <1>5, <1>6
  <2> QED BY <1>2, <1>4, <2>1, <2>2, CatEmpty
<1>7. CASE n # 0
  <2>1. Joined(r)[n + 1] = Cat(Joined(r)[n], b)
    BY <1>3, <1>5, <1>7
  <2>2. /\ Joined(q)[1] = q[1]
        /\ \A i \in Nat : i # 0 /\ i + 1 <= n => Joined(q)[i + 1] = Cat(Joined(q)[i], q[i + 1])
    BY <1>1, <1>7, JoinedFacts
  <2> DEFINE T == {k \in Nat : Joined(r)[k] = Joined(q)[k]}
  <2>3. 1 \in T
    BY <1>3, <1>5, <1>7, <2>2
  <2>4. ASSUME NEW k \in Nat, k # 0, k + 1 <= n, k \in T PROVE k + 1 \in T
    <3>1. k + 1 <= n + 1 /\ r[k + 1] = q[k + 1] /\ Joined(r)[k] = Joined(q)[k]
      BY <1>3, <2>4
    <3>2. /\ Joined(r)[k + 1] = Cat(Joined(r)[k], r[k + 1])
          /\ Joined(q)[k + 1] = Cat(Joined(q)[k], q[k + 1])
      BY <1>5, <2>2, <2>4, <3>1
    <3> QED BY <3>1, <3>2
  <2>5. 1..n \subseteq T
    <3> HIDE DEF T
    <3> QED BY <2>3, <2>4, InductionUpTo
  <2>6. FlattenSeq(q) = Joined(q)[n] /\ n \in 1..n
    BY <1>1, <1>7, FlattenUnfold
  <2>7. Joined(r)[n] = Joined(q)[n]
    BY <2>5, <2>6
  <2> QED BY <1>2, <1>4, <2>1, <2>6, <2>7
<1> QED BY <1>6, <1>7

(* The packets of the front buffer come first.                                *)
LEMMA FlattenHead ==
    ASSUME NEW S, NEW q \in Seq(Seq(S)), q # <<>>
    PROVE  /\ Head(q) \in Seq(S) /\ Tail(q) \in Seq(Seq(S))
           /\ FlattenSeq(Tail(q)) \in Seq(S)
           /\ FlattenSeq(q) = Cat(Head(q), FlattenSeq(Tail(q)))
<1>1. PICK n \in Nat : n = Len(q)
  OBVIOUS
<1>2. PICK h, t : h = Head(q) /\ t = Tail(q)
  OBVIOUS
<1>3. n # 0
  BY <1>1, EmptySeq
<1>4. /\ h \in Seq(S) /\ t \in Seq(Seq(S)) /\ h = q[1]
      /\ Len(t) = n - 1 /\ \A i \in 1..(n - 1) : t[i] = q[i + 1]
  BY <1>1, <1>2, HeadTailProperties
<1>5. FlattenSeq(q) = Joined(q)[n]
  BY <1>1, <1>3, FlattenUnfold
<1>6. /\ Joined(q)[1] = h
      /\ \A i \in Nat : i # 0 /\ i + 1 <= n => Joined(q)[i + 1] = Cat(Joined(q)[i], q[i + 1])
  BY <1>1, <1>3, <1>4, JoinedFacts
<1>7. FlattenSeq(q) = Cat(h, FlattenSeq(t))
  <2>1. CASE n = 1
    <3>0. t = <<>>
      BY <1>4, <2>1, EmptySeq
    <3>1. FlattenSeq(t) = <<>>
      BY <1>4, <3>0, FlattenType
    <3> QED BY <1>4, <1>5, <1>6, <2>1, <3>1, CatEmpty
  <2>2. CASE n # 1
    <3>1. PICK l \in Nat : n = l + 1 /\ l # 0 /\ l = Len(t)
      BY <1>3, <1>4, <2>2
    <3>2. FlattenSeq(t) = Joined(t)[l] /\ l \in 1..l
      BY <3>1, FlattenUnfold
    <3>3. /\ Joined(t)[1] = t[1]
          /\ \A i \in Nat : i # 0 /\ i + 1 <= l => Joined(t)[i + 1] = Cat(Joined(t)[i], t[i + 1])
          /\ \A i \in 1..l : t[i] \in Seq(S) /\ Joined(t)[i] \in Seq(S)
      BY <1>4, <3>1, JoinedFacts
    <3> DEFINE T == {k \in Nat : Joined(q)[k + 1] = Cat(h, Joined(t)[k])}
    <3>4. 1 \in T
      <4>1. Joined(q)[1 + 1] = Cat(Joined(q)[1], q[1 + 1]) /\ t[1] = q[1 + 1]
        BY <1>4, <1>6, <3>1
      <4> QED BY <1>6, <3>3, <4>1
    <3>5. ASSUME NEW k \in Nat, k # 0, k + 1 <= l, k \in T PROVE k + 1 \in T
      <4>1. PICK m \in Nat : m = k + 1
        OBVIOUS
      <4>2. /\ m # 0 /\ m + 1 <= n /\ m \in 1..(n - 1) /\ m \in 1..l /\ k \in 1..l
        BY <3>1, <3>5, <4>1
      <4>3. Joined(q)[m + 1] = Cat(Joined(q)[m], q[m + 1])
        BY <1>6, <4>2
      <4>4. q[m + 1] = t[m] /\ t[m] \in Seq(S) /\ Joined(t)[k] \in Seq(S)
        BY <1>4, <3>3, <4>2
      <4>5. Joined(q)[m] = Cat(h, Joined(t)[k]) /\ Joined(t)[m] = Cat(Joined(t)[k], t[m])
        BY <3>3, <3>5, <4>1
      <4>6. Cat(Cat(h, Joined(t)[k]), t[m]) = Cat(h, Cat(Joined(t)[k], t[m]))
        <5>1. PICK u, v : u = Joined(t)[k] /\ v = t[m]
          OBVIOUS
        <5>2. h \in Seq(S) /\ u \in Seq(S) /\ v \in Seq(S)
          BY <1>4, <4>4, <5>1
        <5>3. Cat(Cat(h, u), v) = Cat(h, Cat(u, v))
          BY <5>2, CatAssociative
        <5> QED BY <5>1, <5>3
      <4>7. Joined(q)[m + 1] = Cat(h, Joined(t)[m])
        BY <4>3, <4>4, <4>5, <4>6
      <4> QED BY <4>1, <4>7
    <3>6. 1..l \subseteq T
      <4> HIDE DEF T
      <4> QED BY <3>4, <3>5, InductionUpTo
    <3>7. l \in T
      BY <3>2, <3>6
    <3> QED BY <1>5, <3>1, <3>2, <3>7
  <2> QED BY <2>1, <2>2
<1>8. FlattenSeq(t) \in Seq(S)
  BY <1>4, FlattenType
<1> QED BY <1>2, <1>4, <1>7, <1>8

(* A packet added to what comes last is added to all.                         *)
LEMMA CatAppend ==
    ASSUME NEW S, NEW a \in Seq(S), NEW b \in Seq(S), NEW e \in S
    PROVE  Cat(a, Append(b, e)) = Append(Cat(a, b), e)
<1>1. PICK x : x = <<e>>
  OBVIOUS
<1>2. x \in Seq(S)
  BY <1>1
<1>3. Append(b, e) = Cat(b, x) /\ Append(Cat(a, b), e) = Cat(Cat(a, b), x)
  <2>1. Cat(a, b) \in Seq(S)
    BY CatType
  <2> QED BY <1>1, <2>1, AppendIsConcat DEF Cat
<1> QED BY <1>2, <1>3, CatAssociative

(* The head of a queue moves to the end of what goes before.                  *)
LEMMA HeadMoves ==
    ASSUME NEW S, NEW a \in Seq(S), NEW q \in Seq(S), q # <<>>
    PROVE  /\ Head(q) \in S /\ Tail(q) \in Seq(S)
           /\ Cat(Append(a, Head(q)), Tail(q)) = Cat(a, q)
           /\ Append(<<>>, Head(q)) = <<Head(q)>>
<1>1. PICK h, t, x : h = Head(q) /\ t = Tail(q) /\ x = <<h>>
  OBVIOUS
<1>2. h \in S /\ t \in Seq(S) /\ x \in Seq(S)
  BY <1>1, HeadTailProperties
<1>3. q = Cat(x, t)
  <2>1. /\ Cat(x, t) \in Seq(S) /\ Len(Cat(x, t)) = 1 + Len(t)
        /\ \A i \in 1..(1 + Len(t)) : Cat(x, t)[i] = IF i <= 1 THEN x[i] ELSE t[i - 1]
    <3>1. Len(x) = 1
      BY <1>1
    <3>2. Cat(x, t) \in Seq(S) /\ Len(Cat(x, t)) = 1 + Len(t)
      BY <1>2, <3>1, CatType
    <3>3. \A i \in 1..(1 + Len(t)) : Cat(x, t)[i] = IF i <= 1 THEN x[i] ELSE t[i - 1]
      BY <1>2, <3>1, CatElements
    <3> QED BY <3>2, <3>3
  <2>2. PICK n \in Nat : n = Len(t)
    BY <1>2
  <2>3. Len(q) = 1 + n /\ h = q[1] /\ \A i \in 1..n : t[i] = q[i + 1]
    BY <1>1, <2>2, HeadTailProperties, LenProperties
  <2>4. x[1] = h
    BY <1>1
  <2>5. ASSUME NEW i \in 1..(1 + n) PROVE Cat(x, t)[i] = q[i]
    <3>1. CASE i = 1
      BY <2>1, <2>2, <2>3, <2>4, <3>1
    <3>2. CASE i # 1
      <4>1. PICK j \in 1..n : j = i - 1 /\ i = j + 1 /\ ~(i <= 1)
        BY <2>2, <3>2
      <4> QED BY <2>1, <2>2, <2>3, <4>1
    <3> QED BY <3>1, <3>2
  <2>6. PICK c \in Seq(S) : c = Cat(x, t)
    BY <2>1
  <2>7. Len(c) = Len(q) /\ \A i \in 1..Len(c) : c[i] = q[i]
    BY <2>1, <2>2, <2>3, <2>5, <2>6
  <2>8. c = q
    BY <2>7, SeqEqual
  <2> QED BY <2>6, <2>8
<1>4. Append(a, h) = Cat(a, x)
  BY <1>1, <1>2, AppendIsConcat DEF Cat
<1>5. Cat(Cat(a, x), t) = Cat(a, Cat(x, t))
  BY <1>2, CatAssociative
<1>6. Append(<<>>, h) = <<h>>
  OBVIOUS
<1> QED BY <1>1, <1>2, <1>3, <1>4, <1>5, <1>6

(* The numbers of the first n packets.                                        *)
LEMMA NumbersFacts ==
    ASSUME NEW n \in Nat
    PROVE  /\ Numbers(n) \in Seq(1..n) /\ Len(Numbers(n)) = n
           /\ \A i \in 1..n : Numbers(n)[i] = i
           /\ n = 0 => Numbers(n) = <<>>
           /\ Append(Numbers(n), n + 1) = Numbers(n + 1)
<1>1. /\ Numbers(n) \in Seq(1..n) /\ Len(Numbers(n)) = n
      /\ \A i \in 1..n : Numbers(n)[i] = i
  BY DEF Numbers
<1>2. PICK m \in Nat : m = n + 1
  OBVIOUS
<1>3. /\ Numbers(m) \in Seq(1..m) /\ Len(Numbers(m)) = m
      /\ \A i \in 1..m : Numbers(m)[i] = i
  BY DEF Numbers
<1>4. Append(Numbers(n), m) = Numbers(m)
  <2>1. Numbers(n) \in Seq(1..m) /\ m \in 1..m
    BY <1>2 DEF Numbers
  <2>2. PICK a, b : a = Numbers(n) /\ b = Numbers(m)
    OBVIOUS
  <2>3. PICK c : c = Append(a, m)
    OBVIOUS
  <2>4. /\ c \in Seq(1..m) /\ Len(c) = m /\ c[m] = m /\ \A i \in 1..n : c[i] = a[i]
    BY <1>1, <1>2, <2>1, <2>2, <2>3, AppendProperties
  <2>5. \A i \in 1..m : c[i] = b[i]
    BY <1>1, <1>2, <1>3, <2>2, <2>4
  <2>6. c = b
    BY <1>3, <2>2, <2>4, <2>5, SeqEqual
  <2> QED BY <2>2, <2>3, <2>6
<1>5. n = 0 => Numbers(n) = <<>>
  BY <1>1, EmptySeq
<1> QED BY <1>1, <1>2, <1>4, <1>5

(* What comes first in a row of numbers is a row of numbers.                  *)
LEMMA NumbersPrefix ==
    ASSUME NEW S, NEW n \in Nat, NEW a \in Seq(S), NEW b \in Seq(S), Cat(a, b) = Numbers(n)
    PROVE  /\ a = Numbers(Len(a)) /\ Len(a) + Len(b) = n
           /\ Len(a) \in Nat /\ Len(b) \in Nat
           /\ Len(a) = n => a = Numbers(n)
<1>1. PICK k \in Nat, m \in Nat : k = Len(a) /\ m = Len(b)
  BY LenProperties
<1>2. k + m = n
  <2>1. Len(Cat(a, b)) = k + m
    BY <1>1, CatType
  <2>2. Len(Numbers(n)) = n
    BY NumbersFacts
  <2> QED BY <2>1, <2>2
<1>3. \A i \in 1..k : a[i] = i
  <2>1. ASSUME NEW i \in 1..k PROVE a[i] = i
    <3>1. Cat(a, b)[i] = a[i]
      BY <1>1, CatElements
    <3>2. i \in 1..n
      BY <1>2
    <3> QED BY <3>1, <3>2, NumbersFacts
  <2> QED BY <2>1
<1>4. a = Numbers(k)
  <2>1. a = [i \in 1..k |-> a[i]]
    BY <1>1, LenProperties
  <2> QED BY <1>3, <2>1 DEF Numbers
<1> QED BY <1>1, <1>2, <1>4

----------------------------------------------------------------------------
(* The control of the threads, step by step                                   *)

(* The threads, and the bound.                                                *)
LEMMA Constants ==
    /\ "world" \in Senders /\ "network" \in Closers /\ "network" \notin Senders
    /\ "world" \notin Maps /\ Senders \subseteq Closers
    /\ \A t \in Closers : t = "network" \/ t \in Senders
    /\ MaxSent \in Nat /\ MaxSent >= 2 /\ IsFiniteSet(Senders)
<1>1. IsFiniteSet({"world"})
  BY FS_Singleton
<1>2. IsFiniteSet(Maps \cup {"world"})
  BY <1>1, SocketAssumption, FS_Union
<1>3. MaxSent \in Nat /\ MaxSent >= 2
  BY SocketAssumption
<1>4. "world" # "network"
  OBVIOUS
<1>5. "world" \notin Maps /\ "network" \notin Maps
  BY SocketAssumption
<1> QED BY <1>2, <1>3, <1>4, <1>5 DEF Senders, Closers

(* CloseSocket: the rest of it                                                *)
LEMMA ClosingKeeps ==
    ASSUME Threads,
           \/ \E t \in Closers : Shutdown(t)
           \/ \E t \in Closers : OnClose(t)
    PROVE  Threads'
<1> USE DEF Threads, ControlTypes, ThreadsHold, SessionHolds, LoginHolds,
            Free, Runs, Handling, flags, outgoing, writing, incoming, threads
<1>1. ASSUME NEW t \in Closers, Shutdown(t) PROVE Threads'
  BY <1>1, Constants DEF Shutdown
<1>2. ASSUME NEW t \in Closers, OnClose(t) PROVE Threads'
  <2>1. ControlTypes'
    <3>1. /\ closed' \in BOOLEAN /\ shut' \in BOOLEAN /\ closing' \in BOOLEAN
          /\ isWritingAsync' \in BOOLEAN /\ reading' \in BOOLEAN
          /\ worldSession' \in BOOLEAN /\ locked' \in BOOLEAN /\ early' \in BOOLEAN
      BY <1>2, Zenon DEF OnClose
    <3>2. /\ listed' \in {"new", "sockets", "removed"} /\ peer' \in {"up", "gone"}
          /\ query' \in {"none", "ip", "auth"}
          /\ session' \in {"none", "created", "listed", "deleted"}
          /\ npc' \in {"idle", "drain", "update", "write", "callbacks", "packets",
                       "locked", "using", "duplicate", "add", "crashed"}
          /\ wpc' \in {"tick", "session", "maps"}
          /\ spc' \in [Senders -> {"idle", "open"}]
          /\ cpc' \in [Closers -> {"no", "shutdown", "onClose"}]
          /\ sent' \in Nat /\ linking' \in [Senders -> Nat]
      BY <1>2, Constants DEF OnClose
    <3> QED BY <3>1, <3>2
  <2>2. ThreadsHold' /\ SessionHolds' /\ LoginHolds'
    BY <1>2, Constants DEF OnClose
  <2> QED BY <2>1, <2>2
<1> QED BY <1>1, <1>2

(* NetworkThread::Update                                                      *)
LEMMA UpdatingKeeps ==
    ASSUME Threads,
           \/ AddNewSockets
           \/ UpdateBegins
           \/ DropsClosed
           \/ TestsWrite
           \/ PacksPacket
           \/ NothingToPack
    PROVE  Threads'
<1> USE DEF Threads, ControlTypes, ThreadsHold, SessionHolds, LoginHolds,
            Free, Runs, Handling, flags, outgoing, writing, incoming, threads
<1>1. ASSUME AddNewSockets PROVE Threads'
  BY <1>1, Constants DEF AddNewSockets, Idle, NetworkAt, IsOpen
<1>2. ASSUME UpdateBegins PROVE Threads'
  BY <1>2, Constants DEF UpdateBegins, Idle, NetworkAt
<1>3. ASSUME DropsClosed PROVE Threads'
  BY <1>3, Constants DEF DropsClosed, NetworkAt
<1>4. ASSUME TestsWrite PROVE Threads'
  BY <1>4, Constants DEF TestsWrite, NetworkAt
<1>5. ASSUME PacksPacket PROVE Threads'
  BY <1>5, Constants DEF PacksPacket, NetworkAt
<1>6. ASSUME NothingToPack PROVE Threads'
  BY <1>6, Constants DEF NothingToPack, NetworkAt
<1> QED BY <1>1, <1>2, <1>3, <1>4, <1>5, <1>6

(* The answers of the login database                                          *)
LEMMA AnsweringKeeps ==
    ASSUME Threads,
           \/ NoAnswer
           \/ AddressAllowed
           \/ Refused
           \/ Authenticated
           \/ AddSession
    PROVE  Threads'
<1> USE DEF Threads, ControlTypes, ThreadsHold, SessionHolds, LoginHolds,
            Free, Runs, Handling, flags, outgoing, writing, incoming, threads
<1>1. ASSUME NoAnswer PROVE Threads'
  BY <1>1, Constants DEF NoAnswer, NetworkAt
<1>2. ASSUME AddressAllowed PROVE Threads'
  BY <1>2, Constants DEF AddressAllowed, NetworkAt, NetworkSends, Exchange, IsOpen
<1>3. ASSUME Refused PROVE Threads'
  BY <1>3, Constants DEF Refused, NetworkAt, NetworkSends, Exchange, IsOpen
<1>4. ASSUME Authenticated PROVE Threads'
  BY <1>4, Constants DEF Authenticated, NetworkAt
<1>5. ASSUME AddSession PROVE Threads'
  BY <1>5, Constants DEF AddSession, NetworkAt, IsOpen
<1> QED BY <1>1, <1>2, <1>3, <1>4, <1>5

(* Packets of the client                                                      *)
LEMMA ReadingKeeps ==
    ASSUME Threads,
           \/ ReadFails
           \/ ReadHandler
           \/ NoMorePackets
           \/ BadPacket
           \/ HandleAuthSession
           \/ LocksForDuplicate
           \/ LogsDuplicate
           \/ LocksSession
           \/ FindsSession
           \/ FindsNoSession
           \/ UsesSession
    PROVE  Threads'
<1> USE DEF Threads, ControlTypes, ThreadsHold, SessionHolds, LoginHolds,
            Free, Runs, Handling, flags, outgoing, writing, incoming, threads
<1>1. ASSUME ReadFails PROVE Threads'
  <2>1. ControlTypes'
    <3>1. /\ closed' \in BOOLEAN /\ shut' \in BOOLEAN /\ closing' \in BOOLEAN
          /\ isWritingAsync' \in BOOLEAN /\ reading' \in BOOLEAN
          /\ worldSession' \in BOOLEAN /\ locked' \in BOOLEAN /\ early' \in BOOLEAN
      BY <1>1, Zenon DEF ReadFails, Idle, NetworkAt, CloseSocket
    <3>2. /\ listed' \in {"new", "sockets", "removed"} /\ peer' \in {"up", "gone"}
          /\ query' \in {"none", "ip", "auth"}
          /\ session' \in {"none", "created", "listed", "deleted"}
          /\ npc' \in {"idle", "drain", "update", "write", "callbacks", "packets",
                       "locked", "using", "duplicate", "add", "crashed"}
          /\ wpc' \in {"tick", "session", "maps"}
          /\ spc' \in [Senders -> {"idle", "open"}]
          /\ cpc' \in [Closers -> {"no", "shutdown", "onClose"}]
          /\ sent' \in Nat /\ linking' \in [Senders -> Nat]
      BY <1>1, Constants DEF ReadFails, Idle, NetworkAt, CloseSocket
    <3> QED BY <3>1, <3>2
  <2>2. ThreadsHold' /\ SessionHolds' /\ LoginHolds'
    BY <1>1, Constants DEF ReadFails, Idle, NetworkAt, CloseSocket
  <2> QED BY <2>1, <2>2
<1>2. ASSUME ReadHandler PROVE Threads'
  BY <1>2, Constants DEF ReadHandler, Idle, NetworkAt, IsOpen
<1>3. ASSUME NoMorePackets PROVE Threads'
  BY <1>3, Constants DEF NoMorePackets, NetworkAt, IsOpen
<1>4. ASSUME BadPacket PROVE Threads'
  BY <1>4, Constants DEF BadPacket, NetworkAt, CloseSocket
<1>5. ASSUME HandleAuthSession PROVE Threads'
  BY <1>5, Constants DEF HandleAuthSession, NetworkAt
<1>10. ASSUME LocksForDuplicate PROVE Threads'
  BY <1>10, Constants DEF LocksForDuplicate, NetworkAt
<1>11. ASSUME LogsDuplicate PROVE Threads'
  <2>1. ControlTypes'
    <3>1. /\ closed' \in BOOLEAN /\ shut' \in BOOLEAN /\ closing' \in BOOLEAN
          /\ isWritingAsync' \in BOOLEAN /\ reading' \in BOOLEAN
          /\ worldSession' \in BOOLEAN /\ locked' \in BOOLEAN /\ early' \in BOOLEAN
      BY <1>11, Zenon DEF LogsDuplicate, NetworkAt, CloseSocket
    <3>2. cpc' \in [Closers -> {"no", "shutdown", "onClose"}]
      <4>1. cpc' = cpc \/ cpc' = [cpc EXCEPT !["network"] = "shutdown"]
        BY <1>11, Zenon DEF LogsDuplicate, CloseSocket
      <4> QED BY <4>1, Constants
    <3>3. npc' \in {"idle", "crashed"}
      BY <1>11, Zenon DEF LogsDuplicate
    <3>4. /\ listed' \in {"new", "sockets", "removed"} /\ peer' \in {"up", "gone"}
          /\ query' \in {"none", "ip", "auth"}
          /\ session' \in {"none", "created", "listed", "deleted"}
          /\ wpc' \in {"tick", "session", "maps"}
          /\ spc' \in [Senders -> {"idle", "open"}]
          /\ sent' \in Nat /\ linking' \in [Senders -> Nat]
      BY <1>11 DEF LogsDuplicate
    <3> QED BY <3>1, <3>2, <3>3, <3>4
  <2>2. CASE worldSession
    <3>1. ThreadsHold' /\ SessionHolds' /\ LoginHolds'
      BY <1>11, <2>2, Constants DEF LogsDuplicate, NetworkAt, CloseSocket
    <3> QED BY <2>1, <3>1
  <2>3. CASE ~worldSession
    <3>1. npc' = "crashed" /\ UNCHANGED <<locked, closed, cpc, worldSession>>
      BY <1>11, <2>3, Zenon DEF LogsDuplicate
    <3>2. ThreadsHold' /\ SessionHolds' /\ LoginHolds'
      BY <1>11, <2>3, <3>1, Constants DEF LogsDuplicate, NetworkAt
    <3> QED BY <2>1, <3>2
  <2> QED BY <2>2, <2>3
<1>6. ASSUME LocksSession PROVE Threads'
  BY <1>6, Constants DEF LocksSession, NetworkAt
<1>7. ASSUME FindsSession PROVE Threads'
  BY <1>7, Constants DEF FindsSession, NetworkAt
<1>8. ASSUME FindsNoSession PROVE Threads'
  <2>1. ControlTypes'
    <3>1. /\ closed' \in BOOLEAN /\ shut' \in BOOLEAN /\ closing' \in BOOLEAN
          /\ isWritingAsync' \in BOOLEAN /\ reading' \in BOOLEAN
          /\ worldSession' \in BOOLEAN /\ locked' \in BOOLEAN /\ early' \in BOOLEAN
      BY <1>8, Zenon DEF FindsNoSession, NetworkAt, CloseSocket
    <3>2. /\ listed' \in {"new", "sockets", "removed"} /\ peer' \in {"up", "gone"}
          /\ query' \in {"none", "ip", "auth"}
          /\ session' \in {"none", "created", "listed", "deleted"}
          /\ npc' \in {"idle", "drain", "update", "write", "callbacks", "packets",
                       "locked", "using", "duplicate", "add", "crashed"}
          /\ wpc' \in {"tick", "session", "maps"}
          /\ spc' \in [Senders -> {"idle", "open"}]
          /\ cpc' \in [Closers -> {"no", "shutdown", "onClose"}]
          /\ sent' \in Nat /\ linking' \in [Senders -> Nat]
      BY <1>8, Constants DEF FindsNoSession, NetworkAt, CloseSocket
    <3> QED BY <3>1, <3>2
  <2>2. ThreadsHold' /\ SessionHolds' /\ LoginHolds'
    BY <1>8, Constants DEF FindsNoSession, NetworkAt, CloseSocket
  <2> QED BY <2>1, <2>2
<1>9. ASSUME UsesSession PROVE Threads'
  <2>1. ControlTypes'
    <3>1. /\ closed' \in BOOLEAN /\ shut' \in BOOLEAN /\ closing' \in BOOLEAN
          /\ isWritingAsync' \in BOOLEAN /\ reading' \in BOOLEAN
          /\ worldSession' \in BOOLEAN /\ locked' \in BOOLEAN /\ early' \in BOOLEAN
      BY <1>9, Zenon DEF UsesSession, NetworkAt, NetworkSends, Exchange, IsOpen
    <3>2. /\ listed' \in {"new", "sockets", "removed"} /\ peer' \in {"up", "gone"}
          /\ query' \in {"none", "ip", "auth"}
          /\ session' \in {"none", "created", "listed", "deleted"}
          /\ npc' \in {"idle", "drain", "update", "write", "callbacks", "packets",
                       "locked", "using", "duplicate", "add", "crashed"}
          /\ wpc' \in {"tick", "session", "maps"}
          /\ spc' \in [Senders -> {"idle", "open"}]
          /\ cpc' \in [Closers -> {"no", "shutdown", "onClose"}]
          /\ sent' \in Nat /\ linking' \in [Senders -> Nat]
      BY <1>9, Constants DEF UsesSession, NetworkAt, NetworkSends, Exchange, IsOpen
    <3> QED BY <3>1, <3>2
  <2>2. ThreadsHold' /\ SessionHolds' /\ LoginHolds'
    BY <1>9, Constants DEF UsesSession, NetworkAt, NetworkSends, Exchange, IsOpen
  <2> QED BY <2>1, <2>2
<1> QED BY <1>1, <1>2, <1>3, <1>4, <1>5, <1>6, <1>7, <1>8, <1>9, <1>10, <1>11

(* The world thread and the map threads                                       *)
LEMMA TickingKeeps ==
    ASSUME Threads,
           \/ TickBegins
           \/ SessionUpdated
           \/ MapsUpdated
           \/ \E t \in Senders : Enqueues(t)
           \/ \E t \in Senders : Links(t)
           \/ \E t \in Senders : Kicks(t)
           \/ \E t \in Senders : Sends(t)
           \/ PeerGone
    PROVE  Threads'
<1> USE DEF Threads, ControlTypes, ThreadsHold, SessionHolds, LoginHolds,
            Free, Runs, Handling, flags, outgoing, writing, incoming, threads
<1>1. ASSUME TickBegins PROVE Threads'
  BY <1>1, Constants DEF TickBegins, Up
<1>2. ASSUME SessionUpdated PROVE Threads'
  BY <1>2, Constants DEF SessionUpdated, Up, IsOpen
<1>3. ASSUME MapsUpdated PROVE Threads'
  <2>1. \A t \in Senders : Free(t)
    BY <1>3, Constants DEF MapsUpdated, Senders
  <2>2. ThreadsHold'
    BY <1>3, <2>1, Constants DEF MapsUpdated
  <2>3. ControlTypes' /\ SessionHolds' /\ LoginHolds'
    BY <1>3, Constants DEF MapsUpdated
  <2> QED BY <2>2, <2>3
<1>4. ASSUME NEW t \in Senders, Enqueues(t) PROVE Threads'
  BY <1>4, Constants DEF Enqueues, Exchange
<1>5. ASSUME NEW t \in Senders, Links(t) PROVE Threads'
  BY <1>5, Constants DEF Links
<1>6. ASSUME NEW t \in Senders, Kicks(t) PROVE Threads'
  BY <1>6, Constants DEF Kicks, CloseSocket
<1>7. ASSUME NEW t \in Senders, Sends(t) PROVE Threads'
  BY <1>7, Constants DEF Sends, SendPacket, IsOpen
<1>8. ASSUME PeerGone PROVE Threads'
  BY <1>8, Constants DEF PeerGone
<1> QED BY <1>1, <1>2, <1>3, <1>4, <1>5, <1>6, <1>7, <1>8

----------------------------------------------------------------------------
(* HandleQueue                                                                *)

(* Pops closes the socket only if it empties the queue.                       *)
LEMMA PopsCloses ==
    ASSUME Pops
    PROVE  writeQueue' = Tail(writeQueue) /\ (Empties \/ UNCHANGED <<closed, cpc>>)
BY DEF Pops, Empties

(* HandleQueue moves packets from the front of the queue to the wire.         *)
LEMMA Writing ==
    ASSUME NEW S, Packets(S), HandleQueue,
           isWritingAsync => writeQueue # <<>> /\ Head(writeQueue) # <<>>
    PROVE  /\ wire' \in Seq(S) /\ writeQueue' \in Seq(Seq(S))
           /\ isWritingAsync' \in BOOLEAN
           /\ Empties \/ UNCHANGED <<closed, cpc>>
           /\ Len(wire') >= Len(wire)
           /\ peer = "gone" \/ shut => wire' = wire
           /\ \/ Cat(wire', FlattenSeq(writeQueue')) = Cat(wire, FlattenSeq(writeQueue))
              \/ peer = "gone" \/ shut
           /\ isWritingAsync' => writeQueue' # <<>> /\ Head(writeQueue') # <<>>
<1>0. wire \in Seq(S) /\ writeQueue \in Seq(Seq(S))
  BY DEF Packets
<1>1. CASE WritesAll
  <2>1. PICK h, q : h = Head(writeQueue) /\ q = Tail(writeQueue)
    OBVIOUS
  <2>2. /\ h \in Seq(S) /\ q \in Seq(Seq(S)) /\ FlattenSeq(q) \in Seq(S)
        /\ FlattenSeq(writeQueue) = Cat(h, FlattenSeq(q))
    BY <1>0, <1>1, <2>1, FlattenHead DEF WritesAll
  <2>3. /\ wire' = Cat(wire, h) /\ writeQueue' = q /\ isWritingAsync' = FALSE
        /\ peer = "up" /\ ~shut
    BY <1>1, <2>1, PopsCloses DEF WritesAll, Cat
  <2>4. Empties \/ UNCHANGED <<closed, cpc>>
    BY <1>1, PopsCloses DEF WritesAll
  <2>5. /\ Cat(wire, h) \in Seq(S) /\ Len(Cat(wire, h)) = Len(wire) + Len(h)
        /\ Len(wire) \in Nat /\ Len(h) \in Nat
    BY <1>0, <2>2, CatType, LenProperties
  <2>6. Cat(Cat(wire, h), FlattenSeq(q)) = Cat(wire, Cat(h, FlattenSeq(q)))
    BY <1>0, <2>2, CatAssociative
  <2>7. isWritingAsync' \in BOOLEAN /\ ~isWritingAsync'
    BY <2>3, Zenon
  <2>8. ~(peer = "gone" \/ shut)
    BY <2>3
  <2>9. /\ wire' \in Seq(S) /\ writeQueue' \in Seq(Seq(S)) /\ Len(wire') >= Len(wire)
        /\ Cat(wire', FlattenSeq(writeQueue')) = Cat(wire, FlattenSeq(writeQueue))
    BY <2>2, <2>3, <2>5, <2>6
  <2> QED BY <2>4, <2>7, <2>8, <2>9, Zenon
<1>2. CASE WritesPart
  <2>1. PICK h, q : h = Head(writeQueue) /\ q = Tail(writeQueue)
    OBVIOUS
  <2>2. /\ h \in Seq(S) /\ q \in Seq(Seq(S)) /\ FlattenSeq(q) \in Seq(S)
        /\ FlattenSeq(writeQueue) = Cat(h, FlattenSeq(q))
    BY <1>0, <1>2, <2>1, FlattenHead DEF WritesPart
  <2>3. PICK n \in 1..(Len(h) - 1) : 
            /\ wire' = Cat(wire, SubSeq(h, 1, n))
            /\ writeQueue' = <<SubSeq(h, n + 1, Len(h))>> \o q
    BY <1>2, <2>1 DEF WritesPart, Cat
  <2>4. isWritingAsync' = TRUE /\ UNCHANGED <<closed, cpc>> /\ peer = "up" /\ ~shut
    BY <1>2 DEF WritesPart
  <2>5. PICK a, b : a = SubSeq(h, 1, n) /\ b = SubSeq(h, n + 1, Len(h))
    OBVIOUS
  <2>6. PICK l \in Nat : l = Len(h)
    BY <2>2
  <2>7. n \in Nat /\ 1 <= n /\ n + 1 <= l
    BY <2>6
  <2>8. /\ a \in Seq(S) /\ Len(a) = n /\ b \in Seq(S) /\ Len(b) = l - n
        /\ \A i \in 1..n : a[i] = h[i]
        /\ \A i \in 1..(l - n) : b[i] = h[n + i]
    BY <2>2, <2>5, <2>6, <2>7, SubSeqProperties
  <2>9. Cat(a, b) = h
    <3>1. Cat(a, b) \in Seq(S) /\ Len(Cat(a, b)) = l
      BY <2>7, <2>8, CatType
    <3>2. ASSUME NEW i \in 1..l PROVE Cat(a, b)[i] = h[i]
      <4>1. Cat(a, b)[i] = IF i <= n THEN a[i] ELSE b[i - n]
        <5>1. Len(a) + Len(b) = l
          BY <2>7, <2>8
        <5> QED BY <2>8, <5>1, CatElements
      <4>2. CASE i <= n
        BY <2>7, <2>8, <4>1, <4>2
      <4>3. CASE ~(i <= n)
        <5>1. PICK j \in Nat : j = i - n
          BY <2>7, <4>3
        <5>2. j \in 1..(l - n) /\ n + j = i
          BY <2>7, <4>3, <5>1
        <5> QED BY <2>8, <4>1, <4>3, <5>1, <5>2
      <4> QED BY <4>2, <4>3
    <3> QED BY <2>2, <2>6, <3>1, <3>2, SeqEqual
  <2>10. PICK r : r = <<b>> \o q
    OBVIOUS
  <2>11. /\ r \in Seq(Seq(S)) /\ r # <<>> /\ Head(r) = b /\ Tail(r) = q
    <3>1. <<b>> \in Seq(Seq(S)) /\ Len(<<b>>) = 1 /\ <<b>>[1] = b
      BY <2>8
    <3>2. /\ r \in Seq(Seq(S)) /\ Len(r) = 1 + Len(q)
          /\ r[1] = b /\ \A i \in 1..Len(q) : r[i + 1] = q[i]
      BY <2>2, <2>10, <3>1, ConcatProperties
    <3>3. r # <<>>
      BY <2>2, <3>2, EmptySeq
    <3>4. /\ Head(r) = r[1] /\ Tail(r) \in Seq(Seq(S)) /\ Len(Tail(r)) = Len(q)
          /\ \A i \in 1..Len(q) : Tail(r)[i] = r[i + 1]
      BY <2>2, <3>2, <3>3, HeadTailProperties
    <3>5. Tail(r) = q
      <4>1. PICK t \in Seq(Seq(S)) : t = Tail(r)
        BY <3>4
      <4>2. Len(t) = Len(q) /\ \A i \in 1..Len(t) : t[i] = q[i]
        BY <3>2, <3>4, <4>1
      <4>3. t = q
        BY <2>2, <4>2, SeqEqual
      <4> QED BY <4>1, <4>3
    <3> QED BY <3>2, <3>3, <3>4, <3>5
  <2>12. FlattenSeq(r) = Cat(b, FlattenSeq(q))
    BY <2>11, FlattenHead
  <2>13. /\ Cat(wire, a) \in Seq(S) /\ Len(Cat(wire, a)) = Len(wire) + n /\ Len(wire) \in Nat
    BY <1>0, <2>8, CatType, LenProperties
  <2>14. Cat(Cat(wire, a), Cat(b, FlattenSeq(q))) = Cat(wire, Cat(h, FlattenSeq(q)))
    <3>1. Cat(b, FlattenSeq(q)) \in Seq(S)
      BY <2>2, <2>8, CatType
    <3>2. Cat(Cat(wire, a), Cat(b, FlattenSeq(q))) = Cat(wire, Cat(a, Cat(b, FlattenSeq(q))))
      BY <1>0, <2>8, <3>1, CatAssociative
    <3>3. Cat(a, Cat(b, FlattenSeq(q))) = Cat(Cat(a, b), FlattenSeq(q))
      BY <2>2, <2>8, CatAssociative
    <3> QED BY <2>9, <3>2, <3>3
  <2>15. b # <<>>
    BY <2>7, <2>8, EmptySeq
  <2>16. wire' = Cat(wire, a) /\ writeQueue' = r
    BY <2>3, <2>5, <2>10
  <2> QED BY <2>2, <2>4, <2>7, <2>11, <2>12, <2>13, <2>14, <2>15, <2>16
<1>3. CASE WouldBlock
  BY <1>0, <1>3, LenProperties DEF WouldBlock
<1>4. CASE WritesNothing
  <2>1. PICK h, q : h = Head(writeQueue) /\ q = Tail(writeQueue)
    OBVIOUS
  <2>2. /\ h \in Seq(S) /\ q \in Seq(Seq(S)) /\ FlattenSeq(q) \in Seq(S)
        /\ FlattenSeq(writeQueue) = Cat(h, FlattenSeq(q))
    BY <1>0, <1>4, <2>1, FlattenHead DEF WritesNothing
  <2>3. /\ wire' = wire /\ writeQueue' = q /\ isWritingAsync' = FALSE
        /\ peer = "gone" \/ shut \/ h = <<>>
    BY <1>4, <2>1, PopsCloses DEF WritesNothing
  <2>4. Empties \/ UNCHANGED <<closed, cpc>>
    BY <1>4, PopsCloses DEF WritesNothing
  <2>5. h = <<>> => FlattenSeq(writeQueue) = FlattenSeq(q)
    BY <2>2, CatEmpty
  <2>6. isWritingAsync' \in BOOLEAN /\ ~isWritingAsync'
    BY <2>3, Zenon
  <2>7. wire' = wire /\ Len(wire) \in Nat /\ Len(wire') >= Len(wire)
    BY <1>0, <2>3, LenProperties
  <2>8. \/ Cat(wire', FlattenSeq(writeQueue')) = Cat(wire, FlattenSeq(writeQueue))
        \/ peer = "gone" \/ shut
    BY <2>3, <2>5
  <2> QED BY <1>0, <2>2, <2>3, <2>4, <2>6, <2>7, <2>8, Zenon
<1>5. CASE NothingQueued
  <2>1. /\ isWritingAsync' \in BOOLEAN /\ ~isWritingAsync' 
        /\ UNCHANGED <<closed, cpc, writeQueue, wire>>
    BY <1>5, Zenon DEF NothingQueued
  <2>2. Len(wire) \in Nat /\ Len(wire') >= Len(wire)
    BY <1>0, <2>1, LenProperties
  <2> QED BY <1>0, <2>1, <2>2, Zenon
<1> QED BY <1>1, <1>2, <1>3, <1>4, <1>5 DEF HandleQueue

(* The steps that write close the socket at the end of a handler only.        *)
LEMMA WritesHold ==
    ASSUME Threads, NEW S, Packets(S), Waits, UpdateWrites \/ WriteHandler
    PROVE  Threads'
<1> USE DEF Threads
<1>0. /\ isWritingAsync' \in BOOLEAN /\ (Empties \/ UNCHANGED <<closed, cpc>>)
      /\ wire # <<>> => wire' # <<>>
  <2>1. HandleQueue
    BY DEF UpdateWrites, WriteHandler
  <2>2. /\ isWritingAsync' \in BOOLEAN /\ (Empties \/ UNCHANGED <<closed, cpc>>)
        /\ wire' \in Seq(S) /\ Len(wire') >= Len(wire)
    BY <2>1, Writing DEF Waits
  <2>3. wire \in Seq(S)
    BY DEF Packets
  <2>4. wire # <<>> => wire' # <<>>
    BY <2>2, <2>3, EmptySeq
  <2> QED BY <2>2, <2>4
<1>1. /\ UNCHANGED <<listed, peer, shut, closing, outgoing, buffer, incoming, wpc, spc>>
      /\ NetworkAt("write") \/ Idle
      /\ npc' = npc \/ (npc = "write" /\ npc' = "callbacks")
      /\ Empties => npc' \in {"idle", "callbacks"}
  BY DEF UpdateWrites, WriteHandler, Idle, NetworkAt, Empties
<1>2. /\ closed => closed'
      /\ \A t \in Closers :
            \/ cpc'[t] = cpc[t]
            \/ /\ t = "network" /\ cpc'[t] = "shutdown" /\ closed' /\ closing
               /\ npc' \in {"idle", "callbacks"}
      /\ cpc' \in [Closers -> {"no", "shutdown", "onClose"}]
      /\ closed' \in BOOLEAN
      /\ closed' = closed \/ closing
  <2>1. CASE UNCHANGED <<closed, cpc>>
    BY <2>1 DEF ControlTypes
  <2>2. CASE Empties
    BY <1>1, <2>2, Constants DEF ControlTypes, Empties, CloseSocket
  <2> QED BY <1>0, <2>1, <2>2
<1>3. ControlTypes'
  BY <1>0, <1>1, <1>2 DEF ControlTypes, outgoing, incoming
<1>4. ThreadsHold'
  BY <1>0, <1>1, <1>2, Constants DEF ControlTypes, ThreadsHold, LoginHolds, NetworkAt, Idle,
       Free, Runs, outgoing, incoming
<1>5. SessionHolds'
  BY <1>0, <1>1, <1>2, Constants DEF ControlTypes, SessionHolds, LoginHolds, NetworkAt, Idle,
       outgoing, incoming
<1>6. LoginHolds'
  BY <1>0, <1>1, <1>2, Constants DEF ControlTypes, ThreadsHold, SessionHolds, LoginHolds,
       NetworkAt, Idle, Handling, outgoing, incoming
<1> QED BY <1>3, <1>4, <1>5, <1>6

(* Every step keeps what the control lemmas keep.                             *)
LEMMA ThreadsStep ==
    ASSUME Threads, NEW S, Packets(S), Waits, [Next]_vars
    PROVE  Threads'
<1>1. ASSUME UNCHANGED vars PROVE Threads'
  BY <1>1 DEF vars, flags, outgoing, writing, incoming, threads, Threads, ControlTypes, ThreadsHold,
              SessionHolds, LoginHolds, Free, Runs
<1> QED BY <1>1, ClosingKeeps, UpdatingKeeps, AnsweringKeeps, ReadingKeeps, TickingKeeps,
     WritesHold, Constants
        DEF Next, NetworkGoesOn, NetworkHandlers, WorldGoesOn, GoesOn, Answers, FinishesSend,
            FinishesClose

----------------------------------------------------------------------------
(* The packets on their way                                                   *)

(* TypeOK, in the parts the lemmas work with.                                 *)
LEMMA TypesParts ==
    TypeOK <=> /\ ControlTypes /\ Packets(1..sent) /\ sent <= MaxSent
               /\ linking \in [Senders -> 0..sent]
<1>1. TypeOK => ControlTypes
  BY Constants DEF TypeOK, ControlTypes
<1>2. TypeOK => Packets(1..sent) /\ sent <= MaxSent /\ linking \in [Senders -> 0..sent]
  BY Constants DEF TypeOK, Packets
<1>3. (/\ ControlTypes /\ Packets(1..sent) /\ sent <= MaxSent
       /\ linking \in [Senders -> 0..sent]) => TypeOK
  BY Constants DEF TypeOK, ControlTypes, Packets
<1> QED BY <1>1, <1>2, <1>3

(* Every step is of one of these kinds.                                       *)
LEMMA Kinds ==
    ASSUME Threads, [Next]_vars
    PROVE  Still \/ Adds \/ PacksPacket \/ NothingToPack \/ UpdateWrites \/ WriteHandler
<1> USE DEF Threads, flags, outgoing, writing, incoming, threads
<1>1. ASSUME NEW t \in Closers, FinishesClose(t) PROVE Still
  BY <1>1 DEF FinishesClose, Shutdown, OnClose, Still
<1>2. ASSUME AddNewSockets \/ UpdateBegins PROVE Still
  BY <1>2 DEF AddNewSockets, UpdateBegins, Idle, NetworkAt, IsOpen, Still, LoginHolds
<1>3. ASSUME DropsClosed \/ TestsWrite \/ NoAnswer PROVE Still
  BY <1>3 DEF DropsClosed, TestsWrite, NoAnswer, NetworkAt, Still
<1>4. ASSUME AddressAllowed \/ Refused PROVE Adds
  BY <1>4 DEF AddressAllowed, Refused, NetworkAt, NetworkSends, IsOpen, Adds, LoginHolds
<1>5. ASSUME Authenticated \/ AddSession PROVE Still
  BY <1>5 DEF Authenticated, AddSession, NetworkAt, Still
<1>6. ASSUME ReadFails \/ ReadHandler PROVE Still
  BY <1>6 DEF ReadFails, ReadHandler, Idle, NetworkAt, Still
<1>7. ASSUME NoMorePackets \/ BadPacket \/ HandleAuthSession PROVE Still
  BY <1>7 DEF NoMorePackets, BadPacket, HandleAuthSession, NetworkAt, Still, LoginHolds, Handling
<1>8. ASSUME \/ LocksForDuplicate \/ LogsDuplicate
             \/ LocksSession \/ FindsSession \/ FindsNoSession
      PROVE  Still
  BY <1>8 DEF LocksForDuplicate, LogsDuplicate, LocksSession, FindsSession, FindsNoSession,
              NetworkAt, Still, LoginHolds, Handling
<1>9. ASSUME UsesSession PROVE Still \/ Adds
  BY <1>9 DEF UsesSession, NetworkAt, NetworkSends, IsOpen, Still, Adds, LoginHolds, Handling
<1>10. ASSUME TickBegins \/ SessionUpdated \/ MapsUpdated PROVE Still
  BY <1>10 DEF TickBegins, SessionUpdated, MapsUpdated, Still
<1>11. ASSUME NEW t \in Senders, FinishesSend(t) PROVE Still \/ Adds
  <2>1. CASE Enqueues(t)
    <3>1. ~closing
      BY <2>1, Constants DEF Enqueues, ThreadsHold, SessionHolds, LoginHolds, Free, Runs
    <3> QED BY <2>1, <3>1 DEF Enqueues, Adds
  <2>2. CASE Links(t)
    BY <2>2 DEF Links, Still
  <2> QED BY <1>11, <2>1, <2>2 DEF FinishesSend
<1>12. ASSUME NEW t \in Senders, Kicks(t) \/ Sends(t) PROVE Still
  <2>1. CASE Kicks(t)
    <3>1. ~closing
      BY <2>1, Constants DEF Kicks, SessionHolds, LoginHolds, Runs
    <3> QED BY <2>1, <3>1 DEF Kicks, Still
  <2>2. CASE Sends(t)
    BY <2>2 DEF Sends, SendPacket, Still
  <2> QED BY <1>12, <2>1, <2>2
<1>13. ASSUME PeerGone PROVE Still
  BY <1>13 DEF PeerGone, Still
<1>14. ASSUME UNCHANGED vars PROVE Still
  BY <1>14 DEF vars, Still
<1> QED BY <1>1, <1>2, <1>3, <1>4, <1>5, <1>6, <1>7, <1>8, <1>9, <1>10, <1>11, <1>12, <1>13,
     <1>14, Constants
        DEF Next, NetworkGoesOn, NetworkHandlers, WorldGoesOn, GoesOn, Answers

(* The types of the stream and of its parts.                                  *)
LEMMA StreamTypes ==
    ASSUME NEW S, Packets(S)
    PROVE  /\ FlattenSeq(writeQueue) \in Seq(S)
           /\ Cat(wire, FlattenSeq(writeQueue)) \in Seq(S)
           /\ Cat(Cat(wire, FlattenSeq(writeQueue)), buffer) \in Seq(S)
           /\ Stream \in Seq(S)
<1>1. FlattenSeq(writeQueue) \in Seq(S)
  BY FlattenType DEF Packets
<1>2. Cat(wire, FlattenSeq(writeQueue)) \in Seq(S)
  BY <1>1, CatType DEF Packets
<1>3. Cat(Cat(wire, FlattenSeq(writeQueue)), buffer) \in Seq(S)
  BY <1>2, CatType DEF Packets
<1>4. Stream \in Seq(S)
  BY <1>3, CatType DEF Packets, Stream
<1> QED BY <1>1, <1>2, <1>3, <1>4

(* Sequences over S are sequences over a larger set.                          *)
LEMMA PacketsGrow ==
    ASSUME NEW S, NEW R, S \subseteq R, Packets(S)
    PROVE  Packets(R)
BY DEF Packets

(* Every step keeps the sequences sequences of the packets that were sent.    *)
LEMMA PacketsStep ==
    ASSUME Threads, Waits, NEW S, Packets(S), Adds => sent' \in S,
           Still \/ Adds \/ PacksPacket \/ NothingToPack \/ UpdateWrites \/ WriteHandler
    PROVE  Packets(S)'
<1>1. CASE Still
  BY <1>1 DEF Packets, Still
<1>2. CASE Adds
  <2>1. bufferQueue' \in Seq(S)
    BY <1>2, AppendProperties DEF Packets, Adds, Exchange
  <2> QED BY <1>2, <2>1 DEF Packets, Adds, writing
<1>3. CASE PacksPacket
  <2>1. Head(bufferQueue) \in S /\ Tail(bufferQueue) \in Seq(S)
    BY <1>3, HeadTailProperties DEF PacksPacket, Packets
  <2>2. Append(buffer, Head(bufferQueue)) \in Seq(S) /\ <<Head(bufferQueue)>> \in Seq(S)
    BY <2>1, AppendProperties DEF Packets
  <2>3. Append(writeQueue, buffer) \in Seq(Seq(S))
    BY AppendProperties DEF Packets
  <2> QED BY <1>3, <2>1, <2>2, <2>3 DEF Packets, PacksPacket
<1>4. CASE NothingToPack
  <2>1. Append(writeQueue, buffer) \in Seq(Seq(S))
    BY AppendProperties DEF Packets
  <2> QED BY <1>4, <2>1 DEF Packets, NothingToPack, outgoing
<1>5. CASE UpdateWrites \/ WriteHandler
  <2>1. HandleQueue
    BY <1>5 DEF UpdateWrites, WriteHandler
  <2>2. wire' \in Seq(S) /\ writeQueue' \in Seq(Seq(S))
    BY <2>1, Writing DEF Waits
  <2>3. UNCHANGED <<outgoing, buffer>>
    BY <1>5 DEF UpdateWrites, WriteHandler
  <2> QED BY <2>2, <2>3 DEF Packets, outgoing
<1> QED BY <1>1, <1>2, <1>3, <1>4, <1>5

(* A step that leaves the packets where they are keeps the stream.            *)
LEMMA StillFlows ==
    ASSUME Threads, Flows, Still
    PROVE  Flows'
<1>1. Stream' = Stream
  BY DEF Still, Stream
<1>2. Streaming'
  BY <1>1 DEF Threads, ControlTypes, Flows, Streaming, Still, Waits
<1>3. RefusalHolds'
  BY DEF Threads, ControlTypes, Flows, RefusalHolds, Still
<1> QED BY <1>2, <1>3 DEF Flows

(* A packet more at the end of _bufferQueue.  To a client that is refused     *)
(* nothing is waiting to be written: it has got at most the challenge, and it *)
(* was not early with its answer.                                             *)
LEMMA AddsFlows ==
    ASSUME Threads, Flows, NEW S, Packets(S), sent + 1 \in S, Adds
    PROVE  Flows'
<1>1. PICK n \in Nat : n = sent /\ sent' = n + 1 /\ bufferQueue' = Append(bufferQueue, n + 1)
  BY DEF Threads, ControlTypes, Adds, Exchange
<1>2. PICK x : x = Cat(Cat(wire, FlattenSeq(writeQueue)), buffer)
  OBVIOUS
<1>3. x \in Seq(S) /\ bufferQueue \in Seq(S) /\ n + 1 \in S
  BY <1>1, <1>2, StreamTypes DEF Packets
<1>4. Stream = Cat(x, bufferQueue)
  BY <1>2 DEF Stream
<1>5. Stream' = Cat(x, Append(bufferQueue, n + 1))
  BY <1>1, <1>2 DEF Stream, Adds, writing
<1>6. Stream' = Append(Stream, n + 1)
  BY <1>3, <1>4, <1>5, CatAppend
<1>7. Stream = Numbers(n) => Stream' = Numbers(n + 1)
  BY <1>6, NumbersFacts
<1>8. Streaming'
  BY <1>1, <1>7 DEF Flows, Streaming, Adds, writing, Waits, Threads, ControlTypes
<1>9. RefusalHolds'
  <2>1. SUFFICES ASSUME peer' = "up", closing', ~early'
                 PROVE  ~closed' /\ ~isWritingAsync' /\ npc' = "idle"
    BY DEF RefusalHolds
  <2>2. /\ query # "none" /\ npc' = "idle" /\ ~closed /\ ~closing /\ session = "none"
        /\ ~shut /\ peer = "up" /\ ~early
    BY <2>1 DEF Adds, Threads, ThreadsHold, LoginHolds, ControlTypes
  <2>3. /\ sent <= 1 /\ query \in {"ip", "auth"}
        /\ query = "ip" => sent = 0
        /\ query = "auth" => wire # <<>>
    BY <2>2 DEF Threads, LoginHolds, ControlTypes
  <2>4. Stream = Numbers(n) /\ Waits
    BY <1>1, <2>2 DEF Flows, Streaming
  <2>5. ASSUME isWritingAsync PROVE FALSE
    <3>1. PICK q, h, t, f : q = writeQueue /\ h = Head(q) /\ t = Tail(q) /\ f = FlattenSeq(t)
      OBVIOUS
    <3>2. /\ h \in Seq(S) /\ h # <<>> /\ f \in Seq(S) /\ FlattenSeq(q) = Cat(h, f)
          /\ wire \in Seq(S) /\ q = writeQueue
      BY <2>4, <2>5, <3>1, FlattenHead DEF Packets, Waits
    <3>3. /\ Len(h) \in Nat /\ Len(h) # 0 /\ Len(f) \in Nat /\ Len(wire) \in Nat
          /\ wire # <<>> => Len(wire) # 0
      BY <3>2, EmptySeq, LenProperties
    <3>4. Cat(h, f) \in Seq(S) /\ Len(Cat(h, f)) = Len(h) + Len(f)
      BY <3>2, CatType
    <3>5. Cat(wire, Cat(h, f)) \in Seq(S) /\ Len(Cat(wire, Cat(h, f))) = Len(wire) + Len(h) + Len(f)
      <4>1. PICK g \in Seq(S) : g = Cat(h, f)
        BY <3>4
      <4>2. Cat(wire, g) \in Seq(S) /\ Len(Cat(wire, g)) = Len(wire) + Len(g)
        BY <3>2, CatType
      <4> QED BY <3>3, <3>4, <4>1, <4>2
    <3>6. buffer \in Seq(S) /\ Len(buffer) \in Nat /\ Len(bufferQueue) \in Nat
      BY <1>3, LenProperties DEF Packets
    <3>7. x = Cat(Cat(wire, Cat(h, f)), buffer)
      BY <1>2, <3>2
    <3>8. Len(x) = Len(wire) + Len(h) + Len(f) + Len(buffer)
      BY <3>5, <3>6, <3>7, CatType
    <3>9. Len(Stream) = Len(x) + Len(bufferQueue)
      BY <1>3, <1>4, CatType
    <3>10. Len(Stream) = n
      BY <2>4, NumbersFacts
    <3>11. n <= 1 /\ (query = "ip" => n = 0) /\ (query = "auth" => Len(wire) # 0)
      BY <1>1, <2>3, <3>3
    <3> QED BY <2>3, <3>3, <3>6, <3>8, <3>9, <3>10, <3>11
  <2> QED BY <2>2, <2>5 DEF Adds, writing
<1> QED BY <1>8, <1>9 DEF Flows

(* A queue that is not empty keeps its head when something is added.          *)
LEMMA FrontStays ==
    ASSUME NEW S, NEW q \in Seq(S), NEW e \in S, q # <<>>
    PROVE  Append(q, e) # <<>> /\ Head(Append(q, e)) = Head(q)
<1>0. PICK r : r = Append(q, e)
  OBVIOUS
<1>1. PICK n \in Nat : n = Len(q) /\ n # 0
  BY EmptySeq
<1>2. r \in Seq(S) /\ Len(r) = n + 1 /\ r[1] = q[1]
  BY <1>0, <1>1, AppendProperties
<1>3. r # <<>>
  BY <1>2, EmptySeq
<1>4. Head(r) = r[1] /\ Head(q) = q[1]
  BY <1>2, <1>3, HeadTailProperties
<1> QED BY <1>0, <1>3, <1>4

(* A packet goes from _bufferQueue into the buffer, or a full buffer is       *)
(* queued.                                                                    *)
LEMMA PacksFlows ==
    ASSUME Threads, Flows, NEW S, Packets(S), PacksPacket
    PROVE  Flows'
<1>0. /\ UNCHANGED <<wire, sent, peer, shut, closed, closing, isWritingAsync, early, npc>>
      /\ npc = "drain"
  BY DEF PacksPacket, NetworkAt, flags, incoming, threads
<1>1. PICK w, q, b, h, t : /\ w = Cat(wire, FlattenSeq(writeQueue)) /\ q = bufferQueue
                           /\ b = buffer /\ h = Head(q) /\ t = Tail(q)
  OBVIOUS
<1>2. w \in Seq(S) /\ q \in Seq(S) /\ b \in Seq(S) /\ q # <<>> /\ bufferQueue' = t
  BY <1>1, StreamTypes DEF PacksPacket, Packets
<1>3. h \in S /\ t \in Seq(S) /\ Cat(w, b) \in Seq(S)
  BY <1>1, <1>2, HeadMoves, CatType
<1>4. Cat(Append(Cat(w, b), h), t) = Cat(Cat(w, b), q) /\ Append(<<>>, h) = <<h>>
  BY <1>1, <1>2, <1>3, HeadMoves
<1>5. Stream = Cat(Cat(w, b), q)
  BY <1>1 DEF Stream
<1>6. Stream' = Stream /\ Waits'
  <2>1. CASE buffer' = Append(buffer, Head(bufferQueue)) /\ UNCHANGED writeQueue
    <3>1. Stream' = Cat(Cat(w, Append(b, h)), t)
      BY <1>0, <1>1, <1>2, <2>1 DEF Stream
    <3>2. Cat(w, Append(b, h)) = Append(Cat(w, b), h)
      BY <1>2, <1>3, CatAppend
    <3> QED BY <1>0, <1>4, <1>5, <2>1, <3>1, <3>2 DEF Flows, Streaming, Waits
  <2>2. CASE buffer' = <<Head(bufferQueue)>> /\ writeQueue' = Append(writeQueue, buffer)
    <3>1. /\ writeQueue \in Seq(Seq(S)) /\ wire \in Seq(S) /\ FlattenSeq(writeQueue) \in Seq(S)
          /\ FlattenSeq(writeQueue') = Cat(FlattenSeq(writeQueue), b)
      BY <1>1, <1>2, <2>2, FlattenAppend, StreamTypes DEF Packets
    <3>2. Cat(wire, FlattenSeq(writeQueue')) = Cat(w, b)
      BY <1>1, <1>2, <3>1, CatAssociative
    <3>3. Stream' = Cat(Cat(Cat(w, b), <<h>>), t)
      BY <1>0, <1>1, <1>2, <2>2, <3>2 DEF Stream
    <3>4. Cat(Cat(w, b), <<h>>) = Append(Cat(w, b), h)
      BY <1>3, AppendIsConcat DEF Cat
    <3>5. Waits'
      <4>1. writeQueue # <<>> => writeQueue' # <<>> /\ Head(writeQueue') = Head(writeQueue)
        BY <1>1, <1>2, <2>2, <3>1, FrontStays
      <4> QED BY <1>0, <4>1 DEF Flows, Streaming, Waits
    <3> QED BY <1>4, <1>5, <3>3, <3>4, <3>5
  <2> QED BY <2>1, <2>2 DEF PacksPacket
<1>7. Streaming'
  BY <1>0, <1>6 DEF Flows, Streaming
<1>8. RefusalHolds'
  BY <1>0, <1>1, <1>2 DEF Flows, RefusalHolds
<1> QED BY <1>7, <1>8 DEF Flows

(* The last buffer is queued; of a socket that closes nothing is left         *)
(* unpacked.                                                                  *)
LEMMA NothingFlows ==
    ASSUME Threads, Flows, NEW S, Packets(S), NothingToPack
    PROVE  Flows'
<1>0. /\ UNCHANGED <<wire, bufferQueue, sent, peer, shut, closed, closing, isWritingAsync, early>>
      /\ npc = "drain" /\ npc' = "update" /\ buffer' = <<>>
      /\ bufferQueue = <<>> \/ Linking # {0}
      /\ writeQueue' = IF buffer = <<>> THEN writeQueue ELSE Append(writeQueue, buffer)
  BY DEF NothingToPack, NetworkAt, flags, outgoing, incoming
<1>1. PICK w, b : w = Cat(wire, FlattenSeq(writeQueue)) /\ b = buffer
  OBVIOUS
<1>2. w \in Seq(S) /\ b \in Seq(S)
  BY <1>1, StreamTypes DEF Packets
<1>3. Cat(wire, FlattenSeq(writeQueue')) = Cat(w, b) /\ Waits'
  <2>1. CASE b = <<>>
    BY <1>0, <1>1, <1>2, <2>1, CatEmpty DEF Flows, Streaming, Waits
  <2>2. CASE b # <<>>
    <3>1. /\ writeQueue \in Seq(Seq(S)) /\ wire \in Seq(S) /\ FlattenSeq(writeQueue) \in Seq(S)
          /\ writeQueue' = Append(writeQueue, b)
          /\ FlattenSeq(writeQueue') = Cat(FlattenSeq(writeQueue), b)
      BY <1>0, <1>1, <1>2, <2>2, FlattenAppend, StreamTypes DEF Packets
    <3>2. Cat(wire, FlattenSeq(writeQueue')) = Cat(w, b)
      BY <1>1, <1>2, <3>1, CatAssociative
    <3>3. writeQueue # <<>> => writeQueue' # <<>> /\ Head(writeQueue') = Head(writeQueue)
      BY <1>2, <3>1, FrontStays
    <3> QED BY <1>0, <3>2, <3>3 DEF Flows, Streaming, Waits
  <2> QED BY <2>1, <2>2
<1>4. Stream' = Stream
  <2>1. Cat(w, b) \in Seq(S)
    BY <1>2, CatType
  <2>2. Cat(Cat(w, b), <<>>) = Cat(w, b)
    BY <2>1, CatEmpty
  <2> QED BY <1>0, <1>1, <1>3, <2>2 DEF Stream
<1>5. Streaming'
  BY <1>0, <1>3, <1>4 DEF Flows, Streaming
<1>6. closing => bufferQueue = <<>>
  <2>1. SUFFICES ASSUME closing PROVE Linking = {0}
    BY <1>0
  <2>2. \A t \in Senders : linking[t] = 0
    BY <2>1, Constants DEF Threads, ThreadsHold, SessionHolds, LoginHolds, Free, Runs
  <2> QED BY <2>2, Constants DEF Linking
<1>7. RefusalHolds'
  BY <1>0, <1>6 DEF Flows, RefusalHolds
<1> QED BY <1>5, <1>7 DEF Flows

(* HandleQueue: the wire grows by what the front buffer loses, and is a row   *)
(* of numbers as the stream is; the last buffer closes a socket that is       *)
(* closing.                                                                   *)
LEMMA WritesFlows ==
    ASSUME Threads, Flows, NEW S, Packets(S), UpdateWrites \/ WriteHandler
    PROVE  Flows'
<1>0. /\ HandleQueue /\ Waits
      /\ UNCHANGED <<peer, shut, closing, bufferQueue, sent, buffer, early>>
      /\ npc = "write" \/ (npc = "idle" /\ isWritingAsync)
      /\ npc' # "drain" /\ npc # "drain" /\ npc \in {"write", "idle"}
  BY DEF UpdateWrites, WriteHandler, Idle, NetworkAt, outgoing, incoming, Flows, Streaming
<1>1. /\ Empties \/ UNCHANGED <<closed, cpc>>
      /\ Len(wire') >= Len(wire)
      /\ peer = "gone" \/ shut => wire' = wire
      /\ \/ Cat(wire', FlattenSeq(writeQueue')) = Cat(wire, FlattenSeq(writeQueue))
              \/ peer = "gone" \/ shut
      /\ Waits'
  BY <1>0, Writing DEF Waits
<1>2. Packets(S)'
  <2>1. wire' \in Seq(S) /\ writeQueue' \in Seq(Seq(S))
    BY <1>0, Writing DEF Waits
  <2> QED BY <1>0, <2>1 DEF Packets
<1>3. buffer = <<>> /\ buffer' = <<>>
  BY <1>0 DEF Flows, Streaming
<1>4. PICK n \in Nat : n = sent /\ n = sent'
  BY <1>0 DEF Threads, ControlTypes
<1>5. ASSUME peer = "up", ~shut
      PROVE  /\ Stream' = Numbers(n) /\ wire' = Numbers(Len(wire')) /\ Len(wire') <= n
             /\ Len(wire') = n => wire' = Numbers(n)
             /\ Len(wire') \in Nat
  <2>1. Cat(wire', FlattenSeq(writeQueue')) = Cat(wire, FlattenSeq(writeQueue))
    BY <1>1, <1>5
  <2>2. Stream' = Stream /\ Stream = Numbers(n)
    BY <1>0, <1>4, <1>5, <2>1 DEF Stream, Flows, Streaming
  <2>3. PICK v, f, r : v = wire' /\ f = FlattenSeq(writeQueue') /\ r = bufferQueue
    OBVIOUS
  <2>4. v \in Seq(S) /\ f \in Seq(S) /\ r \in Seq(S)
    BY <1>0, <1>2, <2>3, FlattenType DEF Packets
  <2>5. Stream' = Cat(Cat(Cat(v, f), <<>>), r)
    BY <1>0, <1>3, <2>3 DEF Stream
  <2>6. Cat(Cat(Cat(v, f), <<>>), r) = Cat(v, Cat(f, r)) /\ Cat(f, r) \in Seq(S)
    <3>1. Cat(v, f) \in Seq(S) /\ Cat(f, r) \in Seq(S)
      BY <2>4, CatType
    <3>2. Cat(Cat(v, f), <<>>) = Cat(v, f)
      BY <3>1, CatEmpty
    <3>3. Cat(Cat(v, f), r) = Cat(v, Cat(f, r))
      BY <2>4, CatAssociative
    <3> QED BY <3>1, <3>2, <3>3
  <2>7. PICK g \in Seq(S) : g = Cat(f, r)
    BY <2>6
  <2>8. Cat(v, g) = Numbers(n)
    BY <2>2, <2>5, <2>6, <2>7
  <2>9. /\ v = Numbers(Len(v)) /\ Len(v) + Len(g) = n
        /\ Len(v) \in Nat /\ Len(g) \in Nat
        /\ Len(v) = n => v = Numbers(n)
    BY <2>4, <2>8, NumbersPrefix
  <2> QED BY <2>2, <2>3, <2>9
<1>6. wire' = Numbers(Len(wire'))
  <2>1. CASE peer = "up" /\ ~shut
    BY <1>5, <2>1
  <2>2. CASE ~(peer = "up" /\ ~shut)
    BY <1>1, <2>2 DEF Flows, Streaming, Threads, ControlTypes
  <2> QED BY <2>1, <2>2
<1>7. Streaming'
  BY <1>0, <1>1, <1>3, <1>4, <1>5, <1>6 DEF Streaming
<1>8. RefusalHolds'
  <2>1. SUFFICES ASSUME peer = "up", closing, ~early
                 PROVE  /\ ~closed' => bufferQueue' = <<>>
                        /\ closed' => wire' = Numbers(n)
    BY <1>0, <1>4 DEF RefusalHolds
  <2>2. CASE ~closed
    <3>1. bufferQueue = <<>> /\ ~shut
      BY <1>0, <2>1, <2>2 DEF Flows, RefusalHolds, Threads, ThreadsHold
    <3>2. ASSUME closed' PROVE wire' = Numbers(n)
      <4>1. writeQueue' = <<>>
        BY <1>1, <2>2, <3>2 DEF Empties
      <4>2. FlattenSeq(writeQueue') = <<>>
        BY <1>2, <4>1, FlattenType DEF Packets
      <4>3. Stream' = Cat(Cat(Cat(wire', <<>>), <<>>), <<>>)
        BY <1>0, <1>3, <3>1, <4>2 DEF Stream
      <4>4. wire' \in Seq(S)
        BY <1>2 DEF Packets
      <4>5. Stream' = wire'
        BY <4>3, <4>4, CatEmpty
      <4> QED BY <1>5, <2>1, <3>1, <4>5
    <3> QED BY <1>0, <3>1, <3>2
  <2>3. CASE closed
    <3>1. wire = Numbers(n) /\ closed'
      BY <1>1, <1>4, <2>1, <2>3 DEF Flows, RefusalHolds, Empties, CloseSocket
    <3>2. CASE shut
      BY <1>1, <3>1, <3>2
    <3>3. CASE ~shut
      <4>1. Len(wire) = n
        BY <3>1, NumbersFacts
      <4> QED BY <1>1, <1>5, <2>1, <3>1, <3>3, <4>1
    <3> QED BY <3>2, <3>3
  <2> QED BY <2>2, <2>3
<1> QED BY <1>7, <1>8 DEF Flows

----------------------------------------------------------------------------
(* The bound on what is sent                                                  *)

(* What a step does to the count of packets and to the calls under way.       *)
LEMMA Calls ==
    ASSUME Threads, [Next]_vars
    PROVE  \/ UNCHANGED <<sent, spc>> /\ \A t \in Senders : linking'[t] \in {0, linking[t]}
           \/ AddressAllowed \/ Refused \/ UsesSession
           \/ \E t \in Senders : Enqueues(t) \/ Sends(t)
<1> USE DEF Threads, flags, outgoing, writing, incoming, threads
<1> DEFINE Same == UNCHANGED <<sent, spc>> /\ \A t \in Senders : linking'[t] \in {0, linking[t]}
<1>1. ASSUME NEW t \in Closers, FinishesClose(t) PROVE Same
  BY <1>1 DEF FinishesClose, Shutdown, OnClose
<1>2. ASSUME \/ AddNewSockets \/ UpdateBegins \/ DropsClosed \/ TestsWrite \/ NoAnswer
             \/ PacksPacket \/ NothingToPack \/ UpdateWrites \/ WriteHandler
      PROVE  Same
  BY <1>2 DEF AddNewSockets, UpdateBegins, DropsClosed, TestsWrite, NoAnswer, PacksPacket,
              NothingToPack, UpdateWrites, WriteHandler
<1>3. ASSUME \/ Authenticated \/ AddSession \/ ReadFails \/ ReadHandler \/ NoMorePackets
             \/ BadPacket \/ HandleAuthSession \/ LocksForDuplicate \/ LogsDuplicate
             \/ LocksSession \/ FindsSession \/ FindsNoSession
      PROVE  Same
  BY <1>3 DEF Authenticated, AddSession, ReadFails, ReadHandler, NoMorePackets, BadPacket,
              HandleAuthSession, LocksForDuplicate, LogsDuplicate, LocksSession, FindsSession,
              FindsNoSession
<1>4. ASSUME TickBegins \/ SessionUpdated \/ MapsUpdated \/ PeerGone \/ UNCHANGED vars
      PROVE  Same
  BY <1>4 DEF TickBegins, SessionUpdated, MapsUpdated, PeerGone, vars
<1>5. ASSUME NEW t \in Senders, Kicks(t) PROVE Same
  BY <1>5 DEF Kicks
<1>6. ASSUME NEW t \in Senders, Links(t) PROVE Same
  BY <1>6 DEF Links, ControlTypes
<1> HIDE DEF Same
<1>7. \/ Same \/ AddressAllowed \/ Refused \/ UsesSession
      \/ \E t \in Senders : Enqueues(t) \/ Sends(t)
  BY <1>1, <1>2, <1>3, <1>4, <1>5, <1>6, Constants
     DEF Next, NetworkGoesOn, NetworkHandlers, WorldGoesOn, GoesOn, Answers, FinishesSend
<1> QED BY <1>7 DEF Same

(* The threads in the middle of SendPacket can be counted.                    *)
LEMMA OpenedIsFinite ==
    /\ IsFiniteSet(Opened) /\ Cardinality(Opened) \in Nat
    /\ Opened = {} => Cardinality(Opened) = 0
<1>1. IsFiniteSet(Opened)
  BY Constants, FS_Subset DEF Opened
<1> QED BY <1>1, FS_CardinalityType, FS_EmptySet

(* Before a client is authenticated no thread of the world sends to it.       *)
LEMMA NobodyOpens ==
    ASSUME Threads, session = "none"
    PROVE  Opened = {}
BY Constants DEF Threads, ThreadsHold, SessionHolds, Free, Runs, Opened

(* Every step keeps room for the packets of the calls under way.              *)
LEMMA RoomStep ==
    ASSUME Threads, Threads', Room, [Next]_vars
    PROVE  /\ Room' /\ sent' \in Nat /\ sent' >= sent
           /\ linking \in [Senders -> 0..sent] => linking' \in [Senders -> 0..sent']
<1>1. PICK n \in Nat, c \in Nat : n = sent /\ c = Cardinality(Opened) /\ n + c <= MaxSent
  BY OpenedIsFinite DEF Threads, ControlTypes, Room
<1>2. linking \in [Senders -> Nat] /\ linking' \in [Senders -> Nat]
  BY DEF Threads, ControlTypes
<1>3. CASE UNCHANGED <<sent, spc>> /\ \A t \in Senders : linking'[t] \in {0, linking[t]}
  BY <1>1, <1>2, <1>3 DEF Room, Opened
<1>4. CASE AddressAllowed \/ Refused
  <2>1. /\ session = "none" /\ sent <= 1 /\ sent' = sent + 1 /\ UNCHANGED <<spc, linking>>
    BY <1>4 DEF AddressAllowed, Refused, NetworkSends, Exchange, IsOpen, Threads, LoginHolds
  <2>2. Opened = {} /\ Opened' = Opened
    BY <2>1, NobodyOpens DEF Opened
  <2>3. c = 0 /\ Cardinality(Opened)' = 0
    BY <1>1, <2>2, OpenedIsFinite
  <2> QED BY <1>1, <2>1, <2>3, Constants DEF Room
<1>5. CASE UsesSession
  <2>1. UNCHANGED <<spc, linking>> /\ (sent' = sent \/ (MaySend /\ sent' = sent + 1))
    BY <1>5 DEF UsesSession, NetworkSends, Exchange, outgoing
  <2>2. MaySend => n + c < MaxSent
    BY <1>1 DEF MaySend, Opened
  <2>3. Cardinality(Opened)' = c
    BY <1>1, <2>1 DEF Opened
  <2> QED BY <1>1, <2>1, <2>2, <2>3, Constants DEF Room
<1>6. CASE \E t \in Senders : Enqueues(t)
  <2>1. PICK t \in Senders : Enqueues(t)
    BY <1>6
  <2>2. /\ spc[t] = "open" /\ sent' = n + 1 /\ linking' = [linking EXCEPT ![t] = n + 1]
        /\ spc' = [spc EXCEPT ![t] = "idle"]
    BY <1>1, <2>1 DEF Enqueues, Exchange
  <2>3. t \in Opened /\ Opened' = Opened \ {t}
    BY <2>2 DEF Threads, ControlTypes, Opened
  <2>4. c - 1 \in Nat /\ Cardinality(Opened') = c - 1
    <3>1. Cardinality(Opened \ {t}) = c - 1
      BY <1>1, <2>3, OpenedIsFinite, FS_RemoveElement
    <3>2. c # 0
      BY <1>1, <2>3, OpenedIsFinite, FS_EmptySet
    <3> QED BY <2>3, <3>1, <3>2
  <2>5. Room'
    BY <1>1, <2>2, <2>4 DEF Room
  <2>6. linking \in [Senders -> 0..sent] => linking' \in [Senders -> 0..(n + 1)]
    BY <1>1, <2>2
  <2> QED BY <1>1, <2>2, <2>5, <2>6
<1>7. CASE \E t \in Senders : Sends(t)
  <2>1. PICK t \in Senders : Sends(t)
    BY <1>7
  <2>2. /\ spc[t] = "idle" /\ MaySend /\ UNCHANGED <<sent, linking>>
        /\ spc' = [spc EXCEPT ![t] = "open"]
    BY <2>1 DEF Sends, SendPacket, Free, outgoing
  <2>3. t \notin Opened /\ Opened' = Opened \cup {t}
    BY <2>2 DEF Threads, ControlTypes, Opened
  <2>4. Cardinality(Opened') = c + 1
    BY <1>1, <2>3, OpenedIsFinite, FS_AddElement
  <2>5. n + c < MaxSent
    BY <1>1, <2>2 DEF MaySend, Opened
  <2>6. Room'
    BY <1>1, <2>2, <2>4, <2>5, Constants DEF Room
  <2> QED BY <1>1, <2>2, <2>6
<1> QED BY <1>3, <1>4, <1>5, <1>6, <1>7, Calls

----------------------------------------------------------------------------
(* The theorems                                                               *)

(* The invariant holds at the beginning ...                                   *)
LEMMA InitHolds == Init => IInv
<1> SUFFICES ASSUME Init PROVE IInv
  OBVIOUS
<1>1. ControlTypes /\ ThreadsHold /\ SessionHolds /\ LoginHolds
  <2>1. ControlTypes
    BY DEF Init, ControlTypes
  <2>2. \A t \in Senders : Free(t)
    BY Constants DEF Init, Free
  <2>3. ThreadsHold
    BY <2>2, Constants DEF Init, ThreadsHold
  <2>4. SessionHolds
    BY DEF Init, SessionHolds
  <2>5. LoginHolds
    BY DEF Init, LoginHolds, Handling
  <2> QED BY <2>1, <2>3, <2>4, <2>5
<1>2. /\ wire = <<>> /\ writeQueue = <<>> /\ buffer = <<>> /\ bufferQueue = <<>> /\ sent = 0
      /\ ~isWritingAsync /\ ~closing
  BY DEF Init
<1>3. <<>> \in Seq(1..0) /\ Len(<<>>) = 0 /\ <<>> \in Seq(Seq(1..0))
  OBVIOUS
<1>4. TypeOK
  BY <1>1, <1>2, <1>3, Constants, TypesParts DEF Init, Packets
<1>5. Stream = <<>>
  <2>1. FlattenSeq(writeQueue) = <<>>
    BY <1>2, <1>3, FlattenType
  <2> QED BY <1>2, <1>3, <2>1, CatEmpty DEF Stream
<1>6. Numbers(0) = <<>>
  BY NumbersFacts
<1>7. Flows
  BY <1>2, <1>3, <1>5, <1>6 DEF Flows, Streaming, RefusalHolds, Waits
<1>8. Room
  <2>1. Opened = {}
    BY DEF Init, Opened
  <2> QED BY <1>2, <2>1, OpenedIsFinite, Constants DEF Room
<1> QED BY <1>1, <1>4, <1>7, <1>8 DEF IInv, Threads

(* A range is part of a longer one.                                           *)
LEMMA RangesGrow ==
    ASSUME NEW n \in Nat, NEW m \in Nat, n <= m
    PROVE  1..n \subseteq 1..(m + 1) /\ n + 1 \in 1..(m + 1)
OBVIOUS

(* ... and every step keeps it.                                               *)
LEMMA StepHolds == IInv /\ [Next]_vars => IInv'
<1> SUFFICES ASSUME IInv, [Next]_vars PROVE IInv'
  OBVIOUS
<1>1. Threads /\ Flows /\ Room /\ Waits /\ Packets(1..sent) /\ linking \in [Senders -> 0..sent]
  BY TypesParts DEF IInv, Flows, Streaming
<1>2. Threads'
  BY <1>1, ThreadsStep
<1>3. /\ Room' /\ sent' \in Nat /\ sent' >= sent
      /\ linking' \in [Senders -> 0..sent']
  BY <1>1, <1>2, RoomStep
<1>4. PICK S : S = 1..(sent' + 1)
  OBVIOUS
<1>5. /\ Still \/ Adds \/ PacksPacket \/ NothingToPack \/ UpdateWrites \/ WriteHandler
  BY <1>1, Kinds
<1>6. Packets(S) /\ sent + 1 \in S
  <2>1. 1..sent \subseteq S /\ sent + 1 \in S
    <3>1. PICK n \in Nat, m \in Nat : n = sent /\ m = sent' /\ m >= n
      BY <1>1, <1>3 DEF Threads, ControlTypes
    <3>2. 1..n \subseteq 1..(m + 1) /\ n + 1 \in 1..(m + 1)
      BY <3>1, RangesGrow
    <3> QED BY <1>4, <3>1, <3>2
  <2> QED BY <1>1, <2>1, PacketsGrow
<1>7. Flows'
  BY <1>1, <1>5, <1>6, StillFlows, AddsFlows, PacksFlows, NothingFlows, WritesFlows
<1>8. Packets(1..sent)'
  <2>1. PICK R : R = 1..sent'
    OBVIOUS
  <2>2. 1..sent \subseteq R /\ (Adds => sent' \in R)
    BY <1>1, <1>3, <2>1 DEF Threads, ControlTypes, Adds, Exchange
  <2>3. Packets(R)
    BY <1>1, <2>2, PacketsGrow
  <2>4. Packets(R)'
    BY <1>1, <1>5, <2>2, <2>3, PacketsStep
  <2> QED BY <2>1, <2>4 DEF Packets
<1>9. TypeOK'
  <2>1. sent' <= MaxSent
    <3>1. Opened' \subseteq Senders
      BY DEF Opened
    <3>2. Cardinality(Opened') \in Nat
      BY <3>1, Constants, FS_Subset, FS_CardinalityType
    <3> QED BY <1>3, <3>2, Constants DEF Room
  <2>2. ControlTypes'
    BY <1>2 DEF Threads
  <2> QED BY <1>3, <1>8, <2>1, <2>2, Constants DEF TypeOK, ControlTypes, Packets
<1> QED BY <1>2, <1>3, <1>7, <1>9 DEF IInv

(* The inductive invariant, for any number of map threads and packets.        *)
THEOREM Invariant == Spec => []IInv
BY InitHolds, StepHolds, PTL DEF Spec

(* Every variable has its type: no packet has a number that was not given.    *)
THEOREM TypeCorrect == Spec => []TypeOK
<1>1. IInv => TypeOK
  BY DEF IInv
<1> QED BY <1>1, Invariant, PTL

(* The network thread uses the session under its lock only while the world    *)
(* thread has not deleted it: between test and unlock (ReadDataHandler,       *)
(* HandlePing), and for a duplicate CMSG_AUTH_SESSION while it is set.        *)
THEOREM Alive == Spec => []SessionAlive
<1>1. IInv => SessionAlive
  BY DEF IInv, Threads, ControlTypes, ThreadsHold, SessionHolds, SessionAlive
<1> QED BY <1>1, Invariant, PTL

(* The client receives packets in the order of their Enqueue, none twice;     *)
(* while the connection is up and open none is lost on its way through both   *)
(* queues.                                                                    *)
THEOREM Intact == Spec => []StreamIntact
<1>1. IInv => StreamIntact
  BY DEF IInv, Flows, Streaming, Stream, StreamIntact, Cat
<1> QED BY <1>1, Invariant, PTL

(* A client that is refused, and did not answer the challenge before it was   *)
(* written, has got all packets, the refusal among them, before its connection*)
(* is shut down (DelayedCloseSocket).                                         *)
THEOREM Answered == Spec => []RefusalReachesClient
<1>1. IInv => RefusalReachesClient
  BY DEF IInv, Threads, ThreadsHold, Flows, RefusalHolds, RefusalReachesClient
<1> QED BY <1>1, Invariant, PTL
=============================================================================
