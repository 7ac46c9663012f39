---------------------------- MODULE WorldSocket ----------------------------
(* A client's connection: the socket with its two send queues                 *)
(* (server/shared/Network/Socket.h, server/game/Server/WorldSocket.cpp), the  *)
(* network thread that reads, writes and finally drops it (NetworkThread.h),  *)
(* and the session that the world thread and a map thread use it for          *)
(* (WorldSession.cpp).                                                        *)
(*                                                                            *)
(* Packets to the client are numbered in the order in which they enter        *)
(* _bufferQueue.  Of that queue the module uses what MPSCQueue shows: order,  *)
(* and that Dequeue may find nothing while an Enqueue is under way.           *)
EXTENDS Naturals, Sequences, FiniteSets, SequencesExt

CONSTANTS
    Maps,           \* the map threads: a player's own, and others that send to him
    MaxSent         \* bound on the packets that are sent to the client

ASSUME SocketAssumption ==
    /\ Maps \cap {"world", "network"} = {} /\ IsFiniteSet(Maps)
    /\ MaxSent \in Nat \ {0, 1}

Senders == Maps \cup {"world"}
Closers == Senders \cup {"network"}

VARIABLES
    listed,         \* the network thread has it as "new", in _sockets, or has "removed" it
    peer,           \* the connection is "up", or "gone"
    closed,         \* _closed
    shut,           \* CloseSocket has shut the connection down
    closing,        \* _closing
    bufferQueue,    \* _bufferQueue: packets in the order of their exchanges
    linking,        \* the packet that a sender has exchanged and not linked, or 0
    buffer,         \* `buffer' of WorldSocket::Update
    writeQueue,     \* _writeQueue: buffers, each a sequence of packets
    isWritingAsync, \* _isWritingAsync: async_wait for writing is pending
    wire,           \* external: what the operating system has taken
    sent,           \* how many packets have entered _bufferQueue
    reading,        \* an async_read_some is pending
    query,          \* the pending query of _queryProcessor: "none", "ip" or "auth"
    worldSession,   \* _worldSession is not null
    locked,         \* the network thread holds _worldSessionLock
    session,        \* the WorldSession: "none", "created", "listed", or "deleted"
    early,          \* history: CMSG_AUTH_SESSION came before the challenge was written
    npc,            \* where the network thread is in its handlers, or "crashed"
    wpc,            \* where the world thread is in its tick
    spc,            \* where a sender is in SendPacket
    cpc             \* where a closer is in CloseSocket

flags == <<closed, shut, closing>>
outgoing == <<bufferQueue, linking, sent>>
writing == <<buffer, writeQueue, isWritingAsync, wire>>
incoming == <<reading, query, worldSession, locked, session, early>>
threads == <<npc, wpc, spc, cpc>>
vars == <<listed, peer, flags, outgoing, writing, incoming, threads>>

TypeOK ==
    /\ listed \in {"new", "sockets", "removed"} /\ peer \in {"up", "gone"}
    /\ closed \in BOOLEAN /\ shut \in BOOLEAN /\ closing \in BOOLEAN
    /\ sent \in 0..MaxSent
    /\ bufferQueue \in Seq(1..sent) /\ linking \in [Senders -> 0..sent]
    /\ buffer \in Seq(1..sent) /\ writeQueue \in Seq(Seq(1..sent)) /\ wire \in Seq(1..sent)
    /\ isWritingAsync \in BOOLEAN /\ reading \in BOOLEAN
    /\ query \in {"none", "ip", "auth"}
    /\ worldSession \in BOOLEAN /\ locked \in BOOLEAN
    /\ session \in {"none", "created", "listed", "deleted"} /\ early \in BOOLEAN
    /\ npc \in {"idle", "drain", "update", "write", "callbacks", "packets",
                "locked", "using", "duplicate", "add", "crashed"}
    /\ wpc \in {"tick", "session", "maps"}
    /\ spc \in [Senders -> {"idle", "open"}]
    /\ cpc \in [Closers -> {"no", "shutdown", "onClose"}]

Init ==
    /\ listed = "new" /\ peer = "up"
    /\ closed = FALSE /\ shut = FALSE /\ closing = FALSE
    /\ bufferQueue = <<>> /\ linking = [t \in Senders |-> 0] /\ sent = 0
    /\ buffer = <<>> /\ writeQueue = <<>> /\ isWritingAsync = FALSE /\ wire = <<>>
    /\ reading = FALSE /\ query = "none"
    /\ worldSession = FALSE /\ locked = FALSE /\ session = "none" /\ early = FALSE
    /\ npc = "idle" /\ wpc = "tick"
    /\ spc = [t \in Senders |-> "idle"]
    /\ cpc = [t \in Closers |-> "no"]

IsOpen == ~closed /\ ~closing

(* The process: all its threads end with a crash of the network thread.       *)
Up == npc # "crashed"

----------------------------------------------------------------------------
(* CloseSocket                                                                *)

(* _closed.exchange(true): the first caller goes on.                          *)
CloseSocket(t) ==
    /\ closed' = TRUE
    /\ cpc' = IF closed THEN cpc ELSE [cpc EXCEPT ![t] = "shutdown"]

Shutdown(t) ==
    /\ cpc[t] = "shutdown"
    /\ shut' = TRUE
    /\ cpc' = [cpc EXCEPT ![t] = "onClose"]
    /\ UNCHANGED <<listed, peer, closed, closing, outgoing, writing, incoming, npc, wpc, spc>>

(* Variant: without the lock.                                                 *)
OnCloseUnlocked(t) ==
    /\ cpc[t] = "onClose"
    /\ worldSession' = FALSE
    /\ cpc' = [cpc EXCEPT ![t] = "no"]
    /\ UNCHANGED <<listed, peer, flags, outgoing, writing, reading, query, early, locked,
                   session, npc, wpc, spc>>

(* OnClose clears _worldSession under its lock.                               *)
OnClose(t) ==
    /\ cpc[t] = "onClose"
    /\ ~locked
    /\ worldSession' = FALSE
    /\ cpc' = [cpc EXCEPT ![t] = "no"]
    /\ UNCHANGED <<listed, peer, flags, outgoing, writing, reading, query, early, locked,
                   session, npc, wpc, spc>>

FinishesClose(t) == Shutdown(t) \/ OnClose(t)

----------------------------------------------------------------------------
(* SendPacket                                                                 *)

(* A thread of the world is in none of the calls that take several steps.     *)
Free(t) == cpc[t] = "no" /\ spc[t] = "idle" /\ linking[t] = 0

MaySend == sent + Cardinality({t \in Senders : spc[t] = "open"}) < MaxSent

(* The exchange of Enqueue.                                                   *)
Exchange ==
    /\ sent' = sent + 1
    /\ bufferQueue' = Append(bufferQueue, sent')

(* The network thread is the consumer too: nobody sees it between exchange    *)
(* and link.                                                                  *)
NetworkSends ==
    IF IsOpen
    THEN Exchange /\ UNCHANGED linking
    ELSE UNCHANGED outgoing

(* A thread of the world tests IsOpen ...                                     *)
SendPacket(t) ==
    /\ Free(t)
    /\ IsOpen /\ MaySend
    /\ spc' = [spc EXCEPT ![t] = "open"]
    /\ UNCHANGED <<listed, peer, flags, outgoing, writing, incoming, npc, wpc, cpc>>

(* ... and enqueues, whatever has become of the socket meanwhile.             *)
Enqueues(t) ==
    /\ spc[t] = "open"
    /\ Exchange
    /\ linking' = [linking EXCEPT ![t] = sent']
    /\ spc' = [spc EXCEPT ![t] = "idle"]
    /\ UNCHANGED <<listed, peer, flags, writing, incoming, npc, wpc, cpc>>

Links(t) ==
    /\ linking[t] # 0
    /\ linking' = [linking EXCEPT ![t] = 0]
    /\ UNCHANGED <<listed, peer, flags, bufferQueue, sent, writing, incoming, threads>>

FinishesSend(t) == Enqueues(t) \/ Links(t)

----------------------------------------------------------------------------
(* The network thread: NetworkThread::Update, every millisecond               *)

NetworkAt(l) == npc = l /\ cpc["network"] = "no"
Idle == NetworkAt("idle")

(* AddNewSockets: a socket that is still open joins _sockets, and Start asks  *)
(* the database whether the address is banned.                                *)
AddNewSockets ==
    /\ Idle
    /\ listed = "new"
    /\ IF IsOpen
       THEN /\ listed' = "sockets"
            /\ query' = "ip"
            /\ npc' = "drain"
       ELSE /\ listed' = "removed"
            /\ UNCHANGED <<query, npc>>
    /\ UNCHANGED <<peer, flags, outgoing, writing, reading, worldSession, locked, session,
                   early, wpc, spc, cpc>>

UpdateBegins ==
    /\ Idle
    /\ listed = "sockets"
    /\ npc' = "drain"
    /\ UNCHANGED <<listed, peer, flags, outgoing, writing, incoming, wpc, spc, cpc>>

Linking == {linking[t] : t \in Senders}

(* Variant: the full buffer is not queued.                                    *)
PacksPacketOver ==
    /\ NetworkAt("drain")
    /\ bufferQueue # <<>> /\ Head(bufferQueue) \notin Linking
    /\ bufferQueue' = Tail(bufferQueue)
    /\ \/ buffer' = Append(buffer, Head(bufferQueue))
       \/ buffer' = <<Head(bufferQueue)>>
    /\ UNCHANGED <<listed, peer, flags, linking, sent, writeQueue, isWritingAsync, wire,
                   incoming, threads>>

(* WorldSocket::Update packs packet after packet into a buffer; when the next *)
(* does not fit, the buffer is queued, even an empty one, and another begun.  *)
PacksPacket ==
    /\ NetworkAt("drain")
    /\ bufferQueue # <<>> /\ Head(bufferQueue) \notin Linking
    /\ bufferQueue' = Tail(bufferQueue)
    /\ \/ /\ buffer' = Append(buffer, Head(bufferQueue))
          /\ UNCHANGED writeQueue
       \/ /\ buffer' = <<Head(bufferQueue)>>
          /\ writeQueue' = Append(writeQueue, buffer)
    /\ UNCHANGED <<listed, peer, flags, linking, sent, isWritingAsync, wire, incoming, threads>>

(* Dequeue finds nothing: the queue is empty, or an Enqueue is under way.     *)
NothingToPack ==
    /\ NetworkAt("drain")
    /\ bufferQueue = <<>> \/ Linking # {0}
    /\ writeQueue' = IF buffer = <<>> THEN writeQueue ELSE Append(writeQueue, buffer)
    /\ buffer' = <<>>
    /\ npc' = "update"
    /\ UNCHANGED <<listed, peer, flags, outgoing, isWritingAsync, wire, incoming, wpc, spc, cpc>>

(* Socket::Update: a closed socket leaves the thread.                         *)
DropsClosed ==
    /\ NetworkAt("update")
    /\ closed
    /\ listed' = "removed"
    /\ npc' = "idle"
    /\ UNCHANGED <<peer, flags, outgoing, writing, incoming, wpc, spc, cpc>>

(* Variant: "or" where the code has "and".                                    *)
TestsWriteClosing ==
    /\ NetworkAt("update")
    /\ ~closed
    /\ npc' = IF isWritingAsync \/ writeQueue = <<>> \/ ~closing THEN "callbacks" ELSE "write"
    /\ UNCHANGED <<listed, peer, flags, outgoing, writing, incoming, wpc, spc, cpc>>

(* isWritingAsync, or nothing queued and not closing: nothing to write.       *)
TestsWrite ==
    /\ NetworkAt("update")
    /\ ~closed
    /\ npc' = IF isWritingAsync \/ (writeQueue = <<>> /\ ~closing) THEN "callbacks" ELSE "write"
    /\ UNCHANGED <<listed, peer, flags, outgoing, writing, incoming, wpc, spc, cpc>>

----------------------------------------------------------------------------
(* HandleQueue                                                                *)

(* Variant: a socket that is closing goes with the first buffer.              *)
PopsAny ==
    /\ writeQueue' = Tail(writeQueue)
    /\ IF closing THEN CloseSocket("network") ELSE UNCHANGED <<closed, cpc>>

(* Variant: a socket that is closing is left to the next call.                *)
PopsOnly ==
    /\ writeQueue' = Tail(writeQueue)
    /\ UNCHANGED <<closed, cpc>>

(* A buffer leaves the queue; with the last one goes a socket that is closing.*)
Pops ==
    /\ writeQueue' = Tail(writeQueue)
    /\ IF closing /\ writeQueue' = <<>>
       THEN CloseSocket("network")
       ELSE UNCHANGED <<closed, cpc>>

(* The operating system takes all of the front buffer.                        *)
WritesAll ==
    /\ writeQueue # <<>> /\ Head(writeQueue) # <<>>
    /\ peer = "up" /\ ~shut
    /\ wire' = wire \o Head(writeQueue)
    /\ Pops
    /\ isWritingAsync' = FALSE

(* Part of it: the rest waits for async_wait.                                 *)
WritesPart ==
    /\ writeQueue # <<>>
    /\ peer = "up" /\ ~shut
    /\ \E n \in 1..Len(Head(writeQueue)) - 1 :
          /\ wire' = wire \o SubSeq(Head(writeQueue), 1, n)
          /\ writeQueue' = <<SubSeq(Head(writeQueue), n + 1, Len(Head(writeQueue)))>>
                              \o Tail(writeQueue)
    /\ isWritingAsync' = TRUE
    /\ UNCHANGED <<closed, cpc>>

(* Nothing for the moment, or not even one packet.                            *)
WouldBlock ==
    /\ writeQueue # <<>> /\ Head(writeQueue) # <<>>
    /\ peer = "up" /\ ~shut
    /\ isWritingAsync' = TRUE
    /\ UNCHANGED <<wire, writeQueue, closed, cpc>>

(* An error, or an empty buffer: it is dropped.                               *)
WritesNothing ==
    /\ writeQueue # <<>>
    /\ peer = "gone" \/ shut \/ Head(writeQueue) = <<>>
    /\ Pops
    /\ isWritingAsync' = FALSE
    /\ UNCHANGED wire

NothingQueued ==
    /\ writeQueue = <<>>
    /\ isWritingAsync' = FALSE
    /\ UNCHANGED <<closed, cpc, writeQueue, wire>>

HandleQueue == WritesAll \/ WritesPart \/ WouldBlock \/ WritesNothing \/ NothingQueued

(* The loop of Socket::Update: only a buffer written whole lets it go on.     *)
UpdateWrites ==
    /\ NetworkAt("write")
    /\ HandleQueue
    /\ npc' = IF wire' # wire /\ ~isWritingAsync' /\ writeQueue' # <<>>
              THEN "write" ELSE "callbacks"
    /\ UNCHANGED <<listed, peer, shut, closing, outgoing, buffer, incoming, wpc, spc>>

(* WriteHandlerWrapper: the connection is ready, or broken; one buffer.       *)
WriteHandler ==
    /\ Idle
    /\ isWritingAsync
    /\ HandleQueue
    /\ UNCHANGED <<listed, peer, shut, closing, outgoing, buffer, incoming, npc, wpc, spc>>

----------------------------------------------------------------------------
(* Answers of the login database: WorldSocket::Update's ProcessReadyCallbacks *)

NoAnswer ==
    /\ NetworkAt("callbacks")
    /\ npc' = "idle"
    /\ UNCHANGED <<listed, peer, flags, outgoing, writing, incoming, wpc, spc, cpc>>

(* CheckIpCallback: the challenge is sent, and the socket reads.              *)
AddressAllowed ==
    /\ NetworkAt("callbacks") /\ query = "ip"
    /\ query' = "none"
    /\ reading' = IsOpen
    /\ NetworkSends
    /\ npc' = "idle"
    /\ UNCHANGED <<listed, peer, flags, writing, worldSession, locked, session, early, wpc, spc,
                   cpc>>

(* SendAuthResponseError and DelayedCloseSocket: a banned address in          *)
(* CheckIpCallback, any of the refusals in HandleAuthSessionCallback.         *)
Refused ==
    /\ NetworkAt("callbacks") /\ query # "none"
    /\ query' = "none"
    /\ NetworkSends
    /\ closing' = TRUE
    /\ npc' = "idle"
    /\ UNCHANGED <<listed, peer, closed, shut, writing, reading, worldSession, locked, session,
                   early, wpc, spc, cpc>>

(* HandleAuthSessionCallback accepts: the socket has a session ...            *)
Authenticated ==
    /\ NetworkAt("callbacks") /\ query = "auth"
    /\ query' = "none"
    /\ session' = "created"
    /\ worldSession' = TRUE
    /\ npc' = "add"
    /\ UNCHANGED <<listed, peer, flags, outgoing, writing, reading, locked, early, wpc, spc,
                   cpc>>

(* ... AddSession gives it to the world thread, and reading goes on.          *)
AddSession ==
    /\ NetworkAt("add")
    /\ session' = "listed"
    /\ reading' = IsOpen
    /\ npc' = "idle"
    /\ UNCHANGED <<listed, peer, flags, outgoing, writing, query, early, worldSession, locked,
                   wpc, spc, cpc>>

Answers == AddressAllowed \/ Refused \/ Authenticated

----------------------------------------------------------------------------
(* Packets of the client: ReadHandlerInternal and ReadHandler                 *)

ReadFails ==
    /\ Idle
    /\ reading /\ peer = "gone"
    /\ reading' = FALSE
    /\ CloseSocket("network")
    /\ UNCHANGED <<listed, peer, shut, closing, outgoing, writing, query, early, worldSession,
                   locked, session, npc, wpc, spc>>

ReadHandler ==
    /\ Idle
    /\ reading /\ peer = "up"
    /\ reading' = FALSE
    /\ npc' = IF IsOpen THEN "packets" ELSE "idle"
    /\ UNCHANGED <<listed, peer, flags, outgoing, writing, query, early, worldSession, locked,
                   session, wpc, spc, cpc>>

(* The last packet of what was read: AsyncRead.                               *)
NoMorePackets ==
    /\ NetworkAt("packets")
    /\ reading' = IsOpen
    /\ npc' = "idle"
    /\ UNCHANGED <<listed, peer, flags, outgoing, writing, query, early, worldSession, locked,
                   session, wpc, spc, cpc>>

(* A packet that is malformed, unknown, or comes at the wrong time; a second  *)
(* CMSG_AUTH_SESSION too, when try_lock fails.                                *)
BadPacket ==
    /\ NetworkAt("packets")
    /\ CloseSocket("network")
    /\ npc' = "idle"
    /\ UNCHANGED <<listed, peer, shut, closing, outgoing, writing, incoming, wpc, spc>>

(* CMSG_AUTH_SESSION: until the answer comes the socket does not read.  It    *)
(* may come before the challenge it answers has been written.                 *)
HandleAuthSession ==
    /\ NetworkAt("packets")
    /\ session = "none"
    /\ query' = "auth"
    /\ early' = (wire = <<>>)
    /\ npc' = "idle"
    /\ UNCHANGED <<listed, peer, flags, outgoing, writing, reading, worldSession, locked,
                   session, wpc, spc, cpc>>

(* CMSG_AUTH_SESSION from a client that is _authed: try_lock succeeds ...     *)
LocksForDuplicate ==
    /\ NetworkAt("packets")
    /\ session # "none"
    /\ locked' = TRUE
    /\ npc' = "duplicate"
    /\ UNCHANGED <<listed, peer, flags, outgoing, writing, reading, query, early, worldSession,
                   session, wpc, spc, cpc>>

(* ... and the name of the session's player is logged.  Whether there still is*)
(* a session is not tested: a null one ends the process.                      *)
LogsDuplicate ==
    /\ NetworkAt("duplicate")
    /\ IF worldSession
       THEN /\ locked' = FALSE
            /\ CloseSocket("network")
            /\ npc' = "idle"
       ELSE /\ npc' = "crashed"
            /\ UNCHANGED <<locked, closed, cpc>>
    /\ UNCHANGED <<listed, peer, shut, closing, outgoing, writing, reading, query, early,
                   worldSession, session, wpc, spc>>

(* Any other packet, CMSG_PING and CMSG_KEEP_ALIVE among them: under          *)
(* _worldSessionLock the session is tested, and then used.                    *)
LocksSession ==
    /\ NetworkAt("packets")
    /\ locked' = TRUE
    /\ npc' = "locked"
    /\ UNCHANGED <<listed, peer, flags, outgoing, writing, reading, query, early, worldSession,
                   session, wpc, spc, cpc>>

FindsSession ==
    /\ NetworkAt("locked")
    /\ worldSession
    /\ npc' = "using"
    /\ UNCHANGED <<listed, peer, flags, outgoing, writing, incoming, wpc, spc, cpc>>

FindsNoSession ==
    /\ NetworkAt("locked")
    /\ ~worldSession
    /\ locked' = FALSE
    /\ CloseSocket("network")
    /\ npc' = "idle"
    /\ UNCHANGED <<listed, peer, shut, closing, outgoing, writing, reading, query, early,
                   worldSession, session, wpc, spc>>

(* QueuePacket, ResetTimeOutTime or SetLatency; a ping is answered afterwards.*)
UsesSession ==
    /\ NetworkAt("using")
    /\ locked' = FALSE
    /\ \/ UNCHANGED outgoing
       \/ MaySend /\ NetworkSends
    /\ npc' = "packets"
    /\ UNCHANGED <<listed, peer, flags, writing, reading, query, early, worldSession, session,
                   wpc, spc, cpc>>

----------------------------------------------------------------------------
(* The world thread and the map threads                                       *)

TickBegins ==
    /\ Up /\ wpc = "tick"
    /\ session = "listed"
    /\ wpc' = "session"
    /\ UNCHANGED <<listed, peer, flags, outgoing, writing, incoming, npc, spc, cpc>>

(* The end of WorldSession::Update: a socket that is not open is given up, and*)
(* the session deleted.                                                       *)
SessionUpdated ==
    /\ Up /\ wpc = "session" /\ Free("world")
    /\ IF IsOpen
       THEN wpc' = "maps" /\ UNCHANGED session
       ELSE wpc' = "tick" /\ session' = "deleted"
    /\ UNCHANGED <<listed, peer, flags, outgoing, writing, reading, query, early, worldSession,
                   locked, npc, spc, cpc>>

(* MapUpdater::wait: nobody is in a map any more.                             *)
MapsUpdated ==
    /\ Up /\ wpc = "maps" /\ \A m \in Maps : Free(m)
    /\ wpc' = "tick"
    /\ UNCHANGED <<listed, peer, flags, outgoing, writing, incoming, npc, spc, cpc>>

(* Whoever may touch the session at the moment.                               *)
Runs(t) == wpc = IF t = "world" THEN "session" ELSE "maps"

(* KickPlayer and a connection that has been idle for too long: CloseSocket.  *)
Kicks(t) ==
    /\ Up /\ Runs(t) /\ Free(t)
    /\ CloseSocket(t)
    /\ UNCHANGED <<listed, peer, shut, closing, outgoing, writing, incoming, npc, wpc, spc>>

Sends(t) == Up /\ Runs(t) /\ SendPacket(t)

(* The client leaves, or the connection breaks.                               *)
PeerGone ==
    /\ peer = "up"
    /\ peer' = "gone"
    /\ UNCHANGED <<listed, flags, outgoing, writing, incoming, threads>>

----------------------------------------------------------------------------

NetworkGoesOn ==
    \/ PacksPacket \/ NothingToPack \/ DropsClosed \/ TestsWrite \/ UpdateWrites
    \/ NoAnswer \/ Answers \/ AddSession
    \/ NoMorePackets \/ BadPacket \/ HandleAuthSession
    \/ LocksForDuplicate \/ LogsDuplicate
    \/ LocksSession \/ FindsSession \/ FindsNoSession \/ UsesSession
    \/ FinishesClose("network")

NetworkHandlers == AddNewSockets \/ UpdateBegins \/ WriteHandler \/ ReadFails \/ ReadHandler

GoesOn(t) == Up /\ (FinishesSend(t) \/ FinishesClose(t))

WorldGoesOn == TickBegins \/ SessionUpdated \/ MapsUpdated \/ \E t \in Senders : GoesOn(t)

Next ==
    \/ NetworkGoesOn \/ NetworkHandlers
    \/ WorldGoesOn
    \/ \E t \in Senders : Kicks(t) \/ Sends(t)
    \/ PeerGone

Spec == Init /\ [][Next]_vars

(* What was read at once holds finitely many packets, the database answers,   *)
(* and the operating system takes bytes or reports an error in the end.       *)
TakesBytes == (UpdateWrites \/ WriteHandler) /\ writeQueue' # writeQueue

FairSpec ==
    /\ Spec
    /\ WF_vars(NetworkGoesOn)
    /\ SF_vars(AddNewSockets) /\ SF_vars(UpdateBegins)
    /\ SF_vars(WriteHandler) /\ SF_vars(ReadFails)
    /\ SF_vars(NoMorePackets) /\ SF_vars(Answers) /\ SF_vars(TakesBytes)
    /\ WF_vars(TickBegins) /\ WF_vars(SessionUpdated) /\ WF_vars(MapsUpdated)
    /\ \A t \in Senders : WF_vars(GoesOn(t))

----------------------------------------------------------------------------
(* Properties                                                                 *)

(* The network thread does not use a session that the world thread has        *)
(* deleted: ReadDataHandler and HandlePing between test and unlock, and the   *)
(* log of a duplicate CMSG_AUTH_SESSION, where _worldSession is not null.     *)
SessionAlive ==
    npc = "using" \/ (npc = "duplicate" /\ worldSession) => session \in {"created", "listed"}

(* "locking just to safely log offending user", says ReadDataHandler of the   *)
(* lock it takes for a duplicate CMSG_AUTH_SESSION: under that lock there is a*)
(* session whose player can be logged.                                        *)
LogsSafely == npc = "duplicate" => worldSession

(* The client receives the packets in the order of their Enqueue, none twice; *)
(* while the connection is up and open none is lost on its way through the two*)
(* queues, buffers, gaps and partial writes.                                  *)
Numbers(n) == [i \in 1..n |-> i]
StreamIntact ==
    /\ wire = Numbers(Len(wire))
    /\ peer = "up" /\ ~shut =>
          wire \o FlattenSeq(writeQueue) \o buffer \o bufferQueue = Numbers(sent)

(* A client that is refused gets the answer before the connection is closed   *)
(* (DelayedCloseSocket: "Marks the socket for closing after write buffer      *)
(* becomes empty"), if it waited for the challenge.  One that sent its        *)
(* CMSG_AUTH_SESSION early may get less: the refusal is still in _bufferQueue *)
(* when WriteHandler has written the challenge, the last in _writeQueue, and  *)
(* closes.                                                                    *)
RefusalReachesClient ==
    closing /\ shut /\ peer = "up" /\ ~early => wire = Numbers(sent)

(* A connection that has broken, or is to be closed, is closed; the socket    *)
(* leaves the network thread and the session the world, while the process is  *)
(* up.                                                                        *)
ConnectionEnds ==
    peer = "gone" \/ closing \/ closed
        ~> (closed /\ listed = "removed" /\ session \in {"none", "deleted"}) \/ ~Up

(* What was enqueued is written, unless the connection ends before.           *)
EverythingWritten ==
    \A n \in 1..MaxSent : sent >= n ~> Len(wire) >= n \/ closed \/ ~Up
=============================================================================
