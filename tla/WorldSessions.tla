---------------------------- MODULE WorldSessions ----------------------------
(***************************************************************************)
(* WorldSessionMgr: the sessions of the accounts that are connected, the   *)
(* login queue, and the sessions that outlive their connection for a while *)
(* so that a character cannot leave the world by pulling the plug; with    *)
(* the parts of WorldSession that decide who holds which character: login, *)
(* taking a character back from an offline session, logout, kick, and the  *)
(* end of the server.                                                      *)
(*                                                                         *)
(* UpdateSessions runs on the world thread, one loop after the other.      *)
(* Network threads connect and drop clients between any two of its steps;  *)
(* the answer to a query is there, or not yet, when the session looks.     *)
(***************************************************************************)
EXTENDS Naturals, FiniteSets, SequencesExt

CONSTANTS
    Accounts, Characters,
    Sessions,       \* addresses of WorldSession objects, used again and again
    AccountOf,      \* the account of a session
    OwnerOf,        \* the account of a character
    MaySkip,        \* sessions with security or with the right to skip
    Limit,          \* _playerLimit, zero for none
    Tolerance,      \* whether CONFIG_INTERVAL_DISCONNECT_TOLERANCE is set
    None

ASSUME SessionsAssumption ==
    /\ IsFiniteSet(Accounts)
    /\ AccountOf \in [Sessions -> Accounts]
    /\ OwnerOf \in [Characters -> Accounts]
    /\ MaySkip \subseteq Sessions
    /\ Limit \in Nat
    /\ Tolerance \in BOOLEAN
    /\ None \notin Sessions \cup Characters \cup Accounts

VARIABLES
    added,          \* _addSessQueue
    sessions,       \* _sessions
    waiting,        \* _queuedPlayer
    offline,        \* _offlineSessions
    dropped,        \* the keys of _disconnects
    alive,          \* the sessions that have been allocated and not deleted
    sess,           \* the members of each session
    world,          \* the characters that have a Player object
    pc,             \* where UpdateSessions is
    todo,           \* accounts the loop over _sessions has still to visit
    cur,            \* the account whose session is being updated
    stopped,        \* World::IsStopped
    kickedAll,      \* KickAll has been called; the last UpdateSessions is on
    entered         \* history: sessions admitted because there was room

mgrVars == <<added, sessions, waiting, offline, dropped>>
sessVars == <<alive, sess, world>>
loopVars == <<pc, todo, cur, stopped, kickedAll>>
vars == <<mgrVars, sessVars, loopVars, entered>>

(* The members a deleted session leaves behind; a new one starts with the  *)
(* same but for its socket.  "asked": InitializeSession has sent its query *)
(* and the callback has not run.  "listed": HandleCharEnum has filled      *)
(* _legitCharacters.  "loading": the character of the LoginQueryHolder     *)
(* while m_playerLoading.                                                  *)
Blank == [sock |-> "none", kicked |-> FALSE, inQueue |-> FALSE,
          asked |-> FALSE, listed |-> FALSE, player |-> None, loading |-> None]

SessionState ==
    [sock: {"none", "open", "closed"}, kicked: BOOLEAN, inQueue: BOOLEAN,
     asked: BOOLEAN, listed: BOOLEAN, player: Characters \cup {None},
     loading: Characters \cup {None}]

(* The accounts in todo have a session: the iterators are valid.           *)
(* "idle": between two calls of UpdateSessions; "add", "visit", "offline": *)
(* its three loops; "update", "callbacks": inside WorldSession::Update.    *)
TypeOK ==
    /\ added \in Seq(Sessions)
    /\ sessions \in [Accounts -> Sessions \cup {None}]
    /\ waiting \in Seq(Sessions)
    /\ offline \in [Accounts -> Sessions \cup {None}]
    /\ dropped \subseteq Accounts
    /\ alive \subseteq Sessions
    /\ sess \in [Sessions -> SessionState]
    /\ world \subseteq Characters
    /\ pc \in {"idle", "add", "visit", "update", "callbacks", "offline", "down"}
    /\ todo \subseteq {a \in Accounts : sessions[a] # None}
    /\ cur \in Accounts \cup {None}
    /\ stopped \in BOOLEAN
    /\ kickedAll \in BOOLEAN
    /\ entered \subseteq Sessions

Init ==
    /\ added = << >> /\ waiting = << >>
    /\ sessions = [a \in Accounts |-> None]
    /\ offline = [a \in Accounts |-> None]
    /\ dropped = {}
    /\ alive = {} /\ world = {} /\ entered = {}
    /\ sess = [s \in Sessions |-> Blank]
    /\ pc = "idle" /\ todo = {} /\ cur = None
    /\ stopped = FALSE /\ kickedAll = FALSE

----------------------------------------------------------------------------
(* The sessions in _sessions, and in _offlineSessions.                     *)
Listed == {sessions[a] : a \in Accounts} \ {None}
Lingering == {offline[a] : a \in Accounts} \ {None}

(* What happens to the members of sessions.                                *)

(* KickPlayer: the socket, if there is one, closes at once.                *)
Kicked(m, mark) ==
    [m EXCEPT !.sock = IF @ = "open" THEN "closed" ELSE @,
              !.kicked = @ \/ mark]

(* A session leaves the queue and gives up its socket.                     *)
Unplugged(m) == [m EXCEPT !.sock = "none", !.inQueue = FALSE]

(* InitializeSession.                                                      *)
Initialized(f, S) ==
    [s \in Sessions |-> IF s \in S THEN [f[s] EXCEPT !.asked = TRUE] ELSE f[s]]

Erased(f, S) == [s \in Sessions |-> IF s \in S THEN Blank ELSE f[s]]

(* Deletion of the sessions S, of which None is no one: ~WorldSession logs *)
(* the player out, and so saves it.                                        *)
Delete(S) ==
    /\ alive' = alive \ S
    /\ world' = world \ {sess[s].player : s \in S \ {None}}

(* HandleSocketClosed: the connection of a player is gone, who neither has *)
(* been kicked nor, which is left open here, is on a taxi or between two   *)
(* maps.                                                                   *)
MayLinger(m) ==
    m.sock = "closed" /\ ~m.kicked /\ m.player # None /\ ~stopped

----------------------------------------------------------------------------
(* RemoveQueuedPlayer: s leaves the queue, or is active and makes room for *)
(* the first in it.                                                        *)
Active == Cardinality({a \in Accounts : sessions[a] # None}) - Len(waiting)

IsQueued(s) == s \in ToSet(waiting)

Others(s) == RemoveFirst(waiting, s)

(* Variant: an active session that leaves is still counted.                *)
FirstInLate(s) ==
    IF (Limit = 0 \/ Active < Limit) /\ Others(s) # << >>
    THEN {Head(Others(s))} ELSE {}

(* The session, if any, that gets in when s leaves.                        *)
FirstIn(s) ==
    LET left == IF IsQueued(s) THEN Active ELSE Active - 1
    IN  IF (Limit = 0 \/ left < Limit) /\ Others(s) # << >>
        THEN {Head(Others(s))} ELSE {}

(* Variant: the session that leaves stays in the queue.                    *)
QueueKept(s) == waiting

QueueWithout(s) == IF FirstIn(s) = {} THEN Others(s) ELSE Tail(Others(s))

(* The account is remembered if s was active.                              *)
Remembered(s) == IF Tolerance /\ ~IsQueued(s) THEN {AccountOf[s]} ELSE {}

----------------------------------------------------------------------------
(* The network threads: HandleAuthSession ends in AddSession, and a client *)
(* may hang up at any time.                                                *)
Connect(s) ==
    /\ pc # "down"
    /\ s \notin alive
    /\ alive' = alive \cup {s}
    /\ sess' = [sess EXCEPT ![s] = [Blank EXCEPT !.sock = "open"]]
    /\ added' = Append(added, s)
    /\ UNCHANGED <<sessions, waiting, offline, dropped, world, loopVars,
                   entered>>

HangUp(s) ==
    /\ pc # "down"
    /\ s \in alive /\ sess[s].sock = "open"
    /\ sess' = [sess EXCEPT ![s].sock = "closed"]
    /\ UNCHANGED <<mgrVars, alive, world, loopVars, entered>>

(* KickPlayer by a map thread, by a handler of another session, or by a    *)
(* ban, which looks among the offline sessions too.  For an account with   *)
(* no characters it would be the same as HangUp.                           *)
Kick(s) ==
    /\ pc \in {"idle", "update"}
    /\ AccountOf[s] \in Range(OwnerOf)
    /\ s \in Listed \cup Lingering
    /\ sess' = [sess EXCEPT ![s] = Kicked(@, TRUE)]
    /\ UNCHANGED <<mgrVars, alive, world, loopVars, entered>>

----------------------------------------------------------------------------
(* UpdateSessions, first loop: AddSession_.                                *)
BeginUpdate ==
    /\ pc = "idle" /\ ~stopped
    /\ pc' = "add"
    /\ UNCHANGED <<mgrVars, sessVars, todo, cur, stopped, kickedAll, entered>>

(* KickSession fails while a character is being loaded: the new session    *)
(* has to go.                                                              *)
AddRefused ==
    /\ pc = "add" /\ added # << >>
    /\ LET s == Head(added)
           old == sessions[AccountOf[s]]
       IN  /\ old # None /\ sess[old].loading # None
           /\ Delete({s})
           /\ sess' = Erased(sess, {s})
    /\ added' = Tail(added)
    /\ UNCHANGED <<sessions, waiting, offline, dropped, loopVars, entered>>

(* Variant: one session too many gets in.                                  *)
FullLate(s) ==
    LET others == {a \in Accounts \ {AccountOf[s]} : sessions[a] # None}
    IN  Limit > 0 /\ Cardinality(others) > Limit

Full(s) ==
    LET others == {a \in Accounts \ {AccountOf[s]} : sessions[a] # None}
    IN  Limit > 0 /\ Cardinality(others) >= Limit

(* Variant: AddQueuedPlayer does not mark the session.                     *)
WaitUnmarked(s, f, queue, recent) ==
    /\ sessions' = [sessions EXCEPT ![AccountOf[s]] = s]
    /\ IF Full(s) /\ s \notin MaySkip /\ ~recent
       THEN /\ waiting' = Append(queue, s)
            /\ sess' = f
       ELSE /\ waiting' = queue
            /\ sess' = Initialized(f, {s})

(* The end of AddSession_, with the queue and the members as the departure *)
(* of an old session has left them.  "recent" is HasRecentlyDisconnected,  *)
(* which forgets those who have been away for too long.                    *)
EnterOrWait(s, f, queue, recent) ==
    /\ sessions' = [sessions EXCEPT ![AccountOf[s]] = s]
    /\ IF Full(s) /\ s \notin MaySkip /\ ~recent
       THEN /\ waiting' = Append(queue, s)
            /\ sess' = [f EXCEPT ![s].inQueue = TRUE]
       ELSE /\ waiting' = queue
            /\ sess' = Initialized(f, {s})

AddFirst(recent) ==
    /\ pc = "add" /\ added # << >>
    /\ LET s == Head(added)
           a == AccountOf[s]
       IN  /\ sessions[a] = None
           /\ recent => a \in dropped
           /\ EnterOrWait(s, sess, waiting, recent)
           /\ dropped' = IF recent THEN dropped ELSE dropped \ {a}
           /\ entered' = IF Full(s) THEN entered ELSE entered \cup {s}
    /\ added' = Tail(added)
    /\ UNCHANGED <<offline, alive, world, loopVars>>

(* A new session of an account that has one: the old one is kicked, leaves *)
(* the queue or its place, and goes offline or is deleted.                 *)
AddReplacing(recent, linger) ==
    /\ pc = "add" /\ added # << >>
    /\ LET s == Head(added)
           a == AccountOf[s]
           old == sessions[a]
           gone == IF linger THEN {offline[a]} ELSE {old}
           f == [sess EXCEPT ![old] = Kicked(@, FALSE)]
           g == Erased([f EXCEPT ![old] = Unplugged(@)], gone \ {None})
       IN  /\ old # None /\ sess[old].loading = None
           /\ linger => MayLinger(f[old])
           /\ recent => a \in dropped \cup Remembered(old)
           /\ Remembered(old) # {} => recent
           /\ EnterOrWait(s, Initialized(g, FirstIn(old)), QueueWithout(old),
                          recent)
           /\ offline' = IF linger THEN [offline EXCEPT ![a] = old] ELSE offline
           /\ dropped' = IF recent THEN dropped \cup {a} ELSE dropped \ {a}
           /\ Delete(gone)
           /\ entered' = (entered \cup FirstIn(old)
                            \cup (IF Full(s) THEN {} ELSE {s}))
                          \ (gone \cup {old})
    /\ added' = Tail(added)
    /\ UNCHANGED loopVars

AddDone ==
    /\ pc = "add" /\ added = << >>
    /\ pc' = "visit"
    /\ todo' = {a \in Accounts : sessions[a] # None}
    /\ UNCHANGED <<mgrVars, sessVars, cur, stopped, kickedAll, entered>>

----------------------------------------------------------------------------
(* UpdateSessions, second loop.                                            *)

(* A session whose connection is gone stays for its player's sake; one     *)
(* that is already offline for the account has to go.                      *)
VisitLingering(a) ==
    /\ pc = "visit" /\ a \in todo
    /\ LET s == sessions[a]
           gone == {offline[a]}
           f == [sess EXCEPT ![s] = Unplugged(@)]
       IN  /\ MayLinger(sess[s])
           /\ waiting' = QueueWithout(s)
           /\ dropped' = dropped \cup Remembered(s)
           /\ sess' = Initialized(Erased(f, gone \ {None}), FirstIn(s))
           /\ Delete(gone)
           /\ offline' = [offline EXCEPT ![a] = s]
           /\ entered' = (entered \cup FirstIn(s)) \ {s}
    /\ sessions' = [sessions EXCEPT ![a] = None]
    /\ todo' = todo \ {a}
    /\ UNCHANGED <<added, pc, cur, stopped, kickedAll>>

Visit(a) ==
    /\ pc = "visit" /\ a \in todo
    /\ todo' = todo \ {a}
    /\ cur' = a
    /\ pc' = "update"
    /\ UNCHANGED <<mgrVars, sessVars, stopped, kickedAll, entered>>

----------------------------------------------------------------------------
(* WorldSession::Update of the current session.                            *)
Current == sessions[cur]

(* CMSG_PLAYER_LOGIN for c is handled: the session is not in the queue and *)
(* c is one of the characters that have been listed for it.                *)
MayLogin(c) ==
    /\ pc = "update" /\ OwnerOf[c] = cur
    /\ sess[Current].listed /\ ~sess[Current].inQueue

(* Another client logging in.                                              *)
LoginAgain(c) ==
    /\ MayLogin(c)
    /\ sess[Current].loading # None \/ sess[Current].player # None
    /\ sess' = [sess EXCEPT ![Current] = Kicked(@, TRUE)]
    /\ UNCHANGED <<mgrVars, alive, world, loopVars, entered>>

Idle(s) == sess[s].loading = None /\ sess[s].player = None

(* Variant: the offline session keeps the player as well.                  *)
TakeBackShared(c) ==
    /\ MayLogin(c) /\ Idle(Current)
    /\ LET off == offline[cur]
       IN  /\ off # None /\ sess[off].player = c /\ ~sess[off].kicked
           /\ sess' = [sess EXCEPT ![Current].player = c]
    /\ UNCHANGED <<mgrVars, alive, world, loopVars, entered>>

(* c is still in the world: the session takes it from the offline one.     *)
TakeBack(c) ==
    /\ MayLogin(c) /\ Idle(Current)
    /\ LET off == offline[cur]
       IN  /\ off # None /\ sess[off].player = c /\ ~sess[off].kicked
           /\ sess' = [sess EXCEPT ![off].player = None,
                                   ![Current].player = c]
    /\ UNCHANGED <<mgrVars, alive, world, loopVars, entered>>

(* c is loaded from the database, unless the account has an offline        *)
(* session on its way out, in which case the login fails and nothing       *)
(* changes; with another character in that session, it is kicked first.    *)
Load(c) ==
    /\ MayLogin(c) /\ Idle(Current)
    /\ LET off == offline[cur]
           f == [sess EXCEPT ![Current].loading = c]
       IN  \/ /\ off = None
              /\ sess' = f
           \/ /\ off # None
              /\ sess[off].player \notin {None, c} /\ ~sess[off].kicked
              /\ sess' = [f EXCEPT ![off] = Kicked(@, TRUE)]
    /\ UNCHANGED <<mgrVars, alive, world, loopVars, entered>>

PacketsDone ==
    /\ pc = "update"
    /\ pc' = "callbacks"
    /\ UNCHANGED <<mgrVars, sessVars, todo, cur, stopped, kickedAll, entered>>

(* InitializeSessionCallback.                                              *)
InitializeSessionCallback ==
    /\ pc = "callbacks" /\ sess[Current].asked
    /\ sess' = [sess EXCEPT ![Current].asked = FALSE,
                            ![Current].inQueue = FALSE]
    /\ UNCHANGED <<mgrVars, alive, world, loopVars, entered>>

(* The answer to CMSG_CHAR_ENUM, which is not handled for a session in the *)
(* queue either.                                                           *)
HandleCharEnum ==
    /\ pc = "callbacks"
    /\ ~sess[Current].listed /\ ~sess[Current].inQueue
    /\ cur \in Range(OwnerOf)
    /\ sess' = [sess EXCEPT ![Current].listed = TRUE]
    /\ UNCHANGED <<mgrVars, alive, world, loopVars, entered>>

(* HandlePlayerLoginFromDB: the character enters the world, or LoadFromDB  *)
(* fails and the session is kicked.                                        *)
LoginFromDB ==
    /\ pc = "callbacks" /\ sess[Current].loading # None
    /\ LET c == sess[Current].loading
           f == [sess EXCEPT ![Current].loading = None]
       IN  \/ /\ sess' = [f EXCEPT ![Current].player = c]
              /\ world' = world \cup {c}
           \/ /\ sess' = [f EXCEPT ![Current] = Kicked(@, TRUE)]
              /\ UNCHANGED world
    /\ UNCHANGED <<mgrVars, alive, loopVars, entered>>

(* LogoutPlayer, asked for by the player, at once or after 20 seconds.     *)
Logout ==
    /\ pc \in {"update", "callbacks"}
    /\ sess[Current].player # None
    /\ world' = world \ {sess[Current].player}
    /\ sess' = [sess EXCEPT ![Current].player = None]
    /\ UNCHANGED <<mgrVars, alive, loopVars, entered>>

(* Update has found the socket open ...                                    *)
UpdateReturnsTrue ==
    /\ pc = "callbacks" /\ sess[Current].sock = "open"
    /\ pc' = "visit" /\ cur' = None
    /\ UNCHANGED <<mgrVars, sessVars, todo, stopped, kickedAll, entered>>

(* ... or closed: the session is removed and deleted.                      *)
UpdateReturnsFalse ==
    /\ pc = "callbacks" /\ sess[Current].sock = "closed"
    /\ waiting' = QueueWithout(Current)
    /\ dropped' = dropped \cup Remembered(Current)
    /\ sess' = Initialized(Erased(sess, {Current}), FirstIn(Current))
    /\ Delete({Current})
    /\ entered' = (entered \cup FirstIn(Current)) \ {Current}
    /\ sessions' = [sessions EXCEPT ![cur] = None]
    /\ pc' = "visit" /\ cur' = None
    /\ UNCHANGED <<added, offline, todo, stopped, kickedAll>>

VisitsDone ==
    /\ pc = "visit" /\ todo = {}
    /\ pc' = "offline"
    /\ UNCHANGED <<mgrVars, sessVars, todo, cur, stopped, kickedAll, entered>>

----------------------------------------------------------------------------
(* UpdateSessions, third loop: sessions without a player, those kicked,    *)
(* and those "late", offline for more than 60 seconds.                     *)

(* Variant: only the time counts.                                          *)
ExpireLate(late) ==
    /\ pc = "offline"
    /\ LET over == {a \in Accounts : offline[a] # None /\ a \in late}
           gone == {offline[a] : a \in over}
       IN  /\ offline' = [a \in Accounts |->
                            IF a \in over THEN None ELSE offline[a]]
           /\ sess' = Erased(sess, gone)
           /\ Delete(gone)
           /\ entered' = entered \ gone
    /\ pc' = IF kickedAll THEN "down" ELSE "idle"
    /\ UNCHANGED <<added, sessions, waiting, dropped, todo, cur, stopped,
                   kickedAll>>

Expire(late) ==
    /\ pc = "offline"
    /\ LET over == {a \in Accounts : /\ offline[a] # None
                                     /\ \/ a \in late
                                        \/ sess[offline[a]].player = None
                                        \/ sess[offline[a]].kicked}
           gone == {offline[a] : a \in over}
       IN  /\ offline' = [a \in Accounts |->
                            IF a \in over THEN None ELSE offline[a]]
           /\ sess' = Erased(sess, gone)
           /\ Delete(gone)
           /\ entered' = entered \ gone
    /\ pc' = IF kickedAll THEN "down" ELSE "idle"
    /\ UNCHANGED <<added, sessions, waiting, dropped, todo, cur, stopped,
                   kickedAll>>

----------------------------------------------------------------------------
(* The end of the server.                                                  *)
StopNow ==
    /\ ~stopped
    /\ stopped' = TRUE
    /\ UNCHANGED <<mgrVars, sessVars, pc, todo, cur, kickedAll, entered>>

(* Variant: the offline sessions are forgotten.                            *)
KickAllOnline ==
    /\ pc = "idle" /\ stopped
    /\ waiting' = << >>
    /\ sess' = [s \in Sessions |-> IF s \in {sessions[a] : a \in Accounts}
                                   THEN Kicked(sess[s], TRUE) ELSE sess[s]]
    /\ kickedAll' = TRUE
    /\ pc' = "add"
    /\ UNCHANGED <<added, sessions, offline, dropped, alive, world, todo, cur,
                   stopped, entered>>

(* The world loop has ended: KickAll, then UpdateSessions once more.       *)
KickAll ==
    /\ pc = "idle" /\ stopped
    /\ waiting' = << >>
    /\ LET all == {sessions[a] : a \in Accounts} \cup
                  {offline[a] : a \in Accounts}
       IN  sess' = [s \in Sessions |-> IF s \in all THEN Kicked(sess[s], TRUE)
                                       ELSE sess[s]]
    /\ kickedAll' = TRUE
    /\ pc' = "add"
    /\ UNCHANGED <<added, sessions, offline, dropped, alive, world, todo, cur,
                   stopped, entered>>

(* StopNetwork and the end of the process.                                 *)
Terminated == pc = "down" /\ UNCHANGED vars

----------------------------------------------------------------------------
AddSession_ ==
    \/ AddRefused
    \/ \E recent \in BOOLEAN : AddFirst(recent)
    \/ \E recent, linger \in BOOLEAN : AddReplacing(recent, linger)

Packet ==
    \E c \in Characters : LoginAgain(c) \/ TakeBack(c) \/ Load(c)

Callback == InitializeSessionCallback \/ HandleCharEnum \/ LoginFromDB

UpdateReturns == UpdateReturnsTrue \/ UpdateReturnsFalse

UpdateSessions ==
    \/ BeginUpdate \/ AddSession_ \/ AddDone
    \/ \E a \in Accounts : VisitLingering(a) \/ Visit(a)
    \/ PacketsDone \/ UpdateReturns \/ VisitsDone
    \/ \E late \in SUBSET Accounts : Expire(late)

Network == \E s \in Sessions : Connect(s) \/ HangUp(s)

Next ==
    \/ UpdateSessions \/ Packet \/ Callback \/ Logout
    \/ Network
    \/ \E s \in Sessions : Kick(s)
    \/ StopNow \/ KickAll \/ Terminated

Spec == Init /\ [][Next]_vars
----------------------------------------------------------------------------
(* Properties.                                                             *)

(* No list keeps a pointer to a session that has been deleted, and none    *)
(* that has not been deleted is lost: every session is in one place, new,  *)
(* listed or offline, and those in the login queue are listed, once.       *)
EverySessionInOnePlace ==
    /\ alive = ToSet(added) \cup Listed \cup Lingering
    /\ Listed \cap Lingering = {}
    /\ ToSet(added) \cap (Listed \cup Lingering) = {}
    /\ IsInjective(added) /\ IsInjective(waiting)
    /\ ToSet(waiting) \subseteq Listed

(* A character is in the world through exactly one session, and is never   *)
(* read from the database while it is there: two Player objects of one     *)
(* character would double what it owns.                                    *)
OnePlayerPerCharacter ==
    /\ \A c \in Characters :
         Cardinality({s \in alive : sess[s].player = c \/ sess[s].loading = c})
           <= 1
    /\ \A c \in world : \E s \in alive : sess[s].player = c
    /\ \A s \in alive : sess[s].player # None => sess[s].player \in world

(* Nobody waits while there is room.                                       *)
QueueMeansFull == waiting # << >> => Active >= Limit /\ Limit > 0

(* Sessions that may not skip the queue are within the limit, but for      *)
(* those whom the tolerance for lost connections lets in.                  *)
LimitRespected == Limit > 0 => Cardinality(entered) <= Limit

(* A session that waits has no character and is not loading one.           *)
QueuedCannotPlay == \A s \in ToSet(waiting) : Idle(s)

(* "There should be no offline session if current one is logged onto a     *)
(* character": one that loses its connection never pushes another out.     *)
NoneOfflineBesidePlayer ==
    \A a \in Accounts :
        /\ pc \in {"add", "visit"} /\ (pc = "visit" => a \in todo)
        /\ sessions[a] # None /\ offline[a] # None
        => sess[sessions[a]].player = None

(* When the last UpdateSessions has returned, and the databases are going  *)
(* to be closed, every player has been logged out, which saves it.         *)
StoppedMeansSaved == pc = "down" => world = {}
============================================================================
