---------------------------- MODULE TickBarrier ----------------------------
(***************************************************************************)
(* What MapMgr::Update expects of its MapUpdater: within one world tick    *)
(* every job (the dungeon finder, a map, an instance of a map) runs at     *)
(* most once, jobs run concurrently, and the part of the tick that must    *)
(* have the maps for itself begins only when no job is running.            *)
(***************************************************************************)
CONSTANT Jobs           \* everything that can be updated in a tick

VARIABLES
    phase,              \* "updating", or "exclusive" to the world thread
    running,            \* the jobs a thread is updating
    done                \* the jobs already updated in this tick

tbvars == <<phase, running, done>>

Init ==
    /\ phase = "exclusive"
    /\ running = {}
    /\ done = {}

BeginTick ==
    /\ phase = "exclusive"
    /\ phase' = "updating"
    /\ done' = {}
    /\ UNCHANGED running

Start(j) ==
    /\ phase = "updating"
    /\ j \notin running \cup done
    /\ running' = running \cup {j}
    /\ UNCHANGED <<phase, done>>

Finish(j) ==
    /\ j \in running
    /\ running' = running \ {j}
    /\ done' = done \cup {j}
    /\ UNCHANGED phase

EndUpdates ==
    /\ phase = "updating"
    /\ running = {}
    /\ phase' = "exclusive"
    /\ UNCHANGED <<running, done>>

Next == BeginTick \/ EndUpdates \/ \E j \in Jobs : Start(j) \/ Finish(j)

Spec == Init /\ [][Next]_tbvars
============================================================================
