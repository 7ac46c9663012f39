----------------------------- MODULE TaskQueue -----------------------------
(***************************************************************************)
(* What the rest of the server expects of a pool of asynchronous database  *)
(* connections: tasks are begun in the order they were handed over, each   *)
(* at most once, and a pool that has closed gracefully has executed them   *)
(* all.  A pool that could not be opened drops what it has.                *)
(***************************************************************************)
EXTENDS Sequences

CONSTANT Tasks

VARIABLES
    waiting,            \* tasks handed over and not begun, oldest first
    running,            \* tasks being executed
    executed,           \* tasks executed
    closed              \* the pool has been closed

tqvars == <<waiting, running, executed, closed>>

Init ==
    /\ waiting = << >>
    /\ running = {}
    /\ executed = {}
    /\ closed = FALSE

Submit(t) ==
    /\ t \notin executed \cup running
    /\ ~closed
    /\ waiting' = Append(waiting, t)
    /\ UNCHANGED <<running, executed, closed>>

Begin ==
    /\ waiting # << >>
    /\ running' = running \cup {Head(waiting)}
    /\ waiting' = Tail(waiting)
    /\ UNCHANGED <<executed, closed>>

Finish(t) ==
    /\ t \in running
    /\ running' = running \ {t}
    /\ executed' = executed \cup {t}
    /\ UNCHANGED <<waiting, closed>>

Close ==
    /\ waiting = << >> /\ running = {}
    /\ closed' = TRUE
    /\ UNCHANGED <<waiting, running, executed>>

Next == Begin \/ Close \/ \E t \in Tasks : Submit(t) \/ Finish(t)

Spec == Init /\ [][Next]_tqvars
============================================================================
