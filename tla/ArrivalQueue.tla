--------------------------- MODULE ArrivalQueue ----------------------------
(* What the users of MPSCQueue expect of it: elements are taken once each,    *)
(* in the order in which they arrived, whoever sent them.                     *)
EXTENDS Sequences

CONSTANT Items      \* the elements

VARIABLES
    queue,          \* what has arrived and has not been taken
    taken           \* what Dequeue has returned so far

vars == <<queue, taken>>

Init == queue = <<>> /\ taken = <<>>

Arrive ==
    \E x \in Items :
        /\ queue' = Append(queue, x)
        /\ UNCHANGED taken

Take ==
    /\ queue # <<>>
    /\ taken' = Append(taken, Head(queue))
    /\ queue' = Tail(queue)

Next == Arrive \/ Take

Spec == Init /\ [][Next]_vars
=============================================================================
