-------------------------- MODULE MCWorldSessions --------------------------
(* Two accounts: one connects up to three times, with the right to skip    *)
(* the queue at one of them, and has two characters; the other has none.   *)
EXTENDS WorldSessions

CONSTANTS acctA, acctB, a1, a2, a3, b1, x, y

TwoAccounts == {acctA, acctB}
FourSessions == {a1, a2, a3, b1}
AccountsOf == [s \in FourSessions |-> IF s = b1 THEN acctB ELSE acctA]
TwoCharacters == {x, y}
BothOfA == [z \in TwoCharacters |-> acctA]
Skippers == {a3}

Symmetry == Permutations({a1, a2}) \cup Permutations(TwoCharacters)
=============================================================================
