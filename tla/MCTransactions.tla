--------------------------- MODULE MCTransactions ---------------------------
(* Transactions on small pools.                                            *)
EXTENDS Transactions, TLC

CONSTANTS a1, a2, s1, t1, t2

TwoAsync == {a1, a2}
OneSynch == {s1}
NoConnection == {}
TwoTransactions == {t1, t2}
TwoAndOne == (t1 :> 2) @@ (t2 :> 1)
TwoAndTwo == (t1 :> 2) @@ (t2 :> 2)
============================================================================
