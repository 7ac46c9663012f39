------------------------------ MODULE MCTrade ------------------------------
(* Two players and their gold, and three players with two items.           *)
EXTENDS Trade, TLC

CONSTANTS ann, bob, eve, sword, gem, s1, s2

Two == {ann, bob}
Three == {ann, bob, eve}
OneItem == {sword}
BothItems == {sword, gem}
OneSlot == {s1}

RoomForOne == [p \in Two |-> 1]
SwordOfAnn == [p \in Two |-> IF p = ann THEN {sword} ELSE {}]
OneAndTwo == (ann :> 1) @@ (bob :> 2)

RoomOfThree == (ann :> 2) @@ (bob :> 1) @@ (eve :> 0)
ItemsOfThree == (ann :> {sword}) @@ (bob :> {gem}) @@ (eve :> {})
NoGold == [p \in Three |-> 0]
============================================================================
