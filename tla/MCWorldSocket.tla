--------------------------- MODULE MCWorldSocket ---------------------------
(* One connection, two map threads that send to its player.                   *)
EXTENDS WorldSocket

CONSTANTS ownMap, otherMap

TwoMaps == {ownMap, otherMap}
=============================================================================
