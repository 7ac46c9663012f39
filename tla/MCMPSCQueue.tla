---------------------------- MODULE MCMPSCQueue ----------------------------
(* Two producers beside the consumer, and fewer addresses than elements.      *)
EXTENDS MPSCQueue

CONSTANTS mapThread, worldThread, x1, x2, x3

TwoProducers == {mapThread, worldThread}
ThreeItems == {x1, x2, x3}
=============================================================================
