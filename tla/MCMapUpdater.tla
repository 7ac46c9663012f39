---------------------------- MODULE MCMapUpdater ----------------------------
(* MapUpdater on two workers, a continent and a dungeon with instances.    *)
EXTENDS MapUpdater, TLC

CONSTANTS w1, w2, continent, dungeon, i1, i2, null, lfg

TwoWorkers == {w1, w2}
AllMaps == {continent, dungeon}
TwoInstances == {i1, i2}
AllJobs == {continent, dungeon, i1, i2, lfg}
DungeonOf == [i \in TwoInstances |-> dungeon]
============================================================================
