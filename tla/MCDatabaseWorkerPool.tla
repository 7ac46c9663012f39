------------------------ MODULE MCDatabaseWorkerPool ------------------------
(* DatabaseWorkerPool with two asynchronous connections.                   *)
EXTENDS DatabaseWorkerPool

CONSTANTS w1, w2, t1, t2, t3

TwoWorkers == {w1, w2}
TwoTasks == {t1, t2}
ThreeTasks == {t1, t2, t3}
OkOrError == {"ok", "error"}
Ok == {"ok"}
AnyResult == {"ok", "error", "incompatible"}
============================================================================
