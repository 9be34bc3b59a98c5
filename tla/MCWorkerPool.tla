---------------------------- MODULE MCWorkerPool ----------------------------
(* Small instances of WorkerPool.                                          *)
EXTENDS WorkerPool

CONSTANTS d1, d2, w1, w2

TwoDeltas  == {d1, d2}
TwoWorkers == {w1, w2}
=============================================================================
