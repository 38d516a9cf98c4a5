---------------------------- MODULE MCWorkerPool ----------------------------
(* Instances of WorkerPool for TLC.                                        *)
EXTENDS WorkerPool

MCConcurrency == [s \in Scripts |-> IF s = "identify" THEN 2 ELSE 1]
MCScriptOf == [b1 |-> "move", b2 |-> "identify"]
=============================================================================
