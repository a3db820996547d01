---------------------------- MODULE MCWorkerPool ----------------------------
(* Two workers and a channel for one job.  Two jobs submit another one, so    *)
(* that the pool can jam, and two goroutines stop it.                         *)
EXTENDS WorkerPool, TLC

CONSTANTS w1, w2, j1, j2, j3, j4, j5, s1, s2

MCWorker == {w1, w2}
MCJob == {j1, j2, j3, j4, j5}
MCChild == (j1 :> j3) @@ (j2 :> j4) @@ [j \in {j3, j4, j5} |-> None]
MCStopper == {s1, s2}
=============================================================================
