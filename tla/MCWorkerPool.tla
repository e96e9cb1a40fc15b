----------------------------- MODULE MCWorkerPool -----------------------------
(* WorkerPool on small instances. *)
EXTENDS WorkerPool, TLC

CONSTANTS g1, g2, g3, g4

MCGoroutines3 == {g1, g2, g3}
MCGoroutines4 == {g1, g2, g3, g4}
(* Resize's own clamps are exercised by arguments on both sides of them;   *)
(* the admin store only ever passes 1 to 16, here 1 to MaxWorkers.         *)
MCAnyTarget == {-1, 0, 1, 2, 3}
MCStoreTarget == {1, 2}

(* Goroutines are interchangeable; used by the run without liveness properties only. *)
Symmetry == Permutations(Goroutines)
=============================================================================
