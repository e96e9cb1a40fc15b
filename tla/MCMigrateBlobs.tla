---------------------------- MODULE MCMigrateBlobs ----------------------------
(* MigrateBlobs on a small instance. *)
EXTENDS MigrateBlobs, TLC

CONSTANTS a, b, t1, t2, i1, i2, w1, w2

MCSize == (i1 :> 1) @@ (i2 :> 2)

Symmetry == Permutations(Paths) \cup Permutations(Temps)
              \cup Permutations(Workers)
=============================================================================
