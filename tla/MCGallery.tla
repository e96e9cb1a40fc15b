------------------------------ MODULE MCGallery -------------------------------
(* Gallery on a small instance. *)
EXTENDS Gallery, TLC

CONSTANTS u1, u2, r1, r2, p1, p2, q1, q2

Symmetry == Permutations(Users) \cup Permutations(Records)
              \cup Permutations(Projects) \cup Permutations(Requests)
=============================================================================
