--------------------------- MODULE MCRecordPipeline ---------------------------
(* RecordPipeline on small instances. *)
EXTENDS RecordPipeline, TLC

CONSTANTS u1, u2, w1, w2, q1, q2

(* Used by the safety runs only. *)
Symmetry == Permutations(Workers) \cup Permutations(Requests) \cup Permutations(Users)
=============================================================================
