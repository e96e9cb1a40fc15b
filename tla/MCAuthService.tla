---------------------------- MODULE MCAuthService ----------------------------
(* AuthService on small instances. *)
EXTENDS AuthService, TLC

CONSTANTS q1, q2

(* Request slots are interchangeable. *)
Symmetry == Permutations(Requests)
=============================================================================
