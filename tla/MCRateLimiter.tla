---------------------------- MODULE MCRateLimiter ----------------------------
(* RateLimiter on a small instance. *)
EXTENDS RateLimiter, TLC

CONSTANTS k1, k2, k3

(* Keys are interchangeable. *)
Symmetry == Permutations(Keys)
=============================================================================
