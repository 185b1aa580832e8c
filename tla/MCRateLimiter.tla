--------------------------- MODULE MCRateLimiter ----------------------------
(***************************************************************************)
(* Model-checking instances of RateLimiter.                                *)
(***************************************************************************)
EXTENDS RateLimiter, TLC

\* Requests of one agent are interchangeable.
Symmetry == Permutations(Requests)

=============================================================================
