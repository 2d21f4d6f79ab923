----------------------------- MODULE MCRateLimiter -----------------------------
(* Small instances of RateLimiter. *)
EXTENDS RateLimiter, TLC

\* Requests, and addresses, differ in their names only.
Symmetry == Permutations(Requests) \cup Permutations(Ips)
=============================================================================
