--------------------------- MODULE MCRateLimiter ----------------------------
(* Two workers, one limiter and one client, on a quota of two requests.    *)
EXTENDS RateLimiter, TLC

Symmetry == Permutations(Workers)

=============================================================================
