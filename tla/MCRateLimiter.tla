---------------------------- MODULE MCRateLimiter ----------------------------
(* RateLimiter for TLC: the configurations give the constants their values; *)
(* goroutines are interchangeable.                                          *)
EXTENDS RateLimiter, TLC

Goroutines == Permutations(Requests)
=============================================================================
