---------------------------- MODULE MCRateLimits ----------------------------
EXTENDS RateLimits, TLC

CONSTANTS u1, u2, u3, t1, t2, h1, h2

MCSymmetry == Permutations(Callers) \cup Permutations(Threads) \cup Permutations(Handlers)

=============================================================================
