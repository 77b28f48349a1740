---------------------------- MODULE MCRateLimiter ----------------------------
(* Two clients and two request goroutines over four limiter objects: one for each
   client and one for each goroutine that may hold an evicted one.             *)
EXTENDS RateLimiter, TLC

CONSTANTS k1, k2, t1, t2, l1, l2, l3, l4

MCClients == {k1, k2}
MCThreads == {t1, t2}
MCLimiters == {l1, l2, l3, l4}
MCSymmetry ==
  Permutations(MCClients) \cup Permutations(MCThreads) \cup Permutations(MCLimiters)

(* The configuration of the run refills a bucket before it can be evicted. *)
ASSUME FullWhenEvicted
=============================================================================
