------------------------- MODULE MCRateLimiterRefill -------------------------
(* One client and one goroutine, with a burst that ttl does not give back: the
   configuration file accepts such values (rps * ttl < burst), for which
   FullWhenEvicted does not hold.                                             *)
EXTENDS RateLimiter

CONSTANTS k1, t1, l1, l2

MCClients == {k1}
MCThreads == {t1}
MCLimiters == {l1, l2}
=============================================================================
