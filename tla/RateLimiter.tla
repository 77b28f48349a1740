---------------------------- MODULE RateLimiter ----------------------------
(* internal/api/middleware.go: RateLimiter, a table of token buckets that a
   cleanup goroutine empties of the clients it has not seen for ttl.

   Request goroutines (Threads) look their client's *rate.Limiter up under the
   mutex (getLimiter) and call Allow on it after the mutex is released, so the
   object they hold may meanwhile have left the table.  The cleanup goroutine
   reads its cutoff before it takes the mutex.  golang.org/x/time/rate is
   external: a limiter starts with Burst tokens, gains Rate per tick up to Burst,
   and Allow takes one if there is one.

   Time is relative: idle[k] is the number of ticks since seen[k], and so on.
   A goroutine that can run does so within Stall ticks.                       *)
EXTENDS Integers

CONSTANTS
  Clients,    \* rate limit keys (client IP addresses)
  Threads,    \* request goroutines
  Limiters,   \* *rate.Limiter objects
  Rate,       \* rate_limit.rps, in tokens per tick
  Burst,      \* rate_limit.burst
  Ttl,        \* rate_limit.ttl, in ticks
  Stall,      \* the longest a runnable goroutine waits, in ticks
  Window,     \* the longest window an observer measures, in ticks
  NoClient, NoLimiter,
  Unseen      \* the time of a client that has no entry in seen

ASSUME RatesAssumption ==
  /\ Rate \in Nat \ {0} /\ Burst \in Nat \ {0} /\ Ttl \in Nat \ {0}
  /\ Stall \in Nat /\ Window \in Nat
ASSUME NullsAssumption ==
  NoClient \notin Clients /\ NoLimiter \notin Limiters /\ Unseen \notin Int

VARIABLES
  limiters,  \* RateLimiter.limiters: client -> limiter, NoLimiter when absent
  idle,      \* idle[k]: ticks since RateLimiter.seen[k], Unseen when absent
  tokens,    \* tokens[l]: what the limiter object l holds
  client,    \* client[t]: the key of the request t serves, or NoClient
  held,      \* held[t]: the limiter getLimiter gave to t, NoLimiter after Allow
  stalled,   \* stalled[t]: ticks t has held it
  outcome,   \* outcome[t]: "admitted" or "refused" once Allow has answered
  sweeper,   \* cleanup goroutine: "sleeping", "sweeping" or "stopped"
  alarm,     \* ticks until its ticker fires
  lag,       \* ticks since it read its cutoff
  audit      \* an observer: [client, ticks, admitted] of a window of time

limiterVars == <<limiters, idle, tokens, client, held, stalled, outcome, sweeper,
                 alarm, lag, audit>>

Longest == 2 * Ttl + Stall + 1   \* ages beyond this one are not told apart
Older(n) == IF n = Unseen \/ n = Longest THEN n ELSE n + 1
-----------------------------------------------------------------------------
Init ==
  /\ limiters = [k \in Clients |-> NoLimiter]
  /\ idle = [k \in Clients |-> Unseen]
  /\ tokens = [l \in Limiters |-> Burst]
  /\ client = [t \in Threads |-> NoClient]
  /\ held = [t \in Threads |-> NoLimiter]
  /\ stalled = [t \in Threads |-> 0]
  /\ outcome = [t \in Threads |-> "none"]
  /\ sweeper = "sleeping" /\ alarm = Ttl /\ lag = 0
  /\ audit = [client |-> NoClient, ticks |-> 0, admitted |-> 0]

(* Limiter objects nobody refers to: what rate.NewLimiter can allocate. *)
Fresh == {l \in Limiters : /\ \A k \in Clients : limiters[k] # l
                           /\ \A t \in Threads : held[t] # l}

(* Mutant: seen is written only when the limiter is created. *)
GetLimiterSeenOnce(t, k) ==
  /\ client[t] = NoClient
  /\ client' = [client EXCEPT ![t] = k]
  /\ \/ /\ limiters[k] # NoLimiter
        /\ held' = [held EXCEPT ![t] = limiters[k]]
        /\ UNCHANGED <<limiters, tokens, idle>>
     \/ /\ limiters[k] = NoLimiter
        /\ \E l \in Fresh : /\ limiters' = [limiters EXCEPT ![k] = l]
                            /\ tokens' = [tokens EXCEPT ![l] = Burst]
                            /\ held' = [held EXCEPT ![t] = l]
        /\ idle' = [idle EXCEPT ![k] = 0]
  /\ stalled' = [stalled EXCEPT ![t] = 0]
  /\ UNCHANGED <<outcome, sweeper, alarm, lag, audit>>

(* Mutant: the table is not consulted, every request gets a new limiter. *)
GetNewLimiter(t, k) ==
  /\ client[t] = NoClient
  /\ client' = [client EXCEPT ![t] = k]
  /\ \E l \in Fresh : /\ limiters' = [limiters EXCEPT ![k] = l]
                      /\ tokens' = [tokens EXCEPT ![l] = Burst]
                      /\ held' = [held EXCEPT ![t] = l]
  /\ idle' = [idle EXCEPT ![k] = 0]
  /\ stalled' = [stalled EXCEPT ![t] = 0]
  /\ UNCHANGED <<outcome, sweeper, alarm, lag, audit>>

(* getLimiter, in one critical section; a request for k arrives at thread t. *)
GetLimiter(t, k) ==
  /\ client[t] = NoClient
  /\ client' = [client EXCEPT ![t] = k]
  /\ \/ /\ limiters[k] # NoLimiter
        /\ held' = [held EXCEPT ![t] = limiters[k]]
        /\ UNCHANGED <<limiters, tokens>>
     \/ /\ limiters[k] = NoLimiter
        /\ \E l \in Fresh : /\ limiters' = [limiters EXCEPT ![k] = l]
                            /\ tokens' = [tokens EXCEPT ![l] = Burst]
                            /\ held' = [held EXCEPT ![t] = l]
  /\ idle' = [idle EXCEPT ![k] = 0]
  /\ stalled' = [stalled EXCEPT ![t] = 0]
  /\ UNCHANGED <<outcome, sweeper, alarm, lag, audit>>

(* The observer counts what is admitted to the client it watches. *)
Audited(t) ==
  IF client[t] = audit.client THEN [audit EXCEPT !.admitted = @ + 1] ELSE audit

(* Mutant: Reserve in place of Allow, which lends tokens the bucket has not. *)
Reserve(t) ==
  /\ held[t] # NoLimiter
  /\ tokens' = [tokens EXCEPT ![held[t]] = @ - 1]
  /\ outcome' = [outcome EXCEPT ![t] = "admitted"]
  /\ audit' = Audited(t)
  /\ held' = [held EXCEPT ![t] = NoLimiter]
  /\ stalled' = [stalled EXCEPT ![t] = 0]
  /\ UNCHANGED <<limiters, idle, client, sweeper, alarm, lag>>

(* Allow on the held limiter: the request goes on to the handler, or gets 429. *)
Allow(t) ==
  /\ held[t] # NoLimiter
  /\ \/ /\ tokens[held[t]] > 0
        /\ tokens' = [tokens EXCEPT ![held[t]] = @ - 1]
        /\ outcome' = [outcome EXCEPT ![t] = "admitted"]
        /\ audit' = Audited(t)
     \/ /\ tokens[held[t]] = 0
        /\ outcome' = [outcome EXCEPT ![t] = "refused"]
        /\ UNCHANGED <<tokens, audit>>
  /\ held' = [held EXCEPT ![t] = NoLimiter]
  /\ stalled' = [stalled EXCEPT ![t] = 0]
  /\ UNCHANGED <<limiters, idle, client, sweeper, alarm, lag>>

(* The request is over; the goroutine serves another one. *)
Finish(t) ==
  /\ outcome[t] # "none"
  /\ client' = [client EXCEPT ![t] = NoClient]
  /\ outcome' = [outcome EXCEPT ![t] = "none"]
  /\ UNCHANGED <<limiters, idle, tokens, held, stalled, sweeper, alarm, lag, audit>>
-----------------------------------------------------------------------------
(* cleanupLoop: the ticker has fired; cutoff := time.Now().Add(-ttl). *)
ReadCutoff ==
  /\ sweeper = "sleeping" /\ alarm = 0
  /\ sweeper' = "sweeping"
  /\ alarm' = Ttl /\ lag' = 0
  /\ UNCHANGED <<limiters, idle, tokens, client, held, stalled, outcome, audit>>

(* Mutant: the cutoff is time.Now(), without ttl. *)
StaleAtOnce(k) == idle[k] # Unseen /\ idle[k] > lag

(* seen[k].Before(cutoff), with a cutoff read lag ticks ago. *)
Stale(k) == idle[k] # Unseen /\ idle[k] > Ttl + lag

(* Mutant: the entry is deleted from seen but not from limiters. *)
SweepSeenOnly ==
  /\ sweeper = "sweeping"
  /\ idle' = [k \in Clients |-> IF Stale(k) THEN Unseen ELSE idle[k]]
  /\ sweeper' = "sleeping" /\ lag' = 0
  /\ UNCHANGED <<limiters, tokens, client, held, stalled, outcome, alarm, audit>>

(* The critical section of cleanupLoop. *)
Sweep ==
  /\ sweeper = "sweeping"
  /\ limiters' = [k \in Clients |-> IF Stale(k) THEN NoLimiter ELSE limiters[k]]
  /\ idle' = [k \in Clients |-> IF Stale(k) THEN Unseen ELSE idle[k]]
  /\ sweeper' = "sleeping" /\ lag' = 0
  /\ UNCHANGED <<tokens, client, held, stalled, outcome, alarm, audit>>

(* RateLimiter.Close ends the cleanup goroutine when it next waits. *)
Close ==
  /\ sweeper = "sleeping"
  /\ sweeper' = "stopped" /\ alarm' = 0
  /\ UNCHANGED <<limiters, idle, tokens, client, held, stalled, outcome, lag, audit>>
-----------------------------------------------------------------------------
(* The observer closes its window and opens one on some client, at any moment. *)
Watch ==
  /\ \E k \in Clients : audit' = [client |-> k, ticks |-> 0, admitted |-> 0]
  /\ UNCHANGED <<limiters, idle, tokens, client, held, stalled, outcome, sweeper, alarm, lag>>

(* Runnable goroutines are not kept waiting for more than Stall ticks. *)
OnTime ==
  /\ \A t \in Threads : held[t] # NoLimiter => stalled[t] < Stall
  /\ sweeper = "sleeping" => alarm > 0
  /\ sweeper = "sweeping" => lag < Stall
  /\ audit.ticks < Window

Refilled(n) == IF n + Rate > Burst THEN Burst ELSE n + Rate

Tick ==
  /\ OnTime
  /\ idle' = [k \in Clients |-> Older(idle[k])]
  /\ tokens' = [l \in Limiters |-> Refilled(tokens[l])]
  /\ stalled' = [t \in Threads |-> IF held[t] # NoLimiter THEN stalled[t] + 1 ELSE 0]
  /\ alarm' = IF alarm > 0 THEN alarm - 1 ELSE 0
  /\ lag' = IF sweeper = "sweeping" THEN lag + 1 ELSE 0
  /\ audit' = IF audit.client # NoClient THEN [audit EXCEPT !.ticks = @ + 1] ELSE audit
  /\ UNCHANGED <<limiters, client, held, outcome, sweeper>>

Next ==
  \/ \E t \in Threads : \/ \E k \in Clients : GetLimiter(t, k)
                        \/ Allow(t) \/ Finish(t)
  \/ ReadCutoff \/ Sweep \/ Close
  \/ Watch \/ Tick

Spec == Init /\ [][Next]_limiterVars
-----------------------------------------------------------------------------
(* Type invariant. *)
TypeOK ==
  /\ limiters \in [Clients -> Limiters \cup {NoLimiter}]
  /\ idle \in [Clients -> 0 .. Longest \cup {Unseen}]
  /\ tokens \in [Limiters -> 0 .. Burst]
  /\ client \in [Threads -> Clients \cup {NoClient}]
  /\ held \in [Threads -> Limiters \cup {NoLimiter}]
  /\ stalled \in [Threads -> 0 .. Stall]
  /\ outcome \in [Threads -> {"none", "admitted", "refused"}]
  /\ \A t \in Threads : client[t] = NoClient <=> held[t] = NoLimiter /\ outcome[t] = "none"
  /\ sweeper \in {"sleeping", "sweeping", "stopped"}
  /\ alarm \in 0 .. Ttl /\ lag \in 0 .. Stall
  /\ audit \in [client : Clients \cup {NoClient}, ticks : 0 .. Window, admitted : Nat]

(* Allow is always asked of the limiter the table has for the client: no sweep
   between getLimiter and Allow leaves a request with a bucket of its own.     *)
NoOrphans == \A t \in Threads : held[t] # NoLimiter => limiters[client[t]] = held[t]

(* What the client's bucket holds, a full one when it has none. *)
Level(k) == IF limiters[k] = NoLimiter THEN Burst ELSE tokens[limiters[k]]

(* rps requests per tick and a burst above that, per client: what the
   configuration file says of rps and burst.                                  *)
RateLimited == audit.admitted <= Burst + Rate * audit.ticks

(* In every window of time, at most burst + rps * length requests of a client
   are admitted, less what its bucket still holds: across evictions of its
   limiter, and whatever the goroutines do between getLimiter and Allow.       *)
WindowBound ==
  audit.client # NoClient =>
     audit.admitted + Level(audit.client) <= Burst + Rate * audit.ticks

(* While the cleanup goroutine runs, the table forgets whom it has not seen for
   twice ttl: neither map keeps an entry the other has lost.                   *)
IdleReclaimed ==
  sweeper # "stopped" =>
     \A k \in Clients : limiters[k] # NoLimiter =>
                           idle[k] # Unseen /\ idle[k] <= 2 * Ttl + Stall

(* Eviction is invisible: to the clients, the table is a token bucket each. *)
Buckets == INSTANCE TokenBucket WITH bucket <- [k \in Clients |-> Level(k)],
                                     serving <- client
ImplementsTokenBucket == Buckets!Spec

(* The condition on the configuration under which that is so: a bucket is full
   again by the time it may be evicted.                                       *)
FullWhenEvicted == Stall <= Ttl /\ Rate * (Ttl - Stall) >= Burst
=============================================================================
