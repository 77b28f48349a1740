-------------------------- MODULE RateLimiterProofs --------------------------
(* Proofs about RateLimiter, for any number of clients and goroutines.  They come
   in three layers: what holds in every configuration (ObjectInv); what needs a
   goroutine never to be kept waiting for longer than ttl (TableInv); and what
   needs a bucket to be full again before it may be evicted (LimiterInv).       *)
EXTENDS RateLimiter, TLAPS

Present(k) == limiters[k] # NoLimiter

(* Two clients never share a limiter. *)
Private == \A j, k \in Clients : Present(j) /\ limiters[j] = limiters[k] => j = k

(* An entry of limiters has one in seen, over which the cleanup ranges. *)
Seen == \A k \in Clients : Present(k) => idle[k] # Unseen

(* A goroutine between getLimiter and Allow has no answer yet. *)
Pending == \A t \in Threads : held[t] # NoLimiter => outcome[t] = "none"

ObjectInv == TypeOK /\ Private /\ Seen /\ Pending

(* The client of a goroutine between getLimiter and Allow was seen when the
   goroutine got the limiter or later.                                        *)
HeldRecently ==
  \A t \in Threads : held[t] # NoLimiter =>
     client[t] \in Clients /\ idle[client[t]] <= stalled[t]

(* How old an entry can be at each point of the cleanup goroutine's cycle. *)
Cycle ==
  /\ sweeper = "sweeping" => alarm + lag = Ttl
  /\ sweeper # "sweeping" => lag = 0
  /\ \A k \in Clients : Present(k) =>
        /\ sweeper = "sleeping" => idle[k] + alarm <= 2 * Ttl
        /\ sweeper = "sweeping" => idle[k] <= 2 * Ttl + lag

TableInv == ObjectInv /\ HeldRecently /\ NoOrphans /\ Cycle

(* What a bucket has regained since it was last used. *)
Regained ==
  \A k \in Clients : Present(k) =>
     \/ tokens[limiters[k]] = Burst
     \/ tokens[limiters[k]] >= Rate * (idle[k] - Stall)

LimiterInv == TableInv /\ Regained /\ WindowBound

-----------------------------------------------------------------------------
LEMMA Multiply ==
  ASSUME NEW m \in Int, NEW n \in Int, m >= n
  PROVE  Rate * m >= Rate * n /\ Rate * (n + 1) = Rate * n + Rate /\ Rate * n \in Int
BY RatesAssumption

LEMMA NegativeProduct ==
  ASSUME NEW n \in Int, n <= 0
  PROVE  Rate * n \in Int /\ Rate * n <= 0
BY RatesAssumption

LEMMA Constants ==
  /\ Rate \in Nat /\ Rate > 0 /\ Burst \in Nat /\ Burst > 0
  /\ Ttl \in Nat /\ Ttl > 0 /\ Stall \in Nat /\ Window \in Nat
  /\ NoClient \notin Clients /\ NoLimiter \notin Limiters /\ Unseen \notin Int
  /\ Longest \in Nat /\ Longest > Ttl + Stall
BY RatesAssumption, NullsAssumption DEF Longest

(* The facts about an entry of the table that the steps use. *)
LEMMA Entry ==
  ASSUME ObjectInv, NEW k \in Clients, Present(k)
  PROVE  /\ limiters[k] \in Limiters /\ idle[k] \in 0 .. Longest
         /\ tokens[limiters[k]] \in 0 .. Burst
         /\ Level(k) = tokens[limiters[k]]
BY DEF ObjectInv, TypeOK, Present, Seen, Level

LEMMA LevelType ==
  ASSUME ObjectInv, NEW k \in Clients
  PROVE  Level(k) \in 0 .. Burst
BY Entry, Constants DEF Level, Present

(* What getLimiter does: the client's limiter, or a fresh one it gets. *)
LEMMA GetLimiterParts ==
  ASSUME ObjectInv, NEW t \in Threads, NEW k \in Clients, GetLimiter(t, k)
  PROVE  /\ client[t] = NoClient /\ held[t] = NoLimiter /\ outcome[t] = "none"
         /\ client' = [client EXCEPT ![t] = k]
         /\ idle' = [idle EXCEPT ![k] = 0] /\ stalled' = [stalled EXCEPT ![t] = 0]
         /\ UNCHANGED <<outcome, sweeper, alarm, lag, audit>>
         /\ \E l \in Limiters :
               /\ \/ limiters[k] = l /\ UNCHANGED <<limiters, tokens>>
                  \/ /\ limiters[k] = NoLimiter /\ l \in Fresh
                     /\ limiters' = [limiters EXCEPT ![k] = l]
                     /\ tokens' = [tokens EXCEPT ![l] = Burst]
               /\ held' = [held EXCEPT ![t] = l]
               /\ l # NoLimiter /\ limiters'[k] = l
               /\ \A j \in Clients : j # k => limiters'[j] = limiters[j] /\ limiters'[j] # l
<1>1. PICK l \in Limiters :
         /\ \/ limiters[k] = l /\ UNCHANGED <<limiters, tokens>>
            \/ /\ limiters[k] = NoLimiter /\ l \in Fresh
               /\ limiters' = [limiters EXCEPT ![k] = l]
               /\ tokens' = [tokens EXCEPT ![l] = Burst]
         /\ held' = [held EXCEPT ![t] = l]
  BY DEF GetLimiter, Fresh, ObjectInv, TypeOK
<1>2. l # NoLimiter
  BY Constants
<1>3. /\ limiters'[k] = l
      /\ \A j \in Clients : j # k => limiters'[j] = limiters[j] /\ limiters'[j] # l
  BY <1>1, <1>2 DEF ObjectInv, TypeOK, Private, Present, Fresh
<1>4. /\ client[t] = NoClient /\ held[t] = NoLimiter /\ outcome[t] = "none"
      /\ client' = [client EXCEPT ![t] = k]
      /\ idle' = [idle EXCEPT ![k] = 0] /\ stalled' = [stalled EXCEPT ![t] = 0]
      /\ UNCHANGED <<outcome, sweeper, alarm, lag, audit>>
  BY DEF GetLimiter, ObjectInv, TypeOK
<1> QED BY <1>1, <1>2, <1>3, <1>4

(* What Allow does, but for the tokens: the request has its answer and holds no
   limiter any more.                                                          *)
LEMMA AllowParts ==
  ASSUME ObjectInv, NEW t \in Threads, Allow(t)
  PROVE  /\ held[t] # NoLimiter /\ held[t] \in Limiters /\ client[t] # NoClient
         /\ \/ tokens[held[t]] > 0 /\ tokens' = [tokens EXCEPT ![held[t]] = @ - 1]
            \/ tokens' = tokens
         /\ outcome' \in [Threads -> {"none", "admitted", "refused"}] /\ outcome'[t] # "none"
         /\ \A u \in Threads : u # t => outcome'[u] = outcome[u]
         /\ held' = [held EXCEPT ![t] = NoLimiter] /\ stalled' = [stalled EXCEPT ![t] = 0]
         /\ UNCHANGED <<limiters, idle, client, sweeper, alarm, lag>>
BY DEF Allow, ObjectInv, TypeOK

(* What a sweep does: entries go whole or stay as they are. *)
LEMMA SweepParts ==
  ASSUME Sweep
  PROVE  /\ \A j \in Clients :
               \/ limiters'[j] = NoLimiter
               \/ ~Stale(j) /\ limiters'[j] = limiters[j] /\ idle'[j] = idle[j]
         /\ \A j \in Clients : ~Stale(j) => limiters'[j] = limiters[j] /\ idle'[j] = idle[j]
         /\ UNCHANGED <<tokens, client, held, stalled, outcome, alarm, audit>>
         /\ sweeper = "sweeping" /\ sweeper' = "sleeping" /\ lag' = 0
BY DEF Sweep

-----------------------------------------------------------------------------
(* The objects: in every configuration. *)

LEMMA ObjectInit == Init => ObjectInv
BY Constants DEF Init, ObjectInv, TypeOK, Private, Seen, Pending, Present

LEMMA GetLimiterObjects ==
  ASSUME ObjectInv, NEW t \in Threads, NEW k \in Clients, GetLimiter(t, k)
  PROVE  ObjectInv'
<1>1. PICK l \in Limiters :
         /\ \/ limiters[k] = l /\ UNCHANGED <<limiters, tokens>>
            \/ /\ limiters[k] = NoLimiter /\ l \in Fresh
               /\ limiters' = [limiters EXCEPT ![k] = l]
               /\ tokens' = [tokens EXCEPT ![l] = Burst]
         /\ held' = [held EXCEPT ![t] = l]
         /\ l # NoLimiter /\ limiters'[k] = l
         /\ \A j \in Clients : j # k => limiters'[j] = limiters[j] /\ limiters'[j] # l
  BY GetLimiterParts
<1>2. /\ outcome[t] = "none" /\ client' = [client EXCEPT ![t] = k]
      /\ idle' = [idle EXCEPT ![k] = 0] /\ stalled' = [stalled EXCEPT ![t] = 0]
      /\ UNCHANGED <<outcome, sweeper, alarm, lag, audit>>
  BY GetLimiterParts
<1>3. TypeOK /\ k # NoClient
  BY Constants DEF ObjectInv
<1>4. TypeOK'
  BY <1>1, <1>2, <1>3, Constants DEF TypeOK
<1>5. Private'
  BY <1>1 DEF ObjectInv, Private, Present
<1>6. Seen'
  BY <1>1, <1>2, <1>3, Constants DEF ObjectInv, Seen, Present, TypeOK
<1>7. Pending'
  BY <1>1, <1>2, <1>3 DEF ObjectInv, Pending, TypeOK
<1> QED BY <1>4, <1>5, <1>6, <1>7 DEF ObjectInv

LEMMA AllowObjects ==
  ASSUME ObjectInv, NEW t \in Threads, Allow(t)
  PROVE  ObjectInv'
<1>1. TypeOK
  BY DEF ObjectInv
<1>2. audit' \in [client : Clients \cup {NoClient}, ticks : 0 .. Window, admitted : Nat]
  BY <1>1 DEF TypeOK, Allow, Audited
<1>3. TypeOK'
  BY <1>1, <1>2, AllowParts, Constants DEF TypeOK
<1>4. Private' /\ Seen'
  BY AllowParts DEF ObjectInv, Private, Seen, Present
<1>5. Pending'
  BY <1>1, AllowParts DEF ObjectInv, Pending, TypeOK
<1> QED BY <1>3, <1>4, <1>5 DEF ObjectInv

LEMMA FinishObjects ==
  ASSUME ObjectInv, NEW t \in Threads, Finish(t)
  PROVE  ObjectInv'
<1>1. held[t] = NoLimiter /\ TypeOK
  BY DEF ObjectInv, Pending, Finish
<1>2. TypeOK'
  BY <1>1 DEF TypeOK, Finish
<1>3. Private' /\ Seen' /\ Pending'
  BY <1>1 DEF ObjectInv, TypeOK, Private, Seen, Pending, Present, Finish
<1> QED BY <1>2, <1>3 DEF ObjectInv

LEMMA SweepObjects ==
  ASSUME ObjectInv, Sweep
  PROVE  ObjectInv'
<1>1. TypeOK'
  BY Constants DEF ObjectInv, TypeOK, Sweep
<1>2. Private' /\ Seen' /\ Pending'
  BY SweepParts DEF ObjectInv, Private, Seen, Pending, Present
<1> QED BY <1>1, <1>2 DEF ObjectInv

LEMMA TickObjects ==
  ASSUME ObjectInv, Tick
  PROVE  ObjectInv'
<1>1. TypeOK'
  <2>1. audit' \in [client : Clients \cup {NoClient}, ticks : 0 .. Window, admitted : Nat]
    BY Constants DEF ObjectInv, TypeOK, Tick, OnTime
  <2>2. idle' \in [Clients -> 0 .. Longest \cup {Unseen}]
    BY Constants DEF ObjectInv, TypeOK, Tick, Older
  <2>3. tokens' \in [Limiters -> 0 .. Burst]
    BY Constants DEF ObjectInv, TypeOK, Tick, Refilled
  <2>4. stalled' \in [Threads -> 0 .. Stall]
    BY Constants DEF ObjectInv, TypeOK, Tick, OnTime
  <2>5. alarm' \in 0 .. Ttl /\ lag' \in 0 .. Stall
    BY Constants DEF ObjectInv, TypeOK, Tick, OnTime
  <2> QED BY <2>1, <2>2, <2>3, <2>4, <2>5 DEF ObjectInv, TypeOK, Tick
<1>2. \A k \in Clients : Present(k) => idle'[k] # Unseen
  BY Entry, Constants DEF Tick, Older
<1>3. Private' /\ Seen' /\ Pending'
  BY <1>2 DEF ObjectInv, Private, Seen, Pending, Present, Tick
<1> QED BY <1>1, <1>3 DEF ObjectInv

LEMMA ObjectNext ==
  ASSUME ObjectInv, [Next]_limiterVars
  PROVE  ObjectInv'
<1>1. CASE UNCHANGED limiterVars
  BY <1>1 DEF ObjectInv, TypeOK, Private, Seen, Pending, Present, limiterVars
<1>2. CASE ReadCutoff
  BY <1>2, Constants DEF ObjectInv, TypeOK, Private, Seen, Pending, Present, ReadCutoff
<1>3. CASE Close
  BY <1>3, Constants DEF ObjectInv, TypeOK, Private, Seen, Pending, Present, Close
<1>4. CASE Watch
  <2>1. PICK k \in Clients : audit' = [client |-> k, ticks |-> 0, admitted |-> 0]
    BY <1>4 DEF Watch
  <2> QED BY <1>4, <2>1, Constants DEF ObjectInv, TypeOK, Private, Seen, Pending, Present, Watch
<1> QED
  BY <1>1, <1>2, <1>3, <1>4, GetLimiterObjects, AllowObjects, FinishObjects, SweepObjects,
     TickObjects DEF Next

THEOREM ObjectInvariant == Spec => []ObjectInv
<1>1. ObjectInv /\ [Next]_limiterVars => ObjectInv'
  BY ObjectNext
<1> QED BY ObjectInit, <1>1, PTL DEF Spec

(* The types: entries, tokens, ages and the cleanup goroutine keep to their
   bounds, in every configuration.                                            *)
THEOREM LimiterTyped == Spec => []TypeOK
<1>1. ObjectInv => TypeOK
  BY DEF ObjectInv
<1> QED BY ObjectInvariant, <1>1, PTL

(* In every configuration, however late the goroutines run, no two clients share
   a limiter (nobody is refused for another's requests) and no limiter is out of
   the reach of the cleanup goroutine, which ranges over seen.                 *)
THEOREM ClientsApart == Spec => [](Private /\ Seen)
<1>1. ObjectInv => Private /\ Seen
  BY DEF ObjectInv
<1> QED BY ObjectInvariant, <1>1, PTL

-----------------------------------------------------------------------------
(* The table, when no goroutine is kept waiting for longer than ttl. *)

LEMMA TableInit == Init => TableInv
BY ObjectInit, Constants DEF Init, TableInv, HeldRecently, NoOrphans, Cycle, Present

(* An entry of a client whose request is between getLimiter and Allow is not
   stale: the limiter in hand cannot leave the table.                         *)
LEMMA HeldIsFresh ==
  ASSUME Stall <= Ttl, TableInv, NEW t \in Threads, held[t] # NoLimiter
  PROVE  ~Stale(client[t])
<1>1. /\ client[t] \in Clients /\ idle[client[t]] <= stalled[t]
      /\ Present(client[t]) /\ lag \in Nat
  BY Constants DEF TableInv, HeldRecently, NoOrphans, Present, ObjectInv, TypeOK
<1>2. idle[client[t]] \in Nat /\ stalled[t] \in 0 .. Stall
  BY <1>1, Entry, Constants DEF TableInv, ObjectInv, TypeOK
<1> QED BY <1>1, <1>2, Constants DEF Stale

LEMMA GetLimiterTable ==
  ASSUME TableInv, NEW t \in Threads, NEW k \in Clients, GetLimiter(t, k)
  PROVE  HeldRecently' /\ NoOrphans' /\ Cycle'
<1>0. ObjectInv /\ TypeOK
  BY DEF TableInv, ObjectInv
<1>1. PICK l \in Limiters :
         /\ \/ limiters[k] = l /\ UNCHANGED <<limiters, tokens>>
            \/ /\ limiters[k] = NoLimiter /\ l \in Fresh
               /\ limiters' = [limiters EXCEPT ![k] = l]
               /\ tokens' = [tokens EXCEPT ![l] = Burst]
         /\ held' = [held EXCEPT ![t] = l]
         /\ l # NoLimiter /\ limiters'[k] = l
         /\ \A j \in Clients : j # k => limiters'[j] = limiters[j] /\ limiters'[j] # l
  BY <1>0, GetLimiterParts
<1>2. /\ client[t] = NoClient /\ held[t] = NoLimiter
      /\ client' = [client EXCEPT ![t] = k]
      /\ idle' = [idle EXCEPT ![k] = 0] /\ stalled' = [stalled EXCEPT ![t] = 0]
      /\ UNCHANGED <<outcome, sweeper, alarm, lag, audit>>
  BY <1>0, GetLimiterParts
<1>3. ASSUME NEW u \in Threads, held'[u] # NoLimiter
      PROVE  /\ client'[u] \in Clients /\ idle'[client'[u]] <= stalled'[u]
             /\ limiters'[client'[u]] = held'[u]
  <2>1. CASE u = t
    BY <1>0, <1>1, <1>2, <2>1 DEF TypeOK
  <2>2. CASE u # t
    <3>1. /\ client[u] \in Clients /\ idle[client[u]] <= stalled[u] /\ stalled[u] \in Nat
          /\ limiters[client[u]] = held[u] /\ held[u] # NoLimiter
          /\ client'[u] = client[u] /\ stalled'[u] = stalled[u] /\ held'[u] = held[u]
      BY <1>0, <1>1, <1>2, <1>3, <2>2, Constants DEF TableInv, HeldRecently, NoOrphans, TypeOK
    <3>2. idle'[client[u]] <= stalled[u]
      BY <1>0, <1>2, <3>1 DEF TypeOK
    <3> QED BY <1>1, <3>1, <3>2
  <2> QED BY <2>1, <2>2
<1>4. Cycle'
  <2>1. \A j \in Clients : idle'[j] = 0 \/ (Present(j) /\ idle'[j] = idle[j]) \/ ~Present(j)'
    BY <1>0, <1>1, <1>2 DEF TypeOK, Present
  <2>2. alarm \in 0 .. Ttl /\ lag \in 0 .. Stall
    BY <1>0 DEF TypeOK
  <2> QED BY <1>2, <2>1, <2>2, Constants DEF TableInv, Cycle
<1> QED BY <1>3, <1>4 DEF HeldRecently, NoOrphans

LEMMA SweepTable ==
  ASSUME Stall <= Ttl, TableInv, Sweep
  PROVE  HeldRecently' /\ NoOrphans' /\ Cycle'
<1>0. ObjectInv /\ TypeOK
  BY DEF TableInv, ObjectInv
<1>1. \A t \in Threads : held[t] # NoLimiter =>
         /\ client[t] \in Clients /\ limiters'[client[t]] = limiters[client[t]]
         /\ idle'[client[t]] = idle[client[t]]
  BY HeldIsFresh, SweepParts DEF TableInv, HeldRecently
<1>2. HeldRecently' /\ NoOrphans'
  BY <1>1, SweepParts DEF TableInv, HeldRecently, NoOrphans
<1>3. Cycle'
  <2>1. alarm + lag = Ttl /\ alarm \in Nat /\ lag \in Nat
    BY <1>0, SweepParts, Constants DEF TableInv, Cycle, TypeOK
  <2>2. ASSUME NEW j \in Clients, Present(j)' PROVE idle'[j] + alarm <= 2 * Ttl
    <3>1. Present(j) /\ ~Stale(j) /\ idle'[j] = idle[j]
      BY <2>2, SweepParts DEF Present
    <3> QED BY <1>0, <2>1, <3>1, Entry, Constants DEF Stale
  <2> QED BY <2>2, SweepParts DEF Cycle
<1> QED BY <1>2, <1>3

(* How entries age. *)
LEMMA Aging ==
  ASSUME ObjectInv, Tick, NEW k \in Clients, Present(k)
  PROVE  /\ idle[k] \in 0 .. Longest /\ idle'[k] \in 0 .. Longest
         /\ idle'[k] = idle[k] + 1 \/ (idle[k] = Longest /\ idle'[k] = Longest)
BY Entry, Constants DEF Tick, Older

LEMMA TickTable ==
  ASSUME Stall <= Ttl, TableInv, Tick
  PROVE  HeldRecently' /\ NoOrphans' /\ Cycle'
<1>0. ObjectInv /\ TypeOK /\ UNCHANGED <<limiters, client, held, outcome, sweeper>>
  BY DEF TableInv, ObjectInv, Tick
<1>1. NoOrphans'
  BY <1>0 DEF TableInv, NoOrphans
<1>2. HeldRecently'
  <2> SUFFICES ASSUME NEW t \in Threads, held[t] # NoLimiter
               PROVE  idle'[client[t]] <= stalled'[t]
    BY <1>0 DEF TableInv, HeldRecently
  <2>1. /\ client[t] \in Clients /\ Present(client[t]) /\ idle[client[t]] <= stalled[t]
        /\ stalled[t] \in Nat
    BY <1>0, Constants DEF TableInv, TypeOK, HeldRecently, NoOrphans, Present
  <2>2. stalled'[t] = stalled[t] + 1
    BY DEF Tick
  <2> QED BY <1>0, <2>1, <2>2, Aging, Constants
<1>3. Cycle'
  <2>1. /\ sweeper = "sweeping" => alarm + lag = Ttl /\ lag < Stall /\ lag' = lag + 1
        /\ sweeper # "sweeping" => lag' = 0
        /\ sweeper = "sleeping" => alarm > 0
        /\ alarm > 0 => alarm' = alarm - 1
        /\ alarm \in Nat /\ lag \in Nat
    BY <1>0, Constants DEF TableInv, TypeOK, Cycle, Tick, OnTime
  <2>2. ASSUME NEW k \in Clients, Present(k)
        PROVE  /\ sweeper = "sleeping" => idle'[k] + alarm' <= 2 * Ttl
               /\ sweeper = "sweeping" => idle'[k] <= 2 * Ttl + lag'
    BY <1>0, <2>1, <2>2, Aging, Constants DEF TableInv, Cycle
  <2> QED BY <1>0, <2>1, <2>2, Constants DEF Cycle, Present
<1> QED BY <1>1, <1>2, <1>3

LEMMA TableNext ==
  ASSUME Stall <= Ttl, TableInv, [Next]_limiterVars
  PROVE  TableInv'
<1>0. ObjectInv /\ ObjectInv'
  BY ObjectNext DEF TableInv
<1>1. CASE UNCHANGED limiterVars
  BY <1>0, <1>1 DEF TableInv, HeldRecently, NoOrphans, Cycle, Present, limiterVars
<1>2. ASSUME NEW t \in Threads, Allow(t) PROVE HeldRecently' /\ NoOrphans' /\ Cycle'
  <2>1. Cycle'
    BY <1>0, <1>2, AllowParts DEF TableInv, Cycle, Present
  <2>2. HeldRecently' /\ NoOrphans'
    BY <1>0, <1>2, AllowParts DEF TableInv, HeldRecently, NoOrphans, ObjectInv, TypeOK
  <2> QED BY <2>1, <2>2
<1>3. ASSUME NEW t \in Threads, Finish(t) PROVE HeldRecently' /\ NoOrphans' /\ Cycle'
  <2>1. Cycle'
    BY <1>3 DEF TableInv, Cycle, Present, Finish
  <2>2. HeldRecently' /\ NoOrphans'
    BY <1>3 DEF TableInv, HeldRecently, NoOrphans, ObjectInv, TypeOK, Pending, Finish
  <2> QED BY <2>1, <2>2
<1>4. CASE ReadCutoff
  <2>1. Cycle'
    BY <1>0, <1>4, Entry, Constants DEF TableInv, Cycle, Present, ReadCutoff
  <2> QED BY <1>0, <1>4, <2>1 DEF TableInv, HeldRecently, NoOrphans, ReadCutoff
<1>5. CASE Close
  BY <1>0, <1>5 DEF TableInv, HeldRecently, NoOrphans, Cycle, Present, Close
<1>6. CASE Watch
  BY <1>0, <1>6 DEF TableInv, HeldRecently, NoOrphans, Cycle, Present, Watch
<1> QED
  BY <1>0, <1>1, <1>2, <1>3, <1>4, <1>5, <1>6, GetLimiterTable, SweepTable, TickTable
     DEF Next, TableInv

THEOREM TableInvariant == Stall <= Ttl => (Spec => []TableInv)
<1> SUFFICES ASSUME Stall <= Ttl PROVE Spec => []TableInv
  OBVIOUS
<1>1. TableInv /\ [Next]_limiterVars => TableInv'
  BY TableNext
<1> QED BY TableInit, <1>1, PTL DEF Spec

(* A request never calls Allow on a limiter that the cleanup goroutine has taken
   out of the table since getLimiter returned it: for any rate and burst, if no
   goroutine is kept waiting for longer than ttl.                              *)
THEOREM LimitersStayShared == Stall <= Ttl => (Spec => []NoOrphans)
<1> SUFFICES ASSUME Stall <= Ttl PROVE Spec => []NoOrphans
  OBVIOUS
<1>1. TableInv => NoOrphans
  BY DEF TableInv
<1> QED BY TableInvariant, <1>1, PTL

(* Until Close, the table forgets a client that it has not seen for 2 * ttl. *)
THEOREM TableIsReclaimed == Stall <= Ttl => (Spec => []IdleReclaimed)
<1> SUFFICES ASSUME Stall <= Ttl PROVE Spec => []IdleReclaimed
  OBVIOUS
<1>1. ASSUME TableInv PROVE IdleReclaimed
  <2> SUFFICES ASSUME sweeper # "stopped", NEW k \in Clients, Present(k)
               PROVE  idle[k] # Unseen /\ idle[k] <= 2 * Ttl + Stall
    BY DEF IdleReclaimed, Present
  <2>1. /\ idle[k] \in Nat /\ idle[k] # Unseen /\ lag \in 0 .. Stall /\ alarm \in Nat
        /\ sweeper \in {"sleeping", "sweeping"}
    BY <1>1, Entry, Constants DEF TableInv, ObjectInv, TypeOK
  <2> QED BY <1>1, <2>1, Constants DEF TableInv, Cycle
<1> QED BY TableInvariant, <1>1, PTL

-----------------------------------------------------------------------------
(* The buckets, when they refill before they may be evicted. *)

LEMMA Layers ==
  ASSUME LimiterInv
  PROVE  TableInv /\ ObjectInv /\ TypeOK
BY DEF LimiterInv, TableInv, ObjectInv

LEMMA LimiterInit == Init => LimiterInv
BY TableInit, Constants DEF Init, LimiterInv, Regained, WindowBound, Present

(* The bucket of a stale entry is full. *)
LEMMA StaleIsFull ==
  ASSUME FullWhenEvicted, LimiterInv, NEW k \in Clients, Present(k), Stale(k)
  PROVE  tokens[limiters[k]] = Burst
<1>0. limiters[k] \in Limiters /\ tokens[limiters[k]] \in 0 .. Burst
  BY Layers, Entry
<1>1. idle[k] \in Nat /\ idle[k] > Ttl /\ lag \in Nat
  BY Layers, Entry, Constants DEF Stale, TypeOK
<1>2. Rate * (idle[k] - Stall) >= Rate * (Ttl - Stall)
  BY <1>1, Multiply, Constants
<1>3. Rate * (idle[k] - Stall) >= Burst
  BY <1>1, <1>2, Multiply, Constants DEF FullWhenEvicted
<1> QED BY <1>0, <1>1, <1>3, Constants DEF LimiterInv, Regained

(* What each action does to the levels the clients see. *)

LEMMA GetLimiterLevels ==
  ASSUME ObjectInv, NEW t \in Threads, NEW k \in Clients, GetLimiter(t, k)
  PROVE  \A j \in Clients : Level(j)' = Level(j)
<1>1. CASE UNCHANGED <<limiters, tokens>>
  BY <1>1 DEF Level
<1>2. ASSUME limiters[k] = NoLimiter, NEW l \in Fresh,
             limiters' = [limiters EXCEPT ![k] = l],
             tokens' = [tokens EXCEPT ![l] = Burst]
      PROVE  \A j \in Clients : Level(j)' = Level(j)
  <2>1. l \in Limiters /\ \A j \in Clients : limiters[j] # l
    BY <1>2 DEF Fresh
  <2>2. limiters \in [Clients -> Limiters \cup {NoLimiter}] /\ tokens \in [Limiters -> 0 .. Burst]
    BY DEF ObjectInv, TypeOK
  <2>3. l # NoLimiter
    BY <2>1, Constants
  <2> QED BY <1>2, <2>1, <2>2, <2>3 DEF Level
<1> QED BY <1>1, <1>2 DEF GetLimiter

LEMMA AllowLevels ==
  ASSUME TableInv, NEW t \in Threads, Allow(t)
  PROVE  /\ client[t] \in Clients /\ outcome[t] = "none"
         /\ \/ /\ Level(client[t]) > 0 /\ outcome' = [outcome EXCEPT ![t] = "admitted"]
               /\ Level(client[t])' = Level(client[t]) - 1
               /\ audit' = Audited(t)
            \/ /\ Level(client[t]) = 0 /\ outcome' = [outcome EXCEPT ![t] = "refused"]
               /\ Level(client[t])' = Level(client[t])
               /\ audit' = audit
         /\ \A j \in Clients : j # client[t] => Level(j)' = Level(j)
<1>1. /\ client[t] \in Clients /\ outcome[t] = "none"
      /\ limiters[client[t]] = held[t] /\ held[t] \in Limiters /\ held[t] # NoLimiter
      /\ tokens \in [Limiters -> 0 .. Burst] /\ limiters' = limiters /\ client' = client
  BY DEF TypeOK, TableInv, HeldRecently, ObjectInv, Pending, NoOrphans, Allow
<1>2. \A j \in Clients : j # client[t] => limiters[j] # held[t]
  BY <1>1 DEF TableInv, ObjectInv, Private, Present
<1>3. \A j \in Clients : limiters[j] \in Limiters \cup {NoLimiter}
  BY DEF TableInv, ObjectInv, TypeOK
<1>4. Level(client[t]) = tokens[held[t]] /\ Level(client[t])' = tokens'[held[t]]
  BY <1>1 DEF Level
<1>5. \A j \in Clients : j # client[t] => Level(j)' = Level(j)
  BY <1>1, <1>2, <1>3 DEF Level, Allow
<1> QED BY <1>1, <1>4, <1>5 DEF Allow

LEMMA SweepLevels ==
  ASSUME FullWhenEvicted, LimiterInv, Sweep
  PROVE  \A j \in Clients : Level(j)' = Level(j)
<1> SUFFICES ASSUME NEW j \in Clients PROVE Level(j)' = Level(j)
  OBVIOUS
<1>1. CASE Present(j) /\ Stale(j)
  BY <1>1, StaleIsFull DEF Sweep, Level, Present
<1>2. CASE ~(Present(j) /\ Stale(j))
  BY <1>2 DEF Sweep, Level, Present
<1> QED BY <1>1, <1>2

LEMMA TickLevels ==
  ASSUME ObjectInv, Tick
  PROVE  \A j \in Clients : Level(j)' = Refilled(Level(j))
BY Constants, Entry DEF Tick, Level, Present, Refilled

-----------------------------------------------------------------------------
(* The window bound, from the change of the watched client's level. *)

LEMMA WindowUnchanged ==
  ASSUME LimiterInv, audit' = audit, \A j \in Clients : Level(j)' = Level(j)
  PROVE  WindowBound'
BY Layers DEF LimiterInv, TypeOK, WindowBound

(* The watched client pays for what is admitted out of its bucket. *)
LEMMA WindowMoves ==
  ASSUME NEW k \in Clients, audit.client = k, audit'.client = k, WindowBound,
         NEW n \in Nat, audit.admitted \in Nat, audit'.admitted = audit.admitted + n,
         Level(k) \in Int, Level(k)' \in Int,
         Rate * audit.ticks \in Int, Rate * audit'.ticks \in Int,
         n + Level(k)' - Level(k) <= Rate * audit'.ticks - Rate * audit.ticks
  PROVE  WindowBound'
<1>1. audit.admitted + Level(k) <= Burst + Rate * audit.ticks
  BY Constants DEF WindowBound
<1>2. audit'.admitted + Level(k)' <= Burst + Rate * audit'.ticks
  BY <1>1, Constants
<1> QED BY <1>2 DEF WindowBound, Level

(* getLimiter and Allow touch only buckets that were just used. *)
LEMMA GetLimiterRegained ==
  ASSUME LimiterInv, NEW t \in Threads, NEW k \in Clients, GetLimiter(t, k)
  PROVE  Regained'
<1>0. ObjectInv /\ TypeOK /\ ObjectInv'
  BY Layers, GetLimiterObjects
<1>1. PICK l \in Limiters :
         /\ \/ limiters[k] = l /\ UNCHANGED <<limiters, tokens>>
            \/ /\ limiters[k] = NoLimiter /\ l \in Fresh
               /\ limiters' = [limiters EXCEPT ![k] = l]
               /\ tokens' = [tokens EXCEPT ![l] = Burst]
         /\ l # NoLimiter /\ limiters'[k] = l
         /\ \A j \in Clients : j # k => limiters'[j] = limiters[j] /\ limiters'[j] # l
  BY <1>0, GetLimiterParts
<1>2. idle' = [idle EXCEPT ![k] = 0]
  BY <1>0, GetLimiterParts
<1> SUFFICES ASSUME NEW j \in Clients, Present(j)'
             PROVE  \/ tokens'[limiters'[j]] = Burst
                    \/ tokens'[limiters'[j]] >= Rate * (idle'[j] - Stall)
  BY DEF Regained
<1>3. CASE j = k
  <2>1. idle'[j] = 0 /\ tokens'[l] \in Nat /\ limiters'[j] = l
    BY <1>0, <1>1, <1>2, <1>3, Constants DEF ObjectInv, TypeOK
  <2>2. idle'[j] - Stall \in Int /\ idle'[j] - Stall <= 0
    BY <2>1, Constants
  <2> QED BY <2>1, <2>2, NegativeProduct
<1>4. CASE j # k
  <2>1. /\ limiters'[j] = limiters[j] /\ limiters[j] # l /\ Present(j) /\ idle'[j] = idle[j]
    BY <1>0, <1>1, <1>2, <1>4 DEF Present, TypeOK
  <2>2. tokens'[limiters[j]] = tokens[limiters[j]]
    BY <1>0, <1>1, <2>1, Entry DEF TypeOK
  <2> QED BY <2>1, <2>2 DEF LimiterInv, Regained
<1> QED BY <1>3, <1>4

LEMMA AllowRegained ==
  ASSUME LimiterInv, NEW t \in Threads, Allow(t)
  PROVE  Regained'
<1>0. ObjectInv /\ TypeOK /\ ObjectInv'
  BY Layers, AllowObjects
<1>1. /\ \/ tokens' = [tokens EXCEPT ![held[t]] = @ - 1]
         \/ tokens' = tokens
      /\ held[t] # NoLimiter /\ UNCHANGED <<limiters, idle>>
      /\ client[t] \in Clients /\ limiters[client[t]] = held[t] /\ idle[client[t]] <= stalled[t]
  BY <1>0, AllowParts, Layers DEF TableInv, HeldRecently, NoOrphans
<1> SUFFICES ASSUME NEW j \in Clients, Present(j)
             PROVE  \/ tokens'[limiters[j]] = Burst
                    \/ tokens'[limiters[j]] >= Rate * (idle[j] - Stall)
  BY <1>1 DEF Regained, Present
<1>2. CASE j = client[t]
  <2>1. idle[j] <= Stall /\ idle[j] \in Nat
    BY <1>0, <1>1, <1>2, Entry, Constants DEF TypeOK
  <2>2. idle[j] - Stall \in Int /\ idle[j] - Stall <= 0
    BY <2>1, Constants
  <2>3. tokens'[limiters[j]] \in Nat
    <3>1. tokens' \in [Limiters -> 0 .. Burst] /\ limiters[j] \in Limiters
      BY <1>0, Entry DEF ObjectInv, TypeOK
    <3> QED BY <3>1, Constants
  <2> QED BY <2>2, <2>3, NegativeProduct
<1>3. CASE j # client[t]
  <2>1. limiters[j] # held[t]
    BY <1>0, <1>1, <1>3 DEF ObjectInv, Private, Present
  <2>2. tokens'[limiters[j]] = tokens[limiters[j]]
    BY <1>0, <1>1, <2>1, Entry DEF TypeOK
  <2> QED BY <2>2 DEF LimiterInv, Regained
<1> QED BY <1>2, <1>3

(* The watched client pays for its requests, and for nobody else's. *)
LEMMA AllowWindow ==
  ASSUME LimiterInv, NEW t \in Threads, Allow(t)
  PROVE  WindowBound'
<1>1. TypeOK /\ ObjectInv /\ ObjectInv'
  BY Layers, AllowObjects
<1>2. PICK k \in Clients : k = client[t]
  BY Layers, AllowLevels
<1>3. CASE audit' = audit /\ \A j \in Clients : Level(j)' = Level(j)
  BY <1>3, WindowUnchanged
<1>4. CASE audit' = Audited(t) /\ audit.client = k /\ Level(k)' = Level(k) - 1
  <2>1. audit'.client = k /\ audit'.ticks = audit.ticks /\ audit'.admitted = audit.admitted + 1
    BY <1>1, <1>2, <1>4 DEF Audited, TypeOK
  <2>2. audit.admitted \in Nat /\ Rate * audit.ticks \in Int /\ Rate * audit'.ticks \in Int
    BY <1>1, <2>1, Multiply DEF TypeOK
  <2>3. Level(k) \in Int /\ Level(k)' \in Int /\ WindowBound
    BY <1>1, <1>4, LevelType, Constants DEF LimiterInv
  <2>4. 1 + Level(k)' - Level(k) <= Rate * audit'.ticks - Rate * audit.ticks
    BY <1>4, <2>1, <2>2, <2>3
  <2> QED BY <1>4, <2>1, <2>2, <2>3, <2>4, WindowMoves
<1>5. CASE audit' = Audited(t) /\ audit.client # k
           /\ \A j \in Clients : j # k => Level(j)' = Level(j)
  <2>1. audit' = audit
    BY <1>2, <1>5 DEF Audited
  <2>2. CASE audit.client = NoClient
    BY <2>1, <2>2 DEF WindowBound
  <2>3. CASE audit.client # NoClient
    <3>1. PICK j \in Clients : j = audit.client
      BY <1>1, <2>3 DEF TypeOK
    <3>2. Level(j)' = Level(j) /\ Level(j) \in Int
      BY <1>1, <1>5, <3>1, LevelType, Constants
    <3>3. audit.admitted \in Nat /\ Rate * audit.ticks \in Int
      BY <1>1, Multiply DEF TypeOK
    <3>4. /\ audit.client = j /\ audit'.client = j /\ audit'.admitted = audit.admitted + 0
          /\ audit'.ticks = audit.ticks
      BY <2>1, <3>1, <3>3
    <3>5. 0 + Level(j)' - Level(j) <= Rate * audit'.ticks - Rate * audit.ticks
      BY <3>2, <3>3, <3>4
    <3> QED BY <3>2, <3>3, <3>4, <3>5, WindowMoves DEF LimiterInv
  <2> QED BY <2>2, <2>3
<1>6. /\ \/ Level(k)' = Level(k) - 1 /\ audit' = Audited(t)
         \/ Level(k)' = Level(k) /\ audit' = audit
      /\ \A j \in Clients : j # k => Level(j)' = Level(j)
  BY <1>1, <1>2, Layers, AllowParts, AllowLevels
<1> QED BY <1>3, <1>4, <1>5, <1>6

-----------------------------------------------------------------------------
(* Time passes: buckets gain what the window's bound gains, or are full. *)
LEMMA TickRegained ==
  ASSUME LimiterInv, Tick
  PROVE  Regained'
<1>0. ObjectInv
  BY Layers
<1>1. \A l \in Limiters : tokens'[l] = Refilled(tokens[l])
  BY DEF Tick
<1> SUFFICES ASSUME NEW k \in Clients, Present(k)
             PROVE  \/ tokens'[limiters[k]] = Burst
                    \/ tokens'[limiters[k]] >= Rate * (idle'[k] - Stall)
  BY DEF Regained, Present, Tick
<1> DEFINE n == tokens[limiters[k]]
<1>2. /\ limiters[k] \in Limiters /\ n \in 0 .. Burst /\ tokens'[limiters[k]] = Refilled(n)
      /\ n = Burst \/ n >= Rate * (idle[k] - Stall)
  BY <1>0, <1>1, Entry DEF LimiterInv, Regained
<1>3. CASE n = Burst \/ n + Rate > Burst
  BY <1>2, <1>3, Constants DEF Refilled
<1>4. CASE n # Burst /\ n + Rate <= Burst
  <2>1. Refilled(n) = n + Rate /\ n >= Rate * (idle[k] - Stall) /\ n \in Int
    BY <1>2, <1>4, Constants DEF Refilled
  <2>2. /\ idle[k] - Stall \in Int /\ idle'[k] - Stall \in Int
        /\ (idle[k] - Stall) + 1 >= idle'[k] - Stall
    BY <1>0, Aging, Constants
  <2>3. /\ Rate * ((idle[k] - Stall) + 1) = Rate * (idle[k] - Stall) + Rate
        /\ Rate * (idle[k] - Stall) \in Int
    BY <2>2, Multiply
  <2>4. /\ Rate * ((idle[k] - Stall) + 1) >= Rate * (idle'[k] - Stall)
        /\ Rate * (idle'[k] - Stall) \in Int
    BY <2>2, Multiply
  <2> HIDE DEF n
  <2>5. n + Rate >= Rate * (idle'[k] - Stall)
    BY <2>1, <2>3, <2>4, Constants
  <2> QED BY <1>2, <2>1, <2>5
<1> QED BY <1>2, <1>3, <1>4, Constants

LEMMA TickWindow ==
  ASSUME LimiterInv, Tick
  PROVE  WindowBound'
<1>0. TypeOK /\ ObjectInv /\ ObjectInv'
  BY Layers, TickObjects
<1>1. CASE audit.client = NoClient
  BY <1>1 DEF Tick, WindowBound
<1>2. CASE audit.client # NoClient
  <2>1. PICK k \in Clients : k = audit.client
    BY <1>0, <1>2 DEF TypeOK
  <2>2. /\ audit.client = k /\ audit'.client = k /\ audit'.ticks = audit.ticks + 1
        /\ audit.admitted \in Nat /\ audit'.admitted = audit.admitted + 0 /\ audit.ticks \in Nat
    BY <1>0, <1>2, <2>1 DEF TypeOK, Tick
  <2>3. /\ Rate * (audit.ticks + 1) = Rate * audit.ticks + Rate /\ Rate * audit.ticks \in Int
        /\ Rate * audit'.ticks \in Int
    BY <2>2, Multiply
  <2>4. Level(k) \in Int /\ Level(k)' \in Int /\ Level(k)' - Level(k) <= Rate
    BY <1>0, TickLevels, LevelType, Constants DEF Refilled
  <2>5. 0 + Level(k)' - Level(k) <= Rate * audit'.ticks - Rate * audit.ticks
    BY <2>2, <2>3, <2>4, Constants
  <2> QED BY <2>2, <2>3, <2>4, <2>5, WindowMoves DEF LimiterInv
<1> QED BY <1>1, <1>2

LEMMA LimiterNext ==
  ASSUME FullWhenEvicted, LimiterInv, [Next]_limiterVars
  PROVE  LimiterInv'
<1>0. ObjectInv /\ TypeOK /\ TableInv'
  BY Layers, TableNext DEF FullWhenEvicted
<1>1. CASE UNCHANGED limiterVars
  BY <1>0, <1>1 DEF LimiterInv, Regained, WindowBound, Level, Present, limiterVars
<1>2. ASSUME NEW t \in Threads, NEW k \in Clients, GetLimiter(t, k) PROVE LimiterInv'
  <2>1. audit' = audit
    BY <1>2 DEF GetLimiter
  <2>2. WindowBound'
    BY <1>0, <1>2, <2>1, GetLimiterLevels, WindowUnchanged
  <2> QED BY <1>0, <1>2, <2>2, GetLimiterRegained DEF LimiterInv
<1>3. ASSUME NEW t \in Threads, Allow(t) PROVE LimiterInv'
  BY <1>0, <1>3, AllowRegained, AllowWindow DEF LimiterInv
<1>4. CASE (\E t \in Threads : Finish(t)) \/ ReadCutoff \/ Close
  BY <1>0, <1>4 DEF LimiterInv, Regained, WindowBound, Level, Present, Finish, ReadCutoff, Close
<1>5. CASE Watch
  <2>1. PICK k \in Clients : audit' = [client |-> k, ticks |-> 0, admitted |-> 0]
    BY <1>5 DEF Watch
  <2>2. Level(k)' = Level(k) /\ Level(k) <= Burst /\ Level(k) \in Int
    BY <1>0, <1>5, LevelType, Constants DEF Watch, Level
  <2>3. Rate * 0 = 0
    BY Constants
  <2>4. audit'.admitted + Level(k)' <= Burst + Rate * audit'.ticks
    BY <2>1, <2>2, <2>3, Constants
  <2>5. WindowBound'
    BY <2>1, <2>4 DEF WindowBound, Level
  <2>6. Regained'
    BY <1>5 DEF LimiterInv, Regained, Present, Watch
  <2> QED BY <1>0, <2>5, <2>6 DEF LimiterInv
<1>6. CASE Sweep
  <2>1. Regained'
    BY <1>6, SweepParts DEF LimiterInv, Regained, Present
  <2>2. WindowBound'
    BY <1>6, SweepParts, SweepLevels, WindowUnchanged
  <2> QED BY <1>0, <2>1, <2>2 DEF LimiterInv
<1>7. CASE Tick
  BY <1>0, <1>7, TickRegained, TickWindow DEF LimiterInv
<1> QED BY <1>1, <1>2, <1>3, <1>4, <1>5, <1>6, <1>7 DEF Next

(* The invariant from which the theorems below follow. *)
THEOREM LimiterInvariant == FullWhenEvicted => (Spec => []LimiterInv)
<1> SUFFICES ASSUME FullWhenEvicted PROVE Spec => []LimiterInv
  OBVIOUS
<1>1. LimiterInv /\ [Next]_limiterVars => LimiterInv'
  BY LimiterNext
<1> QED BY LimiterInit, <1>1, PTL DEF Spec

(* When a bucket refills before it may be evicted, a client is admitted at most
   burst + rps * length requests in any window of time, less what its bucket
   holds: getLimiter, Allow and cleanupLoop, for any number of goroutines.     *)
THEOREM WindowIsBounded == FullWhenEvicted => (Spec => []WindowBound)
<1> SUFFICES ASSUME FullWhenEvicted PROVE Spec => []WindowBound
  OBVIOUS
<1>1. LimiterInv => WindowBound
  BY DEF LimiterInv
<1> QED BY LimiterInvariant, <1>1, PTL

-----------------------------------------------------------------------------
(* Short windows, in every configuration.  An entry goes only when its client has
   not been seen for longer than ttl, so a window shorter than ttl has no more
   than one bucket in it from which requests were admitted.                    *)

Short == audit.client # NoClient /\ audit.ticks + Stall <= Ttl

ShortWindowBound ==
  Short => audit.admitted + Level(audit.client) <= Burst + Rate * audit.ticks

(* Who was admitted in the window has been seen since, but for Stall ticks. *)
SeenInWindow ==
  Short /\ audit.admitted > 0 =>
     Present(audit.client) /\ idle[audit.client] <= audit.ticks + Stall

ShortInv == SeenInWindow /\ ShortWindowBound

LEMMA ShortInit == Init => ShortInv
BY DEF Init, ShortInv, SeenInWindow, ShortWindowBound, Short

(* The bound moves with the level of the watched client's bucket. *)
LEMMA ShortMoves ==
  ASSUME NEW k \in Clients, audit.client = k, audit'.client = k,
         Short' => Short, ShortWindowBound,
         NEW n \in Nat, audit.admitted \in Nat, audit'.admitted = audit.admitted + n,
         Level(k) \in Int, Level(k)' \in Int,
         Rate * audit.ticks \in Int, Rate * audit'.ticks \in Int,
         n + Level(k)' - Level(k) <= Rate * audit'.ticks - Rate * audit.ticks
  PROVE  ShortWindowBound'
<1> SUFFICES ASSUME Short' PROVE audit'.admitted + Level(k)' <= Burst + Rate * audit'.ticks
  BY DEF ShortWindowBound, Level
<1>1. audit.admitted + Level(k) <= Burst + Rate * audit.ticks
  BY DEF ShortWindowBound
<1> QED BY <1>1, Constants

(* A step that keeps the window and the watched client's level and age. *)
LEMMA ShortStays ==
  ASSUME TableInv, ShortInv, audit' = audit,
         \A k \in Clients : Level(k)' = Level(k),
         \A k \in Clients : Present(k) =>
            Present(k)' /\ (idle'[k] = idle[k] \/ idle'[k] = 0)
  PROVE  ShortInv'
<1>1. /\ audit.client \in Clients \cup {NoClient} /\ audit.ticks \in Nat
      /\ Stall \in Nat
  BY Constants DEF TableInv, ObjectInv, TypeOK
<1>2. Short' => Short /\ audit.client \in Clients
  BY <1>1 DEF Short
<1>3. SeenInWindow'
  BY <1>1, <1>2 DEF ShortInv, SeenInWindow
<1>4. ShortWindowBound'
  BY <1>2 DEF ShortInv, ShortWindowBound
<1> QED BY <1>3, <1>4 DEF ShortInv

LEMMA ShortNext ==
  ASSUME Stall <= Ttl, TableInv, ShortInv, [Next]_limiterVars
  PROVE  ShortInv'
<1>0. /\ ObjectInv /\ ObjectInv' /\ TypeOK /\ Stall \in Nat /\ Ttl \in Nat
      /\ audit.client \in Clients \cup {NoClient} /\ audit.ticks \in Nat /\ audit.admitted \in Nat
  BY ObjectNext, Constants DEF TableInv, ObjectInv, TypeOK
<1>1. CASE UNCHANGED limiterVars
  BY <1>1, ShortStays DEF limiterVars, Level, Present
<1>2. ASSUME NEW t \in Threads, NEW k \in Clients, GetLimiter(t, k) PROVE ShortInv'
  <2>1. audit' = audit /\ idle' = [idle EXCEPT ![k] = 0] /\ limiters'[k] # NoLimiter
        /\ \A j \in Clients : j # k => limiters'[j] = limiters[j]
    BY <1>0, <1>2, GetLimiterParts
  <2>2. \A j \in Clients : Level(j)' = Level(j)
    BY <1>0, <1>2, GetLimiterLevels
  <2>3. \A j \in Clients : Present(j) => Present(j)' /\ (idle'[j] = idle[j] \/ idle'[j] = 0)
    BY <1>0, <2>1 DEF Present, TypeOK
  <2> QED BY <2>1, <2>2, <2>3, ShortStays
<1>3. ASSUME NEW t \in Threads, Allow(t) PROVE ShortInv'
  <2>1. PICK k \in Clients : k = client[t]
    BY <1>3, AllowLevels
  <2>2. /\ \A j \in Clients : Present(j)' = Present(j) /\ idle'[j] = idle[j]
        /\ Present(k) /\ idle[k] <= Stall
    <3>1. /\ UNCHANGED <<limiters, idle>> /\ Present(k) /\ idle[k] <= stalled[t]
          /\ stalled[t] \in 0 .. Stall
      BY <1>0, <1>3, <2>1, AllowParts, Constants
         DEF TableInv, HeldRecently, NoOrphans, Present, TypeOK
    <3>2. idle[k] <= Stall
      BY <1>0, <3>1, Entry, Constants
    <3> QED BY <3>1, <3>2 DEF Present
  <2>3. /\ \/ Level(k)' = Level(k) - 1 /\ audit' = Audited(t)
           \/ Level(k)' = Level(k) /\ audit' = audit
        /\ \A j \in Clients : j # k => Level(j)' = Level(j)
    BY <1>0, <1>3, <2>1, AllowParts, AllowLevels
  <2>4. CASE audit' = audit /\ \A j \in Clients : Level(j)' = Level(j)
    BY <2>2, <2>4, ShortStays
  <2>5. CASE audit.client = k /\ audit' = Audited(t) /\ Level(k)' = Level(k) - 1
    <3>1. audit'.client = k /\ audit'.ticks = audit.ticks /\ audit'.admitted = audit.admitted + 1
      BY <1>0, <2>1, <2>5 DEF Audited, TypeOK
    <3>2. Short' <=> Short
      BY <2>5, <3>1 DEF Short
    <3>3. Rate * audit.ticks \in Int /\ Rate * audit'.ticks \in Int
      BY <1>0, <3>1, Multiply
    <3>4. Level(k) \in Int /\ Level(k)' \in Int
      BY <1>0, <2>5, LevelType, Constants
    <3>5. 1 + Level(k)' - Level(k) <= Rate * audit'.ticks - Rate * audit.ticks
      BY <2>5, <3>1, <3>3, <3>4
    <3>6. ShortWindowBound'
      BY <1>0, <2>5, <3>1, <3>2, <3>3, <3>4, <3>5, ShortMoves DEF ShortInv
    <3>7. SeenInWindow'
      <4>1. idle'[k] <= audit.ticks + Stall
        BY <1>0, <2>2, Entry, Constants
      <4> QED BY <2>2, <3>1, <4>1 DEF SeenInWindow
    <3> QED BY <3>6, <3>7 DEF ShortInv
  <2>6. CASE /\ audit.client # k /\ audit' = Audited(t)
             /\ \A j \in Clients : j # k => Level(j)' = Level(j)
    <3>1. audit' = audit
      BY <2>1, <2>6 DEF Audited
    <3>2. Short' <=> Short
      BY <3>1 DEF Short
    <3>3. SeenInWindow'
      BY <1>0, <2>2, <3>1, <3>2 DEF ShortInv, SeenInWindow, Short
    <3>4. ShortWindowBound'
      BY <1>0, <2>6, <3>1, <3>2 DEF ShortInv, ShortWindowBound, Short
    <3> QED BY <3>3, <3>4 DEF ShortInv
  <2> QED BY <2>3, <2>4, <2>5, <2>6
<1>4. CASE (\E t \in Threads : Finish(t)) \/ ReadCutoff \/ Close
  <2>1. UNCHANGED <<limiters, idle, tokens, audit>>
    BY <1>4 DEF Finish, ReadCutoff, Close
  <2> QED BY <2>1, ShortStays DEF Level, Present
<1>5. CASE Watch
  <2>1. PICK k \in Clients : audit' = [client |-> k, ticks |-> 0, admitted |-> 0]
    BY <1>5 DEF Watch
  <2>2. Level(k)' = Level(k) /\ Level(k) <= Burst /\ Level(k) \in Int
    BY <1>0, <1>5, LevelType, Constants DEF Watch, Level
  <2>3. Rate * 0 = 0
    BY Constants
  <2>4. audit'.admitted + Level(k)' <= Burst + Rate * audit'.ticks
    BY <2>1, <2>2, <2>3, Constants
  <2>5. ShortWindowBound'
    BY <2>1, <2>4 DEF ShortWindowBound, Level
  <2>6. SeenInWindow'
    BY <2>1 DEF SeenInWindow
  <2> QED BY <2>5, <2>6 DEF ShortInv
<1>6. CASE Sweep
  <2>1. audit' = audit /\ tokens' = tokens
    BY <1>6, SweepParts
  <2> SUFFICES ASSUME Short
               PROVE  /\ audit.admitted + Level(audit.client)' <= Burst + Rate * audit.ticks
                      /\ audit.admitted > 0 =>
                           Present(audit.client)' /\ idle'[audit.client] <= audit.ticks + Stall
    BY <2>1 DEF ShortInv, ShortWindowBound, SeenInWindow, Short, Level, Present
  <2> DEFINE k == audit.client
  <2>2. k \in Clients
    BY <1>0 DEF Short
  <2>3. CASE Present(k) /\ Stale(k)
    <3>1. idle[k] \in Nat /\ idle[k] > Ttl
      BY <1>0, <2>2, <2>3, Entry, Constants DEF Stale, TypeOK
    <3>2. audit.admitted = 0
      BY <1>0, <3>1 DEF ShortInv, SeenInWindow, Short
    <3>3. Level(k)' = Burst
      BY <1>6, <2>1, <2>2, <2>3 DEF Sweep, Level
    <3>4. Rate * audit.ticks \in Int /\ Rate * audit.ticks >= 0
      BY <1>0, Constants
    <3> QED BY <2>1, <3>2, <3>3, <3>4, Constants DEF Level
  <2>4. CASE ~(Present(k) /\ Stale(k))
    <3>1. limiters'[k] = limiters[k] /\ (Present(k) => idle'[k] = idle[k])
      BY <1>6, <2>2, <2>4 DEF Sweep, Present
    <3>2. Level(k)' = Level(k) /\ Present(k)' = Present(k)
      BY <2>1, <3>1 DEF Level, Present
    <3> QED BY <2>1, <3>1, <3>2 DEF ShortInv, ShortWindowBound, SeenInWindow
  <2> QED BY <2>3, <2>4
<1>7. CASE Tick
  <2>1. CASE audit.client = NoClient
    BY <1>7, <2>1 DEF Tick, ShortInv, ShortWindowBound, SeenInWindow, Short
  <2>2. CASE audit.client # NoClient
    <3>1. PICK k \in Clients : k = audit.client
      BY <1>0, <2>2
    <3>2. /\ audit.client = k /\ audit'.client = k /\ audit'.ticks = audit.ticks + 1
          /\ audit'.admitted = audit.admitted + 0
      BY <1>0, <1>7, <2>2, <3>1 DEF TypeOK, Tick
    <3>3. Short' => Short
      BY <1>0, <3>2 DEF Short
    <3>4. /\ Rate * (audit.ticks + 1) = Rate * audit.ticks + Rate /\ Rate * audit.ticks \in Int
          /\ Rate * audit'.ticks \in Int
      BY <1>0, <3>2, Multiply
    <3>5. Level(k) \in Int /\ Level(k)' \in Int /\ Level(k)' - Level(k) <= Rate
      BY <1>0, <1>7, TickLevels, LevelType, Constants DEF Refilled
    <3>6. 0 + Level(k)' - Level(k) <= Rate * audit'.ticks - Rate * audit.ticks
      BY <3>2, <3>4, <3>5, Constants
    <3>7. ShortWindowBound'
      BY <1>0, <3>2, <3>3, <3>4, <3>5, <3>6, ShortMoves DEF ShortInv
    <3>8. SeenInWindow'
      <4> SUFFICES ASSUME Short, audit.admitted > 0
                   PROVE  Present(k)' /\ idle'[k] <= audit'.ticks + Stall
        BY <1>0, <3>2, <3>3 DEF SeenInWindow
      <4>1. Present(k) /\ idle[k] <= audit.ticks + Stall
        BY <3>2 DEF ShortInv, SeenInWindow
      <4>2. Present(k)'
        BY <1>7, <4>1 DEF Tick, Present
      <4>3. idle'[k] <= idle[k] + 1 /\ idle[k] \in Nat /\ idle'[k] \in Nat
        BY <1>0, <1>7, <4>1, Aging, Constants
      <4> QED BY <1>0, <3>2, <4>1, <4>2, <4>3
    <3> QED BY <3>7, <3>8 DEF ShortInv
  <2> QED BY <2>1, <2>2
<1> QED BY <1>1, <1>2, <1>3, <1>4, <1>5, <1>6, <1>7 DEF Next

(* For any rate, burst and ttl, also those with which an evicted client comes back
   to a full bucket too early: in a window shorter than ttl a client is admitted
   at most burst + rps * length requests.  Only longer windows can hold more.  *)
THEOREM ShortWindowsAreBounded == Stall <= Ttl => (Spec => []ShortWindowBound)
<1> SUFFICES ASSUME Stall <= Ttl PROVE Spec => []ShortWindowBound
  OBVIOUS
<1>1. TableInv /\ ShortInv /\ [Next]_limiterVars => ShortInv'
  BY ShortNext
<1>2. ShortInv => ShortWindowBound
  BY DEF ShortInv
<1> QED BY TableInvariant, ShortInit, <1>1, <1>2, PTL DEF Spec

-----------------------------------------------------------------------------
(* The table implements one permanent bucket per client: each step of the
   limiter is a step of TokenBucket or leaves its variables unchanged.         *)

LEMMA BucketInit == Init => Buckets!Init
BY Constants DEF Init, Buckets!Init, Level

LEMMA BucketStep ==
  ASSUME FullWhenEvicted, LimiterInv, [Next]_limiterVars
  PROVE  [Buckets!Next]_Buckets!bucketVars
<1> DEFINE bucket == [k \in Clients |-> Level(k)]
<1>0. ASSUME \A k \in Clients : Level(k)' = Level(k) PROVE bucket' = bucket
  BY <1>0
<1>10. TableInv /\ ObjectInv
  BY Layers
<1>1. CASE UNCHANGED limiterVars
  BY <1>1 DEF limiterVars, Level, Buckets!bucketVars
<1>2. ASSUME NEW t \in Threads, NEW k \in Clients, GetLimiter(t, k) PROVE Buckets!Next
  <2>1. bucket' = bucket
    BY <1>0, <1>2, <1>10, GetLimiterLevels
  <2>2. Buckets!Arrive(t, k)
    BY <1>2, <2>1 DEF GetLimiter, Buckets!Arrive
  <2> QED BY <2>2 DEF Buckets!Next
<1>3. ASSUME NEW t \in Threads, Allow(t) PROVE Buckets!Next
  <2>1. PICK k \in Clients : k = client[t]
    BY <1>3, <1>10, AllowLevels
  <2>2. /\ client' = client /\ outcome[t] = "none" /\ k # NoClient
        /\ \A j \in Clients : j # k => Level(j)' = Level(j)
        /\ \/ /\ Level(k) > 0 /\ outcome' = [outcome EXCEPT ![t] = "admitted"]
              /\ Level(k)' = Level(k) - 1
           \/ /\ Level(k) = 0 /\ outcome' = [outcome EXCEPT ![t] = "refused"]
              /\ Level(k)' = Level(k)
    BY <1>3, <1>10, <2>1, AllowLevels, Constants DEF Allow
  <2>3. CASE Level(k) > 0 /\ Level(k)' = Level(k) - 1 /\ outcome' = [outcome EXCEPT ![t] = "admitted"]
    <3>1. bucket' = [bucket EXCEPT ![k] = @ - 1]
      BY <2>2, <2>3
    <3>2. Buckets!Admit(t)
      BY <2>1, <2>2, <2>3, <3>1 DEF Buckets!Admit
    <3> QED BY <3>2 DEF Buckets!Next
  <2>4. CASE Level(k) = 0 /\ Level(k)' = Level(k) /\ outcome' = [outcome EXCEPT ![t] = "refused"]
    <3>1. bucket' = bucket
      BY <1>0, <2>2, <2>4
    <3>2. Buckets!Refuse(t)
      BY <2>1, <2>2, <2>4, <3>1 DEF Buckets!Refuse
    <3> QED BY <3>2 DEF Buckets!Next
  <2> QED BY <2>2, <2>3, <2>4
<1>4. ASSUME NEW t \in Threads, Finish(t) PROVE Buckets!Next
  <2>1. bucket' = bucket
    BY <1>4 DEF Finish, Level
  <2>2. Buckets!Finish(t)
    BY <1>4, <2>1 DEF Finish, Buckets!Finish
  <2> QED BY <2>2 DEF Buckets!Next
<1>5. CASE Sweep
  <2>1. bucket' = bucket
    BY <1>0, <1>5, SweepLevels
  <2> QED BY <1>5, <2>1 DEF Sweep, Buckets!bucketVars
<1>6. CASE ReadCutoff \/ Close \/ Watch
  BY <1>6 DEF ReadCutoff, Close, Watch, Level, Buckets!bucketVars
<1>7. CASE Tick
  <2>1. \A k \in Clients : Level(k)' = Refilled(Level(k))
    BY <1>7, <1>10, TickLevels
  <2>2. bucket' = [k \in Clients |-> Refilled(bucket[k])]
    BY <2>1
  <2>3. Buckets!Refill
    BY <1>7, <2>2 DEF Tick, Buckets!Refill, Buckets!Refilled, Refilled
  <2> QED BY <2>3 DEF Buckets!Next
<1> QED BY <1>1, <1>2, <1>3, <1>4, <1>5, <1>6, <1>7 DEF Next

(* Eviction is invisible: RateLimiter implements TokenBucket. *)
THEOREM EvictionIsInvisible == FullWhenEvicted => (Spec => ImplementsTokenBucket)
<1> SUFFICES ASSUME FullWhenEvicted PROVE Spec => ImplementsTokenBucket
  OBVIOUS
<1>1. LimiterInv /\ [Next]_limiterVars => [Buckets!Next]_Buckets!bucketVars
  BY BucketStep
<1> QED BY LimiterInvariant, BucketInit, <1>1, PTL DEF Spec, ImplementsTokenBucket, Buckets!Spec
=============================================================================
