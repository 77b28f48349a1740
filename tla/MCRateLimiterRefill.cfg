SPECIFICATION Spec
CONSTANTS
  k1 = k1
  t1 = t1
  l1 = l1
  l2 = l2
  NoClient = NoClient
  NoLimiter = NoLimiter
  Unseen = Unseen
  Clients <- MCClients
  Threads <- MCThreads
  Limiters <- MCLimiters
  Rate = 1
  Burst = 6
  Ttl = 3
  Stall = 1
  Window = 6
INVARIANT
  RateLimited
