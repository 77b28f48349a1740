SPECIFICATION Spec
CONSTANTS
  k1 = k1
  k2 = k2
  t1 = t1
  t2 = t2
  l1 = l1
  l2 = l2
  l3 = l3
  l4 = l4
  NoClient = NoClient
  NoLimiter = NoLimiter
  Unseen = Unseen
  Clients <- MCClients
  Threads <- MCThreads
  Limiters <- MCLimiters
  Rate = 1
  Burst = 2
  Ttl = 3
  Stall = 1
  Window = 4
SYMMETRY MCSymmetry
INVARIANTS
  TypeOK
  NoOrphans
  WindowBound
  IdleReclaimed
PROPERTY
  ImplementsTokenBucket
