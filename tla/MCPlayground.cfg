SPECIFICATION FairSpec
CONSTANTS
  q1 = q1
  q2 = q2
  bad = bad
  None = None
  Queries <- MCQueries
  Valid <- MCValid
  MaxRevision = 4
  MaxWrites = 2
CHECK_DEADLOCK FALSE
INVARIANTS
  TypeOK
  CopyMatchesBox
  BusyWhilePending
  PanelCurrent
  TimeoutHonest
  CopiedHonest
PROPERTY
  ButtonReturns
