SPECIFICATION FairSpec
CONSTANTS
  Configs <- MCConfigs
  Requests = {r1, r2}
  Goals = 1
  Overtakes = 1
  Grace = 4
  ReadHeaderTimeout = 1
  ReadTimeout = 2
  WriteTimeout = 5
  PingTimeout = 1
  DefaultRulesTimeout = 1
  DefaultRequestTimeout = 1
CHECK_DEADLOCK FALSE
INVARIANTS
  TypeOK
  CutOnlyAfterGrace
  ShortRequestsFinish
  LostOnlyIfSlow
PROPERTY
  Stops
