SPECIFICATION FairSpec
CONSTANTS
  c1 = c1
  c2 = c2
  Callers <- MCCallers
  Calls <- MCCalls
  Bases <- MCBases
  Fields <- MCFields
  Timeout <- MCTimeout
  Overtakes <- MCOvertakes
INVARIANTS
  TypeOK
  OneSession
  BoundedCall
  ErrorsHaveACause
PROPERTIES
  ImplementsOracle
  CallsReturn
