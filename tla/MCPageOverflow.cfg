SPECIFICATION Spec
CONSTANTS
  Default = Default
  Granted = Granted
  Foreign = Foreign
  Absent = Absent
  Unsized = Unsized
  Fields <- MCFields
  Last = "last"
  Score = "_score"
  Empty = ""
  TimeField = "published_at"
  Indices <- MCIndices
  DefaultIndex = Default
  NoIndex = Absent
  AllowedIndices = {Granted}
  DefaultSize = 2
  MaxSize = 4
  MaxFrom = 10
  NoSize = Unsized
  IntMax <- MCIntMax
  Requests <- MCRequests
  Bases <- MCBases
CHECK_DEADLOCK FALSE
INVARIANT
  PageBounded
