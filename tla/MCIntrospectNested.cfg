SPECIFICATION Spec
CONSTANTS
  Names <- MCNames
  Types <- MCTypes
  Untyped = ""
  Indices = {"docs", "logs"}
  DefaultIndex = "docs"
  AllowedIndices = {}
  TimeField <- MCTimeField
  Mappings <- MCMappings
  First <- MCFirst
  Later <- MCLater
  Bodies <- MCBodies
  Several = Several
  HandKnown <- MCHandKnown
  HandNumeric <- MCHandNumeric
  HandDate = {}
  Cuts = {3}
  Missing = Missing
  Torn = Torn

INVARIANT
  AdviceAccepted
