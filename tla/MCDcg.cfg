SPECIFICATION Spec
CONSTANTS
  Lower = {"a", "q", "r"}
  Upper = {"Q"}
  Digits = {"1"}
  Sources <- MCSources
  Inputs <- MCInputs
CHECK_DEADLOCK FALSE
INVARIANTS
  LanguageKept
  RefusedWhereWrong
