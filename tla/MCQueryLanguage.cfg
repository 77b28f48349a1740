SPECIFICATION Spec
CONSTANTS
  Names <- MCNames
  Words <- MCWords
  Wildcards = {"w*"}
  Numbers = {"2", "1.5"}
  Whole = {"2"}
  Strings <- MCStrings
  Unquoted <- MCUnquoted
  Canonical <- MCCanonical
  Queries <- MCQueries
  Others <- MCOthers
  Write <- MCWrite
  ParseExpression <- ParseExpressionDef
  ParseAndOps <- ParseAndOpsDef
  ParseOrOps <- ParseOrOpsDef
  WalkClauses <- MCWalkClauses
  BuildExpression <- MCBuildExpression
  Matches <- MCMatches
  Clauses <- MCClauses
  Leaves <- MCLeaves
  Holds <- MCHolds
  Exprs <- MCExprs
  Height <- MCHeight
CHECK_DEADLOCK FALSE
INVARIANTS
  TypeOK
  NothingIgnored
  ReadAsMeant
  SelectsAsMeant
  WalkReachesAll
  LeavesDocumented
