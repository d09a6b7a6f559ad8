CONSTANTS
  Names = {"x", "f", "g"}
  Statements <- SessionStatements
  MaxLength = 1
  MaxUnits = 2
  MaxDepth = 2
  MayRaise = FALSE
  MayRestart = TRUE
SPECIFICATION Spec
INVARIANTS
  NothingGoesWrong
CHECK_DEADLOCK FALSE
