CONSTANTS
  Names = {"x", "f"}
  Statements <- ShadowStatements
  MaxLength = 3
  MaxUnits = 1
  MaxDepth = 2
  MayRaise = FALSE
  MayRestart = FALSE
SPECIFICATION Spec
INVARIANTS
  SoundUntilFault
CHECK_DEADLOCK FALSE
