CONSTANTS
  Names = {"x", "f", "g"}
  Statements <- AllStatements
  MaxLength = 3
  MaxUnits = 2
  MaxDepth = 2
  MayRaise = TRUE
  MayRestart = TRUE
SPECIFICATION Spec
INVARIANTS
  SoundUntilFault
  ScopeDescribesMain
  OnlyCompiledUnitsDeclare
  NoNestedValidation
  RunsOnlyValidated
PROPERTIES
  DeclarationsAreKept
CHECK_DEADLOCK FALSE
