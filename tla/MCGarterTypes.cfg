CONSTANTS
  ExprTypes <- AllTypes
  DeclTypes <- Targets
  TypeSet <- AllParts
  Depth <- Nesting
  Fields <- AllFields
  MaxElements = 3
SPECIFICATION TypingSpec
INVARIANTS
  ElementsFit
  DeclaredElementsFit
  SubsumptionIsSubstitution
CHECK_DEADLOCK FALSE
