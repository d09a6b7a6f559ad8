CONSTANTS
  ExprTypes <- Holes
  DeclTypes <- Targets
  TypeSet <- AllParts
  Depth <- Nesting
  Fields <- AllFields
  MaxElements = 3
SPECIFICATION TypingSpec
INVARIANTS
  MergeAnswers
CHECK_DEADLOCK FALSE
