CONSTANTS
  Futures = {1, 2}
  Clients = {Main, Other, Third}
  Main = Main
  Other = Other
  Third = Third
  Workers = {w1, w2}
  Nobody = Nobody
  Programs <- MCPrograms
SPECIFICATION FairSpec
INVARIANTS
  SleepersHaveReason
  CallbacksAreCalled
PROPERTIES
  OneOutcome
  EverythingEnds
CHECK_DEADLOCK FALSE
