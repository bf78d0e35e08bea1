CONSTANTS
  None = None
  Runs = {"r1", "r2"}
  Derived = {"d"}
  Workers = {"p1", "p2"}
  Capacity = 2
  Settings <- SomeSettings

SPECIFICATION FairSpec
INVARIANTS
  RowsTellOutcomes
  MessagesAreTrue
  SummaryIsTrue
PROPERTIES
  InvocationEnds
CHECK_DEADLOCK FALSE
