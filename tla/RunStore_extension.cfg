CONSTANTS
  g1 = g1
  g2 = g2
  g3 = g3
  g4 = g4
  None = None
  Budgets = {1, 2}
  Every = 1
  MaxRows = 2
  Keep = 2
  Draws = {0, 1}
  Extendable = TRUE
  Generation <- Generations4
  Faults = {"decode"}
SYMMETRY Symmetry
SPECIFICATION Spec
INVARIANTS
  TypeOK
  CompletedReadable
  BoundaryConsistent
  SomeResumePoint
  OutcomesAreTold
PROPERTIES
  Promised
