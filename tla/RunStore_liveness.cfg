CONSTANTS
  g1 = g1
  g2 = g2
  g3 = g3
  g4 = g4
  None = None
  Budgets = {1, 3}
  Every = 1
  MaxRows = 2
  Keep = 1
  Draws = {0}
  Extendable = TRUE
  Generation <- Generations3
  Faults = {"rot", "rot_completed"}
SPECIFICATION FairSpec
PROPERTIES
  CompletedFilesKept
  EventuallyCompleted
