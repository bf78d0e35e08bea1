CONSTANTS
  g1 = g1
  g2 = g2
  g3 = g3
  g4 = g4
  None = None
  Budgets = {1, 2}
  Every = 1
  MaxRows = 2
  Keep = 1
  Draws = {0}
  Extendable = TRUE
  Generation <- Generations4
  Faults = {}
  MetricSets = {{"m1"}}
  RawRetention = {"keep", "until_analyzed"}
  MetricRetention = {"keep"}
  Interruptions = {}
SYMMETRY Symmetry
SPECIFICATION TSpec
INVARIANTS
  DeletionIsProven
PROPERTIES
  EvidenceIsKept
