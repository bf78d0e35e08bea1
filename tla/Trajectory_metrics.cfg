CONSTANTS
  g1 = g1
  g2 = g2
  g3 = g3
  g4 = g4
  None = None
  Budgets = {2}
  Every = 1
  MaxRows = 1
  Keep = 1
  Draws = {0}
  Extendable = TRUE
  Generation <- Generations3
  Faults = {}
  MetricSets = {{"m1"}, {"m1", "m2"}}
  RawRetention = {"until_analyzed"}
  MetricRetention = {"keep", "until_aggregated"}
  Interruptions = {"pause", "raise"}
SPECIFICATION TFairSpec
INVARIANTS
  AnalyzedBeforeRemoval
PROPERTIES
  RemovalIsNotDamage
  AnalysisCompletes
  RemovalCompletes
