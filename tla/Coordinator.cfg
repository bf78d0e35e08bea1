CONSTANTS
  None = None
  Runs <- ThreeRuns
  Unit <- TwoUnits
  Metrics <- TwoMetrics
  Descriptor <- Distinct
  Figures = {"f1", "f2"}
  Draws <- TwoFigures
  StreakLimit = 2
  AgeLimit = 2
  Studies <- SomeStudies
  Workers = 2
  Revisions = {1, 2}
SPECIFICATION CFairSpec
INVARIANTS
  InputsArePresent
  ReportIsTrue
  WorkIsNotRepeated
  DemandIsExact
PROPERTIES
  RemovalIsCovered
  InvocationsEnd
  RequestsAreSatisfied
