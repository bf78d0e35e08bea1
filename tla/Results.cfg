CONSTANTS
  None = None
  Scale = 6
  Continuing = {"learner", "stationary_bandit", "nonstationary_bandit", "gymnasium", "online", "rl"}
  Studies <- SomeStudies

SPECIFICATION Spec
INVARIANTS
  ResultsAreReproducible
  DataIsPaired
  AnalysisIsTrue
