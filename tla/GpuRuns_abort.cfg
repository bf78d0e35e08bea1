CONSTANTS
  None = None
  GPUs = {"g0", "g1"}
  First = "g0"
  Simulations = {"s"}
  Derivations = {"d"}
  Studies <- SomeStudies
  Aborts = {"schedule"}
  Deaths = 0
  Signals = FALSE
  Kills = FALSE
  Invocations = 2
  Losses = 0

SPECIFICATION Spec

INVARIANTS
  LockCoversWork
CHECK_DEADLOCK FALSE
