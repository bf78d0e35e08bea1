CONSTANTS
  None = None
  GPUs = {"g0", "g1"}
  First = "g0"
  Simulations = {"s"}
  Derivations = {"d"}
  Studies <- SomeStudies
  Aborts = {"launch", "lock", "publish", "schedule", "finalize"}
  Deaths = 1
  Signals = TRUE
  Kills = TRUE
  Invocations = 2
  Losses = 1

SPECIFICATION FairSpec
INVARIANTS
  NeverTwice
  ReportedIsDurable
  NothingIsForgotten
  AccountsAreHonest
PROPERTIES
  EveryInvocationEnds
CHECK_DEADLOCK FALSE
