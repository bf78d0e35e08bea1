CONSTANTS
  None = None
  Specs <- TwoSpecs
  Variants <- ThreeVariants
  Current <- CurrentOf
  Legacy <- LegacyOf
  Instances = {"i"}
  InstanceOf <- Shared
  Plans <- Both
  Scopes = {"runs", "inactive", "checkpoints", "all"}
  Boundaries = 1
  Workers = {"w1"}
  Retained = {"a0"}
  Snapshots = TRUE

SPECIFICATION Spec
INVARIANTS
  ProgressIsBacked
  SnapshotIsCommitted
  OnlyInterruptedRemovalsHurt
PROPERTIES
  CompletedStays
CHECK_DEADLOCK FALSE
