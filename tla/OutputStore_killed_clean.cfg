CONSTANTS
  None = None
  Specs <- TwoSpecs
  Variants <- ThreeVariants
  Current <- CurrentOf
  Legacy <- LegacyOf
  Instances = {"i"}
  InstanceOf <- Shared
  Plans <- Both
  Scopes = {"runs"}
  Boundaries = 1
  Workers = {"w1"}
  Retained = {}
  Snapshots = FALSE

SPECIFICATION Spec

INVARIANTS
  ActiveReferencesResolve
CHECK_DEADLOCK FALSE
