CONSTANTS
  Runs <- Runs4
  Unit <- Unit4
  StreakLimit = 8
  AgeLimit = 4
  Workers = 2
  Slots = 1
  Earlier <- Earlier6
SPECIFICATION LFairSpec
INVARIANTS
  WaitIsBounded
  UnitsAreClosed
PROPERTIES
  KindsAreServed
