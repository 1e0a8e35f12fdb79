SPECIFICATION Spec
CONSTANTS
  Jobs = {j1}
  Deliveries = {x1, x2}
  MaxAttempts = 4
  BaseDelayMs = 1000
  BackoffMultiplier = 2
  MaxDelayMs = 3000
  MaxFaults = 2
INVARIANTS
  TypeOK
  OneCopyUnlessLost
  AttemptsAreEarned
  TriesAreBounded
  DelaysBackOff
PROPERTIES
  DeliversAtLeastOnce
  JobsSettle
CHECK_DEADLOCK FALSE
