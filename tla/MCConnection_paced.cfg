SPECIFICATION Spec
CONSTANTS
  Depth = 2
  Records = 1
  LoaderChunk = 1
  Loads = FALSE
  LoadOnly = FALSE
  Warmup = 0
  Time = 6
  Delays <- PositiveDelay
  Workload <- GetOnly
  Binary = FALSE
  Sasl = FALSE
  Trace = TRUE
  Blocking = FALSE
  ModerateGap = 1
  Skip = TRUE
  SkipLate = 2
  SkipCatchup = 1
  MaxOps = 9
INVARIANTS
  NeverAheadOfSchedule
  NoLostWakeup
PROPERTIES
  SkipCatchesUp
