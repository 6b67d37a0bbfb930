SPECIFICATION Spec
CONSTANTS
  Depth = 2
  Records = 1
  LoaderChunk = 1
  Loads = FALSE
  LoadOnly = FALSE
  Warmup = 0
  Time = 1
  Delays <- SomeDelay
  Workload <- MultigetOnly
  Binary = TRUE
  Sasl = FALSE
  Trace = FALSE
  Blocking = FALSE
  ModerateGap = 0
  Skip = FALSE
  SkipLate = 0
  SkipCatchup = 0
  MaxOps = 3
INVARIANTS
  IdleMeansDrained
