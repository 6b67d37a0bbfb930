SPECIFICATION FairSpec
CONSTANTS
  Depth = 2
  Records = 4
  LoaderChunk = 2
  Loads = TRUE
  LoadOnly = FALSE
  Warmup = 1
  Time = 1
  Delays <- SomeDelay
  Workload <- GetSet
  Binary = TRUE
  Sasl = TRUE
  Trace = FALSE
  Blocking = TRUE
  ModerateGap = 0
  Skip = FALSE
  SkipLate = 0
  SkipCatchup = 0
  MaxOps = 3
INVARIANTS
  ReplyMatchesHead
  LoaderWindow
PROPERTIES
  Termination
