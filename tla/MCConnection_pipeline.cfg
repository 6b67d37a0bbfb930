SPECIFICATION Spec
CONSTANTS
  Depth = 2
  Records = 2
  LoaderChunk = 1
  Loads = TRUE
  LoadOnly = FALSE
  Warmup = 1
  Time = 1
  Delays <- SomeDelay
  Workload <- GetSetMulti
  Binary = FALSE
  Sasl = FALSE
  Trace = FALSE
  Blocking = FALSE
  ModerateGap = 0
  Skip = FALSE
  SkipLate = 0
  SkipCatchup = 0
  MaxOps = 3
INVARIANTS
  TypeOK
  ReplyMatchesHead
  IdleMeansDrained
  PipelineDepth
  NoLostWakeup
PROPERTIES
  EachValueLogged
  ImplementsPipeline
