SPECIFICATION Spec
CONSTANTS
  Agents = {a1, a2, a3}
  a1 = a1
  a2 = a2
  a3 = a3
  Threads <- Uneven
  Mul <- UnevenMul
  Options <- Matching
  Conns = 2
  Servers = 2
  OwnConns = 1
  Garbage <- Junk
  PollMaxGiven = FALSE
  PollMax = 120
  PollFreq = 1
  MayCrash = {}
  Rounds = 2
INVARIANTS
  InStep
  Together
  LambdaDenomExact
  StatsComplete
  AgentsReady
  NobodyDies
