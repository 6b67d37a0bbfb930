SPECIFICATION FairSpec
CONSTANTS
  Agents = {a1, a2, a3}
  a1 = a1
  a2 = a2
  a3 = a3
  Threads <- One
  Mul <- One
  Options <- Plain
  Conns = 1
  Servers = 1
  OwnConns = 1
  Garbage <- Junk
  PollMaxGiven = TRUE
  PollMax = 120
  PollFreq = 1
  MayCrash = {a1}
  Rounds = 2
INVARIANTS
  TypeOK
  InStep
PROPERTIES
  ImplementsRendezvous
  MasterEnds
