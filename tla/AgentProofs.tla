----------------------------- MODULE AgentProofs ------------------------------
(***************************************************************************)
(* Proofs about AgentProtocol, for every value of its constants.           *)
(***************************************************************************)
EXTENDS AgentInvariant, FoldProofs, SequenceTheorems

-----------------------------------------------------------------------------
(* Lists and messages.                                                     *)

\* Removing the i-th element moves those behind it forward.
LEMMA RemoveAtList ==
  ASSUME NEW S, NEW q \in Seq(S), NEW i \in 1..Len(q)
  PROVE  /\ RemoveAt(q, i) \in Seq(S)
         /\ Len(RemoveAt(q, i)) = Len(q) - 1
         /\ \A j \in 1..Len(q) - 1 :
              RemoveAt(q, i)[j] = IF j < i THEN q[j] ELSE q[j + 1]
<1> DEFINE s == SubSeq(q, 1, i - 1)
           t == SubSeq(q, i + 1, Len(q))
<1>1. /\ s \in Seq(S) /\ Len(s) = i - 1
      /\ \A j \in 1..(i - 1) : s[j] = q[j]
  BY SubSeqProperties, LenProperties
<1>2. /\ t \in Seq(S) /\ Len(t) = Len(q) - i
      /\ \A j \in 1..(Len(q) - i) : t[j] = q[i + j]
  BY SubSeqProperties, LenProperties
<1>3. /\ s \o t \in Seq(S) /\ Len(s \o t) = Len(s) + Len(t)
      /\ \A j \in 1..(Len(s) + Len(t)) :
           (s \o t)[j] = IF j <= Len(s) THEN s[j] ELSE t[j - Len(s)]
  BY <1>1, <1>2, ConcatProperties
<1>4. RemoveAt(q, i) = s \o t
  BY DEF RemoveAt
<1> HIDE DEF s, t
<1>5. Len(s) + Len(t) = Len(q) - 1 /\ Len(q) \in Nat
  BY <1>1, <1>2, LenProperties
<1>6. ASSUME NEW j \in 1..Len(q) - 1
      PROVE  (s \o t)[j] = IF j < i THEN q[j] ELSE q[j + 1]
  <2>1. CASE j < i
    BY <2>1, <1>1, <1>3, <1>5
  <2>2. CASE ~(j < i)
    <3>1. (s \o t)[j] = t[j - (i - 1)]
      BY <2>2, <1>1, <1>3, <1>5
    <3>2. j - (i - 1) \in 1..(Len(q) - i) /\ i + (j - (i - 1)) = j + 1
      BY <2>2, <1>5
    <3> QED
      BY <1>2, <3>1, <3>2, <2>2
  <2> QED
    BY <2>1, <2>2
<1> QED
  BY <1>3, <1>4, <1>5, <1>6

\* A sequence that SetToSeqs makes of the agents lists each of them once.
LEMMA AllListed ==
  ASSUME NEW q \in SetToSeqs(Agents)
  PROVE  /\ q \in Seq(Agents)
         /\ Range(q) = Agents
         /\ \A i, j \in 1..Len(q) : q[i] = q[j] => i = j
<1> DEFINE n == Cardinality(Agents)
<1>1. n \in Nat
  BY FS_CardinalityType, AgentsAssumption
<1>2. /\ q \in [1..n -> Agents]
      /\ \A i, j \in 1..n : i # j => q[i] # q[j]
  BY DEF SetToSeqs
<1> HIDE DEF n
<1>3. q \in Seq(Agents) /\ Len(q) = n
  BY <1>1, <1>2
<1>4. q \in Injection(1..n, Agents)
  BY <1>2 DEF Injection, IsInjective
<1>5. Cardinality(1..n) = n
  BY <1>1, FS_Interval
<1>6. q \in Surjection(1..n, Agents)
  BY <1>4, <1>5, FS_Injection, AgentsAssumption DEF n
<1>7. \A a \in Agents : \E i \in 1..n : q[i] = a
  BY <1>6 DEF Surjection
<1>8. Range(q) = {q[i] : i \in 1..n}
  BY <1>2 DEF Range
<1>9. Range(q) = Agents
  BY <1>2, <1>7, <1>8
<1> QED
  BY <1>2, <1>3, <1>9

\* The agents of a list are those at its indices.
LEMMA Listed ==
  ASSUME NEW q \in Seq(Agents)
  PROVE  /\ Range(q) = {q[i] : i \in 1..Len(q)}
         /\ \A i \in 1..Len(q) : q[i] \in Agents
         /\ Len(q) \in Nat
<1>1. DOMAIN q = 1..Len(q) /\ Len(q) \in Nat
  BY LenProperties
<1>2. Range(q) = {q[i] : i \in 1..Len(q)}
  BY <1>1 DEF Range
<1> QED
  BY <1>1, <1>2, ElementOfSeq

\* Whose turn it is: an agent of the list, while the turn is within the list.
LEMMA Turns ==
  ASSUME TypeOK
  PROVE  /\ Len(active) \in Nat /\ turn \in 1..Len(active) + 1
         /\ AtTurn => turn \in 1..Len(active) /\ Current \in Agents
         /\ Range(active) \subseteq Agents
<1>1. active \in Seq(Agents) /\ turn \in 1..Len(active) + 1
  BY DEF TypeOK
<1>2. /\ Len(active) \in Nat
      /\ \A i \in 1..Len(active) : active[i] \in Agents
      /\ Range(active) = {active[i] : i \in 1..Len(active)}
  BY <1>1, Listed
<1>3. AtTurn => turn \in 1..Len(active)
  BY <1>1, <1>2 DEF AtTurn
<1>4. Range(active) \subseteq Agents
  BY <1>2
<1> QED
  BY <1>1, <1>2, <1>3, <1>4 DEF Current

\* What is asked, answered and awaited in which state.
LEMMA Messages ==
  /\ DOMAIN Asks = {"options", "servers", "denom", "sync", "proceed", "stats"}
  /\ Asks["options"] = "options_t" /\ Asks["servers"] = "servers"
  /\ Asks["denom"] = "denom" /\ Asks["sync"] = "sync_req"
  /\ Asks["proceed"] = "proceed" /\ Asks["stats"] = "stats"
  /\ Says["options"] = "num" /\ Says["servers"] = "ack"
  /\ Says["denom"] = "THANKS" /\ Says["sync"] = "sync"
  /\ Says["proceed"] = "ack" /\ Says["stats"] = "AgentStats"
  /\ DOMAIN Awaits = {"num", "ack", "thanks", "arrive", "leave", "stat"}
  /\ Awaits["num"] = "num" /\ Awaits["ack"] = "ack"
  /\ Awaits["thanks"] = "THANKS" /\ Awaits["arrive"] = "sync"
  /\ Awaits["leave"] = "ack" /\ Awaits["stat"] = "AgentStats"
BY DEF Asks, Says, Awaits

LEMMA MessageTypes ==
  /\ Requests = {"options_t", "servers", "denom", "sync_req", "proceed", "stats",
                 "none"}
  /\ Replies = {"num", "ack", "THANKS", "sync", "AgentStats", "none"}
BY DEF Requests, Replies, Asks, Says, Range

LEMMA PlaceTypes ==
  /\ Stages = {"offer", "share", "work", "finish", "done", "died", "num", "ack",
               "thanks", "arrive", "leave", "stat"}
  /\ PCs = {"work", "lost", "died", "down", "options", "servers", "denom", "sync",
            "proceed", "stats"}
BY Messages DEF Stages, PCs

-----------------------------------------------------------------------------
(* Types.                                                                  *)

\* lambda_denom is a number before and after an agent has added to it.
LEMMA ShareType ==
  ASSUME TypeOK, NEW num \in Int
  PROVE  Share(num) \in Int
<1>1. /\ Conns \in Int /\ Servers \in Int
      /\ options.roundrobin \in BOOLEAN
  BY LoadAssumption, OptionsAssumption DEF TypeOK
<1>2. Servers * num \in Int
  BY <1>1
<1> DEFINE m == IF options.roundrobin THEN (IF Servers > num THEN Servers ELSE num)
                ELSE Servers * num
<1>3. m \in Int
  BY <1>1, <1>2
<1> HIDE DEF m
<1>4. Conns * m \in Int
  BY <1>1, <1>3
<1> QED
  BY <1>4 DEF Share, m

LEMMA SyncsType ==
  ASSUME TypeOK
  PROVE  MasterSyncs \in 0..2 /\ AgentSyncs \in 0..2 /\ OwnShare \in Int
BY LoadAssumption, OptionsAssumption
DEF TypeOK, MasterSyncs, AgentSyncs, OwnShare

\* What Drop leaves.
LEMMA DropType ==
  ASSUME TypeOK, AtTurn, Drop
  PROVE  /\ active' \in Seq(Agents)
         /\ turn' \in 1..Len(active') + 1
         /\ owed' \subseteq Agents
         /\ UNCHANGED <<request, reply>>
<1>1. Len(active) \in Nat /\ turn \in 1..Len(active)
  BY LenProperties DEF TypeOK, AtTurn
<1> QED
  BY <1>1, RemoveAtList DEF Drop, TypeOK

\* What Send and Receive leave.
LEMMA WireType ==
  ASSUME TypeOK
  PROVE  /\ \A S \in SUBSET Agents, r \in Requests :
              Send(S, r) => request' \in [Agents -> Requests]
                            /\ owed' \subseteq Agents
         /\ AtTurn => /\ Current \in Agents
                      /\ Receive(Current) => reply' \in [Agents -> Replies]
                                             /\ owed' \subseteq Agents
<1>1. AtTurn => Current \in Agents
  BY Turns
<1>2. "none" \in Replies
  BY MessageTypes
<1> QED
  BY <1>1, <1>2 DEF TypeOK, Send, Receive

\* Every step keeps the types and what they rest on.
LEMMA TypeStep == TypeInv /\ [Next]_vars => TypeInv'
<1> SUFFICES ASSUME TypeInv, [Next]_vars
             PROVE  TypeInv'
  OBVIOUS
<1> USE DEF TypeInv, masterVars, statVars, agentVars, wireVars, syncVars
<1>a. TypeOK /\ Bounds
  OBVIOUS
<1>b. /\ Len(active) \in Nat
      /\ AtTurn => Current \in Agents
      /\ Range(active) \subseteq Agents
  BY <1>a, Turns
<1>c. /\ MasterSyncs \in 0..2 /\ AgentSyncs \in 0..2 /\ OwnShare \in Int
      /\ Rounds \in Nat
  BY <1>a, SyncsType, LoadAssumption
<1>1. CASE SendOptions
  BY <1>1, <1>a, <1>b, <1>c, WireType, PlaceTypes, MessageTypes
  DEF SendOptions, TypeOK, Bounds, AtTurn, Current, FirstOfAll
<1>2. CASE SendFails
  BY <1>2, <1>a, <1>b, <1>c, WireType, PlaceTypes, MessageTypes
  DEF SendFails, TypeOK, Bounds, AtTurn, Current, FirstOfAll
<1>3. CASE ReceiveNum
  <2>1. AtTurn /\ Current \in Agents
    BY <1>3, <1>a, <1>b DEF ReceiveNum, Bounds
  <2>2. Threads[Current] * Mul[Current] \in Int
    <3>1. Threads[Current] \in Int /\ Mul[Current] \in Int
      BY <2>1, AgentsAssumption
    <3> QED
      BY <3>1
  <2>3. PICK num \in Int : sum' = sum + Share(num)
    BY <1>3, <2>2, LoadAssumption DEF ReceiveNum
  <2>4. sum' \in Int
    BY <2>3, <1>a, ShareType DEF TypeOK
  <2> QED
    BY <1>3, <2>1, <2>4, <1>a, <1>b, PlaceTypes, MessageTypes
    DEF ReceiveNum, TypeOK, Bounds, AtTurn, Current
<1>4. CASE ReceiveAck
  BY <1>4, <1>a, <1>b, <1>c, MessageTypes, PlaceTypes, MessageTypes, SMTT(30)
  DEF ReceiveAck, TypeOK, Bounds, Receive, AtTurn, FirstOfAll
<1>5. CASE PrepTimeout
  BY <1>5, <1>a, <1>b, <1>c, DropType, PlaceTypes, MessageTypes
  DEF PrepTimeout, TypeOK, Bounds, AtTurn, FirstOfAll
<1>6. CASE PrepDone
  BY <1>6, <1>a, <1>b, <1>c, WireType, PlaceTypes, MessageTypes
  DEF PrepDone, TypeOK, Bounds, AtTurn, Current, FirstOfAll
<1>7. CASE SendDenom
  BY <1>7, <1>a, <1>b, <1>c, WireType, PlaceTypes, MessageTypes
  DEF SendDenom, TypeOK, Bounds, AtTurn, Current, FirstOfAll
<1>8. CASE ReceiveThanks
  BY <1>8, <1>a, <1>b, <1>c, MessageTypes, PlaceTypes, MessageTypes, SMTT(30)
  DEF ReceiveThanks, TypeOK, Bounds, Receive, AtTurn, FirstOfAll
<1>9. CASE ThanksTimeout
  BY <1>9, <1>a, <1>b, <1>c, DropType, PlaceTypes, MessageTypes
  DEF ThanksTimeout, TypeOK, Bounds, AtTurn, FirstOfAll
<1>10. CASE ShareDone
  BY <1>10, <1>a, <1>b, <1>c, WireType, PlaceTypes, MessageTypes
  DEF ShareDone, TypeOK, Bounds, AtTurn, Current, FirstOfAll
<1>11. CASE SendSyncReq
  BY <1>11, <1>a, <1>b, <1>c, MessageTypes, PlaceTypes, MessageTypes
  DEF SendSyncReq, TypeOK, Bounds, Send, Parties, Master, AtTurn, FirstOfAll
<1>12. CASE ReceiveSync
  BY <1>12, <1>a, <1>b, <1>c, MessageTypes, PlaceTypes, MessageTypes
  DEF ReceiveSync, TypeOK, Bounds, Receive, AtTurn, FirstOfAll
<1>13. CASE SendProceed
  BY <1>13, <1>a, <1>b, <1>c, MessageTypes, PlaceTypes, MessageTypes
  DEF SendProceed, TypeOK, Bounds, Send, Parties, Master, AtTurn, FirstOfAll
<1>14. CASE ReceiveSyncAck
  BY <1>14, <1>a, <1>b, <1>c, MessageTypes, PlaceTypes, MessageTypes
  DEF ReceiveSyncAck, TypeOK, Bounds, Receive, AtTurn, FirstOfAll
<1>15. CASE SyncTimeout
  <2>1. AtTurn /\ Drop
    BY <1>15 DEF SyncTimeout
  <2>2. errors' \in Nat
    BY <1>15, <1>a DEF SyncTimeout, TypeOK
  <2> QED
    BY <1>15, <2>1, <2>2, <1>a, DropType
    DEF SyncTimeout, TypeOK, Bounds, Parties
<1>16. CASE SyncDone
  BY <1>16, <1>a, <1>b, <1>c, WireType, PlaceTypes, MessageTypes
  DEF SyncDone, TypeOK, Bounds, AtTurn, Current, FirstOfAll
<1>17. CASE Measured
  BY <1>17, <1>a, <1>b, <1>c, WireType, PlaceTypes, MessageTypes
  DEF Measured, TypeOK, Bounds, AtTurn, Current, FirstOfAll
<1>18. CASE SendStatsReq
  BY <1>18, <1>a, <1>b, <1>c, WireType, PlaceTypes, MessageTypes
  DEF SendStatsReq, TypeOK, Bounds, AtTurn, Current, FirstOfAll
<1>19. CASE ReceiveStats
  <2>1. AtTurn /\ Current \in Agents
    BY <1>19, <1>a, <1>b DEF ReceiveStats, Bounds
  <2>2. collected' \in [Agents -> Nat] /\ garbled' \in BOOLEAN
    <3>1. CASE reply[Current] = "AgentStats"
      <4>1. collected' = [collected EXCEPT ![Current] = @ + 1]
            /\ garbled' = garbled
        BY <1>19, <3>1 DEF ReceiveStats
      <4>2. collected' \in [Agents -> Nat]
        BY <4>1, <2>1, <1>a DEF TypeOK
      <4>3. garbled' \in BOOLEAN
        BY <4>1, <1>a DEF TypeOK
      <4> QED
        BY <4>2, <4>3
    <3>2. CASE reply[Current] # "AgentStats"
      BY <1>19, <2>1, <3>2, <1>a DEF ReceiveStats, TypeOK
    <3> QED
      BY <3>1, <3>2
  <2>3. reply' \in [Agents -> Replies] /\ owed' \subseteq Agents
    BY <1>19, <2>1, <1>a, WireType DEF ReceiveStats
  <2>4. stage' = "finish" /\ turn' = turn + 1
    BY <1>19 DEF ReceiveStats
  <2>5. /\ UNCHANGED <<options, round, active, sum, left, errors, pc, ahead,
                       mistakes, request, arrived, released>>
    BY <1>19 DEF ReceiveStats
  <2>6. TypeOK'
    <3>1. turn' \in 1..Len(active') + 1 /\ stage' \in Stages
      BY <2>1, <2>4, <2>5, <1>a, <1>b, PlaceTypes DEF TypeOK, AtTurn
    <3> QED
      BY <2>2, <2>3, <2>5, <3>1, <1>a DEF TypeOK, Parties
  <2>7. Bounds'
    BY <2>4, <2>5, <1>a DEF Bounds
  <2> QED
    BY <2>6, <2>7
<1>20. CASE StatsTimeout
  BY <1>20, <1>a, <1>b, <1>c, WireType, PlaceTypes, MessageTypes
  DEF StatsTimeout, TypeOK, Bounds, AtTurn, Current, FirstOfAll
<1>21. CASE RoundDone
  BY <1>21, <1>a, <1>b, <1>c, WireType, PlaceTypes, MessageTypes, SMTT(30)
  DEF RoundDone, TypeOK, Bounds, AtTurn, Current, FirstOfAll
<1>22. ASSUME NEW a \in Agents, AgentOptions(a)
      PROVE  TypeInv'
  BY <1>22, <1>a, <1>c, PlaceTypes, MessageTypes, Messages
  DEF AgentOptions, Answer, Mistaken, TypeOK, Bounds, Parties, AtTurn
<1>23. ASSUME NEW a \in Agents, AgentServers(a)
      PROVE  TypeInv'
  BY <1>23, <1>a, <1>c, PlaceTypes, MessageTypes, Messages
  DEF AgentServers, Answer, Mistaken, TypeOK, Bounds, Parties, AtTurn
<1>24. ASSUME NEW a \in Agents, AgentDenom(a)
      PROVE  TypeInv'
  BY <1>24, <1>a, <1>c, PlaceTypes, MessageTypes, Messages
  DEF AgentDenom, Answer, Mistaken, TypeOK, Bounds, Parties, AtTurn
<1>25. ASSUME NEW a \in Agents, AgentWork(a)
      PROVE  TypeInv'
  <2>1. CASE ahead[a] > 0
    <3>1. /\ pc' = [pc EXCEPT ![a] = "sync"]
          /\ mistakes' = [mistakes EXCEPT ![a] = 0]
          /\ arrived' = [arrived EXCEPT ![a] = @ + 1]
          /\ UNCHANGED <<masterVars, statVars, ahead, wireVars, released>>
      BY <1>25, <2>1 DEF AgentWork
    <3>2. arrived' \in [Parties -> Nat]
      BY <3>1, <1>a DEF TypeOK, Parties
    <3> QED
      BY <2>1, <3>1, <3>2, <1>a, PlaceTypes DEF TypeOK, Bounds, AtTurn, Parties
  <2>2. CASE ~(ahead[a] > 0)
    BY <1>25, <2>2, <1>a, PlaceTypes
    DEF AgentWork, TypeOK, Bounds, AtTurn, Parties
  <2> QED
    BY <2>1, <2>2
<1>26. ASSUME NEW a \in Agents, AgentSync(a)
      PROVE  TypeInv'
  <2>1. Mistaken(a) \in Nat
    BY <1>a DEF Mistaken, TypeOK
  <2> QED
    BY <1>26, <2>1, <1>a, PlaceTypes, MessageTypes, Messages
    DEF AgentSync, Answer, TypeOK, Bounds, Parties, AtTurn
<1>27. ASSUME NEW a \in Agents, AgentProceed(a)
      PROVE  TypeInv'
  <2>1. Mistaken(a) \in Nat
    BY <1>a DEF Mistaken, TypeOK
  <2>2. released' \in [Parties -> Nat] /\ mistakes' \in [Agents -> Nat]
    BY <1>27, <2>1, <1>a DEF AgentProceed, TypeOK, Parties
  <2>3. /\ pc' = [pc EXCEPT ![a] = IF Mistaken(a) > 0 THEN "died" ELSE "work"]
        /\ pc[a] = "proceed"
    BY <1>27 DEF AgentProceed, Answer
  <2>4. pc' \in [Agents -> PCs]
    BY <2>3, <1>a, PlaceTypes DEF TypeOK
  <2>5. ahead' \in [Agents -> 0..2]
    BY <1>27, <2>3, <1>a DEF AgentProceed, TypeOK, Bounds
  <2>6. \A b \in Agents : pc'[b] \in {"sync", "proceed"} => ahead'[b] > 0
    BY <1>27, <2>3, <1>a DEF AgentProceed, TypeOK, Bounds
  <2>7. request' \in [Agents -> Requests] /\ reply' \in [Agents -> Replies]
    BY <1>27, <1>a, MessageTypes, Messages DEF AgentProceed, Answer, TypeOK
  <2> QED
    BY <1>27, <2>2, <2>4, <2>5, <2>6, <2>7, <1>a
    DEF AgentProceed, Answer, TypeOK, Bounds, AtTurn, Parties
<1>28. ASSUME NEW a \in Agents, AgentStatsSent(a)
      PROVE  TypeInv'
  BY <1>28, <1>a, <1>c, PlaceTypes, MessageTypes, Messages
  DEF AgentStatsSent, Answer, Mistaken, TypeOK, Bounds, Parties, AtTurn
<1>29. ASSUME NEW a \in Agents, Crash(a)
      PROVE  TypeInv'
  BY <1>29, <1>a, <1>c, PlaceTypes, MessageTypes, Messages
  DEF Crash, Answer, Mistaken, TypeOK, Bounds, Parties, AtTurn
<1>30. CASE UNCHANGED vars
  BY <1>30, <1>a DEF TypeOK, Bounds, vars, AtTurn
<1> QED
  BY <1>1, <1>2, <1>3, <1>4, <1>5, <1>6, <1>7, <1>8, <1>9, <1>10, <1>11,
     <1>12, <1>13, <1>14, <1>15, <1>16, <1>17, <1>18, <1>19, <1>20, <1>21,
     <1>22, <1>23, <1>24, <1>25, <1>26, <1>27, <1>28, <1>29, <1>30
  DEF Next, MasterStep, Prepare, Synchronize, Finish, AgentStep, Stopped

LEMMA TypeInit == Init => TypeInv
<1> SUFFICES ASSUME Init
             PROVE  TypeInv
  OBVIOUS
<1>1. active \in Seq(Agents) /\ Len(active) \in Nat
  BY AllListed, LenProperties DEF Init
<1>2. options \in Options /\ OwnShare \in Int /\ MasterSyncs \in 0..2
  BY LoadAssumption, OptionsAssumption
  DEF Init, OwnShare, MasterSyncs, AgentSyncs
<1>3. 1 \in 1..Rounds
  BY LoadAssumption
<1>4. turn \in 1..Len(active) + 1 /\ sum \in Int /\ left \in 0..2
  BY <1>1, <1>2 DEF Init
<1>5. /\ pc \in [Agents -> PCs] /\ stage \in Stages
      /\ ahead \in [Agents -> 0..2] /\ mistakes \in [Agents -> Nat]
      /\ collected \in [Agents -> Nat]
  BY PlaceTypes DEF Init
<1>6. request \in [Agents -> Requests] /\ reply \in [Agents -> Replies]
  BY MessageTypes DEF Init
<1>7. arrived \in [Parties -> Nat] /\ released \in [Parties -> Nat]
  BY DEF Init
<1>8. garbled \in BOOLEAN
  BY DEF Init
<1>9. TypeOK
  BY <1>1, <1>2, <1>3, <1>4, <1>5, <1>6, <1>7, <1>8 DEF Init, TypeOK
<1>10. Bounds
  BY DEF Init, Bounds
<1> QED
  BY <1>9, <1>10 DEF TypeInv

\* Every variable keeps its type: TypeOK.
THEOREM AgentTypes == Spec => []TypeOK
<1>1. Init => TypeInv
  BY TypeInit
<1>2. TypeInv => TypeOK
  BY DEF TypeInv
<1> QED
  BY <1>1, <1>2, TypeStep, PTL DEF Spec

-----------------------------------------------------------------------------
(* Where the agents are.                                                   *)

\* What a drop leaves of the list.
LEMMA Dropped ==
  ASSUME TypeOK, AtTurn, Drop
  PROVE  /\ Len(active') = Len(active) - 1
         /\ \A i \in 1..Len(active') :
              active'[i] = IF i < turn THEN active[i] ELSE active[i + 1]
<1>1. Len(active) \in Nat /\ turn \in 1..Len(active)
  BY LenProperties DEF TypeOK, AtTurn
<1> QED
  BY <1>1, RemoveAtList DEF Drop, TypeOK

\* What a step of either side finds.
LEMMA Situation ==
  ASSUME TypeInv, ProtocolInv, NEW i \in 1..Len(active)
  PROVE  /\ Len(active) \in Nat /\ turn \in 1..Len(active) + 1
         /\ active[i] \in Agents /\ active[i] \in Range(active)
         /\ AtTurn => turn \in 1..Len(active) /\ Current \in Agents
         /\ reply \in [Agents -> Replies] /\ request \in [Agents -> Requests]
         /\ left \in 0..2
         /\ Position(i) /\ (AtTurn => Position(turn))
         /\ \A j \in 1..Len(active) : active[i] = active[j] => i = j
         /\ stage \in {"num", "ack", "thanks", "stat"} => AtTurn
         /\ stage \in {"offer", "num", "ack", "share", "thanks"}
              => left = MasterSyncs
<1>1. /\ Len(active) \in Nat /\ turn \in 1..Len(active) + 1
      /\ active[i] \in Agents /\ active[i] \in Range(active)
      /\ AtTurn => turn \in 1..Len(active) /\ Current \in Agents
      /\ reply \in [Agents -> Replies] /\ request \in [Agents -> Requests]
      /\ left \in 0..2
  BY Listed DEF TypeInv, TypeOK, AtTurn, Current
<1>2. Position(i) /\ (AtTurn => Position(turn))
  BY <1>1 DEF ProtocolInv, Positions
<1>3. \A j \in 1..Len(active) : active[i] = active[j] => i = j
  BY DEF ProtocolInv, Lists
<1>4. /\ stage \in {"num", "ack", "thanks", "stat"} => AtTurn
      /\ stage \in {"offer", "num", "ack", "share", "thanks"} => left = MasterSyncs
  BY DEF TypeInv, Bounds, ProtocolInv, Lists
<1> QED
  BY <1>1, <1>2, <1>3, <1>4

\* A step of the master that drops nobody leaves every agent of the list where
\* it should be.
LEMMA MasterPosition ==
  ASSUME TypeInv, ProtocolInv, NEW i \in 1..Len(active),
         MasterStep, ~PrepTimeout, ~ThanksTimeout, ~SyncTimeout
  PROVE  Position(i)'
<1> USE DEF masterVars, statVars, agentVars, wireVars, syncVars,
            Position, Preparing, Sharing, Syncing, Finishing, Fresh, Late, Pending,
            Asked, Answered, Idle, At, Level, Ready, Resume,
            CanSend, Send, Receive, NoAnswer, AtTurn, Current, FirstOfAll,
            AllArrived
<1>1. CASE SendOptions
  BY <1>1, Situation, Messages, SMTT(90) DEF SendOptions
<1>2. CASE SendFails
  BY <1>2, Situation, Messages DEF SendFails
<1>3. CASE ReceiveNum
  BY <1>3, Situation, Messages, SMTT(90) DEF ReceiveNum
<1>4. CASE ReceiveAck
  BY <1>4, Situation, Messages, SMTT(90) DEF ReceiveAck
<1>5. CASE PrepDone
  BY <1>5, Situation, Messages, SMTT(90) DEF PrepDone
<1>6. CASE SendDenom
  BY <1>6, Situation, Messages, SMTT(90) DEF SendDenom
<1>7. CASE ReceiveThanks
  BY <1>7, Situation, Messages, SMTT(90) DEF ReceiveThanks
<1>8. CASE ShareDone
  BY <1>8, Situation, Messages, SMTT(90) DEF ShareDone
<1>9. CASE SendSyncReq
  BY <1>9, Situation, Messages, SMTT(90) DEF SendSyncReq
<1>10. CASE ReceiveSync
  BY <1>10, Situation, Messages, SMTT(90) DEF ReceiveSync
<1>11. CASE SendProceed
  BY <1>11, Situation, Messages, SMTT(90) DEF SendProceed
<1>12. CASE ReceiveSyncAck
  BY <1>12, Situation, Messages, SMTT(90) DEF ReceiveSyncAck
<1>13. CASE SyncDone
  BY <1>13, Situation, Messages, SMTT(90) DEF SyncDone
<1>14. CASE Measured
  BY <1>14, Situation, Messages, SMTT(90) DEF Measured
<1>15. CASE SendStatsReq
  BY <1>15, Situation, Messages, SMTT(90) DEF SendStatsReq
<1>16. CASE ReceiveStats
  BY <1>16, Situation, Messages, SMTT(90) DEF ReceiveStats
<1>17. CASE StatsTimeout
  BY <1>17, Situation, Messages, SMTT(90) DEF StatsTimeout
<1>18. CASE RoundDone
  BY <1>18, Situation, Messages, SMTT(90) DEF RoundDone
<1> HIDE DEF masterVars, statVars, agentVars, wireVars, syncVars,
             Position, Preparing, Sharing, Syncing, Finishing, Fresh, Late, Pending,
             Asked, Answered, Idle, At, Level, Ready, Resume,
             CanSend, Send, Receive, NoAnswer, AtTurn, Current, FirstOfAll,
             AllArrived
<1> QED
  BY <1>1, <1>2, <1>3, <1>4, <1>5, <1>6, <1>7, <1>8, <1>9, <1>10, <1>11,
     <1>12, <1>13, <1>14, <1>15, <1>16, <1>17, <1>18
  DEF MasterStep, Prepare, Synchronize, Finish

\* So does a drop for those who stay.
LEMMA DropPosition ==
  ASSUME TypeInv, ProtocolInv, NEW i \in 1..Len(active'),
         PrepTimeout \/ ThanksTimeout \/ SyncTimeout
  PROVE  Position(i)'
<1> USE DEF masterVars, statVars, agentVars, wireVars, syncVars
<1> DEFINE j == IF i < turn THEN i ELSE i + 1
<1>1. TypeOK /\ AtTurn /\ Drop
  BY DEF TypeInv, Bounds, PrepTimeout, ThanksTimeout, SyncTimeout
<1>2. Len(active) \in Nat /\ turn \in 1..Len(active)
  BY <1>1, LenProperties DEF TypeOK, AtTurn
<1>3. /\ j \in 1..Len(active) /\ active'[i] = active[j] /\ i \in Nat
      /\ IF i < turn THEN j = i ELSE j = i + 1
  BY <1>1, <1>2, Dropped
<1>4. Position(j) /\ active[j] # Current
  BY <1>2, <1>3, Situation DEF Current
<1> HIDE DEF j
<1>5. CASE PrepTimeout
  BY <1>2, <1>3, <1>4, <1>5, SMTT(30)
  DEF PrepTimeout, Drop, Position, Preparing, Sharing, Syncing, Finishing,
      Fresh, Late, Pending, Asked, Answered, Idle, At, Level, Ready
<1>6. CASE ThanksTimeout
  BY <1>2, <1>3, <1>4, <1>6, SMTT(30)
  DEF ThanksTimeout, Drop, Position, Preparing, Sharing, Syncing, Finishing,
      Fresh, Late, Pending, Asked, Answered, Idle, At, Level, Ready
<1>7. CASE SyncTimeout
  BY <1>2, <1>3, <1>4, <1>7, SMTT(30)
  DEF SyncTimeout, Drop, Position, Preparing, Sharing, Syncing, Finishing,
      Fresh, Late, Pending, Asked, Answered, Idle, At, Level, Ready
<1> QED
  BY <1>5, <1>6, <1>7

\* A step of agent a.
LEMMA AgentPosition ==
  ASSUME TypeInv, ProtocolInv, SameSyncs, NEW i \in 1..Len(active),
         NEW a \in Agents, AgentStep(a) \/ Crash(a)
  PROVE  Position(i)'
<1>a. /\ active[i] \in Agents /\ Position(i) /\ left \in 0..2
      /\ i \in Nat /\ turn \in Nat
      /\ reply \in [Agents -> Replies] /\ request \in [Agents -> Requests]
  BY Situation
<1> USE DEF masterVars, statVars, agentVars, wireVars, syncVars,
            Position, Preparing, Sharing, Syncing, Finishing, Fresh, Late, Pending,
            Asked, Answered, Idle, At, Level, Ready, Resume
<1>b. MasterSyncs = AgentSyncs /\ AgentSyncs \in 0..2
  BY SyncsType DEF TypeInv, TypeOK, SameSyncs, MasterSyncs, AgentSyncs
<1>c. pc \in [Agents -> PCs] /\ ahead \in [Agents -> 0..2]
  BY DEF TypeInv, TypeOK
<1>d. request[a] # "none" /\ pc[a] # "down" => request[a] = Wants(a)
  BY DEF ProtocolInv, Agreement
<1>1. CASE AgentOptions(a)
  BY <1>1, <1>a, <1>b, <1>c, <1>d, Messages, PlaceTypes, SMTT(90)
  DEF AgentOptions, Answer, Wants
<1>2. CASE AgentServers(a)
  <2>1. pc[a] = "servers" /\ request[a] = "servers"
    BY <1>2, <1>d, Messages DEF AgentServers, Answer, Wants
  <2>2. /\ pc' = [pc EXCEPT ![a] = "denom"]
        /\ request' = [request EXCEPT ![a] = "none"]
        /\ reply' = [reply EXCEPT ![a] = "ack"]
        /\ UNCHANGED <<masterVars, owed, ahead>>
    BY <1>2, <2>1, Messages DEF AgentServers, Answer, Wants
  <2> QED
    BY <2>1, <2>2, <1>a, <1>c, Messages, SMTT(30)
<1>3. CASE AgentDenom(a)
  <2>1. pc[a] = "denom" /\ request[a] = "denom"
    BY <1>3, <1>d, Messages DEF AgentDenom, Answer, Wants
  <2>2. /\ pc' = [pc EXCEPT ![a] = "work"]
        /\ ahead' = [ahead EXCEPT ![a] = AgentSyncs]
        /\ request' = [request EXCEPT ![a] = "none"]
        /\ reply' = [reply EXCEPT ![a] = "THANKS"]
        /\ UNCHANGED <<masterVars, owed>>
    BY <1>3, <2>1, Messages DEF AgentDenom, Answer
  <2>3. left = AgentSyncs \/ stage \notin {"offer", "num", "ack", "share", "thanks"}
    BY <1>b, Situation
  <2> QED
    BY <2>1, <2>2, <2>3, <1>a, <1>b, <1>c, Messages, SMTT(90)
<1>4. CASE AgentWork(a)
  BY <1>4, <1>a, <1>b, <1>c, <1>d, Messages, PlaceTypes, SMTT(90)
  DEF AgentWork, Answer, Wants
<1>5. CASE AgentSync(a)
  BY <1>5, <1>a, <1>b, <1>c, <1>d, Messages, PlaceTypes, SMTT(90)
  DEF AgentSync, Answer, Wants
<1>6. CASE AgentProceed(a)
  <2>1. pc[a] = "proceed" /\ request[a] = "proceed" /\ mistakes[a] = 0
    BY <1>6, <1>d, Messages
    DEF AgentProceed, Answer, Wants, ProtocolInv, Agreement
  <2>2. Mistaken(a) = 0
    BY <2>1, Messages DEF Mistaken
  <2>3. /\ pc' = [pc EXCEPT ![a] = "work"]
        /\ ahead' = [ahead EXCEPT ![a] = @ - 1]
        /\ request' = [request EXCEPT ![a] = "none"]
        /\ reply' = [reply EXCEPT ![a] = "ack"]
        /\ UNCHANGED <<masterVars, owed>>
    BY <1>6, <2>2, Messages DEF AgentProceed, Answer
  <2>4. ahead[a] \in 1..2
    BY <1>c, <2>1 DEF TypeInv, Bounds
  <2> QED
    BY <2>1, <2>3, <2>4, <1>a, <1>c, Messages, SMTT(90)
<1>7. CASE AgentStatsSent(a)
  BY <1>7, <1>a, <1>b, <1>c, <1>d, Messages, PlaceTypes, SMTT(90)
  DEF AgentStatsSent, Answer, Wants
<1>8. CASE Crash(a)
  BY <1>8, <1>a, <1>b, <1>c, <1>d, Messages, PlaceTypes, SMTT(90)
  DEF Crash, Answer, Wants
<1> HIDE DEF masterVars, statVars, agentVars, wireVars, syncVars,
             Position, Preparing, Sharing, Syncing, Finishing, Fresh, Late, Pending,
             Asked, Answered, Idle, At, Level, Ready, Resume
<1> QED
  BY <1>1, <1>2, <1>3, <1>4, <1>5, <1>6, <1>7, <1>8
  DEF AgentStep

\* A step keeps the list free of repetitions, and left at its first value until
\* the first call of sync_agent.
LEMMA ListsStep ==
  ASSUME TypeInv, ProtocolInv, [Next]_vars
  PROVE  Lists'
<1> USE DEF masterVars, statVars, agentVars, wireVars, syncVars
<1>1. CASE PrepTimeout \/ ThanksTimeout \/ SyncTimeout
  <2>1. TypeOK /\ AtTurn /\ Drop /\ Lists
    BY <1>1
    DEF TypeInv, Bounds, ProtocolInv, PrepTimeout, ThanksTimeout, SyncTimeout
  <2>2. /\ Len(active) \in Nat /\ turn \in 1..Len(active)
        /\ Len(active') = Len(active) - 1
        /\ \A i \in 1..Len(active') :
             active'[i] = IF i < turn THEN active[i] ELSE active[i + 1]
    BY <2>1, Turns, Dropped
  <2>3. ASSUME NEW i \in 1..Len(active'), NEW j \in 1..Len(active'),
               active'[i] = active'[j]
        PROVE  i = j
    <3> DEFINE OldPlace(k) == IF k < turn THEN k ELSE k + 1
    <3>1. /\ OldPlace(i) \in 1..Len(active) /\ active'[i] = active[OldPlace(i)]
          /\ OldPlace(j) \in 1..Len(active) /\ active'[j] = active[OldPlace(j)]
      BY <2>2, <2>3
    <3>2. OldPlace(i) = OldPlace(j)
      <4> HIDE DEF OldPlace
      <4> QED
        BY <2>1, <2>3, <3>1 DEF Lists
    <3> QED
      BY <2>2, <3>2
  <2>4. /\ options' = options /\ left' = left
        /\ stage' \in {"offer", "num", "ack", "share", "thanks"}
             => stage \in {"offer", "num", "ack", "share", "thanks"}
    BY <1>1 DEF PrepTimeout, ThanksTimeout, SyncTimeout
  <2> QED
    BY <2>1, <2>3, <2>4 DEF Lists, MasterSyncs, AgentSyncs
<1>2. CASE MasterStep /\ ~(PrepTimeout \/ ThanksTimeout \/ SyncTimeout)
  BY <1>2 DEF ProtocolInv, Lists, MasterSyncs, AgentSyncs, MasterStep, Prepare,
       Synchronize, Finish, SendOptions, SendFails, ReceiveNum, ReceiveAck,
       PrepDone, SendDenom, ReceiveThanks, ShareDone, SendSyncReq, ReceiveSync,
       SendProceed, ReceiveSyncAck, SyncDone, Measured, SendStatsReq,
       ReceiveStats, StatsTimeout, RoundDone
<1>3. ASSUME NEW a \in Agents, AgentStep(a) \/ Crash(a)
      PROVE  Lists'
  BY <1>3 DEF ProtocolInv, Lists, MasterSyncs, AgentSyncs, AgentStep, Answer,
       AgentOptions, AgentServers, AgentDenom, AgentWork, AgentSync,
       AgentProceed, AgentStatsSent, Crash
<1>4. CASE UNCHANGED vars
  BY <1>4 DEF vars, ProtocolInv, Lists, MasterSyncs, AgentSyncs
<1> QED
  BY <1>1, <1>2, <1>3, <1>4 DEF Next, Stopped

\* The master asks each agent for what that agent does next.
LEMMA MasterAgreement ==
  ASSUME TypeInv, ProtocolInv, MasterStep
  PROVE  Agreement'
<1> USE DEF masterVars, statVars, agentVars, wireVars, syncVars
<1>a. Agreement /\ request \in [Agents -> Requests] /\ TypeOK
  BY DEF TypeInv, TypeOK, ProtocolInv
<1>b. pc' = pc /\ ahead' = ahead /\ mistakes' = mistakes
  BY DEF MasterStep, Prepare, Synchronize, Finish, SendOptions, SendFails,
       ReceiveNum, ReceiveAck, PrepTimeout, PrepDone, SendDenom, ReceiveThanks,
       ThanksTimeout, ShareDone, SendSyncReq, ReceiveSync, SendProceed,
       ReceiveSyncAck, SyncTimeout, SyncDone, Measured, SendStatsReq,
       ReceiveStats, StatsTimeout, RoundDone
<1>c. /\ AtTurn => Current \in Agents /\ turn \in 1..Len(active)
      /\ Range(active) = {active[i] : i \in 1..Len(active)}
      /\ Range(active) \subseteq Agents
  <2>1. active \in Seq(Agents) /\ Len(active) \in Nat
        /\ turn \in 1..Len(active) + 1
    BY <1>a, LenProperties DEF TypeOK
  <2>2. /\ Range(active) = {active[i] : i \in 1..Len(active)}
        /\ \A i \in 1..Len(active) : active[i] \in Agents
    BY <2>1, Listed
  <2> QED
    BY <2>1, <2>2 DEF AtTurn, Current
<1>d. \A i \in 1..Len(active) : Position(i)
  BY DEF ProtocolInv, Positions
<1> USE DEF Fresh, Late, Pending, Asked, Answered, Idle, At, Level, Ready,
            Resume
<1>1. ASSUME NEW b \in Agents, request'[b] # request[b], request'[b] # "none",
             pc[b] # "down"
      PROVE  request'[b] = Wants(b)
  <2> USE DEF Current
  <2>1. CASE SendOptions
    <3>1. b = Current /\ AtTurn /\ request'[b] = "options_t" /\ b \notin owed
      BY <2>1, <1>1, <1>c DEF SendOptions, Send, CanSend
    <3>2. pc[b] = "options"
      BY <3>1, <1>1, <1>c, <1>d, <2>1 DEF SendOptions, Position, Preparing
    <3> QED
      BY <3>1, <3>2, Messages DEF Wants
  <2>2. CASE ReceiveNum
    <3>1. b = Current /\ AtTurn /\ request'[b] = "servers"
      BY <2>2, <1>1, <1>c DEF ReceiveNum, TypeInv, Bounds
    <3>2. pc[b] = "servers"
      BY <3>1, <1>1, <1>c, <1>d, <2>2, Messages
      DEF ReceiveNum, Position, Preparing
    <3> QED
      BY <3>1, <3>2, Messages DEF Wants
  <2>3. CASE SendDenom
    <3>1. b = Current /\ AtTurn /\ request'[b] = "denom"
      BY <2>3, <1>1, <1>c DEF SendDenom, Send
    <3>2. pc[b] = "denom"
      BY <3>1, <1>1, <1>c, <1>d, <2>3 DEF SendDenom, Position, Sharing
    <3> QED
      BY <3>1, <3>2, Messages DEF Wants
  <2>4. CASE SendSyncReq
    <3>1. b \in Range(active) /\ request'[b] = "sync_req"
      BY <2>4, <1>1, <1>c DEF SendSyncReq, Send
    <3>2. ahead[b] > 0 /\ (pc[b] = "sync" \/ pc[b] = "work")
      BY <3>1, <1>1, <1>c, <1>d, <2>4 DEF SendSyncReq, Position, Syncing
    <3> QED
      BY <3>1, <3>2, Messages DEF Wants
  <2>5. CASE SendProceed
    <3>1. /\ b \in Range(active) /\ request'[b] = "proceed"
          /\ ~AtTurn /\ stage = "arrive"
      BY <2>5, <1>1, <1>c DEF SendProceed, Send, AllArrived
    <3>2. PICK i \in 1..Len(active) : active[i] = b /\ i < turn
      BY <3>1, <1>a, <1>c, LenProperties DEF AtTurn, TypeOK
    <3>3. pc[b] = "proceed"
      BY <3>1, <3>2, <1>1, <1>d DEF Position, Syncing
    <3> QED
      BY <3>1, <3>3, Messages DEF Wants
  <2>6. CASE SendStatsReq
    <3>1. b = Current /\ AtTurn /\ request'[b] = "stats"
      BY <2>6, <1>1, <1>c DEF SendStatsReq, Send
    <3>2. pc[b] = "stats" \/ (pc[b] = "work" /\ ~(ahead[b] > 0))
      BY <3>1, <1>1, <1>c, <1>d, <2>6 DEF SendStatsReq, Position, Finishing
    <3> QED
      BY <3>1, <3>2, Messages DEF Wants
  <2>7. CASE request' = request
    BY <2>7, <1>1
  <2> QED
    BY <2>1, <2>2, <2>3, <2>4, <2>5, <2>6, <2>7
    DEF MasterStep, Prepare, Synchronize, Finish, SendFails, ReceiveAck,
        PrepTimeout, PrepDone, ReceiveThanks, ThanksTimeout, ShareDone,
        ReceiveSync, ReceiveSyncAck, SyncTimeout, SyncDone, Measured,
        ReceiveStats, StatsTimeout, RoundDone, Drop
<1>2. \A b \in Agents : Wants(b)' = Wants(b)
  BY <1>b DEF Wants
<1> QED
  BY <1>a, <1>b, <1>1, <1>2 DEF Agreement

\* An agent that answers goes on to what it is asked for next.
LEMMA AgentAgreement ==
  ASSUME TypeInv, ProtocolInv, NEW a \in Agents, AgentStep(a) \/ Crash(a)
  PROVE  Agreement'
<1> USE DEF masterVars, statVars, agentVars, wireVars, syncVars
<1>a. /\ Agreement /\ request \in [Agents -> Requests]
      /\ pc \in [Agents -> PCs] /\ ahead \in [Agents -> 0..2]
      /\ mistakes \in [Agents -> Nat]
  BY DEF TypeInv, TypeOK, ProtocolInv
<1>b. request[a] # "none" /\ pc[a] # "down" => request[a] = Wants(a)
  BY <1>a DEF Agreement
<1>1. ASSUME NEW st, Answer(a, st), st \in DOMAIN Asks
      PROVE  /\ pc[a] = st /\ request[a] = Asks[st]
             /\ request' = [request EXCEPT ![a] = "none"]
  BY <1>1, <1>b, Messages DEF Answer, Wants
<1>2. CASE AgentOptions(a)
  BY <1>2, <1>1, <1>a, Messages DEF AgentOptions, Agreement, Wants
<1>3. CASE AgentServers(a)
  BY <1>3, <1>1, <1>a, Messages DEF AgentServers, Agreement, Wants
<1>4. CASE AgentDenom(a)
  BY <1>4, <1>1, <1>a, Messages DEF AgentDenom, Agreement, Wants
<1>5. CASE AgentWork(a)
  BY <1>5, <1>a, <1>b, Messages DEF AgentWork, Agreement, Wants
<1>6. CASE AgentSync(a)
  <2>1. /\ pc[a] = "sync" /\ request[a] = Asks["sync"]
        /\ request' = [request EXCEPT ![a] = "none"]
    BY <1>6, <1>1, Messages DEF AgentSync
  <2>2. Mistaken(a) = 0
    BY <2>1, <1>a DEF Mistaken, Agreement
  <2> QED
    BY <1>6, <2>1, <2>2, <1>a, Messages DEF AgentSync, Agreement, Wants
<1>7. CASE AgentProceed(a)
  <2>1. /\ pc[a] = "proceed" /\ request[a] = Asks["proceed"]
        /\ request' = [request EXCEPT ![a] = "none"]
    BY <1>7, <1>1, Messages DEF AgentProceed
  <2>2. Mistaken(a) = 0
    BY <2>1, <1>a DEF Mistaken, Agreement
  <2>3. /\ pc' = [pc EXCEPT ![a] = "work"]
        /\ ahead' = [ahead EXCEPT ![a] = @ - 1]
        /\ mistakes' = [mistakes EXCEPT ![a] = 0]
    BY <1>7, <2>2 DEF AgentProceed
  <2> QED
    BY <2>1, <2>3, <1>a, Messages DEF Agreement, Wants
<1>8. CASE AgentStatsSent(a)
  BY <1>8, <1>1, <1>a, Messages DEF AgentStatsSent, Agreement, Wants
<1>9. CASE Crash(a)
  BY <1>9, <1>a, Messages DEF Crash, Agreement, Wants
<1> QED
  BY <1>2, <1>3, <1>4, <1>5, <1>6, <1>7, <1>8, <1>9 DEF AgentStep

-----------------------------------------------------------------------------
(* The protocol.                                                           *)

LEMMA ProtocolInit == Init => ProtocolInv
<1> SUFFICES ASSUME Init
             PROVE  ProtocolInv
  OBVIOUS
<1>1. /\ \A i \in 1..Len(active) : active[i] \in Agents
      /\ \A i, j \in 1..Len(active) : active[i] = active[j] => i = j
  BY AllListed, Listed DEF Init
<1>2. Lists
  BY <1>1 DEF Init, Lists
<1>3. Agreement
  BY DEF Init, Agreement
<1>4. Positions
  BY <1>1
  DEF Init, Positions, Position, Preparing, Sharing, Syncing, Finishing,
         Fresh, Idle, At
<1> QED
  BY <1>2, <1>3, <1>4 DEF ProtocolInv

LEMMA ProtocolStep ==
  ASSUME TypeInv, ProtocolInv, SameSyncs, [Next]_vars
  PROVE  ProtocolInv'
<1> USE DEF masterVars, statVars, agentVars, wireVars, syncVars
<1>1. Lists'
  BY ListsStep
<1>2. CASE MasterStep
  <2>1. Agreement'
    BY <1>2, MasterAgreement
  <2>2. CASE PrepTimeout \/ ThanksTimeout \/ SyncTimeout
    BY <1>1, <2>1, <2>2, DropPosition DEF ProtocolInv, Positions
  <2>3. CASE ~(PrepTimeout \/ ThanksTimeout \/ SyncTimeout)
    <3>1. active' = active
      BY <1>2, <2>3 DEF MasterStep, Prepare, Synchronize, Finish, SendOptions,
           SendFails, ReceiveNum, ReceiveAck, PrepDone, SendDenom,
           ReceiveThanks, ShareDone, SendSyncReq, ReceiveSync, SendProceed,
           ReceiveSyncAck, SyncDone, Measured, SendStatsReq, ReceiveStats,
           StatsTimeout, RoundDone
    <3> QED
      BY <1>1, <1>2, <2>1, <2>3, <3>1, MasterPosition
      DEF ProtocolInv, Positions
  <2> QED
    BY <2>2, <2>3
<1>3. ASSUME NEW a \in Agents, AgentStep(a) \/ Crash(a)
      PROVE  ProtocolInv'
  <2>1. active' = active
    BY <1>3 DEF AgentStep, Answer, AgentOptions, AgentServers, AgentDenom,
         AgentWork, AgentSync, AgentProceed, AgentStatsSent, Crash
  <2>2. Agreement'
    BY <1>3, AgentAgreement
  <2> QED
    BY <1>1, <1>3, <2>1, <2>2, AgentPosition DEF ProtocolInv, Positions
<1>4. CASE UNCHANGED vars
  <2>1. Agreement'
    BY <1>4 DEF vars, ProtocolInv, Agreement, Wants
  <2>2. Positions'
    BY <1>4, SMTT(30) DEF vars, ProtocolInv, Positions, Position, Preparing, Sharing,
         Syncing, Finishing, Fresh, Late, Pending, Asked, Answered, Idle, At,
         Level, Ready, Resume
  <2> QED
    BY <1>1, <2>1, <2>2 DEF ProtocolInv
<1> QED
  BY <1>2, <1>3, <1>4 DEF Next, Stopped

\* The reply the master reads is the one it waits for.
LEMMA InStepHolds ==
  ASSUME TypeInv, ProtocolInv
  PROVE  InStep
<1>1. ASSUME stage \in DOMAIN Awaits, AtTurn
      PROVE  reply[Current] \in {"none", Awaits[stage]}
  <2>1. turn \in 1..Len(active)
    BY <1>1, LenProperties DEF TypeInv, TypeOK, AtTurn
  <2>2. Position(turn)
    BY <2>1 DEF ProtocolInv, Positions
  <2> QED
    BY <1>1, <2>1, <2>2, Messages
    DEF Position, Preparing, Sharing, Syncing, Finishing, Late, Pending, Asked,
        Answered, Current
<1> QED
  BY <1>1 DEF ProtocolInv, Agreement, InStep

\* Master and agents stay in step, whoever fails and whoever is dropped, if
\* they call sync_agent equally often.
THEOREM InStepKept ==
  ASSUME SameSyncs
  PROVE  Spec => []InStep
<1>1. Init => TypeInv /\ ProtocolInv
  BY TypeInit, ProtocolInit
<1>2. TypeInv /\ ProtocolInv /\ [Next]_vars => (TypeInv /\ ProtocolInv)'
  BY TypeStep, ProtocolStep
<1>3. TypeInv /\ ProtocolInv => InStep
  BY InStepHolds
<1> QED
  BY <1>1, <1>2, <1>3, PTL DEF Spec

-----------------------------------------------------------------------------
(* Going on, and coming to an end.                                         *)

\* Also a step that removes the agent from the list.
LEMMA MasterAdvances ==
  ASSUME TypeInv, MasterStep
  PROVE  Nearer
<1>1. /\ Len(active) \in Nat /\ turn \in 1..Len(active) + 1
      /\ round \in 1..Rounds /\ left \in 0..2 /\ Rounds \in Nat
      /\ AtTurn => turn \in 1..Len(active)
      /\ stage \in {"num", "ack", "thanks", "stat"} => AtTurn
      /\ stage \in {"arrive", "leave"} => left > 0
  BY Turns, LoadAssumption DEF TypeInv, TypeOK, Bounds
<1> USE DEF Nearer, Phase, Calls, Stretch, Queue, Pause
<1>2. ASSUME Drop, AtTurn
      PROVE  Len(active') = Len(active) - 1 /\ turn' = turn
  BY <1>2, Dropped DEF TypeInv, Drop
<1>3. CASE SendOptions
  BY <1>1, <1>3 DEF SendOptions
<1>4. CASE SendFails
  BY <1>1, <1>4 DEF SendFails
<1>5. CASE ReceiveNum
  BY <1>1, <1>5 DEF ReceiveNum
<1>6. CASE ReceiveAck
  BY <1>1, <1>6 DEF ReceiveAck
<1>7. CASE PrepTimeout
  BY <1>1, <1>2, <1>7 DEF PrepTimeout
<1>8. CASE PrepDone
  BY <1>1, <1>8 DEF PrepDone
<1>9. CASE SendDenom
  BY <1>1, <1>9 DEF SendDenom
<1>10. CASE ReceiveThanks
  BY <1>1, <1>10 DEF ReceiveThanks
<1>11. CASE ThanksTimeout
  BY <1>1, <1>2, <1>11 DEF ThanksTimeout
<1>12. CASE ShareDone
  BY <1>1, <1>12 DEF ShareDone
<1>13. CASE SendSyncReq
  BY <1>1, <1>13 DEF SendSyncReq
<1>14. CASE ReceiveSync
  BY <1>1, <1>14 DEF ReceiveSync
<1>15. CASE SendProceed
  BY <1>1, <1>15 DEF SendProceed
<1>16. CASE ReceiveSyncAck
  BY <1>1, <1>16 DEF ReceiveSyncAck
<1>17. CASE SyncTimeout
  BY <1>1, <1>2, <1>17 DEF SyncTimeout
<1>18. CASE SyncDone
  BY <1>1, <1>18 DEF SyncDone
<1>19. CASE Measured
  BY <1>1, <1>19 DEF Measured
<1>20. CASE SendStatsReq
  BY <1>1, <1>20 DEF SendStatsReq
<1>21. CASE ReceiveStats
  BY <1>1, <1>21 DEF ReceiveStats
<1>22. CASE StatsTimeout
  BY <1>1, <1>22 DEF StatsTimeout
<1>23. CASE RoundDone
  BY <1>1, <1>23 DEF RoundDone
<1> QED
  BY <1>3, <1>4, <1>5, <1>6, <1>7, <1>8, <1>9, <1>10, <1>11, <1>12, <1>13,
     <1>14, <1>15, <1>16, <1>17, <1>18, <1>19, <1>20, <1>21, <1>22, <1>23
  DEF MasterStep, Prepare, Synchronize, Finish

\* A step of an agent leaves the master and the other agents alone.
LEMMA AgentAdvances ==
  ASSUME TypeInv, NEW a \in Agents, AgentStep(a) \/ Crash(a)
  PROVE  /\ UNCHANGED masterVars
         /\ Todo(a)' < Todo(a) \/ Fails(a)
         /\ \A b \in Agents \ {a} : Todo(b)' = Todo(b)
<1>1. /\ request \in [Agents -> Requests] /\ pc \in [Agents -> PCs]
      /\ ahead \in [Agents -> 0..2] /\ mistakes \in [Agents -> Nat]
  BY DEF TypeInv, TypeOK
<1>2. CASE AgentWork(a)
  BY <1>1, <1>2 DEF AgentWork, Todo, masterVars, wireVars
<1>3. CASE Crash(a)
  BY <1>1, <1>3 DEF Crash, Todo, Fails, masterVars, wireVars
<1>4. ASSUME NEW st, Answer(a, st), NEW nx, pc' = [pc EXCEPT ![a] = nx]
      PROVE  /\ UNCHANGED masterVars /\ Todo(a)' < Todo(a)
             /\ \A b \in Agents \ {a} : Todo(b)' = Todo(b)
  BY <1>1, <1>4 DEF Answer, Todo, masterVars
<1>5. CASE AgentOptions(a) \/ AgentServers(a) \/ AgentDenom(a)
  BY <1>4, <1>5 DEF AgentOptions, AgentServers, AgentDenom
<1>6. CASE AgentSync(a) \/ AgentProceed(a) \/ AgentStatsSent(a)
  BY <1>4, <1>6 DEF AgentSync, AgentProceed, AgentStatsSent
<1> QED
  BY <1>2, <1>3, <1>5, <1>6 DEF AgentStep

\* Every step brings the protocol nearer to its end, whoever fails, answers late
\* or is dropped: the master is further in its round or in a later one, although
\* its loops remove agents from the list they go through; or an agent is nearer
\* to its next wait, or has failed.  So none of the loops goes on for ever.
THEOREM ProtocolAdvances == Spec => [][Advances]_vars
<1>1. TypeInv /\ [Next]_vars => [Advances]_vars
  <2> SUFFICES ASSUME TypeInv, [Next]_vars
               PROVE  [Advances]_vars
    OBVIOUS
  <2>1. CASE MasterStep
    BY <2>1, MasterAdvances DEF Advances
  <2>2. ASSUME NEW a \in Agents, AgentStep(a) \/ Crash(a)
        PROVE  Advances
    BY <2>2, AgentAdvances DEF Advances
  <2> QED
    BY <2>1, <2>2 DEF Next, Stopped
<1> QED
  BY <1>1, TypeInit, TypeStep, PTL DEF Spec

\* If they call sync_agent equally often, master and agents do not wait for each
\* other in a circle: as long as the master has not ended, it can go on, or the
\* agent it waits for has been asked and can answer, unless that one has failed.
THEOREM NoCircularWait ==
  ASSUME SameSyncs
  PROVE  Spec => []GoesOn
<1>1. ASSUME TypeInv, ProtocolInv
      PROVE  GoesOn
  <2> SUFFICES ASSUME stage \in DOMAIN Awaits, AtTurn, reply[Current] = "none",
                      pc[Current] # "down"
               PROVE  AgentGoes(Current)
    <3>1. stage \in Stages
      BY <1>1 DEF TypeInv, TypeOK
    <3>2. stage \in {"num", "ack", "thanks", "stat"} => AtTurn
      BY <1>1 DEF TypeInv, Bounds
    <3> QED
      BY <3>1, <3>2 DEF GoesOn, MasterGoes, Stages, Awaits
  <2>1. turn \in 1..Len(active) /\ Current \in Agents
    BY <1>1, Turns DEF TypeInv
  <2>2. Position(turn)
    BY <1>1, <2>1 DEF ProtocolInv, Positions
  <2>3. \E st \in DOMAIN Asks : Asked(Current, st)
    BY <2>1, <2>2, Messages
    DEF Position, Preparing, Sharing, Syncing, Finishing, Late, Pending,
        Answered, Current
  <2> QED
    BY <2>3, Messages DEF Asked, At, AgentGoes
<1>2. Init => TypeInv /\ ProtocolInv
  BY TypeInit, ProtocolInit
<1>3. TypeInv /\ ProtocolInv /\ [Next]_vars => (TypeInv /\ ProtocolInv)'
  BY TypeStep, ProtocolStep
<1>4. TypeInv /\ ProtocolInv => GoesOn
  BY <1>1
<1> QED
  BY <1>2, <1>3, <1>4, PTL DEF Spec

-----------------------------------------------------------------------------
(* If no poll gives up.                                                    *)

\* What the master finds.
LEMMA Unhurried ==
  ASSUME TypeInv, ProtocolInv, PatientInv, Patient
  PROVE  /\ ~PrepTimeout /\ ~ThanksTimeout /\ ~SyncTimeout /\ ~StatsTimeout
         /\ ~SendFails
         /\ Len(active) \in Nat /\ turn \in 1..Len(active) + 1
         /\ Range(active) = {active[i] : i \in 1..Len(active)}
         /\ \A i \in 1..Len(active) : active[i] \in Agents
         /\ \A i, j \in 1..Len(active) : active[i] = active[j] => i = j
         /\ stage \in DOMAIN Awaits /\ AtTurn
              => reply[Current] \in {"none", Awaits[stage]}
<1>1. active \in Seq(Agents)
  BY DEF TypeInv, TypeOK
<1>2. /\ Len(active) \in Nat /\ turn \in 1..Len(active) + 1
      /\ Range(active) = {active[i] : i \in 1..Len(active)}
      /\ \A i \in 1..Len(active) : active[i] \in Agents
      /\ \A i, j \in 1..Len(active) : active[i] = active[j] => i = j
  BY <1>1, Listed DEF TypeInv, TypeOK, ProtocolInv, Lists
<1>3. ~PrepTimeout /\ ~ThanksTimeout /\ ~SyncTimeout /\ ~StatsTimeout
  BY DEF Patient, PrepTimeout, ThanksTimeout, SyncTimeout, StatsTimeout, NoAnswer
<1>4. ~SendFails
  BY DEF SendFails, CanSend, PatientInv, Awaited
<1>5. InStep
  BY InStepHolds
<1> QED
  BY <1>2, <1>3, <1>4, <1>5 DEF InStep

\* The master owes a receive to the sockets it waits for, and to no other.
LEMMA OwedStep ==
  ASSUME TypeInv, ProtocolInv, PatientInv, Patient, MasterStep
  PROVE  owed' = Awaited'
<1> USE DEF masterVars, statVars, agentVars, wireVars, syncVars
<1>a. owed = Awaited
  BY DEF PatientInv
<1>1. CASE SendOptions \/ SendDenom \/ SendStatsReq
  BY <1>1, <1>a
  DEF SendOptions, SendDenom, SendStatsReq, Send, Awaited, Current
<1>2. CASE ReceiveAck \/ ReceiveThanks \/ ReceiveStats
  BY <1>2, <1>a
  DEF ReceiveAck, ReceiveThanks, ReceiveStats, Receive, Awaited, Current
<1>3. CASE ReceiveNum
  BY <1>3, <1>a DEF ReceiveNum, Awaited, Current
<1>4. CASE SendSyncReq
  BY <1>4, <1>a, Unhurried DEF SendSyncReq, Send, Awaited
<1>5. CASE SendProceed
  <2>1. owed = {}
    BY <1>5, <1>a, Unhurried DEF SendProceed, AllArrived, AtTurn, Awaited
  <2> QED
    BY <1>5, <2>1, Unhurried DEF SendProceed, Send, Awaited
<1>6. CASE ReceiveSync \/ ReceiveSyncAck
  <2>1. /\ turn \in 1..Len(active) /\ stage \in {"arrive", "leave"}
        /\ UNCHANGED <<stage, active>>
        /\ turn' = turn + 1 /\ owed' = owed \ {active[turn]}
    BY <1>6, Unhurried
    DEF ReceiveSync, ReceiveSyncAck, Receive, Current, AtTurn
  <2>2. owed = {active[i] : i \in turn..Len(active)}
    BY <1>a, <2>1 DEF Awaited
  <2>3. Awaited' = {active[i] : i \in (turn + 1)..Len(active)}
    BY <2>1 DEF Awaited
  <2>4. ASSUME NEW i \in turn..Len(active)
        PROVE  active[i] # active[turn] <=> i \in (turn + 1)..Len(active)
    <3>1. i \in 1..Len(active)
      BY <2>1, Unhurried
    <3> QED
      BY <2>1, <3>1, Unhurried
  <2>5. (turn + 1)..Len(active) \subseteq turn..Len(active)
    BY <2>1, Unhurried
  <2> QED
    BY <2>1, <2>2, <2>3, <2>4, <2>5
<1>7. CASE SyncDone
  BY <1>7, <1>a, Unhurried DEF SyncDone, AtTurn, Awaited
<1>8. CASE PrepDone \/ ShareDone \/ Measured
  BY <1>8, <1>a DEF PrepDone, ShareDone, Measured, Awaited
<1>9. CASE RoundDone
  BY <1>9, <1>a DEF RoundDone, Awaited
<1> QED
  BY <1>1, <1>2, <1>3, <1>4, <1>5, <1>6, <1>7, <1>8, <1>9, Unhurried
  DEF MasterStep, Prepare, Synchronize, Finish

\* Each agent's statistics are accumulated once in each round.
LEMMA CollectedStep ==
  ASSUME TypeInv, ProtocolInv, PatientInv, Patient, MasterStep
  PROVE  \A i \in 1..Len(active') : collected'[active'[i]] = Due(i)'
<1> USE DEF masterVars, statVars, agentVars, wireVars, syncVars
<1>a. /\ \A i \in 1..Len(active) : collected[active[i]] = Due(i)
      /\ collected \in [Agents -> Nat] /\ round \in 1..Rounds /\ Rounds \in Nat
  BY LoadAssumption DEF PatientInv, TypeInv, TypeOK
<1>1. CASE ReceiveStats
  <2>1. /\ AtTurn /\ stage = "stat" /\ reply[Current] = "AgentStats"
        /\ turn \in 1..Len(active)
    BY <1>1, Messages, Unhurried
    DEF ReceiveStats, Receive, TypeInv, Bounds, AtTurn
  <2>2. collected' = [collected EXCEPT ![active[turn]] = @ + 1]
        /\ stage' = "finish" /\ turn' = turn + 1
        /\ UNCHANGED <<active, round>>
    BY <1>1, <2>1 DEF ReceiveStats, Current
  <2>3. ASSUME NEW i \in 1..Len(active)
        PROVE  collected'[active[i]] = Due(i)'
    <3>1. CASE i = turn
      BY <1>a, <2>1, <2>2, <3>1, Unhurried DEF Due
    <3>2. CASE i # turn
      <4>1. active[i] # active[turn] /\ active[i] \in Agents
        BY <2>1, <3>2, Unhurried
      <4>2. (i < turn') <=> (i < turn)
        BY <2>1, <2>2, <3>2, Unhurried
      <4> QED
        BY <1>a, <2>1, <2>2, <4>1, <4>2 DEF Due
    <3> QED
      BY <3>1, <3>2
  <2> QED
    BY <2>2, <2>3
<1>2. CASE SendStatsReq \/ Measured
  BY <1>2, <1>a, Unhurried DEF SendStatsReq, Measured, FirstOfAll, Due
<1>3. CASE RoundDone
  <2>1. \A i \in 1..Len(active) : i < turn /\ collected[active[i]] = round
    BY <1>3, <1>a, Unhurried DEF RoundDone, AtTurn, Due
  <2>2. CASE round < Rounds
    <3>1. /\ round' = round + 1 /\ stage' = "offer"
          /\ UNCHANGED <<active, collected>>
      BY <1>3, <2>2 DEF RoundDone
    <3> QED
      BY <1>a, <2>1, <3>1 DEF Due
  <2>3. CASE ~(round < Rounds)
    <3>1. stage' = "done" /\ UNCHANGED <<round, active, collected>>
      BY <1>3, <2>3 DEF RoundDone
    <3> QED
      BY <2>1, <3>1 DEF Due
  <2> QED
    BY <2>2, <2>3
<1>4. CASE SyncDone
  BY <1>4, <1>a DEF SyncDone, Due
<1>5. CASE /\ MasterStep /\ ~ReceiveStats /\ ~SendStatsReq /\ ~Measured
           /\ ~RoundDone /\ ~SyncDone
  BY <1>5, <1>a, Unhurried
  DEF Due, MasterStep, Prepare, Synchronize, Finish, SendOptions,
     ReceiveNum, ReceiveAck, PrepDone, SendDenom, ReceiveThanks, ShareDone,
     SendSyncReq, ReceiveSync, SendProceed, ReceiveSyncAck
<1> QED
  BY <1>1, <1>2, <1>3, <1>4, <1>5

LEMMA PatientStep ==
  ASSUME TypeInv, ProtocolInv, PatientInv, Patient, [Next]_vars
  PROVE  PatientInv'
<1> USE DEF masterVars, statVars, agentVars, wireVars, syncVars
<1>1. CASE MasterStep
  <2>1. active' = active
    BY <1>1, Unhurried
    DEF MasterStep, Prepare, Synchronize, Finish, SendOptions,
       ReceiveNum, ReceiveAck, PrepDone, SendDenom, ReceiveThanks, ShareDone,
       SendSyncReq, ReceiveSync, SendProceed, ReceiveSyncAck, SyncDone,
       Measured, SendStatsReq, ReceiveStats, RoundDone
  <2>2. errors' = 0
    BY <1>1, Messages, Unhurried DEF PatientInv, MasterStep, Prepare,
       Synchronize, Finish, SendOptions, ReceiveNum, ReceiveAck, PrepDone,
       SendDenom, ReceiveThanks, ShareDone, SendSyncReq, ReceiveSync,
       SendProceed, ReceiveSyncAck, SyncDone, Measured, SendStatsReq,
       ReceiveStats, RoundDone, Receive
  <2>3. stage' # "died"
    BY <1>1, Unhurried DEF PatientInv, MasterStep, Prepare,
       Synchronize, Finish, SendOptions, ReceiveNum, ReceiveAck, PrepDone,
       SendDenom, ReceiveThanks, ShareDone, SendSyncReq, ReceiveSync,
       SendProceed, ReceiveSyncAck, SyncDone, Measured, SendStatsReq,
       ReceiveStats, RoundDone
  <2>4. ~garbled'
    <3>1. CASE ReceiveStats
      <4>1. reply[Current] = "AgentStats"
        BY <3>1, Messages, Unhurried DEF ReceiveStats, Receive, TypeInv, Bounds
      <4> QED
        BY <3>1, <4>1 DEF ReceiveStats, PatientInv
    <3>2. CASE ~ReceiveStats
      <4>1. garbled' = garbled
        BY <1>1, <3>2, Unhurried DEF MasterStep, Prepare, Synchronize, Finish,
           SendOptions, ReceiveNum, ReceiveAck, PrepDone, SendDenom,
           ReceiveThanks, ShareDone, SendSyncReq, ReceiveSync, SendProceed,
           ReceiveSyncAck, SyncDone, Measured, SendStatsReq, RoundDone
      <4> QED
        BY <4>1 DEF PatientInv
    <3> QED
      BY <3>1, <3>2
  <2>5. stage' = "done" => round' = Rounds
    <3>1. CASE RoundDone
      BY <3>1, LoadAssumption DEF RoundDone, TypeInv, TypeOK
    <3>2. CASE ~RoundDone
      BY <1>1, <3>2, Unhurried DEF PatientInv, MasterStep, Prepare,
         Synchronize, Finish, SendOptions, ReceiveNum, ReceiveAck, PrepDone,
         SendDenom, ReceiveThanks, ShareDone, SendSyncReq, ReceiveSync,
         SendProceed, ReceiveSyncAck, SyncDone, Measured, SendStatsReq,
         ReceiveStats
    <3> QED
      BY <3>1, <3>2
  <2>6. Range(active') = Agents
    BY <2>1 DEF PatientInv
  <2> QED
    BY <1>1, <2>2, <2>3, <2>4, <2>5, <2>6, OwedStep, CollectedStep
    DEF PatientInv
<1>2. ASSUME NEW a \in Agents, AgentStep(a) \/ Crash(a)
      PROVE  PatientInv'
  <2>1. UNCHANGED <<masterVars, statVars, owed>>
    BY <1>2 DEF AgentStep, Answer, AgentOptions, AgentServers, AgentDenom,
       AgentWork, AgentSync, AgentProceed, AgentStatsSent, Crash
  <2> QED
    BY <2>1 DEF PatientInv, Awaited, Due, Current
<1>3. CASE UNCHANGED vars
  BY <1>3 DEF vars, PatientInv, Awaited, Due, Current
<1> QED
  BY <1>1, <1>2, <1>3 DEF Next, Stopped

LEMMA PatientInit == Init => PatientInv
<1> SUFFICES ASSUME Init
             PROVE  PatientInv
  OBVIOUS
<1>1. Range(active) = Agents /\ \A i \in 1..Len(active) : active[i] \in Agents
  BY AllListed, Listed DEF Init
<1> QED
  BY <1>1 DEF Init, PatientInv, Awaited, Due

LEMMA PatientKept ==
  ASSUME SameSyncs, Patient
  PROVE  Spec => [](TypeInv /\ ProtocolInv /\ PatientInv)
<1>1. Init => TypeInv /\ ProtocolInv /\ PatientInv
  BY TypeInit, ProtocolInit, PatientInit
<1>2. TypeInv /\ ProtocolInv /\ PatientInv /\ [Next]_vars
        => (TypeInv /\ ProtocolInv /\ PatientInv)'
  BY TypeStep, ProtocolStep, PatientStep
<1> QED
  BY <1>1, <1>2, PTL DEF Spec

\* A master whose polls do not give up and its agents never DIE, and no send
\* throws: NobodyDies.
THEOREM NobodyEverDies ==
  ASSUME SameSyncs, Patient
  PROVE  Spec => []NobodyDies
<1>1. ProtocolInv /\ PatientInv => NobodyDies
  BY DEF ProtocolInv, Agreement, PatientInv, NobodyDies
<1>2. Spec => [](TypeInv /\ ProtocolInv /\ PatientInv)
  BY PatientKept
<1> QED
  BY <1>1, <1>2, PTL

\* When a round is over the AgentStats of every agent were accumulated once,
\* and nothing else was: StatsComplete.
THEOREM StatsCollected ==
  ASSUME SameSyncs, Patient
  PROVE  Spec => []StatsComplete
<1>1. ASSUME TypeInv, PatientInv
      PROVE  StatsComplete
  <2>1. Range(active) = {active[i] : i \in 1..Len(active)}
    BY <1>1, Listed DEF TypeInv, TypeOK
  <2> QED
    BY <1>1, <2>1 DEF PatientInv, StatsComplete, Due
<1>2. TypeInv /\ PatientInv => StatsComplete
  BY <1>1
<1>3. Spec => [](TypeInv /\ ProtocolInv /\ PatientInv)
  BY PatientKept
<1> QED
  BY <1>2, <1>3, PTL

\* An agent that does not fail is up.
Up == \A a \in Agents : pc[a] # "down"

LEMMA UpStep == MayCrash = {} /\ TypeInv /\ Up /\ [Next]_vars => Up'
<1> SUFFICES ASSUME MayCrash = {}, TypeInv, Up, [Next]_vars
             PROVE  Up'
  OBVIOUS
<1> USE DEF masterVars, statVars, agentVars, wireVars, syncVars, TypeInv, TypeOK
<1>1. CASE MasterStep
  BY <1>1
  DEF Up, MasterStep, Prepare, Synchronize, Finish, SendOptions, SendFails,
     ReceiveNum, ReceiveAck, PrepTimeout, PrepDone, SendDenom, ReceiveThanks,
     ThanksTimeout, ShareDone, SendSyncReq, ReceiveSync, SendProceed,
     ReceiveSyncAck, SyncTimeout, SyncDone, Measured, SendStatsReq,
     ReceiveStats, StatsTimeout, RoundDone
<1>2. ASSUME NEW a \in Agents, AgentStep(a) \/ Crash(a)
      PROVE  Up'
  BY <1>2 DEF Up, AgentStep, Answer, AgentOptions, AgentServers, AgentDenom,
     AgentWork, AgentSync, AgentProceed, AgentStatsSent, Crash
<1>3. CASE UNCHANGED vars
  BY <1>3 DEF vars, Up
<1> QED
  BY <1>1, <1>2, <1>3 DEF Next, Stopped

\* A round leaves every agent where agent() waits for its next options:
\* AgentsReady.
THEOREM AgentsAreReady ==
  ASSUME SameSyncs, Patient, MayCrash = {}
  PROVE  Spec => []AgentsReady
<1>1. Spec => [](TypeInv /\ ProtocolInv /\ PatientInv)
  BY PatientKept
<1>2. Init => Up
  BY DEF Init, Up
<1>3. TypeInv /\ Up /\ [Next]_vars => Up'
  BY UpStep
<1>4. ASSUME TypeInv, ProtocolInv, PatientInv, Up
      PROVE  AgentsReady
  <2>1. ASSUME stage = "done" \/ (stage = "offer" /\ turn = 1),
               NEW a \in Range(active)
        PROVE  pc[a] = "options"
    <3>1. PICK i \in 1..Len(active) : a = active[i] /\ a \in Agents
      <4>1. active \in Seq(Agents)
        BY <1>4 DEF TypeInv, TypeOK
      <4> QED
        BY <2>1, <4>1, Listed
    <3>2. Position(i) /\ owed = {}
      BY <1>4, <2>1, <3>1 DEF ProtocolInv, Positions, PatientInv, Awaited
    <3>3. Fresh(a)
      BY <2>1, <3>1, <3>2 DEF Position, Preparing, Finishing
    <3>4. At(a, "options")
      BY <3>2, <3>3 DEF Fresh, Late, Idle
    <3> QED
      BY <1>4, <3>1, <3>4 DEF Up, At, Resume
  <2> QED
    BY <2>1 DEF AgentsReady
<1>5. TypeInv /\ ProtocolInv /\ PatientInv /\ Up => AgentsReady
  BY <1>4
<1> QED
  BY <1>1, <1>2, <1>3, <1>5, PTL DEF Spec

-----------------------------------------------------------------------------
(* lambda_denom.                                                           *)

\* What the master adds for an agent is the weight of the agent's connections.
LEMMA ShareIsWeight ==
  ASSUME TypeOK, Weighable, NEW a \in Agents
  PROVE  Share(Threads[a] * Mul[a]) = Weight(a)
<1> DEFINE t == Threads[a]
           m == Mul[a]
<1>1. /\ t \in Nat \ {0} /\ m \in Nat \ {0}
      /\ Conns \in Nat \ {0} /\ Servers \in Nat \ {0}
      /\ options.roundrobin \in BOOLEAN
      /\ options.roundrobin => m = 1 \/ Servers <= t
  BY AgentsAssumption, LoadAssumption, OptionsAssumption DEF TypeOK, Weighable
<1> HIDE DEF t, m
<1>2. CASE ~options.roundrobin
  <2>1. Share(t * m) = Conns * (Servers * (t * m))
    BY <1>2 DEF Share
  <2>2. Weight(a) = m * Conns * (Servers * t)
    BY <1>2 DEF Weight, t, m
  <2>3. \A c, s, x, y \in Int : c * (s * (x * y)) = y * c * (s * x)
    OBVIOUS
  <2> QED
    BY <1>1, <2>1, <2>2, <2>3 DEF t, m
<1>3. CASE options.roundrobin /\ m = 1
  <2>1. t * m = t /\ m * Conns = Conns
    BY <1>1, <1>3
  <2>2. Weight(a) = m * Conns * (IF Servers > t THEN Servers ELSE t)
    BY <1>3 DEF Weight, t, m
  <2>3. Share(t * m) = Conns * (IF Servers > t * m THEN Servers ELSE t * m)
    BY <1>3 DEF Share
  <2> QED
    BY <2>1, <2>2, <2>3 DEF t, m
<1>4. CASE options.roundrobin /\ Servers <= t
  <2>1. t * m \in Int /\ t <= t * m
    <3>1. \A x, y \in Int : x > 0 /\ y > 0 => x * y \in Int /\ x <= x * y
      OBVIOUS
    <3> QED
      BY <1>1, <3>1
  <2>2. Weight(a) = m * Conns * t
    BY <1>1, <1>4 DEF Weight, t, m
  <2>3. Share(t * m) = Conns * (t * m)
    BY <1>1, <1>4, <2>1 DEF Share
  <2>4. \A c, x, y \in Int : c * (x * y) = y * c * x
    OBVIOUS
  <2> QED
    BY <1>1, <2>2, <2>3, <2>4 DEF t, m
<1> QED
  BY <1>1, <1>2, <1>3, <1>4

LEMMA WeightsType ==
  ASSUME TypeOK
  PROVE  Weights \in [Agents -> Int]
<1> SUFFICES ASSUME NEW a \in Agents
             PROVE  Weight(a) \in Int
  BY DEF Weights
<1>1. Threads[a] \in Int /\ Mul[a] \in Int /\ Conns \in Int /\ Servers \in Int
  BY AgentsAssumption, LoadAssumption
<1> DEFINE n == IF options.roundrobin
                THEN (IF Servers > Threads[a] THEN Servers ELSE Threads[a])
                ELSE Servers * Threads[a]
<1>2. n \in Int
  <2>1. Servers * Threads[a] \in Int
    BY <1>1
  <2> QED
    BY <1>1, <2>1
<1>3. Mul[a] * Conns \in Int
  BY <1>1
<1> HIDE DEF n
<1>4. Mul[a] * Conns * n \in Int
  BY <1>2, <1>3
<1> QED
  BY <1>4 DEF Weight, n

\* Each agent is counted once.
LEMMA DenomStep ==
  ASSUME TypeInv, ProtocolInv, PatientInv, Patient, Weighable, DenomInv,
         [Next]_vars
  PROVE  DenomInv'
<1> USE DEF masterVars, statVars, agentVars, wireVars, syncVars
<1>1. options' = options
  BY DEF Next, Stopped, vars, MasterStep, Prepare, Synchronize, Finish,
     SendOptions, SendFails, ReceiveNum, ReceiveAck, PrepTimeout, PrepDone,
     SendDenom, ReceiveThanks, ThanksTimeout, ShareDone, SendSyncReq,
     ReceiveSync, SendProceed, ReceiveSyncAck, SyncTimeout, SyncDone, Measured,
     SendStatsReq, ReceiveStats, StatsTimeout, RoundDone, AgentStep, Answer,
     AgentOptions, AgentServers, AgentDenom, AgentWork, AgentSync,
     AgentProceed, AgentStatsSent, Crash
<1>2. Weights' = Weights /\ OwnShare' = OwnShare
  BY <1>1 DEF Weights, Weight, OwnShare
<1>3. CASE ReceiveNum
  <2>1. /\ AtTurn /\ turn \in 1..Len(active) /\ Current \in Agents
        /\ reply[Current] = "num"
    BY <1>3, Messages, Unhurried
    DEF ReceiveNum, TypeInv, Bounds, AtTurn, Current
  <2>2. sum' = sum + Weight(Current)
    <3>1. sum' = sum + Share(Threads[Current] * Mul[Current])
      BY <1>3, <2>1 DEF ReceiveNum
    <3> QED
      BY <2>1, <3>1, ShareIsWeight DEF TypeInv
  <2>3. Counted' = Counted \union {Current} /\ Current \notin Counted
        /\ Counted \in SUBSET Agents
    <3>1. Counted = {active[i] : i \in 1..turn - 1}
      BY <1>3 DEF ReceiveNum, Counted
    <3>2. Counted' = {active[i] : i \in 1..turn}
      BY <1>3 DEF ReceiveNum, Counted
    <3>3. /\ 1..turn = (1..turn - 1) \union {turn}
          /\ 1..turn - 1 \subseteq 1..Len(active)
          /\ turn \notin 1..turn - 1
      BY <2>1, Unhurried
    <3>4. \A i \in 1..turn - 1 : active[i] \in Agents /\ active[i] # Current
      BY <2>1, <3>3, Unhurried DEF Current
    <3> QED
      BY <3>1, <3>2, <3>3, <3>4 DEF Current
  <2>4. SumFunctionOnSet(Weights, Counted')
          = SumFunctionOnSet(Weights, Counted) + Weight(Current)
    <3>1. Weights \in [Agents -> Int] /\ Weights[Current] = Weight(Current)
      BY <2>1, WeightsType DEF Weights, TypeInv
    <3>2. IsFiniteSet(Counted)
      BY <2>3, AgentsAssumption, FS_Subset
    <3> QED
      BY <2>1, <2>3, <3>1, <3>2, SumAdd
  <2>5. /\ SumFunctionOnSet(Weights, Counted) \in Int /\ Weight(Current) \in Int
        /\ OwnShare \in Int
    <3>1. Weights \in [Agents -> Int] /\ Weights[Current] = Weight(Current)
      BY <2>1, WeightsType DEF Weights, TypeInv
    <3>2. IsFiniteSet(Counted)
      BY <2>3, AgentsAssumption, FS_Subset
    <3> QED
      BY <2>1, <2>3, <3>1, <3>2, SumType, SyncsType DEF TypeInv
  <2> QED
    BY <1>2, <2>2, <2>4, <2>5 DEF DenomInv
<1>4. CASE RoundDone
  <2>1. CASE round < Rounds
    <3>1. Counted' = {} /\ sum' = OwnShare
      BY <1>4, <2>1 DEF RoundDone, Counted
    <3> QED
      BY <1>2, <3>1, SumEmpty, SyncsType DEF DenomInv, TypeInv
  <2>2. CASE ~(round < Rounds)
    BY <1>2, <1>4, <2>2 DEF RoundDone, Counted, DenomInv
  <2> QED
    BY <2>1, <2>2
<1>5. CASE PrepDone
  <2>1. turn = Len(active) + 1
    BY <1>5, Unhurried DEF PrepDone, AtTurn
  <2>2. Counted' = Counted
    BY <1>5, <2>1, Unhurried DEF PrepDone, Counted
  <2> QED
    BY <1>2, <1>5, <2>2 DEF PrepDone, DenomInv
<1>6. CASE ReceiveAck
  <2>1. Counted' = Counted
    BY <1>6, Unhurried DEF ReceiveAck, Counted
  <2> QED
    BY <1>2, <1>6, <2>1 DEF ReceiveAck, DenomInv
<1>7. CASE MasterStep /\ ~(ReceiveNum \/ RoundDone \/ PrepDone \/ ReceiveAck)
  <2>1. /\ sum' = sum /\ active' = active
        /\ \/ stage = "offer" /\ stage' = "num" /\ turn' = turn
           \/ /\ stage \notin {"offer", "num", "ack"}
              /\ stage' \notin {"offer", "num", "ack"}
    BY <1>7, Unhurried DEF MasterStep, Prepare, Synchronize, Finish,
       SendOptions, SendDenom, ReceiveThanks, ShareDone, SendSyncReq,
       ReceiveSync, SendProceed, ReceiveSyncAck, SyncDone, Measured,
       SendStatsReq, ReceiveStats
  <2>2. Counted' = Counted
    BY <2>1 DEF Counted
  <2> QED
    BY <1>2, <2>1, <2>2 DEF DenomInv
<1>8. ASSUME NEW a \in Agents, AgentStep(a) \/ Crash(a)
      PROVE  DenomInv'
  <2>1. UNCHANGED masterVars
    BY <1>8 DEF AgentStep, Answer, AgentOptions, AgentServers, AgentDenom,
       AgentWork, AgentSync, AgentProceed, AgentStatsSent, Crash
  <2> QED
    BY <1>2, <2>1 DEF DenomInv, Counted
<1>9. CASE UNCHANGED vars
  BY <1>2, <1>9 DEF vars, DenomInv, Counted
<1> QED
  BY <1>3, <1>4, <1>5, <1>6, <1>7, <1>8, <1>9 DEF Next, Stopped

\* lambda_denom is the weighted number of the connections of all who take part:
\* LambdaDenomExact.
THEOREM LambdaDenomIsExact ==
  ASSUME SameSyncs, Patient, Weighable
  PROVE  Spec => []LambdaDenomExact
<1>1. Spec => [](TypeInv /\ ProtocolInv /\ PatientInv)
  BY PatientKept
<1>2. Init => DenomInv
  <2> SUFFICES ASSUME Init
               PROVE  DenomInv
    OBVIOUS
  <2>1. Counted = {} /\ sum = OwnShare /\ OwnShare \in Int
    BY TypeInit, SyncsType DEF Init, Counted, TypeInv
  <2> QED
    BY <2>1, SumEmpty DEF DenomInv
<1>3. TypeInv /\ ProtocolInv /\ PatientInv /\ DenomInv /\ [Next]_vars => DenomInv'
  BY DenomStep
<1>4. DenomInv => LambdaDenomExact
  BY DEF DenomInv, LambdaDenomExact, Prepared, Counted
<1> QED
  BY <1>1, <1>2, <1>3, <1>4, PTL DEF Spec

-----------------------------------------------------------------------------
(* AgentProtocol implements Rendezvous: sync_agent lets nobody go on       *)
(* before everybody who still takes part was ready.                        *)

\* What a step finds about the agent at i.
LEMMA Times ==
  ASSUME TypeInv, ProtocolInv, RendezvousInv, NEW i \in 1..Len(active)
  PROVE  /\ active[i] \in Agents /\ active[i] # Master
         /\ Master \in Parties /\ Agents \subseteq Parties
         /\ arrived \in [Parties -> Nat] /\ released \in [Parties -> Nat]
         /\ Len(active) \in Nat /\ turn \in 1..Len(active) + 1
         /\ Position(i) /\ InTime(i) /\ Counts
         /\ AtTurn => turn \in 1..Len(active) /\ Position(turn)
         /\ reply \in [Agents -> Replies]
         /\ \A j \in 1..Len(active) : active[i] = active[j] => i = j
<1>1. active[i] \in Agents
  BY Situation
<1> QED
  BY <1>1, Situation, MasterAssumption
  DEF TypeInv, TypeOK, RendezvousInv, Parties

\* Who has been ready and has gone on how often.
LEMMA CountsStep ==
  ASSUME TypeInv, ProtocolInv, RendezvousInv, SameSyncs, [Next]_vars
  PROVE  Counts'
<1> USE DEF masterVars, statVars, agentVars, wireVars, syncVars
<1>a. /\ Counts /\ arrived \in [Parties -> Nat] /\ released \in [Parties -> Nat]
      /\ pc \in [Agents -> PCs] /\ request \in [Agents -> Requests]
      /\ Master \in Parties /\ Agents \subseteq Parties /\ Master \notin Agents
  BY MasterAssumption DEF RendezvousInv, TypeInv, TypeOK, Parties
<1>b. \A b \in Agents :
        request'[b] # "none" /\ pc'[b] = "proceed" => request'[b] = "proceed"
  <2>1. Agreement'
    BY ProtocolStep DEF ProtocolInv
  <2> QED
    BY <2>1, Messages DEF Agreement, Wants
<1>c. /\ AtTurn => Current \in Agents
      /\ Range(active) \subseteq Agents
  <2>1. active \in Seq(Agents) /\ Len(active) \in Nat /\ turn \in 1..Len(active) + 1
    BY LenProperties DEF TypeInv, TypeOK
  <2> QED
    BY <2>1, Listed DEF AtTurn, Current
<1>1. CASE SendSyncReq
  <2>1. \A b \in Agents : pc'[b] = "proceed" /\ request'[b] # "none"
          => request[b] # "none"
    BY <1>1, <1>b, <1>c DEF SendSyncReq, Send
  <2> QED
    BY <1>1, <1>a, <2>1 DEF SendSyncReq, Counts
<1>2. CASE SendProceed
  BY <1>2, <1>a DEF SendProceed, Counts
<1>3. CASE MasterStep /\ ~SendSyncReq /\ ~SendProceed
  <2>1. UNCHANGED <<pc, arrived, released>> /\ (stage = "arrive" <=> stage' = "arrive")
    BY <1>3 DEF MasterStep, Prepare, Synchronize, Finish, SendOptions, SendFails,
       ReceiveNum, ReceiveAck, PrepTimeout, PrepDone, SendDenom, ReceiveThanks,
       ThanksTimeout, ShareDone, ReceiveSync, ReceiveSyncAck, SyncTimeout,
       SyncDone, Measured, SendStatsReq, ReceiveStats, StatsTimeout, RoundDone
  <2>2. \A b \in Agents : pc'[b] = "proceed" /\ request'[b] # "none"
          => request[b] # "none"
    BY <1>3, <1>a, <1>b, <1>c
    DEF MasterStep, Prepare, Synchronize, Finish, SendOptions, SendFails,
       ReceiveNum, ReceiveAck, PrepTimeout, PrepDone, SendDenom, ReceiveThanks,
       ThanksTimeout, ShareDone, ReceiveSync, ReceiveSyncAck, SyncTimeout,
       SyncDone, Measured, SendStatsReq, ReceiveStats, StatsTimeout, RoundDone,
       Send, Drop, TypeInv, Bounds
  <2> QED
    BY <2>1, <2>2, <1>a DEF Counts
<1>4. ASSUME NEW a \in Agents, AgentWork(a)
      PROVE  Counts'
  <2>1. CASE ahead[a] > 0
    BY <1>4, <2>1, <1>a DEF AgentWork, Counts
  <2>2. CASE ~(ahead[a] > 0)
    BY <1>4, <2>2, <1>a DEF AgentWork, Counts
  <2> QED
    BY <2>1, <2>2
<1>5. ASSUME NEW a \in Agents, AgentProceed(a)
      PROVE  Counts'
  <2>1. /\ pc[a] = "proceed" /\ request[a] # "none"
        /\ request' = [request EXCEPT ![a] = "none"]
        /\ pc'[a] \notin {"sync", "proceed"}
        /\ pc' = [pc EXCEPT ![a] = pc'[a]]
        /\ released' = [released EXCEPT ![a] = @ + 1]
        /\ UNCHANGED <<stage, arrived>>
    BY <1>5, <1>a DEF AgentProceed, Answer
  <2> QED
    BY <2>1, <1>a DEF Counts
<1>6. ASSUME NEW a \in Agents, AgentStep(a) \/ Crash(a), ~AgentWork(a), ~AgentProceed(a)
      PROVE  Counts'
  BY <1>6, <1>a DEF AgentStep, Answer, AgentOptions, AgentServers, AgentDenom,
     AgentSync, AgentStatsSent, Crash, Counts
<1>7. CASE UNCHANGED vars
  BY <1>7 DEF vars, RendezvousInv, Counts
<1> QED
  BY <1>1, <1>2, <1>3, <1>4, <1>5, <1>6, <1>7 DEF Next, Stopped

\* A step of the master that drops nobody.
LEMMA MasterInTime ==
  ASSUME TypeInv, ProtocolInv, RendezvousInv, NEW i \in 1..Len(active),
         MasterStep, ~PrepTimeout, ~ThanksTimeout, ~SyncTimeout
  PROVE  InTime(i)'
<1> USE DEF masterVars, statVars, agentVars, wireVars, syncVars, InTime, Counts
<1>1. CASE SendSyncReq
  <2>1. reply[active[i]] = "none"
    BY <1>1, Times DEF SendSyncReq, Position, Syncing, Ready, Idle
  <2> QED
    BY <1>1, <2>1, Times DEF SendSyncReq
<1>2. CASE SendProceed
  <2>1. i < turn /\ reply[active[i]] = "none"
    BY <1>2, Times DEF SendProceed, AllArrived, AtTurn, Position, Syncing, Idle
  <2> QED
    BY <1>2, <2>1, Times DEF SendProceed
<1>3. CASE ReceiveSync \/ ReceiveSyncAck
  BY <1>3, Times DEF ReceiveSync, ReceiveSyncAck, Receive, AtTurn, Current
<1>4. CASE SyncDone
  BY <1>4, Times DEF SyncDone, AtTurn
<1>5. CASE MasterStep /\ stage \notin {"arrive", "leave"} /\ ~SendSyncReq
  <2>1. /\ UNCHANGED <<active, arrived, released>>
        /\ stage' \notin {"arrive", "leave"}
    BY <1>5 DEF MasterStep, Prepare, Synchronize, Finish, SendOptions, SendFails,
       ReceiveNum, ReceiveAck, PrepTimeout, PrepDone, SendDenom, ReceiveThanks,
       ThanksTimeout, ShareDone, ReceiveSync, SendProceed, ReceiveSyncAck, SyncTimeout,
       SyncDone, Measured, SendStatsReq, ReceiveStats, StatsTimeout, RoundDone
  <2> QED
    BY <1>5, <2>1, Times
<1> QED
  BY <1>1, <1>2, <1>3, <1>4, <1>5
  DEF MasterStep, Prepare, Synchronize, Finish, SendOptions, SendFails,
      ReceiveNum, ReceiveAck, PrepDone, SendDenom, ReceiveThanks, ShareDone,
      Measured, SendStatsReq, ReceiveStats, StatsTimeout, RoundDone

LEMMA DropInTime ==
  ASSUME TypeInv, ProtocolInv, RendezvousInv, NEW i \in 1..Len(active'),
         PrepTimeout \/ ThanksTimeout \/ SyncTimeout
  PROVE  InTime(i)'
<1> DEFINE j == IF i < turn THEN i ELSE i + 1
<1>1. TypeOK /\ AtTurn /\ Drop
  BY DEF TypeInv, Bounds, PrepTimeout, ThanksTimeout, SyncTimeout
<1>2. Len(active) \in Nat /\ turn \in 1..Len(active)
  BY <1>1, LenProperties DEF TypeOK, AtTurn
<1>3. j \in 1..Len(active) /\ active'[i] = active[j]
  BY <1>1, <1>2, Dropped
<1>4. InTime(j)
  BY <1>3 DEF RendezvousInv
<1> QED
  BY <1>1, <1>2, <1>3, <1>4
  DEF PrepTimeout, ThanksTimeout, SyncTimeout, Drop, InTime, syncVars

LEMMA AgentInTime ==
  ASSUME TypeInv, ProtocolInv, RendezvousInv, NEW i \in 1..Len(active),
         NEW a \in Agents, AgentStep(a) \/ Crash(a)
  PROVE  InTime(i)'
<1> USE DEF masterVars, statVars, agentVars, wireVars, syncVars
<1>a. /\ active[i] \in Agents /\ active[i] # Master /\ a # Master
      /\ a \in Parties
  BY Times, MasterAssumption DEF Parties
<1>b. /\ UNCHANGED <<active, stage, turn>>
      /\ released'[Master] = released[Master]
      /\ active[i] # a => /\ arrived'[active[i]] = arrived[active[i]]
                          /\ released'[active[i]] = released[active[i]]
                          /\ reply'[active[i]] = reply[active[i]]
  BY <1>a, Times DEF AgentStep, Answer, AgentOptions, AgentServers,
     AgentDenom, AgentWork, AgentSync, AgentProceed, AgentStatsSent, Crash
<1>1. CASE active[i] # a
  BY <1>1, <1>b, Times DEF InTime
<1>2. CASE active[i] = a /\ Crash(a)
  BY <1>2, Times DEF Crash, InTime
<1>3. CASE active[i] = a /\ AgentWork(a)
  <2>1. /\ pc[a] = "work" /\ reply' = reply /\ released' = released
        /\ arrived'[a] \in Nat /\ arrived'[a] >= arrived[a]
    BY <1>3, <1>a, Times DEF AgentWork
  <2>2. ~(stage = "arrive" /\ (i < turn \/ reply[a] # "none"))
    BY <1>3, <2>1, Times
    DEF Position, Syncing, Pending, Asked, Answered, Idle, At, Resume
  <2> QED
    BY <1>3, <1>b, <2>1, <2>2, Times DEF InTime
<1>4. CASE active[i] = a /\ AgentSync(a)
  <2>1. /\ pc[a] = "sync" /\ arrived' = arrived /\ released' = released
        /\ stage # "leave"
    BY <1>4, Times, Messages
    DEF AgentSync, Answer, Position, Syncing, Ready, Idle, Asked, Answered, At
  <2> QED
    BY <1>4, <1>b, <2>1, Times DEF InTime, Counts
<1>5. CASE active[i] = a /\ AgentProceed(a)
  <2>1. /\ pc[a] = "proceed" /\ request[a] # "none" /\ arrived' = arrived
        /\ released'[a] = released[a] + 1
        /\ reply'[a] = "ack"
    BY <1>5, <1>a, Times, Messages DEF AgentProceed, Answer
  <2>2. arrived[a] = released[a] + 1 /\ released[a] < released[Master]
    BY <2>1, Times DEF Counts
  <2>3. stage = "leave"
    BY <1>5, <2>2, Times DEF InTime
  <2> QED
    BY <1>5, <1>b, <2>1, <2>2, <2>3, <1>a, Times DEF InTime
<1>6. CASE /\ active[i] = a
           /\ \/ AgentOptions(a) \/ AgentServers(a) \/ AgentDenom(a)
              \/ AgentStatsSent(a)
  <2>1. /\ pc[a] \in {"options", "servers", "denom", "stats"}
        /\ request[a] # "none"
        /\ arrived' = arrived /\ released' = released
    BY <1>6 DEF AgentOptions, AgentServers, AgentDenom, AgentStatsSent, Answer
  <2>2. stage \notin {"arrive", "leave"}
    BY <1>6, <2>1, Times, Messages, SMTT(30)
    DEF Position, Syncing, Ready, Pending, Asked, Answered, Idle, At, Resume
  <2> QED
    BY <1>6, <1>b, <2>1, <2>2, Times DEF InTime
<1> QED
  BY <1>1, <1>2, <1>3, <1>4, <1>5, <1>6 DEF AgentStep

LEMMA RendezvousInit == Init => RendezvousInv
<1> SUFFICES ASSUME Init
             PROVE  RendezvousInv
  OBVIOUS
<1>1. \A i \in 1..Len(active) : active[i] \in Agents
  BY AllListed, Listed DEF Init
<1> QED
  BY <1>1 DEF Init, RendezvousInv, Counts, InTime, Parties

LEMMA RendezvousStep ==
  ASSUME TypeInv, ProtocolInv, RendezvousInv, SameSyncs, [Next]_vars
  PROVE  RendezvousInv'
<1>1. Counts'
  BY CountsStep
<1>2. CASE PrepTimeout \/ ThanksTimeout \/ SyncTimeout
  BY <1>1, <1>2, DropInTime DEF RendezvousInv
<1>3. CASE MasterStep /\ ~(PrepTimeout \/ ThanksTimeout \/ SyncTimeout)
  <2>1. active' = active
    BY <1>3 DEF MasterStep, Prepare, Synchronize, Finish, SendOptions,
         SendFails, ReceiveNum, ReceiveAck, PrepDone, SendDenom,
         ReceiveThanks, ShareDone, SendSyncReq, ReceiveSync, SendProceed,
         ReceiveSyncAck, SyncDone, Measured, SendStatsReq, ReceiveStats,
         StatsTimeout, RoundDone
  <2> QED
    BY <1>1, <1>3, <2>1, MasterInTime DEF RendezvousInv
<1>4. ASSUME NEW a \in Agents, AgentStep(a) \/ Crash(a)
      PROVE  RendezvousInv'
  <2>1. active' = active
    BY <1>4 DEF AgentStep, Answer, AgentOptions, AgentServers, AgentDenom,
         AgentWork, AgentSync, AgentProceed, AgentStatsSent, Crash, masterVars
  <2> QED
    BY <1>1, <1>4, <2>1, AgentInTime DEF RendezvousInv
<1>5. CASE UNCHANGED vars
  BY <1>1, <1>5 DEF vars, masterVars, wireVars, syncVars, RendezvousInv, InTime
<1> QED
  BY <1>2, <1>3, <1>4, <1>5 DEF Next, Stopped

\* Nobody goes on before everybody still in the list was ready.
LEMMA TogetherHolds ==
  ASSUME TypeInv, ProtocolInv, RendezvousInv
  PROVE  /\ \A i \in 1..Len(active) : released[Master] <= arrived[active[i]]
         /\ released[Master] <= arrived[Master]
         /\ Together
<1>1. /\ active \in Seq(Agents) /\ Counts
      /\ arrived \in [Parties -> Nat] /\ released \in [Parties -> Nat]
  BY DEF TypeInv, TypeOK, RendezvousInv
<1>2. ASSUME NEW i \in 1..Len(active)
      PROVE  released[Master] <= arrived[active[i]]
  BY Times DEF InTime, Counts
<1>3. released[Master] <= arrived[Master]
  BY <1>1 DEF Counts, Parties
<1>4. \A p \in Parties : released[p] <= released[Master]
  BY <1>1 DEF Counts, Parties
<1>5. ASSUME NEW p \in Parties, NEW q \in Range(active) \union {Master}
      PROVE  released[p] <= arrived[q]
  <2>1. q \in Parties /\ Master \in Parties
    BY <1>1, Listed, SMTT(30) DEF Parties
  <2>2. released[Master] <= arrived[q]
    BY <1>1, <1>2, <1>3, Listed
  <2> QED
    BY <1>1, <1>4, <2>1, <2>2
<1> QED
  BY <1>2, <1>3, <1>5 DEF Together

\* Nobody is let go on before everybody still in agent_sockets, and the master,
\* was ready: Together.
THEOREM TogetherKept ==
  ASSUME SameSyncs
  PROVE  Spec => []Together
<1>1. Init => TypeInv /\ ProtocolInv /\ RendezvousInv
  BY TypeInit, ProtocolInit, RendezvousInit
<1>2. TypeInv /\ ProtocolInv /\ RendezvousInv /\ [Next]_vars
        => (TypeInv /\ ProtocolInv /\ RendezvousInv)'
  BY TypeStep, ProtocolStep, RendezvousStep
<1>3. TypeInv /\ ProtocolInv /\ RendezvousInv => Together
  BY TogetherHolds
<1> QED
  BY <1>1, <1>2, <1>3, PTL DEF Spec

-----------------------------------------------------------------------------
(* sync_agent implements Rendezvous.  A party arrives when it calls        *)
(* sync_agent, the master with its first message; it is released when it   *)
(* sends or receives the "proceed"; and it has left when the master has    *)
(* removed it from agent_sockets.                                          *)

gone == Agents \ Range(active)

LEMMA DropLeaves ==
  ASSUME TypeInv, Lists, AtTurn, Drop
  PROVE  Current \in Agents /\ gone' = gone \union {Current}
<1>1. /\ active \in Seq(Agents) /\ active' \in Seq(Agents)
      /\ Len(active) \in Nat /\ turn \in 1..Len(active)
      /\ Len(active') = Len(active) - 1
      /\ \A i \in 1..Len(active') :
           active'[i] = IF i < turn THEN active[i] ELSE active[i + 1]
  <2>1. TypeOK
    BY DEF TypeInv
  <2>2. active \in Seq(Agents) /\ Len(active) \in Nat /\ turn \in 1..Len(active)
    BY <2>1, LenProperties DEF TypeOK, AtTurn
  <2> QED
    BY <2>1, <2>2, DropType, Dropped
<1>2. Range(active) = {active[i] : i \in 1..Len(active)}
  BY <1>1, Listed
<1>3. Range(active') = {active'[i] : i \in 1..Len(active')}
  BY <1>1, Listed
<1>4. ASSUME NEW a \in Range(active), a # Current
      PROVE  a \in Range(active')
  <2>1. PICK i \in 1..Len(active) : active[i] = a
    BY <1>2
  <2>2. i # turn
    BY <1>4, <2>1 DEF Current
  <2>3. CASE i < turn
    BY <1>1, <1>3, <2>1, <2>3
  <2>4. CASE i > turn
    <3>1. i - 1 \in 1..Len(active') /\ ~(i - 1 < turn) /\ (i - 1) + 1 = i
      BY <1>1, <2>4
    <3>2. active'[i - 1] = a
      BY <1>1, <2>1, <3>1
    <3> QED
      BY <1>3, <3>1, <3>2
  <2> QED
    BY <1>1, <2>2, <2>3, <2>4
<1>5. ASSUME NEW a \in Range(active')
      PROVE  a \in Range(active) /\ a # Current
  <2>1. PICK i \in 1..Len(active') : active'[i] = a
    BY <1>3
  <2>2. CASE i < turn
    <3>1. i \in 1..Len(active) /\ a = active[i] /\ i # turn
      BY <1>1, <2>1, <2>2
    <3> QED
      BY <1>1, <1>2, <3>1 DEF Lists, Current
  <2>3. CASE ~(i < turn)
    <3>1. i + 1 \in 1..Len(active) /\ a = active[i + 1] /\ i + 1 # turn
      BY <1>1, <2>1, <2>3
    <3> QED
      BY <1>1, <1>2, <3>1 DEF Lists, Current
  <2> QED
    BY <2>2, <2>3
<1>6. Current \in Agents
  BY <1>1, Listed DEF Current
<1> QED
  BY <1>4, <1>5, <1>6 DEF gone

\* Each step is one of the rendezvous, or none.
LEMMA RendezvousRefined ==
  ASSUME TypeInv, ProtocolInv, RendezvousInv, SameSyncs, [Next]_vars
  PROVE  Barrier!Next \/ UNCHANGED <<arrived, released, gone>>
<1> USE DEF masterVars, statVars, agentVars, wireVars, syncVars
<1>a. /\ Counts /\ arrived \in [Parties -> Nat] /\ released \in [Parties -> Nat]
      /\ Master \in Parties /\ Agents \subseteq Parties /\ Master \notin Agents
      /\ active \in Seq(Agents)
  BY MasterAssumption DEF RendezvousInv, TypeInv, TypeOK, Parties
<1>b. /\ Parties \ gone = Range(active) \union {Master}
      /\ Range(active) = {active[i] : i \in 1..Len(active)}
      /\ Len(active) \in Nat /\ turn \in 1..Len(active) + 1
  <2>1. /\ Range(active) = {active[i] : i \in 1..Len(active)}
        /\ Range(active) \subseteq Agents /\ Len(active) \in Nat
    BY <1>a, Listed
  <2> QED
    BY <1>a, <2>1 DEF Parties, gone, TypeInv, TypeOK
<1>1. CASE SendSyncReq
  <2>1. Barrier!Arrive(Master)
    BY <1>1, <1>a DEF SendSyncReq, Barrier!Arrive, Counts, gone
  <2> QED
    BY <1>a, <2>1 DEF Barrier!Next
<1>2. CASE SendProceed
  <2>1. released[Master] < arrived[Master]
    BY <1>2, <1>a DEF SendProceed, Counts
  <2>2. ASSUME NEW i \in 1..Len(active)
        PROVE  released[Master] < arrived[active[i]]
    BY <1>2, <1>a, <1>b, Times DEF SendProceed, AllArrived, AtTurn, InTime
  <2>3. Barrier!Release(Master)
    BY <1>2, <1>a, <1>b, <2>1, <2>2 DEF SendProceed, Barrier!Release, gone
  <2> QED
    BY <1>a, <2>3 DEF Barrier!Next
<1>3. CASE PrepTimeout \/ ThanksTimeout \/ SyncTimeout
  <2>1. Lists /\ AtTurn /\ Drop /\ UNCHANGED <<arrived, released>>
    BY <1>3 DEF ProtocolInv, PrepTimeout, ThanksTimeout, SyncTimeout, TypeInv, Bounds
  <2>2. Current \in Parties /\ Barrier!Leave(Current)
    BY <2>1, <1>a, DropLeaves DEF Barrier!Leave, gone
  <2> QED
    BY <2>2 DEF Barrier!Next
<1>4. CASE /\ MasterStep /\ ~SendSyncReq /\ ~SendProceed
           /\ ~(PrepTimeout \/ ThanksTimeout \/ SyncTimeout)
  BY <1>4 DEF gone, MasterStep, Prepare, Synchronize, Finish, SendOptions,
     SendFails, ReceiveNum, ReceiveAck, PrepDone, SendDenom, ReceiveThanks,
     ShareDone, ReceiveSync, ReceiveSyncAck, SyncDone, Measured, SendStatsReq,
     ReceiveStats, StatsTimeout, RoundDone
<1>5. ASSUME NEW a \in Agents, AgentWork(a)
      PROVE  Barrier!Next \/ UNCHANGED <<arrived, released, gone>>
  <2>1. CASE ahead[a] > 0
    <3>1. Barrier!Arrive(a)
      BY <1>5, <2>1, <1>a DEF AgentWork, Barrier!Arrive, Counts, gone
    <3> QED
      BY <1>a, <3>1 DEF Barrier!Next
  <2>2. CASE ~(ahead[a] > 0)
    BY <1>5, <2>2 DEF AgentWork, gone
  <2> QED
    BY <2>1, <2>2
<1>6. ASSUME NEW a \in Agents, AgentProceed(a)
      PROVE  Barrier!Next
  <2>1. /\ pc[a] = "proceed" /\ request[a] # "none"
        /\ released' = [released EXCEPT ![a] = @ + 1]
        /\ UNCHANGED <<active, arrived>>
    BY <1>6 DEF AgentProceed, Answer
  <2>2. released[a] < arrived[a] /\ released[a] < released[Master]
    BY <1>a, <2>1 DEF Counts
  <2>3. \A q \in Parties \ gone : released[Master] <= arrived[q]
    BY <1>b, TogetherHolds
  <2>4. \A q \in Parties \ gone : released[a] < arrived[q]
    BY <1>a, <2>2, <2>3
  <2>5. Barrier!Release(a)
    BY <1>a, <2>1, <2>2, <2>4 DEF Barrier!Release, gone
  <2> QED
    BY <1>a, <2>5 DEF Barrier!Next
<1>7. ASSUME NEW a \in Agents, AgentStep(a) \/ Crash(a), ~AgentWork(a), ~AgentProceed(a)
      PROVE  UNCHANGED <<arrived, released, gone>>
  BY <1>7 DEF gone, AgentStep, Answer, AgentOptions, AgentServers, AgentDenom,
     AgentSync, AgentStatsSent, Crash
<1>8. CASE UNCHANGED vars
  BY <1>8 DEF vars, gone
<1> QED
  BY <1>1, <1>2, <1>3, <1>4, <1>5, <1>6, <1>7, <1>8 DEF Next, Stopped

\* sync_agent is a rendezvous of the parties not dropped: ImplementsRendezvous.
THEOREM RendezvousImplemented ==
  ASSUME SameSyncs
  PROVE  Spec => ImplementsRendezvous
<1>1. Init => TypeInv /\ ProtocolInv /\ RendezvousInv
  BY TypeInit, ProtocolInit, RendezvousInit
<1>2. TypeInv /\ ProtocolInv /\ RendezvousInv /\ [Next]_vars
        => (TypeInv /\ ProtocolInv /\ RendezvousInv)'
  BY TypeStep, ProtocolStep, RendezvousStep
<1>3. Init => Barrier!Init
  <2> SUFFICES ASSUME Init
               PROVE  Barrier!Init
    OBVIOUS
  <2>1. Range(active) = Agents
    BY AllListed DEF Init
  <2> QED
    BY <2>1 DEF Init, Barrier!Init
<1>4. TypeInv /\ ProtocolInv /\ RendezvousInv /\ [Next]_vars
        => [Barrier!Next]_(Barrier!vars)
  BY RendezvousRefined DEF Barrier!vars, gone
<1> QED
  BY <1>1, <1>2, <1>3, <1>4, PTL DEF Spec, ImplementsRendezvous, Barrier!Spec
=============================================================================
