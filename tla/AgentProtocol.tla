---------------------------- MODULE AgentProtocol ----------------------------
(***************************************************************************)
(* A master mcperf and its remote agents (src/mcperf.cc): prep_agent hands *)
(* out the options and the share of the load, sync_agent lets everybody    *)
(* start together, finish_agent collects the statistics.  One round is one *)
(* call of go(); --search and --scan make several.                         *)
(*                                                                         *)
(* The master holds one ZMQ REQ socket per agent, the agent a REP socket:  *)
(* a request goes out only when the reply to the one before was received,  *)
(* so one request and one reply are in transit at most.  Agents wait for a *)
(* request for ever, the master only with --poll_max for a limited time.   *)
(*                                                                         *)
(* The worker threads, their barrier and the measurement are one step,     *)
(* work.  An operator with a suffix, as AllArrived_One, is a faulty       *)
(* variant of the one that follows it; no definition uses it.              *)
(***************************************************************************)
EXTENDS Integers, SequencesExt

CONSTANTS
  Agents,        \* the hosts given with --agent
  Threads, Mul,  \* --threads and --lambda_mul of every agent
  Options,       \* what the options_t of the master may be
  Conns,         \* options.connections
  Servers,       \* how many memcached servers are measured
  OwnConns,      \* what connections of the master add to lambda_denom
  Garbage,       \* an int read from a message that holds none
  PollMaxGiven,  \* --poll_max is given
  PollMax,       \* --poll_max, in seconds
  PollFreq,      \* --poll_freq, the seconds between two polls
  MayCrash,      \* the agents that may fail
  Rounds         \* bound: calls of go()

ASSUME AgentsAssumption ==
  /\ IsFiniteSet(Agents)
  /\ MayCrash \subseteq Agents
  /\ Threads \in [Agents -> Nat \ {0}]
  /\ Mul \in [Agents -> Nat \ {0}]

ASSUME LoadAssumption ==
  /\ Conns \in Nat \ {0}
  /\ Servers \in Nat \ {0}
  /\ OwnConns \in Nat
  /\ Garbage \subseteq Int
  /\ PollMax \in Nat
  /\ PollFreq \in Nat
  /\ Rounds \in Nat \ {0}

\* threads is 0 for a master that only coordinates, warmup 0 for none.
ASSUME OptionsAssumption ==
  /\ PollMaxGiven \in BOOLEAN
  /\ Options \subseteq [threads : Nat, roundrobin : BOOLEAN,
                        loadonly : BOOLEAN, warmup : Nat]

-----------------------------------------------------------------------------

VARIABLES
  options,    \* options_t of the master, copied to every agent
  round,      \* which call of go() the master is in
  stage,      \* where in it
  active,     \* agent_sockets
  turn,       \* which of them the running loop is at
  sum,        \* of prep_agent, its result is options.lambda_denom
  left,       \* syncs the master has ahead of it in this round
  errors,     \* of sync_agent
  owed,       \* sockets that must receive before they can send again
  collected,  \* how many AgentStats of each agent were accumulated
  garbled,    \* accumulate was called with something that is no AgentStats
  pc,         \* where each agent is
  ahead,      \* syncs each agent has ahead of it in this round
  mistakes,   \* errors of the agent's sync_agent
  request,    \* what is on its way to each agent
  reply,      \* what is on its way back
  arrived,    \* how many syncs each party was ready for
  released    \* how many of them let it go on

masterVars == <<options, round, stage, active, turn, sum, left, errors>>
statVars   == <<collected, garbled>>
agentVars  == <<pc, ahead, mistakes>>
wireVars   == <<owed, request, reply>>
syncVars   == <<arrived, released>>
vars == <<masterVars, statVars, agentVars, wireVars, syncVars>>

Master == "master"
Parties == Agents \union {Master}

ASSUME MasterAssumption == Master \notin Agents

\* What an agent waits for in each of its states and what it answers.
Asks == [options |-> "options_t", servers |-> "servers", denom |-> "denom",
         sync |-> "sync_req", proceed |-> "proceed", stats |-> "stats"]
Says == [options |-> "num", servers |-> "ack", denom |-> "THANKS",
         sync |-> "sync", proceed |-> "ack", stats |-> "AgentStats"]

Requests == Range(Asks) \union {"none"}
Replies  == Range(Says) \union {"none"}

\* The stages of the master: those that send, and those that wait for the
\* reply of the agent whose turn it is, with the reply they expect.
Awaits == [num |-> "num", ack |-> "ack", thanks |-> "THANKS",
           arrive |-> "sync", leave |-> "ack", stat |-> "AgentStats"]

Stages == {"offer", "share", "work", "finish", "done", "died"}
            \union DOMAIN Awaits

PCs == {"work", "lost", "died", "down"} \union DOMAIN Asks

\* The types of the variables.
TypeOK ==
  /\ options \in Options
  /\ round \in 1..Rounds
  /\ stage \in Stages
  /\ active \in Seq(Agents)
  /\ turn \in 1..Len(active) + 1
  /\ sum \in Int
  /\ left \in 0..2
  /\ errors \in Nat
  /\ owed \subseteq Agents
  /\ collected \in [Agents -> Nat]
  /\ garbled \in BOOLEAN
  /\ pc \in [Agents -> PCs]
  /\ ahead \in [Agents -> 0..2]
  /\ mistakes \in [Agents -> Nat]
  /\ request \in [Agents -> Requests]
  /\ reply \in [Agents -> Replies]
  /\ arrived \in [Parties -> Nat]
  /\ released \in [Parties -> Nat]

-----------------------------------------------------------------------------
(* Helpers.                                                                *)

\* setup_socket_timers: the master gives up only if --poll_max was given.
MaxPollTime_Unset == 0
MaxPollTime == IF PollMaxGiven THEN PollMax ELSE 0

\* What an agent that reports num adds to lambda_denom.
Share_Lesser(num) ==
  Conns * (IF options.roundrobin THEN (IF Servers > num THEN num ELSE Servers)
                                 ELSE Servers * num)
Share(num) ==
  Conns * (IF options.roundrobin THEN (IF Servers > num THEN Servers ELSE num)
                                 ELSE Servers * num)

\* How often do_mcperf calls sync_agent, before the warmup and before the
\* measurement; a master without threads calls it once from go().
AgentSyncs == IF options.loadonly THEN 0
              ELSE IF options.warmup > 0 THEN 2 ELSE 1
MasterSyncs_Once == IF options.loadonly THEN 0 ELSE 1
MasterSyncs_Always == IF options.warmup > 0 THEN 2 ELSE 1
MasterSyncs == IF options.threads < 1 THEN 1 ELSE AgentSyncs

\* args_to_options: options.lambda_denom before the agents are asked.
OwnShare == IF options.threads < 1 THEN 0 ELSE OwnConns

AtTurn == turn <= Len(active)
Current == active[turn]

\* The request r goes to all agents of S: a socket that owes a receive makes
\* send throw, which nobody catches.
Send(S, r) ==
  /\ request' = [a \in Agents |-> IF a \in S THEN r ELSE request[a]]
  /\ owed' = owed \union S
CanSend(S) == S \intersect owed = {}

\* The reply of agent a is received.
Receive(a) ==
  /\ reply[a] # "none"
  /\ reply' = [reply EXCEPT ![a] = "none"]
  /\ owed' = owed \ {a}

\* poll_recv blocks without a limit; with one it subtracts PollFreq per poll
\* from an unsigned rest, which never ends if the first poll takes longer than
\* the limit or no time at all.
GivesUp == PollFreq \in 1..MaxPollTime

\* The agent whose turn it is did not answer in time.
NoAnswer == GivesUp /\ reply[Current] = "none"

\* It is removed from agent_sockets, and the loop goes on with the next one.
Drop_Past == /\ active' = RemoveAt(active, turn)
             /\ turn' = turn + 1
             /\ owed' = owed \ {Current}
             /\ UNCHANGED <<request, reply>>
Drop_Kept == /\ turn' = turn + 1
             /\ owed' = owed \ {Current}
             /\ UNCHANGED <<active, request, reply>>
Drop == /\ active' = RemoveAt(active, turn)
        /\ owed' = owed \ {Current}
        /\ UNCHANGED <<turn, request, reply>>

-----------------------------------------------------------------------------

Init ==
  /\ options \in Options
  /\ round = 1
  /\ stage = "offer"
  /\ active \in SetToSeqs(Agents)
  /\ turn = 1
  /\ sum = OwnShare
  /\ left = MasterSyncs
  /\ errors = 0
  /\ owed = {}
  /\ collected = [a \in Agents |-> 0]
  /\ garbled = FALSE
  /\ pc = [a \in Agents |-> "options"]
  /\ ahead = [a \in Agents |-> 0]
  /\ mistakes = [a \in Agents |-> 0]
  /\ request = [a \in Agents |-> "none"]
  /\ reply = [a \in Agents |-> "none"]
  /\ arrived = [p \in Parties |-> 0]
  /\ released = [p \in Parties |-> 0]

(* prep_agent: to one agent after the other the options and the servers.   *)

SendOptions ==
  /\ stage = "offer"
  /\ AtTurn
  /\ CanSend({Current})
  /\ Send({Current}, "options_t")
  /\ stage' = "num"
  /\ UNCHANGED <<options, round, active, turn, sum, left, errors, statVars,
                 agentVars, reply, syncVars>>

\* zmq::error_t of a socket still waiting for AgentStats of the round before.
SendFails ==
  /\ stage = "offer"
  /\ AtTurn
  /\ ~CanSend({Current})
  /\ stage' = "died"
  /\ UNCHANGED <<options, round, active, turn, sum, left, errors, statVars,
                 agentVars, wireVars, syncVars>>

\* The number comes in, the list of servers goes out.
ReceiveNum ==
  /\ stage = "num"
  /\ reply[Current] # "none"
  /\ \E num \in IF reply[Current] = "num"
                THEN {Threads[Current] * Mul[Current]} ELSE Garbage :
       sum' = sum + Share(num)
  /\ reply' = [reply EXCEPT ![Current] = "none"]
  /\ request' = [request EXCEPT ![Current] = "servers"]
  /\ stage' = "ack"
  /\ UNCHANGED <<options, round, active, turn, left, errors, statVars,
                 agentVars, owed, syncVars>>

ReceiveAck ==
  /\ stage = "ack"
  /\ Receive(Current)
  /\ turn' = turn + 1
  /\ stage' = "offer"
  /\ UNCHANGED <<options, round, active, sum, left, errors, statVars,
                 agentVars, request, syncVars>>

\* An agent that does not answer the options or the servers is not used.
PrepTimeout ==
  /\ stage \in {"num", "ack"}
  /\ NoAnswer
  /\ Drop
  /\ stage' = "offer"
  /\ UNCHANGED <<options, round, sum, left, errors, statVars, agentVars,
                 syncVars>>

PrepDone ==
  /\ stage = "offer"
  /\ ~AtTurn
  /\ turn' = 1
  /\ stage' = "share"
  /\ UNCHANGED <<options, round, active, sum, left, errors, statVars,
                 agentVars, wireVars, syncVars>>

SendDenom ==
  /\ stage = "share"
  /\ AtTurn
  /\ Send({Current}, "denom")
  /\ stage' = "thanks"
  /\ UNCHANGED <<options, round, active, turn, sum, left, errors, statVars,
                 agentVars, reply, syncVars>>

ReceiveThanks ==
  /\ stage = "thanks"
  /\ Receive(Current)
  /\ turn' = turn + 1
  /\ stage' = "share"
  /\ UNCHANGED <<options, round, active, sum, left, errors, statVars,
                 agentVars, request, syncVars>>

ThanksTimeout ==
  /\ stage = "thanks"
  /\ NoAnswer
  /\ Drop
  /\ stage' = "share"
  /\ UNCHANGED <<options, round, sum, left, errors, statVars, agentVars,
                 syncVars>>

ShareDone ==
  /\ stage = "share"
  /\ ~AtTurn
  /\ turn' = 1
  /\ stage' = "work"
  /\ UNCHANGED <<options, round, active, sum, left, errors, statVars,
                 agentVars, wireVars, syncVars>>

(* sync_agent of the master.  The requests of one broadcast go out without *)
(* a wait between them and are one step.                                   *)

\* The master has set up its connections, or has warmed up.
SendSyncReq ==
  /\ stage = "work"
  /\ left > 0
  /\ Send(Range(active), "sync_req")
  /\ errors' = 0
  /\ turn' = 1
  /\ stage' = "arrive"
  /\ arrived' = [arrived EXCEPT ![Master] = @ + 1]
  /\ UNCHANGED <<options, round, active, sum, left, statVars, agentVars,
                 reply, released>>

\* Every "sync" is awaited before the first "proceed".
ReceiveSync ==
  /\ stage = "arrive"
  /\ AtTurn
  /\ errors' = IF reply[Current] = "sync" THEN errors ELSE errors + 1
  /\ Receive(Current)
  /\ turn' = turn + 1
  /\ UNCHANGED <<options, round, stage, active, sum, left, statVars,
                 agentVars, request, syncVars>>

AllArrived_One == turn > 1
AllArrived == ~AtTurn

SendProceed ==
  /\ stage = "arrive"
  /\ AllArrived
  /\ Send(Range(active), "proceed")
  /\ turn' = 1
  /\ stage' = "leave"
  /\ released' = [released EXCEPT ![Master] = @ + 1]
  /\ UNCHANGED <<options, round, active, sum, left, errors, statVars,
                 agentVars, reply, arrived>>

ReceiveSyncAck ==
  /\ stage = "leave"
  /\ AtTurn
  /\ errors' = IF reply[Current] = "ack" THEN errors ELSE errors + 1
  /\ Receive(Current)
  /\ turn' = turn + 1
  /\ UNCHANGED <<options, round, stage, active, sum, left, statVars,
                 agentVars, request, syncVars>>

SyncTimeout ==
  /\ stage \in {"arrive", "leave"}
  /\ AtTurn
  /\ NoAnswer
  /\ Drop
  /\ errors' = errors + 1
  /\ UNCHANGED <<options, round, stage, sum, left, statVars, agentVars,
                 syncVars>>

\* The callers of sync_agent DIE on any error.
SyncDone ==
  /\ stage = "leave"
  /\ ~AtTurn
  /\ left' = left - 1
  /\ stage' = IF errors > 0 THEN "died" ELSE "work"
  /\ UNCHANGED <<options, round, active, turn, sum, errors, statVars,
                 agentVars, wireVars, syncVars>>

(* finish_agent.                                                           *)

FirstOfAll_Second == 2
FirstOfAll == 1

\* The master has measured.
Measured ==
  /\ stage = "work"
  /\ left = 0
  /\ turn' = FirstOfAll
  /\ stage' = "finish"
  /\ UNCHANGED <<options, round, active, sum, left, errors, statVars,
                 agentVars, wireVars, syncVars>>

SendStatsReq ==
  /\ stage = "finish"
  /\ AtTurn
  /\ Send({Current}, "stats")
  /\ stage' = "stat"
  /\ UNCHANGED <<options, round, active, turn, sum, left, errors, statVars,
                 agentVars, reply, syncVars>>

\* Whatever the reply is, it is taken for AgentStats and accumulated.
ReceiveStats ==
  /\ stage = "stat"
  /\ Receive(Current)
  /\ IF reply[Current] = "AgentStats"
     THEN /\ collected' = [collected EXCEPT ![Current] = @ + 1]
          /\ garbled' = garbled
     ELSE /\ collected' = collected
          /\ garbled' = TRUE
  /\ turn' = turn + 1
  /\ stage' = "finish"
  /\ UNCHANGED <<options, round, active, sum, left, errors, agentVars,
                 request, syncVars>>

\* The status of poll_recv is only logged: an empty message is accumulated.
StatsTimeout ==
  /\ stage = "stat"
  /\ NoAnswer
  /\ garbled' = TRUE
  /\ turn' = turn + 1
  /\ stage' = "finish"
  /\ UNCHANGED <<options, round, active, sum, left, errors, collected,
                 agentVars, wireVars, syncVars>>

\* The next call of go(), after args_to_options has reset the options.
RoundDone ==
  /\ stage = "finish"
  /\ ~AtTurn
  /\ IF round < Rounds
     THEN /\ round' = round + 1
          /\ stage' = "offer"
          /\ turn' = 1
          /\ sum' = OwnShare
          /\ left' = MasterSyncs
     ELSE /\ stage' = "done"
          /\ UNCHANGED <<options, round, turn, sum, left>>
  /\ UNCHANGED <<options, active, errors, statVars, agentVars, wireVars,
                 syncVars>>

-----------------------------------------------------------------------------
(* agent() and the sync_agent of an agent.  No reply is checked for being  *)
(* welcome: it goes nowhere if the master has closed the socket.           *)

Answer(a, st) ==
  /\ pc[a] = st
  /\ request[a] # "none"
  /\ request' = [request EXCEPT ![a] = "none"]
  /\ reply' = [reply EXCEPT ![a] = Says[st]]
  /\ UNCHANGED <<masterVars, statVars, owed>>

\* What is copied from the request into options is only good if they are in
\* it; otherwise the agent goes on in a way the model does not follow.
AgentOptions(a) ==
  /\ Answer(a, "options")
  /\ pc' = [pc EXCEPT ![a] = IF request[a] = "options_t" THEN "servers"
                                                         ELSE "lost"]
  /\ UNCHANGED <<ahead, mistakes, syncVars>>

AgentServers(a) ==
  /\ Answer(a, "servers")
  /\ pc' = [pc EXCEPT ![a] = "denom"]
  /\ UNCHANGED <<ahead, mistakes, syncVars>>

AgentDenom(a) ==
  /\ Answer(a, "denom")
  /\ pc' = [pc EXCEPT ![a] = "work"]
  /\ ahead' = [ahead EXCEPT ![a] = AgentSyncs]
  /\ UNCHANGED <<mistakes, syncVars>>

\* Connections are set up, warmed up or measured.
AgentWork(a) ==
  /\ pc[a] = "work"
  /\ IF ahead[a] > 0
     THEN /\ pc' = [pc EXCEPT ![a] = "sync"]
          /\ mistakes' = [mistakes EXCEPT ![a] = 0]
          /\ arrived' = [arrived EXCEPT ![a] = @ + 1]
     ELSE /\ pc' = [pc EXCEPT ![a] = "stats"]
          /\ UNCHANGED <<mistakes, arrived>>
  /\ UNCHANGED <<masterVars, statVars, ahead, wireVars, released>>

Mistaken(a) == IF request[a] = Asks[pc[a]] THEN mistakes[a]
                                           ELSE mistakes[a] + 1

AgentSync(a) ==
  /\ Answer(a, "sync")
  /\ pc' = [pc EXCEPT ![a] = "proceed"]
  /\ mistakes' = [mistakes EXCEPT ![a] = Mistaken(a)]
  /\ UNCHANGED <<ahead, syncVars>>

AgentProceed(a) ==
  /\ Answer(a, "proceed")
  /\ mistakes' = [mistakes EXCEPT ![a] = Mistaken(a)]
  /\ pc' = [pc EXCEPT ![a] = IF Mistaken(a) > 0 THEN "died" ELSE "work"]
  /\ ahead' = [ahead EXCEPT ![a] = @ - 1]
  /\ released' = [released EXCEPT ![a] = @ + 1]
  /\ UNCHANGED arrived

AgentStatsSent(a) ==
  /\ Answer(a, "stats")
  /\ pc' = [pc EXCEPT ![a] = "options"]
  /\ UNCHANGED <<ahead, mistakes, syncVars>>

\* The agent fails, or was never started.
Crash(a) ==
  /\ a \in MayCrash
  /\ pc[a] \notin {"died", "down"}
  /\ pc' = [pc EXCEPT ![a] = "down"]
  /\ UNCHANGED <<masterVars, statVars, ahead, mistakes, wireVars, syncVars>>

-----------------------------------------------------------------------------

Prepare == \/ SendOptions \/ SendFails \/ ReceiveNum \/ ReceiveAck
           \/ PrepTimeout \/ PrepDone \/ SendDenom \/ ReceiveThanks
           \/ ThanksTimeout \/ ShareDone

Synchronize == \/ SendSyncReq \/ ReceiveSync \/ SendProceed
               \/ ReceiveSyncAck \/ SyncTimeout \/ SyncDone

Finish == \/ Measured \/ SendStatsReq \/ ReceiveStats \/ StatsTimeout
          \/ RoundDone

MasterStep == Prepare \/ Synchronize \/ Finish

AgentStep(a) == \/ AgentOptions(a) \/ AgentServers(a) \/ AgentDenom(a)
                \/ AgentWork(a) \/ AgentSync(a) \/ AgentProceed(a)
                \/ AgentStatsSent(a)

\* The master is gone; agents wait for their next request for ever.
Stopped == stage \in {"done", "died"} /\ UNCHANGED vars

Next == \/ MasterStep
        \/ \E a \in Agents : AgentStep(a) \/ Crash(a)
        \/ Stopped

Spec == Init /\ [][Next]_vars

\* Processes that run go on, and a poll that is not answered ends.
Fairness == /\ WF_vars(MasterStep)
            /\ \A a \in Agents : WF_vars(AgentStep(a))

FairSpec == Spec /\ Fairness

-----------------------------------------------------------------------------
(* What the protocol promises.                                             *)

\* What an agent's side of the protocol takes next.
Wants(a) ==
  CASE pc[a] \in DOMAIN Asks -> Asks[pc[a]]
    [] pc[a] = "work"        -> IF ahead[a] > 0 THEN "sync_req" ELSE "stats"
    [] OTHER                 -> "nothing"

\* The two programs, which know only by their own position which message is
\* which, stay in step: an agent that is up is never asked for something else
\* than it is about to answer, and the master never reads another reply than
\* the one it takes it for.  Neither side checks this outside sync_agent.
InStep ==
  /\ \A a \in Agents : request[a] # "none" /\ pc[a] # "down"
                         => request[a] = Wants(a)
  /\ stage \in DOMAIN Awaits /\ AtTurn
       => reply[Current] \in {"none", Awaits[stage]}

\* "all agents must arrive at the barrier" (mcperf.cc:509): nobody is let go
\* on that often before each agent still in agent_sockets, and the master, was
\* ready as often.
Together ==
  \A p \in Parties : \A q \in Range(active) \union {Master} :
    released[p] <= arrived[q]

\* sync_agent implements a rendezvous of the parties not dropped.
Barrier == INSTANCE Rendezvous WITH gone <- Agents \ Range(active)
ImplementsRendezvous == Barrier!Spec

\* Prepared: prep_agent has computed lambda_denom and go() is not over.
Prepared == stage \notin {"offer", "num", "ack", "done", "died"}

\* The connections an agent opens, weighted by its --lambda_mul.
Weight(a) ==
  Mul[a] * Conns * (IF options.roundrobin
                    THEN (IF Servers > Threads[a] THEN Servers
                                                  ELSE Threads[a])
                    ELSE Servers * Threads[a])
Weights == [a \in Agents |-> Weight(a)]

\* lambda_denom is "a count of the total number of Connections across all
\* mcperf instances, weighted by lambda_mul" (mcperf.cc:255-258): of those
\* instances that take part, so that together they reach the requested QPS.
LambdaDenomExact ==
  Prepared => sum = OwnShare + SumFunctionOnSet(Weights, Range(active))

\* The master "aggregates AgentStats across all agents" (mcperf.cc:282): when
\* a round is over it has accumulated AgentStats of every agent once, and
\* nothing else.
StatsComplete ==
  stage = "done" \/ (stage = "offer" /\ turn = 1) =>
    /\ ~garbled
    /\ \A a \in Range(active) :
         collected[a] = IF stage = "done" THEN Rounds ELSE round - 1

\* A round nothing went wrong in leaves no agent in the middle of agent():
\* each one still in agent_sockets waits for the options of the next round, or
\* of its next master.
AgentsReady ==
  stage = "done" \/ (stage = "offer" /\ turn = 1) =>
    \A a \in Range(active) : pc[a] = "options"

\* Neither the master nor an agent gives up by itself.
NobodyDies == stage # "died" /\ \A a \in Agents : pc[a] # "died"

\* The master comes to an end, whatever its agents do.
MasterEnds == <>(stage \in {"done", "died"})
=============================================================================
