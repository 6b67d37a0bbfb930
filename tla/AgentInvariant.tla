---------------------------- MODULE AgentInvariant ----------------------------
(***************************************************************************)
(* The inductive invariants of AgentProtocol: where each agent is when the *)
(* master is at a given point of its loops, and what both have counted;    *)
(* and what lets them go on.                                               *)
(***************************************************************************)
EXTENDS AgentProtocol

(* Hypotheses.                                                             *)

\* Master and agents call sync_agent equally often.  A master that only
\* coordinates calls it once (mcperf.cc:1059), whatever the agents do.
SameSyncs == \A o \in Options : o.threads < 1 => ~o.loadonly /\ o.warmup = 0

\* No poll of the master ends without an answer: --poll_max is not given, or
\* is shorter than the time between two polls.
Patient == ~GivesUp

\* An agent reports --threads times --lambda_mul, and with --roundrobin the
\* master takes the servers instead if they are more (mcperf.cc:408).  That is
\* the weighted number of the agent's connections unless it has a --lambda_mul
\* and fewer threads than servers.
Weighable == \A a \in Agents, o \in Options :
               o.roundrobin => Mul[a] = 1 \/ Servers <= Threads[a]

-----------------------------------------------------------------------------
(* One agent.                                                              *)

\* Where an agent that has worked goes on, with n calls of sync_agent to come.
Resume(n) == IF n > 0 THEN "sync" ELSE "stats"

\* Agent a will answer next in state st, unless it fails.
At(a, st) == \/ pc[a] \in {st, "down"}
             \/ pc[a] = "work" /\ Resume(ahead[a]) = st

\* It has n calls of sync_agent to come.
Level(a, n) == pc[a] # "down" => ahead[a] = n

\* Nothing is on its way; it was asked in state st; it has answered in state st
\* and goes on in state nx.
Idle(a, st)         == request[a] = "none" /\ reply[a] = "none" /\ At(a, st)
Asked(a, st)        == request[a] = Asks[st] /\ reply[a] = "none" /\ At(a, st)
Answered(a, st, nx) == request[a] = "none" /\ reply[a] = Says[st] /\ At(a, nx)
Pending(a, st, nx)  == Asked(a, st) \/ Answered(a, st, nx)

\* It has worked, or still does, with n calls of sync_agent to come.
Ready(a, n) == Idle(a, Resume(n)) /\ Level(a, n)

\* Its statistics are awaited, or were not waited for.
Late(a) == Pending(a, "stats", "options") /\ a \in owed

Fresh(a) == Idle(a, "options") \/ Late(a)

-----------------------------------------------------------------------------
(* The agent at index i of agent_sockets, at each stage of the master: it  *)
(* is behind the loop (i < turn), its turn, or ahead of it.                *)

Preparing(i) ==
  LET a == active[i] IN
  /\ stage \in {"offer", "num", "ack"} =>
       /\ i < turn => Idle(a, "denom")
       /\ i > turn => Fresh(a)
  /\ i = turn =>
       /\ stage = "offer" => Fresh(a)
       /\ stage = "num" => Pending(a, "options", "servers")
       /\ stage = "ack" => Pending(a, "servers", "denom")

Sharing(i) ==
  LET a == active[i] IN
  /\ stage \in {"share", "thanks"} =>
       /\ i < turn => Ready(a, left)
       /\ i > turn => Idle(a, "denom")
  /\ i = turn =>
       /\ stage = "share" => Idle(a, "denom")
       /\ stage = "thanks" =>
            \/ Asked(a, "denom")
            \/ Answered(a, "denom", Resume(left)) /\ Level(a, left)

Syncing(i) ==
  LET a == active[i] IN
  /\ stage = "work" => Ready(a, left)
  /\ stage = "arrive" =>
       /\ Level(a, left)
       /\ i < turn => Idle(a, "proceed")
       /\ i >= turn => Pending(a, "sync", "proceed")
  /\ stage = "leave" =>
       /\ i < turn => Ready(a, left - 1)
       /\ i >= turn =>
            \/ Asked(a, "proceed") /\ Level(a, left)
            \/ Answered(a, "proceed", Resume(left - 1)) /\ Level(a, left - 1)

Finishing(i) ==
  LET a == active[i] IN
  /\ stage \in {"finish", "stat"} =>
       /\ i < turn => Fresh(a)
       /\ i > turn => Idle(a, "stats")
  /\ i = turn =>
       /\ stage = "finish" => Idle(a, "stats")
       /\ stage = "stat" => Late(a)
  /\ stage = "done" => Fresh(a)

Position(i) == Preparing(i) /\ Sharing(i) /\ Syncing(i) /\ Finishing(i)

Positions == \A i \in 1..Len(active) : Position(i)

-----------------------------------------------------------------------------
(* What holds besides.                                                     *)

\* What the types rest on: a reply is awaited from an agent of the list, and
\* neither side synchronizes more often than it has to.
Bounds ==
  /\ stage \in {"num", "ack", "thanks", "stat"} => AtTurn
  /\ stage \in {"arrive", "leave"} => left > 0
  /\ \A a \in Agents : pc[a] \in {"sync", "proceed"} => ahead[a] > 0

TypeInv == TypeOK /\ Bounds

\* The list of the agents, and the calls of sync_agent before the first one.
Lists ==
  /\ \A i, j \in 1..Len(active) : active[i] = active[j] => i = j
  /\ stage \in {"offer", "num", "ack", "share", "thanks"} => left = MasterSyncs

\* Every agent, dropped or not.
Agreement ==
  \A a \in Agents :
    /\ request[a] # "none" /\ pc[a] # "down" => request[a] = Wants(a)
    /\ pc[a] \notin {"lost", "died"}
    /\ pc[a] \in {"sync", "proceed"} => mistakes[a] = 0

\* The protocol, whatever fails.
ProtocolInv == Lists /\ Agreement /\ Positions

\* How often the parties were ready and went on.
Counts ==
  /\ arrived[Master] = released[Master] + (IF stage = "arrive" THEN 1 ELSE 0)
  /\ \A a \in Agents :
       /\ arrived[a] \in released[a] .. released[a] + 1
       /\ pc[a] \in {"sync", "proceed"} => arrived[a] = released[a] + 1
       /\ pc[a] \notin {"sync", "proceed", "down"} => arrived[a] = released[a]
       /\ released[a] <= released[Master]
       /\ pc[a] = "proceed" /\ request[a] # "none"
            => released[a] < released[Master]

\* Those still in agent_sockets have been let go on as often as the master,
\* but for those the last "proceed" has not reached.
InTime(i) ==
  LET a == active[i]
      n == released[Master]
  IN /\ stage # "leave" \/ i < turn \/ reply[a] # "none" => released[a] = n
     /\ stage = "leave" => arrived[a] >= n
     /\ stage = "arrive" /\ (i < turn \/ reply[a] # "none") => arrived[a] = n + 1

RendezvousInv == Counts /\ \A i \in 1..Len(active) : InTime(i)

-----------------------------------------------------------------------------
(* If no poll of the master gives up.                                      *)

\* Sockets the master waits for.
Awaited ==
  IF stage \in {"num", "ack", "thanks", "stat"} THEN {Current}
  ELSE IF stage \in {"arrive", "leave"} THEN {active[i] : i \in turn..Len(active)}
  ELSE {}

\* Statistics of the agent at i that should have been accumulated by now.
Due(i) == IF stage = "done" \/ (stage \in {"finish", "stat"} /\ i < turn)
          THEN round ELSE round - 1

PatientInv ==
  /\ stage # "died"
  /\ errors = 0
  /\ ~garbled
  /\ owed = Awaited
  /\ Range(active) = Agents
  /\ stage = "done" => round = Rounds
  /\ \A i \in 1..Len(active) : collected[active[i]] = Due(i)

\* The agents whose share has been added to lambda_denom.
Counted ==
  IF stage \in {"offer", "num"} THEN {active[i] : i \in 1..turn - 1}
  ELSE IF stage = "ack" THEN {active[i] : i \in 1..turn}
  ELSE Range(active)

DenomInv == sum = OwnShare + SumFunctionOnSet(Weights, Counted)

-----------------------------------------------------------------------------
(* Going on, and coming to an end.                                         *)

\* The guards of MasterStep and of AgentStep(a).
MasterGoes ==
  \/ stage \in {"offer", "share", "work", "finish"}
  \/ stage \in {"arrive", "leave"} /\ ~AtTurn
  \/ stage \in DOMAIN Awaits /\ AtTurn /\ (reply[Current] # "none" \/ GivesUp)

AgentGoes(a) == \/ pc[a] = "work"
                \/ pc[a] \in DOMAIN Asks /\ request[a] # "none"

\* Until it ends, the master can go on, or the agent it waits for can, unless
\* that one has failed.
GoesOn ==
  \/ stage \in {"done", "died"}
  \/ MasterGoes
  \/ AtTurn /\ (AgentGoes(Current) \/ pc[Current] = "down")

\* Where the master is in its round: the loop, and in sync_agent the calls
\* that are left; what is left of the loop; how far it is with one agent.
Phase == CASE stage \in {"offer", "num", "ack"} -> 4
           [] stage \in {"share", "thanks"} -> 3
           [] stage \in {"work", "arrive", "leave"} -> 2
           [] stage \in {"finish", "stat"} -> 1
           [] OTHER -> 0

Calls == IF Phase = 2 THEN left ELSE 0

Stretch == CASE stage = "work" -> 2
             [] stage = "arrive" -> 1
             [] OTHER -> 0

Queue == Len(active) + 1 - turn

Pause == CASE stage \in {"offer", "share", "finish"} -> 2
           [] stage = "num" -> 1
           [] OTHER -> 0

\* The round, the loop, and the place in it come in this order; the list gets
\* shorter when an agent is dropped.
Nearer ==
  \/ round' \in round + 1 .. Rounds
  \/ round' = round /\ Phase' < Phase
  \/ /\ round' = round /\ Phase' = Phase
     /\ \/ Calls' < Calls
        \/ Calls' = Calls /\ Stretch' < Stretch
        \/ Calls' = Calls /\ Stretch' = Stretch /\ Queue' < Queue
        \/ /\ Calls' = Calls /\ Stretch' = Stretch /\ Queue' = Queue
           /\ Pause' < Pause

\* Work the agent a has before it waits for the master.
Todo(a) == (IF request[a] # "none" THEN 2 ELSE 0)
             + (IF pc[a] = "work" THEN 1 ELSE 0)

Fails(a) == pc[a] # "down" /\ pc'[a] = "down"

\* A step of the master takes it further, one of an agent takes the agent further
\* or is its failure.
Advances ==
  \/ Nearer
  \/ /\ UNCHANGED masterVars
     /\ \E a \in Agents : /\ Todo(a)' < Todo(a) \/ Fails(a)
                          /\ \A b \in Agents \ {a} : Todo(b)' = Todo(b)
=============================================================================
