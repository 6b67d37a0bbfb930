--------------------------- MODULE MCAgentProtocol ---------------------------
(* Small instances of AgentProtocol: three agents, what they report and    *)
(* the options of their master.                                            *)
EXTENDS AgentInvariant

CONSTANTS a1, a2, a3

One    == [a \in Agents |-> 1]
Uneven == [a \in Agents |-> IF a = a1 THEN 1 ELSE 3]

\* With --roundrobin an agent with fewer threads than servers has no weight
\* that counts.
UnevenMul == [a \in Agents |-> IF a = a1 THEN 1 ELSE 2]

AllOptions == [threads : {0, 2}, roundrobin : BOOLEAN, loadonly : BOOLEAN,
               warmup : {0, 1}]

\* The options with which the master calls sync_agent as often as an agent.
Matching == {o \in AllOptions :
               o.threads = 0 => ~o.loadonly /\ o.warmup = 0}

Plain == {[threads |-> 1, roundrobin |-> FALSE, loadonly |-> FALSE,
           warmup |-> 1]}

\* What an agent's "ack" may be read as.
Junk == {-1, 0, 7}
=============================================================================
