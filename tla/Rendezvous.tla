----------------------------- MODULE Rendezvous -----------------------------
(***************************************************************************)
(* What sync_agent promises to those who take part in a run (the comment   *)
(* at src/mcperf.cc:493-513): everybody who starts the next part of the    *)
(* run does so after everybody who still takes part has arrived at its     *)
(* beginning.                                                              *)
(***************************************************************************)
EXTENDS Naturals

CONSTANT Parties

VARIABLES
  arrived,   \* how many parts of the run each party has been ready to begin
  released,  \* how many of them it has begun
  gone       \* the parties that take part no more

vars == <<arrived, released, gone>>

Init ==
  /\ arrived = [p \in Parties |-> 0]
  /\ released = [p \in Parties |-> 0]
  /\ gone = {}

Arrive(p) ==
  /\ arrived[p] = released[p]
  /\ arrived' = [arrived EXCEPT ![p] = @ + 1]
  /\ UNCHANGED <<released, gone>>

Release(p) ==
  /\ released[p] < arrived[p]
  /\ \A q \in Parties \ gone : released[p] < arrived[q]
  /\ released' = [released EXCEPT ![p] = @ + 1]
  /\ UNCHANGED <<arrived, gone>>

Leave(p) ==
  /\ gone' = gone \union {p}
  /\ UNCHANGED <<arrived, released>>

Next == \E p \in Parties : Arrive(p) \/ Release(p) \/ Leave(p)

Spec == Init /\ [][Next]_vars
=============================================================================
