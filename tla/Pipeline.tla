------------------------------- MODULE Pipeline -------------------------------
(***************************************************************************)
(* What a connection promises to those who read its statistics: operations *)
(* are completed in the order in which they were issued, each after the    *)
(* server has answered it; never more of them are outstanding than the     *)
(* window allows; and a period of the run begins with none outstanding, so *)
(* that no period counts what belongs to another one.  Only the end of the *)
(* measurement may find operations outstanding, and they are dropped.      *)
(***************************************************************************)
EXTENDS Naturals, Sequences

CONSTANTS
  Depth,        \* the window of the run
  LoaderChunk,  \* the window of the loader
  Workload      \* the operations of the run

VARIABLES
  period,       \* setup, load, warmup, measure or done
  outstanding,  \* operations issued and not completed, in order
  answered      \* how many of them, from the first one on, are answered

vars == <<period, outstanding, answered>>

Store == [type |-> "SET", n_req |-> 1]

Init ==
  /\ period = "setup"
  /\ outstanding = <<>>
  /\ answered = 0

Load ==
  /\ period = "load"
  /\ Len(outstanding) < LoaderChunk
  /\ outstanding' = Append(outstanding, Store)
  /\ UNCHANGED <<period, answered>>

Issue ==
  /\ period \in {"warmup", "measure"}
  /\ Len(outstanding) < Depth
  /\ \E op \in Workload : outstanding' = Append(outstanding, op)
  /\ UNCHANGED <<period, answered>>

Answer ==
  /\ answered < Len(outstanding)
  /\ answered' = answered + 1
  /\ UNCHANGED <<period, outstanding>>

Complete ==
  /\ answered > 0
  /\ outstanding' = Tail(outstanding)
  /\ answered' = answered - 1
  /\ UNCHANGED period

Later == [setup   |-> {"load", "warmup", "measure", "done"},
          load    |-> {"warmup", "measure", "done"},
          warmup  |-> {"measure"},
          measure |-> {"done"},
          done    |-> {}]

Begin ==
  /\ outstanding = <<>> \/ period = "measure"
  /\ period' \in Later[period]
  /\ UNCHANGED <<outstanding, answered>>

Next == Load \/ Issue \/ Answer \/ Complete \/ Begin

Spec == Init /\ [][Next]_vars
=============================================================================
