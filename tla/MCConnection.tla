---------------------------- MODULE MCConnection ----------------------------
(* Small instances of Connection: workloads and inter-arrival times.       *)
EXTENDS ConnectionInvariant

Get      == [type |-> "GET", n_req |-> 1]
Multiget == [type |-> "GET", n_req |-> 2]
Set      == [type |-> "SET", n_req |-> 1]

GetOnly     == {Get}
MultigetOnly == {Multiget}
GetSet      == {Get, Set}
GetSetMulti == {Get, Set, Multiget}

SomeDelay     == {0, 1}
PositiveDelay == {1, 2}
=============================================================================
