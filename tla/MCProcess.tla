------------------------------ MODULE MCProcess ------------------------------
(* Small instances of Process: command lines that lead through every part  *)
(* of do_mcperf, with two threads or three.                                *)
EXTENDS ProcessInvariant

\* The first fields of the table in mcperf.cc, with min_c scaled down.
Profiles == <<[min_c |-> 4, r_size |-> 8, search |-> TRUE, qps |-> 0, cc |-> 4],
              [min_c |-> 2, r_size |-> 8, search |-> TRUE, qps |-> 0, cc |-> 4],
              [min_c |-> 1, r_size |-> 8, search |-> FALSE, qps |-> 8, cc |-> 4]>>

Hosts(n) == [i \in 1 .. n |-> [name |-> <<<<"h1", "h2", "h3">>[i]>>,
                               ports |-> <<>>]]

\* Two instances on one machine, and a machine with a port.
Ranged == <<[name |-> <<"h1">>, ports |-> <<80, 81>>],
            [name |-> <<"h2", "80">>, ports |-> <<>>]>>

Plain == [threads |-> 2, servers |-> Hosts(1), connections |-> 1,
          roundrobin |-> FALSE,
          lambda_mul |-> 1, qps |-> 0, profile_given |-> FALSE, profile |-> 0,
          records |-> 4, search |-> FALSE,
          keycache |-> [capacity |-> 0, reuse |-> 0, regen |-> 0],
          noload |-> FALSE, loadonly |-> FALSE, warmup |-> 0, agents |-> FALSE,
          scan |-> FALSE, rounds |-> 1, measure_connections |-> 0]

CommandLines == {
  [Plain EXCEPT !.loadonly = TRUE],
  [Plain EXCEPT !.noload = TRUE, !.scan = TRUE, !.rounds = 2],
  [Plain EXCEPT !.warmup = 1, !.agents = TRUE, !.noload = TRUE,
                !.threads = 3],
  [Plain EXCEPT !.threads = 3, !.servers = Hosts(2), !.roundrobin = TRUE,
                !.agents = TRUE, !.noload = TRUE],
  [Plain EXCEPT !.servers = Hosts(3), !.roundrobin = TRUE, !.lambda_mul = 2,
                !.loadonly = TRUE],
  [Plain EXCEPT !.servers = Ranged, !.roundrobin = TRUE],
  [Plain EXCEPT !.threads = 1, !.servers = Hosts(2), !.connections = 2,
                !.warmup = 1],
  [Plain EXCEPT !.threads = 0, !.agents = TRUE, !.search = TRUE,
                !.rounds = 2],
  [Plain EXCEPT !.measure_connections = 1, !.connections = 2, !.noload = TRUE,
                !.scan = TRUE],
  [Plain EXCEPT !.threads = 1, !.profile_given = TRUE, !.profile = 2]}
=============================================================================
