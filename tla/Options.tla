------------------------------- MODULE Options -------------------------------
(***************************************************************************)
(* How the command line becomes options_t (src/mcperf.cc): parse_profile   *)
(* lets a predefined profile override single arguments, args_to_options    *)
(* derives from them how many connections every server gets and which      *)
(* share of the load each of them carries.                                 *)
(*                                                                         *)
(* An argument that is not about connections, load or phases is left out.  *)
(* The strings of a profile are left out too: whether it sets a search     *)
(* matters, not what it says.                                              *)
(*                                                                         *)
(* A --server argument is a record: name is what stands between its        *)
(* colons, as <<"h">> or <<"h", "80">>, and ports the first and the last   *)
(* port of a range, if it is one.                                          *)
(***************************************************************************)
EXTENDS Integers, SequencesExt

CONSTANT mc_profiles  \* what --profile selects from

Larger(a, b) == IF a > b THEN a ELSE b

CeilDiv(a, b) == (a + b - 1) \div b

\* The arguments are counted, not what they stand for.
ServerGiven(a) == Len(a.servers)

\* A number that names no profile selects the first.
Selected(a) == IF a.profile \in DOMAIN mc_profiles THEN a.profile ELSE 1

\* total_threads of parse_profile is the connections there would be with
\* --connections 1, and min_c is shared among them.
ConnectionsPerThread(a, p) == CeilDiv(p.min_c, ServerGiven(a) * a.threads)

\* The capacity of the key cache is also what it takes for keycache_reuse
\* and for keycache_regen.
KeyCacheOf(p) == [capacity |-> p.cc, reuse |-> p.cc, regen |-> p.cc]

ParseProfile(a) ==
  IF ~a.profile_given THEN a
  ELSE LET p == mc_profiles[Selected(a)]
       IN [a EXCEPT !.connections = Larger(@, ConnectionsPerThread(a, p)),
                    !.records  = p.r_size,
                    !.search   = @ \/ p.search,
                    !.keycache = IF p.cc # 0 THEN KeyCacheOf(p) ELSE @,
                    !.qps      = IF p.qps > 0 THEN p.qps ELSE @]

\* All connections of this process, as args_to_options counts them.
Connections_Product(a) == a.connections * ServerGiven(a) * a.threads
Connections(a) ==
  a.connections * (IF a.roundrobin THEN Larger(ServerGiven(a), a.threads)
                   ELSE ServerGiven(a) * a.threads)

\* The denominator of a connection's share; lambda_mul weights this process.
LambdaDenom(a) ==
  IF a.threads < 1 THEN 0
  ELSE Larger(Connections(a), 1) * Larger(a.lambda_mul, 1)

\* server_given is at least 1, and every server gets a record.
RecordsPerServer(a) == Larger(a.records \div Larger(ServerGiven(a), 1), 1)

Derived(a) ==
  [connections  |-> a.connections,
   qps          |-> a.qps,
   threads      |-> a.threads,
   server_given |-> Larger(ServerGiven(a), 1),
   roundrobin   |-> a.roundrobin,
   lambda_denom |-> LambdaDenom(a),
   records      |-> RecordsPerServer(a),
   loadonly     |-> a.loadonly,
   noload       |-> a.noload,
   warmup       |-> a.warmup]

ArgsToOptions(a) == Derived(ParseProfile(a))

-----------------------------------------------------------------------------
(* The servers main makes of the arguments, as what stands between the     *)
(* colons of host:port, and what do_mcperf takes for host and port.        *)

DefaultPort == 11211

\* name_to_ipaddr puts the default port behind anything that is no range.
NameToIpaddr(name, addport) ==
  IF addport THEN Append(name, DefaultPort) ELSE name

Instances(arg) ==
  IF arg.ports = <<>> THEN <<NameToIpaddr(arg.name, TRUE)>>
  ELSE [i \in 1 .. arg.ports[2] - arg.ports[1] + 1 |->
          Append(NameToIpaddr(arg.name, FALSE), arg.ports[1] + i - 1)]

ServerList(a) == FlattenSeq([i \in DOMAIN a.servers |-> Instances(a.servers[i])])

\* The last colon separates them.
Endpoint(server) == [host |-> Front(server), port |-> Last(server)]

-----------------------------------------------------------------------------
(* How go() deals the servers out to threads 1 .. o.threads; servers are   *)
(* 1 .. n.                                                                 *)

ServersOf_Above(t, n, o) ==
  IF o.roundrobin /\ o.threads > 1
  THEN {s \in 1 .. n : s > t /\ (s - t) % o.threads = 0}
  ELSE 1 .. n

\* With --roundrobin thread t begins at server t % n and goes on in steps of
\* the number of threads; thread and server numbers start at 0 there.
FirstServer(t, n) == ((t - 1) % n) + 1
ServersOf(t, n, o) ==
  IF o.roundrobin /\ o.threads > 1
  THEN {s \in 1 .. n : /\ s >= FirstServer(t, n)
                       /\ (s - FirstServer(t, n)) % o.threads = 0}
  ELSE 1 .. n
=============================================================================
