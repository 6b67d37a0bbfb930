------------------------------- MODULE Process -------------------------------
(***************************************************************************)
(* One mcperf process (src/mcperf.cc): main with the thread that samples   *)
(* the CPU, go with the worker threads it creates and joins, and do_mcperf *)
(* in each of these, with all the connections of the thread.               *)
(*                                                                         *)
(* A worker runs do_mcperf, a straight line of parts (Script); which parts *)
(* there are depends on the options.  Threads share the barrier, and main  *)
(* adds up what they return.  A connection is reduced to what do_mcperf    *)
(* sees of it: whether it is idle, and how much it logged; module          *)
(* Connection says what happens inside.  The other side of sync_agent is   *)
(* in module AgentProtocol.                                                *)
(*                                                                         *)
(* An operator with a suffix, as Reset_Not, is a faulty variant of the one *)
(* that follows it; no definition uses it.                                 *)
(***************************************************************************)
EXTENDS Options, Barrier, CpuStat, SequencesExt

CONSTANTS
  Arguments,   \* the command lines
  MaxThreads,  \* bound: --threads
  MaxServers,  \* bound: servers in the list of main
  MaxConns,    \* bound: connections of a thread to a server
  MaxOps       \* bound: operations a connection completes in a part

ASSUME BoundsAssumption ==
  /\ MaxThreads \in Nat
  /\ MaxServers \in Nat \ {0}
  /\ MaxConns \in Nat \ {0}
  /\ MaxOps \in Nat

\* All the --server arguments there are.
ServerArguments == UNION {Range(a.servers) : a \in Arguments}

ASSUME ArgumentsAssumption ==
  /\ Arguments \subseteq
       [threads : 0 .. MaxThreads, servers : Seq(ServerArguments),
        connections : 1 .. MaxConns, roundrobin : BOOLEAN,
        lambda_mul : Nat \ {0}, qps : Nat, profile_given : BOOLEAN,
        profile : Nat, records : Nat, search : BOOLEAN,
        keycache : [capacity : Nat, reuse : Nat, regen : Nat],
        noload : BOOLEAN, loadonly : BOOLEAN, warmup : Nat, agents : BOOLEAN,
        scan : BOOLEAN, rounds : Nat \ {0},
        measure_connections : 0 .. MaxConns]
  /\ \A arg \in ServerArguments :
       /\ arg.name \in Seq(STRING)
       /\ arg.ports \in {<<>>} \union (Nat \X Nat)
  /\ \A a \in Arguments :
       /\ Len(ServerList(a)) \in 1 .. MaxServers
       /\ a.threads > 0 => ArgsToOptions(a).connections \in 1 .. MaxConns

Threads == 1 .. MaxThreads
AllConns == Threads \X (1 .. MaxServers) \X (1 .. MaxConns)
Master == 1

VARIABLES
  args,      \* the parsed command line
  options,   \* options_t
  main,      \* where main and go are
  round,     \* how often go has been called
  turn,      \* the thread go creates or joins next
  at,        \* where in its Script each worker is, 0 when there is none
  conn,      \* read_state of every connection
  logged,    \* operations in the statistics of every connection
  cs,        \* the statistics each thread returns
  stats,     \* those of main
  syncError, \* sync_agent returned errors
  measured   \* operations completed in the measurement, for the properties

workVars == <<conn, logged, measured>>
mainVars == <<args, options, main, round, turn>>
sumVars == <<cs, stats>>
vars == <<mainVars, at, workVars, sumVars, syncError, barrierVars, cpuVars>>

MainPoints == {"start", "cpu", "go", "create", "join", "coordinate", "finish",
               "stop", "joincpu", "exited", "dead"}
ConnStates == {"none", "connecting", "idle", "loading", "busy"}

\* main lists the servers once, for all rounds.
servers == ServerList(args)

-----------------------------------------------------------------------------
(* What do_mcperf goes through.                                            *)

Part(condition, labels) == IF condition THEN labels ELSE <<>>

SyncPart_Unready == Part(args.agents, <<"sync", "release">>)
SyncPart == Part(args.agents, <<"ready", "sync", "release">>)

WarmupPart == Part(options.warmup > 0, SyncPart \o <<"warm", "drain">>)

Script ==
  <<"connect">> \o Part(~options.noload, <<"seed", "load">>) \o
  Part(~options.loadonly,
       WarmupPart \o <<"meet">> \o SyncPart \o <<"measure">>)

BarrierPoints == {"ready", "release", "meet"}

Running(t) == at[t] \in DOMAIN Script
Doing(t) == IF Running(t) THEN Script[at[t]] ELSE "nothing"
Done(t) == at[t] > Len(Script)
Advance(t) == at' = [at EXCEPT ![t] = @ + 1]

\* --measure_connections replaces --connections in do_mcperf alone.
PerServer == IF args.measure_connections > 0 THEN args.measure_connections
             ELSE options.connections

Mine(t) == {c \in AllConns : /\ c[1] = t
                             /\ c[2] \in ServersOf(t, Len(servers), options)
                             /\ c[3] <= PerServer}
Lead(t) == {c \in Mine(t) : c[3] = 1}
AllIdle(t) == \A c \in Mine(t) : conn[c] = "idle"

\* The first connection to each server loads the records.
SetAll(C, state) == [c \in AllConns |-> IF c \in C THEN state ELSE conn[c]]

Logs(t) == SumFunctionOnSet(logged, Mine(t))

-----------------------------------------------------------------------------

Init ==
  /\ args \in Arguments
  /\ options = ArgsToOptions(args)
  /\ main = "start"
  /\ round = 0
  /\ turn = 1
  /\ at = [t \in Threads |-> 0]
  /\ conn = [c \in AllConns |-> "none"]
  /\ logged = [c \in AllConns |-> 0]
  /\ cs = [t \in Threads |-> 0]
  /\ stats = 0
  /\ syncError = FALSE
  /\ measured = 0
  /\ BarrierIdle(0)
  /\ CpuIdle

-----------------------------------------------------------------------------
(* main and go.                                                            *)

\* The barrier is made before anything tells how many threads there will be,
\* from the options of the first round.
MakeBarrier ==
  /\ main = "start"
  /\ BarrierInit(options.threads)
  /\ main' = "cpu"
  /\ UNCHANGED <<args, options, round, turn, at, workVars, sumVars, syncError,
                 cpuVars>>

CreateCpu ==
  /\ main = "cpu"
  /\ CpuCreate
  /\ main' = "go"
  /\ UNCHANGED <<args, options, round, turn, at, workVars, sumVars, syncError,
                 barrierVars>>

\* A round of --scan or --search begins with options and statistics of its own,
\* and so does the only round there is without them, for they are as made.  The
\* CPU statistics begin anew in --scan alone, there also for a single step.
GoTo == IF options.threads > 0 THEN "create" ELSE "coordinate"

BeginRound ==
  /\ main = "go"
  /\ round < args.rounds
  /\ round' = round + 1
  /\ options' = ArgsToOptions(args)
  /\ stats' = 0
  /\ IF args.scan THEN CpuRequestReset ELSE UNCHANGED cpuVars
  /\ main' = GoTo
  /\ turn' = 1
  /\ measured' = 0
  /\ UNCHANGED <<args, at, conn, logged, cs, syncError, barrierVars>>

\* thread_main starts with statistics of its own.  With one thread, do_mcperf
\* is called by go itself, on the statistics of main.
Workers_Half == (options.threads + 1) \div 2
Workers_More == options.threads + 1
Workers == options.threads

CreateThread ==
  /\ main = "create"
  /\ turn <= Workers
  /\ at' = [at EXCEPT ![turn] = 1]
  /\ conn' = SetAll(Mine(turn), "connecting")
  /\ logged' = [c \in AllConns |-> IF c \in Mine(turn) THEN 0 ELSE logged[c]]
  /\ cs' = [cs EXCEPT ![turn] = 0]
  /\ turn' = turn + 1
  /\ UNCHANGED <<args, options, main, round, stats, syncError, measured,
                 barrierVars, cpuVars>>

AllCreated ==
  /\ main = "create"
  /\ turn > Workers
  /\ main' = "join"
  /\ turn' = 1
  /\ UNCHANGED <<args, options, round, at, workVars, sumVars, syncError,
                 barrierVars, cpuVars>>

\* pthread_join and accumulate, in the order of creation.
JoinThread ==
  /\ main = "join"
  /\ turn <= options.threads
  /\ Done(turn)
  /\ stats' = stats + cs[turn]
  /\ turn' = turn + 1
  /\ UNCHANGED <<args, options, main, round, at, workVars, cs, syncError,
                 barrierVars, cpuVars>>

AllJoined ==
  /\ main = "join"
  /\ turn > options.threads
  /\ main' = "finish"
  /\ at' = [t \in Threads |-> 0]
  /\ UNCHANGED <<args, options, round, turn, workVars, sumVars, syncError,
                 barrierVars, cpuVars>>

\* Without threads go itself synchronizes the agents.
Coordinate ==
  /\ main = "coordinate"
  /\ \/ main' = "finish"
     \/ args.agents /\ main' = "dead"
  /\ UNCHANGED <<args, options, round, turn, at, workVars, sumVars, syncError,
                 barrierVars, cpuVars>>

\* finish_agent is in AgentProtocol; here the round is over.
FinishRound ==
  /\ main = "finish"
  /\ main' = IF round < args.rounds THEN "go" ELSE "stop"
  /\ UNCHANGED <<args, options, round, turn, at, workVars, sumVars, syncError,
                 barrierVars, cpuVars>>

StopCpu ==
  /\ main = "stop"
  /\ CpuRequestStop
  /\ main' = "joincpu"
  /\ UNCHANGED <<args, options, round, turn, at, workVars, sumVars, syncError,
                 barrierVars>>

\* The barrier is destroyed when the last user is gone.
JoinCpu ==
  /\ main = "joincpu"
  /\ cpu = "returned"
  /\ main' = "exited"
  /\ UNCHANGED <<args, options, round, turn, at, workVars, sumVars, syncError,
                 barrierVars, cpuVars>>

Main == \/ MakeBarrier \/ CreateCpu \/ BeginRound \/ CreateThread \/ AllCreated
        \/ JoinThread \/ AllJoined \/ Coordinate \/ FinishRound \/ StopCpu
        \/ JoinCpu

-----------------------------------------------------------------------------
(* do_mcperf in thread t.                                                  *)

\* The loops of do_mcperf that wait until every connection is idle.
Ready(t) ==
  /\ Doing(t) \in {"connect", "load"}
  /\ AllIdle(t)
  /\ Advance(t)
  /\ UNCHANGED <<mainVars, workVars, sumVars, syncError, barrierVars, cpuVars>>

StartLoading(t) ==
  /\ Doing(t) = "seed"
  /\ conn' = SetAll(Lead(t), "loading")
  /\ Advance(t)
  /\ UNCHANGED <<mainVars, logged, measured, sumVars, syncError, barrierVars,
                 cpuVars>>

EnterBarrier(t) ==
  /\ Doing(t) \in BarrierPoints
  /\ BarrierWait(t) \/ BarrierOpen(t)
  /\ UNCHANGED <<mainVars, at, workVars, sumVars, syncError, cpuVars>>

\* Behind the barrier after sync_agent the master gives up, and the process
\* with it, when there were errors.
LeaveBarrier(t) ==
  /\ BarrierReturn(t)
  /\ Advance(t)
  /\ main' = IF Doing(t) = "release" /\ t = Master /\ syncError
             THEN "dead" ELSE main
  /\ UNCHANGED <<args, options, round, turn, workVars, sumVars, syncError,
                 needed, called, waiting, cpuVars>>

\* Only the master calls sync_agent; the others have nothing to do.
Syncs(t) == t = Master

Synchronize(t) ==
  /\ Doing(t) = "sync"
  /\ syncError' \in (IF Syncs(t) THEN BOOLEAN ELSE {syncError})
  /\ Advance(t)
  /\ UNCHANGED <<mainVars, workVars, sumVars, barrierVars, cpuVars>>

\* The time of the warmup is over for every connection of the thread: they
\* share its length and the moment it began.
WarmupOver(t) ==
  /\ Doing(t) = "warm"
  /\ Advance(t)
  /\ UNCHANGED <<mainVars, workVars, sumVars, syncError, barrierVars, cpuVars>>

Reset_Not(t) == logged
Reset(t) == [c \in AllConns |-> IF c \in Mine(t) THEN 0 ELSE logged[c]]

\* What was sent in the warmup must be answered before the reset.
Drained(t) ==
  /\ Doing(t) = "drain"
  /\ AllIdle(t)
  /\ logged' = Reset(t)
  /\ Advance(t)
  /\ UNCHANGED <<mainVars, conn, measured, sumVars, syncError, barrierVars,
                 cpuVars>>

\* The statistics of all connections go into those of the thread; whatever is
\* still outstanding is lost with its connection.
TimeOver(t) ==
  /\ Doing(t) = "measure"
  /\ IF options.threads = 1
     THEN stats' = stats + Logs(t) /\ UNCHANGED cs
     ELSE cs' = [cs EXCEPT ![t] = @ + Logs(t)] /\ UNCHANGED stats
  /\ conn' = SetAll(Mine(t), "none")
  /\ Advance(t)
  /\ UNCHANGED <<mainVars, logged, measured, syncError, barrierVars, cpuVars>>

Worker(t) == \/ Ready(t) \/ StartLoading(t) \/ EnterBarrier(t)
             \/ LeaveBarrier(t) \/ Synchronize(t) \/ WarmupOver(t)
             \/ Drained(t) \/ TimeOver(t)

-----------------------------------------------------------------------------
(* Callbacks of the connections of a thread, run by its event loop.        *)

EventLoop(c) == Doing(c[1])

\* A connection is up, or its loader has stored every record.
BecomeIdle(c) ==
  /\ \/ EventLoop(c) = "connect" /\ conn[c] = "connecting"
     \/ EventLoop(c) = "load" /\ conn[c] = "loading"
  /\ conn' = [conn EXCEPT ![c] = "idle"]
  /\ UNCHANGED <<mainVars, at, logged, measured, sumVars, syncError,
                 barrierVars, cpuVars>>

Issue(c) ==
  /\ EventLoop(c) \in {"warm", "measure"}
  /\ conn[c] = "idle"
  /\ logged[c] < MaxOps
  /\ conn' = [conn EXCEPT ![c] = "busy"]
  /\ UNCHANGED <<mainVars, at, logged, measured, sumVars, syncError,
                 barrierVars, cpuVars>>

Complete(c) ==
  /\ EventLoop(c) \in {"warm", "drain", "measure"}
  /\ conn[c] = "busy"
  /\ conn' = [conn EXCEPT ![c] = "idle"]
  /\ logged' = [logged EXCEPT ![c] = @ + 1]
  /\ measured' = IF EventLoop(c) = "measure" THEN measured + 1 ELSE measured
  /\ UNCHANGED <<mainVars, at, sumVars, syncError, barrierVars, cpuVars>>

Callback(c) == BecomeIdle(c) \/ Issue(c) \/ Complete(c)

-----------------------------------------------------------------------------

CpuStep == CpuThread /\ UNCHANGED <<mainVars, at, workVars, sumVars, syncError,
                                    barrierVars>>

\* exit() and the end of main take every thread with them.
Over == main \in {"exited", "dead"}

Next ==
  \/ ~Over /\ (\/ Main
               \/ \E t \in Threads : Worker(t)
               \/ \E c \in AllConns : Callback(c)
               \/ CpuStep)
  \/ Over /\ UNCHANGED vars

Spec == Init /\ [][Next]_vars

\* The scheduler lets every thread run, servers accept connections and answer,
\* and the time of a part passes.  Nobody has to issue an operation.
Fairness ==
  /\ WF_vars(~Over /\ Main)
  /\ WF_vars(~Over /\ CpuStep)
  /\ \A t \in Threads : WF_vars(~Over /\ Worker(t))
  /\ \A c \in AllConns : WF_vars(~Over /\ (BecomeIdle(c) \/ Complete(c)))

FairSpec == Spec /\ Fairness

-----------------------------------------------------------------------------
(* What a process promises.                                                *)

TypeOK ==
  /\ args \in Arguments
  /\ main \in MainPoints
  /\ round \in 0 .. args.rounds
  /\ turn \in 1 .. MaxThreads + 1
  /\ at \in [Threads -> 0 .. Len(Script) + 1]
  /\ conn \in [AllConns -> ConnStates]
  /\ logged \in [AllConns -> 0 .. MaxOps]
  /\ cs \in [Threads -> Nat]
  /\ stats \in Nat
  /\ syncError \in BOOLEAN
  /\ BarrierType(Threads)
  /\ CpuType

\* The barriers in front of position n of the script.
BarriersBefore(n) == Cardinality({i \in DOMAIN Script :
                                    i < n /\ Script[i] \in BarrierPoints})
Left(t) == BarriersBefore(at[t])
Entered(t) == Left(t) + (IF t \in Inside THEN 1 ELSE 0)

\* No thread is beyond a barrier that another thread of the process has yet to
\* reach, so that no part of the run begins before all are ready for it: the
\* comments at src/mcperf.cc:1247-1249.  The same barrier serves all meetings
\* of a round and of all rounds, and a thread may come to the next meeting
\* while others have not returned from this one.
NobodyAhead ==
  \A t, u \in 1 .. options.threads : Left(t) <= Entered(u)

\* While the master synchronizes with the agents, every other thread of the
\* process is between the two barriers around sync_agent: none has begun the
\* part the synchronization is about, none is still busy with the one before.
SyncAlone ==
  Doing(Master) = "sync" =>
    \A t \in 2 .. options.threads : at[t] \in at[Master] .. at[Master] + 1
                                    \/ (at[t] = at[Master] - 1 /\ t \in leaving)

\* When a round is over, the statistics of main count each operation of the
\* measurement once, of every connection of every thread, and none of the
\* warmup: reset, the three levels of accumulate and the joins in go.
RoundCounted == main \in {"finish", "stop"} => stats = measured

Opened == SumFunction([t \in 1 .. options.threads |-> Cardinality(Mine(t))])

\* The shares add up to the load that was asked for: every connection sends
\* qps * lambda_mul / lambda_denom operations per second, and the threads
\* together open lambda_denom / lambda_mul connections, however the servers
\* are dealt out.  --measure_connections without agents breaks it, and so does
\* a range of ports, which counts as one server (mcperf.cc:1516).
SharesAddUp ==
  /\ options.threads > 0
  /\ args.measure_connections = 0
  /\ \A i \in DOMAIN args.servers : args.servers[i].ports = <<>>
  => Opened * args.lambda_mul = options.lambda_denom

\* What the command line names: "hostname[:port[-end_port]]" (cmdline.ggo:13).
\* The form host:port is left out, for the code puts a second port behind it
\* (src/mcperf.cc:599-600) and takes host:port for the name of the host.
Named ==
  UNION {LET arg == args.servers[i]
         IN [host : {arg.name},
             port : IF arg.ports = <<>> THEN {DefaultPort}
                    ELSE arg.ports[1] .. arg.ports[2]] :
           i \in {k \in DOMAIN args.servers : Len(args.servers[k].name) = 1}}

Measurers(e) == {t \in 1 .. options.threads :
                   \E s \in ServersOf(t, Len(servers), options) :
                     Endpoint(servers[s]) = e}

\* Whatever the number of threads, each server of the command line is measured
\* and so is each port of a range; with --roundrobin by one thread alone if
\* there are no more threads than servers.
ServersDealtOut ==
  options.threads > 0 =>
    \A e \in Named :
      /\ Measurers(e) # {}
      /\ options.roundrobin /\ options.threads <= Len(servers)
           => Cardinality(Measurers(e)) = 1

\* A stop requested after the thread for the CPU statistics has begun ends the
\* process.  Requested before, it is forgotten (cpu_stat_thread.cc:49), and
\* pthread_join does not return.
StopEndsProcess == main = "stop" /\ cpu # "created" ~> main = "exited"

\* Every round ends, unless the process gives up: no thread waits for ever at
\* the barrier, for its connections or for another thread.
RoundsEnd == main = "go" ~> main \in {"stop", "dead"}
=============================================================================
