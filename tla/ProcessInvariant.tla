--------------------------- MODULE ProcessInvariant ---------------------------
(***************************************************************************)
(* The inductive invariants of Process: which threads there are while main *)
(* creates and joins them, how often each has passed the barrier, where    *)
(* the operations of the measurement are counted meanwhile, and what lets  *)
(* the process go on.                                                      *)
(***************************************************************************)
EXTENDS Process

\* args_to_options has been called before anything else.
Settled == options = ArgsToOptions(args)

\* The workers there are, at each stage of go.
Crew ==
  /\ turn <= options.threads + 1 \/ main \notin {"create", "join"}
  /\ \A t \in Threads :
       /\ at[t] > 0 => t <= options.threads
       /\ main = "create" => (at[t] > 0 <=> t < turn)
       /\ main = "join" /\ t <= options.threads =>
            at[t] > 0 /\ (t < turn => Done(t))
       /\ main \notin {"create", "join", "dead"} => at[t] = 0

\* Connections exist for the servers of their thread, and one that waits for
\* an answer is below the bound.
Links ==
  \A c \in AllConns :
    /\ conn[c] # "none" => c \in Mine(c[1])
    /\ conn[c] = "busy" => logged[c] < MaxOps

TypeInv == TypeOK /\ Settled /\ Crew /\ Links

-----------------------------------------------------------------------------
(* The barrier.                                                            *)

\* Who is in barrier_wait, and how many have been counted.
Counted ==
  /\ main # "start" => needed = options.threads
  /\ waiting \intersect leaving = {}
  /\ called = Cardinality(waiting)
  /\ \A t \in Inside : t <= options.threads /\ Doing(t) \in BarrierPoints

\* How often the barrier has opened for thread t, which may have yet to return
\* from it: equally often for all.
Meetings(t) == Left(t) + (IF t \in leaving THEN 1 ELSE 0)
Level == \A t, u \in 1 .. options.threads : Meetings(t) = Meetings(u)

MeetInv == Counted /\ Level

-----------------------------------------------------------------------------
(* The statistics.                                                         *)

\* The threads main has created or not joined yet.
Members == IF main = "create" THEN 1 .. turn - 1
           ELSE IF main = "join" THEN turn .. options.threads
           ELSE {}

\* What thread t will have returned of what was measured up to now.
Pending(t) == cs[t] + (IF Doing(t) = "measure" THEN Logs(t) ELSE 0)
Pendings == [t \in Threads |-> Pending(t)]

\* Nothing is logged but in the warmup and in the measurement.
Unlogged ==
  \A t \in Threads :
    Running(t) /\ Doing(t) \notin {"warm", "drain", "measure"} =>
      \A c \in Mine(t) : logged[c] = 0

CountInv ==
  /\ Unlogged
  /\ main # "dead" => stats + SumFunctionOnSet(Pendings, Members) = measured

-----------------------------------------------------------------------------
(* Going on.                                                               *)

\* What the connections of a thread may be doing in each of its parts.
Expected(label) ==
  CASE label = "connect" -> {"connecting", "idle"}
    [] label = "load" -> {"loading", "idle"}
    [] label \in {"warm", "drain", "measure"} -> {"idle", "busy"}
    [] OTHER -> {"idle"}

Served == \A t \in Threads :
            Running(t) => \A c \in Mine(t) : conn[c] \in Expected(Doing(t))

\* The barrier has not counted everybody, or it would have opened.
StillCounting == main # "start" /\ needed > 0 => called < needed

\* How far main is.
OnTime == /\ main \in {"start", "cpu"} => round = 0 /\ cpu = "none"
          /\ main = "go" => round < args.rounds

LiveInv == Served /\ StillCounting /\ OnTime

\* The guards of Main, of Worker(t) and of the callbacks that must come: what
\* lets main, a worker and a connection go on.
MainGoes ==
  \/ main \in {"start", "create", "coordinate", "finish", "stop"}
  \/ main = "cpu" /\ cpu = "none"
  \/ main = "go" /\ round < args.rounds
  \/ main = "join" /\ (turn > options.threads \/ Done(turn))

WorkerGoes(t) ==
  \/ t \in leaving
  \/ Doing(t) \in BarrierPoints /\ t \notin Inside
  \/ Doing(t) \in {"seed", "sync", "warm", "measure"}
  \/ Doing(t) \in {"connect", "load", "drain"} /\ AllIdle(t)

Answered(c) ==
  \/ EventLoop(c) = "connect" /\ conn[c] = "connecting"
  \/ EventLoop(c) = "load" /\ conn[c] = "loading"
  \/ EventLoop(c) = "drain" /\ conn[c] = "busy"

\* As long as main is not through with the rounds, something of this can happen;
\* the thread for the CPU statistics, which can always go on, does not count.
GoesOn ==
  \/ main \in {"joincpu", "exited", "dead"}
  \/ MainGoes
  \/ \E t \in Threads : WorkerGoes(t)
  \/ \E c \in AllConns : Answered(c)

-----------------------------------------------------------------------------
(* A hypothesis.                                                           *)

\* No two of the servers a command line stands for are the same: one given
\* twice is measured twice, with --roundrobin by two threads.
Distinct ==
  \A a \in Arguments : \A i, j \in DOMAIN ServerList(a) :
    Endpoint(ServerList(a)[i]) = Endpoint(ServerList(a)[j]) => i = j
=============================================================================
