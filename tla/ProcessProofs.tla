---------------------------- MODULE ProcessProofs ----------------------------
(***************************************************************************)
(* Proofs about Process, for every value of its constants.                 *)
(***************************************************************************)
EXTENDS ProcessInvariant, FoldProofs, SequenceTheorems

-----------------------------------------------------------------------------
(* The options and the script.                                             *)

LEMMA OptionsType ==
  ASSUME NEW a \in Arguments
  PROVE  /\ ArgsToOptions(a).threads = a.threads
         /\ a.threads \in 0 .. MaxThreads
         /\ a.rounds \in Nat \ {0}
<1>1. a.threads \in 0 .. MaxThreads /\ a.rounds \in Nat \ {0}
  BY ArgumentsAssumption
<1>2. ParseProfile(a).threads = a.threads
  BY ArgumentsAssumption DEF ParseProfile
<1> QED
  BY <1>1, <1>2 DEF ArgsToOptions, Derived

\* In a part sync_agent is between two barriers, the warmup is followed by
\* the wait for its last answers, loading by the wait for its end, and nothing
\* is measured.
Labels == {"connect", "seed", "load", "ready", "sync", "release", "warm",
           "drain", "meet", "measure"}

Framed(s) ==
  \A k \in DOMAIN s :
    /\ s[k] = "sync" => /\ k - 1 \in DOMAIN s /\ s[k - 1] = "ready"
                        /\ k + 1 \in DOMAIN s /\ s[k + 1] = "release"
    /\ s[k] = "warm" => k + 1 \in DOMAIN s /\ s[k + 1] = "drain"
    /\ s[k] = "seed" => k + 1 \in DOMAIN s /\ s[k + 1] = "load"

Block(s) == s \in Seq(Labels \ {"measure"}) /\ Framed(s)

LEMMA BlocksJoin ==
  ASSUME NEW s, NEW u, Block(s), Block(u)
  PROVE  Block(s \o u)
<1> DEFINE r == s \o u
<1>1. /\ Len(s) \in Nat /\ DOMAIN s = 1 .. Len(s)
      /\ Len(u) \in Nat /\ DOMAIN u = 1 .. Len(u)
  BY LenProperties DEF Block
<1>2. /\ r \in Seq(Labels \ {"measure"})
      /\ DOMAIN r = 1 .. Len(s) + Len(u)
      /\ \A i \in 1 .. Len(s) + Len(u) :
           r[i] = IF i <= Len(s) THEN s[i] ELSE u[i - Len(s)]
  BY ConcatProperties, LenProperties DEF Block
<1> HIDE DEF r
<1>3. ASSUME NEW k \in DOMAIN r, r[k] = "sync"
      PROVE  /\ k - 1 \in DOMAIN r /\ r[k - 1] = "ready"
             /\ k + 1 \in DOMAIN r /\ r[k + 1] = "release"
  <2>1. CASE k <= Len(s)
    <3>1. k \in DOMAIN s /\ s[k] = "sync"
      BY <1>1, <1>2, <1>3, <2>1
    <3>2. /\ k - 1 \in 1 .. Len(s) /\ s[k - 1] = "ready"
          /\ k + 1 \in 1 .. Len(s) /\ s[k + 1] = "release"
      BY <1>1, <3>1 DEF Block, Framed
    <3> QED
      BY <1>1, <1>2, <3>2
  <2>2. CASE ~(k <= Len(s))
    <3> DEFINE j == k - Len(s)
    <3>1. j \in DOMAIN u /\ u[j] = "sync" /\ k = Len(s) + j
      BY <1>1, <1>2, <1>3, <2>2
    <3>2. /\ j - 1 \in 1 .. Len(u) /\ u[j - 1] = "ready"
          /\ j + 1 \in 1 .. Len(u) /\ u[j + 1] = "release"
      BY <1>1, <3>1 DEF Block, Framed
    <3>3. /\ k - 1 - Len(s) = j - 1 /\ k + 1 - Len(s) = j + 1
          /\ k - 1 \in 1 .. Len(s) + Len(u) /\ ~(k - 1 <= Len(s))
          /\ k + 1 \in 1 .. Len(s) + Len(u) /\ ~(k + 1 <= Len(s))
      BY <1>1, <3>1, <3>2
    <3> HIDE DEF j
    <3> QED
      BY <1>2, <3>2, <3>3, SMTT(30)
  <2> QED
    BY <2>1, <2>2
<1>4. ASSUME NEW x, NEW y, <<x, y>> \in {<<"warm", "drain">>, <<"seed", "load">>},
             NEW k \in DOMAIN r, r[k] = x
      PROVE  k + 1 \in DOMAIN r /\ r[k + 1] = y
  <2>1. CASE k <= Len(s)
    <3>1. k \in DOMAIN s /\ s[k] = x
      BY <1>1, <1>2, <1>4, <2>1
    <3>2. k + 1 \in 1 .. Len(s) /\ s[k + 1] = y
      BY <1>1, <1>4, <3>1 DEF Block, Framed
    <3> QED
      BY <1>1, <1>2, <3>2
  <2>2. CASE ~(k <= Len(s))
    <3> DEFINE j == k - Len(s)
    <3>1. j \in DOMAIN u /\ u[j] = x /\ k = Len(s) + j
      BY <1>1, <1>2, <1>4, <2>2
    <3>2. j + 1 \in 1 .. Len(u) /\ u[j + 1] = y
      BY <1>1, <1>4, <3>1 DEF Block, Framed
    <3>3. /\ k + 1 - Len(s) = j + 1
          /\ k + 1 \in 1 .. Len(s) + Len(u) /\ ~(k + 1 <= Len(s))
      BY <1>1, <3>1, <3>2
    <3> HIDE DEF j
    <3> QED
      BY <1>2, <3>2, <3>3
  <2> QED
    BY <2>1, <2>2
<1>5. Framed(r)
  BY <1>3, <1>4 DEF Framed
<1> QED
  BY <1>2, <1>5 DEF Block, r

LEMMA PartIsBlock ==
  ASSUME NEW condition \in BOOLEAN, NEW s, Block(s)
  PROVE  Block(Part(condition, s))
<1>1. Block(<<>>)
  BY DEF Block, Framed
<1> QED
  BY <1>1 DEF Part

\* A block, with or without the measurement behind it.
LEMMA BlockEnds ==
  ASSUME NEW s, Block(s), s # <<>>, NEW u \in {<<>>, <<"measure">>}
  PROVE  /\ s \o u \in Seq(Labels)
         /\ (s \o u)[1] = s[1]
         /\ Framed(s \o u)
         /\ \A k \in DOMAIN (s \o u) :
              (s \o u)[k] = "measure" => k = Len(s \o u)
<1> DEFINE r == s \o u
<1>1. s \in Seq(Labels) /\ u \in Seq(Labels) /\ Len(s) \in Nat \ {0}
  <2>1. s \in Seq(Labels)
    BY SeqMonotonic DEF Block
  <2>2. u \in Seq(Labels)
    <3>1. <<>> \in Seq(Labels)
      BY EmptySeq
    <3>2. <<"measure">> \in Seq({"measure"})
      OBVIOUS
    <3>3. <<"measure">> \in Seq(Labels)
      BY <3>2, SeqMonotonic DEF Labels
    <3> QED
      BY <3>1, <3>3
  <2> QED
    BY <2>1, <2>2, EmptySeq
<1>2. Len(u) \in {0, 1} /\ \A i \in 1 .. Len(u) : u[i] = "measure"
  OBVIOUS
<1>3. /\ r \in Seq(Labels)
      /\ DOMAIN r = 1 .. Len(s) + Len(u) /\ Len(r) = Len(s) + Len(u)
      /\ \A i \in 1 .. Len(s) + Len(u) :
           r[i] = IF i <= Len(s) THEN s[i] ELSE u[i - Len(s)]
  BY <1>1, ConcatProperties, LenProperties
<1>4. \A k \in 1 .. Len(s) : s[k] # "measure"
  BY ElementOfSeq DEF Block
<1>5. ASSUME NEW k \in DOMAIN r, k > Len(s)
      PROVE  r[k] = "measure" /\ k = Len(r)
  BY <1>1, <1>2, <1>3, <1>5
<1> HIDE DEF r
<1>6. ASSUME NEW k \in DOMAIN r, r[k] # "measure"
      PROVE  k \in DOMAIN s /\ r[k] = s[k]
  BY <1>1, <1>2, <1>3, <1>5, <1>6, LenProperties
<1>7. ASSUME NEW k \in DOMAIN s
      PROVE  k \in DOMAIN r /\ r[k] = s[k]
  BY <1>1, <1>2, <1>3, LenProperties
<1>8. Framed(r)
  BY <1>6, <1>7 DEF Framed, Block
<1>9. r[1] = s[1]
  BY <1>1, <1>3, <1>7, LenProperties
<1>10. \A k \in DOMAIN r : r[k] = "measure" => k = Len(r)
  BY <1>1, <1>2, <1>3, <1>4, <1>5
<1> QED
  BY <1>3, <1>8, <1>9, <1>10 DEF r

\* The script begins with the connections, and the measurement is its end.
LEMMA ScriptShape ==
  ASSUME args.agents \in BOOLEAN, options.noload \in BOOLEAN,
         options.loadonly \in BOOLEAN, options.warmup \in Nat
  PROVE  /\ Script \in Seq(Labels)
         /\ Len(Script) \in Nat \ {0} /\ DOMAIN Script = 1 .. Len(Script)
         /\ Script[1] = "connect"
         /\ Framed(Script)
         /\ \A k \in DOMAIN Script : Script[k] = "measure" => k = Len(Script)
<1> DEFINE load == Part(~options.noload, <<"seed", "load">>)
           rest == WarmupPart \o <<"meet">> \o SyncPart
           last == <<"measure">>
<1>1. Block(load)
  <2>1. Block(<<"seed", "load">>)
    BY DEF Block, Framed, Labels
  <2> QED
    BY <2>1, PartIsBlock
<1>2. Block(SyncPart)
  <2>1. Block(<<"ready", "sync", "release">>)
    BY DEF Block, Framed, Labels
  <2> QED
    BY <2>1, PartIsBlock DEF SyncPart
<1>3. Block(rest)
  <2>1. Block(<<"warm", "drain">>) /\ Block(<<"meet">>)
    BY DEF Block, Framed, Labels
  <2>2. Block(SyncPart \o <<"warm", "drain">>)
    BY <1>2, <2>1, BlocksJoin
  <2>3. Block(WarmupPart)
    <3>1. (options.warmup > 0) \in BOOLEAN
      OBVIOUS
    <3> QED
      BY <2>2, <3>1, PartIsBlock DEF WarmupPart
  <2> QED
    BY <1>2, <2>1, <2>3, BlocksJoin
<1>4. Block(<<"connect">>)
  BY DEF Block, Framed, Labels
<1> DEFINE head == <<"connect">> \o load
<1>5. Block(head) /\ head # <<>> /\ head[1] = "connect"
  <2>1. load \in Seq(Labels) /\ <<"connect">> \in Seq(Labels)
    BY <1>1 DEF Block, Labels
  <2> HIDE DEF load
  <2>2. Len(head) = 1 + Len(load) /\ Len(load) \in Nat /\ head[1] = "connect"
    BY <2>1, ConcatProperties, LenProperties
  <2> QED
    BY <1>1, <1>4, <2>2, BlocksJoin
<1> DEFINE Made(s, u) == /\ Script = s \o u
                         /\ Block(s) /\ s # <<>> /\ s[1] = "connect"
<1>6. \E s : Made(s, <<>>) \/ Made(s, last)
  <2>1. CASE options.loadonly
    <3>1. Script = head \o <<>>
      BY <2>1 DEF Script, Part
    <3>2. Made(head, <<>>)
      BY <1>5, <3>1
    <3> QED
      BY <3>2
  <2>2. CASE ~options.loadonly
    <3>1. Script = head \o (rest \o last)
      BY <2>2 DEF Script, Part
    <3>2. /\ head \in Seq(Labels) /\ rest \in Seq(Labels)
          /\ last \in Seq(Labels)
      BY <1>3, <1>5 DEF Block, Labels
    <3> HIDE DEF head, rest, last
    <3>3. Script = (head \o rest) \o last
      BY <3>1, <3>2, ConcatAssociative
    <3>4. Block(head \o rest)
      BY <1>3, <1>5, BlocksJoin
    <3>5. head \o rest # <<>> /\ (head \o rest)[1] = "connect"
      <4>1. Len(head) \in Nat \ {0} /\ Len(rest) \in Nat
        BY <1>5, <3>2, EmptySeq, LenProperties
      <4>2. /\ Len(head \o rest) = Len(head) + Len(rest)
            /\ (head \o rest)[1] = head[1]
        BY <3>2, <4>1, ConcatProperties
      <4> QED
        BY <1>5, <4>1, <4>2
    <3>6. Made(head \o rest, last)
      BY <3>3, <3>4, <3>5
    <3> QED
      BY <3>6
  <2> QED
    BY <2>1, <2>2
<1>7. /\ Script \in Seq(Labels) /\ Script[1] = "connect" /\ Framed(Script)
      /\ \A k \in DOMAIN Script : Script[k] = "measure" => k = Len(Script)
  BY <1>6, BlockEnds
<1>8. Len(Script) \in Nat \ {0} /\ DOMAIN Script = 1 .. Len(Script)
  BY <1>6, <1>7, ConcatEqualIffEmpty, EmptySeq, LenProperties DEF Block
<1> QED
  BY <1>7, <1>8

\* The options of a process, and its script.
LEMMA ScriptKnown ==
  ASSUME args \in Arguments, Settled
  PROVE  /\ args \in Arguments
         /\ options.threads = args.threads /\ options.threads \in 0 .. MaxThreads
         /\ args.rounds \in Nat \ {0}
         /\ Script \in Seq(Labels)
         /\ Len(Script) \in Nat \ {0} /\ DOMAIN Script = 1 .. Len(Script)
         /\ Script[1] = "connect"
         /\ Framed(Script)
         /\ \A k \in DOMAIN Script : Script[k] = "measure" => k = Len(Script)
<1>1. args \in Arguments /\ options = ArgsToOptions(args)
  BY DEF Settled
<1>2. /\ args.agents \in BOOLEAN /\ args.noload \in BOOLEAN
      /\ args.loadonly \in BOOLEAN /\ args.warmup \in Nat
  BY <1>1, ArgumentsAssumption
<1>3. /\ ParseProfile(args).noload = args.noload
      /\ ParseProfile(args).loadonly = args.loadonly
      /\ ParseProfile(args).warmup = args.warmup
  BY <1>1, ArgumentsAssumption DEF ParseProfile
<1>4. /\ options.noload \in BOOLEAN /\ options.loadonly \in BOOLEAN
      /\ options.warmup \in Nat
  BY <1>1, <1>2, <1>3 DEF ArgsToOptions, Derived
<1> QED
  BY <1>1, <1>2, <1>4, OptionsType, ScriptShape

LEMMA Settings ==
  ASSUME TypeInv
  PROVE  /\ args \in Arguments
         /\ options.threads = args.threads /\ options.threads \in 0 .. MaxThreads
         /\ args.rounds \in Nat \ {0}
         /\ Script \in Seq(Labels)
         /\ Len(Script) \in Nat \ {0} /\ DOMAIN Script = 1 .. Len(Script)
         /\ Script[1] = "connect"
         /\ Framed(Script)
         /\ \A k \in DOMAIN Script : Script[k] = "measure" => k = Len(Script)
BY ScriptKnown DEF TypeInv, TypeOK

\* The options do not change, and nothing that is made of them.
LEMMA SettingsKept ==
  ASSUME TypeInv, [Next]_vars
  PROVE  args' = args /\ options' = options
BY DEF TypeInv, Settled, Next, Main, MakeBarrier, CreateCpu, BeginRound,
       CreateThread, AllCreated, JoinThread, AllJoined, Coordinate,
       FinishRound, StopCpu, JoinCpu, Worker, Ready, StartLoading,
       EnterBarrier, LeaveBarrier, Synchronize, WarmupOver, Drained, TimeOver,
       Callback, BecomeIdle, Issue, Complete, CpuStep, vars, mainVars

LEMMA ScriptKept ==
  ASSUME args' = args, options' = options
  PROVE  /\ Script' = Script
         /\ servers' = servers
         /\ \A t : Mine(t)' = Mine(t)
         /\ \A n : BarriersBefore(n)' = BarriersBefore(n)
<1>1. Script' = Script
  BY DEF Script, WarmupPart, SyncPart, Part
<1>2. servers' = servers /\ PerServer' = PerServer
  BY DEF servers, PerServer
<1> QED
  BY <1>1, <1>2 DEF Mine, BarriersBefore

-----------------------------------------------------------------------------
(* Types.                                                                  *)

LEMMA MineFinite ==
  ASSUME NEW t
  PROVE  Mine(t) \subseteq AllConns /\ IsFiniteSet(Mine(t))
<1>1. IsFiniteSet(AllConns)
  <2>1. /\ IsFiniteSet(1 .. MaxThreads) /\ IsFiniteSet(1 .. MaxServers)
        /\ IsFiniteSet(1 .. MaxConns)
    BY BoundsAssumption, FS_Interval
  <2> DEFINE S == (1 .. MaxThreads) \X (1 .. MaxServers)
             T == S \X (1 .. MaxConns)
  <2>2. IsFiniteSet(S)
    BY <2>1, FS_Product
  <2>3. IsFiniteSet(T)
    BY <2>1, <2>2, FS_Product
  <2> DEFINE f == [p \in T |-> <<p[1][1], p[1][2], p[2]>>]
  <2>4. f \in Surjection(T, AllConns)
    <3>1. ASSUME NEW p \in T
          PROVE  f[p] \in AllConns
      BY DEF AllConns, Threads
    <3>2. ASSUME NEW c \in AllConns
          PROVE  \E p \in T : f[p] = c
      <4>1. PICK a \in 1 .. MaxThreads, b \in 1 .. MaxServers,
                 d \in 1 .. MaxConns : c = <<a, b, d>>
        BY DEF AllConns, Threads
      <4>2. <<<<a, b>>, d>> \in T /\ f[<<<<a, b>>, d>>] = c
        BY <4>1
      <4> QED
        BY <4>2
    <3> QED
      BY <3>1, <3>2 DEF Surjection
  <2> QED
    BY <2>3, <2>4, FS_Surjection
<1>2. Mine(t) \subseteq AllConns
  BY DEF Mine
<1> QED
  BY <1>1, <1>2, FS_Subset

LEMMA LogsType ==
  ASSUME NEW t, logged \in [AllConns -> 0 .. MaxOps]
  PROVE  /\ Logs(t) \in Nat
         /\ (\A c \in Mine(t) : logged[c] = 0) => Logs(t) = 0
<1>1. logged \in [AllConns -> Nat]
  BY BoundsAssumption
<1> QED
  BY <1>1, MineFinite, SumNat DEF Logs

\* The barrier lets a thread return only at a point of the script.
LEMMA InsideRuns ==
  ASSUME Counted, TypeInv, NEW t \in Inside
  PROVE  /\ t \in 1 .. options.threads /\ t \in Threads
         /\ at[t] \in 1 .. Len(Script) /\ Script[at[t]] \in BarrierPoints
<1>1. t \in Threads /\ t <= options.threads /\ Doing(t) \in BarrierPoints
  BY DEF Counted, TypeInv, TypeOK, BarrierType, Inside
<1>2. Running(t)
  BY <1>1 DEF Doing, BarrierPoints
<1> QED
  BY <1>1, <1>2, Settings, BoundsAssumption DEF Doing, Running, Threads

LEMMA StepTypes ==
  ASSUME TypeInv, Counted, [Next]_vars
  PROVE  TypeOK'
<1> USE DEF TypeInv, TypeOK, BarrierType, CpuType
<1>1. /\ args' = args /\ options' = options /\ Script' = Script
      /\ Len(Script) \in Nat \ {0} /\ DOMAIN Script = 1 .. Len(Script)
      /\ options.threads \in 0 .. MaxThreads /\ args.rounds \in Nat \ {0}
  BY Settings, SettingsKept, ScriptKept
<1>2. MaxThreads \in Nat /\ MaxOps \in Nat
  BY BoundsAssumption
<1>3. ASSUME NEW t \in Threads, Running(t), Advance(t)
      PROVE  at' \in [Threads -> 0 .. Len(Script) + 1]
  BY <1>1, <1>3 DEF Running, Advance
<1>4. ASSUME NEW t \in Threads, Doing(t) # "nothing"
      PROVE  Running(t)
  BY <1>4 DEF Doing
<1>5. ASSUME UNCHANGED vars
      PROVE  TypeOK'
  BY <1>1, <1>5
     DEF vars, mainVars, workVars, sumVars, barrierVars, cpuVars
<1> USE DEF MainPoints, workVars, sumVars, mainVars, barrierVars, cpuVars
<1>6. CASE MakeBarrier
  BY <1>1, <1>2, <1>6 DEF MakeBarrier, BarrierInit
<1>7. CASE CreateCpu
  BY <1>1, <1>7 DEF CreateCpu, CpuCreate, CpuPoints
<1>8. CASE BeginRound
  <2>1. round' \in 0 .. args.rounds /\ turn' \in 1 .. MaxThreads + 1
    BY <1>1, <1>2, <1>8 DEF BeginRound
  <2>2. main' \in MainPoints
    BY <1>8 DEF BeginRound, GoTo
  <2>3. CpuType'
    BY <1>8 DEF BeginRound, CpuRequestReset
  <2> QED
    BY <1>1, <1>8, <2>1, <2>2, <2>3 DEF BeginRound
<1>9. CASE CreateThread
  <2>1. turn \in Threads /\ turn + 1 \in 1 .. MaxThreads + 1
    BY <1>1, <1>2, <1>9 DEF CreateThread, Workers, Threads
  <2>2. at' \in [Threads -> 0 .. Len(Script) + 1]
    BY <1>1, <1>9, <2>1 DEF CreateThread
  <2>3. conn' \in [AllConns -> ConnStates]
    BY <1>9 DEF CreateThread, SetAll, ConnStates
  <2>4. logged' \in [AllConns -> 0 .. MaxOps]
    BY <1>2, <1>9 DEF CreateThread
  <2> QED
    BY <1>1, <1>9, <2>1, <2>2, <2>3, <2>4 DEF CreateThread
<1>10. CASE AllCreated
  BY <1>1, <1>2, <1>10 DEF AllCreated
<1>11. CASE JoinThread
  <2>1. turn \in Threads /\ turn + 1 \in 1 .. MaxThreads + 1
    BY <1>1, <1>2, <1>11 DEF JoinThread, Threads
  <2> QED
    BY <1>1, <1>11, <2>1, SMTT(30) DEF JoinThread
<1>12. CASE AllJoined
  BY <1>1, <1>12 DEF AllJoined
<1>13. CASE Coordinate \/ FinishRound \/ StopCpu \/ JoinCpu
  BY <1>1, <1>13 DEF Coordinate, FinishRound, StopCpu, JoinCpu, CpuRequestStop
<1>14. ASSUME NEW t \in Threads, Worker(t)
       PROVE  TypeOK'
  <2>1. CASE Ready(t)
    BY <1>1, <1>3, <1>4, <2>1 DEF Ready
  <2>2. CASE StartLoading(t)
    <3>1. conn' \in [AllConns -> ConnStates]
      BY <2>2 DEF StartLoading, SetAll, ConnStates
    <3> QED
      BY <1>1, <1>3, <1>4, <2>2, <3>1 DEF StartLoading
  <2>3. CASE EnterBarrier(t)
    BY <1>1, <2>3, SMTT(30) DEF EnterBarrier, BarrierWait, BarrierOpen
  <2>4. CASE LeaveBarrier(t)
    <3>1. Running(t)
      BY <1>1, <2>4, InsideRuns DEF LeaveBarrier, BarrierReturn, Inside, Running
    <3> QED
      BY <1>1, <1>3, <2>4, <3>1 DEF LeaveBarrier, BarrierReturn
  <2>5. CASE Synchronize(t)
    BY <1>1, <1>3, <1>4, <2>5 DEF Synchronize
  <2>6. CASE WarmupOver(t)
    BY <1>1, <1>3, <1>4, <2>6 DEF WarmupOver
  <2>7. CASE Drained(t)
    <3>1. logged' \in [AllConns -> 0 .. MaxOps]
      BY <1>2, <2>7 DEF Drained, Reset
    <3> QED
      BY <1>1, <1>3, <1>4, <2>7, <3>1 DEF Drained
  <2>8. CASE TimeOver(t)
    <3>1. Logs(t) \in Nat
      BY LogsType
    <3>2. conn' \in [AllConns -> ConnStates]
      BY <2>8 DEF TimeOver, SetAll, ConnStates
    <3>3. cs' \in [Threads -> Nat] /\ stats' \in Nat
      BY <2>8, <3>1 DEF TimeOver
    <3> QED
      BY <1>1, <1>3, <1>4, <2>8, <3>2, <3>3 DEF TimeOver
  <2> QED
    BY <1>14, <2>1, <2>2, <2>3, <2>4, <2>5, <2>6, <2>7, <2>8 DEF Worker
<1>15. ASSUME NEW c \in AllConns, Callback(c)
       PROVE  TypeOK'
  <2>1. CASE BecomeIdle(c) \/ Issue(c)
    BY <1>1, <2>1 DEF BecomeIdle, Issue, ConnStates
  <2>2. CASE Complete(c)
    <3>1. logged[c] < MaxOps
      BY <2>2 DEF Links, Complete
    <3>2. logged' \in [AllConns -> 0 .. MaxOps]
      BY <1>2, <2>2, <3>1 DEF Complete
    <3> QED
      BY <1>1, <2>2, <3>2 DEF Complete, ConnStates
  <2> QED
    BY <1>15, <2>1, <2>2 DEF Callback
<1>16. CASE CpuStep
  BY <1>1, <1>16 DEF CpuStep, CpuThread, CpuBegin, CpuFirst, CpuSample,
     CpuReturn, CpuPoints
<1> QED
  BY <1>5, <1>6, <1>7, <1>8, <1>9, <1>10, <1>11, <1>12, <1>13, <1>14, <1>15,
     <1>16 DEF Next, Main

LEMMA StepCrew ==
  ASSUME TypeInv, Counted, [Next]_vars
  PROVE  Crew'
<1>1. /\ args' = args /\ options' = options /\ Script' = Script
      /\ Len(Script) \in Nat \ {0} /\ DOMAIN Script = 1 .. Len(Script)
      /\ options.threads \in 0 .. MaxThreads
  BY Settings, SettingsKept, ScriptKept
<1>2. /\ at \in [Threads -> 0 .. Len(Script) + 1] /\ turn \in 1 .. MaxThreads + 1
      /\ main \in MainPoints /\ Threads = 1 .. MaxThreads /\ MaxThreads \in Nat
  BY BoundsAssumption DEF TypeInv, TypeOK, Threads
<1>3. Crew
  BY DEF TypeInv
<1>4. CASE UNCHANGED <<at, main, turn>>
  BY <1>1, <1>3, <1>4 DEF Crew, Done
<1>5. ASSUME NEW t \in Threads, Running(t), Advance(t), turn' = turn,
             main' \in {main, "dead"}, main \notin {"exited", "dead"}
      PROVE  Crew'
  <2>1. /\ at[t] \in 1 .. Len(Script) /\ at'[t] = at[t] + 1
        /\ \A u \in Threads \ {t} : at'[u] = at[u]
    BY <1>1, <1>2, <1>5 DEF Running, Advance
  <2>2. t <= options.threads /\ main \in {"create", "join"}
    BY <1>3, <1>5, <2>1 DEF Crew
  <2>3. ASSUME NEW u \in Threads
        PROVE  /\ at'[u] > 0 <=> at[u] > 0
               /\ at[u] > Len(Script) => at'[u] > Len(Script)
               /\ at[u] > 0 => u <= options.threads
    BY <1>1, <1>2, <1>3, <2>1 DEF Crew
  <2>4. main' \in {"create", "join", "dead"}
    BY <1>5, <2>2
  <2> QED
    BY <1>1, <1>3, <1>5, <2>2, <2>3, <2>4 DEF Crew, Done
<1>6. ASSUME NEW t \in Threads, Doing(t) # "nothing"
      PROVE  Running(t)
  BY <1>6 DEF Doing
<1> USE DEF mainVars, workVars, sumVars
<1>7. CASE MakeBarrier \/ CreateCpu \/ Coordinate \/ FinishRound \/ StopCpu
           \/ JoinCpu
  BY <1>1, <1>3, <1>7
     DEF Crew, Done, MakeBarrier, CreateCpu, Coordinate, FinishRound, StopCpu,
         JoinCpu
<1>8. CASE BeginRound
  BY <1>1, <1>2, <1>3, <1>8 DEF Crew, Done, BeginRound, GoTo
<1>9. CASE CreateThread
  BY <1>1, <1>2, <1>3, <1>9 DEF Crew, Done, CreateThread, Workers
<1>10. CASE AllCreated
  BY <1>1, <1>2, <1>3, <1>10 DEF Crew, Done, AllCreated, Workers
<1>11. CASE JoinThread
  BY <1>1, <1>2, <1>3, <1>11 DEF Crew, Done, JoinThread
<1>12. CASE AllJoined
  BY <1>1, <1>2, <1>3, <1>12 DEF Crew, Done, AllJoined
<1>13. ASSUME NEW t \in Threads, Worker(t), ~Over
       PROVE  Crew'
  <2>1. CASE LeaveBarrier(t)
    <3>1. Running(t)
      BY <1>1, <2>1, InsideRuns
         DEF LeaveBarrier, BarrierReturn, Inside, Running
    <3> QED
      BY <1>5, <1>13, <2>1, <3>1 DEF LeaveBarrier, Over
  <2>2. CASE EnterBarrier(t)
    BY <1>4, <2>2 DEF EnterBarrier
  <2>3. ASSUME ~LeaveBarrier(t), ~EnterBarrier(t)
        PROVE  Doing(t) # "nothing" /\ Advance(t) /\ UNCHANGED mainVars
    BY <1>13, <2>3
       DEF Worker, Ready, StartLoading, Synchronize, WarmupOver, Drained,
           TimeOver
  <2> QED
    BY <1>5, <1>6, <1>13, <2>1, <2>2, <2>3 DEF Over
<1>14. ASSUME NEW c \in AllConns, Callback(c)
       PROVE  Crew'
  BY <1>4, <1>14 DEF Callback, BecomeIdle, Issue, Complete
<1>15. CASE CpuStep
  BY <1>4, <1>15 DEF CpuStep
<1>16. CASE UNCHANGED vars
  BY <1>4, <1>16 DEF vars
<1> QED
  BY <1>7, <1>8, <1>9, <1>10, <1>11, <1>12, <1>13, <1>14, <1>15, <1>16
     DEF Next, Main

LEMMA StepLinks ==
  ASSUME TypeInv, Counted, [Next]_vars
  PROVE  Links'
<1>1. /\ args' = args /\ options' = options /\ Script' = Script
      /\ \A t : Mine(t)' = Mine(t)
  BY SettingsKept, ScriptKept
<1>2. /\ conn \in [AllConns -> ConnStates]
      /\ logged \in [AllConns -> 0 .. MaxOps]
      /\ MaxOps \in Nat \ {0} \/ MaxOps = 0
  BY BoundsAssumption DEF TypeInv, TypeOK
<1>3. /\ Links
      /\ \A t \in Threads : Mine(t) \subseteq AllConns
      /\ \A t \in Threads : \A c \in Mine(t) : c[1] = t
      /\ \A t \in Threads : Lead(t) \subseteq Mine(t)
  BY DEF TypeInv, Mine, Lead
<1>4. CASE UNCHANGED <<conn, logged>>
  BY <1>1, <1>3, <1>4 DEF Links
<1> USE DEF mainVars, workVars, sumVars
<1>5. CASE Main
  <2>1. CASE CreateThread
    <3>1. turn \in Threads
      BY <2>1, Settings, BoundsAssumption
         DEF TypeInv, TypeOK, CreateThread, Workers, Threads
    <3> QED
      BY <1>1, <1>2, <1>3, <2>1, <3>1 DEF Links, CreateThread, SetAll
  <2>2. CASE ~CreateThread
    BY <1>4, <1>5, <2>2
       DEF Main, MakeBarrier, CreateCpu, BeginRound, AllCreated, JoinThread,
           AllJoined, Coordinate, FinishRound, StopCpu, JoinCpu
  <2> QED
    BY <2>1, <2>2
<1>6. ASSUME NEW t \in Threads, Worker(t)
      PROVE  Links'
  <2>1. CASE StartLoading(t)
    BY <1>1, <1>2, <1>3, <2>1 DEF Links, StartLoading, SetAll
  <2>2. CASE Drained(t)
    BY <1>1, <1>2, <1>3, <2>2 DEF Links, Drained, Reset, AllIdle
  <2>3. CASE TimeOver(t)
    BY <1>1, <1>2, <1>3, <2>3 DEF Links, TimeOver, SetAll
  <2> QED
    BY <1>4, <1>6, <2>1, <2>2, <2>3
       DEF Worker, Ready, EnterBarrier, LeaveBarrier, Synchronize, WarmupOver
<1>7. ASSUME NEW c \in AllConns, Callback(c)
      PROVE  Links'
  BY <1>1, <1>2, <1>3, <1>7
     DEF Links, Callback, BecomeIdle, Issue, Complete
<1>8. CASE CpuStep \/ UNCHANGED vars
  BY <1>4, <1>8 DEF CpuStep, vars
<1> QED
  BY <1>5, <1>6, <1>7, <1>8 DEF Next

\* TypeInv is inductive next to what is known about the barrier.
LEMMA StepTypeInv ==
  ASSUME TypeInv, Counted, [Next]_vars
  PROVE  TypeInv'
<1>1. Settled'
  BY SettingsKept DEF TypeInv, Settled
<1> QED
  BY <1>1, StepTypes, StepCrew, StepLinks DEF TypeInv

LEMMA StartTypeInv == Init => TypeInv /\ MeetInv /\ CountInv
<1> SUFFICES ASSUME Init
             PROVE  TypeInv /\ MeetInv /\ CountInv
  OBVIOUS
<1> USE DEF Init, BarrierIdle, CpuIdle
<1>1. Settled /\ Crew /\ Links
  BY DEF Settled, Crew, Links
<1>2. /\ Len(Script) \in Nat \ {0} /\ DOMAIN Script = 1 .. Len(Script)
      /\ options.threads \in 0 .. MaxThreads /\ args.rounds \in Nat \ {0}
      /\ MaxThreads \in Nat /\ MaxOps \in Nat
  BY <1>1, ScriptKnown, BoundsAssumption
<1>3. TypeOK
  <2>1. /\ at \in [Threads -> 0 .. Len(Script) + 1]
        /\ logged \in [AllConns -> 0 .. MaxOps] /\ cs \in [Threads -> Nat]
        /\ turn \in 1 .. MaxThreads + 1 /\ round \in 0 .. args.rounds
    BY <1>2
  <2>2. conn \in [AllConns -> ConnStates] /\ main \in MainPoints
    BY DEF ConnStates, MainPoints
  <2>3. BarrierType(Threads) /\ CpuType
    BY DEF BarrierType, CpuType, CpuPoints
  <2> QED
    BY <2>1, <2>2, <2>3 DEF TypeOK
<1>4. Counted
  BY FS_EmptySet DEF Counted, Inside
<1>5. Level
  BY <1>2 DEF Level, Meetings, Left, Threads
<1>6. CountInv
  <2>1. Unlogged
    BY <1>2 DEF Unlogged, Running
  <2>2. SumFunctionOnSet(Pendings, Members) = 0
    BY SumEmpty DEF Members
  <2> QED
    BY <2>1, <2>2 DEF CountInv
<1> QED
  BY <1>1, <1>3, <1>4, <1>5, <1>6 DEF TypeInv, MeetInv

-----------------------------------------------------------------------------
(* The barrier.                                                            *)

\* How many barriers there are in front of each position.
LEMMA Barriers ==
  ASSUME TypeInv
  PROVE  /\ \A n \in Nat : BarriersBefore(n) \in Nat
         /\ BarriersBefore(0) = 0 /\ BarriersBefore(1) = 0
         /\ \A n \in DOMAIN Script :
              BarriersBefore(n + 1) = IF Script[n] \in BarrierPoints
                                      THEN BarriersBefore(n) + 1
                                      ELSE BarriersBefore(n)
         /\ \A m, n \in Nat : m <= n => BarriersBefore(m) <= BarriersBefore(n)
<1> DEFINE B(n) == {i \in DOMAIN Script : i < n /\ Script[i] \in BarrierPoints}
<1>1. DOMAIN Script = 1 .. Len(Script) /\ Len(Script) \in Nat
  BY Settings
<1>2. ASSUME NEW n \in Nat
      PROVE  IsFiniteSet(B(n)) /\ Cardinality(B(n)) \in Nat
  <2>1. IsFiniteSet(DOMAIN Script)
    BY <1>1, FS_Interval
  <2> QED
    BY <2>1, FS_Subset, FS_CardinalityType
<1>3. \A n : BarriersBefore(n) = Cardinality(B(n))
  BY DEF BarriersBefore
<1>4. B(0) = {} /\ B(1) = {}
  BY <1>1
<1>5. ASSUME NEW n \in DOMAIN Script
      PROVE  /\ B(n + 1) = IF Script[n] \in BarrierPoints THEN B(n) \union {n}
                           ELSE B(n)
             /\ n \notin B(n)
  BY <1>1
<1>6. ASSUME NEW m \in Nat, NEW n \in Nat, m <= n
      PROVE  B(m) \subseteq B(n)
  BY <1>1, <1>6
<1> HIDE DEF B
<1>7. ASSUME NEW n \in DOMAIN Script
      PROVE  Cardinality(B(n + 1)) = IF Script[n] \in BarrierPoints
                                     THEN Cardinality(B(n)) + 1
                                     ELSE Cardinality(B(n))
  <2>1. n \in Nat
    BY <1>1
  <2>2. Cardinality(B(n) \union {n}) = Cardinality(B(n)) + 1
    BY <1>2, <1>5, <2>1, FS_AddElement
  <2> QED
    BY <1>5, <2>2
<1>8. \A m, n \in Nat : m <= n => Cardinality(B(m)) <= Cardinality(B(n))
  BY <1>2, <1>6, FS_Subset
<1> QED
  BY <1>2, <1>3, <1>4, <1>7, <1>8, FS_EmptySet

\* A thread that goes on has not been at a barrier, or was there.
LEMMA Passing ==
  ASSUME TypeInv, NEW t \in Threads, Running(t), Advance(t)
  PROVE  /\ at[t] \in DOMAIN Script /\ at'[t] = at[t] + 1
         /\ \A u \in Threads \ {t} : at'[u] = at[u]
         /\ Doing(t) = Script[at[t]]
         /\ BarriersBefore(at'[t]) = IF Doing(t) \in BarrierPoints
                                     THEN BarriersBefore(at[t]) + 1
                                     ELSE BarriersBefore(at[t])
<1>1. /\ at[t] \in DOMAIN Script /\ at'[t] = at[t] + 1
      /\ \A u \in Threads \ {t} : at'[u] = at[u]
  BY DEF TypeInv, TypeOK, Running, Advance
<1>2. Doing(t) = Script[at[t]]
  BY DEF Doing
<1> QED
  BY <1>1, <1>2, Barriers

\* A thread in do_mcperf has been created, and has not been joined.
LEMMA RunnersKnown ==
  ASSUME TypeInv, NEW t \in Threads, Running(t)
  PROVE  /\ t \in 1 .. options.threads
         /\ main \in {"create", "join", "dead"}
         /\ main = "create" => t < turn
         /\ main = "join" => turn <= t
         /\ at[t] \in 1 .. Len(Script)
<1>1. /\ at[t] \in 1 .. Len(Script) /\ Len(Script) \in Nat
      /\ t \in Nat \ {0} /\ options.threads \in Nat
      /\ turn \in Nat /\ main \in MainPoints
  BY Settings DEF TypeInv, TypeOK, Running, Threads
<1> QED
  BY <1>1 DEF TypeInv, Crew, Done

\* When the last thread is in, all threads are: nobody is still leaving.
LEMMA AllTogether ==
  ASSUME TypeInv, Counted, NEW t \in Threads, Running(t), BarrierOpen(t)
  PROVE  /\ leaving = {}
         /\ leaving' = 1 .. options.threads
<1> DEFINE all == 1 .. options.threads
<1>1. options.threads \in Nat /\ needed = options.threads
  BY RunnersKnown, Settings DEF Counted
<1>2. IsFiniteSet(all) /\ Cardinality(all) = options.threads
  BY <1>1, FS_Interval, SMTT(30)
<1>3. /\ Inside \subseteq all /\ t \in all /\ t \notin Inside
      /\ called = Cardinality(waiting) /\ waiting \intersect leaving = {}
  BY RunnersKnown, InsideRuns DEF Counted, BarrierOpen
<1>4. waiting \subseteq all /\ t \notin waiting
  BY <1>3 DEF Inside
<1>5. /\ IsFiniteSet(waiting \union {t})
      /\ Cardinality(waiting \union {t}) = called + 1
  BY <1>2, <1>3, <1>4, FS_Subset, FS_AddElement
<1>6. waiting \union {t} = all
  BY <1>1, <1>2, <1>3, <1>4, <1>5, FS_Subset DEF BarrierOpen, IsLast
<1>7. leaving = {}
  BY <1>3, <1>6 DEF Inside
<1> QED
  BY <1>6, <1>7 DEF BarrierOpen

LEMMA StepCounted ==
  ASSUME TypeInv, Counted, [Next]_vars
  PROVE  Counted'
<1>1. /\ args' = args /\ options' = options /\ Script' = Script
      /\ options.threads \in 0 .. MaxThreads /\ MaxThreads \in Nat
  BY Settings, SettingsKept, ScriptKept, BoundsAssumption
<1>2. /\ waiting \subseteq Threads /\ leaving \subseteq Threads
      /\ called = Cardinality(waiting) /\ IsFiniteSet(Threads)
      /\ IsFiniteSet(waiting)
  <2>1. IsFiniteSet(Threads)
    BY <1>1, FS_Interval DEF Threads
  <2> QED
    BY <2>1, FS_Subset DEF TypeInv, TypeOK, BarrierType, Counted
<1>3. ASSUME NEW t, at'[t] = at[t]
      PROVE  Doing(t)' = Doing(t)
  BY <1>1, <1>3 DEF Doing, Running
<1>4. ASSUME UNCHANGED <<barrierVars>>, main = "start" => main' = "start",
             \A t \in Inside : at'[t] = at[t]
      PROVE  Counted'
  BY <1>1, <1>3, <1>4 DEF Counted, Inside, barrierVars
<1>5. ASSUME NEW t \in Threads, Running(t), Advance(t), t \notin Inside
      PROVE  \A u \in Inside : at'[u] = at[u]
  BY <1>5, Passing, InsideRuns
<1> USE DEF mainVars, workVars, sumVars
<1>6. CASE MakeBarrier
  <2>1. \A t \in Threads : ~Running(t)
    BY <1>6, RunnersKnown DEF MakeBarrier
  <2>2. \A t \in Inside : FALSE
    BY <2>1, InsideRuns, Settings DEF Running
  <2> QED
    BY <1>1, <1>6, <2>2, FS_EmptySet
       DEF Counted, MakeBarrier, BarrierInit, Inside
<1>7. CASE CreateThread
  <2>1. turn \in Threads /\ at[turn] = 0
    BY <1>1, <1>7
       DEF TypeInv, TypeOK, Crew, CreateThread, Workers, Threads
  <2>2. \A t \in Inside : t # turn
    BY <2>1, InsideRuns
  <2>3. \A t \in Inside : at'[t] = at[t]
    BY <1>7, <2>2, InsideRuns DEF CreateThread, TypeInv, TypeOK
  <2> QED
    BY <1>4, <1>7, <2>3 DEF CreateThread
<1>8. CASE AllJoined
  <2>1. ASSUME NEW t \in Inside
        PROVE  FALSE
    <3>1. /\ t \in Threads /\ t \in 1 .. options.threads
          /\ at[t] \in 1 .. Len(Script) /\ Len(Script) \in Nat
      BY InsideRuns, Settings
    <3>2. turn \in Nat /\ main = "join" /\ turn > options.threads
      BY <1>8 DEF AllJoined, TypeInv, TypeOK
    <3>3. t < turn => Done(t)
      BY <3>1, <3>2 DEF TypeInv, Crew
    <3> QED
      BY <1>1, <3>1, <3>2, <3>3 DEF Done
  <2> QED
    BY <1>4, <1>8, <2>1 DEF AllJoined
<1>9. CASE \/ CreateCpu \/ BeginRound \/ AllCreated \/ JoinThread
           \/ Coordinate \/ FinishRound \/ StopCpu \/ JoinCpu
  BY <1>4, <1>9
     DEF CreateCpu, BeginRound, AllCreated, JoinThread, Coordinate,
         FinishRound, StopCpu, JoinCpu
<1>10. ASSUME NEW t \in Threads, Worker(t)
       PROVE  Counted'
  <2>1. ASSUME Doing(t) # "nothing"
        PROVE  /\ Running(t) /\ t <= options.threads
               /\ main \in {"create", "join", "dead"}
    BY <1>1, <2>1, RunnersKnown DEF Doing
  <2>2. CASE EnterBarrier(t) /\ BarrierWait(t)
    <3>1. /\ Cardinality(waiting') = called + 1
          /\ t \notin Inside
      BY <1>2, <2>2, FS_AddElement DEF BarrierWait, Inside
    <3>2. /\ \A u \in Inside' : u \in Inside \/ u = t
          /\ waiting' \intersect leaving' = {}
      BY <2>2, <3>1 DEF BarrierWait, Inside, Counted
    <3>3. \A u : Doing(u)' = Doing(u)
      BY <1>3, <2>2 DEF EnterBarrier
    <3> QED
      BY <1>1, <2>1, <2>2, <3>1, <3>2, <3>3
         DEF Counted, EnterBarrier, BarrierWait, BarrierPoints
  <2>3. CASE EnterBarrier(t) /\ BarrierOpen(t)
    <3>1. /\ \A u \in Inside' : u \in Inside \/ u = t
          /\ waiting' = {} /\ called' = 0 /\ needed' = needed
      BY <2>3 DEF BarrierOpen, Inside
    <3>2. \A u : Doing(u)' = Doing(u)
      BY <1>3, <2>3 DEF EnterBarrier
    <3> QED
      BY <1>1, <2>1, <2>3, <3>1, <3>2, FS_EmptySet
         DEF Counted, EnterBarrier, BarrierPoints
  <2>4. CASE LeaveBarrier(t)
    <3>1. t \in Inside /\ waiting \intersect leaving = {}
      BY <2>4 DEF LeaveBarrier, BarrierReturn, Inside, Counted
    <3>2. Running(t)
      BY <3>1, Settings, InsideRuns DEF Running
    <3>3. \A u \in Inside' : u \in Inside /\ u # t
      BY <2>4, <3>1 DEF LeaveBarrier, BarrierReturn, Inside
    <3>4. \A u \in Inside' : Doing(u)' = Doing(u)
      BY <1>3, <2>4, <3>2, <3>3, InsideRuns, Passing DEF LeaveBarrier
    <3>5. /\ needed' = needed /\ called' = called /\ waiting' = waiting
          /\ waiting' \intersect leaving' = {}
      BY <2>4, <3>1 DEF LeaveBarrier, BarrierReturn
    <3>6. main' # "start" => needed = options.threads
      BY <3>2, <2>4, RunnersKnown DEF LeaveBarrier, Counted
    <3> QED
      BY <1>1, <3>3, <3>4, <3>5, <3>6 DEF Counted
  <2>5. ASSUME ~EnterBarrier(t), ~LeaveBarrier(t)
        PROVE  Counted'
    <3>1. /\ Doing(t) \notin BarrierPoints \union {"nothing"} /\ Advance(t)
          /\ UNCHANGED <<main, barrierVars>>
      BY <1>10, <2>5
         DEF Worker, Ready, StartLoading, Synchronize, WarmupOver, Drained,
             TimeOver, BarrierPoints
    <3>2. t \notin Inside
      BY <3>1 DEF Counted
    <3> QED
      BY <1>4, <1>5, <2>1, <3>1, <3>2
  <2> QED
    BY <2>2, <2>3, <2>4, <2>5 DEF EnterBarrier
<1>11. ASSUME NEW c \in AllConns, Callback(c)
       PROVE  Counted'
  BY <1>4, <1>11 DEF Callback, BecomeIdle, Issue, Complete
<1>12. CASE CpuStep \/ UNCHANGED vars
  BY <1>4, <1>12 DEF CpuStep, vars
<1> QED
  BY <1>6, <1>7, <1>8, <1>9, <1>10, <1>11, <1>12 DEF Next, Main

LEMMA StepLevel ==
  ASSUME TypeInv, MeetInv, [Next]_vars
  PROVE  Level'
<1> DEFINE N == options.threads
<1>1. /\ args' = args /\ options' = options /\ Script' = Script
      /\ \A n : BarriersBefore(n)' = BarriersBefore(n)
      /\ N \in 0 .. MaxThreads /\ MaxThreads \in Nat
      /\ Threads = 1 .. MaxThreads /\ 1 .. N \subseteq Threads
  BY Settings, SettingsKept, ScriptKept, BoundsAssumption DEF Threads
<1>2. Level /\ Counted
  BY DEF MeetInv
<1>3. at \in [Threads -> 0 .. Len(Script) + 1] /\ Len(Script) \in Nat
  BY Settings DEF TypeInv, TypeOK
<1>4. ASSUME NEW t \in 1 .. N
      PROVE  Left(t) \in Nat
  <2>1. at[t] \in Nat
    BY <1>1, <1>3
  <2> QED
    BY <2>1, Barriers DEF Left
<1>5. ASSUME \A t \in 1 .. N : Meetings(t)' = Meetings(t)
      PROVE  Level'
  BY <1>1, <1>2, <1>5 DEF Level
<1>6. ASSUME NEW t, at'[t] = at[t], t \in leaving' <=> t \in leaving
      PROVE  Meetings(t)' = Meetings(t)
  BY <1>1, <1>6 DEF Meetings, Left
<1>7. ASSUME UNCHANGED <<at, leaving>>
      PROVE  Level'
  BY <1>5, <1>6, <1>7
<1> USE DEF mainVars, workVars, sumVars
<1>8. CASE MakeBarrier
  <2>1. \A t \in 1 .. N : ~Running(t)
    BY <1>1, <1>8, RunnersKnown DEF MakeBarrier
  <2>2. \A t \in leaving : FALSE
    BY <1>1, <1>2, <2>1, InsideRuns, Settings DEF Running, Inside
  <2>3. leaving' = {} /\ at' = at
    BY <1>8 DEF MakeBarrier, BarrierInit
  <2> QED
    BY <1>7, <2>2, <2>3
<1>9. CASE CreateThread
  <2>1. PICK u \in Threads : /\ at[u] = 0 /\ at' = [at EXCEPT ![u] = 1]
                             /\ leaving' = leaving
    <3>1. turn \in Threads /\ ~(turn < turn) /\ main = "create"
      BY <1>1, <1>9 DEF TypeInv, TypeOK, CreateThread, Workers
    <3>2. at[turn] = 0
      <4>1. ~(at[turn] > 0) /\ at[turn] \in Nat
        BY <1>3, <3>1 DEF TypeInv, Crew
      <4> QED
        BY <4>1
    <3>3. at' = [at EXCEPT ![turn] = 1] /\ leaving' = leaving
      BY <1>9 DEF CreateThread, barrierVars
    <3> QED
      BY <3>1, <3>2, <3>3
  <2>2. at'[u] = 1 /\ BarriersBefore(1) = BarriersBefore(0)
    BY <1>3, <2>1, Barriers
  <2>3. Meetings(u)' = Meetings(u)
    BY <1>1, <2>1, <2>2 DEF Meetings, Left
  <2>4. \A t \in 1 .. N : t # u => Meetings(t)' = Meetings(t)
    BY <1>1, <1>3, <1>6, <2>1
  <2> QED
    BY <1>5, <2>3, <2>4
<1>10. CASE AllJoined
  <2>1. ASSUME NEW t \in 1 .. N
        PROVE  t \notin Inside
    <3>1. turn \in Nat /\ main = "join" /\ turn > N
      BY <1>10 DEF AllJoined, TypeInv, TypeOK
    <3>2. Done(t)
      BY <1>1, <3>1 DEF TypeInv, Crew
    <3>3. at[t] \in Nat /\ at[t] > Len(Script)
      BY <1>1, <1>3, <3>2 DEF Done
    <3> QED
      BY <1>2, <1>3, <3>3, InsideRuns
  <2>2. \A t \in 1 .. N : t \notin leaving' /\ at'[t] = 0
    BY <1>1, <1>10, <2>1 DEF AllJoined, barrierVars, Inside
  <2>3. \A t \in 1 .. N : Meetings(t)' = BarriersBefore(0)
    BY <1>1, <2>2, Barriers DEF Meetings, Left
  <2> QED
    BY <1>1, <2>3 DEF Level
<1>11. CASE \/ CreateCpu \/ BeginRound \/ AllCreated \/ JoinThread
            \/ Coordinate \/ FinishRound \/ StopCpu \/ JoinCpu
  BY <1>7, <1>11
     DEF CreateCpu, BeginRound, AllCreated, JoinThread, Coordinate,
         FinishRound, StopCpu, JoinCpu, barrierVars
<1>12. ASSUME NEW t \in Threads, Worker(t)
       PROVE  Level'
  <2>1. CASE EnterBarrier(t) /\ BarrierWait(t)
    BY <1>7, <2>1 DEF EnterBarrier, BarrierWait
  <2>2. CASE EnterBarrier(t) /\ BarrierOpen(t)
    <3>1. Running(t)
      BY <2>2 DEF EnterBarrier, BarrierPoints, Doing
    <3>2. leaving = {} /\ leaving' = 1 .. N /\ at' = at
      BY <1>2, <2>2, <3>1, AllTogether DEF EnterBarrier
    <3>3. \A u \in 1 .. N : Meetings(u)' = Meetings(u) + 1
      BY <1>1, <1>4, <3>2 DEF Meetings, Left
    <3> QED
      BY <1>1, <1>2, <3>3 DEF Level
  <2>3. CASE LeaveBarrier(t)
    <3>1. t \in Inside /\ t \in leaving /\ leaving' = leaving \ {t}
      BY <2>3 DEF LeaveBarrier, BarrierReturn, Inside
    <3>2. Running(t) /\ Doing(t) \in BarrierPoints /\ t \in 1 .. N
      BY <1>2, <3>1, Settings, InsideRuns DEF Running, Doing
    <3>3. Left(t)' = Left(t) + 1 /\ \A u \in Threads \ {t} : at'[u] = at[u]
      BY <1>1, <2>3, <3>2, Passing DEF LeaveBarrier, Left
    <3>4. Meetings(t)' = Meetings(t)
      BY <1>4, <3>1, <3>2, <3>3 DEF Meetings
    <3> QED
      BY <1>1, <1>5, <1>6, <3>1, <3>3, <3>4
  <2>4. ASSUME ~EnterBarrier(t), ~LeaveBarrier(t)
        PROVE  Level'
    <3>1. /\ Doing(t) \notin BarrierPoints \union {"nothing"} /\ Advance(t)
          /\ leaving' = leaving
      BY <1>12, <2>4
         DEF Worker, Ready, StartLoading, Synchronize, WarmupOver, Drained,
             TimeOver, BarrierPoints, barrierVars
    <3>2. Running(t)
      BY <3>1 DEF Doing
    <3>3. Left(t)' = Left(t) /\ \A u \in Threads \ {t} : at'[u] = at[u]
      BY <1>1, <3>1, <3>2, Passing DEF Left
    <3>4. Meetings(t)' = Meetings(t)
      BY <3>1, <3>3 DEF Meetings
    <3> QED
      BY <1>1, <1>5, <1>6, <3>1, <3>3, <3>4
  <2> QED
    BY <2>1, <2>2, <2>3, <2>4 DEF EnterBarrier
<1>13. ASSUME NEW c \in AllConns, Callback(c)
       PROVE  Level'
  BY <1>7, <1>13 DEF Callback, BecomeIdle, Issue, Complete, barrierVars
<1>14. CASE CpuStep \/ UNCHANGED vars
  BY <1>7, <1>14 DEF CpuStep, vars, barrierVars
<1> QED
  BY <1>8, <1>9, <1>10, <1>11, <1>12, <1>13, <1>14 DEF Next, Main

\* TypeInv and MeetInv are inductive together.
LEMMA StepMeet ==
  ASSUME TypeInv, MeetInv, [Next]_vars
  PROVE  TypeInv' /\ MeetInv'
BY StepTypeInv, StepCounted, StepLevel DEF MeetInv

THEOREM MeetInvKept == Spec => [](TypeInv /\ MeetInv)
<1>1. TypeInv /\ MeetInv /\ [Next]_vars => TypeInv' /\ MeetInv'
  BY StepMeet
<1> QED
  BY <1>1, StartTypeInv, PTL DEF Spec

\* Every variable of a process keeps its type: no thread runs off the end of
\* its script, main creates and joins no thread there is not, and no
\* connection logs more than its bound.
THEOREM ProcessTypes == Spec => []TypeOK
<1>1. TypeInv => TypeOK
  BY DEF TypeInv
<1> QED
  BY <1>1, MeetInvKept, PTL

\* No thread is beyond a barrier that another thread has yet to reach,
\* although one barrier serves all meetings of all rounds and a thread may be
\* back before another one has left.
THEOREM NobodyIsAhead == Spec => []NobodyAhead
<1>1. ASSUME TypeInv, MeetInv, NEW t \in 1 .. options.threads,
             NEW u \in 1 .. options.threads
      PROVE  Left(t) <= Entered(u)
  <2>1. ASSUME NEW v \in 1 .. options.threads
        PROVE  Left(v) \in Nat
    <3>1. v \in Threads
      BY <1>1, Settings, BoundsAssumption DEF Threads
    <3>2. at[v] \in Nat
      BY <1>1, <3>1, Settings DEF TypeInv, TypeOK
    <3> QED
      BY <1>1, <3>2, Barriers DEF Left
  <2>2. Meetings(t) = Meetings(u)
    BY <1>1 DEF MeetInv, Level
  <2> QED
    BY <2>1, <2>2 DEF Meetings, Entered, Inside
<1>2. TypeInv /\ MeetInv => NobodyAhead
  BY <1>1 DEF NobodyAhead
<1> QED
  BY <1>2, MeetInvKept, PTL

\* While the master synchronizes with the agents, no other thread has begun
\* what the synchronization is about, and none is in the part before.
THEOREM MasterSyncsAlone == Spec => []SyncAlone
<1>1. ASSUME TypeInv, MeetInv, Doing(Master) = "sync",
             NEW t \in 2 .. options.threads
      PROVE  \/ at[t] \in at[Master] .. at[Master] + 1
             \/ at[t] = at[Master] - 1 /\ t \in leaving
  <2> DEFINE k == at[Master]
             n == at[t]
             B(i) == BarriersBefore(i)
  <2>1. /\ Master \in Threads /\ t \in Threads /\ n \in Nat
        /\ DOMAIN Script = 1 .. Len(Script) /\ Len(Script) \in Nat
        /\ {1, t} \subseteq 1 .. options.threads
    BY <1>1, Settings, BoundsAssumption DEF TypeInv, TypeOK, Threads, Master
  <2>2. k \in DOMAIN Script /\ Script[k] = "sync"
    BY <1>1 DEF Doing, Running
  <2>3. /\ k - 1 \in DOMAIN Script /\ Script[k - 1] = "ready"
        /\ k + 1 \in DOMAIN Script /\ Script[k + 1] = "release"
    BY <1>1, <2>2, Settings DEF Framed
  <2>4. k \in Nat /\ k - 1 \in Nat
    BY <2>1, <2>2, <2>3
  <2> HIDE DEF k, n
  <2>5. \A i, j \in Nat : i <= j => B(i) \in Nat /\ B(i) <= B(j)
    BY <1>1, Barriers
  <2>6. \A i \in DOMAIN Script :
          B(i + 1) = IF Script[i] \in BarrierPoints THEN B(i) + 1 ELSE B(i)
    BY <1>1, Barriers
  <2> HIDE DEF B
  <2>7. B(k) = B(k - 1) + 1 /\ B(k + 1) = B(k) /\ B(k + 2) = B(k) + 1
    <3>1. B(k - 1 + 1) = B(k - 1) + 1 /\ B(k + 1) = B(k)
          /\ B(k + 1 + 1) = B(k + 1) + 1
      BY <2>2, <2>3, <2>6 DEF BarrierPoints
    <3>2. k - 1 + 1 = k /\ k + 1 + 1 = k + 2
      BY <2>4
    <3> QED
      BY <3>1, <3>2
  <2>8. B(k) = B(n) + (IF t \in leaving THEN 1 ELSE 0)
    <3>1. Meetings(Master) = Meetings(t)
      BY <1>1, <2>1 DEF MeetInv, Level, Master
    <3>2. Master \notin leaving
      BY <1>1 DEF MeetInv, Counted, Inside, BarrierPoints
    <3> QED
      BY <2>4, <2>5, <3>1, <3>2 DEF Meetings, Left, B, k, n
  <2>9. CASE t \notin leaving
    <3>1. B(n) = B(k) /\ B(k) \in Nat /\ B(k - 1) \in Nat
      BY <2>1, <2>4, <2>5, <2>8, <2>9, SMTT(30)
    <3>2. /\ n <= k - 1 => B(n) <= B(k - 1)
          /\ k + 2 <= n => B(k + 2) <= B(n)
      BY <2>1, <2>4, <2>5
    <3>3. ~(n <= k - 1) /\ ~(k + 2 <= n)
      BY <2>7, <3>1, <3>2
    <3> QED
      BY <2>1, <2>4, <3>3 DEF k, n
  <2>10. CASE t \in leaving
    <3>1. n \in DOMAIN Script /\ Script[n] \in BarrierPoints
      BY <1>1, <2>1, <2>10, InsideRuns DEF MeetInv, Inside, n
    <3>2. B(n) \in Nat /\ B(k - 1) \in Nat /\ B(k) \in Nat
      <4>1. \A i \in Nat : B(i) \in Nat
        BY <2>5
      <4> QED
        BY <2>1, <2>4, <4>1
    <3>3. B(n + 1) = B(n) + 1
      BY <2>6, <3>1
    <3>4. B(k) = B(n) + 1
      BY <2>8, <2>10
    <3>5. /\ k <= n => B(k) <= B(n)
          /\ n + 1 <= k - 1 => B(n + 1) <= B(k - 1)
      BY <2>1, <2>4, <2>5
    <3>6. ~(k <= n) /\ ~(n + 1 <= k - 1)
      BY <2>7, <3>2, <3>3, <3>4, <3>5
    <3> QED
      BY <2>1, <2>4, <2>10, <3>6 DEF k, n
  <2> QED
    BY <2>9, <2>10
<1>2. TypeInv /\ MeetInv => SyncAlone
  BY <1>1 DEF SyncAlone
<1> QED
  BY <1>2, MeetInvKept, PTL

-----------------------------------------------------------------------------
(* The statistics.                                                         *)

\* The connections of different threads are different.
LEMMA OwnConnections ==
  ASSUME NEW t, NEW u, t # u
  PROVE  Mine(t) \intersect Mine(u) = {}
BY DEF Mine

\* What a thread has logged depends on its own connections alone.
LEMMA LogsSame ==
  ASSUME NEW t, args' = args, options' = options,
         logged \in [AllConns -> 0 .. MaxOps],
         logged' \in [AllConns -> 0 .. MaxOps],
         \A c \in Mine(t) : logged'[c] = logged[c]
  PROVE  Logs(t)' = Logs(t)
<1>1. logged \in [AllConns -> Int] /\ logged' \in [AllConns -> Int]
  BY BoundsAssumption
<1>2. Mine(t)' = Mine(t)
  BY ScriptKept
<1>3. SumFunctionOnSet(logged, Mine(t)) = SumFunctionOnSet(logged', Mine(t))
  BY <1>1, MineFinite, SumSame
<1> QED
  BY <1>2, <1>3 DEF Logs

LEMMA PendingsType ==
  TypeInv => /\ Pendings \in [Threads -> Nat] /\ Pendings \in [Threads -> Int]
             /\ Members \subseteq Threads /\ IsFiniteSet(Members)
             /\ SumFunctionOnSet(Pendings, Members) \in Int
<1> SUFFICES ASSUME TypeInv
             PROVE  /\ Pendings \in [Threads -> Nat]
                    /\ Pendings \in [Threads -> Int]
                    /\ Members \subseteq Threads /\ IsFiniteSet(Members)
                    /\ SumFunctionOnSet(Pendings, Members) \in Int
  OBVIOUS
<1>1. \A t \in Threads : Logs(t) \in Nat /\ cs[t] \in Nat
  BY LogsType DEF TypeInv, TypeOK
<1>2. Pendings \in [Threads -> Nat] /\ Pendings \in [Threads -> Int]
  BY <1>1 DEF Pendings, Pending
<1>3. /\ options.threads \in 0 .. MaxThreads /\ MaxThreads \in Nat
      /\ turn \in 1 .. MaxThreads + 1
  BY Settings, BoundsAssumption DEF TypeInv, TypeOK
<1>4. Members \subseteq Threads
  BY <1>3 DEF Members, Threads, TypeInv, Crew
<1>5. IsFiniteSet(Threads)
  BY <1>3, FS_Interval DEF Threads
<1>6. IsFiniteSet(Members)
  BY <1>4, <1>5, FS_Subset
<1> QED
  BY <1>2, <1>4, <1>6, SumType

LEMMA PendingsTypeNext ==
  TypeInv' =>
    (Pendings \in [Threads -> Nat] /\ Pendings \in [Threads -> Int])'
<1>1. TypeInv => Pendings \in [Threads -> Nat] /\ Pendings \in [Threads -> Int]
  BY PendingsType
<1> QED
  BY <1>1, PTL

\* A step that leaves alone what every member will return.
LEMMA NothingCounted ==
  ASSUME TypeInv, TypeInv', Members' = Members,
         \A t \in Members : Pending(t)' = Pending(t)
  PROVE  SumFunctionOnSet(Pendings, Members)'
           = SumFunctionOnSet(Pendings, Members)
<1>1. /\ Pendings \in [Threads -> Int] /\ Pendings' \in [Threads -> Int]
      /\ Members \subseteq Threads /\ IsFiniteSet(Members)
  BY PendingsType, PendingsTypeNext
<1>2. \A t \in Members : Pendings'[t] = Pendings[t]
  BY <1>1 DEF Pendings
<1>3. SumFunctionOnSet(Pendings, Members) = SumFunctionOnSet(Pendings', Members)
  BY <1>1, <1>2, SumSame
<1> QED
  BY <1>3

\* A step that leaves alone what all members but one will return.
LEMMA OneCounted ==
  ASSUME TypeInv, TypeInv', Members' = Members, NEW t \in Members,
         \A u \in Members \ {t} : Pending(u)' = Pending(u)
  PROVE  SumFunctionOnSet(Pendings, Members)'
           = SumFunctionOnSet(Pendings, Members) + Pending(t)' - Pending(t)
<1>1. /\ Pendings \in [Threads -> Int] /\ Pendings' \in [Threads -> Int]
      /\ Members \subseteq Threads /\ IsFiniteSet(Members)
  BY PendingsType, PendingsTypeNext
<1>2. /\ \A u \in Members \ {t} : Pendings'[u] = Pendings[u]
      /\ Pendings[t] = Pending(t) /\ Pendings'[t] = Pending(t)'
  BY <1>1 DEF Pendings
<1>3. SumFunctionOnSet(Pendings', Members)
        = SumFunctionOnSet(Pendings, Members) + Pendings'[t] - Pendings[t]
  BY <1>1, <1>2, SumChange
<1> QED
  BY <1>2, <1>3

LEMMA RunnersAreMembers ==
  ASSUME TypeInv, NEW t \in Threads, Running(t), main # "dead"
  PROVE  t \in Members
<1>1. t \in Nat \ {0} /\ turn \in Nat /\ options.threads \in Nat
  BY Settings DEF TypeInv, TypeOK, Threads
<1> QED
  BY <1>1, RunnersKnown DEF Members

\* A thread goes on, but not from the measurement: what it has logged was
\* nothing, or was reset, or is about to be.
LEMMA GoingOn ==
  ASSUME TypeInv, TypeInv', Unlogged, args' = args, options' = options,
         NEW t \in Threads, Running(t), Advance(t), Doing(t) # "measure",
         cs' = cs,
         \A c \in AllConns \ Mine(t) : logged'[c] = logged[c],
         \A c \in Mine(t) :
           logged'[c] = IF Doing(t) = "drain" THEN 0 ELSE logged[c]
  PROVE  /\ Unlogged'
         /\ \A u \in Threads : Pending(u)' = Pending(u)
<1>1. /\ Script' = Script /\ DOMAIN Script = 1 .. Len(Script)
      /\ Len(Script) \in Nat /\ Framed(Script)
      /\ \A u : Mine(u)' = Mine(u) /\ Mine(u) \subseteq AllConns
  BY ScriptKept, Settings, MineFinite
<1>2. /\ logged \in [AllConns -> 0 .. MaxOps] /\ MaxOps \in Nat
      /\ logged' \in [AllConns -> 0 .. MaxOps]
  BY BoundsAssumption DEF TypeInv, TypeOK
<1>3. ASSUME NEW u \in Threads, u # t
      PROVE  /\ Running(u)' = Running(u) /\ Doing(u)' = Doing(u)
             /\ \A c \in Mine(u) : logged'[c] = logged[c]
  <2>1. at'[u] = at[u]
    BY <1>3, Passing
  <2>2. \A c \in Mine(u) : c \in AllConns \ Mine(t)
    BY <1>1, <1>3, OwnConnections
  <2> QED
    BY <1>1, <2>1, <2>2 DEF Running, Doing
<1>4. \/ Doing(t)' = "drain"
      \/ \A c \in Mine(t) : logged'[c] = 0
  <2>1. at[t] \in DOMAIN Script /\ at'[t] = at[t] + 1 /\ Doing(t) = Script[at[t]]
    BY Passing
  <2>2. CASE Doing(t) = "warm"
    <3>1. at[t] + 1 \in DOMAIN Script /\ Script[at[t] + 1] = "drain"
      BY <1>1, <2>1, <2>2 DEF Framed
    <3> QED
      BY <1>1, <2>1, <3>1 DEF Doing, Running
  <2>3. CASE Doing(t) # "warm"
    BY <2>3 DEF Unlogged
  <2> QED
    BY <2>2, <2>3
<1>5. Unlogged'
  BY <1>1, <1>3, <1>4 DEF Unlogged
<1>6. Pending(t)' = Pending(t)
  <2>1. Pending(t) = cs[t]
    BY DEF Pending, TypeInv, TypeOK
  <2>2. CASE Doing(t)' = "drain"
    BY <2>1, <2>2 DEF Pending, TypeInv, TypeOK
  <2>3. CASE \A c \in Mine(t) : logged'[c] = 0
    <3>1. logged' \in [AllConns -> Nat]
      BY <1>2
    <3>2. Logs(t)' = 0
      BY <1>1, <2>3, <3>1, MineFinite, SumNat DEF Logs
    <3> QED
      BY <2>1, <3>2 DEF Pending, TypeInv, TypeOK
  <2> QED
    BY <1>4, <2>2, <2>3
<1>7. ASSUME NEW u \in Threads, u # t
      PROVE  Pending(u)' = Pending(u)
  BY <1>2, <1>3, <1>7, LogsSame DEF Pending
<1> QED
  BY <1>5, <1>6, <1>7

\* A step that counts nothing, of main or in the middle of a part.
LEMMA Idling ==
  ASSUME TypeInv, TypeInv', CountInv, args' = args, options' = options,
         UNCHANGED <<logged, cs, stats, measured>>,
         \A t \in Threads : Running(t)' => at'[t] = at[t],
         \A t \in Members : Doing(t)' = Doing(t),
         main' # "dead" => main # "dead" /\ Members' = Members
  PROVE  CountInv'
<1>1. Script' = Script /\ \A t : Mine(t)' = Mine(t)
  BY ScriptKept
<1>2. \A t \in Threads : Running(t)' => Running(t) /\ Doing(t)' = Doing(t)
  BY <1>1 DEF Running, Doing
<1>3. Unlogged'
  BY <1>1, <1>2 DEF Unlogged, CountInv
<1>4. ASSUME NEW t \in Members
      PROVE  Pending(t)' = Pending(t)
  <2>1. Logs(t)' = Logs(t)
    BY <1>1 DEF Logs
  <2> QED
    BY <2>1 DEF Pending
<1>5. CASE main' # "dead"
  <2>1. SumFunctionOnSet(Pendings, Members)' = SumFunctionOnSet(Pendings, Members)
    BY <1>4, <1>5, NothingCounted
  <2> QED
    BY <1>3, <1>5, <2>1 DEF CountInv
<1> QED
  BY <1>3, <1>5 DEF CountInv

LEMMA StepCountMain ==
  ASSUME TypeInv, TypeInv', CountInv, args' = args, options' = options,
         Main, ~Over
  PROVE  CountInv'
<1>1. /\ Script' = Script /\ \A t : Mine(t)' = Mine(t) /\ Mine(t) \subseteq AllConns
      /\ options.threads \in 0 .. MaxThreads /\ MaxThreads \in Nat
      /\ Threads = 1 .. MaxThreads /\ turn \in 1 .. MaxThreads + 1
      /\ at \in [Threads -> 0 .. Len(Script) + 1] /\ Len(Script) \in Nat \ {0}
      /\ DOMAIN Script = 1 .. Len(Script) /\ Script[1] = "connect"
      /\ stats \in Nat /\ cs \in [Threads -> Nat]
  BY ScriptKept, Settings, MineFinite, BoundsAssumption
     DEF TypeInv, TypeOK, Threads
<1>2. main # "dead" /\ Unlogged
      /\ stats + SumFunctionOnSet(Pendings, Members) = measured
  BY DEF Over, CountInv
<1>3. /\ Pendings \in [Threads -> Int] /\ Members \subseteq Threads
      /\ IsFiniteSet(Members) /\ SumFunctionOnSet(Pendings, Members) \in Int
      /\ Pendings' \in [Threads -> Int]
  BY PendingsType, PendingsTypeNext
<1> USE DEF mainVars, workVars, sumVars
<1>4. ASSUME at' = at
      PROVE  \A t : Running(t)' = Running(t) /\ Doing(t)' = Doing(t)
  BY <1>1, <1>4 DEF Running, Doing
<1>5. CASE \/ MakeBarrier \/ CreateCpu \/ Coordinate \/ FinishRound \/ StopCpu
           \/ JoinCpu
  <2>1. main' # "dead" => Members' = Members
    BY <1>5
       DEF Members, MakeBarrier, CreateCpu, Coordinate, FinishRound, StopCpu,
           JoinCpu
  <2>2. UNCHANGED <<at, logged, cs, stats, measured>>
    BY <1>5
       DEF MakeBarrier, CreateCpu, Coordinate, FinishRound, StopCpu, JoinCpu
  <2> QED
    BY <1>2, <1>4, <2>1, <2>2, Idling
<1>6. CASE BeginRound
  <2>1. Members' = {} /\ stats' = 0 /\ measured' = 0 /\ UNCHANGED <<at, logged>>
    BY <1>6 DEF BeginRound, Members, GoTo
  <2>2. Unlogged'
    BY <1>1, <1>2, <1>4, <2>1 DEF Unlogged
  <2> QED
    BY <2>1, <2>2, SumEmpty DEF CountInv
<1>7. CASE AllCreated
  <2>1. turn = options.threads + 1
    BY <1>1, <1>7 DEF AllCreated, Workers, TypeInv, Crew
  <2>2. Members' = Members
    BY <1>1, <1>7, <2>1 DEF AllCreated, Members
  <2> QED
    BY <1>2, <1>4, <1>7, <2>2, Idling DEF AllCreated
<1>8. CASE AllJoined
  <2>1. Members = {} /\ Members' = {}
    BY <1>1, <1>8 DEF AllJoined, Members
  <2>2. \A t \in Threads : ~Running(t)'
    BY <1>1, <1>8 DEF AllJoined, Running
  <2> QED
    BY <1>2, <1>8, <2>1, <2>2, Idling DEF AllJoined
<1>9. CASE JoinThread
  <2>1. PICK t \in Threads :
          /\ t = turn /\ Done(t) /\ stats' = stats + cs[t]
          /\ t <= options.threads /\ turn' = t + 1 /\ main = "join"
    BY <1>1, <1>9 DEF JoinThread
  <2>2. t \in Members /\ Members' = Members \ {t} /\ main' = main
    BY <1>1, <1>9, <2>1, SMTT(30) DEF JoinThread, Members
  <2>3. Pendings[t] = cs[t] /\ cs[t] \in Nat
    <3>1. Doing(t) = "nothing"
      BY <1>1, <2>1 DEF Done, Doing, Running
    <3> QED
      BY <1>1, <3>1 DEF Pendings, Pending
  <2>4. /\ SumFunctionOnSet(Pendings, Members)
             = Pendings[t] + SumFunctionOnSet(Pendings, Members \ {t})
        /\ SumFunctionOnSet(Pendings, Members \ {t}) \in Int
    BY <1>3, <2>2, SumRemove, SumType, FS_Subset
  <2>5. Pendings' = Pendings
    <3>1. \A u : Logs(u)' = Logs(u)
      BY <1>1, <1>9 DEF Logs, JoinThread
    <3>2. \A u : Pending(u)' = Pending(u)
      BY <1>4, <1>9, <3>1 DEF Pending, JoinThread
    <3> QED
      BY <3>2 DEF Pendings
  <2>6. stats' + SumFunctionOnSet(Pendings, Members)' = measured'
    BY <1>1, <1>2, <1>9, <2>1, <2>2, <2>3, <2>4, <2>5 DEF JoinThread
  <2>7. Unlogged'
    BY <1>1, <1>2, <1>4, <1>9 DEF Unlogged, JoinThread
  <2> QED
    BY <2>6, <2>7 DEF CountInv
<1>10. CASE CreateThread
  <2>1. PICK t \in Threads :
          /\ t = turn /\ at' = [at EXCEPT ![t] = 1] /\ turn' = t + 1
          /\ logged' = [c \in AllConns |-> IF c \in Mine(t) THEN 0 ELSE logged[c]]
          /\ cs' = [cs EXCEPT ![t] = 0] /\ t <= options.threads
    <3>1. turn \in Threads /\ turn <= options.threads
      BY <1>1, <1>10 DEF CreateThread, Workers
    <3> QED
      BY <1>10, <3>1 DEF CreateThread
  <2>2. /\ Members' = Members \union {t} /\ t \notin Members
        /\ stats' = stats /\ measured' = measured /\ main' = main
    BY <1>1, <1>10, <2>1 DEF CreateThread, Members
  <2>3. ASSUME NEW u \in Threads, u # t
        PROVE  /\ Running(u)' = Running(u) /\ Doing(u)' = Doing(u)
               /\ \A c \in Mine(u) : logged'[c] = logged[c]
               /\ Pending(u)' = Pending(u)
    <3>1. Running(u)' = Running(u) /\ Doing(u)' = Doing(u)
      BY <1>1, <2>1, <2>3 DEF Running, Doing
    <3>2. \A c \in Mine(u) : logged'[c] = logged[c]
      BY <1>1, <2>1, <2>3, OwnConnections
    <3>3. Logs(u)' = Logs(u)
      BY <3>2, LogsSame DEF TypeInv, TypeOK
    <3> QED
      BY <1>1, <2>1, <2>3, <3>1, <3>2, <3>3 DEF Pending
  <2>4. Doing(t)' = "connect" /\ Pending(t)' = 0
    BY <1>1, <2>1 DEF Doing, Running, Pending
  <2>5. /\ \A u \in Members : Pendings'[u] = Pendings[u]
        /\ Pendings'[t] = 0
    BY <1>3, <2>2, <2>3, <2>4 DEF Pendings
  <2>6. SumFunctionOnSet(Pendings, Members) = SumFunctionOnSet(Pendings', Members)
    BY <1>3, <2>5, SumSame
  <2>7. SumFunctionOnSet(Pendings', Members \union {t})
          = SumFunctionOnSet(Pendings', Members) + Pendings'[t]
    BY <1>3, <2>2, SumAdd
  <2>8. stats' + SumFunctionOnSet(Pendings, Members)' = measured'
    BY <1>2, <1>3, <2>2, <2>5, <2>6, <2>7
  <2>9. Unlogged'
    BY <1>1, <1>2, <2>1, <2>3 DEF Unlogged
  <2> QED
    BY <2>8, <2>9 DEF CountInv
<1> QED
  BY <1>5, <1>6, <1>7, <1>8, <1>9, <1>10 DEF Main

\* At the end of the measurement the operations move on to the statistics.
LEMMA StepCountOver ==
  ASSUME TypeInv, TypeInv', CountInv, args' = args, options' = options,
         NEW t \in Threads, TimeOver(t), ~Over
  PROVE  CountInv'
<1> USE DEF mainVars, sumVars
<1>1. /\ Script' = Script /\ \A u : Mine(u)' = Mine(u) /\ Mine(u) \subseteq AllConns
      /\ options.threads \in Nat /\ Threads = 1 .. MaxThreads
      /\ Len(Script) \in Nat \ {0} /\ DOMAIN Script = 1 .. Len(Script)
      /\ stats \in Nat /\ cs \in [Threads -> Nat]
  BY ScriptKept, Settings, MineFinite DEF TypeInv, TypeOK, Threads
<1>2. main # "dead" /\ Unlogged
      /\ stats + SumFunctionOnSet(Pendings, Members) = measured
  BY DEF Over, CountInv
<1>3. Running(t) /\ Doing(t) = "measure"
  BY DEF TimeOver, Doing
<1>4. t \in Members /\ t \in 1 .. options.threads
  BY <1>2, <1>3, RunnersAreMembers, RunnersKnown
<1>5. /\ main' = main /\ turn' = turn /\ Members' = Members
      /\ logged' = logged /\ measured' = measured
  BY DEF TimeOver, Members
<1>6. ~Running(t)' /\ Doing(t)' = "nothing"
  <2>1. at[t] = Len(Script) /\ at'[t] = at[t] + 1
    BY <1>3, Passing, Settings DEF TimeOver
  <2> QED
    BY <1>1, <2>1 DEF Doing, Running
<1>7. ASSUME NEW u \in Threads, u # t
      PROVE  Running(u)' = Running(u) /\ Doing(u)' = Doing(u)
  BY <1>1, <1>3, <1>7, Passing DEF TimeOver, Running, Doing
<1>8. Unlogged'
  BY <1>1, <1>2, <1>5, <1>6, <1>7 DEF Unlogged
<1>9. Logs(t) \in Nat /\ \A u : Logs(u)' = Logs(u)
  BY <1>1, <1>5, LogsType DEF Logs, TypeInv, TypeOK
<1>10. \A u \in Members \ {t} : Pending(u)' = Pending(u)
  <2>1. \A u \in Threads \ {t} : cs'[u] = cs[u]
    BY <1>1 DEF TimeOver
  <2>2. Members \subseteq Threads
    BY PendingsType
  <2> QED
    BY <1>7, <1>9, <2>1, <2>2 DEF Pending
<1>11. SumFunctionOnSet(Pendings, Members)'
         = SumFunctionOnSet(Pendings, Members) + Pending(t)' - Pending(t)
  BY <1>4, <1>5, <1>10, OneCounted
<1>12. Pending(t) = cs[t] + Logs(t) /\ Pending(t)' = cs'[t]
  <2>1. cs'[t] \in Nat
    BY DEF TypeInv, TypeOK
  <2> QED
    BY <1>3, <1>6, <2>1 DEF Pending
<1>13. stats' + cs'[t] = stats + cs[t] + Logs(t)
  <2>1. cs[t] \in Nat
    BY <1>1
  <2>2. CASE options.threads = 1
    BY <1>1, <1>9, <2>1, <2>2 DEF TimeOver
  <2>3. CASE options.threads # 1
    <3>1. cs'[t] = cs[t] + Logs(t) /\ stats' = stats
      BY <1>1, <2>3 DEF TimeOver
    <3> QED
      BY <1>1, <1>9, <2>1, <3>1
  <2> QED
    BY <2>2, <2>3
<1>14. /\ SumFunctionOnSet(Pendings, Members) \in Int
       /\ cs[t] \in Nat /\ cs'[t] \in Nat /\ stats' \in Nat
  BY PendingsType DEF TypeInv, TypeOK
<1>15. stats' + SumFunctionOnSet(Pendings, Members)' = measured'
  <2>1. SumFunctionOnSet(Pendings, Members)'
          = SumFunctionOnSet(Pendings, Members) + cs'[t] - (cs[t] + Logs(t))
    BY <1>11, <1>12
  <2>2. /\ Logs(t) \in Nat /\ stats \in Nat
        /\ stats + SumFunctionOnSet(Pendings, Members) = measured'
    BY <1>1, <1>2, <1>5, <1>9
  <2> QED
    BY <1>13, <1>14, <2>1, <2>2
<1> QED
  BY <1>8, <1>15 DEF CountInv

LEMMA StepCountWorker ==
  ASSUME TypeInv, TypeInv', MeetInv, CountInv, args' = args,
         options' = options, NEW t \in Threads, Worker(t), ~Over
  PROVE  CountInv'
<1> USE DEF mainVars, workVars, sumVars
<1>1. /\ main # "dead" /\ Unlogged
      /\ Mine(t) \subseteq AllConns
  BY MineFinite DEF Over, CountInv
<1>2. CASE EnterBarrier(t)
  <2>1. UNCHANGED <<at, main, turn, logged, cs, stats, measured>>
    BY <1>2 DEF EnterBarrier
  <2>2. Members' = Members /\ \A u : Doing(u)' = Doing(u)
    BY <2>1, ScriptKept DEF Members, Doing, Running
  <2> QED
    BY <1>1, <2>1, <2>2, Idling
<1>3. CASE TimeOver(t)
  BY <1>3, StepCountOver
<1>4. ASSUME ~EnterBarrier(t), ~TimeOver(t)
      PROVE  /\ Running(t) /\ Advance(t) /\ Doing(t) # "measure"
             /\ UNCHANGED <<turn, cs, stats, measured>> /\ main' \in {main, "dead"}
             /\ \A c \in AllConns \ Mine(t) : logged'[c] = logged[c]
             /\ \A c \in Mine(t) :
                  logged'[c] = IF Doing(t) = "drain" THEN 0 ELSE logged[c]
  <2>1. CASE LeaveBarrier(t)
    <3>1. t \in Inside
      BY <2>1 DEF LeaveBarrier, BarrierReturn, Inside
    <3>2. Doing(t) \in BarrierPoints /\ Running(t)
      BY <3>1, InsideRuns, Settings DEF MeetInv, Counted, Running
    <3> QED
      BY <2>1, <3>2 DEF LeaveBarrier, BarrierPoints
  <2>2. CASE Drained(t)
    BY <1>1, <2>2 DEF Drained, Reset, Doing
  <2>3. CASE ~LeaveBarrier(t) /\ ~Drained(t)
    BY <1>4, <2>3
       DEF Worker, Ready, StartLoading, Synchronize, WarmupOver, Doing
  <2> QED
    BY <2>1, <2>2, <2>3
<1>5. CASE ~EnterBarrier(t) /\ ~TimeOver(t)
  <2>1. Unlogged' /\ \A u \in Threads : Pending(u)' = Pending(u)
    BY <1>1, <1>4, <1>5, GoingOn
  <2>2. main' # "dead" => Members' = Members
    BY <1>4, <1>5 DEF Members
  <2>3. Members \subseteq Threads
    BY PendingsType
  <2>4. main' # "dead" => SumFunctionOnSet(Pendings, Members)'
                            = SumFunctionOnSet(Pendings, Members)
    BY <2>1, <2>2, <2>3, NothingCounted
  <2> QED
    BY <1>1, <1>4, <1>5, <2>1, <2>4 DEF CountInv
<1> QED
  BY <1>2, <1>3, <1>5

LEMMA StepCountCallback ==
  ASSUME TypeInv, TypeInv', CountInv, args' = args, options' = options,
         NEW c \in AllConns, Callback(c), ~Over
  PROVE  CountInv'
<1> USE DEF mainVars, workVars, sumVars
<1>1. /\ main # "dead" /\ Unlogged
      /\ stats + SumFunctionOnSet(Pendings, Members) = measured
  BY DEF Over, CountInv
<1>2. /\ UNCHANGED <<at, main, turn, cs, stats>>
      /\ Members' = Members
      /\ \A t : /\ Running(t)' = Running(t) /\ Doing(t)' = Doing(t)
                /\ Mine(t)' = Mine(t)
  <2>1. UNCHANGED <<at, main, turn, cs, stats>>
    BY DEF Callback, BecomeIdle, Issue, Complete
  <2> QED
    BY <2>1, ScriptKept DEF Members, Running, Doing
<1>3. CASE BecomeIdle(c) \/ Issue(c)
  BY <1>1, <1>2, <1>3, Idling DEF BecomeIdle, Issue
<1>4. CASE Complete(c)
  <2> DEFINE t == c[1]
  <2>1. /\ t \in Threads /\ c \in Mine(t) /\ Running(t)
        /\ Doing(t) \in {"warm", "drain", "measure"}
    BY <1>4 DEF Complete, TypeInv, Links, EventLoop, Doing, AllConns
  <2>2. /\ logged \in [AllConns -> 0 .. MaxOps] /\ logged[c] \in Nat
        /\ logged' \in [AllConns -> 0 .. MaxOps] /\ logged'[c] = logged[c] + 1
        /\ \A d \in AllConns \ {c} : logged'[d] = logged[d]
        /\ stats \in Nat /\ measured \in Int
    <3>1. SumFunctionOnSet(Pendings, Members) \in Int /\ stats \in Nat
      BY PendingsType DEF TypeInv, TypeOK
    <3> QED
      BY <1>1, <1>4, <3>1, BoundsAssumption DEF Complete, TypeInv, TypeOK
  <2> HIDE DEF t
  <2>3. ASSUME NEW u \in Threads, u # t
        PROVE  /\ \A d \in Mine(u) : logged'[d] = logged[d]
               /\ Pending(u)' = Pending(u)
    <3>1. \A d \in Mine(u) : d \in AllConns /\ d # c
      BY <2>1, <2>3, MineFinite, OwnConnections
    <3>2. Logs(u)' = Logs(u)
      BY <2>2, <3>1, LogsSame
    <3> QED
      BY <1>2, <2>2, <3>1, <3>2 DEF Pending
  <2>4. Unlogged'
    BY <1>1, <1>2, <2>1, <2>3 DEF Unlogged
  <2>5. Logs(t)' = Logs(t) + 1
    <3>1. logged \in [AllConns -> Int] /\ logged' \in [AllConns -> Int]
      BY <2>2, BoundsAssumption
    <3>2. SumFunctionOnSet(logged', Mine(t))
            = SumFunctionOnSet(logged, Mine(t)) + logged'[c] - logged[c]
      BY <2>1, <2>2, <3>1, MineFinite, SumChange
    <3>3. SumFunctionOnSet(logged, Mine(t)) \in Int
      BY <3>1, MineFinite, SumType
    <3> QED
      BY <1>2, <2>2, <3>2, <3>3 DEF Logs
  <2>6. t \in Members /\ Members \subseteq Threads
    BY <1>1, <2>1, RunnersAreMembers, PendingsType
  <2>7. SumFunctionOnSet(Pendings, Members)'
          = SumFunctionOnSet(Pendings, Members) + Pending(t)' - Pending(t)
    BY <1>2, <2>3, <2>6, OneCounted
  <2>8. /\ Logs(t) \in Nat /\ cs[t] \in Nat
        /\ SumFunctionOnSet(Pendings, Members) \in Int
    BY <2>1, LogsType, PendingsType DEF TypeInv, TypeOK
  <2>9. Pending(t)' - Pending(t) = measured' - measured
    <3>1. CASE Doing(t) = "measure"
      BY <1>2, <1>4, <2>2, <2>5, <2>8, <3>1 DEF Complete, EventLoop, Pending, t
    <3>2. CASE Doing(t) # "measure"
      BY <1>2, <1>4, <2>2, <2>8, <3>2 DEF Complete, EventLoop, Pending, t
    <3> QED
      BY <3>1, <3>2
  <2>10. measured' \in Int /\ Pending(t) \in Int /\ Pending(t)' \in Int
    BY <1>2, <1>4, <2>2, <2>5, <2>8 DEF Complete, Pending
  <2>11. stats' + SumFunctionOnSet(Pendings, Members)' = measured'
    BY <1>1, <1>2, <2>2, <2>7, <2>8, <2>9, <2>10
  <2> QED
    BY <2>4, <2>11 DEF CountInv
<1> QED
  BY <1>3, <1>4 DEF Callback

LEMMA StepCount ==
  ASSUME TypeInv, MeetInv, CountInv, [Next]_vars
  PROVE  CountInv'
<1>1. args' = args /\ options' = options /\ TypeInv'
  BY SettingsKept, StepMeet
<1>2. CASE CpuStep \/ UNCHANGED vars
  <2>1. UNCHANGED <<at, main, turn, logged, cs, stats, measured>>
    BY <1>2 DEF CpuStep, vars, mainVars, workVars, sumVars
  <2>2. Members' = Members /\ \A t : Doing(t)' = Doing(t)
    BY <1>1, <2>1, ScriptKept DEF Members, Doing, Running
  <2> QED
    BY <1>1, <2>1, <2>2, Idling
<1> QED
  BY <1>1, <1>2, StepCountMain, StepCountWorker, StepCountCallback DEF Next

\* When a round is over, main has counted each operation of the measurement
\* once and none of the warmup, however the threads were interleaved.
THEOREM RoundIsCounted == Spec => []RoundCounted
<1> DEFINE Inv == TypeInv /\ MeetInv /\ CountInv
<1>1. Init => Inv
  BY StartTypeInv
<1>2. Inv /\ [Next]_vars => Inv'
  BY StepMeet, StepCount
<1>3. Inv => RoundCounted
  <2> SUFFICES ASSUME Inv, main \in {"finish", "stop"}
               PROVE  stats = measured
    BY DEF RoundCounted
  <2>1. Members = {} /\ stats \in Nat
    BY DEF Members, TypeInv, TypeOK
  <2> QED
    BY <2>1, SumEmpty DEF CountInv
<1> QED
  BY <1>1, <1>2, <1>3, PTL DEF Spec
-----------------------------------------------------------------------------
(* Going on.                                                               *)

LEMMA StartLive == Init => LiveInv
<1> SUFFICES ASSUME Init
             PROVE  LiveInv
  OBVIOUS
<1>1. TypeInv
  BY StartTypeInv
<1>2. args.rounds \in Nat \ {0} /\ DOMAIN Script = 1 .. Len(Script)
  BY <1>1, Settings
<1>3. Served
  BY <1>2 DEF Init, Served, Running
<1> QED
  BY <1>2, <1>3 DEF Init, LiveInv, StillCounting, OnTime, CpuIdle

LEMMA StepStillCounting ==
  ASSUME TypeInv, Counted, StillCounting, [Next]_vars
  PROVE  StillCounting'
<1>1. /\ called \in Nat /\ needed \in Nat /\ options.threads \in Nat
      /\ waiting \subseteq Threads
  BY Settings DEF TypeInv, TypeOK, BarrierType
<1>2. ASSUME UNCHANGED barrierVars, main = "start" => main' = "start"
      PROVE  StillCounting'
  BY <1>2 DEF StillCounting, barrierVars
<1> USE DEF mainVars
<1>3. CASE MakeBarrier
  BY <1>1, <1>3 DEF MakeBarrier, BarrierInit, StillCounting
<1>4. CASE Main /\ ~MakeBarrier
  BY <1>2, <1>4
     DEF Main, CreateCpu, BeginRound, CreateThread, AllCreated, JoinThread,
         AllJoined, Coordinate, FinishRound, StopCpu, JoinCpu
<1>5. ASSUME NEW t \in Threads, Worker(t)
      PROVE  StillCounting'
  <2>1. CASE EnterBarrier(t) /\ BarrierWait(t)
    <3>1. Running(t) /\ t \notin Inside /\ t \notin waiting
      BY <2>1 DEF EnterBarrier, BarrierWait, Doing, BarrierPoints, Inside
    <3>2. t \in 1 .. options.threads /\ main # "start"
      BY <3>1, RunnersKnown
    <3>3. needed = options.threads /\ called = Cardinality(waiting)
      BY <3>2 DEF Counted
    <3>4. waiting \union {t} \subseteq 1 .. options.threads
      BY <3>2, InsideRuns DEF Inside
    <3>5. called + 1 <= needed
      <4>1. /\ IsFiniteSet(1 .. options.threads)
            /\ Cardinality(1 .. options.threads) = options.threads
        BY <1>1, FS_Interval, SMTT(30)
      <4>2. IsFiniteSet(waiting)
        BY <3>4, <4>1, FS_Subset
      <4>3. Cardinality(waiting \union {t}) = called + 1
        BY <3>1, <3>3, <4>2, FS_AddElement
      <4>4. Cardinality(waiting \union {t}) <= options.threads
        BY <3>4, <4>1, FS_Subset
      <4> QED
        BY <3>3, <4>3, <4>4
    <3>6. called' = called + 1 /\ called + 1 # needed /\ needed' = needed
      BY <2>1 DEF BarrierWait, IsLast
    <3> QED
      BY <1>1, <3>5, <3>6 DEF StillCounting
  <2>2. CASE EnterBarrier(t) /\ BarrierOpen(t)
    BY <1>1, <2>2 DEF BarrierOpen, StillCounting
  <2>3. CASE LeaveBarrier(t)
    <3>1. main # "start"
      <4>1. Running(t)
        BY <2>3, InsideRuns, Settings
           DEF LeaveBarrier, BarrierReturn, Inside, Running
      <4> QED
        BY <4>1, RunnersKnown
    <3> QED
      BY <2>3, <3>1 DEF LeaveBarrier, BarrierReturn, StillCounting
  <2> QED
    BY <1>2, <1>5, <2>1, <2>2, <2>3
       DEF Worker, EnterBarrier, Ready, StartLoading, Synchronize, WarmupOver,
           Drained, TimeOver
<1>6. ASSUME NEW c \in AllConns, Callback(c)
      PROVE  StillCounting'
  BY <1>2, <1>6 DEF Callback, BecomeIdle, Issue, Complete
<1>7. CASE CpuStep \/ UNCHANGED vars
  BY <1>2, <1>7 DEF CpuStep, vars
<1> QED
  BY <1>3, <1>4, <1>5, <1>6, <1>7 DEF Next

LEMMA StepOnTime ==
  ASSUME TypeInv, OnTime, [Next]_vars
  PROVE  OnTime'
<1>1. args' = args /\ args.rounds \in Nat \ {0} /\ round \in Nat
  BY Settings, SettingsKept DEF TypeInv, TypeOK
<1>2. ASSUME UNCHANGED <<main, round, cpu>>
      PROVE  OnTime'
  BY <1>1, <1>2 DEF OnTime
<1> USE DEF mainVars, cpuVars
<1>3. CASE Main
  BY <1>1, <1>3
     DEF OnTime, Main, MakeBarrier, CreateCpu, CpuCreate, BeginRound, GoTo,
         CpuRequestReset, CreateThread, AllCreated, JoinThread, AllJoined,
         Coordinate, FinishRound, StopCpu, CpuRequestStop, JoinCpu
<1>4. ASSUME NEW t \in Threads, Worker(t)
      PROVE  OnTime'
  <2>1. CASE LeaveBarrier(t)
    BY <1>1, <2>1 DEF OnTime, LeaveBarrier
  <2> QED
    BY <1>2, <1>4, <2>1
       DEF Worker, EnterBarrier, Ready, StartLoading, Synchronize, WarmupOver,
           Drained, TimeOver
<1>5. ASSUME NEW c \in AllConns, Callback(c)
      PROVE  OnTime'
  BY <1>2, <1>5 DEF Callback, BecomeIdle, Issue, Complete
<1>6. CASE CpuStep \/ UNCHANGED vars
  <2>1. CASE CpuStep
    BY <1>1, <2>1
       DEF OnTime, CpuStep, CpuThread, CpuBegin, CpuFirst, CpuSample, CpuReturn
  <2> QED
    BY <1>2, <1>6, <2>1 DEF vars
<1> QED
  BY <1>3, <1>4, <1>5, <1>6 DEF Next

LEMMA StepServed ==
  ASSUME TypeInv, Counted, Served, [Next]_vars
  PROVE  Served'
<1>1. /\ args' = args /\ options' = options /\ Script' = Script
      /\ \A t : Mine(t)' = Mine(t)
      /\ DOMAIN Script = 1 .. Len(Script) /\ Script[1] = "connect"
      /\ Framed(Script)
      /\ \A k \in DOMAIN Script : Script[k] = "measure" => k = Len(Script)
      /\ Len(Script) \in Nat \ {0}
  BY Settings, SettingsKept, ScriptKept
<1>2. /\ conn \in [AllConns -> ConnStates]
      /\ at \in [Threads -> 0 .. Len(Script) + 1]
      /\ \A t \in Threads : Mine(t) \subseteq AllConns
      /\ \A t \in Threads : \A c \in Mine(t) : c[1] = t
  BY DEF TypeInv, TypeOK, Mine
<1>3. ASSUME NEW t \in Threads, at'[t] = at[t]
      PROVE  (Running(t)' <=> Running(t)) /\ Doing(t)' = Doing(t)
  BY <1>1, <1>3 DEF Doing, Running
\* The thread t goes on, and the connections of the others stay as they are.
<1> DEFINE Goes(t) == /\ at'[t] = at[t] + 1
                      /\ \A u \in Threads \ {t} : at'[u] = at[u]
                      /\ \A c \in AllConns : c \notin Mine(t) => conn'[c] = conn[c]
<1>4. ASSUME NEW t \in Threads, Goes(t),
             Running(t)' => \A c \in Mine(t) : conn'[c] \in Expected(Doing(t)')
      PROVE  Served'
  <2> SUFFICES ASSUME NEW u \in Threads, Running(u)', NEW c \in Mine(u)
               PROVE  conn'[c] \in Expected(Doing(u)')
    BY <1>1 DEF Served, Expected
  <2>1. CASE u = t
    BY <1>4, <2>1
  <2>2. CASE u # t
    <3>1. at'[u] = at[u] /\ c \notin Mine(t) /\ c \in AllConns
      BY <1>2, <1>4, <2>2, OwnConnections
    <3>2. Running(u) /\ Doing(u)' = Doing(u) /\ conn'[c] = conn[c]
      BY <1>3, <1>4, <3>1
    <3> QED
      BY <3>2 DEF Served
  <2> QED
    BY <2>1, <2>2
<1>5. ASSUME UNCHANGED <<at, conn>>
      PROVE  Served'
  BY <1>1, <1>3, <1>5 DEF Served, Expected
\* All connections of t are idle when it goes on, and remain so.
<1>6. ASSUME NEW t \in Threads, Running(t), Advance(t), UNCHANGED conn, AllIdle(t)
      PROVE  Served'
  <2>1. Goes(t)
    BY <1>6, Passing
  <2>2. \A c \in Mine(t) : conn'[c] \in Expected(Doing(t)')
    BY <1>6 DEF AllIdle, Expected
  <2> HIDE DEF Goes
  <2> QED
    BY <1>4, <2>1, <2>2
<1>7. ASSUME NEW t \in Threads, Running(t),
             Doing(t) \notin {"connect", "load", "warm", "drain", "measure"}
      PROVE  AllIdle(t)
  BY <1>7 DEF Served, Expected, AllIdle
<1>8. ASSUME NEW t, Doing(t) # "nothing"
      PROVE  Running(t)
  BY <1>8 DEF Doing
<1> HIDE DEF Goes
<1> USE DEF mainVars, workVars
<1>9. CASE CreateThread
  <2>1. PICK p \in Threads : /\ p = turn /\ at' = [at EXCEPT ![p] = 1]
                             /\ conn' = SetAll(Mine(p), "connecting")
    <3>1. turn \in Threads
      BY <1>9, Settings, BoundsAssumption
         DEF CreateThread, Workers, Threads, TypeInv, TypeOK
    <3> QED
      BY <1>9, <3>1 DEF CreateThread
  <2>2. at'[p] = 1 /\ \A u \in Threads \ {p} : at'[u] = at[u]
    BY <1>2, <2>1
  <2>3. Doing(p)' = "connect"
    BY <1>1, <2>2 DEF Doing, Running
  <2> SUFFICES ASSUME NEW u \in Threads, Running(u)', NEW c \in Mine(u)
               PROVE  conn'[c] \in Expected(Doing(u)')
    BY <1>1 DEF Served, Expected
  <2>4. CASE u = p
    <3>1. conn'[c] = "connecting"
      BY <1>2, <2>1, <2>4 DEF SetAll
    <3> QED
      BY <2>3, <2>4, <3>1 DEF Expected
  <2>5. CASE u # p
    <3>1. c \in AllConns /\ c \notin Mine(p)
      BY <1>2, <2>1, <2>5, OwnConnections
    <3>2. conn'[c] = conn[c] /\ Running(u) /\ Doing(u)' = Doing(u)
      BY <1>3, <2>1, <2>2, <2>5, <3>1 DEF SetAll
    <3> QED
      BY <3>2 DEF Served
  <2> QED
    BY <2>4, <2>5
<1>10. CASE AllJoined
  BY <1>1, <1>10 DEF AllJoined, Served, Running
<1>11. CASE \/ MakeBarrier \/ CreateCpu \/ BeginRound \/ AllCreated
            \/ JoinThread \/ Coordinate \/ FinishRound \/ StopCpu \/ JoinCpu
  BY <1>5, <1>11
     DEF MakeBarrier, CreateCpu, BeginRound, AllCreated, JoinThread,
         Coordinate, FinishRound, StopCpu, JoinCpu
<1>12. ASSUME NEW t \in Threads, Worker(t)
       PROVE  Served'
  <2>1. CASE Ready(t)
    BY <1>6, <1>8, <2>1 DEF Ready
  <2>2. CASE StartLoading(t)
    <3>1. Running(t) /\ AllIdle(t) /\ Doing(t) = "seed" /\ Advance(t)
          /\ conn' = SetAll(Lead(t), "loading")
      BY <1>7, <1>8, <2>2 DEF StartLoading
    <3>2. Goes(t) /\ at[t] \in DOMAIN Script /\ Script[at[t]] = "seed"
          /\ at'[t] = at[t] + 1
      BY <1>2, <3>1, Passing DEF Goes, SetAll, Lead
    <3>3. Doing(t)' = "load"
      BY <1>1, <3>2 DEF Framed, Doing, Running
    <3>4. \A c \in Mine(t) : conn'[c] \in {"loading", "idle"}
      BY <1>2, <3>1 DEF SetAll, AllIdle
    <3> QED
      BY <1>4, <3>2, <3>3, <3>4 DEF Expected
  <2>3. CASE EnterBarrier(t)
    BY <1>5, <2>3 DEF EnterBarrier
  <2>4. CASE LeaveBarrier(t)
    <3>1. Running(t) /\ Doing(t) \in BarrierPoints /\ Advance(t)
          /\ UNCHANGED conn
      BY <2>4, InsideRuns, Settings
         DEF LeaveBarrier, BarrierReturn, Inside, Running, Doing
    <3> QED
      BY <1>6, <1>7, <3>1 DEF BarrierPoints
  <2>5. CASE Synchronize(t)
    BY <1>6, <1>7, <1>8, <2>5 DEF Synchronize
  <2>6. CASE WarmupOver(t)
    <3>1. Running(t) /\ Doing(t) = "warm" /\ Advance(t) /\ UNCHANGED conn
      BY <1>8, <2>6 DEF WarmupOver
    <3>2. Goes(t) /\ at[t] \in DOMAIN Script /\ Script[at[t]] = "warm"
          /\ at'[t] = at[t] + 1
      BY <3>1, Passing DEF Goes
    <3>3. Doing(t)' = "drain"
      BY <1>1, <3>2 DEF Framed, Doing, Running
    <3>4. \A c \in Mine(t) : conn'[c] \in {"idle", "busy"}
      BY <3>1 DEF Served, Expected
    <3> QED
      BY <1>4, <3>2, <3>3, <3>4 DEF Expected
  <2>7. CASE Drained(t)
    BY <1>6, <1>8, <2>7 DEF Drained
  <2>8. CASE TimeOver(t)
    <3>1. Running(t) /\ Doing(t) = "measure" /\ Advance(t)
          /\ conn' = SetAll(Mine(t), "none")
      BY <1>8, <2>8 DEF TimeOver
    <3>2. Goes(t) /\ at'[t] = at[t] + 1 /\ at[t] = Len(Script)
      BY <1>1, <3>1, Passing DEF Goes, SetAll
    <3>3. ~Running(t)'
      BY <1>1, <3>2 DEF Running
    <3> QED
      BY <1>4, <3>2, <3>3
  <2> QED
    BY <1>12, <2>1, <2>2, <2>3, <2>4, <2>5, <2>6, <2>7, <2>8 DEF Worker
<1>13. ASSUME NEW c \in AllConns, Callback(c)
       PROVE  Served'
  <2>1. /\ at' = at
        /\ \A d \in AllConns \ {c} : conn'[d] = conn[d]
        /\ \/ conn'[c] = "idle" /\ EventLoop(c) # "nothing"
           \/ conn'[c] = "busy" /\ EventLoop(c) \in {"warm", "measure"}
    BY <1>2, <1>13 DEF Callback, BecomeIdle, Issue, Complete
  <2> SUFFICES ASSUME NEW u \in Threads, Running(u)', NEW d \in Mine(u)
               PROVE  conn'[d] \in Expected(Doing(u)')
    BY <1>1 DEF Served, Expected
  <2>2. Running(u) /\ Doing(u)' = Doing(u) /\ d[1] = u /\ d \in AllConns
    BY <1>2, <1>3, <2>1
  <2>3. CASE d = c
    BY <2>1, <2>2, <2>3 DEF EventLoop, Expected
  <2>4. CASE d # c
    BY <2>1, <2>2, <2>4 DEF Served
  <2> QED
    BY <2>3, <2>4
<1>14. CASE CpuStep \/ UNCHANGED vars
  BY <1>5, <1>14 DEF CpuStep, vars
<1> QED
  BY <1>9, <1>10, <1>11, <1>12, <1>13, <1>14 DEF Next, Main

\* While main waits for a thread, there is one that does not wait at the
\* barrier for the others.
LEMMA SomebodyIsOut ==
  ASSUME TypeInv, MeetInv, StillCounting,
         main = "join", turn <= options.threads, ~Done(turn)
  PROVE  \E t \in 1 .. options.threads : Running(t) /\ t \notin waiting
<1> DEFINE all == 1 .. options.threads
<1>1. /\ options.threads \in Nat /\ all \subseteq Threads /\ turn \in all
      /\ Len(Script) \in Nat /\ DOMAIN Script = 1 .. Len(Script)
      /\ at \in [Threads -> 0 .. Len(Script) + 1]
  BY Settings, BoundsAssumption DEF TypeInv, TypeOK, Threads
<1>2. \A t \in all : at[t] \in Nat /\ at[t] > 0 /\ (Done(t) \/ Running(t))
  BY <1>1 DEF TypeInv, Crew, Done, Running
<1>3. Running(turn)
  BY <1>1, <1>2
<1>4. CASE turn \notin waiting
  BY <1>1, <1>3, <1>4
<1>5. CASE turn \in waiting
  <2>1. PICK t \in all : t \notin waiting
    <3>1. IsFiniteSet(all) /\ Cardinality(all) = options.threads
      <4>1. options.threads \in Nat
        BY <1>1
      <4> QED
        BY <4>1, FS_Interval, SMTT(30)
    <3>2. called = Cardinality(waiting) /\ needed = options.threads
          /\ called < needed
      BY <1>1 DEF MeetInv, Counted, StillCounting
    <3>3. ~(all \subseteq waiting)
      <4>1. waiting \subseteq all
        BY InsideRuns DEF MeetInv, Inside
      <4>2. waiting # all
        BY <1>1, <3>1, <3>2
      <4> QED
        BY <4>1, <4>2
    <3> QED
      BY <3>3
  <2>2. ~Done(t)
    <3> SUFFICES ASSUME Done(t)
                 PROVE  FALSE
      OBVIOUS
    <3>1. t \notin leaving /\ turn \notin leaving
      <4>1. at[t] > Len(Script)
        BY DEF Done
      <4>2. t \notin Inside
        BY <1>1, <4>1, InsideRuns DEF MeetInv
      <4> QED
        BY <1>5, <4>2 DEF MeetInv, Counted, Inside
    <3>2. Left(t) = Left(turn)
      <4>1. Meetings(t) = Meetings(turn)
        BY <1>1 DEF MeetInv, Level
      <4>2. Left(t) \in Nat /\ Left(turn) \in Nat
        BY <1>1, <1>2, Barriers DEF Left
      <4> QED
        BY <3>1, <4>1, <4>2 DEF Meetings
    <3>3. Script[at[turn]] \in BarrierPoints /\ at[turn] \in DOMAIN Script
      BY <1>1, <1>5, InsideRuns DEF MeetInv, Inside
    <3>4. BarriersBefore(at[turn] + 1) = Left(turn) + 1
      BY <3>3, Barriers DEF Left
    <3>5. BarriersBefore(at[turn] + 1) <= Left(t)
      <4>1. at[t] > Len(Script)
        BY DEF Done
      <4>2. at[turn] + 1 \in Nat /\ at[t] \in Nat /\ at[turn] + 1 <= at[t]
        BY <1>1, <1>2, <3>3, <4>1
      <4> QED
        BY <4>2, Barriers DEF Left
    <3>6. Left(turn) \in Nat
      BY <1>1, <1>2, Barriers DEF Left
    <3> QED
      BY <3>2, <3>4, <3>5, <3>6
  <2> QED
    BY <1>1, <1>2, <2>1, <2>2
<1> QED
  BY <1>4, <1>5

\* A thread that does not wait at the barrier can go on, or a connection it
\* waits for has an answer to come.
LEMMA NotAtBarrier ==
  ASSUME TypeInv, Counted, Served, NEW t \in Threads, Running(t), t \notin waiting
  PROVE  WorkerGoes(t) \/ \E c \in AllConns : Answered(c)
<1>1. Doing(t) \in Labels
  BY Settings, ElementOfSeq DEF Doing, Running
<1>2. CASE Doing(t) \in {"connect", "load", "drain"}
  <2>1. CASE AllIdle(t)
    BY <1>2, <2>1 DEF WorkerGoes
  <2>2. CASE ~AllIdle(t)
    <3>1. PICK c \in Mine(t) : conn[c] # "idle"
      BY <2>2 DEF AllIdle
    <3>2. c \in AllConns /\ EventLoop(c) = Doing(t)
      BY DEF Mine, EventLoop
    <3>3. conn[c] \in Expected(Doing(t))
      BY DEF Served
    <3>4. Answered(c)
      BY <1>2, <3>1, <3>2, <3>3 DEF Expected, Answered
    <3> QED
      BY <3>2, <3>4
  <2> QED
    BY <2>1, <2>2
<1>3. CASE Doing(t) \in BarrierPoints
  BY <1>3 DEF WorkerGoes, Inside
<1>4. CASE Doing(t) \in {"seed", "sync", "warm", "measure"}
  BY <1>4 DEF WorkerGoes
<1> QED
  BY <1>1, <1>2, <1>3, <1>4 DEF Labels, BarrierPoints

\* No round comes to a standstill: as long as main is not through with them,
\* it can go on itself, or a thread can that does not wait for any other, or a
\* connection some thread waits for has its answer to come.  So the threads of a
\* process never wait at the barrier for one that will not come, for one another,
\* or for connections that have nothing to do, however many there are.
THEOREM NoStandstill == Spec => []GoesOn
<1>1. ASSUME TypeInv, MeetInv, LiveInv, [Next]_vars
      PROVE  LiveInv'
  BY <1>1, StepServed, StepStillCounting, StepOnTime DEF LiveInv, MeetInv
<1>2. ASSUME TypeInv, MeetInv, LiveInv
      PROVE  GoesOn
  <2>1. CASE main = "join" /\ turn <= options.threads /\ ~Done(turn)
    <3>1. PICK t \in 1 .. options.threads : Running(t) /\ t \notin waiting
      BY <1>2, <2>1, SomebodyIsOut DEF LiveInv
    <3>2. t \in Threads
      BY <1>2, Settings, BoundsAssumption DEF Threads
    <3> QED
      BY <1>2, <3>1, <3>2, NotAtBarrier DEF LiveInv, MeetInv, GoesOn
  <2>2. CASE ~(main = "join" /\ turn <= options.threads /\ ~Done(turn))
    <3>1. turn \in Nat /\ options.threads \in Nat /\ main \in MainPoints
      BY <1>2, Settings DEF TypeInv, TypeOK
    <3> QED
      BY <1>2, <2>2, <3>1 DEF LiveInv, OnTime, GoesOn, MainGoes, MainPoints
  <2> QED
    BY <2>1, <2>2
<1>3. TypeInv /\ MeetInv /\ LiveInv /\ [Next]_vars => LiveInv'
  BY <1>1
<1>4. TypeInv /\ MeetInv /\ LiveInv => GoesOn
  BY <1>2
<1> QED
  BY <1>3, <1>4, StartLive, MeetInvKept, PTL DEF Spec

-----------------------------------------------------------------------------
(* How the servers are dealt out: with --roundrobin server s goes to       *)
(* thread (s - 1) % threads + 1, or, if the threads are more, every thread *)
(* gets one server.                                                        *)

LEMMA DivMod ==
  ASSUME NEW a \in Nat, NEW T \in Nat \ {0}
  PROVE  \E q \in Nat : \E r \in 0 .. T - 1 : a = T * q + r /\ a % T = r
<1>1. a \div T \in Nat /\ a % T \in 0 .. T - 1
  OBVIOUS
<1>2. a = T * (a \div T) + (a % T)
  OBVIOUS
<1> QED
  BY <1>1, <1>2

LEMMA ModOf ==
  ASSUME NEW q \in Nat, NEW T \in Nat \ {0}, NEW r \in 0 .. T - 1
  PROVE  (T * q + r) % T = r
OBVIOUS

LEMMA Owner ==
  ASSUME NEW o, NEW n \in Nat \ {0}, o.threads \in Nat \ {0}, o.roundrobin,
         o.threads <= n, NEW t \in 1 .. o.threads, NEW s \in 1 .. n
  PROVE  s \in ServersOf(t, n, o) <=> t = ((s - 1) % o.threads) + 1
<1> DEFINE T == o.threads
<1>1. T \in Nat \ {0} /\ t - 1 \in 0 .. T - 1 /\ t - 1 \in 0 .. n - 1
  OBVIOUS
<1>2. FirstServer(t, n) = t
  <2>1. (t - 1) % n = t - 1
    BY <1>1
  <2> QED
    BY <2>1 DEF FirstServer
<1>3. s \in ServersOf(t, n, o) <=> T = 1 \/ (s >= t /\ (s - t) % T = 0)
  BY <1>2, <1>1 DEF ServersOf
<1>4. \A d \in Nat : \E q \in Nat : \E r \in 0 .. T - 1 :
        d = T * q + r /\ d % T = r
  <2> HIDE DEF T
  <2> QED
    BY <1>1, DivMod
<1>5. CASE T = 1
  BY <1>1, <1>3, <1>5
<1>6. CASE T > 1
  <2>1. ASSUME s >= t, (s - t) % T = 0
        PROVE  t = ((s - 1) % T) + 1
    <3>1. PICK q \in Nat : \E r \in 0 .. T - 1 :
                  s - t = T * q + r /\ (s - t) % T = r
      <4>1. s - t \in Nat
        BY <2>1
      <4> QED
        BY <4>1, <1>4
    <3>2. s - t = T * q
      BY <2>1, <3>1
    <3>3. s - 1 = T * q + (t - 1)
      BY <3>2
    <3>4. (T * q + (t - 1)) % T = t - 1
      BY <1>1, ModOf
    <3> QED
      BY <3>3, <3>4
  <2>2. ASSUME t = ((s - 1) % T) + 1
        PROVE  s >= t /\ (s - t) % T = 0
    <3>1. PICK q \in Nat : \E r \in 0 .. T - 1 :
                  s - 1 = T * q + r /\ (s - 1) % T = r
      <4>1. s - 1 \in Nat
        OBVIOUS
      <4> QED
        BY <4>1, <1>4
    <3>2. s - t = T * q + 0 /\ T * q \in Nat /\ 0 \in 0 .. T - 1
      BY <1>1, <2>2, <3>1
    <3>3. (T * q + 0) % T = 0
      BY <1>1, <3>2, ModOf
    <3> QED
      BY <3>2, <3>3
  <2> QED
    BY <1>3, <1>6, <2>1, <2>2
<1> QED
  BY <1>1, <1>5, <1>6

LEMMA FewServers ==
  ASSUME NEW o, NEW n \in Nat \ {0}, o.threads \in Nat \ {0}, o.roundrobin,
         n < o.threads, NEW t \in 1 .. o.threads
  PROVE  /\ FirstServer(t, n) \in 1 .. n
         /\ ServersOf(t, n, o) = {FirstServer(t, n)}
<1> DEFINE T == o.threads
           f == FirstServer(t, n)
<1>1. f \in 1 .. n
  BY DEF FirstServer
<1>2. ServersOf(t, n, o) = {s \in 1 .. n : s >= f /\ (s - f) % T = 0}
  BY DEF ServersOf
<1> HIDE DEF f
<1>3. \A s \in 1 .. n : s >= f /\ (s - f) % T = 0 => s = f
  <2> SUFFICES ASSUME NEW s \in 1 .. n, s >= f, (s - f) % T = 0
               PROVE  s = f
    OBVIOUS
  <2>1. s - f \in 0 .. T - 1
    BY <1>1
  <2>2. (s - f) % T = s - f
    BY <2>1
  <2> QED
    BY <1>1, <2>2
<1>4. (f - f) % T = 0
  BY <1>1
<1> QED
  BY <1>1, <1>2, <1>3, <1>4 DEF f

\* Which thread measures which server.
Pairs(n, o) ==
  {p \in (1 .. o.threads) \X (1 .. n) : p[2] \in ServersOf(p[1], n, o)}

LEMMA Dealt ==
  ASSUME NEW o, NEW n \in Nat \ {0}, o.threads \in Nat \ {0},
         o.roundrobin \in BOOLEAN
  PROVE  /\ IsFiniteSet(Pairs(n, o))
         /\ Cardinality(Pairs(n, o)) = IF o.roundrobin THEN Larger(n, o.threads)
                                       ELSE o.threads * n
<1> DEFINE T == o.threads
<1>1. /\ IsFiniteSet(1 .. T) /\ Cardinality(1 .. T) = T
      /\ IsFiniteSet(1 .. n) /\ Cardinality(1 .. n) = n
  <2>1. T \in Nat \ {0}
    OBVIOUS
  <2> HIDE DEF T
  <2> QED
    BY <2>1, Count
<1>2. CASE ~o.roundrobin
  <2>1. Pairs(n, o) = (1 .. T) \X (1 .. n)
    BY <1>2 DEF Pairs, ServersOf
  <2>2. /\ IsFiniteSet((1 .. T) \X (1 .. n))
        /\ Cardinality((1 .. T) \X (1 .. n)) = T * n
    <3>1. T * n = Cardinality(1 .. T) * Cardinality(1 .. n)
      BY <1>1
    <3> HIDE DEF T
    <3> QED
      BY <1>1, <3>1, FS_Product
  <2> QED
    BY <1>2, <2>1, <2>2
<1>3. CASE o.roundrobin /\ T <= n
  <2> DEFINE f == [s \in 1 .. n |-> <<((s - 1) % T) + 1, s>>]
  <2>1. \A s \in 1 .. n : ((s - 1) % T) + 1 \in 1 .. T
    OBVIOUS
  <2>2. f \in [1 .. n -> Pairs(n, o)]
    <3> SUFFICES ASSUME NEW s \in 1 .. n
                 PROVE  <<((s - 1) % T) + 1, s>> \in Pairs(n, o)
      OBVIOUS
    <3>1. s \in ServersOf(((s - 1) % T) + 1, n, o)
      BY <1>3, <2>1, Owner
    <3> QED
      BY <2>1, <3>1 DEF Pairs
  <2>3. \A a, b \in 1 .. n : f[a] = f[b] => a = b
    OBVIOUS
  <2>4. \A p \in Pairs(n, o) : \E s \in 1 .. n : f[s] = p
    <3> SUFFICES ASSUME NEW p \in Pairs(n, o)
                 PROVE  f[p[2]] = p /\ p[2] \in 1 .. n
      OBVIOUS
    <3>1. /\ p = <<p[1], p[2]>> /\ p[1] \in 1 .. T /\ p[2] \in 1 .. n
          /\ p[2] \in ServersOf(p[1], n, o)
      BY DEF Pairs
    <3>2. p[1] = ((p[2] - 1) % T) + 1
      BY <1>3, <3>1, Owner
    <3> QED
      BY <3>1, <3>2
  <2> HIDE DEF f
  <2>5. IsFiniteSet(Pairs(n, o)) /\ Cardinality(Pairs(n, o)) = n
    BY <1>1, <2>2, <2>3, <2>4, SameCount, SMTT(30)
  <2> QED
    BY <1>3, <2>5 DEF Larger
<1>4. CASE o.roundrobin /\ n < T
  <2> DEFINE f == [t \in 1 .. T |-> <<t, FirstServer(t, n)>>]
  <2>1. \A t \in 1 .. T : /\ FirstServer(t, n) \in 1 .. n
                          /\ ServersOf(t, n, o) = {FirstServer(t, n)}
    BY <1>4, FewServers
  <2>2. f \in [1 .. T -> Pairs(n, o)]
    <3> SUFFICES ASSUME NEW t \in 1 .. T
                 PROVE  <<t, FirstServer(t, n)>> \in Pairs(n, o)
      OBVIOUS
    <3> QED
      BY <2>1 DEF Pairs
  <2>3. \A a, b \in 1 .. T : f[a] = f[b] => a = b
    OBVIOUS
  <2>4. \A p \in Pairs(n, o) : \E t \in 1 .. T : f[t] = p
    <3> SUFFICES ASSUME NEW p \in Pairs(n, o)
                 PROVE  f[p[1]] = p /\ p[1] \in 1 .. T
      OBVIOUS
    <3>1. /\ p = <<p[1], p[2]>> /\ p[1] \in 1 .. T
          /\ p[2] \in ServersOf(p[1], n, o)
      BY DEF Pairs
    <3> QED
      BY <2>1, <3>1
  <2> HIDE DEF f
  <2>5. IsFiniteSet(Pairs(n, o)) /\ Cardinality(Pairs(n, o)) = T
    BY <1>1, <2>2, <2>3, <2>4, SameCount
  <2> QED
    BY <1>4, <2>5 DEF Larger
<1> QED
  BY <1>2, <1>3, <1>4

\* The connections of all threads together.
LEMMA ConnectionsOpened ==
  ASSUME options.threads \in 1 .. MaxThreads,
         options.roundrobin \in BOOLEAN,
         Len(servers) \in 1 .. MaxServers, PerServer \in 1 .. MaxConns
  PROVE  Opened = Cardinality(Pairs(Len(servers), options)) * PerServer
<1> DEFINE T == options.threads
           n == Len(servers)
           Q == Pairs(n, options) \X (1 .. PerServer)
           P == [t \in 1 .. T |-> Mine(t)]
           w == [t \in 1 .. T |-> Cardinality(Mine(t))]
           All == UNION {P[t] : t \in 1 .. T}
           f == [q \in Q |-> <<q[1][1], q[1][2], q[2]>>]
<1>1. /\ T \in Nat \ {0} /\ n \in Nat \ {0} /\ PerServer \in Nat
      /\ 1 .. T \subseteq Threads /\ 1 .. n \subseteq 1 .. MaxServers
      /\ 1 .. PerServer \subseteq 1 .. MaxConns
  BY BoundsAssumption DEF Threads
<1>2. /\ IsFiniteSet(Q)
      /\ Cardinality(Q) = Cardinality(Pairs(n, options)) * PerServer
  <2>1. /\ IsFiniteSet(1 .. PerServer) /\ Cardinality(1 .. PerServer) = PerServer
    BY <1>1, Count
  <2>2. IsFiniteSet(Pairs(n, options))
    BY <1>1, Dealt
  <2> HIDE DEF n
  <2> QED
    BY <2>1, <2>2, FS_Product
<1>3. ASSUME NEW t \in 1 .. T, NEW c
      PROVE  c \in Mine(t) <=>
               /\ c \in (1 .. T) \X (1 .. n) \X (1 .. PerServer)
               /\ c[1] = t /\ c[2] \in ServersOf(t, n, options)
  <2>1. ServersOf(t, n, options) \subseteq 1 .. n
    BY DEF ServersOf
  <2> HIDE DEF n
  <2>2. c \in Mine(t) <=> /\ c \in AllConns /\ c[1] = t
                          /\ c[2] \in ServersOf(t, n, options)
                          /\ c[3] <= PerServer
    BY DEF Mine, n
  <2>3. ASSUME c \in Mine(t)
        PROVE  c \in (1 .. T) \X (1 .. n) \X (1 .. PerServer)
    BY <1>1, <2>1, <2>2, <2>3 DEF AllConns
  <2>4. ASSUME c \in (1 .. T) \X (1 .. n) \X (1 .. PerServer)
        PROVE  c \in AllConns /\ c[3] <= PerServer
    BY <1>1, <2>4 DEF AllConns
  <2> QED
    BY <2>2, <2>3, <2>4
<1>4. \A c : c \in All <=> /\ c \in (1 .. T) \X (1 .. n) \X (1 .. PerServer)
                           /\ c[2] \in ServersOf(c[1], n, options)
  <2>1. \A c : c \in All <=> \E t \in 1 .. T : c \in Mine(t)
    OBVIOUS
  <2> HIDE DEF All, T, n
  <2>2. \A c : c \in (1 .. T) \X (1 .. n) \X (1 .. PerServer) => c[1] \in 1 .. T
    OBVIOUS
  <2> QED
    BY <1>3, <2>1, <2>2
<1>5. Cardinality(All) = Cardinality(Q)
  <2>1. f \in [Q -> All]
    <3> SUFFICES ASSUME NEW q \in Q
                 PROVE  <<q[1][1], q[1][2], q[2]>> \in All
      OBVIOUS
    <3>1. /\ q[1][1] \in 1 .. T /\ q[1][2] \in 1 .. n
          /\ q[1][2] \in ServersOf(q[1][1], n, options)
          /\ q[2] \in 1 .. PerServer
      BY DEF Pairs
    <3> QED
      BY <1>4, <3>1
  <2>2. \A a, b \in Q : f[a] = f[b] => a = b
    <3> SUFFICES ASSUME NEW a \in Q, NEW b \in Q, f[a] = f[b]
                 PROVE  a = b
      OBVIOUS
    <3>1. /\ a = <<a[1], a[2]>> /\ a[1] = <<a[1][1], a[1][2]>>
          /\ b = <<b[1], b[2]>> /\ b[1] = <<b[1][1], b[1][2]>>
      BY DEF Pairs
    <3>2. a[1][1] = b[1][1] /\ a[1][2] = b[1][2] /\ a[2] = b[2]
      OBVIOUS
    <3> QED
      BY <3>1, <3>2
  <2>3. \A c \in All : \E q \in Q : f[q] = c
    <3> SUFFICES ASSUME NEW c \in All
                 PROVE  \E q \in Q : f[q] = c
      OBVIOUS
    <3> DEFINE q == <<<<c[1], c[2]>>, c[3]>>
    <3>1. /\ c = <<c[1], c[2], c[3]>> /\ c[1] \in 1 .. T /\ c[2] \in 1 .. n
          /\ c[3] \in 1 .. PerServer /\ c[2] \in ServersOf(c[1], n, options)
      BY <1>4
    <3>2. q \in Q
      BY <3>1 DEF Pairs
    <3>3. f[q] = c
      BY <3>1, <3>2
    <3> QED
      BY <3>2, <3>3
  <2> HIDE DEF f, All, Q
  <2> QED
    BY <1>2, <2>1, <2>2, <2>3, SameCount
<1>6. SumFunctionOnSet(w, 1 .. T) = Cardinality(All)
  <2> DEFINE D == 1 .. T
  <2>1. \A t \in D : IsFiniteSet(P[t])
    BY MineFinite
  <2>2. w = [t \in D |-> Cardinality(P[t])]
    OBVIOUS
  <2>3. \A t, u \in D : t # u => P[t] \intersect P[u] = {}
    BY DEF Mine
  <2>4. IsFiniteSet(D)
    BY <1>1, Count
  <2>5. \A c : c \in All <=> \E x \in D : c \in P[x]
    OBVIOUS
  <2> HIDE DEF P, w, All, D
  <2>6. D \in SUBSET D
    OBVIOUS
  <2>7. SumFunctionOnSet(w, D) = Cardinality(All)
    BY <2>1, <2>2, <2>3, <2>4, <2>5, <2>6, SumOfParts
  <2> QED
    BY <2>7 DEF D
<1>7. Opened = SumFunctionOnSet(w, 1 .. T)
  BY DEF Opened, SumFunction
<1> QED
  BY <1>2, <1>5, <1>6, <1>7

\* What main lists: host and port of each instance that an argument names.
LEMMA InstancesType ==
  ASSUME NEW arg \in ServerArguments
  PROVE  /\ Instances(arg) \in Seq(Seq(STRING \union Int))
         /\ arg.ports = <<>> => /\ Len(Instances(arg)) = 1
                                /\ Instances(arg)[1] = Append(arg.name, DefaultPort)
         /\ arg.ports # <<>> =>
              \A port \in arg.ports[1] .. arg.ports[2] :
                \E j \in 1 .. Len(Instances(arg)) :
                  Instances(arg)[j] = Append(arg.name, port)
<1> DEFINE S == STRING \union Int
<1>1. arg.name \in Seq(STRING) /\ arg.ports \in {<<>>} \union (Nat \X Nat)
  BY ArgumentsAssumption
<1>2. arg.name \in Seq(S)
  BY <1>1, SeqMonotonic
<1>3. \A port \in Int : Append(arg.name, port) \in Seq(S)
  BY <1>2, AppendProperties
<1>4. CASE arg.ports = <<>>
  <2>1. Instances(arg) = <<Append(arg.name, DefaultPort)>>
    BY <1>4 DEF Instances, NameToIpaddr
  <2>2. Append(arg.name, DefaultPort) \in Seq(S)
    BY <1>3 DEF DefaultPort
  <2> HIDE DEF S
  <2> QED
    BY <1>4, <2>1, <2>2 DEF S
<1>5. CASE arg.ports # <<>>
  <2> DEFINE a == arg.ports[1]
             n == arg.ports[2] - a + 1
             s == Instances(arg)
  <2>1. a \in Nat /\ n \in Int /\ arg.ports[2] = a + n - 1
    BY <1>1, <1>5
  <2>2. s = [i \in 1 .. n |-> Append(arg.name, a + i - 1)]
    BY <1>5 DEF Instances, NameToIpaddr
  <2>3. PICK m \in Nat : 1 .. m = 1 .. n
    <3>1. CASE n < 0
      <4>1. 1 .. 0 = 1 .. n
        BY <2>1, <3>1
      <4> QED
        BY <4>1
    <3>2. CASE n >= 0
      BY <2>1, <3>2
    <3> QED
      BY <2>1, <3>1, <3>2
  <2> HIDE DEF S, s, n, a
  <2>4. s \in Seq(Seq(S)) /\ DOMAIN s = 1 .. n
    <3>1. \A i \in 1 .. m : Append(arg.name, a + i - 1) \in Seq(S)
      BY <1>3, <2>1
    <3>2. s \in [1 .. m -> Seq(S)]
      BY <2>2, <2>3, <3>1
    <3> QED
      BY <2>3, <3>2
  <2>5. 1 .. Len(s) = 1 .. n
    BY <2>4, LenProperties
  <2>6. ASSUME NEW port \in a .. arg.ports[2]
        PROVE  \E j \in 1 .. Len(s) : s[j] = Append(arg.name, port)
    <3>1. port - a + 1 \in 1 .. n /\ a + (port - a + 1) - 1 = port
      BY <2>1
    <3> QED
      BY <2>2, <2>5, <3>1
  <2> QED
    BY <1>5, <2>4, <2>6 DEF S, s, a
<1> QED
  BY <1>4, <1>5

LEMMA ServersListed ==
  ASSUME args \in Arguments
  PROVE  /\ servers \in Seq(Seq(STRING \union Int))
         /\ \A i \in DOMAIN args.servers :
              \A j \in 1 .. Len(Instances(args.servers[i])) :
                \E k \in 1 .. Len(servers) :
                  servers[k] = Instances(args.servers[i])[j]
         /\ (\A i \in DOMAIN args.servers : args.servers[i].ports = <<>>) =>
              Len(servers) = Len(args.servers)
<1> DEFINE S == Seq(STRING \union Int)
           n == Len(args.servers)
           ss == [i \in 1 .. n |-> Instances(args.servers[i])]
<1>1. args.servers \in Seq(ServerArguments)
  BY ArgumentsAssumption
<1>2. /\ n \in Nat /\ DOMAIN args.servers = 1 .. n
      /\ \A i \in 1 .. n : args.servers[i] \in ServerArguments
  BY <1>1, LenProperties, ElementOfSeq
<1>3. servers = FlattenSeq(ss)
  BY <1>2 DEF servers, ServerList
<1>4. \A i \in 1 .. n : /\ ss[i] \in Seq(S)
                        /\ args.servers[i].ports = <<>> => Len(ss[i]) = 1
  BY <1>2, InstancesType
<1>5. ss \in Seq(Seq(S)) /\ Len(ss) = n
  <2>1. ss \in [1 .. n -> Seq(S)]
    BY <1>4
  <2> HIDE DEF ss, S, n
  <2> QED
    BY <1>2, <2>1
<1>6. \A i \in 1 .. n : ss[i] = Instances(args.servers[i])
  OBVIOUS
<1> HIDE DEF ss, n, S
<1>7. /\ FlattenSeq(ss) \in Seq(S)
      /\ \A i \in 1 .. Len(ss) : \A j \in 1 .. Len(ss[i]) :
           \E k \in 1 .. Len(FlattenSeq(ss)) : FlattenSeq(ss)[k] = ss[i][j]
      /\ (\A i \in 1 .. Len(ss) : Len(ss[i]) = 1) =>
           Len(FlattenSeq(ss)) = Len(ss)
  BY <1>5, FlattenType
<1>8. servers \in Seq(S)
  BY <1>3, <1>7
<1>9. ASSUME NEW i \in 1 .. n, NEW j \in 1 .. Len(Instances(args.servers[i]))
      PROVE  \E k \in 1 .. Len(servers) :
               servers[k] = Instances(args.servers[i])[j]
  <2>1. i \in 1 .. Len(ss) /\ j \in 1 .. Len(ss[i])
    BY <1>5, <1>6
  <2>2. \E k \in 1 .. Len(FlattenSeq(ss)) : FlattenSeq(ss)[k] = ss[i][j]
    BY <1>7, <2>1
  <2> QED
    BY <1>3, <1>6, <2>2
<1>10. ASSUME \A i \in DOMAIN args.servers : args.servers[i].ports = <<>>
       PROVE  Len(servers) = Len(args.servers)
  <2>1. \A i \in 1 .. Len(ss) : Len(ss[i]) = 1
    BY <1>2, <1>4, <1>5, <1>10
  <2> QED
    BY <1>3, <1>5, <1>7, <2>1 DEF n
<1> QED
  BY <1>2, <1>8, <1>9, <1>10 DEF S

\* The options are derived once, before the first round; what the connections
\* of all threads have together is what they were divided by.
THEOREM AllSharesAddUp == Spec => []SharesAddUp
<1> DEFINE Inv == TypeInv /\ MeetInv
<1>1. Init => Inv
  BY StartTypeInv
<1>2. Inv /\ [Next]_vars => Inv'
  BY StepMeet
<1>3. Inv => SharesAddUp
  <2> SUFFICES ASSUME Inv, options.threads > 0, args.measure_connections = 0,
                      \A i \in DOMAIN args.servers : args.servers[i].ports = <<>>
               PROVE  Opened * args.lambda_mul = options.lambda_denom
    BY DEF SharesAddUp
  <2> DEFINE p == ParseProfile(args)
             T == options.threads
             n == Len(servers)
             rr == args.roundrobin
             C == options.connections
             K == IF rr THEN Larger(n, T) ELSE n * T
             mul == args.lambda_mul
  <2>1. /\ args \in Arguments /\ options = ArgsToOptions(args)
        /\ T \in 1 .. MaxThreads /\ T = args.threads
    BY OptionsType DEF TypeInv, TypeOK, Settled
  <2>2. /\ rr \in BOOLEAN /\ mul \in Nat \ {0}
        /\ n \in 1 .. MaxServers /\ C \in 1 .. MaxConns
    BY <2>1, ArgumentsAssumption DEF servers
  <2>3. n = Len(args.servers)
    BY <2>1, ServersListed
  <2>4. /\ p.threads = T /\ p.roundrobin = rr /\ p.lambda_mul = mul
        /\ p.servers = args.servers /\ p.connections = C
        /\ options.roundrobin = rr /\ options.lambda_denom = LambdaDenom(p)
    <3>1. options = Derived(p)
      BY <2>1 DEF ArgsToOptions
    <3>2. /\ p.threads = args.threads /\ p.roundrobin = rr
          /\ p.lambda_mul = mul /\ p.servers = args.servers
      BY <2>1, ArgumentsAssumption DEF ParseProfile
    <3> HIDE DEF p
    <3> QED
      BY <2>1, <3>1, <3>2 DEF Derived
  <2> HIDE DEF p, T, n, rr, C, mul
  <2>5. PerServer = C
    BY DEF PerServer, C
  <2>6. Opened = K * C
    <3>1. Opened = Cardinality(Pairs(n, options)) * C
      BY <2>1, <2>2, <2>4, <2>5, ConnectionsOpened DEF T, n
    <3>2. n \in Nat \ {0} /\ T \in Nat \ {0}
      BY <2>1, <2>2
    <3>3. Cardinality(Pairs(n, options)) = IF rr THEN Larger(n, T) ELSE T * n
      BY <2>2, <2>4, <3>2, Dealt DEF T
    <3>4. n * T = T * n
      BY <3>2
    <3> QED
      BY <3>1, <3>3, <3>4
  <2>7. K \in Nat \ {0} /\ C \in Nat \ {0} /\ K * C \in Nat \ {0}
    <3>1. n \in Nat \ {0} /\ T \in Nat \ {0} /\ C \in Nat \ {0}
      BY <2>1, <2>2
    <3>2. n * T \in Nat \ {0} /\ Larger(n, T) \in Nat \ {0}
      BY <3>1 DEF Larger
    <3>3. K \in Nat \ {0}
      BY <2>2, <3>2
    <3> HIDE DEF K
    <3> QED
      BY <3>1, <3>3
  <2>8. LambdaDenom(p) = Larger(C * K, 1) * Larger(mul, 1)
    <3>1. Connections(p) = C * K
      BY <2>3, <2>4 DEF Connections, ServerGiven
    <3> HIDE DEF K
    <3> QED
      BY <2>1, <2>4, <3>1 DEF LambdaDenom
  <2>9. Larger(mul, 1) = mul
    BY <2>2 DEF Larger
  <2>10. Larger(C * K, 1) = K * C
    <3> HIDE DEF K
    <3>1. C * K = K * C
      BY <2>7
    <3> QED
      BY <2>7, <3>1 DEF Larger
  <2> QED
    BY <2>4, <2>6, <2>8, <2>9, <2>10 DEF mul
<1> QED
  BY <1>1, <1>2, <1>3, PTL DEF Spec

\* Every server goes to some thread.
LEMMA SomeoneMeasures ==
  ASSUME NEW o, NEW n \in Nat \ {0}, o.threads \in Nat \ {0},
         o.roundrobin \in BOOLEAN, NEW s \in 1 .. n
  PROVE  \E t \in 1 .. o.threads : s \in ServersOf(t, n, o)
<1>1. CASE ~o.roundrobin
  BY <1>1 DEF ServersOf
<1>2. CASE o.roundrobin /\ o.threads <= n
  <2>1. ((s - 1) % o.threads) + 1 \in 1 .. o.threads
    OBVIOUS
  <2> QED
    BY <1>2, <2>1, Owner
<1>3. CASE o.roundrobin /\ n < o.threads
  <2>1. s \in 1 .. o.threads /\ (s - 1) % n = s - 1
    BY <1>3
  <2>2. FirstServer(s, n) = s
    BY <2>1 DEF FirstServer
  <2> QED
    BY <1>3, <2>1, <2>2, FewServers
<1> QED
  BY <1>1, <1>2, <1>3

LEMMA EndpointOf ==
  ASSUME NEW name \in Seq(STRING), NEW port \in Int
  PROVE  Endpoint(Append(name, port)) = [host |-> name, port |-> port]
<1> DEFINE s == Append(name, port)
<1>1. /\ name \in Seq(STRING \union Int) /\ port \in STRING \union Int
      /\ Len(name) \in Nat
  BY SeqMonotonic, LenProperties
<1>2. /\ s \in Seq(STRING \union Int) /\ Len(s) = Len(name) + 1
      /\ s[Len(name) + 1] = port
      /\ \A i \in 1 .. Len(name) : s[i] = name[i]
  BY <1>1, AppendProperties
<1> HIDE DEF s
<1>3. SubSeq(s, 1, Len(name)) = name
  <2> DEFINE r == SubSeq(s, 1, Len(name))
             S == STRING \union Int
  <2>1. \A i \in 1 .. Len(name) : s[i] \in S
    BY <1>1, <1>2, ElementOfSeq
  <2>2. 1 \in Int /\ Len(name) \in Int
    BY <1>1
  <2>3. /\ r \in Seq(S)
        /\ Len(r) = IF 1 <= Len(name) THEN Len(name) - 1 + 1 ELSE 0
        /\ \A i \in 1 .. Len(name) - 1 + 1 : r[i] = s[1 + i - 1]
    <3> HIDE DEF S
    <3> QED
      BY <2>1, <2>2, SubSeqProperties
  <2>4. Len(r) = Len(name) /\ \A i \in 1 .. Len(name) : r[i] = s[i]
    <3> HIDE DEF r
    <3> QED
      BY <1>1, <2>3
  <2> HIDE DEF r, S
  <2>5. name \in Seq(S)
    BY <1>1 DEF S
  <2>6. \A i \in 1 .. Len(r) : r[i] = name[i]
    BY <1>2, <2>4
  <2>7. r = name
    BY <2>3, <2>4, <2>5, <2>6, SeqEqual
  <2> QED
    BY <2>7 DEF r
<1>4. Front(s) = name /\ Last(s) = port
  BY <1>1, <1>2, <1>3 DEF Front, Last
<1> QED
  BY <1>4 DEF Endpoint, s

\* Every server that is named is in the list of main.
LEMMA NamedIsListed ==
  ASSUME args \in Arguments, NEW e \in Named
  PROVE  \E k \in 1 .. Len(servers) : Endpoint(servers[k]) = e
<1>1. PICK i \in DOMAIN args.servers :
        LET arg == args.servers[i]
        IN e \in [host : {arg.name},
                  port : IF arg.ports = <<>> THEN {DefaultPort}
                         ELSE arg.ports[1] .. arg.ports[2]]
  BY DEF Named
<1> DEFINE arg == args.servers[i]
<1>2. arg \in ServerArguments
  <2>1. args.servers \in Seq(ServerArguments)
    BY ArgumentsAssumption
  <2> QED
    BY <2>1, LenProperties, ElementOfSeq
<1>3. arg.name \in Seq(STRING) /\ arg.ports \in {<<>>} \union (Nat \X Nat)
  BY <1>2, ArgumentsAssumption
<1>4. e = [host |-> arg.name, port |-> e.port] /\ e.port \in Int
  <2>1. e = [host |-> arg.name, port |-> e.port]
    BY <1>1
  <2>2. CASE arg.ports = <<>>
    BY <1>1, <2>2 DEF DefaultPort
  <2>3. CASE arg.ports # <<>>
    BY <1>1, <1>3, <2>3
  <2> QED
    BY <2>1, <2>2, <2>3
<1>5. \E j \in 1 .. Len(Instances(arg)) :
        Instances(arg)[j] = Append(arg.name, e.port)
  <2>1. CASE arg.ports = <<>>
    <3>1. e.port = DefaultPort
      BY <1>1, <2>1
    <3> QED
      BY <1>2, <2>1, <3>1, InstancesType
  <2>2. CASE arg.ports # <<>>
    <3>1. e.port \in arg.ports[1] .. arg.ports[2]
      BY <1>1, <2>2
    <3> QED
      BY <1>2, <2>2, <3>1, InstancesType
  <2> QED
    BY <2>1, <2>2
<1>6. PICK k \in 1 .. Len(servers) : servers[k] = Append(arg.name, e.port)
  BY <1>5, ServersListed
<1> HIDE DEF arg
<1>7. Endpoint(servers[k]) = e
  BY <1>3, <1>4, <1>6, EndpointOf
<1> QED
  BY <1>7

\* Every server that is named is measured, and with --roundrobin and no more
\* threads than servers by one thread, however many there are of both; if no
\* server is named twice, for then two threads may measure it.
THEOREM AllDealtOut ==
  ASSUME Distinct
  PROVE  Spec => []ServersDealtOut
<1> DEFINE Inv == TypeInv /\ MeetInv
<1>1. Init => Inv
  BY StartTypeInv
<1>2. Inv /\ [Next]_vars => Inv'
  BY StepMeet
<1>3. Inv => ServersDealtOut
  <2> SUFFICES ASSUME Inv, options.threads > 0, NEW e \in Named
               PROVE  /\ Measurers(e) # {}
                      /\ options.roundrobin /\ options.threads <= Len(servers)
                           => Cardinality(Measurers(e)) = 1
    BY DEF ServersDealtOut
  <2> DEFINE T == options.threads
             n == Len(servers)
  <2>1. /\ args \in Arguments /\ options = ArgsToOptions(args)
        /\ T \in Nat \ {0}
    BY OptionsType DEF TypeInv, TypeOK, Settled
  <2>2. n \in Nat \ {0} /\ options.roundrobin \in BOOLEAN
    <3>1. n \in 1 .. MaxServers
      BY <2>1, ArgumentsAssumption DEF servers
    <3>2. args.roundrobin \in BOOLEAN
      BY <2>1, ArgumentsAssumption
    <3>3. ParseProfile(args).roundrobin = args.roundrobin
      BY <2>1, ArgumentsAssumption DEF ParseProfile
    <3>4. options.roundrobin = args.roundrobin
      BY <2>1, <3>3 DEF ArgsToOptions, Derived
    <3> QED
      BY <3>1, <3>2, <3>4, BoundsAssumption
  <2>3. PICK k \in 1 .. n : Endpoint(servers[k]) = e
    BY <2>1, NamedIsListed
  <2>4. \E t \in 1 .. T : k \in ServersOf(t, n, options)
    BY <2>1, <2>2, SomeoneMeasures
  <2>5. Measurers(e) # {}
    BY <2>3, <2>4 DEF Measurers
  <2>6. ASSUME options.roundrobin, T <= n
        PROVE  Cardinality(Measurers(e)) = 1
    <3> DEFINE owner == ((k - 1) % T) + 1
    <3>1. DOMAIN servers = 1 .. n
      BY <2>1, ServersListed, LenProperties
    <3>2. \A s \in 1 .. n : Endpoint(servers[s]) = e => s = k
      BY <2>1, <2>3, <3>1 DEF Distinct, servers
    <3>3. \A t \in 1 .. T, s \in 1 .. n :
            s \in ServersOf(t, n, options) <=> t = ((s - 1) % T) + 1
      BY <2>1, <2>2, <2>6, Owner, SMTT(30)
    <3>4. owner \in 1 .. T
      BY <2>1, <2>3
    <3>5. \A t : t \in Measurers(e) <=>
            /\ t \in 1 .. T
            /\ \E s \in ServersOf(t, n, options) : Endpoint(servers[s]) = e
      BY DEF Measurers
    <3>6. \A t : ServersOf(t, n, options) \subseteq 1 .. n
      BY DEF ServersOf
    <3> HIDE DEF T, n
    <3>7. Measurers(e) = {owner}
      BY <2>3, <3>2, <3>3, <3>4, <3>5, <3>6
    <3> QED
      BY <3>7, FS_Singleton
  <2> QED
    BY <2>5, <2>6
<1> QED
  BY <1>1, <1>2, <1>3, PTL DEF Spec
===============================================================================
