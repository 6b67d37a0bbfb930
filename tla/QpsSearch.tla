------------------------------ MODULE QpsSearch ------------------------------
(***************************************************************************)
(* --search and --scan of main (src/mcperf.cc): runs at one rate after the *)
(* other, looking for the highest rate at which a percentile of the        *)
(* latencies, or their average, stays within a bound.                      *)
(*                                                                         *)
(* A call of go is one step.  Its threads and agents log what the server   *)
(* makes of the rate, and main merges it: a server keeps its latencies     *)
(* within the bound below the rate knee, and not from there on.            *)
(*                                                                         *)
(* An operator with a suffix, as Middle_Up, is a faulty variant of the one *)
(* that follows it; no definition uses it.                                 *)
(***************************************************************************)
EXTENDS Statistics

CONSTANTS
  Requests(_, _),  \* what is logged in a run: traffic, and is it too fast
  Threads,         \* the worker threads of this process
  Agents,          \* the agents of this process
  Traffics,        \* the mixtures of gets and sets
  Average,         \* what stands for N of --search=avg:X
  Statistic,       \* N of --search=N:X, a percentile or Average
  Bound,           \* X of it, in microseconds
  Knees,           \* the rates from which on a server is too slow
  Peaks,           \* the rates at which it can answer at most
  Scans            \* --scan=min:max:step

\* One go() has threads 1 .. Threads and then its agents.
Parties == 1 .. Threads + Agents

ASSUME SearchAssumption ==
  /\ Threads \in Nat
  /\ Agents \in Nat
  /\ Statistic \subseteq Nat \union {Average}
  /\ Bound \in Nat
  /\ Knees \subseteq Nat \ {0}
  /\ Peaks \subseteq Nat
  /\ \A t \in Traffics, slow \in BOOLEAN :
       Requests(t, slow) \in
         Seq([type : {"get", "set"}, time : Nat, by : Parties])

\* A step of 0 or less would never get to max.
ASSUME ScanAssumption ==
  Scans \subseteq [min : Nat, max : Nat, step : Nat \ {0}]

VARIABLES
  pc,        \* where main is
  traffic, statistic, knee, peak_qps, scan,  \* what is run and against what
  high_qps, low_qps, cur_qps,
  qps,       \* options.qps of the last run, 0 for no limit
  stats      \* what it measured

given == <<traffic, statistic, knee, peak_qps, scan>>
searchVars == <<pc, given, high_qps, low_qps, cur_qps, qps, stats>>

-----------------------------------------------------------------------------
(* go(), as seen from main.                                                *)

\* A run without a limit is as fast as the server lets it be.
TooFast(rate) == knee <= (IF rate = 0 THEN peak_qps ELSE rate)

\* Party p logs what it sent itself.
LogOne(st, request, p) ==
  IF request.by # p THEN st
  ELSE IF request.type = "get" THEN LogGet(st, request.time)
  ELSE LogSet(st, request.time)

StatsOf(t, slow, p) ==
  [FoldLeft(LAMBDA st, r : LogOne(st, r, p), NoStats, Requests(t, slow))
     EXCEPT !.interval = p]

\* Threads are joined in the order of their creation, then the agents answer.
Collect(st, t, slow, p) ==
  IF p <= Threads THEN Accumulate(st, StatsOf(t, slow, p))
  ELSE AccumulateAgent(st, AgentStats(StatsOf(t, slow, p)))

Collected ==
  [t \in Traffics |->
     [slow \in BOOLEAN |->
        FoldLeft(LAMBDA st, p : Collect(st, t, slow, p), NoStats,
                 [p \in Parties |-> p])]]

\* Every run but the first begins with new statistics.
Before_Kept(st) == st
Before(st) == NoStats

\* nth > x: the percentile, or the average, of all that was measured.
Over(st) == IF statistic = Average THEN GetAvgAbove(st, Bound)
            ELSE GetNthAbove(st, statistic, Bound)

Run(rate) == /\ qps' = rate
             /\ stats' = Accumulate(Before(stats),
                                   Collected[traffic][TooFast(rate)])

-----------------------------------------------------------------------------

SearchInit ==
  /\ pc \in {"peak", "scan"}
  /\ traffic \in Traffics
  /\ IF pc = "scan"
     THEN scan \in Scans /\ statistic = CHOOSE n \in Statistic : TRUE
     ELSE statistic \in Statistic /\ scan = CHOOSE s \in Scans : TRUE
  /\ knee \in Knees
  /\ peak_qps \in Peaks
  /\ high_qps = 10000000
  /\ low_qps = 1
  /\ cur_qps = IF pc = "scan" THEN scan.min ELSE 0
  /\ qps = 0
  /\ stats = NoStats

\* Neither --search nor --scan was given.
SearchNone ==
  /\ pc = "done"
  /\ traffic = CHOOSE t \in Traffics : TRUE
  /\ statistic = CHOOSE n \in Statistic : TRUE
  /\ knee = CHOOSE k \in Knees : TRUE
  /\ peak_qps = CHOOSE p \in Peaks : TRUE
  /\ scan = CHOOSE s \in Scans : TRUE
  /\ high_qps = 10000000
  /\ low_qps = 1
  /\ cur_qps = 0
  /\ qps = 0
  /\ stats = NoStats

\* First the rate the server can answer, whatever the latency.
Peak ==
  /\ pc = "peak"
  /\ Run(0)
  /\ high_qps' = peak_qps
  /\ cur_qps' = peak_qps
  /\ pc' = IF Over(stats') THEN "bisect" ELSE "done"
  /\ UNCHANGED <<given, low_qps>>

\* Both loops give up at a hundredth of the peak.
WorthIt == 100 * cur_qps > peak_qps

Apart == 100 * high_qps > 102 * low_qps

Middle_Up == (high_qps + low_qps + 1) \div 2
Middle == (high_qps + low_qps) \div 2

Bisect ==
  /\ pc = "bisect"
  /\ Apart /\ WorthIt
  /\ Run(Middle)
  /\ cur_qps' = Middle
  /\ IF Over(stats') THEN high_qps' = Middle /\ UNCHANGED low_qps
     ELSE low_qps' = Middle /\ UNCHANGED high_qps
  /\ UNCHANGED <<pc, given>>

Bisected == pc = "bisect" /\ ~(Apart /\ WorthIt)

NearLow_Never == FALSE
NearLow == 10 * cur_qps > 9 * low_qps

StepsDown == Over(stats) /\ WorthIt /\ NearLow

\* If the bisection ended above the limit, 1 % is taken off until it is met.
Lower(rate) == (rate * 99) \div 100

StepDown ==
  /\ Bisected \/ pc = "down"
  /\ StepsDown
  /\ Run(Lower(cur_qps))
  /\ cur_qps' = Lower(cur_qps)
  /\ pc' = "down"
  /\ UNCHANGED <<given, high_qps, low_qps>>

Finish ==
  /\ Bisected \/ pc = "down"
  /\ ~StepsDown
  /\ pc' = "done"
  /\ UNCHANGED <<given, high_qps, low_qps, cur_qps, qps, stats>>

Scan ==
  /\ pc = "scan"
  /\ cur_qps <= scan.max
  /\ Run(cur_qps)
  /\ cur_qps' = cur_qps + scan.step
  /\ UNCHANGED <<pc, given, high_qps, low_qps>>

ScanOver ==
  /\ pc = "scan"
  /\ cur_qps > scan.max
  /\ pc' = "done"
  /\ UNCHANGED <<given, high_qps, low_qps, cur_qps, qps, stats>>

Search == Peak \/ Bisect \/ StepDown \/ Finish \/ Scan \/ ScanOver

\* Every run takes its time and ends.
SearchSpec == SearchInit /\ [][Search]_searchVars /\ WF_searchVars(Search)

-----------------------------------------------------------------------------
(* What the search promises.                                               *)

HasRun == stats.interval # 0

Logged == Requests(traffic, TooFast(qps))
LoggedGets == {k \in DOMAIN Logged : Logged[k].type = "get"}

\* A run is measured by itself and completely: each bin of the merged
\* histogram, through the threads and the agents, holds the gets of this run
\* and no other.  The agents have no last bin (AgentStats.h:12), so what they
\* would count there is missing from it.
MergedAsLogged ==
  HasRun =>
    /\ stats.gets = Cardinality(LoggedGets)
    /\ \A i \in Bins :
         stats.get.bins[i] =
           Cardinality({k \in LoggedGets :
                          /\ BinOf(Logged[k].time) = i
                          /\ Logged[k].by <= Threads \/ i < NBins})

\* Among the gets of the run the one at index k has rank n, from 0 on; gets
\* that took equally long share their ranks.
HasRank(k, n) ==
  /\ Cardinality({j \in LoggedGets : Logged[j].time < Logged[k].time}) <= n
  /\ n < Cardinality({j \in LoggedGets : Logged[j].time <= Logged[k].time})

\* get_nth answers with the bin of the get at that rank among all gets of the
\* run, for a percentile below 100 and when no agent lost one.
NthIsRanked ==
  HasRun /\ stats.gets > 0 /\ Total(stats.get) = stats.gets =>
    \A nth \in {0, 10, 50, 90, 95, 99, 999, 9999} :
      \E k \in LoggedGets :
        /\ HasRank(k, (stats.gets * nth) \div Scale(nth))
        /\ NthBin(stats.get, nth) = BinOf(Logged[k].time)

\* The search finds the limit when there is one to find: from a server that is
\* too slow at its peak, but not at a fiftieth of it, the last run is one that
\* met the bound, 3 % or 2 operations per second below the limit at most.
\* README.md:180-183 says what --search is for.
FindsLimit ==
  pc = "done" /\ high_qps <= peak_qps /\ TooFast(0) /\ 50 * knee > peak_qps
     /\ knee > 1
    => cur_qps < knee /\ 100 * cur_qps >= 97 * knee - 200

\* Bounds that are neighbours below 50 are more than 2 % apart, and their
\* middle is the lower one: if that one meets the bound, the bisection runs it
\* for ever.  Servers that can do 5000 do not get there.
Stalled == /\ pc = "bisect"
           /\ high_qps = low_qps + 1
           /\ cur_qps = low_qps
           /\ peak_qps < 5000

\* But for these, every search and every scan ends.
SearchEnds == <>(pc = "done" \/ Stalled)
=============================================================================
