----------------------------- MODULE Statistics -----------------------------
(***************************************************************************)
(* What a run measured: the histogram of latencies                         *)
(* (src/LogHistogramSampler.h), the statistics of a connection, a thread   *)
(* or a process built on it (src/ConnectionStats.h), and the extract of    *)
(* them an agent sends to its master (src/AgentStats.h, src/mcperf.cc).    *)
(*                                                                         *)
(* A latency is a number of microseconds.  Bin i takes what is at least    *)
(* Edge[i], 1.08 to the power of i in the code, and less than Edge[i+1];   *)
(* the last bin takes all above, the first one all below.  Quotients are   *)
(* compared by their cross products, so that percentiles and averages are  *)
(* exact.  Bytes, misses and skips are added up like gets and are left     *)
(* out; op_sampler and sum_sq do not take part in any decision.            *)
(***************************************************************************)
EXTENDS Integers, SequencesExt

CONSTANTS
  NBins,  \* LOGSAMPLER_BINS: the histogram has one bin more
  Edge    \* the least latency of each bin, and where the last one ends

ASSUME BinsAssumption ==
  /\ NBins \in Nat \ {0}
  /\ Edge \in [0 .. NBins + 1 -> Nat]
  /\ \A i \in 0 .. NBins : Edge[i] < Edge[i + 1]

Bins == 0 .. NBins

-----------------------------------------------------------------------------
(* LogHistogramSampler.                                                    *)

NoSamples == [bins |-> [i \in Bins |-> 0], sum |-> 0]

BinsBelow(s) == {i \in Bins : Edge[i] <= s}
BinOf(s) == IF BinsBelow(s) = {} THEN 0 ELSE Max(BinsBelow(s))

Sample(h, s) == [bins |-> [h.bins EXCEPT ![BinOf(s)] = @ + 1],
                 sum  |-> h.sum + s]

UpTo(h, i) == SumFunctionOnSet(h.bins, 0 .. i)
Total(h) == SumFunction(h.bins)

\* 999 stands for 99.9 and 9999 for 99.99.
Scale(nth) == CASE nth > 1000 -> 10000
                [] nth > 100 /\ nth <= 1000 -> 1000
                [] OTHER -> 100

\* The bins up to which there are more samples than the target.
Enough_AtLeast(h, nth) ==
  {i \in Bins : UpTo(h, i) * Scale(nth) >= Total(h) * nth}
Enough(h, nth) == {i \in Bins : UpTo(h, i) * Scale(nth) > Total(h) * nth}

\* The bin get_nth finds the nth in, and one beyond the last if it finds none.
NthBin(h, nth) == IF Enough(h, nth) = {} THEN NBins + 1 ELSE Min(Enough(h, nth))

\* get_nth(nth) > x.  Inside its bin the nth is found by linear interpolation.
NthAbove(h, nth, x) ==
  LET i    == NthBin(h, nth)
      left == Total(h) * nth - Scale(nth) * UpTo(h, i - 1)
  IN IF i > NBins THEN Edge[NBins + 1] > x
     ELSE (x - Edge[i]) * h.bins[i] * Scale(nth) < left * (Edge[i + 1] - Edge[i])

\* average() > x.  Without samples it is 0 / 0, which is above nothing.
AverageAbove(h, x) == Total(h) > 0 /\ h.sum > x * Total(h)

MergeSamples(h, g) == [bins |-> [i \in Bins |-> h.bins[i] + g.bins[i]],
                       sum  |-> h.sum + g.sum]

-----------------------------------------------------------------------------
(* ConnectionStats.  interval names whose start and stop they hold.        *)

NoStats == [get |-> NoSamples, set |-> NoSamples, gets |-> 0, sets |-> 0,
            interval |-> 0]

LogGet(st, s) == [st EXCEPT !.get = Sample(@, s), !.gets = @ + 1]
LogSet(st, s) == [st EXCEPT !.set = Sample(@, s), !.sets = @ + 1]

\* The larger one of gets and sets decides; the sets only if there are any.
GetNthAbove(st, nth, x) ==
  \/ NthAbove(st.get, nth, x)
  \/ Total(st.set) > 0 /\ NthAbove(st.set, nth, x)
GetAvgAbove(st, x) == AverageAbove(st.get, x) \/ AverageAbove(st.set, x)

\* accumulate(const ConnectionStats&).
Accumulate(st, cs) ==
  [get      |-> MergeSamples(st.get, cs.get),
   set      |-> MergeSamples(st.set, cs.set),
   gets     |-> st.gets + cs.gets,
   sets     |-> st.sets + cs.sets,
   interval |-> cs.interval]

\* What agent() fills AgentStats with: the bins but the last, and no sets.
AgentStats(st) ==
  [bins |-> [i \in 0 .. NBins - 1 |-> st.get.bins[i]], sum |-> st.get.sum,
   gets |-> st.gets, sets |-> st.sets, interval |-> st.interval]

\* accumulate(const AgentStats&).
AgentBins_Short(as) == 0 .. NBins - 2
AgentBins(as) == DOMAIN as.bins

AccumulateAgent(st, as) ==
  [get      |-> [bins |-> [i \in Bins |-> st.get.bins[i] +
                             (IF i \in AgentBins(as) THEN as.bins[i] ELSE 0)],
                 sum  |-> st.get.sum + as.sum],
   set      |-> st.set,
   gets     |-> st.gets + as.gets,
   sets     |-> st.sets + as.sets,
   interval |-> as.interval]
=============================================================================
