--------------------------- MODULE SequentialProofs ---------------------------
(***************************************************************************)
(* What is proved of the sequential parts of mcperf: the pool of keys, the *)
(* search for the highest rate and the pace of a connection.               *)
(***************************************************************************)
EXTENDS QpsSearch, KeyCache, Generator, FoldProofs

-----------------------------------------------------------------------------
(* The pool of keys.                                                       *)

\* Its size, and how much of it is renewed at least.
LEMMA Sizes ==
  ASSUME NEW s \in Settings
  PROVE  /\ Capacity(s) \in Nat \ {0}
         /\ Freedom(s) \in Nat \ {0}
         /\ MaxIterations(s) \in Nat
         /\ Slots(s) \subseteq Loaded(s)
         /\ (IF Given(s) THEN s.capacity ELSE DefaultCapacity) >= s.records
              => Slots(s) = Loaded(s)
<1>1. /\ s.records \in Nat \ {0} /\ s.capacity \in Nat /\ s.reuse \in Nat
      /\ s.regen \in Nat
      /\ DefaultCapacity \in Nat \ {0} /\ DefaultReuse \in Nat
      /\ DefaultRegen \in Nat
  BY SettingsAssumption
<1>2. Capacity(s) \in Nat \ {0}
  BY <1>1 DEF Capacity, Given
<1>3. Freedom(s) \in Nat \ {0}
  <2> DEFINE percent == IF Given(s) THEN s.regen ELSE DefaultRegen
             part == Capacity(s) * percent
  <2>1. part \in Nat
    <3>1. percent \in Nat
      BY <1>1
    <3> HIDE DEF percent
    <3> QED
      BY <1>2, <3>1
  <2>2. Freedom(s) = IF part \div 100 = 0 THEN 1 ELSE part \div 100
    BY DEF Freedom
  <2> HIDE DEF part
  <2> QED
    BY <2>1, <2>2
<1> QED
  BY <1>1, <1>2, <1>3
  DEF Capacity, MaxIterations, Slots, Loaded, Given

\* Renewing at most 100 % does not divide by zero.
LEMMA NoExcess ==
  ASSUME NEW s \in Settings, s.regen <= 100
  PROVE  Freedom(s) \in 1 .. Capacity(s)
<1> DEFINE percent == IF Given(s) THEN s.regen ELSE DefaultRegen
           part == Capacity(s) * percent
<1>1. percent \in 0 .. 100
  BY SettingsAssumption
<1>2. Capacity(s) \in Nat \ {0} /\ Freedom(s) \in Nat \ {0}
  BY Sizes
<1>3. part \in Nat /\ part <= Capacity(s) * 100
  <2> HIDE DEF percent
  <2> QED
    BY <1>1, <1>2
<1>4. Freedom(s) = IF part \div 100 = 0 THEN 1 ELSE part \div 100
  BY DEF Freedom
<1> HIDE DEF part
<1>5. part \div 100 <= Capacity(s)
  BY <1>2, <1>3
<1> QED
  BY <1>2, <1>4, <1>5

\* A renewal takes every step-th slot from offset on, so Freedom of them have
\* room in the pool.
LEMMA Renewal ==
  ASSUME NEW C \in Nat \ {0}, NEW F \in 1 .. C,
         NEW offset \in 0 .. (C \div F) - 1, NEW step \in 1 .. C \div F
  PROVE  \A k \in 0 .. F - 1 :
           /\ offset + k * step \in 0 .. C - 1
           /\ (k * step) % step = 0
<1> DEFINE P == C \div F
<1>1. P \in Nat /\ step \in 1 .. P /\ offset \in 0 .. P - 1 /\ F * P <= C
  OBVIOUS
<1> SUFFICES ASSUME NEW k \in 0 .. F - 1
             PROVE  /\ offset + k * step \in 0 .. C - 1
                    /\ (k * step) % step = 0
  OBVIOUS
<1> HIDE DEF P
<1>2. k * step \in Nat /\ k * step <= (F - 1) * P
  <2>1. k * step \in Nat /\ k * step <= (F - 1) * step
    BY <1>1
  <2>2. (F - 1) * step <= (F - 1) * P
    BY <1>1
  <2>3. (F - 1) * step \in Int /\ (F - 1) * P \in Int
    BY <1>1
  <2> QED
    BY <2>1, <2>2, <2>3
<1>3. (F - 1) * P = F * P - P /\ F * P \in Int
  BY <1>1
<1>4. offset + k * step \in 0 .. C - 1
  BY <1>1, <1>2, <1>3
<1>5. (k * step) % step = 0
  BY <1>1
<1> QED
  BY <1>4, <1>5
\* A pool in use: its place in its current pass, and the passes it has made.
CacheInv ==
  /\ pool \in {"ready", "crashed"}
  /\ setting \in Settings
  /\ values \in [Slots(setting) -> Loaded(setting)]
  /\ next \in Slots(setting)
  /\ iterations \in 0 .. MaxIterations(setting)
  /\ sent = iterations * Capacity(setting) + next
  /\ pool = "crashed" => Freedom(setting) \notin 1 .. Capacity(setting)

LEMMA CacheStarts == CacheInit => CacheInv
<1> SUFFICES ASSUME CacheInit
             PROVE  CacheInv
  OBVIOUS
<1>1. setting \in Settings /\ pool = "ready" /\ next = 0 /\ iterations = 0
      /\ sent = 0
  BY DEF CacheInit
<1>2. /\ Capacity(setting) \in Nat \ {0} /\ MaxIterations(setting) \in Nat
      /\ Slots(setting) \subseteq Loaded(setting)
  BY <1>1, Sizes
<1>3. values \in [Slots(setting) -> Loaded(setting)]
  BY <1>2 DEF CacheInit, FreshKeys, Filled
<1> QED
  BY <1>1, <1>2, <1>3 DEF CacheInv, Slots

LEMMA CacheStep == CacheInv /\ [CacheNext]_cacheVars => CacheInv'
<1> SUFFICES ASSUME CacheInv, [CacheNext]_cacheVars
             PROVE  CacheInv'
  OBVIOUS
<1>1. /\ setting' = setting /\ setting \in Settings
      /\ values \in [Slots(setting) -> Loaded(setting)]
      /\ Capacity(setting) \in Nat \ {0} /\ MaxIterations(setting) \in Nat
      /\ Slots(setting) = 0 .. Capacity(setting) - 1
      /\ Slots(setting) \subseteq Loaded(setting)
  BY Sizes DEF CacheInv, CacheNext, NextKey, NextPass, Regenerate,
               DivideByZero, cacheVars, Slots
<1>2. next \in Nat /\ iterations \in Nat
  BY <1>1 DEF CacheInv
<1>3. CASE NextKey
  BY <1>1, <1>2, <1>3 DEF CacheInv, NextKey, WithinPass
<1>4. CASE NextPass
  <2>1. next + 1 = Capacity(setting) /\ iterations + 1 <= MaxIterations(setting)
    BY <1>1, <1>2, <1>4 DEF CacheInv, NextPass, WithinPass, Exhausted
  <2>2. (iterations + 1) * Capacity(setting)
          = iterations * Capacity(setting) + Capacity(setting)
    BY <1>1, <1>2
  <2>3. iterations * Capacity(setting) \in Nat
    BY <1>1, <1>2
  <2>4. sent' = iterations' * Capacity(setting) + next'
    <3>1. /\ sent = iterations * Capacity(setting) + next /\ sent' = sent + 1
          /\ iterations' = iterations + 1 /\ next' = 0
      BY <1>4 DEF CacheInv, NextPass
    <3> HIDE DEF CacheInv
    <3>2. sent' = iterations * Capacity(setting) + Capacity(setting)
      BY <1>1, <1>2, <2>1, <2>3, <3>1
    <3>3. sent' = (iterations + 1) * Capacity(setting)
      BY <2>2, <3>2
    <3>4. (iterations + 1) * Capacity(setting) \in Int
      BY <1>1, <1>2
    <3> QED
      BY <3>1, <3>3, <3>4
  <2>5. /\ setting' \in Settings /\ values' = values /\ pool' = pool
        /\ next' = 0 /\ iterations' = iterations + 1
    BY <1>1, <1>4 DEF NextPass
  <2>6. next' \in Slots(setting) /\ iterations' \in 0 .. MaxIterations(setting)
    BY <1>1, <1>2, <2>1, <2>5
  <2>7. pool = "crashed" => Freedom(setting) \notin 1 .. Capacity(setting)
    BY DEF CacheInv
  <2> QED
    BY <1>1, <2>4, <2>5, <2>6, <2>7 DEF CacheInv
<1>5. CASE Regenerate
  <2>1. values' \in [Slots(setting) -> Loaded(setting)]
    BY <1>1, <1>5 DEF Regenerate, RegenSlots, FreshKeys, Filled
  <2> QED
    BY <1>1, <1>5, <2>1 DEF CacheInv, Regenerate
<1>6. CASE DivideByZero
  BY <1>1, <1>6 DEF CacheInv, DivideByZero
<1>7. CASE UNCHANGED cacheVars
  BY <1>7 DEF CacheInv, cacheVars
<1> QED
  BY <1>3, <1>4, <1>5, <1>6, <1>7 DEF CacheNext

LEMMA CacheInvKept == CacheSpec => []CacheInv
BY CacheStarts, CacheStep, PTL DEF CacheSpec

\* Whatever the settings, every slot holds a key the loader has stored, also
\* after a renewal; and with room for all records a slot found by a random
\* number below records is in the pool (Connection.cc:210).
THEOREM KeysOfTheLoader == CacheSpec => []KeysLoaded
<1>1. CacheInv => KeysLoaded
  BY Sizes DEF CacheInv, KeysLoaded
<1> QED
  BY <1>1, CacheInvKept, PTL

\* Whatever the settings, the keys are used once and then reuse times, to the
\* key, between one renewal and the next, as --keycache_reuse says
\* (cmdline.ggo:74).  That is one pass more than KeyGenerator.h:89 has for 1.
PassesCounted ==
  [][pool' = "ready" =>
       (sent' = 0 <=> sent + 1 = (MaxIterations(setting) + 1)
                                   * Capacity(setting))]_cacheVars

THEOREM PassesAreCounted == CacheSpec => PassesCounted
<1> DEFINE Told == pool' = "ready" =>
                     (sent' = 0 <=> sent + 1 = (MaxIterations(setting) + 1)
                                                 * Capacity(setting))
<1>1. CacheInv /\ [CacheNext]_cacheVars => [Told]_cacheVars
  <2> SUFFICES ASSUME CacheInv, CacheNext, pool' = "ready"
               PROVE  sent' = 0 <=> sent + 1 = (MaxIterations(setting) + 1)
                                                 * Capacity(setting)
    OBVIOUS
  <2> DEFINE C == Capacity(setting)
             M == MaxIterations(setting)
  <2>1. /\ C \in Nat \ {0} /\ M \in Nat /\ next \in 0 .. C - 1
        /\ iterations \in 0 .. M /\ sent = iterations * C + next
        /\ WithinPass <=> next + 1 < C
        /\ Exhausted <=> iterations + 1 > M
    BY Sizes DEF CacheInv, Slots, WithinPass, Exhausted
  <2>2. \/ WithinPass /\ sent' = sent + 1
        \/ ~WithinPass /\ ~Exhausted /\ sent' = sent + 1
        \/ ~WithinPass /\ Exhausted /\ sent' = 0
    BY DEF CacheNext, NextKey, NextPass, Regenerate, DivideByZero
  <2> SUFFICES sent' = 0 <=> sent + 1 = (M + 1) * C
    OBVIOUS
  <2> HIDE DEF C, M
  <2>3. (M + 1) * C = M * C + C /\ M * C \in Nat
    BY <2>1
  <2>4. iterations * C \in Nat /\ iterations * C <= M * C
    BY <2>1
  <2>5. iterations < M => iterations * C + C <= M * C
    <3> SUFFICES ASSUME iterations < M
                 PROVE  iterations * C + C <= M * C
      OBVIOUS
    <3>1. iterations * C + C = (iterations + 1) * C
      BY <2>1
    <3>2. (iterations + 1) * C <= M * C
      BY <2>1
    <3> QED
      BY <3>1, <3>2
  <2>6. iterations = M \/ iterations < M
    BY <2>1
  <2>7. CASE iterations = M
    BY <2>1, <2>2, <2>3, <2>4, <2>7
  <2>8. CASE iterations < M
    BY <2>1, <2>2, <2>3, <2>4, <2>5, <2>8
  <2> QED
    BY <2>6, <2>7, <2>8
<1> QED
  BY <1>1, CacheInvKept, PTL DEF CacheSpec, PassesCounted

\* Whatever the settings, the process dies of a renewal of more than 100 % only.
THEOREM OnlyExcessKills == CacheSpec => []DiesOfExcess
<1>1. CacheInv => DiesOfExcess
  <2> SUFFICES ASSUME CacheInv, pool = "crashed", ~(setting.regen > 100)
               PROVE  FALSE
    BY DEF DiesOfExcess
  <2>1. setting \in Settings /\ setting.regen \in Nat
    BY SettingsAssumption DEF CacheInv
  <2> QED
    BY <2>1, NoExcess DEF CacheInv
<1> QED
  BY <1>1, CacheInvKept, PTL

\* Whatever the settings, and whatever numbers rand returns, a renewal replaces
\* Freedom keys at least: those at offset, offset + step and so on are as many.
LEMMA RenewsFreedom ==
  ASSUME CacheInv, Regenerate
  PROVE  /\ IsFiniteSet(renewed') /\ Cardinality(renewed') >= Freedom(setting)
         /\ Freedom(setting) = Capacity(setting)
              => renewed' = Slots(setting)
<1> DEFINE C == Capacity(setting)
           F == Freedom(setting)
<1>1. PICK offset \in 0 .. Parts - 1, step \in Steps :
        renewed' = RegenSlots(step, offset)
  BY DEF Regenerate
<1>2. /\ C \in Nat \ {0} /\ F \in 1 .. C /\ Parts = C \div F
      /\ Slots(setting) = 0 .. C - 1 /\ step \in 1 .. Parts
  BY Sizes DEF CacheInv, Regenerate, Parts, Steps, Slots
<1>3. IsFiniteSet(renewed')
  <2>1. IsFiniteSet(0 .. C - 1)
    BY <1>2, FS_Interval
  <2>2. renewed' \subseteq 0 .. C - 1
    BY <1>1, <1>2 DEF RegenSlots
  <2> QED
    BY <2>1, <2>2, FS_Subset
<1> DEFINE place == [k \in 0 .. F - 1 |-> offset + k * step]
<1>4. place \in Injection(0 .. F - 1, renewed')
  <2>1. ASSUME NEW k \in 0 .. F - 1
        PROVE  place[k] \in renewed'
    <3>1. offset + k * step \in 0 .. C - 1 /\ (k * step) % step = 0
      <4> HIDE DEF C, F
      <4> QED
        BY <1>1, <1>2, Renewal
    <3>2. k * step \in Nat /\ offset \in Nat
      <4> HIDE DEF C, F
      <4> QED
        BY <1>2
    <3>3. (offset + k * step) - offset = k * step /\ offset + k * step >= offset
      BY <3>2
    <3> QED
      BY <1>1, <1>2, <3>1, <3>3 DEF RegenSlots
  <2>2. ASSUME NEW k \in 0 .. F - 1, NEW l \in 0 .. F - 1, place[k] = place[l]
        PROVE  k = l
    <3> HIDE DEF F, C
    <3>1. k * step = l * step
      BY <1>2, <2>2
    <3> QED
      BY <1>2, <3>1
  <2>3. place \in [0 .. F - 1 -> renewed']
    BY <2>1
  <2> HIDE DEF place
  <2> QED
    BY <2>2, <2>3 DEF Injection, IsInjective
<1>5. Cardinality(0 .. F - 1) = F
  <2> HIDE DEF F
  <2> QED
    BY <1>2, FS_Interval
<1>6. Cardinality(renewed') >= F
  BY <1>3, <1>4, <1>5, FS_Injection
<1>7. ASSUME F = C
      PROVE  renewed' = Slots(setting)
  <2> HIDE DEF F, C
  <2>1. Parts = 1
    BY <1>2, <1>7
  <2>2. offset = 0 /\ step = 1
    BY <1>2, <2>1
  <2>3. \A i \in Slots(setting) : i >= 0 /\ (i - 0) % 1 = 0
    BY <1>2
  <2> QED
    BY <1>1, <2>2, <2>3 DEF RegenSlots
<1> QED
  BY <1>3, <1>6, <1>7

\* Whatever the settings, and whatever numbers rand returns, each renewal
\* replaces Freedom keys at least, and all of them if Freedom is the capacity.
THEOREM RenewalsSuffice == CacheSpec => []RenewsEnough
<1>1. CacheInit => RenewsEnough
  BY DEF CacheInit, RenewsEnough
<1>2. CacheInv /\ RenewsEnough /\ [CacheNext]_cacheVars => RenewsEnough'
  <2> SUFFICES ASSUME CacheInv, RenewsEnough, [CacheNext]_cacheVars
               PROVE  RenewsEnough'
    OBVIOUS
  <2>1. /\ setting' = setting /\ pool # "none"
        /\ Slots(setting)' = Slots(setting)
        /\ Freedom(setting)' = Freedom(setting)
        /\ Capacity(setting)' = Capacity(setting)
    BY DEF CacheInv, CacheNext, NextKey, NextPass, Regenerate, DivideByZero,
           cacheVars, Slots, Freedom, Capacity, Given
  <2>2. CASE Regenerate
    BY <2>1, <2>2, RenewsFreedom DEF RenewsEnough, Regenerate
  <2>3. CASE ~Regenerate
    <3>1. renewed' = renewed /\ (pool' = pool \/ pool' = "crashed")
      BY <2>3 DEF CacheNext, NextKey, NextPass, DivideByZero, cacheVars
    <3> QED
      BY <2>1, <3>1 DEF RenewsEnough
  <2> QED
    BY <2>2, <2>3
<1> QED
  BY <1>1, <1>2, CacheInvKept, PTL DEF CacheSpec

-----------------------------------------------------------------------------
(* The search.                                                             *)

\* What is over the bound by the statistic n.
OverBy(n, st) == IF n = Average THEN GetAvgAbove(st, Bound)
                 ELSE GetNthAbove(st, n, Bound)

\* Each statistic tells the runs that are too fast from the others.  It does
\* for gets; for sets alone it does not (the comment of get_nth).
Discerns ==
  \A n \in Statistic, t \in Traffics, slow \in BOOLEAN :
    OverBy(n, Accumulate(NoStats, Collected[t][slow])) <=> slow

\* There is a limit, and the bisection gets to it before it gives up.
HasLimit == knee <= peak_qps /\ 50 * knee > peak_qps /\ knee > 1

\* The bounds enclose the limit, cur_qps is one of them, or on its way down from
\* the upper one, and the last run is of cur_qps.
Enclosed ==
  pc # "peak" =>
    /\ Over(stats) <=> knee <= cur_qps
    /\ low_qps \in 1 .. knee - 1
    /\ high_qps \in knee .. peak_qps
    /\ pc = "bisect" => cur_qps \in {low_qps, high_qps}
                        /\ 100 * cur_qps > peak_qps
    /\ pc = "down" => 100 * cur_qps >= 99 * knee - 99
    /\ pc = "done" => cur_qps < knee /\ 100 * cur_qps >= 97 * knee - 200

SearchInv ==
  /\ pc \in {"peak", "bisect", "down", "done"}
  /\ traffic \in Traffics /\ statistic \in Statistic
  /\ knee \in Nat \ {0} /\ peak_qps \in Nat
  /\ low_qps \in Nat /\ high_qps \in Nat /\ cur_qps \in Nat
  /\ pc = "peak" => low_qps = 1
  /\ HasLimit => Enclosed

\* What a run shows.
LEMMA RunTells ==
  ASSUME Discerns, SearchInv, NEW rate \in Nat, Run(rate)
  PROVE  Over(stats') <=> TooFast(rate)
<1>1. stats' = Accumulate(NoStats, Collected[traffic][TooFast(rate)])
  BY DEF Run, Before
<1>2. TooFast(rate) \in BOOLEAN
  BY DEF TooFast
<1>3. OverBy(statistic, stats') <=> TooFast(rate)
  BY <1>1, <1>2 DEF Discerns, SearchInv
<1> QED
  BY <1>3 DEF Over, OverBy

LEMMA SearchStarts == SearchInit /\ pc = "peak" => SearchInv
<1>1. Knees \subseteq Nat \ {0} /\ Peaks \subseteq Nat
  BY SearchAssumption
<1> QED
  BY <1>1 DEF SearchInit, SearchInv, Enclosed

LEMMA BisectStep ==
  ASSUME Discerns, SearchInv, Bisect
  PROVE  SearchInv'
<1>1. /\ pc = "bisect" /\ pc' = "bisect" /\ cur_qps' = Middle
      /\ UNCHANGED <<traffic, statistic, knee, peak_qps>>
      /\ Over(stats)' = Over(stats')
  BY DEF Bisect, given, Over
<1>2. Middle \in Nat
  BY DEF SearchInv, Middle
<1>3. Over(stats') <=> TooFast(Middle)
  BY <1>2, RunTells DEF Bisect
<1>4. \/ Over(stats') /\ high_qps' = Middle /\ low_qps' = low_qps
      \/ ~Over(stats') /\ low_qps' = Middle /\ high_qps' = high_qps
  BY DEF Bisect
<1>5. ASSUME HasLimit
      PROVE  Enclosed'
  <2>1. /\ low_qps \in 1 .. knee - 1 /\ high_qps \in knee .. peak_qps
        /\ knee \in Nat /\ peak_qps \in Nat
    BY <1>1, <1>5 DEF SearchInv, Enclosed
  <2>2. Middle >= 1 /\ 2 * Middle >= knee /\ Middle <= high_qps
    BY <2>1 DEF Middle
  <2>3. TooFast(Middle) <=> knee <= Middle
    BY <1>2, <2>2 DEF TooFast
  <2>4. 100 * Middle > peak_qps
    BY <1>2, <1>5, <2>1, <2>2 DEF HasLimit
  <2>5. /\ low_qps' \in 1 .. knee - 1 /\ high_qps' \in knee .. peak_qps
        /\ Middle \in {low_qps', high_qps'}
    BY <1>2, <1>3, <1>4, <2>1, <2>2, <2>3
  <2> QED
    BY <1>1, <1>3, <2>3, <2>4, <2>5 DEF Enclosed
<1>6. HasLimit' <=> HasLimit
  BY <1>1 DEF HasLimit
<1> QED
  BY <1>1, <1>2, <1>4, <1>5, <1>6 DEF SearchInv

LEMMA DownStep ==
  ASSUME Discerns, SearchInv, StepDown
  PROVE  SearchInv'
<1> DEFINE rate == Lower(cur_qps)
<1>1. /\ pc \in {"bisect", "down"} /\ pc' = "down" /\ cur_qps' = rate
      /\ UNCHANGED <<traffic, statistic, knee, peak_qps, high_qps, low_qps>>
      /\ Over(stats)' = Over(stats') /\ Over(stats)
  BY DEF StepDown, Bisected, StepsDown, given, Over
<1>2. rate \in Nat
  BY DEF SearchInv, Lower
<1>3. Over(stats') <=> TooFast(rate)
  <2> HIDE DEF rate
  <2> QED
    BY <1>2, RunTells DEF StepDown, rate
<1>4. ASSUME HasLimit
      PROVE  Enclosed'
  <2>1. /\ knee <= cur_qps /\ knee \in Nat /\ knee > 1 /\ cur_qps \in Nat
        /\ low_qps \in 1 .. knee - 1 /\ high_qps \in knee .. peak_qps
    BY <1>1, <1>4 DEF SearchInv, Enclosed, HasLimit
  <2>2. rate >= 1 /\ 100 * rate >= 99 * knee - 99
    BY <2>1 DEF Lower
  <2>3. TooFast(rate) <=> knee <= rate
    BY <1>2, <2>2 DEF TooFast
  <2> HIDE DEF rate
  <2> QED
    BY <1>1, <1>3, <2>1, <2>2, <2>3 DEF Enclosed
<1>5. HasLimit' <=> HasLimit
  BY <1>1 DEF HasLimit
<1> HIDE DEF rate
<1> QED
  BY <1>1, <1>2, <1>4, <1>5 DEF SearchInv

LEMMA FinishStep ==
  ASSUME SearchInv, Finish
  PROVE  SearchInv'
<1>1. /\ pc \in {"bisect", "down"} /\ pc' = "done"
      /\ UNCHANGED <<traffic, statistic, knee, peak_qps, high_qps, low_qps,
                     cur_qps, stats>>
      /\ Over(stats)' = Over(stats)
  BY DEF Finish, Bisected, given, Over
<1>2. ASSUME HasLimit
      PROVE  Enclosed'
  <2>1. /\ low_qps \in 1 .. knee - 1 /\ high_qps \in knee .. peak_qps
        /\ knee \in Nat /\ peak_qps \in Nat /\ cur_qps \in Nat
        /\ 50 * knee > peak_qps
        /\ Over(stats) <=> knee <= cur_qps
    BY <1>1, <1>2 DEF SearchInv, Enclosed, HasLimit
  <2>2. cur_qps < knee
    <3> SUFFICES ASSUME knee <= cur_qps
                 PROVE  StepsDown
      BY <2>1 DEF Finish
    <3>1. WorthIt
      BY <2>1 DEF WorthIt
    <3>2. NearLow
      BY <2>1 DEF NearLow
    <3> QED
      BY <2>1, <3>1, <3>2 DEF StepsDown
  <2>3. 100 * cur_qps >= 97 * knee - 200
    <3>1. CASE pc = "down"
      BY <1>2, <2>1, <3>1 DEF SearchInv, Enclosed
    <3>2. CASE pc = "bisect"
      <4>1. cur_qps = low_qps /\ WorthIt
        BY <1>2, <2>1, <2>2, <3>2 DEF SearchInv, Enclosed, WorthIt
      <4>2. ~Apart
        BY <3>2, <4>1 DEF Finish, Bisected
      <4> QED
        BY <2>1, <4>1, <4>2 DEF Apart
    <3> QED
      BY <1>1, <3>1, <3>2
  <2> QED
    BY <1>1, <2>1, <2>2, <2>3 DEF Enclosed
<1>3. HasLimit' <=> HasLimit
  BY <1>1 DEF HasLimit
<1> QED
  BY <1>1, <1>2, <1>3 DEF SearchInv

LEMMA PeakStep ==
  ASSUME Discerns, SearchInv, Peak
  PROVE  SearchInv'
<1>1. /\ pc = "peak" /\ low_qps = 1 /\ low_qps' = 1
      /\ high_qps' = peak_qps /\ cur_qps' = peak_qps
      /\ UNCHANGED <<traffic, statistic, knee, peak_qps>>
      /\ Over(stats)' = Over(stats')
      /\ pc' = IF Over(stats') THEN "bisect" ELSE "done"
  BY DEF Peak, SearchInv, given, Over
<1>2. Over(stats') <=> knee <= peak_qps
  <2>1. Over(stats') <=> TooFast(0)
    BY RunTells DEF Peak
  <2> QED
    BY <2>1 DEF TooFast
<1>3. ASSUME HasLimit
      PROVE  Enclosed'
  <2>1. knee \in Nat /\ peak_qps \in Nat /\ knee <= peak_qps /\ knee > 1
    BY <1>3 DEF SearchInv, HasLimit
  <2>2. 100 * peak_qps > peak_qps
    BY <2>1
  <2> QED
    BY <1>1, <1>2, <2>1, <2>2 DEF Enclosed
<1>4. HasLimit' <=> HasLimit
  BY <1>1 DEF HasLimit
<1> QED
  BY <1>1, <1>3, <1>4 DEF SearchInv

\* For every server and every bound: where the statistic tells, the search
\* ends below the limit, and within 3 % of it or 2 operations per second.
THEOREM SearchFindsLimit ==
  ASSUME Discerns
  PROVE  SearchInit /\ pc = "peak" /\ [][Search]_searchVars => []FindsLimit
<1>1. SearchInv /\ [Search]_searchVars => SearchInv'
  <2> SUFFICES ASSUME SearchInv, [Search]_searchVars
               PROVE  SearchInv'
    OBVIOUS
  <2>1. CASE UNCHANGED searchVars
    BY <2>1 DEF SearchInv, Enclosed, HasLimit, searchVars, given, Over
  <2>2. ~Scan /\ ~ScanOver
    BY DEF SearchInv, Scan, ScanOver
  <2> QED
    BY <2>1, <2>2, PeakStep, BisectStep, DownStep, FinishStep DEF Search
<1>2. SearchInv => FindsLimit
  BY DEF SearchInv, FindsLimit, HasLimit, Enclosed, TooFast
<1> QED
  BY <1>1, <1>2, SearchStarts, PTL

\* How far main is from the end: the loop it is in, and what is left of it.
Stage == CASE pc = "peak" -> 3
           [] pc = "bisect" -> 2
           [] pc \in {"down", "scan"} -> 1
           [] OTHER -> 0

Remaining == CASE pc = "bisect" -> high_qps - low_qps
          [] pc = "down" -> cur_qps
          [] pc = "scan" -> scan.max + scan.step - cur_qps
          [] OTHER -> 0

Nearer == \/ Stage' < Stage
          \/ Stage' = Stage /\ Remaining' \in 0 .. Remaining - 1

RatesInv ==
  /\ pc \in {"peak", "bisect", "down", "scan", "done"}
  /\ peak_qps \in Nat /\ low_qps \in Nat /\ high_qps \in Nat /\ cur_qps \in Nat
  /\ pc = "bisect" => cur_qps \in {low_qps, high_qps}
  /\ pc = "scan" => scan \in [min : Nat, max : Nat, step : Nat \ {0}]

\* Every run brings the search and the scan nearer to their end, whatever the
\* server makes of it, unless the bisection stalls: the bounds come together, the
\* rate goes down by 1 at least, or up to max.  No loop of main goes on for ever
\* where bounds that are neighbours are not Apart.
THEOREM SearchAdvances == SearchSpec => [][Nearer \/ Stalled']_searchVars
<1>1. SearchInit => RatesInv
  BY SearchAssumption, ScanAssumption DEF SearchInit, RatesInv
<1>2. ASSUME RatesInv, [Search]_searchVars
      PROVE  RatesInv' /\ ([Nearer \/ Stalled']_searchVars)
  <2> USE DEF RatesInv, Nearer, Stage, Remaining
  <2>1. CASE Peak
    BY <1>2, <2>1 DEF Peak, given
  <2>2. CASE Bisect
    <3>1. /\ pc = "bisect" /\ pc' = "bisect" /\ cur_qps' = Middle
          /\ 100 * high_qps > 102 * low_qps /\ 100 * cur_qps > peak_qps
          /\ \/ high_qps' = Middle /\ low_qps' = low_qps
             \/ high_qps' = high_qps /\ low_qps' = Middle
          /\ peak_qps' = peak_qps
      BY <2>2 DEF Bisect, Apart, WorthIt, given
    <3>2. Middle \in low_qps .. high_qps - 1 /\ Middle \in Nat
      BY <1>2, <3>1 DEF Middle
    <3>3. CASE Middle > low_qps \/ high_qps' = Middle
      BY <1>2, <3>1, <3>2, <3>3
    <3>4. CASE Middle = low_qps /\ high_qps' = high_qps /\ low_qps' = Middle
      <4>1. high_qps = low_qps + 1
        BY <1>2, <3>1, <3>4 DEF Middle
      <4>2. peak_qps < 5000
        BY <1>2, <3>1, <4>1
      <4> QED
        BY <1>2, <3>1, <3>2, <3>4, <4>1, <4>2 DEF Stalled
    <3> QED
      BY <1>2, <3>1, <3>2, <3>3, <3>4
  <2>3. CASE StepDown
    <3>1. /\ pc \in {"bisect", "down"} /\ pc' = "down" /\ cur_qps > 0
          /\ cur_qps' = (cur_qps * 99) \div 100
          /\ UNCHANGED <<peak_qps, high_qps, low_qps>>
      BY <1>2, <2>3 DEF StepDown, Bisected, StepsDown, WorthIt, Lower, given
    <3> QED
      BY <1>2, <3>1
  <2>4. CASE Finish
    BY <1>2, <2>4 DEF Finish, Bisected, given
  <2>5. CASE Scan
    BY <1>2, <2>5 DEF Scan, given
  <2>6. CASE ScanOver
    BY <1>2, <2>6 DEF ScanOver, given
  <2>7. CASE UNCHANGED searchVars
    BY <1>2, <2>7 DEF searchVars, given
  <2> QED
    BY <1>2, <2>1, <2>2, <2>3, <2>4, <2>5, <2>6, <2>7 DEF Search
<1> QED
  BY <1>1, <1>2, PTL DEF SearchSpec

-----------------------------------------------------------------------------
(* What is logged, and merged, in a run.                                   *)

Request == [type : {"get", "set"}, time : Nat, by : Parties]
Samples == [bins : [Bins -> Nat], sum : Nat]
Stats == [get : Samples, set : Samples, gets : Nat, sets : Nat, interval : Nat]

LEMMA PartiesType ==
  /\ Threads + Agents \in Nat /\ Parties \subseteq 0 .. Threads + Agents
  /\ IsFiniteSet(Parties)
<1>1. Threads + Agents \in Nat
  BY SearchAssumption
<1> QED
  BY <1>1, Count DEF Parties

LEMMA RequestsType ==
  ASSUME NEW t \in Traffics, NEW slow \in BOOLEAN
  PROVE  /\ Len(Requests(t, slow)) \in Nat
         /\ DOMAIN Requests(t, slow) = 1 .. Len(Requests(t, slow))
         /\ DOMAIN Requests(t, slow) \subseteq 0 .. Len(Requests(t, slow))
         /\ IsFiniteSet(DOMAIN Requests(t, slow))
         /\ \A k \in DOMAIN Requests(t, slow) : Requests(t, slow)[k] \in Request
<1> DEFINE req == Requests(t, slow)
<1>1. req \in Seq(Request)
  BY SearchAssumption DEF Request
<1> HIDE DEF req
<1>2. Len(req) \in Nat /\ DOMAIN req = 1 .. Len(req)
  BY <1>1, LenProperties
<1>3. \A k \in DOMAIN req : req[k] \in Request
  BY <1>1, <1>2, ElementOfSeq
<1>4. DOMAIN req \subseteq 0 .. Len(req)
  BY <1>2
<1> QED
  BY <1>2, <1>3, <1>4, Count DEF req

LEMMA BinOfType ==
  ASSUME NEW s \in Nat
  PROVE  BinOf(s) \in Bins
<1>1. NBins \in Nat /\ BinsBelow(s) \in SUBSET (0 .. NBins)
  BY BinsAssumption DEF BinsBelow, Bins
<1>2. BinsBelow(s) # {} => Max(BinsBelow(s)) \in BinsBelow(s)
  BY <1>1, MaxIn
<1> QED
  BY <1>1, <1>2 DEF BinOf, Bins

LEMMA NoStatsType == NoStats \in Stats
BY DEF NoStats, NoSamples, Stats, Samples

LEMMA LogOneType ==
  ASSUME NEW st \in Stats, NEW r \in Request, NEW p
  PROVE  /\ LogOne(st, r, p) \in Stats
         /\ LogOne(st, r, p).gets = st.gets +
              (IF r.by = p /\ r.type = "get" THEN 1 ELSE 0)
         /\ \A i \in Bins : LogOne(st, r, p).get.bins[i] = st.get.bins[i] +
              (IF r.by = p /\ r.type = "get" /\ BinOf(r.time) = i THEN 1 ELSE 0)
<1>1. BinOf(r.time) \in Bins /\ r.time \in Nat
  BY BinOfType DEF Request
<1>2. ASSUME NEW h \in Samples
      PROVE  /\ Sample(h, r.time) \in Samples
             /\ \A i \in Bins : Sample(h, r.time).bins[i]
                  = h.bins[i] + (IF BinOf(r.time) = i THEN 1 ELSE 0)
  BY <1>1 DEF Sample, Samples
<1>3. st.get \in Samples /\ st.set \in Samples
  BY DEF Stats
<1>7. /\ st = [get |-> st.get, set |-> st.set, gets |-> st.gets,
               sets |-> st.sets, interval |-> st.interval]
      /\ st.get \in Samples /\ st.set \in Samples /\ st.gets \in Nat
      /\ st.sets \in Nat /\ st.interval \in Nat
  BY DEF Stats
<1>4. CASE r.by # p
  BY <1>3, <1>4 DEF LogOne, Stats, Samples
<1>5. CASE r.by = p /\ r.type = "get"
  <2>1. LogOne(st, r, p) = [st EXCEPT !.get = Sample(@, r.time), !.gets = @ + 1]
    BY <1>5 DEF LogOne, LogGet
  <2> DEFINE h == Sample(st.get, r.time)
  <2>2. h \in Samples /\ \A i \in Bins :
          h.bins[i] = st.get.bins[i] + (IF BinOf(r.time) = i THEN 1 ELSE 0)
    BY <1>2, <1>3
  <2>3. LogOne(st, r, p) = [st EXCEPT !.get = h, !.gets = @ + 1]
    BY <2>1
  <2> HIDE DEF h
  <2>4. /\ LogOne(st, r, p) \in Stats /\ LogOne(st, r, p).get = h
        /\ LogOne(st, r, p).gets = st.gets + 1
    <3>1. LogOne(st, r, p) = [get |-> h, set |-> st.set, gets |-> st.gets + 1,
                              sets |-> st.sets, interval |-> st.interval]
      BY <1>7, <2>3
    <3> QED
      BY <1>7, <2>2, <3>1 DEF Stats
  <2> QED
    BY <1>5, <2>2, <2>4
<1>6. CASE r.by = p /\ r.type # "get"
  <2>1. LogOne(st, r, p) = [st EXCEPT !.set = Sample(@, r.time), !.sets = @ + 1]
    BY <1>6 DEF LogOne, LogSet
  <2> DEFINE h == Sample(st.set, r.time)
  <2>2. h \in Samples
    BY <1>2, <1>3
  <2>3. LogOne(st, r, p) = [st EXCEPT !.set = h, !.sets = @ + 1]
    BY <2>1
  <2> HIDE DEF h
  <2>4. /\ LogOne(st, r, p) \in Stats /\ LogOne(st, r, p).get = st.get
        /\ LogOne(st, r, p).gets = st.gets /\ st.gets \in Nat
    <3>1. LogOne(st, r, p) = [get |-> st.get, set |-> h, gets |-> st.gets,
                              sets |-> st.sets + 1, interval |-> st.interval]
      BY <1>7, <2>3
    <3> QED
      BY <1>7, <2>2, <3>1 DEF Stats
  <2>5. \A i \in Bins : st.get.bins[i] \in Nat
    BY <1>3 DEF Samples
  <2> QED
    BY <1>6, <2>4, <2>5
<1> QED
  BY <1>4, <1>5, <1>6

\* The gets party p sent, among the indices in s, and those of one bin.
GetsBy(req, p, s) == {k \in s : req[k].by = p /\ req[k].type = "get"}
InBin(req, G, i) == {k \in G : BinOf(req[k].time) = i}

\* The statistics st are of the requests at the indices in s.
Tallied(req, p, s, st) ==
  /\ st.gets = Cardinality(GetsBy(req, p, s))
  /\ \A i \in Bins :
       st.get.bins[i] = Cardinality(InBin(req, GetsBy(req, p, s), i))

LEMMA TallyOne ==
  ASSUME NEW req, NEW p, NEW s, IsFiniteSet(s), NEW x \in s,
         req[x] \in Request, NEW st \in Stats, Tallied(req, p, s \ {x}, st)
  PROVE  Tallied(req, p, s, LogOne(st, req[x], p))
<1> DEFINE A == GetsBy(req, p, s \ {x})
           B == GetsBy(req, p, s)
           new == LogOne(st, req[x], p)
           c == req[x].by = p /\ req[x].type = "get"
<1>1. IsFiniteSet(A)
  <2>1. A \in SUBSET s
    BY DEF GetsBy
  <2> QED
    BY <2>1, FS_Subset
<1>2. x \notin A /\ c \in BOOLEAN /\ \A y : y \in B <=> y \in A \/ (c /\ y = x)
  BY DEF GetsBy
<1>3. new.gets = Cardinality(B)
  <2>1. Cardinality(B) = Cardinality(A) + (IF c THEN 1 ELSE 0)
    <3> HIDE DEF A, B, c
    <3> QED
      BY <1>1, <1>2, CountOneMore
  <2> QED
    BY <2>1, LogOneType DEF Tallied
<1>4. ASSUME NEW i \in Bins
      PROVE  new.get.bins[i] = Cardinality(InBin(req, B, i))
  <2> DEFINE d == c /\ BinOf(req[x].time) = i
  <2>1. /\ InBin(req, A, i) \in SUBSET A /\ x \notin InBin(req, A, i)
        /\ d \in BOOLEAN
        /\ \A y : y \in InBin(req, B, i)
                    <=> y \in InBin(req, A, i) \/ (d /\ y = x)
    <3> HIDE DEF A, B, c
    <3> QED
      BY <1>2 DEF InBin
  <2>2. Cardinality(InBin(req, B, i))
          = Cardinality(InBin(req, A, i)) + (IF d THEN 1 ELSE 0)
    <3>1. IsFiniteSet(InBin(req, A, i))
      BY <1>1, <2>1, FS_Subset
    <3> HIDE DEF A, B, d
    <3> QED
      BY <2>1, <3>1, CountOneMore
  <2> QED
    BY <2>2, LogOneType DEF Tallied
<1> HIDE DEF new, B
<1> QED
  BY <1>3, <1>4 DEF Tallied, new, B

\* What the fold over the requests is made of.
Logs(req, p, f) ==
  f = [s \in SUBSET DOMAIN req |->
         IF s = {} THEN NoStats ELSE LogOne(f[s \ {Max(s)}], req[Max(s)], p)]

\* A party's statistics count its own requests.
LEMMA StatsTally ==
  ASSUME NEW t \in Traffics, NEW slow \in BOOLEAN, NEW p \in Parties
  PROVE  /\ StatsOf(t, slow, p) \in Stats
         /\ Tallied(Requests(t, slow), p, DOMAIN Requests(t, slow),
                    StatsOf(t, slow, p))
<1> DEFINE req == Requests(t, slow)
           D == DOMAIN req
           F == [x \in D |-> [st \in Stats |-> LogOne(st, req[x], p)]]
           pick == [s \in SUBSET D |-> Max(s)]
           iter == CHOOSE f : Logs(req, p, f)
           Good(s) == iter[s] \in Stats /\ Tallied(req, p, s, iter[s])
           bad == {s \in SUBSET D : ~Good(s)}
<1>1. StatsOf(t, slow, p) = [iter[D] EXCEPT !.interval = p]
  BY DEF StatsOf, FoldLeft, MapThenFoldSet, Logs
<1>2. /\ Len(req) \in Nat /\ D \subseteq 0 .. Len(req) /\ IsFiniteSet(D)
      /\ \A k \in D : req[k] \in Request
  BY RequestsType
<1> HIDE DEF req
<1>3. \A s \in SUBSET D : s # {} => Max(s) \in s
  <2> HIDE DEF D
  <2> QED
    BY <1>2, MaxIn
<1>4. Logs(req, p, iter)
  <2>1. F \in [D -> [Stats -> Stats]]
    BY <1>2, LogOneType
  <2>2. \A s \in SUBSET D : s # {} => pick[s] \in s
    BY <1>3
  <2>3. \E f \in [SUBSET D -> Stats] : Folds(F, NoStats, pick, D, f)
    <3>1. Foldable(F, NoStats, pick, D, Stats)
      <4> HIDE DEF D, F, pick
      <4> QED
        BY <1>2, <2>1, <2>2, NoStatsType DEF Foldable
    <3> HIDE DEF D, F, pick
    <3> QED
      BY <3>1, FoldExists
  <2>4. PICK f \in [SUBSET D -> Stats] : Folds(F, NoStats, pick, D, f)
    BY <2>3
  <2>5. ASSUME NEW s \in SUBSET D, s # {}
        PROVE  F[pick[s]][f[s \ {pick[s]}]]
                 = LogOne(f[s \ {Max(s)}], req[Max(s)], p)
    <3>1. Max(s) \in D /\ f[s \ {Max(s)}] \in Stats
      BY <1>3, <2>4, <2>5
    <3> QED
      BY <3>1
  <2>6. Logs(req, p, f)
    <3> HIDE DEF F, pick
    <3> QED
      BY <2>4, <2>5 DEF Folds, Logs
  <2> QED
    BY <2>6
<1> HIDE DEF iter
<1>5. ASSUME bad # {}
      PROVE  FALSE
  <2>1. \A s \in bad : IsFiniteSet(s)
    BY <1>2, FS_Subset
  <2>2. PICK s \in bad : \A q \in bad : q \subseteq s => q = s
    <3> HIDE DEF bad
    <3> QED
      BY <1>5, <2>1, Smallest
  <2>3. /\ s \in SUBSET D /\ ~Good(s)
        /\ iter[s] = IF s = {} THEN NoStats
                     ELSE LogOne(iter[s \ {Max(s)}], req[Max(s)], p)
    BY <1>4, <2>2 DEF Logs
  <2>4. CASE s = {}
    <3>1. iter[s] = NoStats /\ GetsBy(req, p, s) = {}
          /\ \A i \in Bins : InBin(req, GetsBy(req, p, s), i) = {}
      BY <2>3, <2>4 DEF GetsBy, InBin
    <3>2. Tallied(req, p, s, NoStats)
      BY <3>1, FS_EmptySet DEF Tallied, NoStats, NoSamples
    <3> QED
      BY <2>3, <3>1, <3>2, NoStatsType
  <2>5. CASE s # {}
    <3> DEFINE x == Max(s)
    <3>1. x \in s /\ req[x] \in Request /\ IsFiniteSet(s)
      BY <1>2, <1>3, <2>1, <2>3, <2>5
    <3>2. s \ {x} \in SUBSET D /\ s \ {x} \notin bad
      BY <2>2, <2>3, <3>1
    <3>3. Good(s \ {x})
      BY <3>2
    <3>4. iter[s] = LogOne(iter[s \ {x}], req[x], p)
      BY <2>3, <2>5
    <3> HIDE DEF x
    <3>5. iter[s] \in Stats
      BY <3>1, <3>3, <3>4, LogOneType
    <3>6. Tallied(req, p, s, iter[s])
      BY <3>1, <3>3, <3>4, TallyOne
    <3> QED
      BY <2>3, <3>5, <3>6
  <2> QED
    BY <2>4, <2>5
<1>6. iter[D] \in Stats /\ Tallied(req, p, D, iter[D])
  BY <1>5
<1>7. p \in Nat
  BY PartiesType
<1> HIDE DEF D
<1>8. StatsOf(t, slow, p) \in Stats /\ Tallied(req, p, D, StatsOf(t, slow, p))
  BY <1>1, <1>6, <1>7 DEF Stats, Tallied
<1> QED
  BY <1>8 DEF req, D

\* The gets the parties in s sent, and what is kept of them in one bin.
Sent(req, s) == {k \in DOMAIN req : req[k].by \in s /\ req[k].type = "get"}
Kept(req, s, i) == {k \in Sent(req, s) : /\ BinOf(req[k].time) = i
                                         /\ req[k].by <= Threads \/ i < NBins}

\* The statistics st are those of the parties in s.
Merged(req, s, st) ==
  /\ st.gets = Cardinality(Sent(req, s))
  /\ \A i \in Bins : st.get.bins[i] = Cardinality(Kept(req, s, i))

LEMMA SamplesMerge ==
  ASSUME NEW h \in Samples, NEW g \in Samples
  PROVE  MergeSamples(h, g) \in Samples
BY DEF MergeSamples, Samples

LEMMA AccumulateType ==
  ASSUME NEW st \in Stats, NEW cs \in Stats
  PROVE  /\ Accumulate(st, cs) \in Stats
         /\ Accumulate(st, cs).gets = st.gets + cs.gets
         /\ \A i \in Bins : Accumulate(st, cs).get.bins[i]
                              = st.get.bins[i] + cs.get.bins[i]
<1> DEFINE g == MergeSamples(st.get, cs.get)
           h == MergeSamples(st.set, cs.set)
<1>1. /\ st.get \in Samples /\ cs.get \in Samples
      /\ st.set \in Samples /\ cs.set \in Samples
      /\ st.gets + cs.gets \in Nat /\ st.sets + cs.sets \in Nat
      /\ cs.interval \in Nat
  BY DEF Stats
<1>2. g \in Samples /\ h \in Samples
  BY <1>1, SamplesMerge
<1>3. \A i \in Bins : g.bins[i] = st.get.bins[i] + cs.get.bins[i]
  BY DEF MergeSamples
<1>4. Accumulate(st, cs)
        = [get |-> g, set |-> h, gets |-> st.gets + cs.gets,
           sets |-> st.sets + cs.sets, interval |-> cs.interval]
  BY DEF Accumulate
<1> HIDE DEF g, h
<1> QED
  BY <1>1, <1>2, <1>3, <1>4 DEF Stats

LEMMA AccumulateAgentType ==
  ASSUME NEW st \in Stats, NEW cs \in Stats
  PROVE  /\ AccumulateAgent(st, AgentStats(cs)) \in Stats
         /\ AccumulateAgent(st, AgentStats(cs)).gets = st.gets + cs.gets
         /\ \A i \in Bins : AccumulateAgent(st, AgentStats(cs)).get.bins[i]
              = st.get.bins[i] + (IF i < NBins THEN cs.get.bins[i] ELSE 0)
<1> DEFINE as == AgentStats(cs)
           g == [bins |-> [i \in Bins |-> st.get.bins[i] +
                             (IF i \in AgentBins(as) THEN as.bins[i] ELSE 0)],
                 sum  |-> st.get.sum + as.sum]
<1>1. /\ st.get \in Samples /\ cs.get \in Samples /\ st.set \in Samples
      /\ st.gets + cs.gets \in Nat /\ st.sets + cs.sets \in Nat
      /\ cs.interval \in Nat
  BY DEF Stats
<1>2. /\ as.bins = [i \in 0 .. NBins - 1 |-> cs.get.bins[i]]
      /\ as.sum = cs.get.sum /\ as.gets = cs.gets /\ as.sets = cs.sets
      /\ as.interval = cs.interval
  BY DEF AgentStats
<1> HIDE DEF as
<1>3. NBins \in Nat /\ AgentBins(as) = 0 .. NBins - 1
  BY <1>2, BinsAssumption DEF AgentBins
<1>4. ASSUME NEW i \in Bins
      PROVE  /\ (IF i \in AgentBins(as) THEN as.bins[i] ELSE 0)
                  = (IF i < NBins THEN cs.get.bins[i] ELSE 0)
             /\ st.get.bins[i] \in Nat /\ cs.get.bins[i] \in Nat
  <2>1. st.get.bins[i] \in Nat /\ cs.get.bins[i] \in Nat
    BY <1>1 DEF Samples
  <2>2. i \in 0 .. NBins - 1 <=> i < NBins
    BY <1>3 DEF Bins
  <2>3. i < NBins => as.bins[i] = cs.get.bins[i]
    BY <1>2, <2>2
  <2> QED
    BY <1>3, <2>1, <2>2, <2>3
<1>5. \A i \in Bins : g.bins[i]
        = st.get.bins[i] + (IF i < NBins THEN cs.get.bins[i] ELSE 0)
  BY <1>4
<1>6. g \in Samples
  <2>1. ASSUME NEW i \in Bins
        PROVE  g.bins[i] \in Nat
    <3> DEFINE x == st.get.bins[i]
               y == cs.get.bins[i]
               z == g.bins[i]
    <3>1. x \in Nat /\ y \in Nat /\ z = x + (IF i < NBins THEN y ELSE 0)
      BY <1>4, <1>5
    <3> HIDE DEF x, y, z
    <3>2. z \in Nat
      BY <3>1
    <3> QED
      BY <3>2 DEF z
  <2>2. g.sum \in Nat
    BY <1>1, <1>2 DEF Samples
  <2>3. g = [bins |-> [i \in Bins |-> g.bins[i]], sum |-> g.sum]
    OBVIOUS
  <2> HIDE DEF g
  <2> QED
    BY <2>1, <2>2, <2>3 DEF Samples
<1>7. AccumulateAgent(st, as)
        = [get |-> g, set |-> st.set, gets |-> st.gets + cs.gets,
           sets |-> st.sets + cs.sets, interval |-> cs.interval]
  BY <1>2 DEF AccumulateAgent
<1> HIDE DEF g
<1>8. /\ AccumulateAgent(st, as) \in Stats
      /\ AccumulateAgent(st, as).gets = st.gets + cs.gets
      /\ AccumulateAgent(st, as).get = g
  BY <1>1, <1>6, <1>7 DEF Stats
<1> QED
  BY <1>5, <1>8 DEF as

\* What a further party sent comes on top.
LEMMA MergeOne ==
  ASSUME NEW t \in Traffics, NEW slow \in BOOLEAN, NEW s, NEW p \in s,
         s \subseteq Parties, NEW st \in Stats,
         Merged(Requests(t, slow), s \ {p}, st)
  PROVE  /\ Collect(st, t, slow, p) \in Stats
         /\ Merged(Requests(t, slow), s, Collect(st, t, slow, p))
<1> DEFINE req == Requests(t, slow)
           own == StatsOf(t, slow, p)
           D == DOMAIN req
           new == Collect(st, t, slow, p)
<1>1. own \in Stats /\ Tallied(req, p, D, own) /\ p \in Nat
  BY StatsTally, PartiesType
<1>2. IsFiniteSet(D)
  BY RequestsType
<1>3. Threads \in Nat /\ NBins \in Nat
  BY SearchAssumption, BinsAssumption
<1>4. /\ new \in Stats /\ new.gets = st.gets + own.gets
      /\ \A i \in Bins : new.get.bins[i] = st.get.bins[i] +
           (IF p <= Threads \/ i < NBins THEN own.get.bins[i] ELSE 0)
  <2>0. \A i \in Bins : st.get.bins[i] \in Nat /\ own.get.bins[i] \in Nat
    BY <1>1 DEF Stats, Samples
  <2>1. CASE p <= Threads
    <3>1. new = Accumulate(st, own)
      BY <2>1 DEF Collect
    <3> HIDE DEF new, own
    <3> QED
      BY <1>1, <2>1, <3>1, AccumulateType
  <2>2. CASE ~(p <= Threads)
    <3>1. new = AccumulateAgent(st, AgentStats(own))
      BY <2>2 DEF Collect
    <3> HIDE DEF new, own
    <3> QED
      BY <1>1, <2>2, <3>1, AccumulateAgentType
  <2> QED
    BY <2>1, <2>2
<1> HIDE DEF own, new, D
<1>5. /\ GetsBy(req, p, D) \in SUBSET D
      /\ Sent(req, s \ {p}) \in SUBSET D
      /\ \A x \in Sent(req, s \ {p}) : x \notin GetsBy(req, p, D)
      /\ \A x : x \in Sent(req, s)
                  <=> x \in Sent(req, s \ {p}) \/ x \in GetsBy(req, p, D)
  BY DEF GetsBy, Sent, D
<1>6. IsFiniteSet(GetsBy(req, p, D)) /\ IsFiniteSet(Sent(req, s \ {p}))
  <2> HIDE DEF req
  <2> QED
    BY <1>2, <1>5, FS_Subset
<1>7. Cardinality(Sent(req, s))
        = Cardinality(Sent(req, s \ {p})) + Cardinality(GetsBy(req, p, D))
  <2> DEFINE A == Sent(req, s \ {p})
             B == GetsBy(req, p, D)
             C == Sent(req, s)
  <2>1. /\ IsFiniteSet(A) /\ IsFiniteSet(B) /\ \A x \in A : x \notin B
        /\ \A x : x \in C <=> x \in A \/ x \in B
    BY <1>5, <1>6
  <2>2. Cardinality(C) = Cardinality(A) + Cardinality(B)
    <3> HIDE DEF A, B, C
    <3> QED
      BY <2>1, CountBoth
  <2> QED
    BY <2>2
<1>8. ASSUME NEW i \in Bins
      PROVE  new.get.bins[i] = Cardinality(Kept(req, s, i))
  <2> DEFINE c == p <= Threads \/ i < NBins
             A == Kept(req, s \ {p}, i)
             B == {k \in InBin(req, GetsBy(req, p, D), i) : c}
             C == Kept(req, s, i)
  <2>1. /\ A \in SUBSET Sent(req, s \ {p}) /\ B \in SUBSET GetsBy(req, p, D)
        /\ \A x \in A : x \notin B
        /\ \A x : x \in C <=> x \in A \/ x \in B
    <3> HIDE DEF req
    <3>1. \A k \in GetsBy(req, p, D) : req[k].by = p
      BY DEF GetsBy
    <3> QED
      BY <1>5, <3>1 DEF Kept, InBin
  <2>2. IsFiniteSet(A) /\ IsFiniteSet(B)
    <3> HIDE DEF A, B, req
    <3> QED
      BY <1>6, <2>1, FS_Subset
  <2>3. Cardinality(C) = Cardinality(A) + Cardinality(B)
    <3> HIDE DEF A, B, C
    <3> QED
      BY <2>1, <2>2, CountBoth
  <2>4. Cardinality(B) = IF c THEN own.get.bins[i] ELSE 0
    <3>1. CASE c
      <4>1. B = InBin(req, GetsBy(req, p, D), i)
        BY <3>1
      <4> HIDE DEF B, c
      <4> QED
        BY <1>1, <3>1, <4>1 DEF Tallied
    <3>2. CASE ~c
      <4>1. B = {}
        BY <3>2
      <4> HIDE DEF B, c
      <4> QED
        BY <3>2, <4>1, FS_EmptySet
    <3> QED
      BY <3>1, <3>2
  <2>5. st.get.bins[i] = Cardinality(A)
    BY DEF Merged
  <2> HIDE DEF A, B, C
  <2> QED
    BY <1>4, <2>3, <2>4, <2>5 DEF C
<1>9. new.gets = Cardinality(Sent(req, s))
  BY <1>1, <1>4, <1>7 DEF Merged, Tallied
<1> QED
  BY <1>4, <1>8, <1>9 DEF Merged, req, new

\* What the fold over the parties is made of.
Merges(t, slow, f) ==
  f = [s \in SUBSET Parties |->
         IF s = {} THEN NoStats
         ELSE Collect(f[s \ {Max(s)}], t, slow, Max(s))]

\* What main has collected in a run is what the parties sent.
LEMMA RunIsMerged ==
  ASSUME NEW t \in Traffics, NEW slow \in BOOLEAN
  PROVE  /\ Collected[t][slow] \in Stats
         /\ Merged(Requests(t, slow), Parties, Collected[t][slow])
<1> DEFINE req == Requests(t, slow)
           F == [p \in Parties |-> [st \in Stats |-> Collect(st, t, slow, p)]]
           pick == [s \in SUBSET Parties |-> Max(s)]
           ps == [p \in Parties |-> p]
           iter == CHOOSE f : Merges(t, slow, f)
           Good(s) == iter[s] \in Stats /\ Merged(req, s, iter[s])
           bad == {s \in SUBSET Parties : ~Good(s)}
           FoldsOwn(f) == f = [s \in SUBSET DOMAIN ps |->
                            IF s = {} THEN NoStats
                            ELSE Collect(f[s \ {Max(s)}], t, slow, ps[Max(s)])]
<1>1. IsFiniteSet(Parties) /\ \A s \in SUBSET Parties : s # {} => Max(s) \in s
  BY PartiesType, MaxIn
<1>2. \A f : FoldsOwn(f) <=> Merges(t, slow, f)
  <2>1. DOMAIN ps = Parties
    OBVIOUS
  <2>2. \A s \in SUBSET Parties : s # {} => ps[Max(s)] = Max(s)
    BY <1>1
  <2> HIDE DEF ps
  <2> QED
    BY <2>1, <2>2 DEF Merges
<1>3. Collected[t][slow] = iter[Parties]
  <2>1. Collected[t][slow] = (CHOOSE f : FoldsOwn(f))[DOMAIN ps]
    BY DEF Collected, FoldLeft, MapThenFoldSet
  <2>2. DOMAIN ps = Parties
    OBVIOUS
  <2>3. (CHOOSE f : FoldsOwn(f)) = iter
    <3> HIDE DEF FoldsOwn
    <3> QED
      BY <1>2
  <2> QED
    BY <2>1, <2>2, <2>3
<1>4. Merges(t, slow, iter)
  <2> DEFINE D == Parties
             V == Stats
  <2>1. F \in [D -> [V -> V]]
    <3>1. ASSUME NEW p \in Parties, NEW st \in Stats
          PROVE  Collect(st, t, slow, p) \in Stats
      <4>1. StatsOf(t, slow, p) \in Stats
        BY StatsTally
      <4> QED
        BY <4>1, AccumulateType, AccumulateAgentType DEF Collect
    <3> QED
      BY <3>1
  <2>2. \A s \in SUBSET D : s # {} => pick[s] \in s
    BY <1>1
  <2>3. \E f \in [SUBSET D -> V] : Folds(F, NoStats, pick, D, f)
    <3>1. Foldable(F, NoStats, pick, D, V)
      <4> HIDE DEF F, pick
      <4> QED
        BY <1>1, <2>1, <2>2, NoStatsType DEF Foldable
    <3> HIDE DEF D, F, pick, V
    <3> QED
      BY <3>1, FoldExists
  <2>4. PICK f \in [SUBSET Parties -> Stats] :
          Folds(F, NoStats, pick, Parties, f)
    BY <2>3
  <2>5. ASSUME NEW s \in SUBSET Parties, s # {}
        PROVE  F[pick[s]][f[s \ {pick[s]}]]
                 = Collect(f[s \ {Max(s)}], t, slow, Max(s))
    <3>1. Max(s) \in Parties /\ f[s \ {Max(s)}] \in Stats
      BY <1>1, <2>4, <2>5
    <3> QED
      BY <3>1
  <2>6. Merges(t, slow, f)
    <3> HIDE DEF F, pick
    <3> QED
      BY <2>4, <2>5 DEF Folds, Merges
  <2> QED
    BY <2>6
<1> HIDE DEF iter
<1>5. ASSUME bad # {}
      PROVE  FALSE
  <2>1. \A s \in bad : IsFiniteSet(s)
    BY <1>1, FS_Subset
  <2>2. PICK s \in bad : \A q \in bad : q \subseteq s => q = s
    <3> HIDE DEF bad
    <3> QED
      BY <1>5, <2>1, Smallest
  <2>3. /\ s \in SUBSET Parties /\ ~Good(s)
        /\ iter[s] = IF s = {} THEN NoStats
                     ELSE Collect(iter[s \ {Max(s)}], t, slow, Max(s))
    BY <1>4, <2>2 DEF Merges
  <2>4. CASE s = {}
    <3>1. iter[s] = NoStats /\ Sent(req, s) = {}
          /\ \A i \in Bins : Kept(req, s, i) = {}
      BY <2>3, <2>4 DEF Sent, Kept
    <3>2. Merged(req, s, NoStats)
      BY <3>1, FS_EmptySet DEF Merged, NoStats, NoSamples
    <3> QED
      BY <2>3, <3>1, <3>2, NoStatsType
  <2>5. CASE s # {}
    <3> DEFINE x == Max(s)
    <3>1. x \in s
      BY <1>1, <2>3, <2>5
    <3>2. s \ {x} \in SUBSET Parties /\ s \ {x} \notin bad
      BY <2>2, <2>3, <3>1
    <3>3. Good(s \ {x})
      BY <3>2
    <3>4. iter[s] = Collect(iter[s \ {x}], t, slow, x)
      BY <2>3, <2>5
    <3> HIDE DEF x
    <3>5. Good(s)
      BY <2>3, <3>1, <3>3, <3>4, MergeOne
    <3> QED
      BY <2>3, <3>5
  <2> QED
    BY <2>4, <2>5
<1> QED
  BY <1>3, <1>5

-----------------------------------------------------------------------------
\* The statistics are those of the last run.
StatsInv ==
  /\ traffic \in Traffics
  /\ stats = NoStats
       \/ stats = Accumulate(NoStats, Collected[traffic][TooFast(qps)])

LEMMA StatsInvKept == SearchSpec => []StatsInv
<1>1. SearchInit => StatsInv
  BY DEF SearchInit, StatsInv
<1>2. StatsInv /\ [Search]_searchVars => StatsInv'
  <2> SUFFICES ASSUME StatsInv, [Search]_searchVars
               PROVE  StatsInv'
    OBVIOUS
  <2>1. CASE UNCHANGED searchVars
    BY <2>1 DEF StatsInv, searchVars, given, TooFast
  <2>2. ASSUME NEW rate, Run(rate), UNCHANGED given
        PROVE  StatsInv'
    BY <2>2 DEF StatsInv, Run, Before, given, TooFast
  <2>3. CASE Peak
    BY <2>2, <2>3 DEF Peak
  <2>4. CASE Bisect
    BY <2>2, <2>4 DEF Bisect
  <2>5. CASE StepDown
    BY <2>2, <2>5 DEF StepDown
  <2>6. CASE Finish
    BY <2>6 DEF StatsInv, Finish, given, TooFast
  <2>7. CASE Scan
    BY <2>2, <2>7 DEF Scan, given
  <2>8. CASE ScanOver
    BY <2>8 DEF StatsInv, ScanOver, given, TooFast
  <2> QED
    BY <2>1, <2>3, <2>4, <2>5, <2>6, <2>7, <2>8 DEF Search
<1> QED
  BY <1>1, <1>2, PTL DEF SearchSpec

LEMMA LastRunIsMerged ==
  ASSUME StatsInv, HasRun
  PROVE  stats \in Stats /\ Merged(Logged, Parties, stats)
<1> DEFINE all == Collected[traffic][TooFast(qps)]
<1>1. stats = Accumulate(NoStats, all)
  BY DEF StatsInv, HasRun, NoStats
<1>2. all \in Stats /\ Merged(Logged, Parties, all)
  <2>1. TooFast(qps) \in BOOLEAN
    BY DEF TooFast
  <2> QED
    BY <2>1, RunIsMerged DEF StatsInv, Logged
<1> HIDE DEF all
<1>3. /\ stats \in Stats /\ stats.gets = NoStats.gets + all.gets
      /\ \A i \in Bins : stats.get.bins[i]
                           = NoStats.get.bins[i] + all.get.bins[i]
  BY <1>1, <1>2, NoStatsType, AccumulateType
<1>4. all.gets \in Nat /\ \A i \in Bins : all.get.bins[i] \in Nat
  BY <1>2 DEF Stats, Samples
<1>5. /\ stats.gets = all.gets
      /\ \A i \in Bins : stats.get.bins[i] = all.get.bins[i]
  BY <1>3, <1>4 DEF NoStats, NoSamples
<1> QED
  BY <1>2, <1>3, <1>5 DEF Merged

\* A run is measured by itself and completely, whoever sent its requests: the
\* threads and agents are merged without loss, but for the last bin of the
\* agents, and nothing of an earlier run is left (go() and AgentStats).
THEOREM AllIsMerged == SearchSpec => []MergedAsLogged
<1>1. StatsInv => MergedAsLogged
  <2> SUFFICES ASSUME StatsInv, HasRun
               PROVE  MergedAsLogged
    BY DEF MergedAsLogged
  <2>1. Merged(Logged, Parties, stats)
    BY LastRunIsMerged
  <2>2. traffic \in Traffics /\ TooFast(qps) \in BOOLEAN
    BY DEF StatsInv, TooFast
  <2>3. \A k \in DOMAIN Logged : Logged[k].by \in Parties
    BY <2>2, RequestsType DEF Logged, Request
  <2>4. Sent(Logged, Parties) = LoggedGets
    BY <2>3 DEF Sent, LoggedGets
  <2>5. \A i \in Bins : Kept(Logged, Parties, i)
          = {k \in LoggedGets : /\ BinOf(Logged[k].time) = i
                                /\ Logged[k].by <= Threads \/ i < NBins}
    BY <2>4 DEF Kept
  <2> QED
    BY <2>1, <2>4, <2>5 DEF Merged, MergedAsLogged
<1> QED
  BY <1>1, StatsInvKept, PTL

-----------------------------------------------------------------------------
(* Ranks and percentiles.                                                  *)

LEMMA BinsInOrder ==
  ASSUME NEW a \in Nat, NEW b \in Nat, a <= b
  PROVE  BinOf(a) <= BinOf(b)
<1>1. /\ NBins \in Nat /\ BinsBelow(a) \in SUBSET (0 .. NBins)
      /\ BinsBelow(b) \in SUBSET (0 .. NBins)
  BY BinsAssumption DEF BinsBelow, Bins
<1>2. BinsBelow(a) \subseteq BinsBelow(b)
  <2>1. \A i \in Bins : Edge[i] \in Nat
    BY BinsAssumption DEF Bins
  <2> QED
    BY <2>1 DEF BinsBelow
<1>3. CASE BinsBelow(a) = {}
  <2>1. BinOf(a) = 0 /\ BinOf(b) \in 0 .. NBins
    BY <1>1, <1>3, BinOfType DEF BinOf, Bins
  <2> QED
    BY <1>1, <2>1
<1>4. CASE BinsBelow(a) # {}
  <2>1. Max(BinsBelow(a)) \in BinsBelow(a)
    BY <1>1, <1>4, MaxIn
  <2>2. \A x \in BinsBelow(b) : x <= Max(BinsBelow(b))
    BY <1>1, <1>2, <1>4, MaxIn
  <2> QED
    BY <1>2, <1>4, <2>1, <2>2 DEF BinOf
<1> QED
  BY <1>3, <1>4

\* The nth of g samples is at this index, counted from 0; u samples reach it.
Index(g, nth) == (g * nth) \div Scale(nth)
Reach(u, g, nth) == u * Scale(nth) > g * nth

LEMMA Percentile ==
  ASSUME NEW g \in Nat, g > 0,
         NEW nth \in {0, 10, 50, 90, 95, 99, 999, 9999}
  PROVE  /\ Index(g, nth) \in Nat
         /\ Index(g, nth) < g
         /\ Reach(g, g, nth)
         /\ \A u \in Nat : Reach(u, g, nth) <=> u > Index(g, nth)
<1>1. CASE nth = 0
  BY <1>1 DEF Scale, Index, Reach
<1>2. CASE nth = 10
  BY <1>2 DEF Scale, Index, Reach
<1>3. CASE nth = 50
  BY <1>3 DEF Scale, Index, Reach
<1>4. CASE nth = 90
  BY <1>4 DEF Scale, Index, Reach
<1>5. CASE nth = 95
  BY <1>5 DEF Scale, Index, Reach
<1>6. CASE nth = 99
  BY <1>6 DEF Scale, Index, Reach
<1>7. CASE nth = 999
  BY <1>7 DEF Scale, Index, Reach
<1>8. CASE nth = 9999
  BY <1>8 DEF Scale, Index, Reach
<1> QED
  BY <1>1, <1>2, <1>3, <1>4, <1>5, <1>6, <1>7, <1>8

\* What the merged histogram holds, and of it what is in bins up to i.
AllKept == {k \in Sent(Logged, Parties) :
              Logged[k].by <= Threads \/ BinOf(Logged[k].time) < NBins}
Low(i) == {k \in AllKept : BinOf(Logged[k].time) <= i}

LEMMA BinsAddUp ==
  ASSUME StatsInv, HasRun, NEW i \in Bins
  PROVE  /\ UpTo(stats.get, i) = Cardinality(Low(i))
         /\ Total(stats.get) = UpTo(stats.get, NBins)
         /\ NBins \in Bins
<1> DEFINE P == [x \in Bins |-> Kept(Logged, Parties, x)]
           w == stats.get.bins
           S == 0 .. i
           U == Low(i)
           A == Bins
<1>1. /\ Merged(Logged, Parties, stats) /\ stats \in Stats
      /\ IsFiniteSet(DOMAIN Logged)
      /\ \A k \in DOMAIN Logged : BinOf(Logged[k].time) \in Bins
  <2>1. traffic \in Traffics /\ TooFast(qps) \in BOOLEAN
    BY DEF StatsInv, TooFast
  <2>2. /\ IsFiniteSet(DOMAIN Logged)
        /\ \A k \in DOMAIN Logged : Logged[k] \in Request
    BY <2>1, RequestsType DEF Logged
  <2>3. \A k \in DOMAIN Logged : Logged[k].time \in Nat
    BY <2>2 DEF Request
  <2> QED
    BY <2>2, <2>3, LastRunIsMerged, BinOfType
<1>2. /\ NBins \in Nat /\ A = 0 .. NBins /\ i \in 0 .. NBins
      /\ S \in SUBSET A /\ NBins \in A
  BY BinsAssumption DEF Bins
<1>3. IsFiniteSet(S)
  BY <1>2, FS_Interval
<1>4. \A x \in A : IsFiniteSet(P[x])
  <2>1. \A x \in A : P[x] \in SUBSET DOMAIN Logged
    BY DEF Kept, Sent
  <2> HIDE DEF P, A
  <2> QED
    BY <1>1, <2>1, FS_Subset
<1>5. w = [x \in A |-> Cardinality(P[x])]
  <2>1. w \in [A -> Nat]
    BY <1>1 DEF Stats, Samples
  <2>2. \A x \in A : w[x] = Cardinality(P[x])
    BY <1>1 DEF Merged
  <2> HIDE DEF P, w, A
  <2> QED
    BY <2>1, <2>2
<1>6. \A x, y \in A : x # y => P[x] \intersect P[y] = {}
  BY DEF Kept
<1>7. \A c : c \in U <=> \E x \in S : c \in P[x]
  <2>1. ASSUME NEW c \in U
        PROVE  \E x \in S : c \in P[x]
    <3> DEFINE x == BinOf(Logged[c].time)
    <3>1. c \in AllKept /\ x <= i /\ c \in DOMAIN Logged
      BY DEF Low, AllKept, Sent
    <3>2. x \in S /\ x \in A
      BY <1>1, <1>2, <3>1
    <3>3. c \in P[x]
      BY <3>1, <3>2 DEF Kept, AllKept
    <3> QED
      BY <3>2, <3>3
  <2>2. ASSUME NEW x \in S, NEW c \in P[x]
        PROVE  c \in U
    <3>1. x \in A /\ x <= i /\ c \in Kept(Logged, Parties, x)
      BY <1>2
    <3> QED
      BY <3>1 DEF Kept, AllKept, Low
  <2> QED
    BY <2>1, <2>2
<1>8. SumFunctionOnSet(w, S) = Cardinality(U)
  <2>1. S \in SUBSET A
    BY <1>2
  <2> HIDE DEF P, w, S, U, A
  <2> QED
    BY <1>3, <1>4, <1>5, <1>6, <1>7, <2>1, SumOfParts
<1>9. DOMAIN w = 0 .. NBins
  <2>1. DOMAIN w = A
    <3> HIDE DEF w, P
    <3> QED
      BY <1>5
  <2> QED
    BY <1>2, <2>1
<1> QED
  BY <1>2, <1>8, <1>9 DEF UpTo, Total, SumFunction

\* get_nth finds the bin of the sample that is the nth of all gets of a run,
\* over the threads and agents, when none was lost (LogHistogramSampler).
THEOREM NthIsFound == SearchSpec => []NthIsRanked
<1>1. StatsInv => NthIsRanked
  <2> SUFFICES ASSUME StatsInv, HasRun, stats.gets > 0,
                      Total(stats.get) = stats.gets,
                      NEW nth \in {0, 10, 50, 90, 95, 99, 999, 9999}
               PROVE  \E k \in LoggedGets :
                        /\ HasRank(k, Index(stats.gets, nth))
                        /\ NthBin(stats.get, nth) = BinOf(Logged[k].time)
    BY DEF NthIsRanked, Index
  <2> DEFINE g == stats.gets
             n == Index(g, nth)
             L == LoggedGets
             time == [j \in L |-> Logged[j].time]
             enough == Enough(stats.get, nth)
  <2>1. /\ IsFiniteSet(L) /\ time \in [L -> Nat]
        /\ L = Sent(Logged, Parties) /\ g = Cardinality(L) /\ g \in Nat
        /\ g > 0 /\ Total(stats.get) = g
    <3>1. traffic \in Traffics /\ TooFast(qps) \in BOOLEAN
      BY DEF StatsInv, TooFast
    <3>2. /\ IsFiniteSet(DOMAIN Logged)
          /\ \A k \in DOMAIN Logged : Logged[k] \in Request
      BY <3>1, RequestsType DEF Logged
    <3>3. L \in SUBSET DOMAIN Logged
      BY DEF LoggedGets
    <3>4. time \in [L -> Nat]
      BY <3>2, <3>3 DEF Request
    <3>5. L = Sent(Logged, Parties)
      BY <3>2 DEF LoggedGets, Sent, Request
    <3>6. IsFiniteSet(L)
      BY <3>2, <3>3, FS_Subset
    <3>7. g = Cardinality(L)
      BY <3>5, LastRunIsMerged DEF Merged
    <3> QED
      BY <3>4, <3>5, <3>6, <3>7, FS_CardinalityType
  <2>2. /\ n \in Nat /\ n < g /\ Reach(g, g, nth)
        /\ \A u \in Nat : Reach(u, g, nth) <=> u > n
    <3>1. g \in Nat /\ g > 0
      BY <2>1
    <3> HIDE DEF g
    <3> QED
      BY <3>1, Percentile
  <2>3. AllKept = L /\ NBins \in Bins /\ UpTo(stats.get, NBins) = g
    <3>1. NBins \in Bins
      BY BinsAssumption DEF Bins
    <3>2. /\ UpTo(stats.get, NBins) = Cardinality(Low(NBins))
          /\ UpTo(stats.get, NBins) = g
      BY <2>1, <3>1, BinsAddUp
    <3>3. Low(NBins) \in SUBSET L /\ AllKept \in SUBSET L
          /\ Low(NBins) \in SUBSET AllKept
      BY <2>1 DEF Low, AllKept
    <3>4. Low(NBins) = L
      <4> DEFINE l == Low(NBins)
      <4>1. IsFiniteSet(L) /\ Cardinality(l) = Cardinality(L) /\ l \in SUBSET L
        BY <2>1, <3>2, <3>3
      <4> HIDE DEF l, L
      <4>2. l = L
        BY <4>1, FS_Subset
      <4> QED
        BY <4>2 DEF l
    <3> HIDE DEF L, g
    <3> QED
      BY <3>1, <3>2, <3>3, <3>4
  <2>4. \A i \in Bins : /\ UpTo(stats.get, i) = Cardinality(Low(i))
                        /\ Low(i) = {j \in L : BinOf(time[j]) <= i}
                        /\ IsFiniteSet(Low(i)) /\ Cardinality(Low(i)) \in Nat
                        /\ i \in enough <=> n < Cardinality(Low(i))
    <3> SUFFICES ASSUME NEW i \in Bins
                 PROVE  /\ UpTo(stats.get, i) = Cardinality(Low(i))
                        /\ Low(i) = {j \in L : BinOf(time[j]) <= i}
                        /\ IsFiniteSet(Low(i)) /\ Cardinality(Low(i)) \in Nat
                        /\ i \in enough <=> n < Cardinality(Low(i))
      OBVIOUS
    <3>1. UpTo(stats.get, i) = Cardinality(Low(i))
      BY BinsAddUp
    <3>2. Low(i) = {j \in L : BinOf(time[j]) <= i} /\ Low(i) \in SUBSET L
      BY <2>3 DEF Low
    <3>3. IsFiniteSet(Low(i)) /\ Cardinality(Low(i)) \in Nat
      <4> DEFINE l == Low(i)
      <4>1. IsFiniteSet(L) /\ l \in SUBSET L
        BY <2>1, <3>2
      <4> HIDE DEF l, L
      <4>2. IsFiniteSet(l) /\ Cardinality(l) \in Nat
        BY <4>1, FS_Subset, FS_CardinalityType
      <4> QED
        BY <4>2 DEF l
    <3>4. i \in enough <=> Reach(Cardinality(Low(i)), g, nth)
      BY <2>1, <3>1 DEF Enough, Reach
    <3> HIDE DEF n, g, L, time, enough
    <3> QED
      BY <2>2, <3>1, <3>2, <3>3, <3>4
  <2>5. /\ enough \in SUBSET Nat /\ enough \in SUBSET Bins /\ NBins \in enough
        /\ NthBin(stats.get, nth) = Min(enough)
    <3>1. enough \in SUBSET Bins /\ Bins \in SUBSET Nat
      BY BinsAssumption DEF Enough, Bins
    <3>2. NBins \in enough
      BY <2>1, <2>2, <2>3 DEF Enough, Reach
    <3>3. NthBin(stats.get, nth)
            = IF enough = {} THEN NBins + 1 ELSE Min(enough)
      BY DEF NthBin
    <3> HIDE DEF enough
    <3>4. NthBin(stats.get, nth) = Min(enough)
      BY <3>2, <3>3
    <3>5. enough \in SUBSET Nat
      BY <3>1
    <3> QED
      BY <3>1, <3>2, <3>4, <3>5
  <2> DEFINE i == Min(enough)
  <2>6. i \in Bins /\ i \in enough /\ \A b \in enough : i <= b
    <3>1. enough # {} /\ enough \in SUBSET Nat
      BY <2>5
    <3> HIDE DEF enough
    <3>2. i \in enough /\ \A b \in enough : i <= b
      BY <3>1, MinIn
    <3> HIDE DEF i
    <3> QED
      BY <2>5, <3>2
  <2>7. PICK k \in L : /\ Cardinality(Earlier(L, time, k)) <= n
                       /\ n < Cardinality(NotLater(L, time, k))
    <3>1. IsFiniteSet(L) /\ time \in [L -> Nat]
      BY <2>1
    <3>2. n \in Nat /\ n < Cardinality(L)
      BY <2>1, <2>2
    <3> HIDE DEF L, time, n, g
    <3> QED
      BY <3>1, <3>2, RankExists
  <2>8. HasRank(k, n)
    <3>1. /\ Earlier(L, time, k)
               = {j \in LoggedGets : Logged[j].time < Logged[k].time}
          /\ NotLater(L, time, k)
               = {j \in LoggedGets : Logged[j].time <= Logged[k].time}
      BY DEF Earlier, NotLater
    <3> HIDE DEF L, time, n
    <3> QED
      BY <2>7, <3>1 DEF HasRank
  <2> DEFINE b == BinOf(time[k])
             Faster == Earlier(L, time, k)
             NotAfter == NotLater(L, time, k)
  <2>9. /\ b \in Bins /\ b \in Nat /\ i \in Nat
        /\ IsFiniteSet(Faster) /\ IsFiniteSet(NotAfter)
        /\ Cardinality(Faster) \in Nat /\ Cardinality(NotAfter) \in Nat
    <3>1. b \in Bins
      BY <2>1, BinOfType
    <3>2. \A x \in Bins : x \in Nat
      BY BinsAssumption DEF Bins
    <3>3. Faster \in SUBSET L /\ NotAfter \in SUBSET L
      BY DEF Earlier, NotLater
    <3>4. IsFiniteSet(Faster) /\ IsFiniteSet(NotAfter)
      <4> HIDE DEF Faster, NotAfter, L
      <4> QED
        BY <2>1, <3>3, FS_Subset
    <3> QED
      BY <2>6, <3>1, <3>2, <3>4, FS_CardinalityType
  <2>10. ~(b < i)
    <3>1. NotAfter \in SUBSET Low(b)
      <4>1. \A j \in NotAfter : BinOf(time[j]) <= b
        BY <2>1, BinsInOrder DEF NotLater
      <4>2. NotAfter \in SUBSET L
        BY DEF NotLater
      <4>3. Low(b) = {j \in L : BinOf(time[j]) <= b}
        <5> HIDE DEF L, time, b
        <5> QED
          BY <2>4, <2>9
      <4> HIDE DEF NotAfter, L, b, time
      <4> QED
        BY <4>1, <4>2, <4>3
    <3>2. Cardinality(NotAfter) <= Cardinality(Low(b))
      <4>1. IsFiniteSet(Low(b))
        BY <2>4, <2>9
      <4> HIDE DEF NotAfter, b
      <4> QED
        BY <3>1, <4>1, FS_Subset
    <3>3. n < Cardinality(Low(b))
      <4>1. n < Cardinality(NotAfter) /\ Cardinality(Low(b)) \in Nat
        BY <2>4, <2>7, <2>9
      <4> HIDE DEF NotAfter, b, n
      <4> QED
        BY <2>2, <2>9, <3>2, <4>1
    <3>4. i <= b
      BY <2>4, <2>6, <2>9, <3>3
    <3> HIDE DEF b, i
    <3> QED
      BY <2>9, <3>4
  <2>11. ~(b > i)
    <3> SUFFICES ASSUME b > i
                 PROVE  FALSE
      OBVIOUS
    <3>1. Low(i) \in SUBSET Faster
      <4> SUFFICES ASSUME NEW j \in Low(i)
                   PROVE  j \in Faster
        OBVIOUS
      <4>1. j \in L /\ BinOf(time[j]) <= i
        BY <2>4, <2>6
      <4>2. time[j] \in Nat /\ time[k] \in Nat /\ BinOf(time[j]) \in Nat
        <5>1. time[j] \in Nat /\ time[k] \in Nat
          BY <2>1, <4>1
        <5>2. Bins \in SUBSET Nat
          BY BinsAssumption DEF Bins
        <5> QED
          BY <5>1, <5>2, BinOfType
      <4>3. ~(time[k] <= time[j])
        <5>1. time[k] <= time[j] => b <= BinOf(time[j])
          BY <4>2, BinsInOrder
        <5> HIDE DEF time, i
        <5> QED
          BY <2>9, <4>1, <4>2, <5>1
      <4> QED
        BY <4>1, <4>2, <4>3 DEF Earlier
    <3>2. Cardinality(Low(i)) <= Cardinality(Faster)
      <4> HIDE DEF Faster, i
      <4> QED
        BY <2>9, <3>1, FS_Subset
    <3>3. Cardinality(Faster) <= n /\ n < Cardinality(Low(i))
          /\ Cardinality(Low(i)) \in Nat
      BY <2>4, <2>6, <2>7
    <3> HIDE DEF Faster, n, i
    <3> QED
      BY <2>2, <2>9, <3>2, <3>3
  <2>12. b = i
    <3> HIDE DEF b, i
    <3> QED
      BY <2>9, <2>10, <2>11
  <2> QED
    BY <2>5, <2>8, <2>12
<1> QED
  BY <1>1, StatsInvKept, PTL

-----------------------------------------------------------------------------
(* The pace of a connection.                                               *)

\* A number of steps of d that stay below Unit.
LEMMA StepsBelow ==
  ASSUME NEW d \in 1 .. Unit, NEW e \in Int, d * e < Unit
  PROVE  e <= Unit \div d
<1> DEFINE k == Unit \div d
<1>1. k \in Nat /\ Unit < d * (k + 1)
  BY DEF Unit
<1> HIDE DEF k
<1>2. ASSUME e >= k + 1
      PROVE  FALSE
  <2>1. d * e >= d * (k + 1)
    BY <1>1, <1>2
  <2> QED
    BY <1>1, <2>1 DEF Unit
<1>3. k \in Int /\ e <= k
  BY <1>1, <1>2
<1> QED
  BY <1>3 DEF k

\* GPareto::set_lambda solves the mean for the scale: whatever the location and
\* a shape below 1 are, and however long the interval, the mean of what it leaves
\* is the interval, but for the rounding.
LEMMA ParetoMean ==
  ASSUME NEW loc \in Nat, NEW d \in 1 .. Unit, NEW interval \in Nat
  PROVE  LET r == Unit \div d + 1
             scale == Times(d, interval) - Times(d, loc)
         IN  (loc + Ratio(scale, d)) - interval \in -r .. r
<1> DEFINE X == d * interval
           Y == d * loc
           a == X \div Unit
           b == Y \div Unit
           s == (a - b) * Unit
           q == s \div d
           e == q - (interval - loc)
           r == Unit \div d + 1
<1>1. X \in Nat /\ Y \in Nat
  OBVIOUS
<1>2. /\ a \in Nat /\ Unit * a <= X /\ X < Unit * a + Unit
      /\ b \in Nat /\ Unit * b <= Y /\ Y < Unit * b + Unit
  <2> HIDE DEF X, Y
  <2> QED
    BY <1>1 DEF Unit
<1>3. s \in Int /\ s - (X - Y) < Unit /\ (X - Y) - s < Unit
  <2> HIDE DEF X, Y, a, b
  <2> QED
    BY <1>1, <1>2 DEF Unit
<1>4. q \in Int /\ d * q <= s /\ s < d * q + d
  <2> HIDE DEF s
  <2> QED
    BY <1>3 DEF Unit
<1>5. e \in Int /\ d * e = d * q - (X - Y) /\ d * (-e - 1) = (X - Y) - d * q - d
  <2> HIDE DEF q
  <2> QED
    BY <1>4 DEF Unit
<1>6. d * e < Unit /\ d * (-e - 1) < Unit
  <2> HIDE DEF X, Y, s, q, e
  <2> DEFINE dq == d * q
             de == d * e
             df == d * (-e - 1)
  <2>1. dq \in Int /\ d \in Int /\ X \in Int /\ Y \in Int /\ s \in Int
    BY <1>1, <1>3, <1>4 DEF Unit
  <2>2. /\ dq <= s /\ s < dq + d
        /\ de = dq - (X - Y) /\ df = (X - Y) - dq - d
    BY <1>4, <1>5
  <2> HIDE DEF dq, de, df
  <2>3. de < Unit /\ df < Unit
    BY <1>3, <2>1, <2>2 DEF Unit
  <2> QED
    BY <2>3 DEF de, df
<1>7. e <= Unit \div d /\ -e - 1 <= Unit \div d
  <2> HIDE DEF e
  <2> QED
    BY <1>5, <1>6, StepsBelow
<1>8. Unit \div d \in Nat
  BY DEF Unit
<1>9. e \in -r .. r
  <2> HIDE DEF e
  <2> QED
    BY <1>5, <1>7, <1>8
<1>10. (loc + Ratio(Times(d, interval) - Times(d, loc), d)) - interval = e
  <2>1. Ratio(Times(d, interval) - Times(d, loc), d) = q
    BY DEF Times, Ratio
  <2> HIDE DEF q
  <2> QED
    BY <1>4, <2>1
<1> QED
  BY <1>9, <1>10

\* The numbers behind the colon of --iadist.
LEMMA Arguments ==
  ASSUME NEW str \in IaDists, NEW i \in Nat \ {0}
  PROVE  Argument(str, i) \in Nat
BY GeneratorAssumption DEF Argument

\* The interval between two requests of a connection with a rate.
LEMMA IntervalIsNat ==
  ASSUME NEW l \in Nat
  PROVE  Interval(l) \in Nat
BY DEF Interval, Ratio, Unit

\* What createGenerator makes has parameters no less than 0, but for the width
\* of a uniform distribution, and a Pareto distribution has a shape.
Generators ==
  [class : {"Fixed"}, value : Nat]
    \cup [class : {"Uniform"}, min : Nat, scale : Int]
    \cup [class : {"Normal"}, mean : Nat, sd : Nat]
    \cup [class : {"Exponential"}, lambda : Nat]
    \cup [class : {"GPareto"}, loc : Nat, scale : Nat, shape : Nat \ {0}]

LEMMA Created ==
  ASSUME NEW str \in IaDists
  PROVE  /\ CreateGenerator(str)
              \in Generators \cup {[class |-> "GEV"], Discrete, Null, Dies}
         /\ CreateGenerator(str) \in Generators
              => str.word \notin {"fb_key", "fb_value", "gev", "none"}
<1> DEFINE a1 == Argument(str, 1)
           a2 == Argument(str, 2)
           a3 == Argument(str, 3)
<1>1. a1 \in Nat /\ a2 \in Nat /\ a3 \in Nat
  BY Arguments
<1> HIDE DEF a1, a2, a3
<1>2. CreateGenerator(str)
        = CASE str.word = "fb_key" -> GEV(79)
            [] str.word = "fb_value" -> Discrete
            [] str.word = "fb_ia" -> GPareto(0, 16029, 155)
            [] IsNumber(str) -> Fixed(a1)
            [] str.word = "fixed" -> Fixed(a1)
            [] str.word = "normal" -> Normal(a1, a2)
            [] str.word = "exponential" -> Exponential(a1)
            [] str.word = "pareto" -> GPareto(a1, a2, a3)
            [] str.word = "gev" -> GEV(a3)
            [] str.word = "uniform" -> Uniform(a1, a2)
            [] str.word = "none" -> Null
            [] OTHER -> Dies
  BY DEF CreateGenerator, a1, a2, a3
<1> QED
  BY <1>1, <1>2 DEF Generators, GEV, Discrete, GPareto, Fixed, Normal,
     Exponential, Uniform, Null, Dies, IsNumber

\* What set_lambda leaves in: the lower end of a uniform distribution, and of
\* a normal one the part that is not centred.
Shift(g) == CASE g.class = "Uniform" -> g.min
              [] g.class = "Normal" -> Times(g.sd, NormalMean)
              [] OTHER -> 0

\* Whatever its class, the mean of an adjusted generator is off by this from
\* the one that the rate asks for.
LEMMA Adjusted ==
  ASSUME NEW g \in Generators, NEW l \in Nat,
         HasMean(SetLambda(g, l)), l > 0
  PROVE  LET h == SetLambda(g, l)
         IN  /\ Near(Mean(h) - Shift(h), Interval(l), Rounding(h))
             /\ Mean(h) \in Int
<1> DEFINE h == SetLambda(g, l)
<1> SUFFICES Near(Mean(h) - Shift(h), Interval(l), Rounding(h)) /\ Mean(h) \in Int
  OBVIOUS
<1>1. Interval(l) \in Nat
  BY IntervalIsNat
<1>2. CASE g.class = "GPareto"
  <2> DEFINE d == Unit - g.shape
             scale == Times(d, Interval(l)) - Times(d, g.loc)
  <2>1. /\ g.loc \in Nat /\ g.shape \in Nat \ {0}
        /\ g = [class |-> "GPareto", loc |-> g.loc, scale |-> g.scale,
                shape |-> g.shape]
    BY <1>2 DEF Generators
  <2>2. h = [class |-> "GPareto", loc |-> g.loc, scale |-> scale,
             shape |-> g.shape]
    BY <1>2, <2>1 DEF SetLambda, SetScale
  <2>3. d \in 1 .. Unit
    BY <2>1, <2>2 DEF HasMean, Unit
  <2>4. Mean(h) - Shift(h) = g.loc + Ratio(scale, d) /\ Mean(h) \in Int
    <3>1. Times(d, Interval(l)) \in Int /\ Times(d, g.loc) \in Int
      BY <1>1, <2>1, <2>3 DEF Times, Unit
    <3> HIDE DEF scale, d
    <3>2. Mean(h) = g.loc + Ratio(scale, Unit - g.shape) /\ Shift(h) = 0
      BY <2>2 DEF Mean, Shift
    <3>3. Ratio(scale, d) \in Int
      BY <2>3, <3>1 DEF Ratio, Unit, scale
    <3> QED
      BY <2>1, <3>2, <3>3 DEF d
  <2>5. Rounding(h) = Unit \div d + 1
    BY <2>2 DEF Rounding
  <2> HIDE DEF h, d
  <2> QED
    BY <1>1, <2>1, <2>3, <2>4, <2>5, ParetoMean DEF Near
<1>3. CASE g.class # "GPareto"
  <2>1. /\ h \in Generators /\ h.class # "GPareto"
        /\ Mean(h) - Shift(h) = Interval(l) /\ Mean(h) \in Int
    <3>1. CASE g.class = "Uniform"
      <4>1. h = [class |-> "Uniform", min |-> g.min, scale |-> 2 * Interval(l)]
            /\ g.min \in Nat
        BY <3>1 DEF SetLambda, Generators
      <4> HIDE DEF h
      <4>2. Mean(h) = (2 * Interval(l)) \div 2 + g.min /\ Shift(h) = g.min
        BY <4>1 DEF Mean, Shift
      <4> QED
        BY <1>1, <4>1, <4>2 DEF Generators
    <3>2. CASE g.class = "Normal"
      <4>1. h = [class |-> "Normal", mean |-> Interval(l), sd |-> g.sd]
            /\ g.sd \in Nat
        BY <3>2 DEF SetLambda, Generators
      <4>2. Times(g.sd, NormalMean) \in Int
        BY <4>1 DEF Times, NormalMean, Unit
      <4> HIDE DEF h
      <4>3. /\ Mean(h) = Interval(l) + Times(g.sd, NormalMean)
            /\ Shift(h) = Times(g.sd, NormalMean)
        BY <4>1 DEF Mean, Shift
      <4> QED
        BY <1>1, <4>1, <4>2, <4>3 DEF Generators
    <3>3. CASE g.class \in {"Fixed", "Exponential"}
      <4>1. h \in {[class |-> "Fixed", value |-> Interval(l)],
                   [class |-> "Exponential", lambda |-> l]}
        BY <3>3 DEF SetLambda, Generators
      <4> HIDE DEF h
      <4>2. Mean(h) = Interval(l) /\ Shift(h) = 0
        BY <4>1 DEF Mean, Shift
      <4> QED
        BY <1>1, <4>1, <4>2 DEF Generators
    <3> QED
      BY <1>3, <3>1, <3>2, <3>3 DEF Generators
  <2>2. Rounding(h) = 0
    BY <2>1 DEF Rounding
  <2> HIDE DEF h
  <2> QED
    BY <1>1, <2>1, <2>2 DEF Near
<1> QED
  BY <1>2, <1>3

\* What a connection knows of its generator on the way: it is the one --iadist
\* names until it is adjusted, and adjusted to the rate of the connection after.
GeneratorInv ==
  /\ ia \in IaDists
  /\ lambda \in Lambdas
  /\ stage = "created" => lambda > 0 /\ iagen = CreateGenerator(ia) /\ iagen # Dies
  /\ stage = "ready" =>
       IF lambda <= 0 THEN iagen = Fixed(0)
       ELSE \E g \in Generators : /\ g = CreateGenerator(ia)
                                  /\ iagen = SetLambda(g, lambda)

\* No uniform distribution has a lower end, and no normal one a deviation.
Centred ==
  \A str \in IaDists :
    /\ str.word = "uniform" => Argument(str, 1) = 0 \/ Argument(str, 2) = 0
    /\ str.word = "normal" => Argument(str, 2) = 0

LEMMA Unshifted ==
  ASSUME NEW str \in IaDists, Centred, NEW l \in Nat,
         CreateGenerator(str) \in Generators
  PROVE  Shift(SetLambda(CreateGenerator(str), l)) = 0
<1> DEFINE a1 == Argument(str, 1)
           a2 == Argument(str, 2)
           a3 == Argument(str, 3)
           g == CreateGenerator(str)
           h == SetLambda(g, l)
<1>1. a1 \in Nat /\ a2 \in Nat /\ a3 \in Nat
  BY Arguments
<1>2. /\ str.word = "uniform" => a1 = 0 \/ a2 = 0
      /\ str.word = "normal" => a2 = 0
  BY DEF Centred
<1> HIDE DEF a1, a2, a3
<1>3. g = CASE str.word = "fb_key" -> GEV(79)
            [] str.word = "fb_value" -> Discrete
            [] str.word = "fb_ia" -> GPareto(0, 16029, 155)
            [] IsNumber(str) -> Fixed(a1)
            [] str.word = "fixed" -> Fixed(a1)
            [] str.word = "normal" -> Normal(a1, a2)
            [] str.word = "exponential" -> Exponential(a1)
            [] str.word = "pareto" -> GPareto(a1, a2, a3)
            [] str.word = "gev" -> GEV(a3)
            [] str.word = "uniform" -> Uniform(a1, a2)
            [] str.word = "none" -> Null
            [] OTHER -> Dies
  BY DEF CreateGenerator, a1, a2, a3
<1>4. g.class = "Uniform" => g.min = 0
  BY <1>1, <1>2, <1>3 DEF GEV, Discrete, GPareto, Fixed, Normal, Exponential,
     Uniform, Null, Dies, IsNumber
<1>5. g.class = "Normal" => g.sd = 0
  BY <1>1, <1>2, <1>3 DEF GEV, Discrete, GPareto, Fixed, Normal, Exponential,
     Uniform, Null, Dies, IsNumber
<1> HIDE DEF g
<1>6. g \in Generators
  BY DEF g
<1>7. CASE g.class = "Uniform"
  <2>1. h = [class |-> "Uniform", min |-> 0, scale |-> 2 * Interval(l)]
    BY <1>4, <1>6, <1>7 DEF SetLambda, Generators
  <2> QED
    BY <2>1 DEF Shift, g
<1>8. CASE g.class = "Normal"
  <2>1. h = [class |-> "Normal", mean |-> Interval(l), sd |-> 0]
    BY <1>5, <1>6, <1>8 DEF SetLambda, Generators
  <2>2. Times(0, NormalMean) = 0
    BY DEF Times, NormalMean, Unit
  <2> QED
    BY <2>1, <2>2 DEF Shift, g
<1>9. CASE g.class \in {"Fixed", "Exponential", "GPareto"}
  <2>1. h.class \notin {"Uniform", "Normal"}
    BY <1>6, <1>9 DEF SetLambda, Generators
  <2> QED
    BY <2>1 DEF Shift, g
<1> QED
  BY <1>6, <1>7, <1>8, <1>9 DEF Generators

\* If that is so, the generator a connection begins with has the mean that
\* --lambda asks for, whatever distribution --iadist names, up to the rounding
\* of GPareto, and is none of those that cannot be adjusted.
THEOREM PaceFollows ==
  ASSUME Centred
  PROVE  GeneratorSpec => []PaceFollowsLambda
<1>1. GeneratorInit => GeneratorInv
  BY DEF GeneratorInit, GeneratorInv
<1>2. GeneratorInv /\ [GeneratorNext]_generatorVars => GeneratorInv'
  <2> SUFFICES ASSUME GeneratorInv, [GeneratorNext]_generatorVars
               PROVE  GeneratorInv'
    OBVIOUS
  <2>1. CASE NoPace
    BY <2>1 DEF GeneratorInv, NoPace
  <2>2. CASE CreateIa
    BY <2>2 DEF GeneratorInv, CreateIa
  <2>3. CASE AdjustIa
    <3>1. /\ lambda \in Nat /\ lambda > 0 /\ iagen = CreateGenerator(ia)
          /\ ia \in IaDists /\ iagen # Dies
      BY <2>3, GeneratorAssumption DEF GeneratorInv, AdjustIa
    <3>2. iagen \in Generators \cup {[class |-> "GEV"], Discrete, Null}
      BY <3>1, Created
    <3>3. iagen \notin Generators => stage' # "ready"
      BY <2>3, <3>2 DEF AdjustIa, SetLambda, Discrete, Null, Dies
    <3>4. ASSUME iagen \in Generators, stage' = "ready"
          PROVE  iagen' = SetLambda(iagen, lambda)
      BY <2>3, <3>4 DEF AdjustIa, Generators, Null
    <3> QED
      BY <2>3, <3>1, <3>3, <3>4 DEF GeneratorInv, AdjustIa
  <2>4. CASE UNCHANGED generatorVars
    BY <2>4 DEF GeneratorInv, generatorVars
  <2> QED
    BY <2>1, <2>2, <2>3, <2>4 DEF GeneratorNext
<1>3. GeneratorInv => PaceFollowsLambda
  <2> SUFFICES ASSUME GeneratorInv, stage = "ready", HasMean(iagen)
               PROVE  /\ Near(Mean(iagen), Interval(lambda), Rounding(iagen))
                      /\ lambda > 0 => ia.word \notin {"fb_key", "fb_value", "gev", "none"}
    BY DEF PaceFollowsLambda
  <2>1. lambda \in Nat /\ ia \in IaDists
    BY GeneratorAssumption DEF GeneratorInv
  <2>2. CASE lambda <= 0
    <3>1. iagen = [class |-> "Fixed", value |-> 0] /\ Interval(lambda) = 0
      BY <2>1, <2>2 DEF GeneratorInv, Fixed, Interval
    <3>2. Mean(iagen) = 0 /\ Rounding(iagen) = 0
      BY <3>1 DEF Mean, Rounding
    <3> QED
      BY <2>1, <2>2, <3>1, <3>2 DEF Near
  <2>3. CASE lambda > 0
    <3>1. PICK g \in Generators : /\ g = CreateGenerator(ia)
                                  /\ iagen = SetLambda(g, lambda)
      BY <2>1, <2>3 DEF GeneratorInv
    <3>2. ia.word \notin {"fb_key", "fb_value", "gev", "none"}
      BY <2>1, <3>1, Created
    <3>3. g \in Generators /\ CreateGenerator(ia) \in Generators
      BY <3>1
    <3>4. Shift(iagen) = 0
      BY <2>1, <3>1, <3>3, Unshifted
    <3>5. /\ Near(Mean(iagen) - Shift(iagen), Interval(lambda), Rounding(iagen))
          /\ Mean(iagen) \in Int
      BY <2>1, <2>3, <3>1, Adjusted
    <3>6. Mean(iagen) - Shift(iagen) = Mean(iagen)
      BY <3>4, <3>5
    <3> QED
      BY <3>2, <3>5, <3>6
  <2> QED
    BY <2>1, <2>2, <2>3
<1> QED
  BY <1>1, <1>2, <1>3, PTL DEF GeneratorSpec
=============================================================================
