----------------------------- MODULE MCSequential -----------------------------
(* Small instances of the sequential parts of mcperf that need no company, *)
(* QpsSearch, KeyCache and Generator.  A behaviour is one of one of them.  *)
EXTENDS QpsSearch, KeyCache, Generator

VARIABLE part  \* which of them

Init == \/ part = "search" /\ SearchInit /\ CacheNone /\ GeneratorNone
        \/ part = "cache" /\ CacheInit /\ SearchNone /\ GeneratorNone
        \/ part = "generator" /\ GeneratorInit /\ SearchNone /\ CacheNone

Next ==
  \/ part = "search" /\ Search /\ UNCHANGED <<part, cacheVars, generatorVars>>
  \/ part = "cache" /\ CacheNext /\ UNCHANGED <<part, searchVars, generatorVars>>
  \/ /\ part = "generator"
     /\ GeneratorNext
     /\ UNCHANGED <<part, searchVars, cacheVars>>

allVars == <<part, searchVars, cacheVars, generatorVars>>

Spec == Init /\ [][Next]_allVars /\ WF_searchVars(Search)

-----------------------------------------------------------------------------

\* Four bins, the last one above 8000 microseconds; the bound is in the third.
EdgeDef == [i \in 0 .. 4 |-> <<1, 100, 1000, 8000, 64000>>[i + 1]]

Op(type, time, by) == [type |-> type, time |-> time, by |-> by]

\* Parties 1 and 2 are threads, 3 is an agent.
Gets(slow) ==
  IF slow THEN <<Op("get", 60, 1), Op("get", 5000, 1), Op("get", 6000, 2),
                 Op("get", 7000, 2), Op("get", 9000, 2), Op("get", 9500, 3),
                 Op("get", 6500, 3)>>
  ELSE <<Op("get", 60, 1), Op("get", 500, 1), Op("get", 50, 2),
         Op("get", 150, 3), Op("get", 0, 3)>>

\* Sets, but no gets, are slow.
Mixed(slow) ==
  <<Op("get", 60, 1), Op("get", 900, 3)>> \o
  (IF slow THEN <<Op("set", 5000, 1), Op("set", 6000, 2)>>
   ELSE <<Op("set", 40, 1), Op("set", 30, 2)>>)

Sets(slow) == SelectSeq(Mixed(slow), LAMBDA r : r.type = "set")

RequestsDef(t, slow) == CASE t = "gets" -> Gets(slow)
                          [] t = "mixed" -> Mixed(slow)
                          [] t = "sets" -> Sets(slow)

ScansDef == {[min |-> 10, max |-> 40, step |-> 10],
             [min |-> 5, max |-> 4, step |-> 1]}

Setting(records, capacity, reuse, regen, ordered) ==
  [records |-> records, capacity |-> capacity, reuse |-> reuse,
   regen |-> regen, ordered |-> ordered]

\* Pools smaller and larger than the records, of defaults and of given values.
SettingsDef ==
  {Setting(12, 0, 0, 0, FALSE), Setting(5, 0, 0, 0, FALSE),
   Setting(3, 4, 1, 50, TRUE), Setting(4, 3, 2, 0, TRUE),
   Setting(7, 7, 1, 100, FALSE), Setting(9, 9, 0, 40, FALSE),
   Setting(20, 12, 2, 30, FALSE), Setting(9, 6, 1, 400, FALSE)}

Dist(word, args) == [word |-> word, args |-> args]

\* Every class and every way not to get one; the shape of a Pareto distribution
\* below and above 1, its location below and above the interval.  A uniform one
\* begins at 0 and a normal one has no deviation.
IaDistsDef ==
  {Dist("exponential", <<>>), Dist("exponential", <<250>>),
   Dist("fixed", <<7000>>), Dist("number", <<0>>), Dist("number", <<500>>),
   Dist("number", <<1500>>), Dist("uniform", <<3000>>),
   Dist("uniform", <<0, 900>>), Dist("uniform", <<>>),
   Dist("normal", <<1000>>), Dist("pareto", <<0, 16000, 155>>),
   Dist("pareto", <<200, 1000, 500>>), Dist("pareto", <<3000, 1000, 250>>),
   Dist("pareto", <<0, 1000, 1500>>), Dist("pareto", <<200, 1000>>),
   Dist("fb_ia", <<>>), Dist("fb_key", <<>>), Dist("fb_value", <<>>),
   Dist("gev", <<1000, 1000, 100>>), Dist("gev", <<1000>>),
   Dist("none", <<>>), Dist("n", <<1000, 200>>)}

\* Uniform distributions with a lower end of 0.1 and of 0.5.
LowerEndDef == {Dist("uniform", <<100, 900>>), Dist("uniform", <<500, 700>>)}
=============================================================================
