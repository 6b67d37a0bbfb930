------------------------------- MODULE KeyCache -------------------------------
(***************************************************************************)
(* The pool of prepared keys each connection draws its requests from:      *)
(* CachingKeyGenerator and the generators behind it (src/KeyGenerator.h),  *)
(* as Connection sets them up and asks them (src/Connection.cc).           *)
(*                                                                         *)
(* A key is a number in decimal, padded to a length that is a function of  *)
(* the number, so the number stands for it; longer keys than 249 digits    *)
(* are left out.  get_req holds the request that goes with each key and    *)
(* changes with it.                                                        *)
(*                                                                         *)
(* An operator with a suffix, as Step_Beyond, is a faulty variant of the   *)
(* one that follows it; no definition uses it.                             *)
(***************************************************************************)
EXTENDS Integers, FiniteSets

CONSTANTS
  Settings,         \* what connections are made with
  DefaultCapacity,  \* the defaults of the constructor: 10000,
  DefaultReuse,     \* 100
  DefaultRegen      \* and 1 %

\* A capacity of 0 is one that was not given.  ordered: there is a --keyorder.
\* The default renews no more than all.
ASSUME SettingsAssumption ==
  /\ Settings \subseteq [records : Nat \ {0}, capacity : Nat, reuse : Nat,
                         regen : Nat, ordered : BOOLEAN]
  /\ DefaultCapacity \in Nat \ {0}
  /\ DefaultReuse \in Nat
  /\ DefaultRegen \in 0 .. 100

VARIABLES
  pool,        \* "none", "ready" or "crashed"
  setting,     \* what it was made with
  values,      \* the keys in it
  next,        \* where the last key was taken from
  iterations,  \* how often the pool was gone through since it was renewed
  sent,        \* the keys taken since then, for theorem PassesAreCounted
  renewed      \* and what was renewed, for the properties

cacheVars == <<pool, setting, values, next, iterations, sent, renewed>>

-----------------------------------------------------------------------------
(* What Connection::Connection and the constructor make of a setting.      *)

Given(s) == s.capacity > 0

\* The loader stores the keys 0 .. records-1.
Loaded(s) == 0 .. s.records - 1

Capacity_All(s) == IF Given(s) THEN s.capacity ELSE DefaultCapacity
Capacity(s) ==
  LET wanted == IF Given(s) THEN s.capacity ELSE DefaultCapacity
  IN IF wanted > s.records THEN s.records ELSE wanted

MaxIterations(s) == IF Given(s) THEN s.reuse ELSE DefaultReuse

\* What is to be renewed, one key at least.
Freedom_None(s) ==
  (Capacity(s) * (IF Given(s) THEN s.regen ELSE DefaultRegen)) \div 100
Freedom(s) ==
  LET wanted == (Capacity(s) * (IF Given(s) THEN s.regen ELSE DefaultRegen))
                  \div 100
  IN IF wanted = 0 THEN 1 ELSE wanted

Slots(s) == 0 .. Capacity(s) - 1

\* kg->generate for the slots R: with an order it does not look at the slot.
FreshKeys(s, R) == IF s.ordered THEN [R -> Loaded(s)] ELSE {[i \in R |-> i]}

Filled(v, R, fresh) ==
  [i \in Slots(setting) |-> IF i \in R THEN fresh[i] ELSE v[i]]

-----------------------------------------------------------------------------

\* No connection has been made yet.
CacheNone ==
  /\ pool = "none"
  /\ setting = CHOOSE s \in Settings : TRUE
  /\ values = <<>>
  /\ next = 0
  /\ iterations = 0
  /\ sent = 0
  /\ renewed = {}

CacheInit ==
  /\ pool = "ready"
  /\ setting \in Settings
  /\ \E fresh \in FreshKeys(setting, Slots(setting)) :
       values = Filled(fresh, Slots(setting), fresh)
  /\ next = 0
  /\ iterations = 0
  /\ sent = 0
  /\ renewed = Slots(setting)

\* generate_next: the next key, or else the first one again.
WithinPass == next + 1 < Capacity(setting)
Exhausted == iterations + 1 > MaxIterations(setting)

NextKey ==
  /\ pool = "ready"
  /\ WithinPass
  /\ next' = next + 1
  /\ sent' = sent + 1
  /\ UNCHANGED <<pool, setting, values, iterations, renewed>>

NextPass ==
  /\ pool = "ready"
  /\ ~WithinPass /\ ~Exhausted
  /\ next' = 0
  /\ iterations' = iterations + 1
  /\ sent' = sent + 1
  /\ UNCHANGED <<pool, setting, values, renewed>>

\* regen(step, offset) from two random numbers modulo the number of parts.
Parts == Capacity(setting) \div Freedom(setting)
Steps_Beyond == 1 .. Parts + 1
Steps == 1 .. Parts

RegenSlots(step, offset) ==
  {i \in Slots(setting) : i >= offset /\ (i - offset) % step = 0}

Regenerate ==
  /\ pool = "ready"
  /\ ~WithinPass /\ Exhausted
  /\ Freedom(setting) \in 1 .. Capacity(setting)
  /\ \E offset \in 0 .. Parts - 1, step \in Steps :
       LET R == RegenSlots(step, offset)
       IN /\ renewed' = R
          /\ \E fresh \in FreshKeys(setting, R) :
               values' = Filled(values, R, fresh)
  /\ next' = 0
  /\ iterations' = 0
  /\ sent' = 0
  /\ UNCHANGED <<pool, setting>>

\* With no parts, or parts of no key, there is a division by zero.
DivideByZero ==
  /\ pool = "ready"
  /\ ~WithinPass /\ Exhausted
  /\ Freedom(setting) \notin 1 .. Capacity(setting)
  /\ pool' = "crashed"
  /\ UNCHANGED <<setting, values, next, iterations, sent, renewed>>

CacheNext == NextKey \/ NextPass \/ Regenerate \/ DivideByZero

CacheSpec == CacheInit /\ [][CacheNext]_cacheVars

-----------------------------------------------------------------------------
(* What the pool promises.                                                 *)

\* Only keys the loader has stored are asked for, so that a get finds its key:
\* every slot holds one of them whatever the order, and a multiget, which picks
\* a slot by a random number below records (Connection.cc:210), stays within
\* the pool as long as the pool has room for all records.
KeysLoaded ==
  pool # "none" =>
    /\ \A i \in Slots(setting) : values[i] \in Loaded(setting)
    /\ (IF Given(setting) THEN setting.capacity ELSE DefaultCapacity)
         >= setting.records
       => Loaded(setting) \subseteq DOMAIN values

\* Each renewal replaces regen_freedom keys at least, wherever it begins and
\* however far apart they are, and all of them if regen_freedom is the
\* capacity (KeyGenerator.h:90).
RenewsEnough ==
  pool # "none" =>
    /\ pool = "ready" => Cardinality(renewed) >= Freedom(setting)
                          \/ renewed = Slots(setting)
    /\ Freedom(setting) = Capacity(setting) => renewed = Slots(setting)

\* The process dies of a division by zero for a --keycache_regen of more than
\* 100 % only, which is what a profile sets.
DiesOfExcess == pool = "crashed" => setting.regen > 100
=============================================================================
