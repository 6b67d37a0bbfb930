------------------------------ MODULE Generator ------------------------------
(***************************************************************************)
(* The distribution of the time between two requests of a connection:      *)
(* createGenerator and the classes it chooses from (src/Generator.cc,      *)
(* src/Generator.h), as Connection sets it up (src/Connection.cc).         *)
(*                                                                         *)
(* A double is a fixed-point number with Unit for 1.0.  generate draws     *)
(* from the distribution of its class; here a class is its parameters, and *)
(* Mean is the expectation of what generate returns.  A string str is a    *)
(* record: the word it begins with, "number" for a number, and the         *)
(* arguments behind the colon.                                             *)
(*                                                                         *)
(* An operator with a suffix, as SetScale_NoLoc, is a faulty variant of    *)
(* the one that follows it; no definition uses it.                         *)
(***************************************************************************)
EXTENDS Integers, Sequences

CONSTANTS
  IaDists,  \* what --iadist is
  Lambdas   \* the rate of a connection

ASSUME GeneratorAssumption ==
  /\ IaDists \subseteq [word : STRING, args : Seq(Nat)]
  /\ Lambdas \subseteq Nat

VARIABLES
  stage,   \* how far the constructor of the connection is
  ia,      \* options.ia
  lambda,  \* options.lambda
  iagen    \* the generator

generatorVars == <<stage, ia, lambda, iagen>>

-----------------------------------------------------------------------------
(* Numbers.                                                                *)

Unit == 1000

Times(x, y) == (x * y) \div Unit
Ratio(x, y) == (x * Unit) \div y

\* 1 / lambda; set_lambda takes 0 where there is no rate.
Interval(l) == IF l > 0 THEN Ratio(Unit, l) ELSE 0

\* What is added up in Normal::generate has this mean and not 0, because the
\* angle and the radius come from one random number.
NormalMean == 56

-----------------------------------------------------------------------------
(* The classes, and the two ways not to get an object of one.              *)

Dies == [class |-> "DIE"]
Null == [class |-> "NULL"]

Fixed(value) == [class |-> "Fixed", value |-> value]

Uniform(min, max) ==
  IF max <= 0 THEN [class |-> "Uniform", min |-> 0, scale |-> min]
  ELSE [class |-> "Uniform", min |-> min, scale |-> max - min]

Normal(mean, sd) == [class |-> "Normal", mean |-> mean, sd |-> sd]

Exponential(l) == [class |-> "Exponential", lambda |-> l]

GPareto(loc, scale, shape) ==
  IF shape = 0 THEN Dies  \* the assertion
  ELSE [class |-> "GPareto", loc |-> loc, scale |-> scale, shape |-> shape]

GEV(shape) == IF shape = 0 THEN Dies ELSE [class |-> "GEV"]

Discrete == [class |-> "Discrete"]

Mean(g) ==
  CASE g.class = "Fixed" -> g.value
    [] g.class = "Uniform" -> g.scale \div 2 + g.min
    [] g.class = "Normal" -> g.mean + Times(g.sd, NormalMean)
    [] g.class = "Exponential" -> Interval(g.lambda)
    [] g.class = "GPareto" -> g.loc + Ratio(g.scale, Unit - g.shape)

\* GPareto::set_lambda solves Mean for the scale.
SetScale_NoLoc(g, l) ==
  IF l <= 0 THEN 0 ELSE Times(Unit - g.shape, Interval(l))
SetScale(g, l) ==
  IF l <= 0 THEN 0
  ELSE Times(Unit - g.shape, Interval(l)) - Times(Unit - g.shape, g.loc)

\* The classes without a set_lambda inherit one that dies.
SetLambda(g, l) ==
  CASE g.class = "Fixed" -> [g EXCEPT !.value = Interval(l)]
    [] g.class = "Uniform" -> [g EXCEPT !.scale = 2 * Interval(l)]
    [] g.class = "Normal" -> [g EXCEPT !.mean = Interval(l)]
    [] g.class = "Exponential" -> [g EXCEPT !.lambda = l]
    [] g.class = "GPareto" -> [g EXCEPT !.scale = SetScale(g, l)]
    [] OTHER -> Dies

-----------------------------------------------------------------------------

Argument(str, i) == IF i <= Len(str.args) THEN str.args[i] ELSE 0

\* atoi finds a number in 1.5 but none in 0.5.
IsNumber(str) == /\ str.word = "number"
                 /\ Argument(str, 1) >= Unit \/ Argument(str, 1) = 0

CreateGenerator(str) ==
  LET a1 == Argument(str, 1)
      a2 == Argument(str, 2)
      a3 == Argument(str, 3)
  IN CASE str.word = "fb_key" -> GEV(79)
       [] str.word = "fb_value" -> Discrete
       [] str.word = "fb_ia" -> GPareto(0, 16029, 155)
       [] IsNumber(str) -> Fixed(a1)
       [] str.word = "fixed" -> Fixed(a1)
       [] str.word = "normal" -> Normal(a1, a2)
       [] str.word = "exponential" -> Exponential(a1)
       [] str.word = "pareto" -> GPareto(a1, a2, a3)
       [] str.word = "gev" -> GEV(a3)
       [] str.word = "uniform" -> Uniform(a1, a2)
       [] str.word = "none" -> Null
       [] OTHER -> Dies

-----------------------------------------------------------------------------
(* The constructor of a connection.                                        *)

GeneratorNone ==
  /\ stage = "none"
  /\ ia \in {CHOOSE str \in IaDists : TRUE}
  /\ lambda = 0
  /\ iagen = Null

GeneratorInit ==
  /\ stage = "new"
  /\ ia \in IaDists
  /\ lambda \in Lambdas
  /\ iagen = Null

\* Without a rate --iadist is not looked at: requests follow each other.
NoPace ==
  /\ stage = "new"
  /\ lambda <= 0
  /\ iagen' = Fixed(0)
  /\ stage' = "ready"
  /\ UNCHANGED <<ia, lambda>>

CreateIa ==
  /\ stage = "new"
  /\ lambda > 0
  /\ iagen' = CreateGenerator(ia)
  /\ stage' = IF iagen' = Dies THEN "dead" ELSE "created"
  /\ UNCHANGED <<ia, lambda>>

\* There is no test for the generator that "none" is.
AdjustIa ==
  /\ stage = "created"
  /\ iagen' = IF iagen = Null THEN Null ELSE SetLambda(iagen, lambda)
  /\ stage' = IF iagen' \in {Null, Dies} THEN "dead" ELSE "ready"
  /\ UNCHANGED <<ia, lambda>>

GeneratorNext == NoPace \/ CreateIa \/ AdjustIa

GeneratorSpec == GeneratorInit /\ [][GeneratorNext]_generatorVars

-----------------------------------------------------------------------------
(* What the generator promises.                                            *)

\* A shape of 1 or more is a distribution without a mean.
HasMean(g) == g.class # "GPareto" \/ g.shape < Unit

\* How far the fixed-point numbers may be off: what GPareto::set_lambda divides
\* away Mean multiplies by 1 / (1 - shape); the others lose nothing.
Rounding(g) == IF g.class = "GPareto" THEN Unit \div (Unit - g.shape) + 1 ELSE 0

Near(x, y, r) == x - y \in -r .. r

\* Whatever its parameters say, a distribution is adjusted to the rate of the
\* connection (cmdline.ggo:44-46): its mean is 1 / lambda, and 0 if there is no
\* rate.  One that cannot be adjusted does not let the process begin.
PaceFollowsLambda ==
  stage = "ready" /\ HasMean(iagen)
    => /\ Near(Mean(iagen), Interval(lambda), Rounding(iagen))
       /\ lambda > 0 => ia.word \notin {"fb_key", "fb_value", "gev", "none"}
=============================================================================
