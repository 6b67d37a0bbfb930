----------------------------- MODULE FoldProofs -----------------------------
(***************************************************************************)
(* What operators of the community modules return that fold their          *)
(* argument: the sum of a function over a finite set, SumFunctionOnSet,    *)
(* which does not depend on the order in which the fold takes the          *)
(* elements, the concatenation of the members of a sequence, FlattenSeq,   *)
(* and a fold of any operation.  Then what counting takes: unions, and the *)
(* member of a set that has a given rank in it.                            *)
(*                                                                         *)
(* The proofs by induction take a smallest set, or number, for which the   *)
(* lemma fails.                                                            *)
(***************************************************************************)
EXTENDS Integers, SequencesExt, FiniteSetTheorems, SequenceTheorems, TLAPS

\* The element the fold takes first, and the function it is made of.
First(s) == CHOOSE x \in s : TRUE

Sums(w, S, f) ==
  f = [s \in SUBSET S |-> IF s = {} THEN 0 ELSE w[First(s)] + f[s \ {First(s)}]]

LEMMA FirstIn == \A s : s # {} => First(s) \in s
BY DEF First

LEMMA SumAsFunction ==
  ASSUME NEW w, NEW S
  PROVE  SumFunctionOnSet(w, S) = (CHOOSE f : Sums(w, S, f))[S]
BY DEF SumFunctionOnSet, FoldFunctionOnSet, MapThenFoldSet, Sums, First

\* Of any sets of finite sets one has none of its strict subsets with it.
LEMMA Smallest ==
  ASSUME NEW F, F # {}, \A s \in F : IsFiniteSet(s)
  PROVE  \E s \in F : \A r \in F : r \subseteq s => r = s
<1> DEFINE U == UNION F
<1>1. F \subseteq FiniteSubsetsOf(U)
  BY DEF FiniteSubsetsOf
<1>2. \E s \in F : \A r \in F : <<r, s>> \notin StrictSubsetOrdering(U)
  BY <1>1, FS_StrictSubsetOrderingWellFounded, WFMin
<1> QED
  BY <1>2 DEF StrictSubsetOrdering

LEMMA SumsAgree ==
  ASSUME NEW w, NEW S, NEW T, NEW f, NEW g, Sums(w, S, f), Sums(w, T, g),
         NEW s \in SUBSET S, s \in SUBSET T, IsFiniteSet(s)
  PROVE  f[s] = g[s]
<1> DEFINE F == {r \in SUBSET s : f[r] # g[r]}
<1>1. SUFFICES ASSUME F # {}
               PROVE  FALSE
  OBVIOUS
<1>2. \A r \in F : IsFiniteSet(r)
  BY FS_Subset
<1>3. PICK r \in F : \A q \in F : q \subseteq r => q = r
  <2> HIDE DEF F
  <2> QED
    BY <1>1, <1>2, Smallest
<1>4. r \in SUBSET S /\ r \in SUBSET T /\ f[r] # g[r]
  OBVIOUS
<1>5. /\ f[r] = IF r = {} THEN 0 ELSE w[First(r)] + f[r \ {First(r)}]
      /\ g[r] = IF r = {} THEN 0 ELSE w[First(r)] + g[r \ {First(r)}]
  BY <1>4 DEF Sums
<1>6. r # {}
  BY <1>4, <1>5
<1>7. r \ {First(r)} \notin F
  BY <1>3, <1>6, FirstIn
<1> QED
  BY <1>4, <1>5, <1>6, <1>7

LEMMA SumsExist ==
  ASSUME NEW w, NEW S, IsFiniteSet(S)
  PROVE  \E f : Sums(w, S, f)
<1> DEFINE F == {r \in SUBSET S : ~ \E f : Sums(w, r, f)}
<1>1. SUFFICES ASSUME F # {}
               PROVE  FALSE
  OBVIOUS
<1>2. \A r \in F : IsFiniteSet(r)
  BY FS_Subset
<1>3. PICK T \in F : \A q \in F : q \subseteq T => q = T
  <2> HIDE DEF F
  <2> QED
    BY <1>1, <1>2, Smallest
<1> DEFINE G(r) == CHOOSE f : Sums(w, r, f)
           h == [s \in SUBSET T |-> IF s = {} THEN 0
                   ELSE w[First(s)] + G(s \ {First(s)})[s \ {First(s)}]]
<1>4. ASSUME NEW r, r \subseteq T, r # T
      PROVE  Sums(w, r, G(r)) /\ IsFiniteSet(r)
  <2>1. r \in SUBSET S /\ r \notin F
    BY <1>3, <1>4
  <2> QED
    BY <2>1, FS_Subset
<1> HIDE DEF G
<1>5. ASSUME NEW s \in SUBSET T, s # {}
      PROVE  h[s \ {First(s)}] = G(s \ {First(s)})[s \ {First(s)}]
  <2> DEFINE r == s \ {First(s)}
             q == r \ {First(r)}
  <2>1. r \subseteq T /\ r # T /\ q \subseteq r
    BY <1>5, FirstIn
  <2>2. Sums(w, r, G(r))
    BY <1>4, <2>1
  <2>3. G(r)[r] = IF r = {} THEN 0 ELSE w[First(r)] + G(r)[q]
    BY <2>2 DEF Sums
  <2>4. CASE r = {}
    BY <2>1, <2>3, <2>4
  <2>5. CASE r # {}
    <3>1. q # T
      BY <2>1
    <3>2. Sums(w, q, G(q)) /\ IsFiniteSet(q)
      BY <1>4, <2>1, <3>1
    <3>3. G(r)[q] = G(q)[q]
      <4>1. q \in SUBSET r /\ q \in SUBSET q
        BY <2>1
      <4> HIDE DEF r, q
      <4> QED
        BY <2>2, <3>2, <4>1, SumsAgree
    <3>4. h[r] = w[First(r)] + G(q)[q]
      BY <2>1, <2>5
    <3> QED
      BY <2>3, <2>5, <3>3, <3>4
  <2> QED
    BY <2>4, <2>5
<1>6. Sums(w, T, h)
  BY <1>5 DEF Sums
<1> QED
  BY <1>3, <1>6

\* The sum over the empty set, and that over another one.
LEMMA SumEmpty ==
  ASSUME NEW w
  PROVE  SumFunctionOnSet(w, {}) = 0
<1> DEFINE f == CHOOSE g : Sums(w, {}, g)
<1>1. Sums(w, {}, f) /\ SumFunctionOnSet(w, {}) = f[{}]
  BY FS_EmptySet, SumsExist, SumAsFunction
<1> HIDE DEF f
<1> QED
  BY <1>1 DEF Sums

LEMMA SumFirst ==
  ASSUME NEW w, NEW S, IsFiniteSet(S), S # {}
  PROVE  SumFunctionOnSet(w, S)
           = w[First(S)] + SumFunctionOnSet(w, S \ {First(S)})
<1> DEFINE G(r) == CHOOSE f : Sums(w, r, f)
<1>1. ASSUME NEW r, IsFiniteSet(r)
      PROVE  Sums(w, r, G(r)) /\ SumFunctionOnSet(w, r) = G(r)[r]
  BY <1>1, SumsExist, SumAsFunction
<1> HIDE DEF G
<1> DEFINE r == S \ {First(S)}
<1>2. IsFiniteSet(r)
  BY FS_Subset
<1>3. G(S)[S] = w[First(S)] + G(S)[r]
  BY <1>1 DEF Sums
<1>4. G(S)[r] = G(r)[r]
  BY <1>1, <1>2, SumsAgree
<1> QED
  BY <1>1, <1>2, <1>3, <1>4

LEMMA SumType ==
  ASSUME NEW A, NEW w \in [A -> Int], NEW S \in SUBSET A, IsFiniteSet(S)
  PROVE  SumFunctionOnSet(w, S) \in Int
<1> DEFINE F == {r \in SUBSET S : SumFunctionOnSet(w, r) \notin Int}
<1>1. SUFFICES ASSUME F # {}
               PROVE  FALSE
  OBVIOUS
<1>2. \A r \in F : IsFiniteSet(r)
  BY FS_Subset
<1>3. PICK T \in F : \A q \in F : q \subseteq T => q = T
  <2> HIDE DEF F
  <2> QED
    BY <1>1, <1>2, Smallest
<1>4. IsFiniteSet(T) /\ SumFunctionOnSet(w, T) \notin Int
  BY <1>2
<1>5. T # {}
  BY <1>4, SumEmpty
<1>6. First(T) \in T /\ T \ {First(T)} \notin F
  BY <1>3, <1>5, FirstIn
<1>7. w[First(T)] \in Int /\ SumFunctionOnSet(w, T \ {First(T)}) \in Int
  BY <1>6
<1> QED
  BY <1>4, <1>5, <1>7, SumFirst

\* Whichever element can be taken first.
LEMMA SumRemove ==
  ASSUME NEW A, NEW w \in [A -> Int], NEW S \in SUBSET A, IsFiniteSet(S),
         NEW x \in S
  PROVE  SumFunctionOnSet(w, S) = w[x] + SumFunctionOnSet(w, S \ {x})
<1> DEFINE EachFirst(r) == \A y \in r : SumFunctionOnSet(w, r)
                                    = w[y] + SumFunctionOnSet(w, r \ {y})
           F == {r \in SUBSET S : ~EachFirst(r)}
<1>1. SUFFICES ASSUME F # {}
               PROVE  FALSE
  OBVIOUS
<1>2. \A r \in SUBSET S : IsFiniteSet(r)
  BY FS_Subset
<1>3. PICK T \in F : \A q \in F : q \subseteq T => q = T
  <2>1. \A r \in F : IsFiniteSet(r)
    BY <1>2
  <2> HIDE DEF F
  <2> QED
    BY <1>1, <2>1, Smallest
<1>4. PICK y \in T : SumFunctionOnSet(w, T)
                       # w[y] + SumFunctionOnSet(w, T \ {y})
  OBVIOUS
<1> DEFINE p == First(T)
           R == (T \ {y}) \ {p}
<1>5. p \in T /\ SumFunctionOnSet(w, T) = w[p] + SumFunctionOnSet(w, T \ {p})
  BY <1>2, <1>4, FirstIn, SumFirst
<1>6. p # y
  BY <1>4, <1>5
<1>7. EachFirst(T \ {p}) /\ EachFirst(T \ {y})
  <2>1. T \ {p} \in SUBSET S /\ T \ {p} \notin F
    BY <1>3, <1>5
  <2>2. T \ {y} \in SUBSET S /\ T \ {y} \notin F
    BY <1>3, <1>4
  <2> QED
    BY <2>1, <2>2
<1>8. SumFunctionOnSet(w, T \ {y}) = w[p] + SumFunctionOnSet(w, R)
  BY <1>5, <1>6, <1>7
<1>9. SumFunctionOnSet(w, T \ {p}) = w[y] + SumFunctionOnSet(w, R)
  <2>1. (T \ {p}) \ {y} = R
    OBVIOUS
  <2> QED
    BY <1>4, <1>6, <1>7, <2>1
<1>10. w[p] \in Int /\ w[y] \in Int /\ SumFunctionOnSet(w, R) \in Int
  BY <1>2, <1>4, <1>5, SumType
<1> HIDE DEF p, R
<1> QED
  BY <1>4, <1>5, <1>8, <1>9, <1>10

\* An element that is added.
LEMMA SumAdd ==
  ASSUME NEW A, NEW w \in [A -> Int], NEW S \in SUBSET A, IsFiniteSet(S),
         NEW x \in A, x \notin S
  PROVE  SumFunctionOnSet(w, S \union {x}) = SumFunctionOnSet(w, S) + w[x]
<1>1. S \union {x} \in SUBSET A /\ (S \union {x}) \ {x} = S
  OBVIOUS
<1>2. IsFiniteSet(S \union {x})
  BY FS_AddElement
<1>3. SumFunctionOnSet(w, S \union {x}) = w[x] + SumFunctionOnSet(w, S)
  BY <1>1, <1>2, SumRemove
<1> QED
  BY <1>3, SumType

\* Functions that agree on the set have the same sum.
LEMMA SumSame ==
  ASSUME NEW A, NEW B, NEW w \in [A -> Int], NEW v \in [B -> Int],
         NEW S \in SUBSET A, S \subseteq B, IsFiniteSet(S),
         \A x \in S : w[x] = v[x]
  PROVE  SumFunctionOnSet(w, S) = SumFunctionOnSet(v, S)
<1> DEFINE F == {r \in SUBSET S : SumFunctionOnSet(w, r) # SumFunctionOnSet(v, r)}
<1>1. SUFFICES ASSUME F # {}
               PROVE  FALSE
  OBVIOUS
<1>2. \A r \in F : IsFiniteSet(r)
  BY FS_Subset
<1>3. PICK T \in F : \A q \in F : q \subseteq T => q = T
  <2> HIDE DEF F
  <2> QED
    BY <1>1, <1>2, Smallest
<1>4. T # {}
  BY SumEmpty
<1>5. First(T) \in T /\ T \ {First(T)} \notin F
  BY <1>3, <1>4, FirstIn
<1>6. SumFunctionOnSet(w, T \ {First(T)}) = SumFunctionOnSet(v, T \ {First(T)})
      /\ w[First(T)] = v[First(T)]
  BY <1>5
<1> QED
  BY <1>2, <1>4, <1>6, SumFirst

\* A value that changes.
LEMMA SumChange ==
  ASSUME NEW A, NEW w \in [A -> Int], NEW v \in [A -> Int],
         NEW S \in SUBSET A, IsFiniteSet(S), NEW x \in S,
         \A y \in S \ {x} : v[y] = w[y]
  PROVE  SumFunctionOnSet(v, S) = SumFunctionOnSet(w, S) + v[x] - w[x]
<1> DEFINE R == S \ {x}
<1>1. R \in SUBSET A /\ IsFiniteSet(R) /\ x \in A
  BY FS_Subset
<1>2. SumFunctionOnSet(w, R) = SumFunctionOnSet(v, R)
  BY <1>1, SumSame
<1>3. /\ SumFunctionOnSet(w, S) = w[x] + SumFunctionOnSet(w, R)
      /\ SumFunctionOnSet(v, S) = v[x] + SumFunctionOnSet(v, R)
  BY SumRemove
<1>4. w[x] \in Int /\ v[x] \in Int /\ SumFunctionOnSet(w, R) \in Int
  BY <1>1, SumType
<1> HIDE DEF R
<1> QED
  BY <1>2, <1>3, <1>4

\* Natural numbers have a natural sum, and zeros the sum 0.
LEMMA SumNat ==
  ASSUME NEW A, NEW w \in [A -> Nat], NEW S \in SUBSET A, IsFiniteSet(S)
  PROVE  /\ SumFunctionOnSet(w, S) \in Nat
         /\ (\A x \in S : w[x] = 0) => SumFunctionOnSet(w, S) = 0
<1> DEFINE Good(r) ==
             /\ SumFunctionOnSet(w, r) \in Nat
             /\ (\A x \in r : w[x] = 0) => SumFunctionOnSet(w, r) = 0
           F == {r \in SUBSET S : ~Good(r)}
<1>1. SUFFICES ASSUME F # {}
               PROVE  FALSE
  OBVIOUS
<1>2. \A r \in F : IsFiniteSet(r)
  BY FS_Subset
<1>3. PICK T \in F : \A q \in F : q \subseteq T => q = T
  <2> HIDE DEF F
  <2> QED
    BY <1>1, <1>2, Smallest
<1>4. T # {}
  BY SumEmpty
<1>5. First(T) \in T /\ Good(T \ {First(T)})
  BY <1>3, <1>4, FirstIn
<1>6. /\ SumFunctionOnSet(w, T)
           = w[First(T)] + SumFunctionOnSet(w, T \ {First(T)})
      /\ w[First(T)] \in Nat
  BY <1>2, <1>4, <1>5, SumFirst
<1> QED
  BY <1>5, <1>6

\* The members of a family of disjoint sets have as many elements as their
\* union, U.
LEMMA SumOfParts ==
  ASSUME NEW A, NEW P, NEW w, \A x \in A : IsFiniteSet(P[x]),
         w = [x \in A |-> Cardinality(P[x])],
         \A x, y \in A : x # y => P[x] \intersect P[y] = {},
         NEW S \in SUBSET A, IsFiniteSet(S),
         NEW U, \A c : c \in U <=> \E x \in S : c \in P[x]
  PROVE  IsFiniteSet(U) /\ SumFunctionOnSet(w, S) = Cardinality(U)
<1> DEFINE All(r) == UNION {P[x] : x \in r}
           Good(r) == /\ IsFiniteSet(All(r))
                      /\ SumFunctionOnSet(w, r) = Cardinality(All(r))
           F == {r \in SUBSET S : ~Good(r)}
<1>1. SUFFICES ASSUME F # {}
               PROVE  FALSE
  <2>1. U = All(S)
    OBVIOUS
  <2> QED
    BY <2>1
<1>2. \A r \in F : IsFiniteSet(r)
  BY FS_Subset
<1>3. PICK T \in F : \A q \in F : q \subseteq T => q = T
  <2> HIDE DEF F
  <2> QED
    BY <1>1, <1>2, Smallest
<1>4. T # {}
  <2>1. All({}) = {}
    OBVIOUS
  <2>2. Good({})
    BY <2>1, SumEmpty, FS_EmptySet
  <2> QED
    BY <2>2
<1> DEFINE p == First(T)
           R == T \ {p}
<1>5. p \in T /\ Good(R)
  <2>1. p \in T
    BY <1>4, FirstIn
  <2>2. R \in SUBSET S /\ R \notin F
    BY <1>3, <2>1
  <2> QED
    BY <2>1, <2>2
<1>6. /\ p \in A /\ IsFiniteSet(P[p]) /\ w[p] = Cardinality(P[p])
      /\ SumFunctionOnSet(w, T) = w[p] + SumFunctionOnSet(w, R)
  BY <1>2, <1>4, <1>5, SumFirst
<1>7. All(T) = P[p] \union All(R) /\ P[p] \intersect All(R) = {}
  <2>1. \A x \in R : x \in A /\ P[p] \intersect P[x] = {}
    BY <1>6
  <2> QED
    BY <1>5, <2>1
<1> HIDE DEF All, p, R
<1>8. /\ IsFiniteSet(All(T))
      /\ Cardinality(All(T)) = Cardinality(P[p]) + Cardinality(All(R))
  <2> DEFINE a == Cardinality(P[p])
             b == Cardinality(All(R))
             c == Cardinality(P[p] \intersect All(R))
  <2>1. /\ IsFiniteSet(P[p] \union All(R))
        /\ Cardinality(P[p] \union All(R)) = a + b - c
    BY <1>5, <1>6, FS_Union
  <2>2. a \in Nat /\ b \in Nat
    BY <1>5, <1>6, FS_CardinalityType
  <2>3. c = 0
    BY <1>7, FS_EmptySet
  <2> HIDE DEF a, b, c
  <2>4. a + b - c = a + b
    BY <2>2, <2>3
  <2>5. IsFiniteSet(All(T)) /\ Cardinality(All(T)) = a + b
    BY <1>7, <2>1, <2>4
  <2> QED
    BY <2>5 DEF a, b
<1> QED
  BY <1>5, <1>6, <1>8

LEMMA Count ==
  ASSUME NEW n \in Nat
  PROVE  IsFiniteSet(1 .. n) /\ Cardinality(1 .. n) = n
<1>1. 1 \in Int /\ n \in Int /\ (1 > n => n = 0) /\ n - 1 + 1 = n
  OBVIOUS
<1> QED
  BY <1>1, FS_Interval

LEMMA SameCount ==
  ASSUME NEW S, NEW T, NEW f \in [S -> T], IsFiniteSet(S),
         \A a, b \in S : f[a] = f[b] => a = b,
         \A y \in T : \E x \in S : f[x] = y
  PROVE  IsFiniteSet(T) /\ Cardinality(T) = Cardinality(S)
<1>1. f \in Injection(S, T) /\ f \in Surjection(S, T)
  BY DEF Injection, Surjection, IsInjective
<1>2. f \in Bijection(S, T)
  BY <1>1 DEF Bijection
<1> QED
  BY <1>2, FS_Bijection DEF ExistsBijection

-----------------------------------------------------------------------------
(* The concatenation of sequences.                                         *)

\* The function FlattenSeq is made of, for the first n sequences.
Flattens(ss, n, f) ==
  f = [i \in 1 .. n |-> IF i = 1 THEN ss[i] ELSE f[i - 1] \o ss[i]]

LEMMA Least ==
  ASSUME NEW N \in SUBSET Nat, N # {}
  PROVE  \E n \in N : \A m \in N : n <= m
<1>1. PICK n \in N : \A m \in N : <<m, n>> \notin OpToRel(<, Nat)
  BY NatLessThanWellFounded, WFMin
<1>2. ASSUME NEW m \in N
      PROVE  n <= m
  <2>1. m \in Nat /\ n \in Nat
    OBVIOUS
  <2>2. <<m, n>> \notin OpToRel(<, Nat)
    BY <1>1
  <2>3. ~(m < n)
    BY <2>1, <2>2 DEF OpToRel
  <2> QED
    BY <2>1, <2>3
<1> QED
  BY <1>2

LEMMA FlattensExist ==
  ASSUME NEW ss, NEW n \in Nat
  PROVE  \E f : Flattens(ss, n, f)
<1> DEFINE N == {m \in Nat : ~ \E f : Flattens(ss, m, f)}
<1>1. SUFFICES ASSUME N # {}
               PROVE  FALSE
  OBVIOUS
<1>2. PICK m \in N : \A k \in N : m <= k
  <2> HIDE DEF N
  <2>1. N \in SUBSET Nat
    BY DEF N
  <2> QED
    BY <1>1, <2>1, Least
<1>3. m # 0
  <2>1. Flattens(ss, 0, [i \in 1 .. 0 |-> ss[i]])
    BY DEF Flattens
  <2> QED
    BY <2>1
<1>4. m - 1 \in Nat /\ m - 1 \notin N
  BY <1>2, <1>3
<1>5. PICK f : Flattens(ss, m - 1, f)
  BY <1>4
<1> DEFINE g == [i \in 1 .. m |->
                   IF i = 1 THEN ss[i]
                   ELSE IF i < m THEN f[i] ELSE f[i - 1] \o ss[i]]
<1>6. ASSUME NEW i \in 1 .. m, i # 1
      PROVE  g[i] = g[i - 1] \o ss[i]
  <2>1. i - 1 \in 1 .. m - 1 /\ i - 1 < m /\ i - 1 \in 1 .. m
    BY <1>6
  <2>2. g[i - 1] = f[i - 1]
    <3>1. i - 1 = 1 => f[i - 1] = ss[i - 1]
      BY <1>5, <2>1 DEF Flattens
    <3> QED
      BY <2>1, <3>1
  <2>3. i < m => f[i] = f[i - 1] \o ss[i]
    <3>1. i < m => i \in 1 .. m - 1
      OBVIOUS
    <3> QED
      BY <1>5, <1>6, <3>1 DEF Flattens
  <2> QED
    BY <1>6, <2>2, <2>3
<1>7. Flattens(ss, m, g)
  BY <1>6 DEF Flattens
<1> QED
  BY <1>7

\* Members of members are members, and nothing gets lost.
LEMMA FlattenType ==
  ASSUME NEW S, NEW ss \in Seq(Seq(S))
  PROVE  /\ FlattenSeq(ss) \in Seq(S)
         /\ \A i \in 1 .. Len(ss) : \A j \in 1 .. Len(ss[i]) :
              \E k \in 1 .. Len(FlattenSeq(ss)) :
                FlattenSeq(ss)[k] = ss[i][j]
         /\ (\A i \in 1 .. Len(ss) : Len(ss[i]) = 1) =>
              Len(FlattenSeq(ss)) = Len(ss)
<1> DEFINE f == CHOOSE g : Flattens(ss, Len(ss), g)
           Holds(i, n) == \A j \in 1 .. Len(ss[i]) :
                            \E k \in 1 .. Len(f[n]) : f[n][k] = ss[i][j]
           Good(n) == /\ f[n] \in Seq(S)
                      /\ \A i \in 1 .. n : Holds(i, n)
                      /\ (\A i \in 1 .. n : Len(ss[i]) = 1) => Len(f[n]) = n
           N == {n \in 1 .. Len(ss) : ~Good(n)}
<1>1. Len(ss) \in Nat /\ \A i \in 1 .. Len(ss) : ss[i] \in Seq(S)
  BY LenProperties, ElementOfSeq
<1>2. Flattens(ss, Len(ss), f)
  BY <1>1, FlattensExist
<1>3. FlattenSeq(ss) = IF Len(ss) = 0 THEN ss ELSE f[Len(ss)]
  BY DEF FlattenSeq, Flattens
<1> HIDE DEF f
<1>4. \A n \in 1 .. Len(ss) :
        f[n] = IF n = 1 THEN ss[n] ELSE f[n - 1] \o ss[n]
  BY <1>2 DEF Flattens
<1>5. ASSUME N # {}
      PROVE  FALSE
  <2>1. PICK n \in N : \A k \in N : n <= k
    <3> HIDE DEF N
    <3>1. N \in SUBSET Nat
      BY <1>1 DEF N
    <3> QED
      BY <1>5, <3>1, Least
  <2>2. n # 1
    <3>1. SUFFICES ASSUME n = 1
                   PROVE  FALSE
      OBVIOUS
    <3>2. n \in 1 .. Len(ss) /\ ~Good(n)
      BY <2>1
    <3>3. f[n] = ss[n] /\ ss[n] \in Seq(S)
      BY <1>1, <1>4, <3>1, <3>2
    <3>4. Holds(n, n)
      BY <3>3
    <3>5. \A i \in 1 .. n : i = n
      BY <3>1
    <3> HIDE DEF Holds
    <3>6. Good(n)
      BY <3>1, <3>3, <3>4, <3>5
    <3> QED
      BY <3>2, <3>6
  <2>3. /\ n - 1 \in 1 .. Len(ss) /\ n \in 1 .. Len(ss)
        /\ n \in Nat /\ n > 1 /\ ~(n <= n - 1)
    <3> HIDE DEF Good, Holds
    <3>1. n \in 1 .. Len(ss)
      OBVIOUS
    <3> QED
      BY <1>1, <2>2, <3>1
  <2>4. Good(n - 1)
    <3> HIDE DEF Good
    <3>1. n - 1 \notin N
      <4> HIDE DEF N
      <4> QED
        BY <2>1, <2>3
    <3> QED
      BY <2>3, <3>1
  <2> DEFINE u == f[n - 1]
  <2>5. u \in Seq(S) /\ ss[n] \in Seq(S) /\ f[n] = u \o ss[n]
    BY <1>1, <1>4, <2>2, <2>3, <2>4
  <2>6. /\ f[n] \in Seq(S)
        /\ Len(f[n]) = Len(u) + Len(ss[n])
        /\ \A k \in 1 .. Len(u) + Len(ss[n]) :
             f[n][k] = IF k <= Len(u) THEN u[k] ELSE ss[n][k - Len(u)]
        /\ Len(u) \in Nat /\ Len(ss[n]) \in Nat
    <3> HIDE DEF u
    <3> QED
      BY <2>5, ConcatProperties, LenProperties
  <2>7. ASSUME NEW i \in 1 .. n
        PROVE  Holds(i, n)
    <3>1. CASE i = n
      <4> SUFFICES ASSUME NEW j \in 1 .. Len(ss[n])
                   PROVE  \E k \in 1 .. Len(f[n]) : f[n][k] = ss[n][j]
        BY <3>1
      <4> HIDE DEF u
      <4>1. /\ Len(u) + j \in 1 .. Len(u) + Len(ss[n])
            /\ ~(Len(u) + j <= Len(u)) /\ Len(u) + j - Len(u) = j
        BY <2>6
      <4>2. f[n][Len(u) + j] = ss[n][j]
        BY <2>6, <4>1
      <4> QED
        BY <2>6, <4>1, <4>2
    <3>2. CASE i # n
      <4>1. i \in 1 .. n - 1
        BY <2>3, <3>2
      <4>2. Holds(i, n - 1)
        BY <2>4, <4>1
      <4> SUFFICES ASSUME NEW j \in 1 .. Len(ss[i])
                   PROVE  \E k \in 1 .. Len(f[n]) : f[n][k] = ss[i][j]
        OBVIOUS
      <4>3. PICK k \in 1 .. Len(u) : u[k] = ss[i][j]
        BY <4>2
      <4> HIDE DEF u
      <4>4. /\ k \in 1 .. Len(f[n]) /\ k \in 1 .. Len(u) + Len(ss[n])
            /\ k <= Len(u)
        BY <2>6
      <4> QED
        BY <2>6, <4>3, <4>4
    <3> QED
      BY <3>1, <3>2
  <2>8. ASSUME \A i \in 1 .. n : Len(ss[i]) = 1
        PROVE  Len(f[n]) = n
    <3>1. \A i \in 1 .. n - 1 : i \in 1 .. n
      BY <2>3
    <3>2. Len(u) = n - 1
      BY <2>4, <2>8, <3>1
    <3>3. Len(ss[n]) = 1
      BY <2>3, <2>8
    <3> HIDE DEF u
    <3> QED
      BY <2>3, <2>6, <3>2, <3>3
  <2> HIDE DEF Holds
  <2> QED
    BY <2>1, <2>6, <2>7, <2>8
<1>6. CASE Len(ss) = 0
  BY <1>3, <1>6, EmptySeq
<1>7. CASE Len(ss) # 0
  <2>1. Good(Len(ss))
    <3> HIDE DEF Good
    <3>1. Len(ss) \in 1 .. Len(ss) /\ N = {}
      BY <1>1, <1>5, <1>7
    <3> QED
      BY <3>1
  <2> QED
    BY <1>3, <1>7, <2>1
<1> QED
  BY <1>6, <1>7

-----------------------------------------------------------------------------
(* Folds over a finite set with an operation F[x] on a set V of results;   *)
(* pick says which element of a set is taken next.                         *)

Folds(F, base, pick, S, f) ==
  f = [s \in SUBSET S |-> IF s = {} THEN base
                          ELSE F[pick[s]][f[s \ {pick[s]}]]]

LEMMA FoldsAgree ==
  ASSUME NEW F, NEW base, NEW pick, NEW S, NEW T, NEW f, NEW g,
         Folds(F, base, pick, S, f), Folds(F, base, pick, T, g),
         NEW s \in SUBSET S, s \in SUBSET T, IsFiniteSet(s),
         \A r \in SUBSET s : r # {} => pick[r] \in r
  PROVE  f[s] = g[s]
<1> DEFINE D == {r \in SUBSET s : f[r] # g[r]}
<1>1. SUFFICES ASSUME D # {}
               PROVE  FALSE
  OBVIOUS
<1>2. \A r \in D : IsFiniteSet(r)
  BY FS_Subset
<1>3. PICK r \in D : \A q \in D : q \subseteq r => q = r
  <2> HIDE DEF D
  <2> QED
    BY <1>1, <1>2, Smallest
<1>4. r \in SUBSET s /\ r \in SUBSET S /\ r \in SUBSET T /\ f[r] # g[r]
  OBVIOUS
<1>5. /\ f[r] = IF r = {} THEN base ELSE F[pick[r]][f[r \ {pick[r]}]]
      /\ g[r] = IF r = {} THEN base ELSE F[pick[r]][g[r \ {pick[r]}]]
  BY <1>4 DEF Folds
<1>6. r # {}
  BY <1>4, <1>5
<1>7. pick[r] \in r
  BY <1>4, <1>6
<1>8. r \ {pick[r]} \notin D
  BY <1>3, <1>7
<1>9. f[r \ {pick[r]}] = g[r \ {pick[r]}]
  BY <1>4, <1>8
<1> QED
  BY <1>4, <1>5, <1>6, <1>9

\* What can be folded, with the values V on the way.
Foldable(F, base, pick, S, V) ==
  /\ IsFiniteSet(S)
  /\ base \in V
  /\ F \in [S -> [V -> V]]
  /\ \A s \in SUBSET S : s # {} => pick[s] \in s

LEMMA FoldExists ==
  ASSUME NEW V, NEW base, NEW S, NEW F, NEW pick, Foldable(F, base, pick, S, V)
  PROVE  \E f \in [SUBSET S -> V] : Folds(F, base, pick, S, f)
<1> SUFFICES ASSUME base \in V, IsFiniteSet(S), F \in [S -> [V -> V]],
                    \A s \in SUBSET S : s # {} => pick[s] \in s
             PROVE  \E f \in [SUBSET S -> V] : Folds(F, base, pick, S, f)
  BY DEF Foldable
<1> DEFINE D == {r \in SUBSET S :
                   ~ \E f \in [SUBSET r -> V] : Folds(F, base, pick, r, f)}
<1>1. SUFFICES ASSUME D # {}
               PROVE  FALSE
  OBVIOUS
<1>2. \A r \in D : IsFiniteSet(r)
  BY FS_Subset
<1>3. PICK T \in D : \A q \in D : q \subseteq T => q = T
  <2> HIDE DEF D
  <2> QED
    BY <1>1, <1>2, Smallest
<1> DEFINE G(r) == CHOOSE f : f \in [SUBSET r -> V] /\ Folds(F, base, pick, r, f)
           rest(s) == s \ {pick[s]}
           h == [s \in SUBSET T |-> IF s = {} THEN base
                   ELSE F[pick[s]][G(rest(s))[rest(s)]]]
<1>4. T \in SUBSET S /\ \A s \in SUBSET T : s # {} => pick[s] \in s
  OBVIOUS
<1>5. ASSUME NEW r, r \subseteq T, r # T
      PROVE  /\ G(r) \in [SUBSET r -> V] /\ Folds(F, base, pick, r, G(r))
             /\ IsFiniteSet(r)
  <2>1. r \in SUBSET S /\ r \notin D
    BY <1>3, <1>5
  <2>2. \E f : f \in [SUBSET r -> V] /\ Folds(F, base, pick, r, f)
    BY <2>1
  <2> QED
    BY <2>1, <2>2, FS_Subset
<1> HIDE DEF G
<1>6. ASSUME NEW s \in SUBSET T, s # {}
      PROVE  rest(s) \subseteq T /\ rest(s) # T /\ rest(s) # s /\ pick[s] \in S
  BY <1>4, <1>6
<1>7. ASSUME NEW s \in SUBSET T, s # {}
      PROVE  h[rest(s)] = G(rest(s))[rest(s)]
  <2> DEFINE r == rest(s)
             q == rest(r)
  <2>1. r \subseteq T /\ r # T /\ r \in SUBSET r
    BY <1>6, <1>7
  <2>2. Folds(F, base, pick, r, G(r)) /\ IsFiniteSet(r)
    BY <1>5, <2>1
  <2>3. G(r)[r] = IF r = {} THEN base ELSE F[pick[r]][G(r)[q]]
    BY <2>1, <2>2 DEF Folds
  <2>4. CASE r = {}
    BY <2>1, <2>3, <2>4
  <2>5. CASE r # {}
    <3>1. q \subseteq T /\ q # T /\ q \in SUBSET r /\ q \in SUBSET q
      BY <1>6, <2>1, <2>5
    <3>2. Folds(F, base, pick, q, G(q)) /\ IsFiniteSet(q)
      BY <1>5, <3>1
    <3>3. G(r)[q] = G(q)[q]
      <4>1. \A u \in SUBSET q : u # {} => pick[u] \in u
        BY <1>4, <3>1
      <4> HIDE DEF r, q
      <4> QED
        BY <2>2, <3>1, <3>2, <4>1, FoldsAgree
    <3>4. h[r] = F[pick[r]][G(q)[q]]
      BY <2>1, <2>5
    <3> QED
      BY <2>3, <2>5, <3>3, <3>4
  <2> QED
    BY <2>4, <2>5
<1>8. Folds(F, base, pick, T, h)
  BY <1>7 DEF Folds
<1>9. h \in [SUBSET T -> V]
  <2> SUFFICES ASSUME NEW s \in SUBSET T, s # {}
               PROVE  F[pick[s]][G(rest(s))[rest(s)]] \in V
    OBVIOUS
  <2>1. rest(s) \subseteq T /\ rest(s) # T /\ pick[s] \in S
    BY <1>6
  <2>2. G(rest(s)) \in [SUBSET rest(s) -> V] /\ rest(s) \in SUBSET rest(s)
    BY <1>5, <2>1
  <2> DEFINE v == G(rest(s))[rest(s)]
  <2>3. v \in V
    BY <2>2
  <2>4. F[pick[s]] \in [V -> V]
    BY <2>1
  <2> HIDE DEF v
  <2>5. F[pick[s]][v] \in V
    BY <2>3, <2>4
  <2> QED
    BY <2>5 DEF v
<1> QED
  BY <1>3, <1>8, <1>9

\* FoldLeft takes the largest index first.
LEMMA MaxIn ==
  ASSUME NEW n \in Nat, NEW s \in SUBSET (0 .. n), s # {}
  PROVE  Max(s) \in s /\ \A x \in s : x <= Max(s)
<1> DEFINE N == {m \in Nat : n - m \in s}
<1>1. N # {}
  <2>1. PICK x \in s : TRUE
    OBVIOUS
  <2>2. n - x \in Nat /\ n - (n - x) = x
    OBVIOUS
  <2> QED
    BY <2>1, <2>2
<1>2. PICK m \in N : \A k \in N : m <= k
  <2> HIDE DEF N
  <2>1. N \in SUBSET Nat
    BY DEF N
  <2> QED
    BY <1>1, <2>1, Least
<1>3. n - m \in s /\ \A x \in s : n - m >= x
  <2> SUFFICES ASSUME NEW x \in s
               PROVE  n - m >= x
    OBVIOUS
  <2>1. n - x \in Nat /\ n - (n - x) = x /\ x \in Int
    OBVIOUS
  <2>2. m <= n - x
    BY <1>2, <2>1
  <2> QED
    BY <2>1, <2>2
<1>4. Max(s) \in s /\ \A x \in s : Max(s) >= x
  BY <1>3 DEF Max
<1> QED
  BY <1>4

LEMMA MinIn ==
  ASSUME NEW s \in SUBSET Nat, s # {}
  PROVE  Min(s) \in s /\ \A x \in s : Min(s) <= x
<1>1. \E x \in s : \A y \in s : x <= y
  BY Least
<1> QED
  BY <1>1 DEF Min

-----------------------------------------------------------------------------
(* Counting, and ranks.                                                  *)

\* One more, or the same.
LEMMA CountOneMore ==
  ASSUME NEW A, NEW B, NEW x, IsFiniteSet(A), NEW c \in BOOLEAN,
         x \notin A, \A y : y \in B <=> y \in A \/ (c /\ y = x)
  PROVE  /\ IsFiniteSet(B)
         /\ Cardinality(B) = Cardinality(A) + (IF c THEN 1 ELSE 0)
<1>1. Cardinality(A) \in Nat
  BY FS_CardinalityType
<1>2. CASE c
  <2>1. B = A \union {x}
    BY <1>2
  <2> QED
    BY <1>2, <2>1, FS_AddElement
<1>3. CASE ~c
  <2>1. B = A
    BY <1>3
  <2> QED
    BY <1>1, <1>3, <2>1
<1> QED
  BY <1>2, <1>3

LEMMA CountBoth ==
  ASSUME NEW A, NEW B, NEW C, IsFiniteSet(A), IsFiniteSet(B),
         \A x \in A : x \notin B, \A x : x \in C <=> x \in A \/ x \in B
  PROVE  /\ IsFiniteSet(C)
         /\ Cardinality(C) = Cardinality(A) + Cardinality(B)
<1>1. C = A \union B /\ A \intersect B = {}
  OBVIOUS
<1>2. /\ Cardinality(A) \in Nat /\ Cardinality(B) \in Nat
      /\ Cardinality({}) = 0
  BY FS_CardinalityType, FS_EmptySet
<1>3. /\ IsFiniteSet(A \union B)
      /\ Cardinality(A \union B)
           = Cardinality(A) + Cardinality(B) - Cardinality(A \intersect B)
  BY FS_Union
<1>4. /\ IsFiniteSet(C)
      /\ Cardinality(C) = Cardinality(A) + Cardinality(B) - Cardinality({})
  BY <1>1, <1>3
<1> QED
  BY <1>2, <1>4

LEMMA Latest ==
  ASSUME NEW L, IsFiniteSet(L), L # {}, NEW time \in [L -> Nat]
  PROVE  \E k \in L : \A j \in L : time[j] <= time[k]
<1> DEFINE After(k) == {j \in L : time[k] < time[j]}
           F == {After(k) : k \in L}
<1>1. F # {} /\ \A s \in F : IsFiniteSet(s)
  <2>1. \A s \in F : s \in SUBSET L
    OBVIOUS
  <2>2. F # {}
    <3>1. PICK k \in L : TRUE
      OBVIOUS
    <3>2. After(k) \in F
      OBVIOUS
    <3> HIDE DEF F, After
    <3> QED
      BY <3>2
  <2> HIDE DEF F
  <2> QED
    BY <2>1, <2>2, FS_Subset
<1>2. PICK s \in F : \A r \in F : r \subseteq s => r = s
  <2> HIDE DEF F
  <2> QED
    BY <1>1, Smallest
<1>3. PICK k \in L : s = After(k)
  BY <1>2
<1>4. ASSUME NEW j \in After(k)
      PROVE  FALSE
  <2>1. After(j) \in F /\ After(j) \subseteq After(k) /\ j \notin After(j)
    OBVIOUS
  <2> QED
    BY <1>2, <1>3, <2>1
<1> QED
  BY <1>3, <1>4

Earlier(L, time, k) == {j \in L : time[j] < time[k]}
NotLater(L, time, k) == {j \in L : time[j] <= time[k]}

\* Every rank is that of one of them.
LEMMA RankExists ==
  ASSUME NEW L, IsFiniteSet(L), NEW time \in [L -> Nat],
         NEW n \in Nat, n < Cardinality(L)
  PROVE  \E k \in L : /\ Cardinality(Earlier(L, time, k)) <= n
                      /\ n < Cardinality(NotLater(L, time, k))
<1> DEFINE NotAfter(k) == {j \in L : time[j] <= time[k]}
           K == {k \in L : n < Cardinality(NotAfter(k))}
           T == {time[k] : k \in K}
<1>1. L # {}
  BY FS_EmptySet
<1>2. PICK last \in L : \A j \in L : time[j] <= time[last]
  BY <1>1, Latest
<1>3. last \in K
  <2>1. NotAfter(last) = L
    BY <1>2
  <2> QED
    BY <2>1
<1>4. PICK k \in K : \A j \in K : time[k] <= time[j]
  <2>1. T \in SUBSET Nat /\ T # {}
    BY <1>3
  <2>2. PICK t \in T : \A u \in T : t <= u
    <3> HIDE DEF T
    <3> QED
      BY <2>1, Least
  <2>3. PICK k \in K : t = time[k]
    BY <2>2
  <2> QED
    BY <2>2, <2>3
<1> DEFINE Before == {j \in L : time[j] < time[k]}
<1>5. Cardinality(Before) <= n
  <2>1. CASE Before = {}
    BY <2>1, FS_EmptySet
  <2>2. CASE Before # {}
    <3> DEFINE own == [j \in Before |-> time[j]]
    <3>1. IsFiniteSet(Before) /\ own \in [Before -> Nat]
      BY FS_Subset
    <3>2. PICK j \in Before : \A i \in Before : own[i] <= own[j]
      <4> HIDE DEF Before, own
      <4> QED
        BY <2>2, <3>1, Latest
    <3>3. Before \in SUBSET NotAfter(j) /\ IsFiniteSet(NotAfter(j))
      <4>1. \A i \in Before : i \in L /\ time[i] <= time[j]
        BY <3>2
      <4>2. NotAfter(j) \in SUBSET L
        OBVIOUS
      <4> QED
        BY <4>1, <4>2, FS_Subset
    <3>4. Cardinality(Before) <= Cardinality(NotAfter(j))
      BY <3>3, FS_Subset
    <3>5. j \in L /\ j \notin K
      BY <1>4, <3>2
    <3>6. /\ Cardinality(NotAfter(j)) \in Nat /\ Cardinality(Before) \in Nat
          /\ ~(n < Cardinality(NotAfter(j)))
      BY <3>1, <3>3, <3>5, FS_CardinalityType
    <3> HIDE DEF Before, NotAfter
    <3> QED
      BY <3>4, <3>6
  <2> QED
    BY <2>1, <2>2
<1>6. k \in L /\ n < Cardinality(NotAfter(k))
  BY <1>4
<1>7. Before = Earlier(L, time, k) /\ NotAfter(k) = NotLater(L, time, k)
  BY DEF Earlier, NotLater
<1> HIDE DEF Before, NotAfter, K
<1> QED
  BY <1>5, <1>6, <1>7
===============================================================================
