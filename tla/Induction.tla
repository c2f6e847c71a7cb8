------------------------------ MODULE Induction ------------------------------
(***************************************************************************)
(* Induction over the natural numbers, stated over sets so that the other  *)
(* modules' proofs can use it, and what it gives of sums: a sum over a     *)
(* finite set of indices, which is a fold in an order nobody states, is    *)
(* the same whichever index is taken first.                                *)
(***************************************************************************)
EXTENDS Integers, FiniteSets, Functions, FiniteSetTheorems, NaturalsInduction,
        WellFoundedInduction, TLAPS

\* A nonempty set of natural numbers has a least member.
LEMMA LeastNatural ==
  ASSUME NEW T \in SUBSET Nat, T # {}
  PROVE  \E n \in T : \A m \in T : n <= m
<1>1. IsWellFoundedOn(OpToRel(<, Nat), Nat)
  BY NatLessThanWellFounded
<1>2. PICK n \in T : \A m \in T : <<m, n>> \notin OpToRel(<, Nat)
  BY <1>1, WFMin
<1>3. \A m \in T : ~(m < n)
  BY <1>2 DEF OpToRel
<1> QED
  BY <1>3

\* A nonempty set of natural numbers up to n has a greatest member.
LEMMA GreatestNatural ==
  ASSUME NEW n \in Nat, NEW T \in SUBSET (0 .. n), T # {}
  PROVE  \E k \in T : \A m \in T : m <= k
<1> DEFINE Short == {n - m : m \in T}
<1>1. Short \in SUBSET Nat /\ Short # {}
  <2>1. \A m \in T : n - m \in Nat
    OBVIOUS
  <2>2. PICK m \in T : TRUE
    OBVIOUS
  <2>3. n - m \in Short
    BY <2>2
  <2> QED
    BY <2>1, <2>3
<1>2. PICK least \in Short : \A m \in Short : least <= m
  BY <1>1, LeastNatural
<1>3. PICK k \in T : least = n - k
  BY <1>2
<1>4. \A m \in T : least <= n - m
  BY <1>2
<1> QED
  BY <1>3, <1>4

\* A set that holds nought and the successor of every member holds them all.
LEMMA NaturalsBySteps ==
  ASSUME NEW T, 0 \in T, \A n \in Nat : n \in T => n + 1 \in T
  PROVE  \A n \in Nat : n \in T
<1> SUFFICES ASSUME Nat \ T # {}
             PROVE  FALSE
  OBVIOUS
<1>1. PICK n \in Nat \ T : \A m \in Nat \ T : n <= m
  BY LeastNatural
<1>2. n - 1 \in Nat /\ n - 1 \notin Nat \ T
  BY <1>1
<1>3. (n - 1) + 1 \in T
  BY <1>2
<1> QED
  BY <1>1, <1>3

----------------------------------------------------------------------------
(***************************************************************************)
(* Sums.  Step is one step of the fold; Folds holds the functions that     *)
(* follow it.                                                              *)
(***************************************************************************)
Pick(s) == CHOOSE x \in s : TRUE
Step(f, s, sum) == IF s = {} THEN 0 ELSE f[Pick(s)] + sum[s \ {Pick(s)}]
SmallSubsets(S, n) == {s \in SUBSET S : Cardinality(s) <= n}

LEMMA Smaller ==
  ASSUME NEW S, IsFiniteSet(S), NEW s \in SUBSET S, NEW x \in s
  PROVE  /\ s \ {x} \in SUBSET S
         /\ IsFiniteSet(s)
         /\ Cardinality(s) \in Nat
         /\ Cardinality(s \ {x}) = Cardinality(s) - 1
         /\ Cardinality(s \ {x}) \in Nat
<1>1. IsFiniteSet(s)
  BY FS_Subset
<1>2. IsFiniteSet(s \ {x}) /\ Cardinality(s \ {x}) = Cardinality(s) - 1
  BY <1>1, FS_RemoveElement
<1> QED
  BY <1>1, <1>2, FS_CardinalityType

LEMMA FoldExists ==
  ASSUME NEW S, IsFiniteSet(S), NEW f
  PROVE  \E sum : sum = [s \in SUBSET S |-> Step(f, s, sum)]
<1> DEFINE Folds(n, sum) == sum = [s \in SmallSubsets(S, n) |-> Step(f, s, sum)]
           Reached == {n \in Nat : \E sum : Folds(n, sum)}
<1>1. 0 \in Reached
  <2> DEFINE sum == [s \in SmallSubsets(S, 0) |-> 0]
  <2>1. \A s \in SmallSubsets(S, 0) : s = {}
    <3> SUFFICES ASSUME NEW s \in SUBSET S, Cardinality(s) <= 0
                 PROVE  s = {}
      BY DEF SmallSubsets
    <3>1. IsFiniteSet(s) /\ Cardinality(s) \in Nat
      BY FS_Subset, FS_CardinalityType
    <3> QED
      BY <3>1, FS_EmptySet
  <2>2. sum = [s \in SmallSubsets(S, 0) |-> Step(f, s, sum)]
    BY <2>1 DEF Step
  <2> QED
    BY <2>2
<1>2. ASSUME NEW n \in Nat, n \in Reached
      PROVE  n + 1 \in Reached
  <2>1. PICK sum : Folds(n, sum)
    BY <1>2
  <2> DEFINE longer == [s \in SmallSubsets(S, n + 1) |->
                          IF Cardinality(s) <= n THEN sum[s] ELSE Step(f, s, sum)]
  <2>2. ASSUME NEW s \in SmallSubsets(S, n + 1)
        PROVE  longer[s] = Step(f, s, longer)
    <3>1. s \in SUBSET S /\ Cardinality(s) <= n + 1
      BY DEF SmallSubsets
    <3>2. longer[s] = Step(f, s, sum)
      <4>1. CASE Cardinality(s) <= n
        <5>1. s \in SmallSubsets(S, n)
          BY <3>1, <4>1 DEF SmallSubsets
        <5>2. sum[s] = Step(f, s, sum)
          BY <2>1, <5>1
        <5> QED
          BY <4>1, <5>2
      <4>2. CASE ~(Cardinality(s) <= n)
        BY <4>2
      <4> QED
        BY <4>1, <4>2
    <3>3. s # {} => longer[s \ {Pick(s)}] = sum[s \ {Pick(s)}]
      <4> SUFFICES ASSUME s # {}
                   PROVE  longer[s \ {Pick(s)}] = sum[s \ {Pick(s)}]
        OBVIOUS
      <4> DEFINE rest == s \ {Pick(s)}
      <4>1. Pick(s) \in s
        BY DEF Pick
      <4>2. /\ rest \in SUBSET S /\ Cardinality(s) \in Nat
            /\ Cardinality(rest) = Cardinality(s) - 1
        BY <3>1, <4>1, Smaller
      <4> HIDE DEF rest
      <4>3. Cardinality(rest) <= n /\ Cardinality(rest) <= n + 1
        BY <3>1, <4>2
      <4>4. rest \in SmallSubsets(S, n + 1)
        BY <4>2, <4>3 DEF SmallSubsets
      <4>5. longer[rest] = sum[rest]
        BY <4>3, <4>4
      <4> QED
        BY <4>5 DEF rest
    <3> HIDE DEF longer
    <3> QED
      BY <3>2, <3>3 DEF Step
  <2>3. longer = [s \in SmallSubsets(S, n + 1) |-> longer[s]]
    OBVIOUS
  <2> HIDE DEF longer
  <2>4. longer = [s \in SmallSubsets(S, n + 1) |-> Step(f, s, longer)]
    BY <2>2, <2>3
  <2> QED
    BY <2>4
<1> HIDE DEF Reached
<1>3. \A n \in Nat : n \in Reached
  BY <1>1, <1>2, NaturalsBySteps
<1>4. Cardinality(S) \in Nat
  BY FS_CardinalityType
<1>5. SmallSubsets(S, Cardinality(S)) = SUBSET S
  BY FS_Subset DEF SmallSubsets
<1>6. PICK sum : Folds(Cardinality(S), sum)
  BY <1>3, <1>4 DEF Reached
<1> QED
  BY <1>5, <1>6

\* The fold SumFunctionOnSet evaluates, over the subsets of S.
PartialSums(f, S) == CHOOSE sum : sum = [s \in SUBSET S |-> Step(f, s, sum)]

LEMMA PartialSumsByStep ==
  ASSUME NEW S, IsFiniteSet(S), NEW f
  PROVE  /\ \A s \in SUBSET S : PartialSums(f, S)[s] = Step(f, s, PartialSums(f, S))
         /\ SumFunctionOnSet(f, S) = PartialSums(f, S)[S]
<1>1. PartialSums(f, S) = [s \in SUBSET S |-> Step(f, s, PartialSums(f, S))]
  BY FoldExists DEF PartialSums
<1>2. SumFunctionOnSet(f, S) = PartialSums(f, S)[S]
  BY DEF SumFunctionOnSet, FoldFunctionOnSet, MapThenFoldSet, PartialSums, Step, Pick
<1> QED
  BY <1>1, <1>2

\* A set of subsets that grows by any one element at a time holds them all.
LEMMA SubsetsBySteps ==
  ASSUME NEW S, IsFiniteSet(S), NEW T, {} \in T,
         \A s \in SUBSET S : s # {} /\ (\A x \in s : s \ {x} \in T) => s \in T
  PROVE  \A s \in SUBSET S : s \in T
<1> DEFINE Reached == {n \in Nat : \A s \in SUBSET S : Cardinality(s) = n => s \in T}
<1>1. 0 \in Reached
  <2> SUFFICES ASSUME NEW s \in SUBSET S, Cardinality(s) = 0
               PROVE  s \in T
    OBVIOUS
  <2> QED
    BY FS_Subset, FS_EmptySet
<1>2. ASSUME NEW n \in Nat, n \in Reached
      PROVE  n + 1 \in Reached
  <2> SUFFICES ASSUME NEW s \in SUBSET S, Cardinality(s) = n + 1
               PROVE  s \in T
    OBVIOUS
  <2>1. s # {}
    <3>1. Cardinality({}) = 0 /\ n + 1 # 0
      BY FS_EmptySet
    <3> QED
      BY <3>1
  <2>2. ASSUME NEW x \in s
        PROVE  s \ {x} \in T
    <3>1. s \ {x} \in SUBSET S /\ Cardinality(s \ {x}) = n
      BY Smaller
    <3> QED
      BY <1>2, <3>1
  <2> QED
    BY <2>1, <2>2
<1> HIDE DEF Reached
<1>3. \A n \in Nat : n \in Reached
  BY <1>1, <1>2, NaturalsBySteps
<1> QED
  BY <1>3, FS_Subset, FS_CardinalityType DEF Reached

\* Two folds that take the same steps over S agree on it.
LEMMA FoldsAgree ==
  ASSUME NEW S, IsFiniteSet(S), NEW f, NEW g, \A x \in S : f[x] = g[x],
         NEW left, \A s \in SUBSET S : left[s] = Step(f, s, left),
         NEW right, \A s \in SUBSET S : right[s] = Step(g, s, right)
  PROVE  \A s \in SUBSET S : left[s] = right[s]
<1> DEFINE Same == {s \in SUBSET S : left[s] = right[s]}
<1>1. {} \in Same
  BY DEF Step
<1>2. ASSUME NEW s \in SUBSET S, s # {}, \A x \in s : s \ {x} \in Same
      PROVE  s \in Same
  <2>1. Pick(s) \in s
    BY <1>2 DEF Pick
  <2>2. f[Pick(s)] = g[Pick(s)] /\ left[s \ {Pick(s)}] = right[s \ {Pick(s)}]
    BY <1>2, <2>1
  <2> QED
    BY <2>2 DEF Step
<1> HIDE DEF Same
<1>3. \A s \in SUBSET S : s \in Same
  BY <1>1, <1>2, SubsetsBySteps
<1> QED
  BY <1>3 DEF Same

\* A sum depends on what is summed over its indices, and on nothing else.
LEMMA SumSame ==
  ASSUME NEW S, IsFiniteSet(S), NEW f, NEW g, \A x \in S : f[x] = g[x]
  PROVE  SumFunctionOnSet(f, S) = SumFunctionOnSet(g, S)
<1>1. \A s \in SUBSET S : PartialSums(f, S)[s] = PartialSums(g, S)[s]
  BY PartialSumsByStep, FoldsAgree
<1> QED
  BY <1>1, PartialSumsByStep

\* A part of the fold over S is the sum over that part.
LEMMA SumOfPart ==
  ASSUME NEW S, IsFiniteSet(S), NEW f, NEW T \in SUBSET S
  PROVE  SumFunctionOnSet(f, T) = PartialSums(f, S)[T]
<1>1. IsFiniteSet(T)
  BY FS_Subset
<1>2. \A s \in SUBSET T : PartialSums(f, T)[s] = PartialSums(f, S)[s]
  <2>1. \A s \in SUBSET T : PartialSums(f, T)[s] = Step(f, s, PartialSums(f, T))
    BY <1>1, PartialSumsByStep
  <2>2. \A s \in SUBSET T : PartialSums(f, S)[s] = Step(f, s, PartialSums(f, S))
    BY PartialSumsByStep
  <2> QED
    BY <1>1, <2>1, <2>2, FoldsAgree
<1> QED
  BY <1>1, <1>2, PartialSumsByStep

\* A function that takes the fold's steps over S ends where the sum does.
LEMMA SumIsAnyFold ==
  ASSUME NEW S, IsFiniteSet(S), NEW f,
         NEW fold, \A s \in SUBSET S : fold[s] = Step(f, s, fold)
  PROVE  fold[S] = SumFunctionOnSet(f, S)
<1>1. \A s \in SUBSET S : PartialSums(f, S)[s] = Step(f, s, PartialSums(f, S))
  BY PartialSumsByStep
<1>2. \A s \in SUBSET S : fold[s] = PartialSums(f, S)[s]
  BY <1>1, FoldsAgree
<1> QED
  BY <1>2, PartialSumsByStep

LEMMA PartialSumsFold ==
  ASSUME NEW S, IsFiniteSet(S), NEW f
  PROVE  PartialSums(f, S) = [s \in SUBSET S |-> Step(f, s, PartialSums(f, S))]
  BY FoldExists DEF PartialSums

LEMMA SumOfNone == ASSUME NEW f PROVE SumFunctionOnSet(f, {}) = 0
<1>1. IsFiniteSet({})
  BY FS_EmptySet
<1> QED
  BY <1>1, PartialSumsByStep DEF Step

\* The index the fold happens to take first.
LEMMA SumByPick ==
  ASSUME NEW S, IsFiniteSet(S), S # {}, NEW f
  PROVE  /\ Pick(S) \in S
         /\ SumFunctionOnSet(f, S)
              = f[Pick(S)] + SumFunctionOnSet(f, S \ {Pick(S)})
<1>1. Pick(S) \in S
  BY DEF Pick
<1>2. PartialSums(f, S)[S] = Step(f, S, PartialSums(f, S))
  BY PartialSumsByStep
<1>3. SumFunctionOnSet(f, S \ {Pick(S)}) = PartialSums(f, S)[S \ {Pick(S)}]
  BY SumOfPart
<1> QED
  BY <1>1, <1>2, <1>3, PartialSumsByStep DEF Step

LEMMA SumType ==
  ASSUME NEW S, IsFiniteSet(S), NEW f, \A x \in S : f[x] \in Int
  PROVE  SumFunctionOnSet(f, S) \in Int
<1> DEFINE Typed == {s \in SUBSET S : SumFunctionOnSet(f, s) \in Int}
<1>1. {} \in Typed
  BY SumOfNone
<1>2. ASSUME NEW s \in SUBSET S, s # {}, \A x \in s : s \ {x} \in Typed
      PROVE  s \in Typed
  <2>1. IsFiniteSet(s)
    BY FS_Subset
  <2>2. /\ Pick(s) \in s
        /\ SumFunctionOnSet(f, s)
             = f[Pick(s)] + SumFunctionOnSet(f, s \ {Pick(s)})
    BY <1>2, <2>1, SumByPick
  <2>3. f[Pick(s)] \in Int /\ SumFunctionOnSet(f, s \ {Pick(s)}) \in Int
    BY <1>2, <2>2
  <2> QED
    BY <2>2, <2>3
<1> HIDE DEF Typed
<1>3. \A s \in SUBSET S : s \in Typed
  BY <1>1, <1>2, SubsetsBySteps
<1> QED
  BY <1>3 DEF Typed

LEMMA SumAtLeast ==
  ASSUME NEW S, IsFiniteSet(S), NEW f, \A x \in S : f[x] \in Int /\ f[x] >= 0
  PROVE  SumFunctionOnSet(f, S) \in Int /\ SumFunctionOnSet(f, S) >= 0
<1> DEFINE Positive ==
      {s \in SUBSET S : SumFunctionOnSet(f, s) \in Int /\ SumFunctionOnSet(f, s) >= 0}
<1>1. {} \in Positive
  BY SumOfNone
<1>2. ASSUME NEW s \in SUBSET S, s # {}, \A x \in s : s \ {x} \in Positive
      PROVE  s \in Positive
  <2>1. IsFiniteSet(s)
    BY FS_Subset
  <2>2. /\ Pick(s) \in s
        /\ SumFunctionOnSet(f, s)
             = f[Pick(s)] + SumFunctionOnSet(f, s \ {Pick(s)})
    BY <1>2, <2>1, SumByPick
  <2>3. /\ f[Pick(s)] \in Int /\ f[Pick(s)] >= 0
        /\ SumFunctionOnSet(f, s \ {Pick(s)}) \in Int
        /\ SumFunctionOnSet(f, s \ {Pick(s)}) >= 0
    BY <1>2, <2>2
  <2> QED
    BY <2>2, <2>3
<1> HIDE DEF Positive
<1>3. \A s \in SUBSET S : s \in Positive
  BY <1>1, <1>2, SubsetsBySteps
<1> QED
  BY <1>3 DEF Positive

\* Any index may be taken first.
LEMMA SumTake ==
  ASSUME NEW S, IsFiniteSet(S), NEW f, \A x \in S : f[x] \in Int, NEW x \in S
  PROVE  SumFunctionOnSet(f, S) = f[x] + SumFunctionOnSet(f, S \ {x})
<1> DEFINE Sum(s) == SumFunctionOnSet(f, s)
           Free == {s \in SUBSET S : \A y \in s : Sum(s) = f[y] + Sum(s \ {y})}
<1>1. {} \in Free
  OBVIOUS
<1>2. ASSUME NEW s \in SUBSET S, s # {}, \A y \in s : s \ {y} \in Free
      PROVE  s \in Free
  <2> SUFFICES ASSUME NEW y \in s
               PROVE  Sum(s) = f[y] + Sum(s \ {y})
    OBVIOUS
  <2> DEFINE first == Pick(s)
  <2>1. IsFiniteSet(s)
    BY FS_Subset
  <2>2. first \in s /\ Sum(s) = f[first] + Sum(s \ {first})
    BY <1>2, <2>1, SumByPick
  <2> HIDE DEF first
  <2>3. CASE y = first
    BY <2>2, <2>3
  <2>4. CASE y # first
    <3>1. y \in s \ {first} /\ first \in s \ {y}
      BY <2>2, <2>4
    <3>2. Sum(s \ {first}) = f[y] + Sum((s \ {first}) \ {y})
      BY <1>2, <2>2, <3>1
    <3>3. Sum(s \ {y}) = f[first] + Sum((s \ {y}) \ {first})
      BY <1>2, <3>1
    <3>4. (s \ {first}) \ {y} = (s \ {y}) \ {first}
      OBVIOUS
    <3> DEFINE rest == (s \ {y}) \ {first}
    <3>5. f[y] \in Int /\ f[first] \in Int /\ Sum(rest) \in Int
      <4>1. rest \in SUBSET S /\ IsFiniteSet(rest)
        BY FS_Subset
      <4> HIDE DEF rest
      <4> QED
        BY <2>2, <4>1, SumType
    <3> HIDE DEF rest, Sum
    <3>6. /\ Sum(s) = f[first] + (f[y] + Sum(rest))
          /\ Sum(s \ {y}) = f[first] + Sum(rest)
      BY <2>2, <3>2, <3>3, <3>4 DEF rest
    <3> QED
      BY <3>5, <3>6
  <2> QED
    BY <2>3, <2>4
<1> HIDE DEF Free
<1>3. \A s \in SUBSET S : s \in Free
  BY <1>1, <1>2, SubsetsBySteps
<1> QED
  BY <1>3 DEF Free

\* One more index adds what is summed there.
LEMMA SumAdd ==
  ASSUME NEW S, IsFiniteSet(S), NEW f, \A y \in S : f[y] \in Int,
         NEW x, x \notin S, f[x] \in Int
  PROVE  SumFunctionOnSet(f, S \cup {x}) = SumFunctionOnSet(f, S) + f[x]
<1>1. IsFiniteSet(S \cup {x}) /\ (S \cup {x}) \ {x} = S
  BY FS_AddElement
<1>2. SumFunctionOnSet(f, S \cup {x}) = f[x] + SumFunctionOnSet(f, S)
  BY <1>1, SumTake
<1>3. SumFunctionOnSet(f, S) \in Int
  BY SumType
<1> QED
  BY <1>2, <1>3

\* What changes at one index changes the sum by as much.
LEMMA SumChange ==
  ASSUME NEW S, IsFiniteSet(S), NEW f, NEW g, NEW x \in S,
         \A y \in S : f[y] \in Int, \A y \in S \ {x} : g[y] = f[y], g[x] \in Int
  PROVE  SumFunctionOnSet(g, S) = SumFunctionOnSet(f, S) + (g[x] - f[x])
<1> DEFINE rest == S \ {x}
<1>1. IsFiniteSet(rest)
  BY FS_Subset
<1>2. SumFunctionOnSet(g, rest) = SumFunctionOnSet(f, rest)
  BY <1>1, SumSame
<1>3. SumFunctionOnSet(f, rest) \in Int
  BY <1>1, SumType
<1>4. /\ SumFunctionOnSet(f, S) = f[x] + SumFunctionOnSet(f, rest)
      /\ SumFunctionOnSet(g, S) = g[x] + SumFunctionOnSet(g, rest)
  BY SumTake
<1> HIDE DEF rest
<1> QED
  BY <1>2, <1>3, <1>4

LEMMA SumOfZeros ==
  ASSUME NEW S, IsFiniteSet(S), NEW f, \A x \in S : f[x] = 0
  PROVE  SumFunctionOnSet(f, S) = 0
<1> DEFINE Nil == {s \in SUBSET S : SumFunctionOnSet(f, s) = 0}
<1>1. {} \in Nil
  BY SumOfNone
<1>2. ASSUME NEW s \in SUBSET S, s # {}, \A x \in s : s \ {x} \in Nil
      PROVE  s \in Nil
  <2>1. IsFiniteSet(s)
    BY FS_Subset
  <2>2. /\ Pick(s) \in s
        /\ SumFunctionOnSet(f, s)
             = f[Pick(s)] + SumFunctionOnSet(f, s \ {Pick(s)})
    BY <1>2, <2>1, SumByPick
  <2>3. f[Pick(s)] = 0 /\ SumFunctionOnSet(f, s \ {Pick(s)}) = 0
    BY <1>2, <2>2
  <2> QED
    BY <2>2, <2>3
<1> HIDE DEF Nil
<1>3. \A s \in SUBSET S : s \in Nil
  BY <1>1, <1>2, SubsetsBySteps
<1> QED
  BY <1>3 DEF Nil

\* What is not nought decides a sum.
LEMMA SumOfSupport ==
  ASSUME NEW S, IsFiniteSet(S), NEW f, \A x \in S : f[x] \in Int,
         NEW T \in SUBSET S, \A x \in S \ T : f[x] = 0
  PROVE  SumFunctionOnSet(f, S) = SumFunctionOnSet(f, T)
<1> DEFINE Kept == {s \in SUBSET S : SumFunctionOnSet(f, s) = SumFunctionOnSet(f, s \cap T)}
<1>1. {} \in Kept
  <2>1. {} \cap T = {}
    OBVIOUS
  <2> QED
    BY <2>1
<1>2. ASSUME NEW s \in SUBSET S, s # {}, \A x \in s : s \ {x} \in Kept
      PROVE  s \in Kept
  <2>1. PICK x \in s : TRUE
    BY <1>2
  <2>2. IsFiniteSet(s) /\ IsFiniteSet(s \cap T) /\ IsFiniteSet((s \ {x}) \cap T)
    BY FS_Subset
  <2>3. /\ \A y \in s : f[y] \in Int
        /\ \A y \in s \cap T : f[y] \in Int
        /\ \A y \in (s \ {x}) \cap T : f[y] \in Int
    OBVIOUS
  <2>4. SumFunctionOnSet(f, s) = f[x] + SumFunctionOnSet(f, s \ {x})
    BY <2>1, <2>2, <2>3, SumTake
  <2>5. SumFunctionOnSet(f, s \ {x}) = SumFunctionOnSet(f, (s \ {x}) \cap T)
    BY <1>2, <2>1
  <2>6. SumFunctionOnSet(f, (s \ {x}) \cap T) \in Int
    BY <2>2, <2>3, SumType
  <2>7. CASE x \in T
    <3>1. x \in s \cap T /\ (s \cap T) \ {x} = (s \ {x}) \cap T
      BY <2>1, <2>7
    <3>2. SumFunctionOnSet(f, s \cap T) = f[x] + SumFunctionOnSet(f, (s \cap T) \ {x})
      BY <2>2, <2>3, <3>1, SumTake
    <3> QED
      BY <2>4, <2>5, <3>1, <3>2
  <2>8. CASE x \notin T
    <3>1. (s \ {x}) \cap T = s \cap T /\ f[x] = 0
      BY <2>1, <2>8
    <3>2. SumFunctionOnSet(f, s \ {x}) = SumFunctionOnSet(f, s \cap T)
      BY <2>5, <3>1
    <3>3. SumFunctionOnSet(f, s \cap T) \in Int
      BY <2>6, <3>1
    <3> QED
      BY <2>4, <3>1, <3>2, <3>3
  <2> QED
    BY <2>7, <2>8
<1> HIDE DEF Kept
<1>3. \A s \in SUBSET S : s \in Kept
  BY <1>1, <1>2, SubsetsBySteps
<1>4. S \cap T = T
  OBVIOUS
<1> QED
  BY <1>3, <1>4 DEF Kept

LEMMA SumOfOne ==
  ASSUME NEW f, NEW x, f[x] \in Int
  PROVE  SumFunctionOnSet(f, {x}) = f[x]
<1>1. IsFiniteSet({}) /\ SumFunctionOnSet(f, {}) = 0
  BY FS_EmptySet, SumOfNone
<1>2. SumFunctionOnSet(f, {} \cup {x}) = SumFunctionOnSet(f, {}) + f[x]
  BY <1>1, SumAdd
<1>3. {} \cup {x} = {x}
  OBVIOUS
<1> QED
  BY <1>1, <1>2, <1>3

\* What is summed may be summed in two parts at each index.
LEMMA SumPlus ==
  ASSUME NEW S, IsFiniteSet(S), NEW f, NEW g, NEW h,
         \A x \in S : f[x] \in Int /\ g[x] \in Int /\ h[x] = f[x] + g[x]
  PROVE  SumFunctionOnSet(h, S) = SumFunctionOnSet(f, S) + SumFunctionOnSet(g, S)
<1> DEFINE Added == {s \in SUBSET S :
              SumFunctionOnSet(h, s) = SumFunctionOnSet(f, s) + SumFunctionOnSet(g, s)}
<1>1. {} \in Added
  BY SumOfNone
<1>2. ASSUME NEW s \in SUBSET S, s # {}, \A x \in s : s \ {x} \in Added
      PROVE  s \in Added
  <2>1. PICK x \in s : TRUE
    BY <1>2
  <2> DEFINE rest == s \ {x}
  <2>2. IsFiniteSet(s) /\ IsFiniteSet(rest)
    BY FS_Subset
  <2>3. \A y \in s : f[y] \in Int /\ g[y] \in Int /\ h[y] \in Int
    OBVIOUS
  <2>4. /\ SumFunctionOnSet(f, s) = f[x] + SumFunctionOnSet(f, rest)
        /\ SumFunctionOnSet(g, s) = g[x] + SumFunctionOnSet(g, rest)
        /\ SumFunctionOnSet(h, s) = h[x] + SumFunctionOnSet(h, rest)
    BY <2>1, <2>2, <2>3, SumTake
  <2>5. SumFunctionOnSet(f, rest) \in Int /\ SumFunctionOnSet(g, rest) \in Int
    BY <2>2, <2>3, SumType
  <2>6. SumFunctionOnSet(h, rest) = SumFunctionOnSet(f, rest) + SumFunctionOnSet(g, rest)
    BY <1>2, <2>1
  <2> HIDE DEF rest
  <2>7. h[x] = f[x] + g[x] /\ f[x] \in Int /\ g[x] \in Int
    BY <2>1
  <2>8. SumFunctionOnSet(h, s) = SumFunctionOnSet(f, s) + SumFunctionOnSet(g, s)
    BY <2>4, <2>5, <2>6, <2>7
  <2> QED
    BY <2>8
<1> HIDE DEF Added
<1>3. \A s \in SUBSET S : s \in Added
  BY <1>1, <1>2, SubsetsBySteps
<1> QED
  BY <1>3 DEF Added

\* A sum may be taken part by part: each index of S belongs to one part.
LEMMA SumByParts ==
  ASSUME NEW S, IsFiniteSet(S), NEW T, IsFiniteSet(T),
         NEW f, \A x \in S : f[x] \in Int,
         NEW part, \A x \in S : part[x] \in T
  PROVE  SumFunctionOnSet([t \in T |-> SumFunctionOnSet(f, {x \in S : part[x] = t})], T)
           = SumFunctionOnSet(f, S)
<1> DEFINE Of(s) == [t \in T |-> SumFunctionOnSet(f, {x \in s : part[x] = t})]
           Parted == {s \in SUBSET S : SumFunctionOnSet(Of(s), T) = SumFunctionOnSet(f, s)}
<1>1. {} \in Parted
  <2>1. \A t \in T : {x \in {} : part[x] = t} = {}
    OBVIOUS
  <2>2. \A t \in T : Of({})[t] = 0
    BY <2>1, SumOfNone
  <2> HIDE DEF Of
  <2>3. SumFunctionOnSet(Of({}), T) = 0
    BY <2>2, SumOfZeros
  <2> QED
    BY <2>3, SumOfNone
<1>2. ASSUME NEW s \in SUBSET S, s # {}, \A x \in s : s \ {x} \in Parted
      PROVE  s \in Parted
  <2>1. PICK x \in s : TRUE
    BY <1>2
  <2> DEFINE rest == s \ {x}
             before == Of(rest)
             after == Of(s)
             mine == {y \in rest : part[y] = part[x]}
  <2>2. IsFiniteSet(s) /\ IsFiniteSet(rest) /\ IsFiniteSet(mine)
    BY FS_Subset
  <2>3. part[x] \in T /\ f[x] \in Int /\ x \notin mine /\ \A y \in s : f[y] \in Int
    BY <2>1
  <2>4. \A t \in T : before[t] \in Int
    <3> SUFFICES ASSUME NEW t \in T
                 PROVE  SumFunctionOnSet(f, {y \in rest : part[y] = t}) \in Int
      OBVIOUS
    <3>1. IsFiniteSet({y \in rest : part[y] = t})
      BY <2>2, FS_Subset
    <3>2. \A y \in {y \in rest : part[y] = t} : f[y] \in Int
      OBVIOUS
    <3> QED
      BY <3>1, <3>2, SumType
  <2>5. \A t \in T \ {part[x]} : after[t] = before[t]
    <3> SUFFICES ASSUME NEW t \in T \ {part[x]}
                 PROVE  after[t] = before[t]
      OBVIOUS
    <3>1. {y \in s : part[y] = t} = {y \in rest : part[y] = t}
      OBVIOUS
    <3> QED
      BY <3>1
  <2>6. after[part[x]] = before[part[x]] + f[x]
    <3>1. {y \in s : part[y] = part[x]} = mine \cup {x}
      BY <2>1
    <3>2. \A y \in mine : f[y] \in Int
      OBVIOUS
    <3>3. after[part[x]] = SumFunctionOnSet(f, mine \cup {x})
      BY <2>3, <3>1
    <3>4. before[part[x]] = SumFunctionOnSet(f, mine)
      BY <2>3
    <3> HIDE DEF mine, after, before
    <3> QED
      BY <2>2, <2>3, <3>2, <3>3, <3>4, SumAdd
  <2>7. SumFunctionOnSet(before, T) = SumFunctionOnSet(f, rest)
    BY <1>2, <2>1
  <2>8. SumFunctionOnSet(f, s) = f[x] + SumFunctionOnSet(f, rest)
    BY <2>1, <2>2, <2>3, SumTake
  <2>9. SumFunctionOnSet(f, rest) \in Int
    BY <2>2, <2>3, SumType
  <2> HIDE DEF before, after, rest, mine
  <2>14. before[part[x]] \in Int
    BY <2>3, <2>4
  <2>10. after[part[x]] \in Int
    BY <2>3, <2>6, <2>14
  <2>11. SumFunctionOnSet(after, T)
           = SumFunctionOnSet(before, T) + (after[part[x]] - before[part[x]])
    <3> DEFINE p == part[x]
    <3>1. p \in T /\ after[p] \in Int
      BY <2>3, <2>10
    <3>2. \A t \in T \ {p} : after[t] = before[t]
      BY <2>5
    <3> HIDE DEF p
    <3>3. SumFunctionOnSet(after, T)
            = SumFunctionOnSet(before, T) + (after[p] - before[p])
      BY <2>4, <3>1, <3>2, SumChange
    <3> QED
      BY <3>3 DEF p
  <2>12. after[part[x]] - before[part[x]] = f[x]
    BY <2>3, <2>6, <2>14
  <2>13. SumFunctionOnSet(after, T) = SumFunctionOnSet(f, s)
    BY <2>3, <2>7, <2>8, <2>9, <2>11, <2>12
  <2> QED
    BY <2>13 DEF after
<1> HIDE DEF Parted
<1>3. \A s \in SUBSET S : s \in Parted
  BY <1>1, <1>2, SubsetsBySteps
<1>4. SumFunctionOnSet(Of(S), T) = SumFunctionOnSet(f, S)
  BY <1>3 DEF Parted
<1> QED
  BY <1>4
=============================================================================
