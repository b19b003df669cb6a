------------------------------- MODULE SumLemmas -------------------------------
(***************************************************************************)
(* Sums of the values of a function over a finite set.  SumFunctionOnSet   *)
(* takes an arbitrary element away at each turn; what the proofs need is   *)
(* that this recursion exists and what it gives.  Induction is on the set, *)
(* in the form that a set of finite sets has a minimal one.                *)
(***************************************************************************)
EXTENDS Integers, Functions, FiniteSetTheorems, WellFoundedInduction, TLAPS

Some(s) == CHOOSE x \in s : TRUE

\* it is the recursive function of which the sum over S is a value.
Unfolds(f, S, it) ==
    it = [s \in SUBSET S |-> IF s = {} THEN 0 ELSE f[Some(s)] + it[s \ {Some(s)}]]

LEMMA SumIsIteration ==
    ASSUME NEW f, NEW S
    PROVE  SumFunctionOnSet(f, S) = (CHOOSE it : Unfolds(f, S, it))[S]
BY DEF SumFunctionOnSet, FoldFunctionOnSet, MapThenFoldSet, Some, Unfolds

\* A set of numbers has a least one.
LEMMA Least ==
    ASSUME NEW S \in SUBSET Nat, S # {}
    PROVE  \E x \in S : \A y \in S : x <= y
<1>1. IsWellFoundedOn(OpToRel(<, Nat), Nat)
  BY NatLessThanWellFounded
<1>2. PICK x \in S : \A y \in S : ~ (<<y, x>> \in OpToRel(<, Nat))
  BY <1>1, WFMin
<1>3. \A y \in S : ~ (y < x)
  BY <1>2 DEF OpToRel
<1> QED BY <1>3

\* A set of subsets of a finite set has a member none of whose elements can be
\* taken away without leaving it.
LEMMA Minimal ==
    ASSUME NEW S, IsFiniteSet(S), NEW B \in SUBSET SUBSET S, B # {}
    PROVE  \E T \in B : \A x \in T : T \ {x} \notin B
<1>1. \A T \in B : IsFiniteSet(T) /\ Cardinality(T) \in Nat
  BY FS_Subset, FS_CardinalityType
<1>2. PICK n \in {Cardinality(T) : T \in B} : \A m \in {Cardinality(T) : T \in B} : n <= m
  <2>1. {Cardinality(T) : T \in B} \in SUBSET Nat /\ {Cardinality(T) : T \in B} # {}
    BY <1>1
  <2> QED BY <2>1, Least
<1>3. PICK T \in B : n = Cardinality(T)
  BY <1>2
<1>4. SUFFICES ASSUME NEW x \in T, T \ {x} \in B PROVE FALSE
  BY <1>3
<1>5. Cardinality(T \ {x}) = Cardinality(T) - 1
  BY <1>1, <1>3, <1>4, FS_RemoveElement
<1>6. Cardinality(T) <= Cardinality(T \ {x})
  BY <1>2, <1>3, <1>4
<1> QED BY <1>1, <1>3, <1>5, <1>6

LEMMA SomeIsElement == ASSUME NEW s, s # {} PROVE Some(s) \in s
BY DEF Some

\* Two iterations agree on what both are defined on.
LEMMA IterationsAgree ==
    ASSUME NEW f, NEW S, IsFiniteSet(S), NEW T \in SUBSET S,
           NEW i, Unfolds(f, S, i), NEW j, Unfolds(f, T, j)
    PROVE  i[T] = j[T]
<1> DEFINE B == {U \in SUBSET T : i[U] # j[U]}
<1>1. SUFFICES ASSUME B # {} PROVE FALSE
  OBVIOUS
<1>2. PICK U \in B : \A x \in U : U \ {x} \notin B
  <2>1. IsFiniteSet(T) /\ B \in SUBSET SUBSET T
    BY FS_Subset
  <2> HIDE DEF B
  <2> QED BY <1>1, <2>1, Minimal
<1>3. /\ i[U] = IF U = {} THEN 0 ELSE f[Some(U)] + i[U \ {Some(U)}]
      /\ j[U] = IF U = {} THEN 0 ELSE f[Some(U)] + j[U \ {Some(U)}]
  <2>1. U \in SUBSET S /\ U \in SUBSET T
    BY <1>2
  <2> QED BY <2>1 DEF Unfolds
<1>4. U # {} => i[U \ {Some(U)}] = j[U \ {Some(U)}]
  BY <1>2, SomeIsElement
<1> QED BY <1>2, <1>3, <1>4

\* The iteration over the subsets of at most n elements.
IterationTo(f, S, n, it) ==
    it = [s \in {s \in SUBSET S : Cardinality(s) <= n} |->
             IF s = {} THEN 0 ELSE f[Some(s)] + it[s \ {Some(s)}]]

LEMMA IterationExists ==
    ASSUME NEW f, NEW S, IsFiniteSet(S)
    PROVE  \E it : Unfolds(f, S, it)
<1> DEFINE P(n) == \E it : IterationTo(f, S, n, it)
           Small(n) == {s \in SUBSET S : Cardinality(s) <= n}
<1>1. \A s \in SUBSET S : IsFiniteSet(s) /\ Cardinality(s) \in Nat /\ (Cardinality(s) = 0 <=> s = {})
  BY FS_Subset, FS_CardinalityType, FS_EmptySet
<1>2. P(0)
  <2> DEFINE z == [s \in Small(0) |-> 0]
  <2>1. \A s \in Small(0) : s = {}
    BY <1>1
  <2>2. IterationTo(f, S, 0, z)
    BY <2>1 DEF IterationTo
  <2> QED BY <2>2
<1>3. ASSUME NEW m \in Nat, P(m) PROVE P(m + 1)
  <2>1. PICK g : IterationTo(f, S, m, g)
    BY <1>3
  <2> DEFINE h == [s \in Small(m + 1) |-> IF s = {} THEN 0 ELSE f[Some(s)] + g[s \ {Some(s)}]]
  <2>2. \A s \in Small(m + 1) : s # {} => s \ {Some(s)} \in Small(m) /\ s \ {Some(s)} \in Small(m + 1)
    <3> SUFFICES ASSUME NEW s \in Small(m + 1), s # {}
                 PROVE  s \ {Some(s)} \in Small(m) /\ s \ {Some(s)} \in Small(m + 1)
      OBVIOUS
    <3>1. Some(s) \in s /\ IsFiniteSet(s) /\ Cardinality(s) \in Nat
      BY <1>1, SomeIsElement
    <3>2. Cardinality(s \ {Some(s)}) = Cardinality(s) - 1
      BY <3>1, FS_RemoveElement
    <3> QED BY <3>1, <3>2
  <2>3. \A s \in Small(m) : s \in Small(m + 1) /\ h[s] = g[s]
    <3>1. \A s \in Small(m) : g[s] = IF s = {} THEN 0 ELSE f[Some(s)] + g[s \ {Some(s)}]
      BY <2>1 DEF IterationTo
    <3>2. \A s \in Small(m) : s \in Small(m + 1)
      BY <1>1
    <3> QED BY <3>1, <3>2
  <2>4. h = [s \in Small(m + 1) |-> IF s = {} THEN 0 ELSE f[Some(s)] + h[s \ {Some(s)}]]
    <3> HIDE DEF h
    <3>1. \A s \in Small(m + 1) : s # {} => h[s \ {Some(s)}] = g[s \ {Some(s)}]
      BY <2>2, <2>3
    <3>2. h = [s \in Small(m + 1) |-> IF s = {} THEN 0 ELSE f[Some(s)] + g[s \ {Some(s)}]]
      BY DEF h
    <3> QED BY <3>1, <3>2
  <2>5. IterationTo(f, S, m + 1, h)
    BY <2>4 DEF IterationTo
  <2> QED BY <2>5
<1>4. \A n \in Nat : P(n)
  <2> HIDE DEF P
  <2> SUFFICES ASSUME {n \in Nat : ~ P(n)} # {} PROVE FALSE
    OBVIOUS
  <2>1. PICK n \in {n \in Nat : ~ P(n)} : \A m \in {n_1 \in Nat : ~ P(n_1)} : n <= m
    BY Least
  <2>2. n # 0
    BY <1>2, <2>1
  <2>3. n - 1 \in Nat /\ P(n - 1)
    BY <2>1, <2>2
  <2>4. P((n - 1) + 1)
    BY <1>3, <2>3
  <2>5. (n - 1) + 1 = n
    BY <2>1
  <2> QED BY <2>1, <2>4, <2>5
<1>5. Cardinality(S) \in Nat /\ \A s \in SUBSET S : Cardinality(s) <= Cardinality(S)
  BY FS_Subset, FS_CardinalityType
<1>6. PICK it : IterationTo(f, S, Cardinality(S), it)
  BY <1>4, <1>5
<1>7. {s \in SUBSET S : Cardinality(s) <= Cardinality(S)} = SUBSET S
  BY <1>5
<1>8. Unfolds(f, S, it)
  BY <1>6, <1>7 DEF Unfolds, IterationTo
<1> QED BY <1>8

\* What a sum is: nothing, or one value and the sum of the others.
LEMMA SumUnfolds ==
    ASSUME NEW f, NEW S, IsFiniteSet(S)
    PROVE  /\ S = {} => SumFunctionOnSet(f, S) = 0
           /\ S # {} => /\ Some(S) \in S /\ IsFiniteSet(S \ {Some(S)})
                        /\ SumFunctionOnSet(f, S) =
                               f[Some(S)] + SumFunctionOnSet(f, S \ {Some(S)})
<1> DEFINE i == CHOOSE it : Unfolds(f, S, it)
           T == S \ {Some(S)}
           j == CHOOSE it : Unfolds(f, T, it)
<1>1. Unfolds(f, S, i)
  BY IterationExists
<1>2. IsFiniteSet(T) /\ T \in SUBSET S
  BY FS_Subset
<1>3. Unfolds(f, T, j)
  BY <1>2, IterationExists
<1>4. SumFunctionOnSet(f, S) = i[S] /\ SumFunctionOnSet(f, T) = j[T]
  BY SumIsIteration
<1> HIDE DEF i, j
<1>5. i[T] = j[T]
  <2> HIDE DEF T
  <2> QED BY <1>1, <1>2, <1>3, IterationsAgree
<1>6. i[S] = IF S = {} THEN 0 ELSE f[Some(S)] + i[T]
  BY <1>1 DEF Unfolds
<1> QED BY <1>2, <1>4, <1>5, <1>6, SomeIsElement

\* A sum of numbers is a number.
LEMMA SumType ==
    ASSUME NEW S, IsFiniteSet(S), NEW f, \A x \in S : f[x] \in Nat
    PROVE  SumFunctionOnSet(f, S) \in Nat
<1> DEFINE B == {T \in SUBSET S : SumFunctionOnSet(f, T) \notin Nat}
<1>1. SUFFICES ASSUME B # {} PROVE FALSE
  OBVIOUS
<1>2. PICK T \in B : \A x \in T : T \ {x} \notin B
  <2> B \in SUBSET SUBSET S
    OBVIOUS
  <2> HIDE DEF B
  <2> QED BY <1>1, Minimal
<1>3. IsFiniteSet(T) /\ T \in SUBSET S /\ SumFunctionOnSet(f, T) \notin Nat
  BY <1>2, FS_Subset
<1>4. /\ T = {} => SumFunctionOnSet(f, T) = 0
      /\ T # {} => Some(T) \in T /\ SumFunctionOnSet(f, T) =
                       f[Some(T)] + SumFunctionOnSet(f, T \ {Some(T)})
  <2> HIDE DEF B
  <2> QED BY <1>3, SumUnfolds
<1>5. T # {} => SumFunctionOnSet(f, T \ {Some(T)}) \in Nat
  BY <1>2, <1>3, <1>4
<1> QED BY <1>3, <1>4, <1>5

LEMMA SumOfZeros ==
    ASSUME NEW S, IsFiniteSet(S), NEW f, \A x \in S : f[x] = 0
    PROVE  SumFunctionOnSet(f, S) = 0
<1> DEFINE B == {T \in SUBSET S : SumFunctionOnSet(f, T) # 0}
<1>1. SUFFICES ASSUME B # {} PROVE FALSE
  OBVIOUS
<1>2. PICK T \in B : \A x \in T : T \ {x} \notin B
  <2> B \in SUBSET SUBSET S
    OBVIOUS
  <2> HIDE DEF B
  <2> QED BY <1>1, Minimal
<1>3. IsFiniteSet(T) /\ T \in SUBSET S /\ SumFunctionOnSet(f, T) # 0
  BY <1>2, FS_Subset
<1>4. /\ T = {} => SumFunctionOnSet(f, T) = 0
      /\ T # {} => Some(T) \in T /\ SumFunctionOnSet(f, T) =
                       f[Some(T)] + SumFunctionOnSet(f, T \ {Some(T)})
  <2> HIDE DEF B
  <2> QED BY <1>3, SumUnfolds
<1>5. T # {} => SumFunctionOnSet(f, T \ {Some(T)}) = 0
  BY <1>2, <1>3, <1>4
<1> QED BY <1>3, <1>4, <1>5

\* It grows with its values, and depends on nothing else.
LEMMA SumGrows ==
    ASSUME NEW S, IsFiniteSet(S), NEW f, \A x \in S : f[x] \in Nat,
           NEW g, \A x \in S : g[x] \in Nat /\ f[x] <= g[x]
    PROVE  SumFunctionOnSet(f, S) <= SumFunctionOnSet(g, S)
<1> DEFINE B == {T \in SUBSET S : ~ (SumFunctionOnSet(f, T) <= SumFunctionOnSet(g, T))}
<1>1. SUFFICES ASSUME B # {} PROVE FALSE
  OBVIOUS
<1>2. PICK T \in B : \A x \in T : T \ {x} \notin B
  <2> B \in SUBSET SUBSET S
    OBVIOUS
  <2> HIDE DEF B
  <2> QED BY <1>1, Minimal
<1>3. IsFiniteSet(T) /\ T \in SUBSET S
  BY <1>2, FS_Subset
<1>4. /\ T = {} => SumFunctionOnSet(f, T) = 0 /\ SumFunctionOnSet(g, T) = 0
      /\ T # {} => /\ Some(T) \in T
                   /\ SumFunctionOnSet(f, T) = f[Some(T)] + SumFunctionOnSet(f, T \ {Some(T)})
                   /\ SumFunctionOnSet(g, T) = g[Some(T)] + SumFunctionOnSet(g, T \ {Some(T)})
  <2> HIDE DEF B
  <2> QED BY <1>3, SumUnfolds
<1>4a. T # {} /\ Some(T) \in T
  BY <1>2, <1>3, <1>4
<1> DEFINE U == T \ {Some(T)}
<1>5. IsFiniteSet(U) /\ U \in SUBSET S
  BY <1>3, FS_Subset
<1>6. SumFunctionOnSet(f, U) <= SumFunctionOnSet(g, U)
  BY <1>2, <1>4a, <1>5
<1>7. SumFunctionOnSet(f, U) \in Nat /\ SumFunctionOnSet(g, U) \in Nat
  <2> HIDE DEF U
  <2> QED BY <1>5, SumType
<1>8. f[Some(T)] \in Nat /\ g[Some(T)] \in Nat /\ f[Some(T)] <= g[Some(T)]
  BY <1>3, <1>4a
<1> QED BY <1>2, <1>4, <1>4a, <1>6, <1>7, <1>8

\* A value that grows by d adds d to it.
LEMMA SumAdds ==
    ASSUME NEW S, IsFiniteSet(S), NEW f, \A x \in S : f[x] \in Nat,
           NEW e \in S, NEW d \in Nat, NEW g, g[e] = f[e] + d, \A x \in S : x # e => g[x] = f[x]
    PROVE  SumFunctionOnSet(g, S) = SumFunctionOnSet(f, S) + d
<1> DEFINE Gain(T) == IF e \in T THEN d ELSE 0
           B == {T \in SUBSET S : SumFunctionOnSet(g, T) # SumFunctionOnSet(f, T) + Gain(T)}
<1>1. SUFFICES ASSUME B # {} PROVE FALSE
  OBVIOUS
<1>2. PICK T \in B : \A x \in T : T \ {x} \notin B
  <2> B \in SUBSET SUBSET S
    OBVIOUS
  <2> HIDE DEF B
  <2> QED BY <1>1, Minimal
<1>3. IsFiniteSet(T) /\ T \in SUBSET S
  BY <1>2, FS_Subset
<1>4. /\ T = {} => SumFunctionOnSet(f, T) = 0 /\ SumFunctionOnSet(g, T) = 0
      /\ T # {} => /\ Some(T) \in T
                   /\ SumFunctionOnSet(f, T) = f[Some(T)] + SumFunctionOnSet(f, T \ {Some(T)})
                   /\ SumFunctionOnSet(g, T) = g[Some(T)] + SumFunctionOnSet(g, T \ {Some(T)})
  <2> HIDE DEF B
  <2> QED BY <1>3, SumUnfolds
<1>4a. T # {} /\ Some(T) \in T
  BY <1>2, <1>3, <1>4
<1> DEFINE U == T \ {Some(T)}
<1>5. IsFiniteSet(U) /\ U \in SUBSET S
  BY <1>3, FS_Subset
<1>6. SumFunctionOnSet(g, U) = SumFunctionOnSet(f, U) + Gain(U)
  BY <1>2, <1>4a, <1>5
<1>7. SumFunctionOnSet(f, U) \in Nat
  <2> HIDE DEF U
  <2> QED BY <1>5, SumType
<1>8. g[Some(T)] + Gain(U) = f[Some(T)] + Gain(T)
  BY <1>3, <1>4a
<1>9. f[Some(T)] \in Nat /\ g[Some(T)] \in Nat
  BY <1>3, <1>4a
<1>10. Gain(T) \in Nat /\ Gain(U) \in Nat
  OBVIOUS
<1>11. SumFunctionOnSet(g, T) # SumFunctionOnSet(f, T) + Gain(T)
  BY <1>2
<1> HIDE DEF Gain, B, U
<1>12. /\ SumFunctionOnSet(f, T) = f[Some(T)] + SumFunctionOnSet(f, U)
       /\ SumFunctionOnSet(g, T) = g[Some(T)] + SumFunctionOnSet(g, U)
  BY <1>4, <1>4a DEF U
<1> QED BY <1>6, <1>7, <1>8, <1>9, <1>10, <1>11, <1>12

\* The part of R that a function maps to k, or into K.
Part(R, to, k) == {r \in R : to[r] = k}
Parts(R, to, K) == {r \in R : to[r] \in K}

\* The sizes of the parts of a finite set add up.
LEMMA SumOfParts ==
    ASSUME NEW K, IsFiniteSet(K), NEW R, IsFiniteSet(R), NEW to,
           NEW f, \A k \in K : f[k] = Cardinality(Part(R, to, k))
    PROVE  SumFunctionOnSet(f, K) = Cardinality(Parts(R, to, K))
<1> DEFINE In(T) == Parts(R, to, T)
           B == {T \in SUBSET K : SumFunctionOnSet(f, T) # Cardinality(In(T))}
<1>1. SUFFICES ASSUME B # {} PROVE FALSE
  OBVIOUS
<1>2. PICK T \in B : \A x \in T : T \ {x} \notin B
  <2> B \in SUBSET SUBSET K
    OBVIOUS
  <2> HIDE DEF B
  <2> QED BY <1>1, Minimal
<1>3. IsFiniteSet(T) /\ T \in SUBSET K
  BY <1>2, FS_Subset
<1>4. /\ T = {} => SumFunctionOnSet(f, T) = 0
      /\ T # {} => Some(T) \in T /\ SumFunctionOnSet(f, T) =
                       f[Some(T)] + SumFunctionOnSet(f, T \ {Some(T)})
  <2> HIDE DEF B
  <2> QED BY <1>3, SumUnfolds
<1>5. T # {} /\ Some(T) \in T
  <2>1. T = {} => In(T) = {}
    BY DEF Parts
  <2> QED BY <1>2, <1>4, <2>1, FS_EmptySet
<1> DEFINE U == T \ {Some(T)}
           One == Part(R, to, Some(T))
<1>6. SumFunctionOnSet(f, U) = Cardinality(In(U))
  BY <1>2, <1>3, <1>5
<1>7. In(T) = In(U) \cup One /\ In(U) \cap One = {}
  BY <1>5 DEF Part, Parts
<1>8. IsFiniteSet(In(U)) /\ IsFiniteSet(One)
  BY FS_Subset DEF Part, Parts
<1>9. f[Some(T)] = Cardinality(One)
  BY <1>3, <1>5
<1> HIDE DEF In, One, U
<1>10. Cardinality(In(T)) = Cardinality(In(U)) + Cardinality(One)
  <2>1. Cardinality(In(U) \cap One) = 0
    BY <1>7, FS_EmptySet
  <2>2. Cardinality(In(U)) \in Nat /\ Cardinality(One) \in Nat
    BY <1>8, FS_CardinalityType
  <2>3. Cardinality(In(U) \cup One) =
          Cardinality(In(U)) + Cardinality(One) - Cardinality(In(U) \cap One)
    BY <1>8, FS_Union
  <2> QED BY <1>7, <2>1, <2>2, <2>3
<1>11. SumFunctionOnSet(f, T) = Cardinality(One) + Cardinality(In(U))
  BY <1>4, <1>5, <1>6, <1>9 DEF U
<1>12. Cardinality(In(U)) \in Nat /\ Cardinality(One) \in Nat
  BY <1>8, FS_CardinalityType
<1>13. SumFunctionOnSet(f, T) # Cardinality(In(T))
  BY <1>2
<1> QED BY <1>10, <1>11, <1>12, <1>13
===============================================================================
