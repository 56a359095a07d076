---------------------------- MODULE SumTheorems ----------------------------
(***************************************************************************)
(* What the proofs need of SumFunctionOnSet and Max, the community         *)
(* modules' folds over finite sets.  Both are defined by choice, so what   *)
(* they compute is shown by a least counterexample: the natural numbers    *)
(* are well-founded.                                                       *)
(***************************************************************************)
EXTENDS FiniteSetsExt, FiniteSetTheorems, WellFoundedInduction, TLAPS

LEMMA LeastNatural ==
  ASSUME NEW U, U \subseteq Nat, U # {}
  PROVE  \E u \in U : \A v \in U : u <= v
<1> DEFINE R == OpToRel(<, Nat)
<1>1. \A x, y \in Nat : <<y, x>> \in R <=> y < x
  BY DEF OpToRel
<1>2. IsWellFoundedOn(R, Nat)
  BY NatLessThanWellFounded
<1> HIDE DEF R
<1>3. PICK u \in U : \A v \in U : ~ (<<v, u>> \in R)
  BY <1>2, WFMin
<1>4. \A v \in U : ~ (v < u)
  BY <1>1, <1>3
<1>5. QED
  BY <1>4

\* A set of naturals with a bound has a maximum.
LEMMA MaxOfBounded ==
  ASSUME NEW n \in Nat, NEW S \in SUBSET (0..n), S # {}
  PROVE  Max(S) \in S /\ \A x \in S : x <= Max(S)
<1> DEFINE U == {u \in Nat : \A x \in S : x <= u}
<1>1. n \in U
  OBVIOUS
<1>2. PICK u \in U : \A v \in U : u <= v
  BY <1>1, LeastNatural
<1>3. u \in S
  <2>1. SUFFICES ASSUME u \notin S PROVE FALSE
    OBVIOUS
  <2>2. PICK z \in S : TRUE
    OBVIOUS
  <2>3. u - 1 \in Nat /\ \A x \in S : x <= u - 1
    BY <2>1, <2>2
  <2>4. u - 1 \in U
    BY <2>3
  <2>5. QED
    BY <1>2, <2>4
<1>4. QED
  BY <1>3 DEF Max

-----------------------------------------------------------------------------
Some(s) == CHOOSE x \in s : TRUE

\* The partial sums of f below S, as the fold goes through them.
Adds(g, f, S) ==
  g = [s \in SUBSET S |-> IF s = {} THEN 0 ELSE f[Some(s)] + g[s \ {Some(s)}]]

PartialSums(f, S) == CHOOSE g : Adds(g, f, S)

LEMMA SumUnfolds ==
  ASSUME NEW f, NEW S
  PROVE  SumFunctionOnSet(f, S) = PartialSums(f, S)[S]
BY DEF SumFunctionOnSet, FoldFunctionOnSet, MapThenFoldSet, PartialSums, Adds, Some

LEMMA SomeIsOne ==
  ASSUME NEW S, IsFiniteSet(S), S # {}
  PROVE  /\ Some(S) \in S /\ IsFiniteSet(S \ {Some(S)})
         /\ Cardinality(S) \in Nat /\ Cardinality(S \ {Some(S)}) = Cardinality(S) - 1
<1>1. Some(S) \in S
  BY DEF Some
<1>2. QED
  BY <1>1, FS_RemoveElement, FS_CardinalityType

\* The partial sums exist ...
LEMMA SumsExist ==
  ASSUME NEW S, IsFiniteSet(S), NEW f
  PROVE  Adds(PartialSums(f, S), f, S)
<1> DEFINE Up(g, n) ==
             \A s \in SUBSET S : Cardinality(s) <= n =>
               g[s] = IF s = {} THEN 0 ELSE f[Some(s)] + g[s \ {Some(s)}]
           Onward(g) == [s \in SUBSET S |-> IF s = {} THEN 0 ELSE f[Some(s)] + g[s \ {Some(s)}]]
           Holds(n) == \E g : g = [s \in SUBSET S |-> g[s]] /\ Up(g, n)
           Bad == {n \in Nat : ~Holds(n)}
<1>0. \A s \in SUBSET S : IsFiniteSet(s) /\ Cardinality(s) \in Nat
  BY FS_Subset, FS_CardinalityType
<1>1. Holds(0)
  <2>1. Up([s \in SUBSET S |-> 0], 0)
    BY <1>0, FS_EmptySet
  <2>2. QED
    BY <2>1
<1>2. ASSUME NEW n \in Nat, Holds(n)
      PROVE  Holds(n + 1)
  <2>1. PICK g : Up(g, n)
    BY <1>2
  <2>2. ASSUME NEW s \in SUBSET S, Cardinality(s) <= n + 1, s # {}
        PROVE  g[s \ {Some(s)}] = Onward(g)[s \ {Some(s)}]
    <3> DEFINE t == s \ {Some(s)}
    <3>1. t \in SUBSET S /\ Cardinality(t) <= n
      BY <1>0, <2>2, SomeIsOne
    <3> HIDE DEF t
    <3>2. QED
      BY <2>1, <3>1 DEF t
  <2>3. Up(Onward(g), n + 1)
    BY <2>2
  <2>4. QED
    BY <2>3
<1>3. Bad = {}
  <2>1. SUFFICES ASSUME Bad # {} PROVE FALSE
    OBVIOUS
  <2>2. PICK n \in Bad : \A m \in Bad : n <= m
    BY <2>1, LeastNatural
  <2>3. n # 0
    BY <1>1
  <2> HIDE DEF Holds
  <2>4. n \in Nat /\ n - 1 \in Nat /\ (n - 1) + 1 = n
    BY <2>3
  <2>5. Holds(n - 1)
    BY <2>2, <2>4
  <2>6. Holds((n - 1) + 1)
    BY <1>2, <2>4, <2>5
  <2>7. QED
    BY <2>4, <2>6
<1>4. Cardinality(S) \in Nat
  BY FS_CardinalityType
<1>5. PICK g : g = [s \in SUBSET S |-> g[s]] /\ Up(g, Cardinality(S))
  BY <1>3, <1>4
<1>6. \A s \in SUBSET S : Cardinality(s) <= Cardinality(S)
  BY FS_Subset
<1>7. Adds(g, f, S)
  BY <1>5, <1>6 DEF Adds
<1>8. QED
  BY <1>7 DEF PartialSums

\* ... and are the same below every set.
LEMMA SumsAgree ==
  ASSUME NEW S, IsFiniteSet(S), NEW T, NEW f, NEW h, NEW g1, NEW g2,
         Adds(g1, f, S), Adds(g2, h, T), \A x \in S : f[x] = h[x]
  PROVE  \A s \in SUBSET (S \cap T) : g1[s] = g2[s]
<1> DEFINE Bad == {n \in Nat : \E s \in SUBSET (S \cap T) : Cardinality(s) = n /\ g1[s] # g2[s]}
<1>0. \A s \in SUBSET (S \cap T) : IsFiniteSet(s) /\ Cardinality(s) \in Nat
  BY FS_Subset, FS_CardinalityType
<1>1. ASSUME Bad # {}
      PROVE  FALSE
  <2>1. PICK n \in Bad : \A m \in Bad : n <= m
    BY <1>1, LeastNatural
  <2>2. PICK s \in SUBSET (S \cap T) : Cardinality(s) = n /\ g1[s] # g2[s]
    BY <2>1
  <2>3. s # {}
    BY <2>2 DEF Adds
  <2> DEFINE t == s \ {Some(s)}
  <2>4. t \in SUBSET (S \cap T) /\ Cardinality(t) = n - 1 /\ n - 1 \in Nat /\ Some(s) \in S
    BY <1>0, <2>2, <2>3, SomeIsOne
  <2>5. g1[t] = g2[t]
    BY <2>1, <2>4
  <2>6. g1[s] = f[Some(s)] + g1[t] /\ g2[s] = h[Some(s)] + g2[t]
    BY <2>2, <2>3 DEF Adds
  <2>7. QED
    BY <2>2, <2>4, <2>5, <2>6
<1>2. QED
  BY <1>0, <1>1

-----------------------------------------------------------------------------
LEMMA SumEmpty ==
  ASSUME NEW f
  PROVE  SumFunctionOnSet(f, {}) = 0
<1>1. Adds(PartialSums(f, {}), f, {})
  BY SumsExist, FS_EmptySet
<1>2. QED
  BY <1>1, SumUnfolds DEF Adds

\* The fold's own step.
LEMMA SumStep ==
  ASSUME NEW S, IsFiniteSet(S), S # {}, NEW f
  PROVE  SumFunctionOnSet(f, S) = f[Some(S)] + SumFunctionOnSet(f, S \ {Some(S)})
<1> DEFINE T == S \ {Some(S)}
<1>1. Adds(PartialSums(f, S), f, S) /\ Adds(PartialSums(f, T), f, T)
  BY SumsExist, SomeIsOne
<1>2. PartialSums(f, S)[T] = PartialSums(f, T)[T]
  <2>1. T \in SUBSET (S \cap T)
    OBVIOUS
  <2>2. QED
    BY <1>1, <2>1, SumsAgree
<1>3. PartialSums(f, S)[S] = f[Some(S)] + PartialSums(f, S)[T]
  BY <1>1 DEF Adds
<1>4. QED
  BY <1>2, <1>3, SumUnfolds

\* Only the values on the set count.
LEMMA SumSame ==
  ASSUME NEW S, IsFiniteSet(S), NEW f, NEW g, \A x \in S : f[x] = g[x]
  PROVE  SumFunctionOnSet(f, S) = SumFunctionOnSet(g, S)
<1>1. Adds(PartialSums(f, S), f, S) /\ Adds(PartialSums(g, S), g, S)
  BY SumsExist
<1>2. S \in SUBSET (S \cap S)
  OBVIOUS
<1>3. PartialSums(f, S)[S] = PartialSums(g, S)[S]
  BY <1>1, <1>2, SumsAgree
<1>4. QED
  BY <1>3, SumUnfolds

\* A family of subsets has a least member.
LEMMA LeastSet ==
  ASSUME NEW S, IsFiniteSet(S), NEW B, \A T \in B : T \subseteq S, B # {}
  PROVE  \E T \in B : IsFiniteSet(T) /\ \A U \in B : U \subseteq T => U = T
<1> DEFINE Sizes == {n \in Nat : \E T \in B : Cardinality(T) = n}
<1>1. \A T \in B : IsFiniteSet(T) /\ Cardinality(T) \in Nat
  BY FS_Subset, FS_CardinalityType
<1>2. Sizes # {}
  BY <1>1
<1>3. PICK n \in Sizes : \A m \in Sizes : n <= m
  BY <1>2, LeastNatural
<1>4. PICK T \in B : Cardinality(T) = n
  BY <1>3
<1>5. ASSUME NEW U \in B, U \subseteq T
      PROVE  U = T
  <2>1. Cardinality(U) \in Sizes /\ Cardinality(U) <= Cardinality(T)
    BY <1>1, <1>5, FS_Subset
  <2>2. Cardinality(U) = Cardinality(T)
    BY <1>1, <1>3, <1>4, <2>1
  <2>3. QED
    BY <1>1, <1>5, <2>2, FS_Subset
<1>6. QED
  BY <1>1, <1>5

LEMMA SumType ==
  ASSUME NEW S, IsFiniteSet(S), NEW f, \A x \in S : f[x] \in Int
  PROVE  SumFunctionOnSet(f, S) \in Int
<1> DEFINE B == {T \in SUBSET S : SumFunctionOnSet(f, T) \notin Int}
<1>1. ASSUME B # {}
      PROVE  FALSE
  <2>0. \A T \in B : T \subseteq S
    OBVIOUS
  <2> HIDE DEF B
  <2>1. PICK T \in B : IsFiniteSet(T) /\ \A U \in B : U \subseteq T => U = T
    BY <1>1, <2>0, LeastSet
  <2> USE DEF B
  <2>2. T # {}
    <3>1. SUFFICES ASSUME T = {} PROVE FALSE
      OBVIOUS
    <3>2. SumFunctionOnSet(f, {}) = 0
      BY SumEmpty
    <3>3. QED
      BY <2>1, <3>1, <3>2
  <2>3. Some(T) \in T /\ T \ {Some(T)} \notin B
    BY <2>1, <2>2, SomeIsOne
  <2>4. SumFunctionOnSet(f, T) = f[Some(T)] + SumFunctionOnSet(f, T \ {Some(T)})
    BY <2>1, <2>2, SumStep
  <2>5. QED
    BY <2>3, <2>4
<1>2. QED
  BY <1>1

\* Any element may go first.
LEMMA SumElement ==
  ASSUME NEW S, IsFiniteSet(S), NEW f, \A x \in S : f[x] \in Int, NEW e \in S
  PROVE  SumFunctionOnSet(f, S) = f[e] + SumFunctionOnSet(f, S \ {e})
<1> DEFINE Sum(T) == SumFunctionOnSet(f, T)
           B == {T \in SUBSET S : \E x \in T : Sum(T) # f[x] + Sum(T \ {x})}
<1>1. ASSUME B # {}
      PROVE  FALSE
  <2>0. \A T \in B : T \subseteq S
    OBVIOUS
  <2> HIDE DEF B
  <2>1. PICK T \in B : IsFiniteSet(T) /\ \A U \in B : U \subseteq T => U = T
    BY <1>1, <2>0, LeastSet
  <2> USE DEF B
  <2>2. PICK x \in T : Sum(T) # f[x] + Sum(T \ {x})
    BY <2>1
  <2>3. PICK y : y = Some(T)
    OBVIOUS
  <2>4. y \in T /\ Sum(T) = f[y] + Sum(T \ {y})
    BY <2>1, <2>2, <2>3, SomeIsOne, SumStep
  <2>5. x # y
    BY <2>2, <2>4
  <2>6. T \ {x} \notin B /\ T \ {y} \notin B /\ T \ {x} \in SUBSET S /\ T \ {y} \in SUBSET S
    BY <2>1, <2>2, <2>4
  <2>7. /\ Sum(T \ {x}) = f[y] + Sum((T \ {x}) \ {y})
        /\ Sum(T \ {y}) = f[x] + Sum((T \ {y}) \ {x})
    BY <2>2, <2>4, <2>5, <2>6
  <2>8. (T \ {x}) \ {y} = (T \ {y}) \ {x}
    OBVIOUS
  <2>9. IsFiniteSet((T \ {x}) \ {y}) /\ \A z \in (T \ {x}) \ {y} : f[z] \in Int
    BY <2>1, FS_Subset
  <2>10. Sum((T \ {x}) \ {y}) \in Int
    BY <2>9, SumType
  <2>11. f[x] \in Int /\ f[y] \in Int
    BY <2>1, <2>2, <2>4
  <2>12. PICK c : c = Sum((T \ {x}) \ {y})
    OBVIOUS
  <2>13. Sum(T \ {x}) = f[y] + c /\ Sum(T \ {y}) = f[x] + c
    BY <2>7, <2>8, <2>12
  <2> HIDE DEF Sum
  <2>14. QED
    BY <2>2, <2>4, <2>10, <2>11, <2>12, <2>13
<1>2. QED
  BY <1>1

\* Two sums whose terms differ for one element.
LEMMA SumChange ==
  ASSUME NEW S, IsFiniteSet(S), NEW e \in S, NEW f, NEW g,
         \A x \in S : f[x] \in Int /\ g[x] \in Int, \A x \in S \ {e} : f[x] = g[x]
  PROVE  SumFunctionOnSet(g, S) = SumFunctionOnSet(f, S) + g[e] - f[e]
<1>1. IsFiniteSet(S \ {e})
  BY FS_RemoveElement
<1>2. SumFunctionOnSet(f, S \ {e}) = SumFunctionOnSet(g, S \ {e})
  BY <1>1, SumSame
<1>3. SumFunctionOnSet(f, S \ {e}) \in Int
  BY <1>1, SumType
<1>4. /\ SumFunctionOnSet(f, S) = f[e] + SumFunctionOnSet(f, S \ {e})
      /\ SumFunctionOnSet(g, S) = g[e] + SumFunctionOnSet(g, S \ {e})
  BY SumElement
<1>5. QED
  BY <1>2, <1>3, <1>4

\* Sums over disjoint sets.
LEMMA SumUnion ==
  ASSUME NEW S, IsFiniteSet(S), NEW U, IsFiniteSet(U), S \cap U = {},
         NEW f, \A x \in S \cup U : f[x] \in Int
  PROVE  SumFunctionOnSet(f, S \cup U) = SumFunctionOnSet(f, S) + SumFunctionOnSet(f, U)
<1> DEFINE Sum(T) == SumFunctionOnSet(f, T)
           B == {T \in SUBSET S : Sum(T \cup U) # Sum(T) + Sum(U)}
<1>1. ASSUME B # {}
      PROVE  FALSE
  <2>0. \A T \in B : T \subseteq S
    OBVIOUS
  <2> HIDE DEF B
  <2>1. PICK T \in B : IsFiniteSet(T) /\ \A V \in B : V \subseteq T => V = T
    BY <1>1, <2>0, LeastSet
  <2> USE DEF B
  <2>2. Sum(U) \in Int /\ Sum({}) = 0
    BY SumType, SumEmpty
  <2>3. T # {}
    <3>1. SUFFICES ASSUME T = {} PROVE FALSE
      OBVIOUS
    <3>2. T \cup U = U
      BY <3>1
    <3>3. Sum(T \cup U) = Sum(U) /\ Sum(T) = 0
      BY <2>2, <3>1, <3>2
    <3> HIDE DEF Sum
    <3>4. QED
      BY <2>1, <2>2, <3>3
  <2>4. PICK x \in T : TRUE
    BY <2>3
  <2>5. Sum((T \ {x}) \cup U) = Sum(T \ {x}) + Sum(U)
    BY <2>1, <2>4
  <2>6. IsFiniteSet(T \cup U) /\ IsFiniteSet(T \ {x}) /\ \A z \in T \cup U : f[z] \in Int
    BY <2>1, FS_Union, FS_RemoveElement
  <2>7. Sum(T \cup U) = f[x] + Sum((T \cup U) \ {x}) /\ Sum(T) = f[x] + Sum(T \ {x})
    BY <2>1, <2>4, <2>6, SumElement
  <2>8. (T \cup U) \ {x} = (T \ {x}) \cup U
    BY <2>1, <2>4
  <2>9. Sum(T \ {x}) \in Int /\ f[x] \in Int
    BY <2>4, <2>6, SumType
  <2> HIDE DEF Sum
  <2>10. QED
    BY <2>1, <2>2, <2>5, <2>7, <2>8, <2>9
<1>2. QED
  BY <1>1

\* Smaller terms have a smaller sum.
LEMMA SumOrder ==
  ASSUME NEW S, IsFiniteSet(S), NEW f, NEW g,
         \A x \in S : f[x] \in Int /\ g[x] \in Int /\ f[x] <= g[x]
  PROVE  SumFunctionOnSet(f, S) <= SumFunctionOnSet(g, S)
<1> DEFINE SumF(T) == SumFunctionOnSet(f, T)
           SumG(T) == SumFunctionOnSet(g, T)
           B == {T \in SUBSET S : ~ (SumF(T) <= SumG(T))}
<1>1. ASSUME B # {}
      PROVE  FALSE
  <2>0. \A T \in B : T \subseteq S
    OBVIOUS
  <2> HIDE DEF B
  <2>1. PICK T \in B : IsFiniteSet(T) /\ \A V \in B : V \subseteq T => V = T
    BY <1>1, <2>0, LeastSet
  <2> USE DEF B
  <2>2. T # {}
    <3>1. SUFFICES ASSUME T = {} PROVE FALSE
      OBVIOUS
    <3>2. SumFunctionOnSet(f, {}) = 0 /\ SumFunctionOnSet(g, {}) = 0
      BY SumEmpty
    <3>3. QED
      BY <2>1, <3>1, <3>2
  <2>3. PICK x \in T : TRUE
    BY <2>2
  <2>4. SumF(T \ {x}) <= SumG(T \ {x})
    BY <2>1, <2>3
  <2>5. SumF(T) = f[x] + SumF(T \ {x}) /\ SumG(T) = g[x] + SumG(T \ {x})
    BY <2>1, <2>3, SumElement
  <2>6. IsFiniteSet(T \ {x})
    BY <2>1, FS_RemoveElement
  <2>7. SumF(T \ {x}) \in Int /\ SumG(T \ {x}) \in Int
    BY <2>6, SumType
  <2>8. f[x] \in Int /\ g[x] \in Int /\ f[x] <= g[x]
    BY <2>3
  <2> HIDE DEF SumF, SumG
  <2>9. QED
    BY <2>1, <2>4, <2>5, <2>7, <2>8
<1>2. QED
  BY <1>1

LEMMA SumZero ==
  ASSUME NEW S, IsFiniteSet(S), NEW f, \A x \in S : f[x] = 0
  PROVE  SumFunctionOnSet(f, S) = 0
<1> DEFINE Sum(T) == SumFunctionOnSet(f, T)
           B == {T \in SUBSET S : Sum(T) # 0}
<1>1. ASSUME B # {}
      PROVE  FALSE
  <2>0. \A T \in B : T \subseteq S
    OBVIOUS
  <2> HIDE DEF B
  <2>1. PICK T \in B : IsFiniteSet(T) /\ \A V \in B : V \subseteq T => V = T
    BY <1>1, <2>0, LeastSet
  <2> USE DEF B
  <2>2. Sum({}) = 0
    BY SumEmpty
  <2>3. PICK x \in T : TRUE
    BY <2>2
  <2>4. T \ {x} \notin B
    BY <2>1, <2>3
  <2>5. Sum(T \ {x}) = 0
    BY <2>4
  <2>6. Sum(T) = f[x] + Sum(T \ {x})
    BY <2>1, <2>3, SumElement
  <2>7. QED
    BY <2>3, <2>5, <2>6
<1>2. QED
  BY <1>1

\* What is zero outside a part sums to the sum of the part.
LEMMA SumPart ==
  ASSUME NEW S, IsFiniteSet(S), NEW T \in SUBSET S, NEW f, NEW g,
         \A x \in T : f[x] \in Int /\ g[x] = f[x], \A x \in S \ T : g[x] = 0
  PROVE  SumFunctionOnSet(g, S) = SumFunctionOnSet(f, T)
<1>1. IsFiniteSet(T) /\ IsFiniteSet(S \ T)
  BY FS_Subset
<1>2. SumFunctionOnSet(g, S \ T) = 0
  BY <1>1, SumZero
<1>3. SumFunctionOnSet(g, T) = SumFunctionOnSet(f, T) /\ SumFunctionOnSet(f, T) \in Int
  BY <1>1, SumSame, SumType
<1>4. SumFunctionOnSet(g, T \cup (S \ T)) = SumFunctionOnSet(g, T) + SumFunctionOnSet(g, S \ T)
  <2>1. \A x \in T \cup (S \ T) : g[x] \in Int
    OBVIOUS
  <2>2. PICK U : U = S \ T
    OBVIOUS
  <2>3. SumFunctionOnSet(g, T \cup U) = SumFunctionOnSet(g, T) + SumFunctionOnSet(g, U)
    BY <1>1, <2>1, <2>2, SumUnion
  <2>4. QED
    BY <2>2, <2>3
<1>5. T \cup (S \ T) = S
  OBVIOUS
<1>6. QED
  BY <1>2, <1>3, <1>4, <1>5

\* A nonempty finite set of integers has its maximum.
LEMMA MaxOfFinite ==
  ASSUME NEW S, IsFiniteSet(S), S \subseteq Int, S # {}
  PROVE  Max(S) \in S /\ \A x \in S : x <= Max(S)
<1> DEFINE Top(T) == \E m \in T : \A x \in T : x <= m
           B == {T \in SUBSET S : T # {} /\ ~Top(T)}
<1>1. ASSUME B # {}
      PROVE  FALSE
  <2>0. \A T \in B : T \subseteq S
    OBVIOUS
  <2> HIDE DEF B
  <2>1. PICK T \in B : IsFiniteSet(T) /\ \A U \in B : U \subseteq T => U = T
    BY <1>1, <2>0, LeastSet
  <2> USE DEF B
  <2>2. PICK e \in T : TRUE
    OBVIOUS
  <2>3. e \in Int /\ T \ {e} \subseteq Int
    OBVIOUS
  <2>4. CASE T \ {e} = {}
    BY <2>2, <2>3, <2>4
  <2>5. CASE Top(T \ {e})
    <3>1. PICK m \in T \ {e} : \A x \in T \ {e} : x <= m
      BY <2>5
    <3>2. CASE m <= e
      <4>1. \A x \in T : x <= e
        BY <2>3, <3>1, <3>2
      <4>2. QED
        BY <4>1
    <3>3. CASE e <= m
      <4>1. \A x \in T : x <= m
        BY <2>3, <3>1, <3>3
      <4>2. QED
        BY <4>1
    <3>4. QED
      BY <2>3, <3>1, <3>2, <3>3
  <2>6. T \ {e} \in B \/ T \ {e} = {} \/ Top(T \ {e})
    OBVIOUS
  <2>7. T \ {e} \notin B
    BY <2>1, <2>2
  <2>8. QED
    BY <2>4, <2>5, <2>6, <2>7
<1>2. Top(S)
  BY <1>1
<1>3. QED
  BY <1>2 DEF Max

\* Sums add, term by term.
LEMMA SumAdd ==
  ASSUME NEW S, IsFiniteSet(S), NEW f, NEW g, NEW h,
         \A x \in S : f[x] \in Int /\ g[x] \in Int /\ h[x] = f[x] + g[x]
  PROVE  SumFunctionOnSet(h, S) = SumFunctionOnSet(f, S) + SumFunctionOnSet(g, S)
<1> DEFINE SumF(T) == SumFunctionOnSet(f, T)
           SumG(T) == SumFunctionOnSet(g, T)
           SumH(T) == SumFunctionOnSet(h, T)
           B == {T \in SUBSET S : SumH(T) # SumF(T) + SumG(T)}
<1>1. ASSUME B # {}
      PROVE  FALSE
  <2>0. \A T \in B : T \subseteq S
    OBVIOUS
  <2> HIDE DEF B
  <2>1. PICK T \in B : IsFiniteSet(T) /\ \A V \in B : V \subseteq T => V = T
    BY <1>1, <2>0, LeastSet
  <2> USE DEF B
  <2>2. SumF({}) = 0 /\ SumG({}) = 0 /\ SumH({}) = 0
    BY SumEmpty
  <2>3. PICK x \in T : TRUE
    <3>1. SumH(T) # SumF(T) + SumG(T)
      OBVIOUS
    <3>2. T # {}
      BY ONLY <2>2, <3>1
    <3>3. QED
      BY <3>2
  <2>4. T \ {x} \notin B /\ IsFiniteSet(T \ {x})
    BY <2>1, <2>3, FS_RemoveElement
  <2>5. SumH(T \ {x}) = SumF(T \ {x}) + SumG(T \ {x})
    BY <2>4
  <2>6. \A y \in T : f[y] \in Int /\ g[y] \in Int /\ h[y] \in Int
    <3>1. T \subseteq S
      OBVIOUS
    <3> HIDE DEF B
    <3>2. QED
      BY <3>1
  <2>7. /\ SumF(T) = f[x] + SumF(T \ {x})
        /\ SumG(T) = g[x] + SumG(T \ {x})
        /\ SumH(T) = h[x] + SumH(T \ {x})
    BY <2>1, <2>3, <2>6, SumElement
  <2>8. SumF(T \ {x}) \in Int /\ SumG(T \ {x}) \in Int
    BY <2>4, <2>6, SumType
  <2>9. SumH(T) # SumF(T) + SumG(T) /\ h[x] = f[x] + g[x] /\ f[x] \in Int /\ g[x] \in Int
    BY <2>1, <2>3
  <2> HIDE DEF SumF, SumG, SumH, B
  <2>10. QED
    BY <2>5, <2>7, <2>8, <2>9
<1>2. QED
  BY <1>1

\* A common factor may be taken out.
LEMMA SumScale ==
  ASSUME NEW S, IsFiniteSet(S), NEW k \in Int, NEW f, NEW h,
         \A x \in S : f[x] \in Int /\ h[x] = k * f[x]
  PROVE  SumFunctionOnSet(h, S) = k * SumFunctionOnSet(f, S)
<1> DEFINE SumF(T) == SumFunctionOnSet(f, T)
           SumH(T) == SumFunctionOnSet(h, T)
           B == {T \in SUBSET S : SumH(T) # k * SumF(T)}
<1>1. ASSUME B # {}
      PROVE  FALSE
  <2>0. \A T \in B : T \subseteq S
    OBVIOUS
  <2> HIDE DEF B
  <2>1. PICK T \in B : IsFiniteSet(T) /\ \A V \in B : V \subseteq T => V = T
    BY <1>1, <2>0, LeastSet
  <2> USE DEF B
  <2>2. SumF({}) = 0 /\ SumH({}) = 0
    BY SumEmpty
  <2>3. PICK x \in T : TRUE
    <3>1. SumH(T) # k * SumF(T)
      OBVIOUS
    <3>2. T # {}
      BY ONLY <2>2, <3>1
    <3>3. QED
      BY <3>2
  <2>4. T \ {x} \notin B /\ IsFiniteSet(T \ {x})
    BY <2>1, <2>3, FS_RemoveElement
  <2>5. SumH(T \ {x}) = k * SumF(T \ {x})
    BY <2>4
  <2>6. \A y \in T : f[y] \in Int /\ h[y] \in Int
    OBVIOUS
  <2>7. SumF(T) = f[x] + SumF(T \ {x}) /\ SumH(T) = h[x] + SumH(T \ {x})
    BY <2>1, <2>3, <2>6, SumElement
  <2>8. SumF(T \ {x}) \in Int
    BY <2>4, <2>6, SumType
  <2>9. SumH(T) # k * SumF(T) /\ h[x] = k * f[x] /\ f[x] \in Int
    BY <2>1, <2>3
  <2> HIDE DEF SumF, SumH, B
  <2>10. \A a, b \in Int : k * (a + b) = k * a + k * b
    OBVIOUS
  <2>11. QED
    BY <2>5, <2>7, <2>8, <2>9, <2>10
<1>2. QED
  BY <1>1

\* Equal terms are counted.
LEMMA SumConstant ==
  ASSUME NEW S, IsFiniteSet(S), NEW k \in Int, NEW f, \A x \in S : f[x] = k
  PROVE  SumFunctionOnSet(f, S) = k * Cardinality(S)
<1> DEFINE SumF(T) == SumFunctionOnSet(f, T)
           B == {T \in SUBSET S : SumF(T) # k * Cardinality(T)}
<1>1. ASSUME B # {}
      PROVE  FALSE
  <2>0. \A T \in B : T \subseteq S
    OBVIOUS
  <2> HIDE DEF B
  <2>1. PICK T \in B : IsFiniteSet(T) /\ \A V \in B : V \subseteq T => V = T
    BY <1>1, <2>0, LeastSet
  <2> USE DEF B
  <2>2. SumF({}) = 0 /\ Cardinality({}) = 0
    BY SumEmpty, FS_EmptySet
  <2>3. PICK x \in T : TRUE
    <3>1. SumF(T) # k * Cardinality(T)
      OBVIOUS
    <3>2. T # {}
      BY ONLY <2>2, <3>1
    <3>3. QED
      BY <3>2
  <2>4. T \ {x} \notin B /\ Cardinality(T \ {x}) = Cardinality(T) - 1 /\ Cardinality(T) \in Nat
    <3>1. IsFiniteSet(T) /\ \A V \in B : V \subseteq T => V = T
      BY <2>1
    <3> HIDE DEF B
    <3>2. T \ {x} \notin B
      BY <2>3, <3>1
    <3>3. QED
      BY <2>3, <3>1, <3>2, FS_RemoveElement, FS_CardinalityType
  <2>5. SumF(T \ {x}) = k * Cardinality(T \ {x})
    BY <2>1, <2>4
  <2>6. SumF(T) = f[x] + SumF(T \ {x})
    BY <2>1, <2>3, SumElement
  <2>7. SumF(T) # k * Cardinality(T) /\ f[x] = k
    BY <2>1, <2>3
  <2> HIDE DEF SumF, B
  <2>8. \A n \in Nat : k * (n - 1) = k * n - k
    OBVIOUS
  <2>9. QED
    BY <2>4, <2>5, <2>6, <2>7, <2>8
<1>2. QED
  BY <1>1

\* The sum over an image is the sum over what it is the image of, one to one.
LEMMA SumImage ==
  ASSUME NEW S, IsFiniteSet(S), NEW R, NEW g \in Bijection(S, R),
         NEW f, NEW h, \A x \in S : f[x] \in Int /\ h[g[x]] = f[x]
  PROVE  /\ SumFunctionOnSet(h, R) = SumFunctionOnSet(f, S)
         /\ IsFiniteSet(R) /\ Cardinality(R) = Cardinality(S)
<1> DEFINE SumF(T) == SumFunctionOnSet(f, T)
           Image(T) == {g[x] : x \in T}
           SumH(T) == SumFunctionOnSet(h, T)
           Right(T) == /\ SumH(Image(T)) = SumF(T)
                       /\ IsFiniteSet(Image(T)) /\ Cardinality(Image(T)) = Cardinality(T)
           B == {T \in SUBSET S : ~Right(T)}
<1>0. /\ \A x, y \in S : g[x] = g[y] => x = y
      /\ \A y : y \in R <=> y \in Image(S)
  BY DEF Bijection, Injection, Surjection, IsInjective
<1>1. ASSUME B # {}
      PROVE  FALSE
  <2>0. \A T \in B : T \subseteq S
    OBVIOUS
  <2> HIDE DEF B
  <2>1. PICK T \in B : IsFiniteSet(T) /\ \A V \in B : V \subseteq T => V = T
    BY <1>1, <2>0, LeastSet
  <2> USE DEF B
  <2>2. Right({})
    <3>1. Image({}) = {}
      OBVIOUS
    <3>2. SumF({}) = 0 /\ SumH({}) = 0
      BY SumEmpty
    <3>3. QED
      BY <3>1, <3>2, FS_EmptySet
  <2>3. PICK x \in T : TRUE
    <3>1. ~Right(T)
      OBVIOUS
    <3>2. T # {}
      BY ONLY <2>2, <3>1
    <3>3. QED
      BY <3>2
  <2>4. T \ {x} \notin B /\ IsFiniteSet(T \ {x})
        /\ Cardinality(T \ {x}) = Cardinality(T) - 1 /\ Cardinality(T) \in Nat
    <3>1. IsFiniteSet(T) /\ \A V \in B : V \subseteq T => V = T
      BY <2>1
    <3> HIDE DEF B
    <3>2. T \ {x} \notin B
      BY <2>3, <3>1
    <3>3. QED
      BY <2>3, <3>1, <3>2, FS_RemoveElement, FS_CardinalityType
  <2>5. T \ {x} \in SUBSET S
    BY <2>1
  <2>6. Right(T \ {x})
    BY <2>4, <2>5
  <2>7. x \in S /\ T \subseteq S
    BY <2>1
  <2>8. Image(T) = Image(T \ {x}) \cup {g[x]} /\ g[x] \notin Image(T \ {x})
    BY <1>0, <2>3, <2>7
  <2>9. IsFiniteSet(Image(T)) /\ Cardinality(Image(T)) = Cardinality(T)
    <3>1. PICK U : U = Image(T \ {x})
      OBVIOUS
    <3>2. IsFiniteSet(U) /\ Cardinality(U) = Cardinality(T \ {x}) /\ g[x] \notin U
      BY <2>6, <2>8, <3>1
    <3>3. IsFiniteSet(U \cup {g[x]}) /\ Cardinality(U \cup {g[x]}) = Cardinality(U) + 1
      BY <3>2, FS_AddElement
    <3>4. Image(T) = U \cup {g[x]}
      BY <2>8, <3>1
    <3> HIDE DEF Image, B
    <3>5. QED
      BY <2>4, <3>2, <3>3, <3>4
  <2>10. g[x] \in Image(T) /\ Image(T) \ {g[x]} = Image(T \ {x})
    BY <2>3, <2>8
  <2>11. \A z \in Image(T) : h[z] \in Int
    BY <2>7
  <2>12. SumH(Image(T)) = h[g[x]] + SumH(Image(T) \ {g[x]})
    BY ONLY <2>9, <2>10, <2>11, SumElement
  <2>13. SumF(T) = f[x] + SumF(T \ {x})
    BY <2>1, <2>3, <2>7, SumElement
  <2>14. h[g[x]] = f[x] /\ ~Right(T)
    BY <2>1, <2>7
  <2> HIDE DEF SumF, SumH, B, Image
  <2>15. QED
    BY <2>6, <2>9, <2>10, <2>12, <2>13, <2>14
<1>2. S \in SUBSET S /\ Right(S)
  BY <1>1
<1>3. R = Image(S)
  BY <1>0
<1> HIDE DEF Image
<1>4. QED
  BY <1>2, <1>3

\* The sum of naturals is one.
LEMMA SumNatural ==
  ASSUME NEW S, IsFiniteSet(S), NEW f, \A x \in S : f[x] \in Nat
  PROVE  SumFunctionOnSet(f, S) \in Nat
<1> DEFINE zero == [x \in S |-> 0]
<1>1. \A x \in S : zero[x] \in Int /\ f[x] \in Int /\ zero[x] <= f[x]
  OBVIOUS
<1>2. \A x \in S : zero[x] = 0
  OBVIOUS
<1> HIDE DEF zero
<1>3. SumFunctionOnSet(zero, S) <= SumFunctionOnSet(f, S)
  BY <1>1, SumOrder
<1>4. SumFunctionOnSet(zero, S) = 0
  BY <1>2, SumZero
<1>5. SumFunctionOnSet(f, S) \in Int
  BY <1>1, SumType
<1>6. QED
  BY <1>3, <1>4, <1>5

=============================================================================
