--------------------------------- MODULE Sums ---------------------------------
(***************************************************************************)
(* Facts about the sums the models take over finite sets: of picks per     *)
(* node, of weights per key. SumFunctionOnSet(w, S) takes elements of S    *)
(* away in an order of its own; that the order does not matter, and what   *)
(* the sum is of a set put together from another, is proved here once.     *)
(***************************************************************************)
EXTENDS Functions, FiniteSetTheorems, TLAPS

\* A set of naturals that is not empty has a least element.
LEMMA LeastNat ==
  ASSUME NEW T, T \subseteq Nat, T # {}
  PROVE  \E m \in T : \A n \in T : m <= n
<1>1. IsWellFoundedOn(OpToRel(<, Nat), Nat)
  BY NatLessThanWellFounded
<1>2. PICK m \in T : \A n \in T : <<n, m>> \notin OpToRel(<, Nat)
  BY <1>1, WFMin
<1>3. ASSUME NEW n \in T PROVE m <= n
  <2>1. <<n, m>> \notin OpToRel(<, Nat)
    BY <1>2, <1>3
  <2>2. m \in Nat /\ n \in Nat
    BY <1>2, <1>3
  <2>3. ~(n < m)
    BY <2>1, <2>2 DEF OpToRel
  <2> QED BY <2>2, <2>3
<1> QED BY <1>3

\* Induction on the subsets of a finite set: G has all of them if it has each
\* whose proper subsets it has.
LEMMA SubsetInduction ==
  ASSUME NEW S, IsFiniteSet(S), NEW G,
         \A T \in SUBSET S : (\A U \in (SUBSET T) \ {T} : U \in G) => T \in G
  PROVE  \A T \in SUBSET S : T \in G
<1> DEFINE Bad == {T \in SUBSET S : T \notin G}
<1> SUFFICES ASSUME Bad # {} PROVE FALSE
  OBVIOUS
<1>1. Bad \subseteq FiniteSubsetsOf(S)
  BY FS_Subset DEF FiniteSubsetsOf
<1>2. IsWellFoundedOn(StrictSubsetOrdering(S), FiniteSubsetsOf(S))
  BY FS_StrictSubsetOrderingWellFounded
<1>3. PICK T \in Bad : \A U \in Bad : <<U, T>> \notin StrictSubsetOrdering(S)
  <2> HIDE DEF Bad
  <2> QED BY <1>1, <1>2, WFMin
<1>4. \A U \in (SUBSET T) \ {T} : U \in G
  BY <1>3 DEF StrictSubsetOrdering
<1> QED BY <1>3, <1>4
-----------------------------------------------------------------------------
\* The element SumFunctionOnSet takes out of s first.
FirstTaken(s) == CHOOSE x \in s : TRUE

\* What the recursion makes of s, given the sums g of smaller sets.
SumStep(w, g, s) == IF s = {} THEN 0 ELSE w[FirstTaken(s)] + g[s \ {FirstTaken(s)}]

\* g is what the recursion makes of every subset of S.
SumsBy(g, w, S) == g = [s \in SUBSET S |-> SumStep(w, g, s)]

LEMMA FirstInside == ASSUME NEW s, s # {} PROVE FirstTaken(s) \in s
BY DEF FirstTaken

\* The recursion has a solution on the subsets of a finite set.
LEMMA SumsExist ==
  ASSUME NEW S, IsFiniteSet(S), NEW w
  PROVE  \E g : SumsBy(g, w, S)
<1> DEFINE Level(n) == {s \in SUBSET S : Cardinality(s) <= n}
           Bad == {n \in Nat : ~ \E g : g = [s \in Level(n) |-> SumStep(w, g, s)]}
<1>1. \A s \in SUBSET S : IsFiniteSet(s) /\ Cardinality(s) \in Nat
  BY FS_Subset, FS_CardinalityType
<1>2. Bad = {}
  <2> SUFFICES ASSUME Bad # {} PROVE FALSE
    OBVIOUS
  <2>1. PICK m \in Bad : \A n \in Bad : m <= n
    BY LeastNat
  <2>2. CASE m = 0
    <3> DEFINE h == [s \in Level(0) |-> 0]
    <3>1. \A s \in Level(0) : s = {}
      BY <1>1, FS_EmptySet
    <3>2. h = [s \in Level(0) |-> SumStep(w, h, s)]
      BY <3>1 DEF SumStep
    <3> HIDE DEF h
    <3> QED BY <2>1, <2>2, <3>2
  <2>3. CASE m # 0
    <3>1. m \in Nat /\ m - 1 \in Nat /\ m - 1 \notin Bad
      <4>1. m \in Nat
        OBVIOUS
      <4>2. m - 1 \in Nat /\ ~(m <= m - 1)
        BY <2>3, <4>1
      <4> HIDE DEF Bad
      <4> QED BY <2>1, <4>1, <4>2
    <3>2. PICK g : g = [s \in Level(m - 1) |-> SumStep(w, g, s)]
      BY <3>1
    <3> DEFINE h == [s \in Level(m) |-> SumStep(w, g, s)]
    <3>3. \A s \in Level(m - 1) : s \in Level(m) /\ g[s] = SumStep(w, g, s)
      <4>1. \A s \in Level(m - 1) : s \in Level(m)
        BY <1>1, <3>1
      <4> HIDE DEF Level
      <4> QED BY <3>2, <4>1
    <3>4. \A s \in Level(m - 1) : g[s] = h[s]
      <4> HIDE DEF Level
      <4> QED BY <3>3
    <3>5. \A s \in Level(m) : s # {} => s \ {FirstTaken(s)} \in Level(m - 1)
      <4> SUFFICES ASSUME NEW s \in Level(m), s # {} PROVE s \ {FirstTaken(s)} \in Level(m - 1)
        OBVIOUS
      <4>1. FirstTaken(s) \in s /\ IsFiniteSet(s) /\ s \in SUBSET S /\ Cardinality(s) <= m
        BY <1>1, FirstInside
      <4>2. Cardinality(s \ {FirstTaken(s)}) = Cardinality(s) - 1
        BY <4>1, FS_RemoveElement
      <4> QED BY <1>1, <3>1, <4>1, <4>2
    <3>6. \A s \in Level(m) : SumStep(w, g, s) = SumStep(w, h, s)
      <4> HIDE DEF h, Level
      <4> QED BY <3>4, <3>5 DEF SumStep
    <3>7. h = [s \in Level(m) |-> SumStep(w, h, s)]
      <4> HIDE DEF Level
      <4> QED BY <3>6
    <3> HIDE DEF h
    <3> QED BY <2>1, <3>1, <3>7
  <2> QED BY <2>2, <2>3
<1>3. Cardinality(S) \in Nat
  BY FS_CardinalityType
<1>4. Level(Cardinality(S)) = SUBSET S
  BY <1>3, FS_Subset
<1>5. \E g : g = [s \in Level(Cardinality(S)) |-> SumStep(w, g, s)]
  BY <1>2, <1>3
<1> HIDE DEF Level
<1> QED BY <1>4, <1>5 DEF SumsBy

\* SumFunctionOnSet is what a solution of the recursion makes of each subset.
LEMMA SumSolve ==
  ASSUME NEW S, IsFiniteSet(S), NEW w
  PROVE  \E g : /\ SumsBy(g, w, S)
                /\ \A T \in SUBSET S : SumFunctionOnSet(w, T) = g[T]
<1>1. PICK g : SumsBy(g, w, S)
  BY SumsExist
<1>2. ASSUME NEW T \in SUBSET S PROVE SumFunctionOnSet(w, T) = g[T]
  <2> DEFINE h == CHOOSE h : h = [s \in SUBSET T |-> IF s = {} THEN 0
                                    ELSE w[CHOOSE x \in s : TRUE] + h[s \ {CHOOSE x \in s : TRUE}]]
  <2>1. SumFunctionOnSet(w, T) = h[T]
    BY DEF SumFunctionOnSet, FoldFunctionOnSet, MapThenFoldSet
  <2>2. SumsBy(h, w, T)
    <3>1. IsFiniteSet(T)
      BY FS_Subset
    <3>2. PICK k : SumsBy(k, w, T)
      BY <3>1, SumsExist
    <3> QED BY <3>2 DEF SumsBy, SumStep, FirstTaken
  <2> HIDE DEF h
  <2> DEFINE Same == {U \in SUBSET T : h[U] = g[U]}
  <2>3. ASSUME NEW U \in SUBSET T, \A V \in (SUBSET U) \ {U} : V \in Same
        PROVE  U \in Same
    <3>1. h[U] = SumStep(w, h, U) /\ g[U] = SumStep(w, g, U)
      BY <1>1, <2>2 DEF SumsBy
    <3>2. U # {} => U \ {FirstTaken(U)} \in (SUBSET U) \ {U}
      BY FirstInside
    <3>3. SumStep(w, h, U) = SumStep(w, g, U)
      BY <2>3, <3>2 DEF SumStep
    <3> QED BY <3>1, <3>3
  <2>4. \A U \in SUBSET T : U \in Same
    <3>1. IsFiniteSet(T)
      BY FS_Subset
    <3> HIDE DEF Same
    <3> QED BY <2>3, <3>1, SubsetInduction
  <2> QED BY <2>1, <2>4
<1> QED BY <1>1, <1>2
-----------------------------------------------------------------------------
LEMMA SumEmpty == ASSUME NEW w PROVE SumFunctionOnSet(w, {}) = 0
<1>1. IsFiniteSet({})
  BY FS_EmptySet
<1>2. PICK g : SumsBy(g, w, {}) /\ \A T \in SUBSET {} : SumFunctionOnSet(w, T) = g[T]
  BY <1>1, SumSolve
<1>3. g[{}] = SumStep(w, g, {})
  BY <1>2 DEF SumsBy
<1> QED BY <1>2, <1>3 DEF SumStep

\* A sum is its first element's weight and the sum of the others.
LEMMA SumFirst ==
  ASSUME NEW S, IsFiniteSet(S), S # {}, NEW w
  PROVE  SumFunctionOnSet(w, S) = w[FirstTaken(S)] + SumFunctionOnSet(w, S \ {FirstTaken(S)})
<1>1. PICK g : SumsBy(g, w, S) /\ \A T \in SUBSET S : SumFunctionOnSet(w, T) = g[T]
  BY SumSolve
<1>2. g[S] = SumStep(w, g, S)
  BY <1>1 DEF SumsBy
<1>3. S \in SUBSET S /\ S \ {FirstTaken(S)} \in SUBSET S
  OBVIOUS
<1> QED BY <1>1, <1>2, <1>3 DEF SumStep

\* Any element may be taken out of a sum of integers first.
LEMMA SumPicks ==
  ASSUME NEW S, IsFiniteSet(S), NEW w, \A x \in S : w[x] \in Int
  PROVE  /\ SumFunctionOnSet(w, S) \in Int
         /\ \A x \in S : SumFunctionOnSet(w, S) = w[x] + SumFunctionOnSet(w, S \ {x})
<1> DEFINE G == {T \in SUBSET S :
                   /\ SumFunctionOnSet(w, T) \in Int
                   /\ \A x \in T : SumFunctionOnSet(w, T) = w[x] + SumFunctionOnSet(w, T \ {x})}
<1>1. ASSUME NEW T \in SUBSET S, \A U \in (SUBSET T) \ {T} : U \in G PROVE T \in G
  <2>1. CASE T = {}
    BY <2>1, SumEmpty
  <2>2. CASE T # {}
    <3> DEFINE f == FirstTaken(T)
    <3>1. f \in T /\ IsFiniteSet(T)
      BY <2>2, FirstInside, FS_Subset
    <3>2. SumFunctionOnSet(w, T) = w[f] + SumFunctionOnSet(w, T \ {f})
      BY <2>2, <3>1, SumFirst
    <3>3. T \ {f} \in G
      BY <1>1, <3>1
    <3>4. SumFunctionOnSet(w, T) \in Int
      BY <3>1, <3>2, <3>3
    <3>5. ASSUME NEW x \in T, x # f
          PROVE  SumFunctionOnSet(w, T) = w[x] + SumFunctionOnSet(w, T \ {x})
      <4>1. T \ {x} \in G /\ f \in T \ {x} /\ x \in T \ {f}
        BY <1>1, <3>1, <3>5
      <4>2. SumFunctionOnSet(w, T \ {f}) = w[x] + SumFunctionOnSet(w, (T \ {f}) \ {x})
        BY <3>3, <4>1
      <4>3. SumFunctionOnSet(w, T \ {x}) = w[f] + SumFunctionOnSet(w, (T \ {x}) \ {f})
        BY <4>1
      <4>4. (T \ {x}) \ {f} = (T \ {f}) \ {x}
        OBVIOUS
      <4>5. (T \ {x}) \ {f} \in G
        BY <1>1, <4>1
      <4>6. w[x] \in Int /\ w[f] \in Int /\ SumFunctionOnSet(w, (T \ {x}) \ {f}) \in Int
        BY <3>1, <4>5
      <4> DEFINE rest == SumFunctionOnSet(w, (T \ {x}) \ {f})
      <4>7. SumFunctionOnSet(w, T) = w[f] + (w[x] + rest)
        BY <3>2, <4>2, <4>4
      <4>8. SumFunctionOnSet(w, T \ {x}) = w[f] + rest
        BY <4>3
      <4>9. w[x] \in Int /\ w[f] \in Int /\ rest \in Int
        BY <4>6
      <4> HIDE DEF rest, f, G
      <4> QED BY <4>7, <4>8, <4>9
    <3> QED BY <3>2, <3>4, <3>5
  <2> QED BY <2>1, <2>2
<1>2. \A T \in SUBSET S : T \in G
  <2> HIDE DEF G
  <2> QED BY <1>1, SubsetInduction
<1>3. S \in G
  BY <1>2
<1> QED BY <1>3

\* A sum of naturals is a natural.
LEMMA SumNat ==
  ASSUME NEW S, IsFiniteSet(S), NEW w, \A x \in S : w[x] \in Nat
  PROVE  SumFunctionOnSet(w, S) \in Nat
<1> DEFINE G == {T \in SUBSET S : SumFunctionOnSet(w, T) \in Nat}
<1>1. ASSUME NEW T \in SUBSET S, \A U \in (SUBSET T) \ {T} : U \in G PROVE T \in G
  <2>1. CASE T = {}
    BY <2>1, SumEmpty
  <2>2. CASE T # {}
    <3>1. FirstTaken(T) \in T /\ IsFiniteSet(T)
      BY <2>2, FirstInside, FS_Subset
    <3>2. SumFunctionOnSet(w, T) = w[FirstTaken(T)] + SumFunctionOnSet(w, T \ {FirstTaken(T)})
      BY <2>2, <3>1, SumFirst
    <3>3. T \ {FirstTaken(T)} \in G /\ w[FirstTaken(T)] \in Nat
      BY <1>1, <3>1
    <3> QED BY <3>2, <3>3
  <2> QED BY <2>1, <2>2
<1>2. \A T \in SUBSET S : T \in G
  <2> HIDE DEF G
  <2> QED BY <1>1, SubsetInduction
<1>3. S \in G
  BY <1>2
<1> QED BY <1>3

\* Weights that agree on S have the same sum over S.
LEMMA SumSame ==
  ASSUME NEW S, IsFiniteSet(S), NEW w, NEW v, \A x \in S : w[x] = v[x]
  PROVE  SumFunctionOnSet(w, S) = SumFunctionOnSet(v, S)
<1> DEFINE G == {T \in SUBSET S : SumFunctionOnSet(w, T) = SumFunctionOnSet(v, T)}
<1>1. ASSUME NEW T \in SUBSET S, \A U \in (SUBSET T) \ {T} : U \in G PROVE T \in G
  <2>1. CASE T = {}
    BY <2>1, SumEmpty
  <2>2. CASE T # {}
    <3>1. FirstTaken(T) \in T /\ IsFiniteSet(T)
      BY <2>2, FirstInside, FS_Subset
    <3>2. /\ SumFunctionOnSet(w, T) = w[FirstTaken(T)] + SumFunctionOnSet(w, T \ {FirstTaken(T)})
          /\ SumFunctionOnSet(v, T) = v[FirstTaken(T)] + SumFunctionOnSet(v, T \ {FirstTaken(T)})
      BY <2>2, <3>1, SumFirst
    <3>3. T \ {FirstTaken(T)} \in G /\ w[FirstTaken(T)] = v[FirstTaken(T)]
      BY <1>1, <3>1
    <3> QED BY <3>2, <3>3
  <2> QED BY <2>1, <2>2
<1>2. \A T \in SUBSET S : T \in G
  <2> HIDE DEF G
  <2> QED BY <1>1, SubsetInduction
<1>3. S \in G
  BY <1>2
<1> QED BY <1>3

\* The sum over one element is its weight.
LEMMA SumSingleton ==
  ASSUME NEW x, NEW w, w[x] \in Int
  PROVE  SumFunctionOnSet(w, {x}) = w[x]
<1>1. IsFiniteSet({x}) /\ {x} \ {x} = {}
  BY FS_Singleton
<1>2. SumFunctionOnSet(w, {x}) = w[x] + SumFunctionOnSet(w, {x} \ {x})
  BY <1>1, SumPicks
<1> QED BY <1>1, <1>2, SumEmpty

\* One more at x is one more in the sum.
LEMMA SumIncrement ==
  ASSUME NEW S, IsFiniteSet(S), NEW w \in [S -> Int], NEW x \in S
  PROVE  SumFunction([w EXCEPT ![x] = @ + 1]) = SumFunction(w) + 1
<1> DEFINE v == [w EXCEPT ![x] = @ + 1]
<1>1. DOMAIN w = S /\ DOMAIN v = S /\ v[x] = w[x] + 1 /\ \A y \in S : w[y] \in Int /\ v[y] \in Int
  OBVIOUS
<1>2. \A y \in S \ {x} : v[y] = w[y]
  OBVIOUS
<1> HIDE DEF v
<1>3. IsFiniteSet(S \ {x})
  BY FS_Subset
<1>4. SumFunctionOnSet(v, S \ {x}) = SumFunctionOnSet(w, S \ {x})
  BY <1>2, <1>3, SumSame
<1>5. SumFunctionOnSet(w, S \ {x}) \in Int
  BY <1>1, <1>3, SumPicks
<1>6. SumFunctionOnSet(w, S) = w[x] + SumFunctionOnSet(w, S \ {x})
  BY <1>1, SumPicks
<1>7. SumFunctionOnSet(v, S) = v[x] + SumFunctionOnSet(v, S \ {x})
  BY <1>1, SumPicks
<1>8. SumFunction(v) = SumFunction(w) + 1
  BY <1>1, <1>4, <1>5, <1>6, <1>7 DEF SumFunction
<1> QED BY <1>8 DEF v

\* Renaming the elements one to one keeps the sum: f[x] weighs in v what x does in w.
LEMMA SumRenamed ==
  ASSUME NEW S, IsFiniteSet(S), NEW w, NEW v, NEW f,
         \A x \in S : w[x] \in Int /\ v[f[x]] = w[x],
         \A x, y \in S : f[x] = f[y] => x = y
  PROVE  SumFunctionOnSet(v, {f[x] : x \in S}) = SumFunctionOnSet(w, S)
<1> DEFINE Image(T) == {f[x] : x \in T}
           G == {T \in SUBSET S : SumFunctionOnSet(v, Image(T)) = SumFunctionOnSet(w, T)}
<1>1. ASSUME NEW T \in SUBSET S, \A U \in (SUBSET T) \ {T} : U \in G PROVE T \in G
  <2>1. CASE T = {}
    BY <2>1, SumEmpty
  <2>2. CASE T # {}
    <3> DEFINE x == FirstTaken(T)
    <3>1. x \in T /\ IsFiniteSet(T)
      BY <2>2, FirstInside, FS_Subset
    <3>2. SumFunctionOnSet(w, T) = w[x] + SumFunctionOnSet(w, T \ {x})
      BY <2>2, <3>1, SumFirst
    <3>3. T \ {x} \in G
      BY <1>1, <3>1
    <3>4. IsFiniteSet(Image(T))
      <4> DEFINE h == [y \in T |-> f[y]]
      <4>1. h \in Surjection(T, Image(T))
        BY DEF Surjection
      <4> QED BY <3>1, <4>1, FS_Surjection
    <3> HIDE DEF x
    <3>5. f[x] \in Image(T) /\ \A y \in Image(T) : v[y] \in Int
      BY <3>1
    <3>6. SumFunctionOnSet(v, Image(T)) = v[f[x]] + SumFunctionOnSet(v, Image(T) \ {f[x]})
      <4> HIDE DEF Image
      <4> QED BY <3>4, <3>5, SumPicks
    <3>7. Image(T) \ {f[x]} = Image(T \ {x})
      BY <3>1
    <3>8. v[f[x]] = w[x]
      BY <3>1
    <3> QED BY <3>2, <3>3, <3>6, <3>7, <3>8
  <2> QED BY <2>1, <2>2
<1>2. \A T \in SUBSET S : T \in G
  <2> HIDE DEF G
  <2> QED BY <1>1, SubsetInduction
<1>3. S \in G
  BY <1>2
<1> QED BY <1>3
===============================================================================
