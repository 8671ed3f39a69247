---------------------------- MODULE SetTheorems ----------------------------
(***************************************************************************)
(* What the proofs of several modules need of finite sets: the smaller of  *)
(* two sets, the least and the greatest of a set of numbers, and sums over *)
(* a set as SumFunctionOnSet of the community modules defines them, a      *)
(* recursive function that takes the elements in an order of its own.      *)
(* Induction is stated with a set in the place of a predicate.             *)
(***************************************************************************)
EXTENDS Integers, FiniteSetsExt, Functions, FiniteSetTheorems, TLAPS

\* Induction on a finite set: G holds S if it holds every subset of S whose own proper
\* subsets it holds.
LEMMA SubsetInduction ==
  ASSUME NEW S, IsFiniteSet(S), NEW G,
         \A T \in SUBSET S : (\A U \in SUBSET T : U # T => U \in G) => T \in G
  PROVE  S \in G
<1>. SUFFICES ASSUME S \notin G PROVE FALSE
  OBVIOUS
<1>. DEFINE B == {T \in SUBSET S : T \notin G}
<1>1. IsWellFoundedOn(StrictSubsetOrdering(S), SUBSET S)
  <2>1. IsWellFoundedOn(StrictSubsetOrdering(S), FiniteSubsetsOf(S))
    BY FS_StrictSubsetOrderingWellFounded
  <2>2. FiniteSubsetsOf(S) = SUBSET S
    BY FS_FiniteSubsetsOfFinite
  <2>. QED
    BY <2>1, <2>2
<1>2. PICK T \in B : \A U \in B : <<U, T>> \notin StrictSubsetOrdering(S)
  <2>1. B \subseteq SUBSET S /\ B # {}
    OBVIOUS
  <2>. HIDE DEF B
  <2>. QED
    BY <1>1, <2>1, WFMin
<1>3. \A U \in SUBSET T : U # T => U \in G
  BY <1>2 DEF StrictSubsetOrdering
<1>. QED
  BY <1>2, <1>3

\* Induction over the natural numbers, with a set for the predicate.
LEMMA NatSetInduction ==
  ASSUME NEW G, 0 \in G, \A n \in Nat : n \in G => n + 1 \in G
  PROVE  Nat \subseteq G
<1>. DEFINE B == Nat \ G
<1>. SUFFICES ASSUME B # {} PROVE FALSE
  OBVIOUS
<1>1. PICK n \in B : \A m \in B : <<m, n>> \notin OpToRel(<, Nat)
  <2>1. B \subseteq Nat
    OBVIOUS
  <2>. HIDE DEF B
  <2>. QED
    BY <2>1, NatLessThanWellFounded, WFMin
<1>2. n # 0 /\ n \in Nat /\ n - 1 \in Nat /\ n \notin G
  OBVIOUS
<1>3. n - 1 \in G
  <2>1. <<n - 1, n>> \in OpToRel(<, Nat)
    BY <1>2 DEF OpToRel
  <2>. QED
    BY <1>1, <1>2, <2>1
<1>4. (n - 1) + 1 \in G
  BY <1>2, <1>3
<1>. QED
  BY <1>2, <1>4

\* The largest of a set of numbers that is bounded.
LEMMA GreatestOf ==
  ASSUME NEW m \in Nat, NEW S \in SUBSET (0 .. m), S # {}
  PROVE  Max(S) \in S /\ \A x \in S : x <= Max(S)
<1>. DEFINE G == {n \in Nat : \A T \in SUBSET (0 .. n) : T # {} =>
                                  \E x \in T : \A y \in T : x >= y}
<1>1. 0 \in G
  <2>. SUFFICES ASSUME NEW T \in SUBSET (0 .. 0), T # {}
                PROVE  \E x \in T : \A y \in T : x >= y
    OBVIOUS
  <2>1. PICK x \in T : TRUE
    OBVIOUS
  <2>2. \A y \in T : y = 0
    OBVIOUS
  <2>. QED
    BY <2>1, <2>2
<1>2. ASSUME NEW n \in Nat, n \in G
      PROVE  n + 1 \in G
  <2>. SUFFICES ASSUME NEW T \in SUBSET (0 .. (n + 1)), T # {}
                PROVE  \E x \in T : \A y \in T : x >= y
    OBVIOUS
  <2>1. CASE n + 1 \in T
    BY <2>1
  <2>2. CASE n + 1 \notin T
    <3>1. T \in SUBSET (0 .. n)
      BY <2>2
    <3>. QED
      BY <1>2, <3>1
  <2>. QED
    BY <2>1, <2>2
<1>3. m \in G
  <2>. HIDE DEF G
  <2>. QED
    BY <1>1, <1>2, NatSetInduction
<1>4. \E x \in S : \A y \in S : x >= y
  BY <1>3
<1>. QED
  BY <1>4 DEF Max

\* The least of a set of numbers.
LEMMA LeastOf ==
  ASSUME NEW S \in SUBSET Nat, S # {}
  PROVE  Min(S) \in S /\ \A x \in S : Min(S) <= x
<1>1. PICK n \in S : \A m \in S : <<m, n>> \notin OpToRel(<, Nat)
  BY NatLessThanWellFounded, WFMin
<1>2. ASSUME NEW y \in S
      PROVE  n <= y
  <2>1. y \in Nat /\ n \in Nat
    OBVIOUS
  <2>2. y < n => <<y, n>> \in OpToRel(<, Nat)
    BY <2>1 DEF OpToRel
  <2>3. ~(y < n)
    BY <1>1, <2>2
  <2>. QED
    BY <2>1, <2>3
<1>3. \E x \in S : \A y \in S : x =< y
  BY <1>2
<1>. QED
  BY <1>3 DEF Min

\* Fewer are in the smaller set.
LEMMA Fewer ==
  ASSUME NEW S, NEW T, IsFiniteSet(T), S \subseteq T
  PROVE  /\ IsFiniteSet(S) /\ Cardinality(S) \in Nat /\ Cardinality(T) \in Nat
         /\ Cardinality(S) <= Cardinality(T)
         /\ S # T => Cardinality(S) < Cardinality(T)
<1>1. IsFiniteSet(S) /\ Cardinality(S) <= Cardinality(T) /\ (Cardinality(S) = Cardinality(T) => S = T)
  BY FS_Subset
<1>2. Cardinality(S) \in Nat /\ Cardinality(T) \in Nat
  BY <1>1, FS_CardinalityType
<1>. QED
  BY <1>1, <1>2

-----------------------------------------------------------------------------
(* Sums.  The recursive function exists and is one.                        *)

Chosen(s) == CHOOSE x \in s : TRUE

\* What the recursive function of a sum satisfies on the subsets of S.
Sums(g, f, S) ==
  g = [s \in SUBSET S |-> IF s = {} THEN 0 ELSE f[Chosen(s)] + g[s \ {Chosen(s)}]]

LEMMA SumIsSums ==
  ASSUME NEW f, NEW S
  PROVE  SumFunctionOnSet(f, S) = (CHOOSE g : Sums(g, f, S))[S]
BY DEF SumFunctionOnSet, FoldFunctionOnSet, MapThenFoldSet, Sums, Chosen

LEMMA ChosenIn == \A s : s # {} => Chosen(s) \in s
BY DEF Chosen

\* Two such functions agree wherever both are defined.
LEMMA SumsAgree ==
  ASSUME NEW f, NEW S, NEW T, NEW g, NEW h, Sums(g, f, S), Sums(h, f, T),
         NEW s, IsFiniteSet(s), s \subseteq S, s \subseteq T
  PROVE  g[s] = h[s]
<1>. DEFINE G == {t \in SUBSET s : g[t] = h[t]}
<1>1. ASSUME NEW t \in SUBSET s, \A u \in SUBSET t : u # t => u \in G
      PROVE  t \in G
  <2>1. t \in SUBSET S /\ t \in SUBSET T
    OBVIOUS
  <2>2. CASE t = {}
    BY <2>1, <2>2 DEF Sums
  <2>3. CASE t # {}
    <3>. DEFINE u == t \ {Chosen(t)}
    <3>1. u \in SUBSET t /\ u # t
      BY <2>3, ChosenIn
    <3>2. g[u] = h[u]
      BY <1>1, <3>1
    <3>3. g[t] = f[Chosen(t)] + g[u] /\ h[t] = f[Chosen(t)] + h[u]
      BY <2>1, <2>3 DEF Sums
    <3>. QED
      BY <3>2, <3>3
  <2>. QED
    BY <2>2, <2>3
<1>2. s \in G
  <2>. HIDE DEF G
  <2>. QED
    BY <1>1, SubsetInduction
<1>. QED
  BY <1>2

\* One exists on every finite set: it is put together from those on the smaller subsets.
LEMMA SumsExists ==
  ASSUME NEW f, NEW S, IsFiniteSet(S)
  PROVE  \E g : Sums(g, f, S)
<1>. DEFINE G == {T \in SUBSET S : \E g : Sums(g, f, T)}
<1>1. ASSUME NEW T \in SUBSET S, \A U \in SUBSET T : U # T => U \in G
      PROVE  T \in G
  <2>. DEFINE V(U)   == (CHOOSE g : Sums(g, f, U))[U]
              top    == IF T = {} THEN 0 ELSE f[Chosen(T)] + V(T \ {Chosen(T)})
              g      == [U \in SUBSET T |-> IF U = T THEN top ELSE V(U)]
  <2>1. ASSUME NEW U \in SUBSET T, U # T, U # {}
        PROVE  V(U) = f[Chosen(U)] + V(U \ {Chosen(U)})
    <3>. DEFINE W  == U \ {Chosen(U)}
                gu == CHOOSE h : Sums(h, f, U)
                gw == CHOOSE h : Sums(h, f, W)
    <3>1. Chosen(U) \in U
      BY <2>1, ChosenIn
    <3>2. W \in SUBSET U /\ W \in SUBSET T /\ W # T
      BY <3>1
    <3>3. Sums(gu, f, U) /\ Sums(gw, f, W)
      BY <1>1, <2>1, <3>2
    <3>4. IsFiniteSet(W)
      BY <3>2, FS_Subset
    <3>5. gu[W] = gw[W]
      <4>. HIDE DEF W, gu, gw
      <4>. QED
        BY <3>2, <3>3, <3>4, SumsAgree
    <3>6. gu[U] = f[Chosen(U)] + gu[W]
      <4>. HIDE DEF gu
      <4>. QED
        BY <2>1, <3>3 DEF Sums
    <3>. QED
      BY <3>5, <3>6
  <2>2. ASSUME NEW U \in SUBSET T, U # {}
        PROVE  g[U] = f[Chosen(U)] + g[U \ {Chosen(U)}]
    <3>1. U \ {Chosen(U)} \in SUBSET T /\ U \ {Chosen(U)} # T
      BY <2>2, ChosenIn
    <3>2. g[U \ {Chosen(U)}] = V(U \ {Chosen(U)})
      <4>. HIDE DEF V, top
      <4>. QED
        BY <3>1
    <3>3. g[U] = f[Chosen(U)] + V(U \ {Chosen(U)})
      <4>. HIDE DEF V
      <4>. QED
        BY <2>1, <2>2
    <3>. QED
      BY <3>2, <3>3
  <2>3. g[{}] = 0
    <3>1. CASE T = {}
      BY <3>1
    <3>2. CASE T # {}
      <4>1. Sums(CHOOSE h : Sums(h, f, {}), f, {})
        BY <1>1, <3>2
      <4>2. V({}) = 0
        <5>. DEFINE ge == CHOOSE h : Sums(h, f, {})
        <5>. HIDE DEF ge
        <5>1. ge[{}] = 0
          BY <4>1 DEF Sums, ge
        <5>. QED
          BY <5>1 DEF ge
      <4>. HIDE DEF V
      <4>. QED
        BY <3>2, <4>2
    <3>. QED
      BY <3>1, <3>2
  <2>4. Sums(g, f, T)
    <3>1. g = [U \in SUBSET T |-> g[U]]
      OBVIOUS
    <3>. HIDE DEF g
    <3>2. \A U \in SUBSET T :
            g[U] = IF U = {} THEN 0 ELSE f[Chosen(U)] + g[U \ {Chosen(U)}]
      BY <2>2, <2>3
    <3>. QED
      BY <3>1, <3>2 DEF Sums
  <2>. QED
    BY <2>4
<1>2. S \in G
  <2>. HIDE DEF G
  <2>. QED
    BY <1>1, SubsetInduction
<1>. QED
  BY <1>2

-----------------------------------------------------------------------------
(* What a sum is.                                                          *)

LEMMA SumsOfFinite ==
  ASSUME NEW f, NEW S, IsFiniteSet(S)
  PROVE  Sums(CHOOSE g : Sums(g, f, S), f, S)
BY SumsExists

\* The sum over the empty set, and over the others by the element that is chosen.
LEMMA SumEmpty == \A f : SumFunctionOnSet(f, {}) = 0
<1>. SUFFICES ASSUME NEW f PROVE SumFunctionOnSet(f, {}) = 0
  OBVIOUS
<1>. DEFINE g == CHOOSE h : Sums(h, f, {})
<1>1. Sums(g, f, {})
  BY FS_EmptySet, SumsOfFinite
<1>. HIDE DEF g
<1>2. g[{}] = 0
  BY <1>1 DEF Sums
<1>. QED
  BY <1>2, SumIsSums DEF g

LEMMA SumChosen ==
  ASSUME NEW f, NEW S, IsFiniteSet(S), S # {}
  PROVE  SumFunctionOnSet(f, S) = f[Chosen(S)] + SumFunctionOnSet(f, S \ {Chosen(S)})
<1>. DEFINE W  == S \ {Chosen(S)}
            gs == CHOOSE h : Sums(h, f, S)
            gw == CHOOSE h : Sums(h, f, W)
<1>1. W \in SUBSET S /\ IsFiniteSet(W)
  BY FS_Subset
<1>2. Sums(gs, f, S) /\ Sums(gw, f, W)
  BY <1>1, SumsOfFinite
<1>3. gs[W] = gw[W]
  <2>. HIDE DEF W, gs, gw
  <2>. QED
    BY <1>1, <1>2, SumsAgree
<1>4. gs[S] = f[Chosen(S)] + gs[W]
  <2>. HIDE DEF gs
  <2>. QED
    BY <1>2 DEF Sums
<1>5. SumFunctionOnSet(f, S) = gs[S] /\ SumFunctionOnSet(f, W) = gw[W]
  BY SumIsSums
<1>. QED
  BY <1>3, <1>4, <1>5

LEMMA SumType ==
  ASSUME NEW f, NEW S, IsFiniteSet(S), \A x \in S : f[x] \in Int
  PROVE  SumFunctionOnSet(f, S) \in Int
<1>. DEFINE G == {T \in SUBSET S : SumFunctionOnSet(f, T) \in Int}
<1>1. ASSUME NEW T \in SUBSET S, \A U \in SUBSET T : U # T => U \in G
      PROVE  T \in G
  <2>1. CASE T = {}
    BY <2>1, SumEmpty
  <2>2. CASE T # {}
    <3>1. Chosen(T) \in T /\ IsFiniteSet(T)
      BY <2>2, ChosenIn, FS_Subset
    <3>2. SumFunctionOnSet(f, T \ {Chosen(T)}) \in Int
      BY <1>1, <3>1
    <3>3. f[Chosen(T)] \in Int
      BY <3>1
    <3>. QED
      BY <2>2, <3>1, <3>2, <3>3, SumChosen
  <2>. QED
    BY <2>1, <2>2
<1>2. S \in G
  <2>. HIDE DEF G
  <2>. QED
    BY <1>1, SubsetInduction
<1>. QED
  BY <1>2

\* Any element may be taken first.
LEMMA SumRemove ==
  ASSUME NEW f, NEW S, IsFiniteSet(S), \A x \in S : f[x] \in Int, NEW y \in S
  PROVE  SumFunctionOnSet(f, S) = f[y] + SumFunctionOnSet(f, S \ {y})
<1>. DEFINE G == {T \in SUBSET S : \A z \in T :
                    SumFunctionOnSet(f, T) = f[z] + SumFunctionOnSet(f, T \ {z})}
<1>1. ASSUME NEW T \in SUBSET S, \A U \in SUBSET T : U # T => U \in G
      PROVE  T \in G
  <2>. SUFFICES ASSUME NEW z \in T
                PROVE  SumFunctionOnSet(f, T) = f[z] + SumFunctionOnSet(f, T \ {z})
    OBVIOUS
  <2>. DEFINE x == Chosen(T)
  <2>1. x \in T /\ IsFiniteSet(T)
    BY ChosenIn, FS_Subset
  <2>2. SumFunctionOnSet(f, T) = f[x] + SumFunctionOnSet(f, T \ {x})
    BY <2>1, SumChosen
  <2>. HIDE DEF x
  <2>3. CASE z = x
    BY <2>2, <2>3
  <2>4. CASE z # x
    <3>1. T \ {x} \in G /\ T \ {z} \in G
      BY <1>1, <2>1
    <3>2. SumFunctionOnSet(f, T \ {x}) = f[z] + SumFunctionOnSet(f, (T \ {z}) \ {x})
      <4>1. (T \ {x}) \ {z} = (T \ {z}) \ {x}
        OBVIOUS
      <4>. QED
        BY <2>4, <3>1, <4>1
    <3>3. SumFunctionOnSet(f, T \ {z}) = f[x] + SumFunctionOnSet(f, (T \ {z}) \ {x})
      BY <2>1, <2>4, <3>1
    <3>4. SumFunctionOnSet(f, (T \ {z}) \ {x}) \in Int
      <4>1. IsFiniteSet((T \ {z}) \ {x})
        BY <2>1, FS_RemoveElement
      <4>. QED
        BY <4>1, SumType
    <3>5. f[x] \in Int /\ f[z] \in Int
      BY <2>1
    <3>. QED
      BY <2>2, <3>2, <3>3, <3>4, <3>5
  <2>. QED
    BY <2>3, <2>4
<1>2. S \in G
  <2>. HIDE DEF G
  <2>. QED
    BY <1>1, SubsetInduction
<1>. QED
  BY <1>2

LEMMA SumAdd ==
  ASSUME NEW f, NEW S, IsFiniteSet(S), NEW y, y \notin S, \A x \in S \cup {y} : f[x] \in Int
  PROVE  SumFunctionOnSet(f, S \cup {y}) = f[y] + SumFunctionOnSet(f, S)
<1>1. IsFiniteSet(S \cup {y})
  BY FS_AddElement
<1>2. (S \cup {y}) \ {y} = S
  OBVIOUS
<1>. QED
  BY <1>1, <1>2, SumRemove

-----------------------------------------------------------------------------
(* How sums compare.                                                       *)

\* Functions that agree on a set have the same sum over it.
LEMMA SumSame ==
  ASSUME NEW f, NEW g, NEW S, IsFiniteSet(S), \A x \in S : f[x] = g[x]
  PROVE  SumFunctionOnSet(f, S) = SumFunctionOnSet(g, S)
<1>. DEFINE G == {T \in SUBSET S : SumFunctionOnSet(f, T) = SumFunctionOnSet(g, T)}
<1>1. ASSUME NEW T \in SUBSET S, \A U \in SUBSET T : U # T => U \in G
      PROVE  T \in G
  <2>1. CASE T = {}
    BY <2>1, SumEmpty
  <2>2. CASE T # {}
    <3>1. Chosen(T) \in T /\ IsFiniteSet(T)
      BY <2>2, ChosenIn, FS_Subset
    <3>2. SumFunctionOnSet(f, T \ {Chosen(T)}) = SumFunctionOnSet(g, T \ {Chosen(T)})
      BY <1>1, <3>1
    <3>3. f[Chosen(T)] = g[Chosen(T)]
      BY <3>1
    <3>4. SumFunctionOnSet(f, T) = f[Chosen(T)] + SumFunctionOnSet(f, T \ {Chosen(T)})
      BY <2>2, <3>1, SumChosen
    <3>5. SumFunctionOnSet(g, T) = g[Chosen(T)] + SumFunctionOnSet(g, T \ {Chosen(T)})
      BY <2>2, <3>1, SumChosen
    <3>. QED
      BY <3>2, <3>3, <3>4, <3>5
  <2>. QED
    BY <2>1, <2>2
<1>2. S \in G
  <2>. HIDE DEF G
  <2>. QED
    BY <1>1, SubsetInduction
<1>. QED
  BY <1>2

\* A sum grows with its terms.
LEMMA SumLeq ==
  ASSUME NEW f, NEW g, NEW S, IsFiniteSet(S),
         \A x \in S : f[x] \in Int /\ g[x] \in Int /\ f[x] <= g[x]
  PROVE  SumFunctionOnSet(f, S) <= SumFunctionOnSet(g, S)
<1>. DEFINE G == {T \in SUBSET S : SumFunctionOnSet(f, T) <= SumFunctionOnSet(g, T)}
<1>1. ASSUME NEW T \in SUBSET S, \A U \in SUBSET T : U # T => U \in G
      PROVE  T \in G
  <2>1. CASE T = {}
    BY <2>1, SumEmpty
  <2>2. CASE T # {}
    <3>. DEFINE y == Chosen(T)
                a == SumFunctionOnSet(f, T \ {y})
                b == SumFunctionOnSet(g, T \ {y})
    <3>1. y \in T /\ IsFiniteSet(T) /\ IsFiniteSet(T \ {y})
      BY <2>2, ChosenIn, FS_Subset
    <3>2. a <= b
      BY <1>1, <3>1
    <3>3. f[y] \in Int /\ g[y] \in Int /\ f[y] <= g[y]
      BY <3>1
    <3>4. SumFunctionOnSet(f, T) = f[y] + a /\ SumFunctionOnSet(g, T) = g[y] + b
      BY <2>2, <3>1, SumChosen
    <3>5. a \in Int
      BY <3>1, SumType
    <3>6. b \in Int
      BY <3>1, SumType
    <3>7. SumFunctionOnSet(f, T) <= SumFunctionOnSet(g, T)
      <4>. HIDE DEF y, a, b
      <4>. QED
        BY <3>2, <3>3, <3>4, <3>5, <3>6
    <3>. QED
      BY <3>7
  <2>. QED
    BY <2>1, <2>2
<1>2. S \in G
  <2>. HIDE DEF G
  <2>. QED
    BY <1>1, SubsetInduction
<1>. QED
  BY <1>2

\* The sum over two sets that share nothing is the sum of theirs.
LEMMA SumUnion ==
  ASSUME NEW f, NEW S, NEW T, IsFiniteSet(S), IsFiniteSet(T), S \cap T = {},
         \A x \in S \cup T : f[x] \in Int
  PROVE  SumFunctionOnSet(f, S \cup T) = SumFunctionOnSet(f, S) + SumFunctionOnSet(f, T)
<1>. DEFINE G == {U \in SUBSET T :
                    SumFunctionOnSet(f, S \cup U) = SumFunctionOnSet(f, S) + SumFunctionOnSet(f, U)}
<1>1. ASSUME NEW U \in SUBSET T, \A V \in SUBSET U : V # U => V \in G
      PROVE  U \in G
  <2>1. CASE U = {}
    <3>1. S \cup {} = S /\ SumFunctionOnSet(f, {}) = 0 /\ SumFunctionOnSet(f, S) \in Int
      BY SumEmpty, SumType
    <3>. QED
      BY <2>1, <3>1
  <2>2. CASE U # {}
    <3>. DEFINE y == Chosen(U)
                V == U \ {y}
    <3>1. y \in U /\ IsFiniteSet(U) /\ IsFiniteSet(V) /\ V \in SUBSET U /\ V # U
      BY <2>2, ChosenIn, FS_Subset
    <3>. HIDE DEF y
    <3>2. SumFunctionOnSet(f, S \cup V) = SumFunctionOnSet(f, S) + SumFunctionOnSet(f, V)
      BY <1>1, <3>1
    <3>3. IsFiniteSet(S \cup V) /\ IsFiniteSet(S \cup U)
      BY <3>1, FS_Union
    <3>4. SumFunctionOnSet(f, S \cup U) = f[y] + SumFunctionOnSet(f, S \cup V)
      <4>1. (S \cup U) \ {y} = S \cup V
        BY <3>1
      <4>2. y \in S \cup U /\ \A x \in S \cup U : f[x] \in Int
        BY <3>1
      <4>. HIDE DEF V
      <4>. QED
        BY <3>3, <4>1, <4>2, SumRemove
    <3>5. SumFunctionOnSet(f, U) = f[y] + SumFunctionOnSet(f, V)
      BY <3>1, SumRemove
    <3>6. SumFunctionOnSet(f, S) \in Int
      BY SumType
    <3>7. SumFunctionOnSet(f, V) \in Int
      BY <3>1, SumType
    <3>8. f[y] \in Int
      BY <3>1
    <3>9. SumFunctionOnSet(f, S \cup U) = SumFunctionOnSet(f, S) + SumFunctionOnSet(f, U)
      <4>. HIDE DEF V
      <4>. QED
        BY <3>2, <3>4, <3>5, <3>6, <3>7, <3>8
    <3>. QED
      BY <3>9
  <2>. QED
    BY <2>1, <2>2
<1>2. T \in G
  <2>. HIDE DEF G
  <2>. QED
    BY <1>1, SubsetInduction
<1>. QED
  BY <1>2

\* Where no term is negative, a sum is a natural number and grows with its set.
LEMMA SumNat ==
  ASSUME NEW f, NEW S, IsFiniteSet(S), \A x \in S : f[x] \in Nat
  PROVE  SumFunctionOnSet(f, S) \in Nat
<1>. DEFINE G == {T \in SUBSET S : SumFunctionOnSet(f, T) \in Nat}
<1>1. ASSUME NEW T \in SUBSET S, \A U \in SUBSET T : U # T => U \in G
      PROVE  T \in G
  <2>1. CASE T = {}
    BY <2>1, SumEmpty
  <2>2. CASE T # {}
    <3>1. Chosen(T) \in T /\ IsFiniteSet(T)
      BY <2>2, ChosenIn, FS_Subset
    <3>2. SumFunctionOnSet(f, T \ {Chosen(T)}) \in Nat
      BY <1>1, <3>1
    <3>3. f[Chosen(T)] \in Nat
      BY <3>1
    <3>. QED
      BY <2>2, <3>1, <3>2, <3>3, SumChosen
  <2>. QED
    BY <2>1, <2>2
<1>2. S \in G
  <2>. HIDE DEF G
  <2>. QED
    BY <1>1, SubsetInduction
<1>. QED
  BY <1>2

LEMMA SumSubset ==
  ASSUME NEW f, NEW S, IsFiniteSet(S), \A x \in S : f[x] \in Nat, NEW T \in SUBSET S
  PROVE  SumFunctionOnSet(f, T) <= SumFunctionOnSet(f, S)
<1>1. IsFiniteSet(T) /\ IsFiniteSet(S \ T)
  BY FS_Subset
<1>2. S = T \cup (S \ T) /\ T \cap (S \ T) = {}
  OBVIOUS
<1>3. SumFunctionOnSet(f, T \cup (S \ T))
        = SumFunctionOnSet(f, T) + SumFunctionOnSet(f, S \ T)
  BY <1>1, <1>2, SumUnion
<1>4. SumFunctionOnSet(f, T) \in Nat
  BY <1>1, SumNat
<1>5. SumFunctionOnSet(f, S \ T) \in Nat
  BY <1>1, SumNat
<1>. DEFINE R == S \ T
<1>6. SumFunctionOnSet(f, S) = SumFunctionOnSet(f, T) + SumFunctionOnSet(f, R)
  BY <1>2, <1>3
<1>. QED
  <2>1. SumFunctionOnSet(f, R) \in Nat
    BY <1>5
  <2>. HIDE DEF R
  <2>. QED
    BY <1>4, <1>6, <2>1

-----------------------------------------------------------------------------
(* One term changes, and sums of sums.                                     *)

\* What one term gains, the sum gains.
LEMMA SumChange ==
  ASSUME NEW f, NEW g, NEW S, IsFiniteSet(S), \A x \in S : f[x] \in Int,
         NEW y \in S, g[y] \in Int, \A x \in S : x # y => g[x] = f[x]
  PROVE  SumFunctionOnSet(g, S) = SumFunctionOnSet(f, S) + g[y] - f[y]
<1>. DEFINE R == S \ {y}
<1>1. IsFiniteSet(R)
  BY FS_RemoveElement
<1>2. SumFunctionOnSet(f, S) = f[y] + SumFunctionOnSet(f, R)
  BY SumRemove
<1>3. SumFunctionOnSet(g, S) = g[y] + SumFunctionOnSet(g, R)
  <2>1. \A x \in S : g[x] \in Int
    OBVIOUS
  <2>. QED
    BY <2>1, SumRemove
<1>4. SumFunctionOnSet(f, R) = SumFunctionOnSet(g, R)
  <2>1. \A x \in R : f[x] = g[x]
    OBVIOUS
  <2>. HIDE DEF R
  <2>. QED
    BY <1>1, <2>1, SumSame
<1>5. SumFunctionOnSet(f, R) \in Int
  BY <1>1, SumType
<1>6. f[y] \in Int
  OBVIOUS
<1>. HIDE DEF R
<1>. QED
  BY <1>2, <1>3, <1>4, <1>5, <1>6

\* The sum of the sums over the classes C[p] that k makes of S is the sum over S.
LEMMA SumByClass ==
  ASSUME NEW f, NEW S, IsFiniteSet(S), \A x \in S : f[x] \in Int,
         NEW P, IsFiniteSet(P), NEW k, NEW h, NEW C,
         \A p \in P : h[p] = SumFunctionOnSet(f, C[p]),
         \A p \in P : \A x : x \in C[p] <=> x \in S /\ k[x] = p,
         \A x \in S : k[x] \in P
  PROVE  SumFunctionOnSet(h, P) = SumFunctionOnSet(f, S)
<1>. DEFINE Of(Q) == {x \in S : k[x] \in Q}
            G == {Q \in SUBSET P : SumFunctionOnSet(h, Q) = SumFunctionOnSet(f, Of(Q))}
<1>1. ASSUME NEW Q \in SUBSET P, \A R \in SUBSET Q : R # Q => R \in G
      PROVE  Q \in G
  <2>1. CASE Q = {}
    <3>1. Of({}) = {}
      OBVIOUS
    <3>2. SumFunctionOnSet(h, {}) = 0 /\ SumFunctionOnSet(f, {}) = 0
      BY SumEmpty
    <3>. QED
      BY <2>1, <3>1, <3>2
  <2>2. CASE Q # {}
    <3>. DEFINE p == Chosen(Q)
                R == Q \ {p}
                Cp == C[p]
    <3>1. p \in Q /\ IsFiniteSet(Q) /\ R \in SUBSET Q /\ R # Q
      BY <2>2, ChosenIn, FS_Subset
    <3>2. SumFunctionOnSet(h, Q) = h[p] + SumFunctionOnSet(h, R)
      BY <2>2, <3>1, SumChosen
    <3>3. SumFunctionOnSet(h, R) = SumFunctionOnSet(f, Of(R))
      BY <1>1, <3>1
    <3>4. h[p] = SumFunctionOnSet(f, Cp)
      BY <3>1
    <3>5. SumFunctionOnSet(f, Of(Q)) = SumFunctionOnSet(f, Cp) + SumFunctionOnSet(f, Of(R))
      <4>. HIDE DEF p
      <4>1. Of(Q) = Cp \cup Of(R) /\ Cp \cap Of(R) = {}
        BY <3>1
      <4>2. Cp \subseteq S /\ Of(R) \subseteq S
        BY <3>1
      <4>3. IsFiniteSet(Cp) /\ IsFiniteSet(Of(R)) /\ \A x \in Cp \cup Of(R) : f[x] \in Int
        BY <4>2, FS_Subset
      <4>. HIDE DEF Cp, Of, R
      <4>. QED
        BY <4>1, <4>2, <4>3, SumUnion
    <3>6. SumFunctionOnSet(h, Q) = SumFunctionOnSet(f, Of(Q))
      <4>. HIDE DEF p, Cp, Of, R
      <4>. QED
        BY <3>2, <3>3, <3>4, <3>5
    <3>. HIDE DEF p, Of, R
    <3>. QED
      BY <3>6
  <2>. QED
    BY <2>1, <2>2
<1>2. P \in G
  <2>. HIDE DEF G
  <2>. QED
    BY <1>1, SubsetInduction
<1>3. Of(P) = S
  OBVIOUS
<1>. QED
  BY <1>2, <1>3

\* A sum when one element comes, goes or changes and the others stay.
LEMMA SumMoves ==
  ASSUME NEW f, NEW g, NEW A, NEW B, IsFiniteSet(A), NEW y, A \ {y} = B \ {y},
         f[y] \in Int, g[y] \in Int, \A x \in A : f[x] \in Int,
         \A x \in A : x # y => g[x] = f[x]
  PROVE  SumFunctionOnSet(g, B) = SumFunctionOnSet(f, A) + (IF y \in B THEN g[y] ELSE 0)
                                                         - (IF y \in A THEN f[y] ELSE 0)
<1>. DEFINE R  == A \ {y}
            rf == SumFunctionOnSet(f, R)
            rg == SumFunctionOnSet(g, R)
            sa == SumFunctionOnSet(f, A)
            sb == SumFunctionOnSet(g, B)
<1>1. IsFiniteSet(R) /\ IsFiniteSet(B)
  <2>1. IsFiniteSet(R)
    BY FS_RemoveElement
  <2>2. IsFiniteSet(R \cup {y})
    BY <2>1, FS_AddElement
  <2>3. B \subseteq R \cup {y}
    OBVIOUS
  <2>. HIDE DEF R
  <2>. QED
    BY <2>1, <2>2, <2>3, FS_Subset
<1>2. rf = rg
  BY <1>1, SumSame
<1>3. rf \in Int
  BY <1>1, SumType
<1>4. sa = rf + (IF y \in A THEN f[y] ELSE 0)
  <2>1. CASE y \in A
    <3>1. sa = f[y] + rf
      BY <2>1, SumRemove
    <3>. HIDE DEF sa, rf
    <3>. QED
      BY <1>3, <2>1, <3>1
  <2>2. CASE y \notin A
    <3>1. A = R
      BY <2>2
    <3>2. sa = rf
      BY <3>1
    <3>. HIDE DEF sa, rf
    <3>. QED
      BY <1>3, <2>2, <3>2
  <2>. QED
    BY <2>1, <2>2
<1>5. sb = rg + (IF y \in B THEN g[y] ELSE 0)
  <2>1. CASE y \in B
    <3>1. \A x \in B : g[x] \in Int
      OBVIOUS
    <3>2. sb = g[y] + SumFunctionOnSet(g, B \ {y})
      BY <1>1, <2>1, <3>1, SumRemove
    <3>3. sb = g[y] + rg
      BY <3>2
    <3>. HIDE DEF sb, rg, rf
    <3>. QED
      BY <1>2, <1>3, <2>1, <3>3
  <2>2. CASE y \notin B
    <3>1. B = R
      BY <2>2
    <3>2. sb = rg
      BY <3>1
    <3>. HIDE DEF sb, rg, rf
    <3>. QED
      BY <1>2, <1>3, <2>2, <3>2
  <2>. QED
    BY <2>1, <2>2
<1>. HIDE DEF sa, sb, rf, rg, R
<1>6. sb = sa + (IF y \in B THEN g[y] ELSE 0) - (IF y \in A THEN f[y] ELSE 0)
  BY <1>2, <1>3, <1>4, <1>5
<1>. QED
  BY <1>6 DEF sa, sb
=============================================================================
