---------------------------- MODULE SumTheorems ----------------------------
(***************************************************************************)
(* Facts about SumFunctionOnSet (module Functions): the total of f[x] over *)
(* the x of a finite set S, which is how the specifications count places,  *)
(* tickets and pence.  The operator is defined by a recursive function on  *)
(* the subsets of S that takes the elements in the order CHOOSE gives; the *)
(* facts below say that the order does not matter, how the sums of two     *)
(* functions and of two sets compare, and that a common factor comes out.  *)
(* The last ones are about Min and Max of numbers.                         *)
(*                                                                         *)
(* Every induction is an argument about a least counterexample: if the set *)
(* of the subsets of S that fail were not empty, it would have a least one *)
(* (SmallestSubset), and that one cannot fail.                             *)
(***************************************************************************)
EXTENDS Integers, FiniteSets, FiniteSetsExt, Functions, FiniteSetTheorems, WellFoundedInduction, TLAPS

\* A set of subsets of a finite set has one with none of the others inside it.
LEMMA SmallestSubset ==
  ASSUME NEW S, IsFiniteSet(S), NEW T, T \subseteq SUBSET S, T # {}
  PROVE  \E U \in T : \A V \in T : V \subseteq U => V = U
<1>1. IsWellFoundedOn(StrictSubsetOrdering(S), FiniteSubsetsOf(S))
  BY FS_StrictSubsetOrderingWellFounded, Zenon
<1>2. \A U \in T : IsFiniteSet(U)
  BY FS_Subset
<1>3. T \subseteq FiniteSubsetsOf(S)
  BY <1>2 DEF FiniteSubsetsOf
<1>4. PICK U \in T : \A V \in T : ~(<<V, U>> \in StrictSubsetOrdering(S))
  BY <1>1, <1>3, WFMin, Zenon
<1>5. \A V \in T : V \subseteq U => V = U
  BY <1>4 DEF StrictSubsetOrdering
<1> QED BY <1>5

(***************************************************************************)
(* The recursive function behind the operator                              *)
(***************************************************************************)
First(s) == CHOOSE x \in s : TRUE

\* g gives the total of f over each subset of S, taken in the order of First.
AddsUp(g, f, S) ==
  g = [s \in SUBSET S |-> IF s = {} THEN 0 ELSE f[First(s)] + g[s \ {First(s)}]]

LEMMA SumIsChosen ==
  ASSUME NEW f, NEW S
  PROVE  SumFunctionOnSet(f, S) = (CHOOSE g : AddsUp(g, f, S))[S]
BY Zenon DEF SumFunctionOnSet, FoldFunctionOnSet, MapThenFoldSet, AddsUp, First

LEMMA FirstIn == ASSUME NEW s, s # {} PROVE First(s) \in s
BY DEF First

LEMMA AddsUpAt ==
  ASSUME NEW f, NEW S, NEW g, AddsUp(g, f, S), NEW s \in SUBSET S
  PROVE  /\ s = {} => g[s] = 0
         /\ s # {} => g[s] = f[First(s)] + g[s \ {First(s)}]
<1> DEFINE h == [t \in SUBSET S |-> IF t = {} THEN 0 ELSE f[First(t)] + g[t \ {First(t)}]]
<1>1. g = h
  BY Zenon DEF AddsUp
<1>2. h[s] = IF s = {} THEN 0 ELSE f[First(s)] + g[s \ {First(s)}]
  BY Zenon
<1>3. g[s] = IF s = {} THEN 0 ELSE f[First(s)] + g[s \ {First(s)}]
  BY <1>1, <1>2, Zenon
<1> QED BY <1>3, Zenon

\* Two such functions agree wherever both are defined.
LEMMA AddsUpUnique ==
  ASSUME NEW f, NEW S, IsFiniteSet(S), NEW V \in SUBSET S, NEW W \in SUBSET V,
         NEW g, AddsUp(g, f, S), NEW h, AddsUp(h, f, V)
  PROVE  g[W] = h[W]
<1> DEFINE Bad == {w \in SUBSET V : g[w] # h[w]}
<1>1. SUFFICES ASSUME Bad # {} PROVE FALSE
  OBVIOUS
<1>2. PICK u \in Bad : \A v \in Bad : v \subseteq u => v = u
  <2>1. IsFiniteSet(V) /\ Bad \subseteq SUBSET V
    BY FS_Subset
  <2> HIDE DEF Bad
  <2> QED BY <1>1, <2>1, SmallestSubset
<1>3. u \in SUBSET V /\ u \in SUBSET S
  BY <1>2
<1>4. u # {}
  <2>1. u = {} => g[u] = 0
    <3> HIDE DEF Bad
    <3> QED BY <1>3, AddsUpAt
  <2>2. u = {} => h[u] = 0
    <3> HIDE DEF Bad
    <3> QED BY <1>3, AddsUpAt
  <2> QED BY <1>2, <2>1, <2>2
<1>5. First(u) \in u
  BY <1>4, FirstIn
<1>6. g[u \ {First(u)}] = h[u \ {First(u)}]
  BY <1>2, <1>3, <1>5
<1>7. g[u] = h[u]
  <2>1. g[u] = f[First(u)] + g[u \ {First(u)}]
    BY <1>3, <1>4, AddsUpAt
  <2>2. h[u] = f[First(u)] + h[u \ {First(u)}]
    BY <1>3, <1>4, AddsUpAt
  <2> QED BY <2>1, <2>2, <1>6, Zenon
<1> QED BY <1>2, <1>7

\* There is one for every finite set.
LEMMA AddsUpExists ==
  ASSUME NEW f, NEW S, IsFiniteSet(S)
  PROVE  \E g : AddsUp(g, f, S)
<1> DEFINE Bad == {w \in SUBSET S : ~ \E g : AddsUp(g, f, w)}
<1>1. SUFFICES ASSUME Bad # {} PROVE FALSE
  OBVIOUS
<1>2. PICK u \in Bad : \A v \in Bad : v \subseteq u => v = u
  <2>1. Bad \subseteq SUBSET S
    OBVIOUS
  <2> HIDE DEF Bad
  <2> QED BY <1>1, <2>1, SmallestSubset
<1>3. u \in SUBSET S /\ IsFiniteSet(u)
  BY <1>2, FS_Subset
<1> DEFINE G(v) == CHOOSE g : AddsUp(g, f, v)
           total == [s \in SUBSET u |->
                       IF s = {} THEN 0 ELSE f[First(s)] + G(s \ {First(s)})[s \ {First(s)}]]
<1>4. ASSUME NEW v \in SUBSET u, v # u PROVE AddsUp(G(v), f, v)
  <2>1. v \in SUBSET S /\ v \notin Bad
    BY <1>2, <1>3, <1>4
  <2>2. \E g : AddsUp(g, f, v)
    BY <2>1
  <2> QED BY <2>2, Zenon
<1>5. ASSUME NEW v \in SUBSET u, v # u PROVE total[v] = G(v)[v]
  <2>1. total[v] = IF v = {} THEN 0 ELSE f[First(v)] + G(v \ {First(v)})[v \ {First(v)}]
    BY Zenon
  <2>2. CASE v = {}
    <3>1. G(v)[v] = 0
      BY <1>4, <1>5, <2>2, AddsUpAt
    <3> QED BY <2>1, <2>2, <3>1, Zenon
  <2>3. CASE v # {}
    <3> DEFINE w == v \ {First(v)}
    <3>1. w \in SUBSET v /\ w \in SUBSET u /\ w # u /\ IsFiniteSet(v)
      BY <1>5, <2>3, <1>3, FirstIn, FS_Subset
    <3>2. AddsUp(G(v), f, v) /\ AddsUp(G(w), f, w)
      BY <1>4, <1>5, <3>1
    <3>3. G(v)[v] = f[First(v)] + G(v)[w]
      BY <3>2, <2>3, AddsUpAt
    <3>4. G(v)[w] = G(w)[w]
      <4> HIDE DEF w, G
      <4> QED BY <3>1, <3>2, AddsUpUnique
    <3> QED BY <2>1, <2>3, <3>3, <3>4, Zenon
  <2> QED BY <2>2, <2>3
<1>6. AddsUp(total, f, u)
  <2> DEFINE next == [s \in SUBSET u |-> IF s = {} THEN 0 ELSE f[First(s)] + total[s \ {First(s)}]]
  <2>1. ASSUME NEW s \in SUBSET u PROVE total[s] = next[s]
    <3> DEFINE w == s \ {First(s)}
    <3>1. s # {} => w \in SUBSET u /\ w # u
      BY FirstIn
    <3>2. s # {} => total[w] = G(w)[w]
      BY <3>1, <1>5
    <3>3. total[s] = IF s = {} THEN 0 ELSE f[First(s)] + G(w)[w]
      BY Zenon
    <3>4. next[s] = IF s = {} THEN 0 ELSE f[First(s)] + total[w]
      BY Zenon
    <3> QED BY <3>2, <3>3, <3>4, Zenon
  <2>2. total = next
    BY <2>1
  <2> QED BY <2>2, Zenon DEF AddsUp
<1> QED BY <1>2, <1>6

----------------------------------------------------------------------------
(* What a sum is                                                           *)

THEOREM SumEmpty ==
  ASSUME NEW f
  PROVE  SumFunctionOnSet(f, {}) = 0
<1> DEFINE g == CHOOSE g : AddsUp(g, f, {})
<1>1. AddsUp(g, f, {})
  BY AddsUpExists, FS_EmptySet, Zenon
<1> HIDE DEF g
<1>2. g[{}] = 0
  BY <1>1, AddsUpAt
<1> QED BY <1>2, SumIsChosen DEF g

\* One element and the rest, for the element that is taken first.
LEMMA SumFirst ==
  ASSUME NEW f, NEW S, IsFiniteSet(S), S # {}
  PROVE  SumFunctionOnSet(f, S) = f[First(S)] + SumFunctionOnSet(f, S \ {First(S)})
<1> DEFINE W == S \ {First(S)}
           g == CHOOSE g : AddsUp(g, f, S)
           h == CHOOSE h : AddsUp(h, f, W)
<1>1. AddsUp(g, f, S)
  BY AddsUpExists, Zenon
<1>2. IsFiniteSet(W) /\ W \in SUBSET S
  BY FS_Subset
<1>3. AddsUp(h, f, W)
  <2> HIDE DEF W
  <2> QED BY <1>2, AddsUpExists, Zenon
<1>4. g[S] = f[First(S)] + g[W]
  <2> HIDE DEF g
  <2> QED BY <1>1, AddsUpAt
<1>5. g[W] = h[W]
  <2> HIDE DEF g, h, W
  <2> QED BY <1>1, <1>2, <1>3, AddsUpUnique
<1>6. SumFunctionOnSet(f, S) = g[S] /\ SumFunctionOnSet(f, W) = h[W]
  BY SumIsChosen, Zenon
<1> QED BY <1>4, <1>5, <1>6, Zenon

THEOREM SumNat ==
  ASSUME NEW f, NEW S, IsFiniteSet(S), \A x \in S : f[x] \in Nat
  PROVE  SumFunctionOnSet(f, S) \in Nat
<1> DEFINE Bad == {w \in SUBSET S : SumFunctionOnSet(f, w) \notin Nat}
<1>1. SUFFICES ASSUME Bad # {} PROVE FALSE
  BY DEF Bad
<1>2. PICK u \in Bad : \A v \in Bad : v \subseteq u => v = u
  <2>1. Bad \subseteq SUBSET S
    OBVIOUS
  <2> HIDE DEF Bad
  <2> QED BY <1>1, <2>1, SmallestSubset
<1>3. u \in SUBSET S /\ IsFiniteSet(u) /\ SumFunctionOnSet(f, u) \notin Nat
  BY <1>2, FS_Subset
<1>4. u # {}
  BY <1>3, SumEmpty
<1>5. First(u) \in u
  BY <1>4, FirstIn
<1>6. SumFunctionOnSet(f, u \ {First(u)}) \in Nat
  BY <1>2, <1>3, <1>5
<1>7. SumFunctionOnSet(f, u) = f[First(u)] + SumFunctionOnSet(f, u \ {First(u)})
  BY <1>3, <1>4, SumFirst, Zenon
<1> QED BY <1>3, <1>5, <1>6, <1>7

\* The sum depends on the values of the function on the set, and on nothing else.
THEOREM SumAgree ==
  ASSUME NEW f, NEW g, NEW S, IsFiniteSet(S), \A x \in S : f[x] = g[x]
  PROVE  SumFunctionOnSet(f, S) = SumFunctionOnSet(g, S)
<1> DEFINE Bad == {w \in SUBSET S : SumFunctionOnSet(f, w) # SumFunctionOnSet(g, w)}
<1>1. SUFFICES ASSUME Bad # {} PROVE FALSE
  BY DEF Bad
<1>2. PICK u \in Bad : \A v \in Bad : v \subseteq u => v = u
  <2>1. Bad \subseteq SUBSET S
    OBVIOUS
  <2> HIDE DEF Bad
  <2> QED BY <1>1, <2>1, SmallestSubset
<1>3. u \in SUBSET S /\ IsFiniteSet(u) /\ SumFunctionOnSet(f, u) # SumFunctionOnSet(g, u)
  BY <1>2, FS_Subset
<1>4. u # {}
  BY <1>3, SumEmpty
<1>5. First(u) \in u
  BY <1>4, FirstIn
<1>6. SumFunctionOnSet(f, u \ {First(u)}) = SumFunctionOnSet(g, u \ {First(u)})
  BY <1>2, <1>3, <1>5
<1>7. /\ SumFunctionOnSet(f, u) = f[First(u)] + SumFunctionOnSet(f, u \ {First(u)})
      /\ SumFunctionOnSet(g, u) = g[First(u)] + SumFunctionOnSet(g, u \ {First(u)})
  BY <1>3, <1>4, SumFirst, Zenon
<1>8. f[First(u)] = g[First(u)]
  BY <1>3, <1>5
<1> QED BY <1>3, <1>6, <1>7, <1>8, Zenon

\* One element and the rest, whichever element: the order does not matter.
THEOREM SumRemove ==
  ASSUME NEW f, NEW S, IsFiniteSet(S), \A x \in S : f[x] \in Nat, NEW x \in S
  PROVE  SumFunctionOnSet(f, S) = f[x] + SumFunctionOnSet(f, S \ {x})
<1> DEFINE Wrong(w) == \E y \in w : SumFunctionOnSet(f, w) # f[y] + SumFunctionOnSet(f, w \ {y})
           Bad == {w \in SUBSET S : Wrong(w)}
<1>1. SUFFICES ASSUME Bad # {} PROVE FALSE
  BY DEF Bad
<1>2. PICK u \in Bad : \A v \in Bad : v \subseteq u => v = u
  <2>1. Bad \subseteq SUBSET S
    OBVIOUS
  <2> HIDE DEF Bad
  <2> QED BY <1>1, <2>1, SmallestSubset
<1>3. u \in SUBSET S /\ IsFiniteSet(u) /\ Wrong(u)
  BY <1>2, FS_Subset
<1>4. PICK y \in u : SumFunctionOnSet(f, u) # f[y] + SumFunctionOnSet(f, u \ {y})
  BY <1>3
<1> DEFINE c == First(u)
           Both == u \ {c, y}
<1>5. c \in u
  BY <1>4, FirstIn
<1>6. SumFunctionOnSet(f, u) = f[c] + SumFunctionOnSet(f, u \ {c})
  BY <1>3, <1>4, SumFirst, Zenon
<1>7. y # c
  BY <1>4, <1>6
<1>8. SumFunctionOnSet(f, u \ {c}) = f[y] + SumFunctionOnSet(f, Both)
  <2>1. u \ {c} \notin Bad
    BY <1>2, <1>5
  <2>2. u \ {c} \in SUBSET S /\ y \in u \ {c} /\ (u \ {c}) \ {y} = Both
    BY <1>3, <1>4, <1>7
  <2> QED BY <2>1, <2>2
<1>9. SumFunctionOnSet(f, u \ {y}) = f[c] + SumFunctionOnSet(f, Both)
  <2>1. u \ {y} \notin Bad
    BY <1>2, <1>4
  <2>2. u \ {y} \in SUBSET S /\ c \in u \ {y} /\ (u \ {y}) \ {c} = Both
    BY <1>3, <1>5, <1>7
  <2> QED BY <2>1, <2>2
<1>10. SumFunctionOnSet(f, Both) \in Nat /\ f[c] \in Nat /\ f[y] \in Nat
  <2>1. IsFiniteSet(Both) /\ \A z \in Both : f[z] \in Nat
    BY <1>3, FS_Subset
  <2> HIDE DEF Both
  <2> QED BY <2>1, <1>3, <1>4, <1>5, SumNat
<1> HIDE DEF c, Both
<1> QED BY <1>4, <1>6, <1>8, <1>9, <1>10

----------------------------------------------------------------------------
(* How sums compare                                                        *)

\* A larger function, a larger sum.
THEOREM SumMonotone ==
  ASSUME NEW f, NEW g, NEW S, IsFiniteSet(S),
         \A x \in S : f[x] \in Nat /\ g[x] \in Nat /\ f[x] <= g[x]
  PROVE  SumFunctionOnSet(f, S) <= SumFunctionOnSet(g, S)
<1> DEFINE Bad == {w \in SUBSET S : ~(SumFunctionOnSet(f, w) <= SumFunctionOnSet(g, w))}
<1>1. SUFFICES ASSUME Bad # {} PROVE FALSE
  BY DEF Bad
<1>2. PICK u \in Bad : \A v \in Bad : v \subseteq u => v = u
  <2>1. Bad \subseteq SUBSET S
    OBVIOUS
  <2> HIDE DEF Bad
  <2> QED BY <1>1, <2>1, SmallestSubset
<1>3. /\ u \in SUBSET S /\ IsFiniteSet(u)
      /\ ~(SumFunctionOnSet(f, u) <= SumFunctionOnSet(g, u))
  BY <1>2, FS_Subset
<1>4. u # {}
  BY <1>3, SumEmpty
<1> DEFINE c == First(u)
           w == u \ {c}
<1>5. c \in u
  BY <1>4, FirstIn
<1>6. SumFunctionOnSet(f, w) <= SumFunctionOnSet(g, w)
  BY <1>2, <1>3, <1>5
<1>7. /\ SumFunctionOnSet(f, u) = f[c] + SumFunctionOnSet(f, w)
      /\ SumFunctionOnSet(g, u) = g[c] + SumFunctionOnSet(g, w)
  BY <1>3, <1>4, SumFirst, Zenon
<1>8. IsFiniteSet(w) /\ (\A x \in w : f[x] \in Nat) /\ (\A x \in w : g[x] \in Nat)
  BY <1>3, FS_Subset
<1> HIDE DEF w
<1>9. SumFunctionOnSet(f, w) \in Nat /\ SumFunctionOnSet(g, w) \in Nat
  BY <1>8, SumNat
<1>10. f[c] \in Nat /\ g[c] \in Nat /\ f[c] <= g[c]
  BY <1>3, <1>5
<1> HIDE DEF c
<1> QED BY <1>3, <1>6, <1>7, <1>9, <1>10

\* Of numbers no more than c each, the sum is no more than c for each.
THEOREM SumBound ==
  ASSUME NEW f, NEW c \in Nat, NEW S, IsFiniteSet(S), \A x \in S : f[x] \in Nat /\ f[x] <= c
  PROVE  Cardinality(S) \in Nat /\ SumFunctionOnSet(f, S) <= Cardinality(S) * c
<1> DEFINE Bad == {w \in SUBSET S : ~(SumFunctionOnSet(f, w) <= Cardinality(w) * c)}
<1>1. SUFFICES ASSUME Bad # {} PROVE FALSE
  BY FS_CardinalityType DEF Bad
<1>2. PICK u \in Bad : \A v \in Bad : v \subseteq u => v = u
  <2>1. Bad \subseteq SUBSET S
    OBVIOUS
  <2> HIDE DEF Bad
  <2> QED BY <1>1, <2>1, SmallestSubset
<1>3. /\ u \in SUBSET S /\ IsFiniteSet(u)
      /\ ~(SumFunctionOnSet(f, u) <= Cardinality(u) * c)
  BY <1>2, FS_Subset
<1>4. u # {}
  <2>1. SumFunctionOnSet(f, {}) = 0 /\ Cardinality({}) = 0 /\ 0 * c = 0
    BY SumEmpty, FS_EmptySet
  <2> HIDE DEF Bad
  <2> QED BY <1>3, <2>1
<1> DEFINE x == First(u)
           w == u \ {x}
           n == Cardinality(w)
           total == SumFunctionOnSet(f, w)
<1>5. x \in u
  BY <1>4, FirstIn
<1>6. total <= n * c
  BY <1>2, <1>3, <1>5
<1>7. SumFunctionOnSet(f, u) = f[x] + total
  BY <1>3, <1>4, SumFirst, Zenon
<1>8. IsFiniteSet(w) /\ \A y \in w : f[y] \in Nat
  BY <1>3, FS_Subset
<1>9. f[x] \in Nat /\ f[x] <= c
  BY <1>3, <1>5
<1>10. Cardinality(u) = n + 1 /\ n \in Nat
  <2>1. Cardinality(w) = Cardinality(u) - 1 /\ Cardinality(u) \in Nat /\ Cardinality(w) \in Nat
    <3> HIDE DEF x
    <3> QED BY <1>3, <1>5, <1>8, FS_RemoveElement, FS_CardinalityType
  <2> QED BY <2>1
<1>11. total \in Nat
  <2> HIDE DEF w
  <2> QED BY <1>8, SumNat
<1> HIDE DEF n, total, w, x
<1>12. (n + 1) * c = n * c + c /\ n * c \in Nat
  BY <1>10
<1> QED BY <1>3, <1>6, <1>7, <1>9, <1>10, <1>11, <1>12

\* Two sets with nothing in common are summed one after the other.
THEOREM SumDisjoint ==
  ASSUME NEW f, NEW S, NEW T, IsFiniteSet(S), IsFiniteSet(T), S \cap T = {},
         \A x \in S \cup T : f[x] \in Nat
  PROVE  SumFunctionOnSet(f, S \cup T) = SumFunctionOnSet(f, S) + SumFunctionOnSet(f, T)
<1> DEFINE Bad == {w \in SUBSET S :
                    SumFunctionOnSet(f, w \cup T) # SumFunctionOnSet(f, w) + SumFunctionOnSet(f, T)}
<1>1. SUFFICES ASSUME Bad # {} PROVE FALSE
  BY DEF Bad
<1>2. PICK u \in Bad : \A v \in Bad : v \subseteq u => v = u
  <2>1. Bad \subseteq SUBSET S
    OBVIOUS
  <2> HIDE DEF Bad
  <2> QED BY <1>1, <2>1, SmallestSubset
<1>3. /\ u \in SUBSET S /\ IsFiniteSet(u)
      /\ SumFunctionOnSet(f, u \cup T) # SumFunctionOnSet(f, u) + SumFunctionOnSet(f, T)
  BY <1>2, FS_Subset
<1>4. SumFunctionOnSet(f, T) \in Nat
  BY SumNat
<1>5. u # {}
  <2>1. SumFunctionOnSet(f, {}) = 0
    BY SumEmpty
  <2>2. {} \cup T = T
    OBVIOUS
  <2>3. u = {} => SumFunctionOnSet(f, u \cup T) = SumFunctionOnSet(f, T) /\ SumFunctionOnSet(f, u) = 0
    BY <2>1, <2>2, Zenon
  <2> HIDE DEF Bad
  <2> QED BY <1>3, <1>4, <2>3
<1> DEFINE c == First(u)
           w == u \ {c}
<1>6. c \in u
  BY <1>5, FirstIn
<1> HIDE DEF c
<1>7. SumFunctionOnSet(f, w \cup T) = SumFunctionOnSet(f, w) + SumFunctionOnSet(f, T)
  BY <1>2, <1>3, <1>6
<1>8. SumFunctionOnSet(f, u) = f[c] + SumFunctionOnSet(f, w)
  BY <1>3, <1>6, SumRemove
<1>9. SumFunctionOnSet(f, u \cup T) = f[c] + SumFunctionOnSet(f, w \cup T)
  <2>1. IsFiniteSet(u \cup T) /\ c \in u \cup T /\ \A x \in u \cup T : f[x] \in Nat
    BY <1>3, <1>6, FS_Union
  <2>2. (u \cup T) \ {c} = w \cup T
    BY <1>3, <1>6
  <2> QED BY <2>1, <2>2, SumRemove
<1>10. IsFiniteSet(w) /\ \A x \in w : f[x] \in Nat
  BY <1>3, FS_Subset
<1> HIDE DEF w
<1>11. SumFunctionOnSet(f, w) \in Nat /\ f[c] \in Nat
  BY <1>10, <1>3, <1>6, SumNat
<1> QED BY <1>3, <1>4, <1>7, <1>8, <1>9, <1>11

\* A larger set, a larger sum.
THEOREM SumSubset ==
  ASSUME NEW f, NEW S, IsFiniteSet(S), NEW T \in SUBSET S, \A x \in S : f[x] \in Nat
  PROVE  SumFunctionOnSet(f, T) <= SumFunctionOnSet(f, S)
<1> DEFINE R == S \ T
<1>1. IsFiniteSet(T) /\ IsFiniteSet(R) /\ T \cap R = {} /\ T \cup R = S
  BY FS_Subset
<1> HIDE DEF R
<1>2. SumFunctionOnSet(f, S) = SumFunctionOnSet(f, T) + SumFunctionOnSet(f, R)
  <2>1. \A x \in T \cup R : f[x] \in Nat
    BY <1>1
  <2>2. SumFunctionOnSet(f, T \cup R) = SumFunctionOnSet(f, T) + SumFunctionOnSet(f, R)
    BY <1>1, <2>1, SumDisjoint
  <2> QED BY <1>1, <2>2
<1>3. (\A x \in T : f[x] \in Nat) /\ (\A x \in R : f[x] \in Nat)
  BY <1>1
<1>4. SumFunctionOnSet(f, T) \in Nat /\ SumFunctionOnSet(f, R) \in Nat
  BY <1>1, <1>3, SumNat
<1> QED BY <1>2, <1>4

\* What is summed term by term is summed.
THEOREM SumPlus ==
  ASSUME NEW f, NEW g, NEW h, NEW S, IsFiniteSet(S),
         \A x \in S : f[x] \in Nat /\ g[x] \in Nat /\ h[x] = f[x] + g[x]
  PROVE  SumFunctionOnSet(h, S) = SumFunctionOnSet(f, S) + SumFunctionOnSet(g, S)
<1> DEFINE Bad == {w \in SUBSET S :
                    SumFunctionOnSet(h, w) # SumFunctionOnSet(f, w) + SumFunctionOnSet(g, w)}
<1>1. SUFFICES ASSUME Bad # {} PROVE FALSE
  BY DEF Bad
<1>2. PICK u \in Bad : \A v \in Bad : v \subseteq u => v = u
  <2>1. Bad \subseteq SUBSET S
    OBVIOUS
  <2> HIDE DEF Bad
  <2> QED BY <1>1, <2>1, SmallestSubset
<1>3. /\ u \in SUBSET S /\ IsFiniteSet(u)
      /\ SumFunctionOnSet(h, u) # SumFunctionOnSet(f, u) + SumFunctionOnSet(g, u)
  BY <1>2, FS_Subset
<1>4. u # {}
  <2>1. SumFunctionOnSet(f, {}) = 0 /\ SumFunctionOnSet(g, {}) = 0 /\ SumFunctionOnSet(h, {}) = 0
    BY SumEmpty, Zenon
  <2>2. u = {} => /\ SumFunctionOnSet(f, u) = 0 /\ SumFunctionOnSet(g, u) = 0
                  /\ SumFunctionOnSet(h, u) = 0
    BY <2>1, Zenon
  <2> HIDE DEF Bad
  <2> QED BY <1>3, <2>2
<1> DEFINE c == First(u)
           w == u \ {c}
<1>5. c \in u
  BY <1>4, FirstIn
<1>6. SumFunctionOnSet(h, w) = SumFunctionOnSet(f, w) + SumFunctionOnSet(g, w)
  BY <1>2, <1>3, <1>5
<1>7. /\ SumFunctionOnSet(f, u) = f[c] + SumFunctionOnSet(f, w)
      /\ SumFunctionOnSet(g, u) = g[c] + SumFunctionOnSet(g, w)
      /\ SumFunctionOnSet(h, u) = h[c] + SumFunctionOnSet(h, w)
  BY <1>3, <1>4, SumFirst, Zenon
<1>8. IsFiniteSet(w) /\ (\A x \in w : f[x] \in Nat) /\ (\A x \in w : g[x] \in Nat)
  BY <1>3, FS_Subset
<1> HIDE DEF w
<1>9. SumFunctionOnSet(f, w) \in Nat /\ SumFunctionOnSet(g, w) \in Nat
  BY <1>8, SumNat
<1>10. f[c] \in Nat /\ g[c] \in Nat /\ h[c] = f[c] + g[c]
  BY <1>3, <1>5
<1> HIDE DEF c
<1> QED BY <1>3, <1>6, <1>7, <1>9, <1>10

LEMMA TimesPlus == ASSUME NEW k \in Nat, NEW a \in Nat, NEW b \in Nat PROVE k * (a + b) = k * a + k * b
OBVIOUS

\* A common factor comes out of a sum.
THEOREM SumTimes ==
  ASSUME NEW f, NEW h, NEW k \in Nat, NEW S, IsFiniteSet(S),
         \A x \in S : f[x] \in Nat /\ h[x] = k * f[x]
  PROVE  SumFunctionOnSet(h, S) = k * SumFunctionOnSet(f, S)
<1> DEFINE Bad == {w \in SUBSET S : SumFunctionOnSet(h, w) # k * SumFunctionOnSet(f, w)}
<1>1. SUFFICES ASSUME Bad # {} PROVE FALSE
  BY DEF Bad
<1>2. PICK u \in Bad : \A v \in Bad : v \subseteq u => v = u
  <2>1. Bad \subseteq SUBSET S
    OBVIOUS
  <2> HIDE DEF Bad
  <2> QED BY <1>1, <2>1, SmallestSubset
<1>3. u \in SUBSET S /\ IsFiniteSet(u) /\ SumFunctionOnSet(h, u) # k * SumFunctionOnSet(f, u)
  BY <1>2, FS_Subset
<1>4. u # {}
  <2>1. SumFunctionOnSet(f, {}) = 0 /\ SumFunctionOnSet(h, {}) = 0
    BY SumEmpty, Zenon
  <2>2. u = {} => SumFunctionOnSet(f, u) = 0 /\ SumFunctionOnSet(h, u) = 0
    BY <2>1, Zenon
  <2>3. k * 0 = 0
    OBVIOUS
  <2> HIDE DEF Bad
  <2> QED BY <1>3, <2>2, <2>3
<1> DEFINE c == First(u)
           w == u \ {c}
<1>5. c \in u
  BY <1>4, FirstIn
<1>6. SumFunctionOnSet(h, w) = k * SumFunctionOnSet(f, w)
  BY <1>2, <1>3, <1>5
<1>7. /\ SumFunctionOnSet(f, u) = f[c] + SumFunctionOnSet(f, w)
      /\ SumFunctionOnSet(h, u) = h[c] + SumFunctionOnSet(h, w)
  BY <1>3, <1>4, SumFirst, Zenon
<1>8. IsFiniteSet(w) /\ (\A x \in w : f[x] \in Nat)
  BY <1>3, FS_Subset
<1> HIDE DEF w
<1>9. SumFunctionOnSet(f, w) \in Nat
  BY <1>8, SumNat
<1>10. f[c] \in Nat /\ h[c] = k * f[c]
  BY <1>3, <1>5
<1> HIDE DEF c
<1>11. k * (f[c] + SumFunctionOnSet(f, w)) = k * f[c] + k * SumFunctionOnSet(f, w)
  BY <1>9, <1>10, TimesPlus
<1> QED BY <1>3, <1>6, <1>7, <1>10, <1>11

\* Two sets together sum to no more than each by itself.
THEOREM SumUnion ==
  ASSUME NEW f, NEW S, NEW T, IsFiniteSet(S), IsFiniteSet(T), \A x \in S \cup T : f[x] \in Nat
  PROVE  SumFunctionOnSet(f, S \cup T) <= SumFunctionOnSet(f, S) + SumFunctionOnSet(f, T)
<1> DEFINE R == T \ S
<1>1. IsFiniteSet(R) /\ S \cap R = {} /\ S \cup R = S \cup T /\ R \in SUBSET T
  BY FS_Subset
<1> HIDE DEF R
<1>2. (\A x \in S : f[x] \in Nat) /\ (\A x \in R : f[x] \in Nat) /\ (\A x \in T : f[x] \in Nat)
  BY <1>1
<1>3. SumFunctionOnSet(f, S \cup R) = SumFunctionOnSet(f, S) + SumFunctionOnSet(f, R)
  BY <1>1, <1>2, SumDisjoint
<1>4. SumFunctionOnSet(f, R) <= SumFunctionOnSet(f, T)
  BY <1>1, <1>2, SumSubset
<1>5. SumFunctionOnSet(f, S) \in Nat /\ SumFunctionOnSet(f, R) \in Nat /\ SumFunctionOnSet(f, T) \in Nat
  BY <1>1, <1>2, SumNat
<1>6. SumFunctionOnSet(f, S \cup T) = SumFunctionOnSet(f, S \cup R)
  BY <1>1, Zenon
<1> QED BY <1>3, <1>4, <1>5, <1>6

\* A sum of zeros.
THEOREM SumZero ==
  ASSUME NEW f, NEW S, IsFiniteSet(S), \A x \in S : f[x] = 0
  PROVE  SumFunctionOnSet(f, S) = 0
<1>1. SumFunctionOnSet(f, S) \in Nat
  BY SumNat
<1>2. SumFunctionOnSet(f, S) = SumFunctionOnSet(f, S) + SumFunctionOnSet(f, S)
  BY SumPlus
<1> QED BY <1>1, <1>2

----------------------------------------------------------------------------
(* The smallest and the largest of some numbers                            *)

LEMMA MinIs ==
  ASSUME NEW S \in SUBSET Nat, S # {}
  PROVE  Min(S) \in S /\ \A y \in S : Min(S) <= y
<1>1. PICK n \in S : TRUE
  OBVIOUS
<1> DEFINE All  == 0..n
           UpTo == {0..x : x \in {y \in S : y <= n}}
<1>2. UpTo \subseteq SUBSET All /\ UpTo # {}
  BY <1>1
<1>3. IsFiniteSet(All)
  BY FS_Interval
<1>4. PICK U \in UpTo : \A V \in UpTo : V \subseteq U => V = U
  <2> HIDE DEF All, UpTo
  <2> QED
    BY <1>2, <1>3, SmallestSubset
<1>5. PICK x \in S : x <= n /\ U = 0..x
  BY <1>4
<1>6. ASSUME NEW y \in S PROVE x <= y
  <2>1. CASE y > x
    BY <2>1
  <2>2. CASE y <= x
    <3>1. 0..y \in UpTo
      BY <2>2, <1>5
    <3>2. 0..y \subseteq 0..x
      BY <2>2, <1>5
    <3>3. 0..y = 0..x
      BY <3>1, <3>2, <1>4, <1>5
    <3>4. x \in 0..y
      BY <3>3
    <3> QED
      BY <3>4
  <2> QED
    BY <2>1, <2>2
<1> QED
  BY <1>6 DEF Min

LEMMA MinOfTwo ==
  ASSUME NEW a \in Nat, NEW b \in Nat
  PROVE  Min({a, b}) \in {a, b} /\ Min({a, b}) <= a /\ Min({a, b}) <= b
BY MinIs

LEMMA MaxOfTwo ==
  ASSUME NEW a \in Nat, NEW b \in Nat
  PROVE  Max({a, b}) \in {a, b} /\ a <= Max({a, b}) /\ b <= Max({a, b})
<1>1. \E x \in {a, b} : \A y \in {a, b} : x >= y
  OBVIOUS
<1> QED
  BY <1>1 DEF Max

=============================================================================
