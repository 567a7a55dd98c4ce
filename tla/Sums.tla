-------------------------------- MODULE Sums --------------------------------
(***************************************************************************)
(* Sums over finite sets of rows: SumFunctionOnSet and SumFunction of the  *)
(* community module Functions fold over the set in an order they choose;   *)
(* here are the facts that make them sums, whatever the order.             *)
(*                                                                         *)
(* Each is proved for all subsets of a finite set by looking at a smallest *)
(* one for which it fails.                                                 *)
(***************************************************************************)
EXTENDS Integers, Functions, FiniteSetTheorems, TLAPS

\* The element a fold takes out of s first.
Pick(s) == CHOOSE x \in s : TRUE

\* g is the fold of f over the subsets of S.
IsFold(g, f, S) ==
  g = [s \in SUBSET S |-> IF s = {} THEN 0 ELSE f[Pick(s)] + g[s \ {Pick(s)}]]

Adds(f, S) == \A x \in S : f[x] \in Int

-----------------------------------------------------------------------------
(* The fold exists and is unique *)

LEMMA PickIsElement == ASSUME NEW s, s # {} PROVE Pick(s) \in s
BY DEF Pick

LEMMA Smallest ==
  ASSUME NEW S, IsFiniteSet(S), NEW T, T \subseteq SUBSET S, T # {}
  PROVE  \E x \in T : \A y \in T : y \subseteq x => y = x
<1>1. FiniteSubsetsOf(S) = SUBSET S
  BY FS_FiniteSubsetsOfFinite
<1>2. IsWellFoundedOn(StrictSubsetOrdering(S), SUBSET S)
  BY <1>1, FS_StrictSubsetOrderingWellFounded
<1>3. PICK x \in T : \A y \in T : <<y, x>> \notin StrictSubsetOrdering(S)
  BY <1>2, WFMin
<1>4. \A y \in T : y \subseteq x => y = x
  BY <1>3, Zenon DEF StrictSubsetOrdering
<1> QED BY <1>4

LEMMA SumIsFold ==
  ASSUME NEW f, NEW S
  PROVE  SumFunctionOnSet(f, S) = (CHOOSE g : IsFold(g, f, S))[S]
BY DEF SumFunctionOnSet, FoldFunctionOnSet, MapThenFoldSet, IsFold, Pick

LEMMA FoldStep ==
  ASSUME NEW g, NEW f, NEW S, IsFold(g, f, S), NEW s \in SUBSET S
  PROVE  g[s] = IF s = {} THEN 0 ELSE f[Pick(s)] + g[s \ {Pick(s)}]
BY Zenon DEF IsFold

\* Folds over different sets agree where both are defined.
LEMMA FoldsAgree ==
  ASSUME NEW S, IsFiniteSet(S), NEW U \in SUBSET S, NEW f, NEW g, NEW h, IsFold(g, f, S), IsFold(h, f, U)
  PROVE  g[U] = h[U]
<1> DEFINE Bad == {s \in SUBSET U : g[s] # h[s]}
<1>1. SUFFICES ASSUME Bad # {} PROVE FALSE
  OBVIOUS
<1>2. PICK s \in Bad : \A y \in Bad : y \subseteq s => y = s
  <2>1. Bad \subseteq SUBSET S
    OBVIOUS
  <2> HIDE DEF Bad
  <2> QED BY <1>1, <2>1, Smallest
<1>3. s \in SUBSET U /\ s \in SUBSET S /\ g[s] # h[s]
  OBVIOUS
<1>4. /\ g[s] = IF s = {} THEN 0 ELSE f[Pick(s)] + g[s \ {Pick(s)}]
      /\ h[s] = IF s = {} THEN 0 ELSE f[Pick(s)] + h[s \ {Pick(s)}]
  BY <1>3, FoldStep
<1>5. s # {}
  BY <1>3, <1>4
<1>6. Pick(s) \in s
  BY <1>5, PickIsElement
<1>7. g[s \ {Pick(s)}] = h[s \ {Pick(s)}]
  BY <1>2, <1>3, <1>6
<1> QED BY <1>3, <1>4, <1>5, <1>7

LEMMA FoldExists ==
  ASSUME NEW S, IsFiniteSet(S), NEW f
  PROVE  \E g : IsFold(g, f, S)
<1> DEFINE Bad == {s \in SUBSET S : ~ \E g : IsFold(g, f, s)}
<1>1. SUFFICES ASSUME Bad # {} PROVE FALSE
  OBVIOUS
<1>2. PICK s \in Bad : \A y \in Bad : y \subseteq s => y = s
  <2>1. Bad \subseteq SUBSET S
    OBVIOUS
  <2> HIDE DEF Bad
  <2> QED BY <1>1, <2>1, Smallest
<1> DEFINE G(u) == CHOOSE g : IsFold(g, f, u)
           Rest(u) == u \ {Pick(u)}
           h == [u \in SUBSET s |-> IF u = {} THEN 0 ELSE f[Pick(u)] + G(Rest(u))[Rest(u)]]
<1>3. s \in SUBSET S /\ ~ \E g : IsFold(g, f, s)
  OBVIOUS
<1>4. \A u \in SUBSET s : u # s => IsFold(G(u), f, u)
  <2> SUFFICES ASSUME NEW u \in SUBSET s, u # s PROVE IsFold(G(u), f, u)
    OBVIOUS
  <2>1. u \in SUBSET S /\ u \notin Bad
    BY <1>2, <1>3
  <2>2. \E g : IsFold(g, f, u)
    BY <2>1
  <2> QED BY <2>2
<1>5. \A u \in SUBSET s : u # {} => Pick(u) \in u /\ Rest(u) \in SUBSET s /\ Rest(u) # s
  BY PickIsElement
<1>6. \A v \in SUBSET s : v # s => h[v] = G(v)[v]
  <2> SUFFICES ASSUME NEW v \in SUBSET s, v # s PROVE h[v] = G(v)[v]
    OBVIOUS
  <2>1. IsFold(G(v), f, v)
    BY <1>4
  <2>2. G(v)[v] = IF v = {} THEN 0 ELSE f[Pick(v)] + G(v)[Rest(v)]
    BY <2>1, FoldStep
  <2>3. CASE v = {}
    BY <2>2, <2>3
  <2>4. CASE v # {}
    <3>1. IsFold(G(Rest(v)), f, Rest(v)) /\ Rest(v) \in SUBSET v
      BY <1>4, <1>5, <2>4
    <3>2. IsFiniteSet(v)
      BY <1>3, FS_Subset
    <3>3. G(v)[Rest(v)] = G(Rest(v))[Rest(v)]
      <4> HIDE DEF G, Rest
      <4> QED BY <2>1, <3>1, <3>2, FoldsAgree
    <3> QED BY <2>2, <2>4, <3>3
  <2> QED BY <2>3, <2>4
<1>7. \A u \in SUBSET s : h[u] = IF u = {} THEN 0 ELSE f[Pick(u)] + h[Rest(u)]
  <2> SUFFICES ASSUME NEW u \in SUBSET s PROVE h[u] = IF u = {} THEN 0 ELSE f[Pick(u)] + h[Rest(u)]
    OBVIOUS
  <2>1. u # {} => h[Rest(u)] = G(Rest(u))[Rest(u)]
    BY <1>5, <1>6
  <2> HIDE DEF G, Rest
  <2> QED BY <2>1
<1>8. h = [u \in SUBSET s |-> h[u]]
  OBVIOUS
<1>9. IsFold(h, f, s)
  <2> HIDE DEF h
  <2> QED BY <1>7, <1>8 DEF IsFold
<1> QED BY <1>3, <1>9

LEMMA SumStep ==
  ASSUME NEW S, IsFiniteSet(S), NEW f
  PROVE  SumFunctionOnSet(f, S) = IF S = {} THEN 0 ELSE f[Pick(S)] + SumFunctionOnSet(f, S \ {Pick(S)})
<1> DEFINE Rest == S \ {Pick(S)}
           G(u) == CHOOSE g : IsFold(g, f, u)
<1>1. IsFold(G(S), f, S) /\ SumFunctionOnSet(f, S) = G(S)[S]
  BY FoldExists, SumIsFold
<1>2. IsFold(G(Rest), f, Rest) /\ SumFunctionOnSet(f, Rest) = G(Rest)[Rest]
  BY FoldExists, SumIsFold, FS_Subset
<1>3. G(S)[S] = IF S = {} THEN 0 ELSE f[Pick(S)] + G(S)[Rest]
  BY <1>1, FoldStep
<1>4. G(S)[Rest] = G(Rest)[Rest]
  <2>1. Rest \in SUBSET S
    OBVIOUS
  <2> HIDE DEF G, Rest
  <2> QED BY <1>1, <1>2, <2>1, FoldsAgree
<1> QED BY <1>1, <1>2, <1>3, <1>4

-----------------------------------------------------------------------------
(* Sums *)

LEMMA SumOfNone == ASSUME NEW f PROVE SumFunctionOnSet(f, {}) = 0
BY SumStep, FS_EmptySet

LEMMA SumType ==
  ASSUME NEW S, IsFiniteSet(S), NEW f, Adds(f, S)
  PROVE  SumFunctionOnSet(f, S) \in Int
<1> DEFINE Bad == {s \in SUBSET S : SumFunctionOnSet(f, s) \notin Int}
<1>1. SUFFICES ASSUME Bad # {} PROVE FALSE
  OBVIOUS
<1>2. PICK s \in Bad : \A y \in Bad : y \subseteq s => y = s
  <2>1. Bad \subseteq SUBSET S
    OBVIOUS
  <2> HIDE DEF Bad
  <2> QED BY <1>1, <2>1, Smallest
<1>3. s \in SUBSET S /\ IsFiniteSet(s) /\ SumFunctionOnSet(f, s) \notin Int
  BY FS_Subset
<1>4. s # {}
  BY <1>3, SumOfNone
<1>5. Pick(s) \in s
  BY <1>4, PickIsElement
<1>6. SumFunctionOnSet(f, s \ {Pick(s)}) \in Int
  BY <1>2, <1>3, <1>5
<1>7. f[Pick(s)] \in Int
  BY <1>3, <1>5 DEF Adds
<1> QED BY <1>3, <1>4, <1>6, <1>7, SumStep

(* A sum does not depend on the order: any element can be taken out first.  *)
THEOREM SumWithout ==
  ASSUME NEW S, IsFiniteSet(S), NEW f, Adds(f, S), NEW x \in S
  PROVE  SumFunctionOnSet(f, S) = f[x] + SumFunctionOnSet(f, S \ {x})
<1> DEFINE Sum(s) == SumFunctionOnSet(f, s)
           Bad == {s \in SUBSET S : \E y \in s : Sum(s) # f[y] + Sum(s \ {y})}
<1>1. SUFFICES ASSUME Bad # {} PROVE FALSE
  OBVIOUS
<1>2. PICK s \in Bad : \A u \in Bad : u \subseteq s => u = s
  <2>1. Bad \subseteq SUBSET S
    OBVIOUS
  <2> HIDE DEF Bad
  <2> QED BY <1>1, <2>1, Smallest
<1>3. s \in SUBSET S /\ IsFiniteSet(s)
  BY FS_Subset
<1>4. PICK y \in s : Sum(s) # f[y] + Sum(s \ {y})
  OBVIOUS
<1>5. PICK p : p = Pick(s)
  OBVIOUS
<1>6. p \in s /\ Sum(s) = f[p] + Sum(s \ {p})
  BY <1>3, <1>5, PickIsElement, SumStep
<1>7. \A u \in SUBSET s : u # s => \A z \in u : Sum(u) = f[z] + Sum(u \ {z})
  BY <1>2, <1>3
<1>8. p # y
  BY <1>4, <1>6
<1>9. Sum(s \ {p}) = f[y] + Sum((s \ {p}) \ {y}) /\ Sum(s \ {y}) = f[p] + Sum((s \ {y}) \ {p})
  BY <1>4, <1>6, <1>7, <1>8
<1>10. (s \ {p}) \ {y} = (s \ {y}) \ {p}
  OBVIOUS
<1>11. f[p] \in Int /\ f[y] \in Int /\ Sum((s \ {p}) \ {y}) \in Int
  <2>1. Adds(f, (s \ {p}) \ {y}) /\ IsFiniteSet((s \ {p}) \ {y})
    BY <1>3, FS_Subset DEF Adds
  <2> QED BY <1>3, <1>4, <1>6, <2>1, SumType DEF Adds
<1>12. PICK a \in Int : a = Sum((s \ {p}) \ {y})
  BY <1>11
<1>13. Sum(s) = f[p] + (f[y] + a) /\ Sum(s \ {y}) = f[p] + a
  BY <1>6, <1>9, <1>10, <1>12
<1>14. f[p] + (f[y] + a) = f[y] + (f[p] + a)
  BY <1>11
<1> HIDE DEF Sum
<1> QED BY <1>4, <1>13, <1>14

LEMMA SumWith ==
  ASSUME NEW S, IsFiniteSet(S), NEW x, x \notin S, NEW f, Adds(f, S \cup {x})
  PROVE  SumFunctionOnSet(f, S \cup {x}) = SumFunctionOnSet(f, S) + f[x]
<1>1. IsFiniteSet(S \cup {x}) /\ (S \cup {x}) \ {x} = S /\ x \in S \cup {x}
  BY FS_AddElement
<1>2. SumFunctionOnSet(f, S \cup {x}) = f[x] + SumFunctionOnSet(f, S)
  BY <1>1, SumWithout
<1>3. f[x] \in Int /\ SumFunctionOnSet(f, S) \in Int
  BY SumType DEF Adds
<1> QED BY <1>2, <1>3

LEMMA SumAgrees ==
  ASSUME NEW S, IsFiniteSet(S), NEW f, NEW g, \A x \in S : f[x] = g[x]
  PROVE  SumFunctionOnSet(f, S) = SumFunctionOnSet(g, S)
<1> DEFINE Bad == {s \in SUBSET S : SumFunctionOnSet(f, s) # SumFunctionOnSet(g, s)}
<1>1. SUFFICES ASSUME Bad # {} PROVE FALSE
  OBVIOUS
<1>2. PICK s \in Bad : \A y \in Bad : y \subseteq s => y = s
  <2>1. Bad \subseteq SUBSET S
    OBVIOUS
  <2> HIDE DEF Bad
  <2> QED BY <1>1, <2>1, Smallest
<1>3. s \in SUBSET S /\ IsFiniteSet(s) /\ SumFunctionOnSet(f, s) # SumFunctionOnSet(g, s)
  BY FS_Subset
<1>4. s # {}
  BY <1>3, SumOfNone
<1>5. Pick(s) \in s
  BY <1>4, PickIsElement
<1>6. SumFunctionOnSet(f, s \ {Pick(s)}) = SumFunctionOnSet(g, s \ {Pick(s)}) /\ f[Pick(s)] = g[Pick(s)]
  BY <1>2, <1>3, <1>5
<1> QED BY <1>3, <1>4, <1>6, SumStep

LEMMA SumNat ==
  ASSUME NEW S, IsFiniteSet(S), NEW f, \A x \in S : f[x] \in Nat
  PROVE  SumFunctionOnSet(f, S) \in Nat
<1> DEFINE Bad == {s \in SUBSET S : SumFunctionOnSet(f, s) \notin Nat}
<1>1. SUFFICES ASSUME Bad # {} PROVE FALSE
  OBVIOUS
<1>2. PICK s \in Bad : \A y \in Bad : y \subseteq s => y = s
  <2>1. Bad \subseteq SUBSET S
    OBVIOUS
  <2> HIDE DEF Bad
  <2> QED BY <1>1, <2>1, Smallest
<1>3. s \in SUBSET S /\ IsFiniteSet(s) /\ SumFunctionOnSet(f, s) \notin Nat
  BY FS_Subset
<1>4. s # {}
  BY <1>3, SumOfNone
<1>5. Pick(s) \in s
  BY <1>4, PickIsElement
<1>6. SumFunctionOnSet(f, s \ {Pick(s)}) \in Nat /\ f[Pick(s)] \in Nat
  BY <1>2, <1>3, <1>5
<1>7. SumFunctionOnSet(f, s) = f[Pick(s)] + SumFunctionOnSet(f, s \ {Pick(s)})
  BY <1>3, <1>4, SumStep
<1> QED BY <1>3, <1>6, <1>7

(* g adds the increments d to the elements of B.                             *)
LEMMA SumIncrease ==
  ASSUME NEW S, IsFiniteSet(S), NEW B \in SUBSET S, NEW f, Adds(f, S), NEW d, Adds(d, B),
         NEW g, \A x \in S : g[x] = IF x \in B THEN f[x] + d[x] ELSE f[x]
  PROVE  SumFunctionOnSet(g, S) = SumFunctionOnSet(f, S) + SumFunctionOnSet(d, B)
<1> DEFINE Good(s) == SumFunctionOnSet(g, s) = SumFunctionOnSet(f, s) + SumFunctionOnSet(d, s \cap B)
           Bad == {s \in SUBSET S : ~ Good(s)}
<1>1. SUFFICES ASSUME Bad # {} PROVE FALSE
  <2>1. S \cap B = B /\ S \in SUBSET S
    OBVIOUS
  <2> QED BY <1>1, <2>1
<1>2. PICK s \in Bad : \A y \in Bad : y \subseteq s => y = s
  <2>1. Bad \subseteq SUBSET S
    OBVIOUS
  <2> HIDE DEF Bad
  <2> QED BY <1>1, <2>1, Smallest
<1>3. s \in SUBSET S /\ IsFiniteSet(s) /\ ~ Good(s)
  BY FS_Subset
<1>4. s # {}
  <2>1. Good({})
    <3>1. {} \cap B = {}
      OBVIOUS
    <3> QED BY <3>1, SumOfNone
  <2> QED BY <1>3, <2>1
<1>5. PICK p \in s : p = Pick(s)
  BY <1>4, PickIsElement
<1>6. PICK t : t = s \ {p}
  OBVIOUS
<1>7. t \in SUBSET S /\ p \notin t /\ s = t \cup {p} /\ IsFiniteSet(t) /\ IsFiniteSet(t \cap B) /\ Good(t)
  BY <1>2, <1>3, <1>6, FS_Subset
<1>8. SumFunctionOnSet(g, s) = g[p] + SumFunctionOnSet(g, t) /\ SumFunctionOnSet(f, s) = f[p] + SumFunctionOnSet(f, t)
  BY <1>3, <1>4, <1>5, <1>6, SumStep
<1>9. PICK a \in Int, b \in Int : a = SumFunctionOnSet(f, t) /\ b = SumFunctionOnSet(d, t \cap B)
  BY <1>7, SumType DEF Adds
<1>10. SumFunctionOnSet(g, t) = a + b /\ f[p] \in Int
  BY <1>3, <1>5, <1>7, <1>9 DEF Adds
<1>11. CASE p \in B
  <2>1. s \cap B = (t \cap B) \cup {p} /\ p \notin t \cap B
    BY <1>7, <1>11
  <2>2. Adds(d, (t \cap B) \cup {p}) /\ d[p] \in Int
    BY <1>11 DEF Adds
  <2>3. SumFunctionOnSet(d, (t \cap B) \cup {p}) = SumFunctionOnSet(d, t \cap B) + d[p]
    BY <1>7, <2>1, <2>2, SumWith
  <2>4. SumFunctionOnSet(d, s \cap B) = b + d[p]
    BY <1>9, <2>1, <2>3
  <2>5. g[p] = f[p] + d[p]
    BY <1>3, <1>5, <1>11
  <2>6. SumFunctionOnSet(g, s) = (f[p] + d[p]) + (a + b) /\ SumFunctionOnSet(f, s) = f[p] + a
    BY <1>8, <1>9, <1>10, <2>5
  <2> QED BY <1>3, <1>10, <2>2, <2>4, <2>6
<1>12. CASE p \notin B
  <2>1. s \cap B = t \cap B
    BY <1>7, <1>12
  <2>2. g[p] = f[p]
    BY <1>3, <1>5, <1>12
  <2>3. SumFunctionOnSet(g, s) = f[p] + (a + b) /\ SumFunctionOnSet(f, s) = f[p] + a
    BY <1>8, <1>9, <1>10, <2>2
  <2>4. SumFunctionOnSet(d, s \cap B) = b
    BY <1>9, <2>1
  <2>5. f[p] + (a + b) = (f[p] + a) + b
    BY <1>10
  <2> QED BY <1>3, <2>3, <2>4, <2>5
<1> QED BY <1>11, <1>12

LEMMA SumOfUnion ==
  ASSUME NEW A, IsFiniteSet(A), NEW B, IsFiniteSet(B), A \cap B = {}, NEW f, Adds(f, A \cup B)
  PROVE  SumFunctionOnSet(f, A \cup B) = SumFunctionOnSet(f, A) + SumFunctionOnSet(f, B)
<1> DEFINE Good(s) == SumFunctionOnSet(f, A \cup s) = SumFunctionOnSet(f, A) + SumFunctionOnSet(f, s)
           Bad == {s \in SUBSET B : ~ Good(s)}
<1>1. SUFFICES ASSUME Bad # {} PROVE FALSE
  <2>1. B \in SUBSET B
    OBVIOUS
  <2> QED BY <1>1, <2>1
<1>2. PICK s \in Bad : \A y \in Bad : y \subseteq s => y = s
  <2>1. Bad \subseteq SUBSET B
    OBVIOUS
  <2> HIDE DEF Bad
  <2> QED BY <1>1, <2>1, Smallest
<1>3. s \in SUBSET B /\ IsFiniteSet(s) /\ ~ Good(s)
  BY FS_Subset
<1>4. SumFunctionOnSet(f, A) \in Int
  BY SumType DEF Adds
<1>5. s # {}
  <2>1. A \cup {} = A
    OBVIOUS
  <2> QED BY <1>3, <1>4, <2>1, SumOfNone
<1>6. PICK p \in s : p = Pick(s)
  BY <1>5, PickIsElement
<1>7. PICK t : t = s \ {p}
  OBVIOUS
<1>8. /\ t \in SUBSET B /\ p \notin t /\ s = t \cup {p} /\ IsFiniteSet(t) /\ Good(t)
      /\ IsFiniteSet(A \cup t) /\ p \notin A \cup t /\ A \cup s = (A \cup t) \cup {p}
  <2>1. t \in SUBSET B /\ p \notin t /\ s = t \cup {p} /\ p \notin A \cup t /\ A \cup s = (A \cup t) \cup {p}
    BY <1>3, <1>6, <1>7
  <2>2. IsFiniteSet(t) /\ IsFiniteSet(A \cup t)
    BY <2>1, FS_Subset, FS_Union
  <2>3. Good(t)
    BY <1>2, <1>6, <1>7, <2>1
  <2> QED BY <2>1, <2>2, <2>3
<1>9. SumFunctionOnSet(f, s) = SumFunctionOnSet(f, t) + f[p]
  BY <1>3, <1>8, SumWith DEF Adds
<1>10. SumFunctionOnSet(f, (A \cup t) \cup {p}) = SumFunctionOnSet(f, A \cup t) + f[p]
  BY <1>3, <1>8, SumWith DEF Adds
<1>11. f[p] \in Int /\ SumFunctionOnSet(f, t) \in Int
  BY <1>3, <1>8, SumType DEF Adds
<1>12. PICK a \in Int, b \in Int : a = SumFunctionOnSet(f, A) /\ b = SumFunctionOnSet(f, t)
  BY <1>4, <1>11
<1>13. SumFunctionOnSet(f, A \cup s) = (a + b) + f[p] /\ SumFunctionOnSet(f, s) = b + f[p]
  BY <1>8, <1>9, <1>10, <1>12
<1> QED BY <1>3, <1>11, <1>12, <1>13

LEMMA SumOfPart ==
  ASSUME NEW S, IsFiniteSet(S), NEW T \in SUBSET S, NEW f, \A x \in S : f[x] \in Nat
  PROVE  SumFunctionOnSet(f, T) <= SumFunctionOnSet(f, S)
<1>1. IsFiniteSet(T) /\ IsFiniteSet(S \ T) /\ T \cup (S \ T) = S /\ T \cap (S \ T) = {} /\ Adds(f, S)
  BY FS_Subset DEF Adds
<1>2. SumFunctionOnSet(f, T) \in Nat /\ SumFunctionOnSet(f, S \ T) \in Nat
  BY <1>1, SumNat
<1>3. SumFunctionOnSet(f, S) = SumFunctionOnSet(f, T) + SumFunctionOnSet(f, S \ T)
  BY <1>1, SumOfUnion
<1> QED BY <1>2, <1>3

(* Each x of S has a part of its own, worth at most g[x].                    *)
LEMMA SumOfParts ==
  ASSUME NEW S, IsFiniteSet(S), NEW Part, \A x \in S : IsFiniteSet(Part[x]),
         \A x, y \in S : x # y => Part[x] \cap Part[y] = {},
         NEW f, \A x \in S : Adds(f, Part[x]),
         NEW g, \A x \in S : g[x] \in Int /\ SumFunctionOnSet(f, Part[x]) <= g[x]
  PROVE  SumFunctionOnSet(f, UNION {Part[x] : x \in S}) <= SumFunctionOnSet(g, S)
<1> DEFINE All(s) == UNION {Part[x] : x \in s}
           Good(s) == IsFiniteSet(All(s)) /\ SumFunctionOnSet(f, All(s)) <= SumFunctionOnSet(g, s)
           Bad == {s \in SUBSET S : ~ Good(s)}
<1>1. SUFFICES ASSUME Bad # {} PROVE FALSE
  <2>1. S \in SUBSET S
    OBVIOUS
  <2> QED BY <1>1, <2>1
<1>2. PICK s \in Bad : \A y \in Bad : y \subseteq s => y = s
  <2>1. Bad \subseteq SUBSET S
    OBVIOUS
  <2> HIDE DEF Bad
  <2> QED BY <1>1, <2>1, Smallest
<1>3. s \in SUBSET S /\ IsFiniteSet(s) /\ ~ Good(s)
  BY FS_Subset
<1>4. s # {}
  <2>1. All({}) = {}
    OBVIOUS
  <2>2. SumFunctionOnSet(f, {}) = 0 /\ SumFunctionOnSet(g, {}) = 0 /\ IsFiniteSet({})
    BY SumOfNone, FS_EmptySet
  <2>3. Good({})
    <3> HIDE DEF All
    <3> QED BY <2>1, <2>2
  <2> QED BY <1>3, <2>3
<1>5. PICK p \in s : p = Pick(s)
  BY <1>4, PickIsElement
<1>6. PICK t : t = s \ {p}
  OBVIOUS
<1>7. t \in SUBSET S /\ p \notin t /\ s = t \cup {p} /\ IsFiniteSet(t) /\ Good(t)
  <2>1. t \in SUBSET S /\ p \notin t /\ s = t \cup {p} /\ t \subseteq s /\ t # s
    BY <1>3, <1>6
  <2>2. IsFiniteSet(t)
    BY <1>3, <2>1, FS_Subset
  <2>3. t \notin Bad
    <3> HIDE DEF Bad
    <3> QED BY <1>2, <2>1
  <2>4. Good(t)
    <3> HIDE DEF Good
    <3> QED BY <2>1, <2>3
  <2> QED BY <2>1, <2>2, <2>4
<1>8. All(s) = All(t) \cup Part[p] /\ All(t) \cap Part[p] = {}
  <2>1. All(s) = All(t) \cup Part[p]
    BY <1>7
  <2>2. ASSUME NEW z \in All(t) \cap Part[p] PROVE FALSE
    <3>1. PICK x \in t : z \in Part[x]
      OBVIOUS
    <3>2. x # p /\ x \in S /\ p \in S
      BY <1>3, <1>7
    <3> QED BY <2>2, <3>1, <3>2
  <2> QED BY <2>1, <2>2
<1>9. IsFiniteSet(All(t)) /\ IsFiniteSet(Part[p]) /\ IsFiniteSet(All(s))
  <2>1. IsFiniteSet(All(t)) /\ IsFiniteSet(Part[p])
    BY <1>3, <1>7
  <2>2. IsFiniteSet(All(t) \cup Part[p])
    <3> HIDE DEF All
    <3> QED BY <2>1, FS_Union
  <2>3. IsFiniteSet(All(s))
    <3> HIDE DEF All
    <3> QED BY <1>8, <2>2, Zenon
  <2> QED BY <2>1, <2>3
<1>10. Adds(f, All(t)) /\ Adds(f, Part[p]) /\ Adds(f, All(s)) /\ Adds(g, t) /\ Adds(g, t \cup {p})
  BY <1>3, <1>7 DEF Adds
<1>11. SumFunctionOnSet(f, All(s)) = SumFunctionOnSet(f, All(t)) + SumFunctionOnSet(f, Part[p])
  <2> HIDE DEF All
  <2> QED BY <1>8, <1>9, <1>10, SumOfUnion
<1>12. SumFunctionOnSet(g, s) = SumFunctionOnSet(g, t) + g[p]
  BY <1>7, <1>10, SumWith
<1>13. /\ SumFunctionOnSet(f, All(t)) \in Int /\ SumFunctionOnSet(f, Part[p]) \in Int
       /\ SumFunctionOnSet(g, t) \in Int /\ g[p] \in Int
  <2> HIDE DEF All
  <2> QED BY <1>3, <1>5, <1>7, <1>9, <1>10, SumType
<1>14. SumFunctionOnSet(f, All(t)) <= SumFunctionOnSet(g, t) /\ SumFunctionOnSet(f, Part[p]) <= g[p]
  BY <1>3, <1>7
<1> HIDE DEF All
<1>15. SumFunctionOnSet(f, All(s)) <= SumFunctionOnSet(g, s)
  BY <1>11, <1>12, <1>13, <1>14
<1> QED BY <1>3, <1>9, <1>15

LEMMA SumOfOne ==
  ASSUME NEW f, NEW x, f[x] \in Int
  PROVE  SumFunctionOnSet(f, {x}) = f[x]
<1>1. IsFiniteSet({}) /\ Adds(f, {} \cup {x}) /\ {} \cup {x} = {x}
  BY FS_EmptySet DEF Adds
<1>2. SumFunctionOnSet(f, {} \cup {x}) = SumFunctionOnSet(f, {}) + f[x]
  BY <1>1, SumWith
<1> QED BY <1>1, <1>2, SumOfNone

(* The same for tables: one row more that counts for nothing, one row changed. *)
LEMMA SumOfLonger ==
  ASSUME NEW f, IsFiniteSet(DOMAIN f), Adds(f, DOMAIN f), NEW x, x \notin DOMAIN f,
         NEW g, DOMAIN g = DOMAIN f \cup {x}, g[x] = 0, \A y \in DOMAIN f : g[y] = f[y]
  PROVE  SumFunction(g) = SumFunction(f)
<1>1. Adds(g, DOMAIN f \cup {x})
  BY DEF Adds
<1>2. SumFunctionOnSet(g, DOMAIN f \cup {x}) = SumFunctionOnSet(g, DOMAIN f) + 0
  BY <1>1, SumWith
<1>3. SumFunctionOnSet(g, DOMAIN f) = SumFunctionOnSet(f, DOMAIN f)
  BY SumAgrees
<1>4. SumFunctionOnSet(f, DOMAIN f) \in Int
  BY SumType
<1> QED BY <1>2, <1>3, <1>4 DEF SumFunction

LEMMA SumOfChanged ==
  ASSUME NEW f, IsFiniteSet(DOMAIN f), Adds(f, DOMAIN f), NEW x \in DOMAIN f, NEW k \in Int,
         NEW g, DOMAIN g = DOMAIN f, g[x] = f[x] + k, \A y \in DOMAIN f \ {x} : g[y] = f[y]
  PROVE  SumFunction(g) = SumFunction(f) + k
<1> DEFINE d == [y \in {x} |-> k]
<1>1. Adds(d, {x}) /\ {x} \in SUBSET DOMAIN f
  BY DEF Adds
<1>2. \A y \in DOMAIN f : g[y] = IF y \in {x} THEN f[y] + d[y] ELSE f[y]
  OBVIOUS
<1>3. SumFunctionOnSet(d, {x}) = k
  BY SumOfOne
<1> HIDE DEF d
<1>4. SumFunctionOnSet(g, DOMAIN f) = SumFunctionOnSet(f, DOMAIN f) + SumFunctionOnSet(d, {x})
  BY <1>1, <1>2, SumIncrease
<1> QED BY <1>3, <1>4 DEF SumFunction

LEMMA SumOfIncreased ==
  ASSUME NEW f, IsFiniteSet(DOMAIN f), Adds(f, DOMAIN f), NEW d, DOMAIN d \subseteq DOMAIN f, Adds(d, DOMAIN d),
         NEW g, DOMAIN g = DOMAIN f, \A x \in DOMAIN f : g[x] = IF x \in DOMAIN d THEN f[x] + d[x] ELSE f[x]
  PROVE  SumFunction(g) = SumFunction(f) + SumFunction(d)
BY SumIncrease DEF SumFunction

=============================================================================
