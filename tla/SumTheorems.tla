----------------------------- MODULE SumTheorems -----------------------------
(***************************************************************************)
(* Sums over finite sets.  The ledgers of the protocol keep a running      *)
(* total beside the entries it stands for; their invariants say that the   *)
(* total is SumFunctionOnSet(entries, keys).  These facts say what that    *)
(* operator computes, and how a sum changes when one entry does.           *)
(*                                                                         *)
(* The operator is a recursive function over the subsets of the index set. *)
(* Every induction is over those subsets: a subset that violates a claim   *)
(* and has no violating proper subset leads to a contradiction.            *)
(***************************************************************************)
EXTENDS Integers, Functions, FiniteSetTheorems, WellFoundedInduction, TLAPS

Pick(T) == CHOOSE x \in T : TRUE

\* g satisfies the recursion of the sum of f over the subsets of S.
Sums(g, f, S) ==
  g = [T \in SUBSET S |-> IF T = {} THEN 0 ELSE f[Pick(T)] + g[T \ {Pick(T)}]]

LEMMA SumUnfold ==
  ASSUME NEW f, NEW S
  PROVE  SumFunctionOnSet(f, S) = (CHOOSE g : Sums(g, f, S))[S]
BY DEF SumFunctionOnSet, FoldFunctionOnSet, MapThenFoldSet, Sums, Pick

\* A family of subsets of a finite set has a member none of whose proper subsets belongs to it.
LEMMA MinimalSubset ==
  ASSUME NEW S, IsFiniteSet(S), NEW F \in SUBSET (SUBSET S), F # {}
  PROVE  \E T \in F : \A U \in SUBSET T : U # T => U \notin F
<1>1. IsWellFoundedOn(StrictSubsetOrdering(S), SUBSET S)
  BY FS_StrictSubsetOrderingWellFounded, FS_FiniteSubsetsOfFinite
<1>2. PICK T \in F : \A U \in F : ~ (<<U, T>> \in StrictSubsetOrdering(S))
  BY <1>1, WFMin
<1>3. ASSUME NEW U \in SUBSET T, U # T, U \in F
      PROVE  FALSE
  BY <1>2, <1>3 DEF StrictSubsetOrdering
<1> QED BY <1>3

LEMMA PickIn == ASSUME NEW T, T # {} PROVE Pick(T) \in T
BY DEF Pick

\* Two solutions of the recursion agree wherever both are defined.
LEMMA SumsAgree ==
  ASSUME NEW f, NEW R, NEW S, NEW g, NEW h, Sums(g, f, R), Sums(h, f, S),
         NEW U, U \subseteq R, U \subseteq S, IsFiniteSet(U)
  PROVE  g[U] = h[U]
<1> DEFINE F == {V \in SUBSET U : g[V] # h[V]}
<1>1. SUFFICES ASSUME F # {} PROVE FALSE
  OBVIOUS
<1>2. PICK V \in F : \A W \in SUBSET V : W # V => W \notin F
  <2> HIDE DEF F
  <2>1. F \in SUBSET (SUBSET U)
    BY DEF F
  <2> QED BY <1>1, <2>1, MinimalSubset
<1>3. V # {}
  BY <1>2 DEF Sums
<1> DEFINE W == V \ {Pick(V)}
<1>4. W \in SUBSET V /\ W # V
  BY <1>3, PickIn
<1>5. g[W] = h[W]
  BY <1>2, <1>4
<1>6. g[V] = f[Pick(V)] + g[W] /\ h[V] = f[Pick(V)] + h[W]
  BY <1>3, V \in SUBSET R, V \in SUBSET S DEF Sums
<1> QED BY <1>2, <1>5, <1>6

\* The recursion has a solution over every finite set.
LEMMA SumsExist ==
  ASSUME NEW f, NEW S, IsFiniteSet(S)
  PROVE  \E g : Sums(g, f, S)
<1> DEFINE F == {V \in SUBSET S : ~ \E g : Sums(g, f, V)}
           sum(V) == SumFunctionOnSet(f, V)
<1>1. SUFFICES ASSUME F # {} PROVE FALSE
  OBVIOUS
<1>2. PICK T \in F : \A U \in SUBSET T : U # T => U \notin F
  <2> HIDE DEF F
  <2>1. F \in SUBSET (SUBSET S)
    BY DEF F
  <2> QED BY <1>1, <2>1, MinimalSubset
<1>3. \A V \in SUBSET T : V # T => \E g : Sums(g, f, V) /\ sum(V) = g[V]
  <2>1. SUFFICES ASSUME NEW V \in SUBSET T, V # T
                 PROVE  \E g : Sums(g, f, V) /\ sum(V) = g[V]
    OBVIOUS
  <2>2. \E g : Sums(g, f, V)
    BY <1>2, <2>1
  <2>3. Sums((CHOOSE g : Sums(g, f, V)), f, V)
    BY <2>2
  <2> QED BY <2>3, SumUnfold
<1>4. \A V \in SUBSET T : IsFiniteSet(V)
  BY FS_Subset
<1>5. \A V \in SUBSET T : V # T => sum(V) = IF V = {} THEN 0 ELSE f[Pick(V)] + sum(V \ {Pick(V)})
  <2>1. SUFFICES ASSUME NEW V \in SUBSET T, V # T
                 PROVE  sum(V) = IF V = {} THEN 0 ELSE f[Pick(V)] + sum(V \ {Pick(V)})
    OBVIOUS
  <2>2. PICK g : Sums(g, f, V) /\ sum(V) = g[V]
    BY <1>3, <2>1
  <2>3. CASE V = {}
    BY <2>2, <2>3 DEF Sums
  <2>4. CASE V # {}
    <3> DEFINE W == V \ {Pick(V)}
    <3>1. W \in SUBSET T /\ W # T /\ W \subseteq V
      BY <2>4, PickIn
    <3>2. PICK h : Sums(h, f, W) /\ sum(W) = h[W]
      BY <1>3, <3>1
    <3>3. g[W] = h[W]
      BY <3>1, <3>2, <2>2, <1>4, SumsAgree
    <3>4. g[V] = f[Pick(V)] + g[W]
      BY <2>2, <2>4 DEF Sums
    <3> QED BY <2>2, <2>4, <3>2, <3>3, <3>4
  <2> QED BY <2>3, <2>4
<1> DEFINE h == [V \in SUBSET T |-> IF V = {} THEN 0 ELSE f[Pick(V)] + sum(V \ {Pick(V)})]
<1> HIDE DEF sum
<1>6. ASSUME NEW V \in SUBSET T, V # {}
      PROVE  h[V \ {Pick(V)}] = sum(V \ {Pick(V)})
  <2>1. V \ {Pick(V)} \in SUBSET T /\ V \ {Pick(V)} # T
    BY <1>6, PickIn
  <2> QED BY <2>1, <1>5
<1>7. h = [V \in SUBSET T |-> IF V = {} THEN 0 ELSE f[Pick(V)] + h[V \ {Pick(V)}]]
  <2>1. \A V \in SUBSET T :
          (IF V = {} THEN 0 ELSE f[Pick(V)] + sum(V \ {Pick(V)}))
          = (IF V = {} THEN 0 ELSE f[Pick(V)] + h[V \ {Pick(V)}])
    BY <1>6
  <2> QED BY <2>1
<1>8. Sums(h, f, T)
  BY <1>7 DEF Sums
<1> QED BY <1>2, <1>8

(***************************************************************************)
(* What the operator computes.                                             *)
(***************************************************************************)
\* The sum over a finite set satisfies its recursion.
LEMMA SumPick ==
  ASSUME NEW f, NEW S, IsFiniteSet(S), S # {}
  PROVE  SumFunctionOnSet(f, S) = f[Pick(S)] + SumFunctionOnSet(f, S \ {Pick(S)})
<1> DEFINE W == S \ {Pick(S)}
           g == CHOOSE u : Sums(u, f, S)
           h == CHOOSE u : Sums(u, f, W)
<1>1. IsFiniteSet(W) /\ W \subseteq S
  BY FS_Subset
<1>2. Sums(g, f, S) /\ Sums(h, f, W)
  <2>1. \E u : Sums(u, f, S)
    BY SumsExist
  <2>2. \E u : Sums(u, f, W)
    BY <1>1, SumsExist
  <2> QED BY <2>1, <2>2
<1>3. SumFunctionOnSet(f, S) = g[S] /\ SumFunctionOnSet(f, W) = h[W]
  BY SumUnfold
<1> HIDE DEF g, h, W
<1>4. g[W] = h[W]
  BY <1>1, <1>2, SumsAgree
<1>5. g[S] = f[Pick(S)] + g[W]
  BY <1>2 DEF Sums, W
<1> QED BY <1>3, <1>4, <1>5 DEF W

\* Over nothing the sum is zero.
LEMMA SumEmpty == ASSUME NEW f PROVE SumFunctionOnSet(f, {}) = 0
<1>1. \E g : Sums(g, f, {})
  BY SumsExist, FS_EmptySet
<1>2. Sums((CHOOSE g : Sums(g, f, {})), f, {})
  BY <1>1
<1> QED BY <1>2, SumUnfold DEF Sums

\* A sum of integers is an integer, a sum of naturals a natural.
LEMMA SumType ==
  ASSUME NEW f, NEW S, IsFiniteSet(S), \A x \in S : f[x] \in Int
  PROVE  /\ SumFunctionOnSet(f, S) \in Int
         /\ (\A x \in S : f[x] >= 0) => SumFunctionOnSet(f, S) >= 0
<1> DEFINE sum(V) == SumFunctionOnSet(f, V)
           ok(V) == sum(V) \in Int /\ ((\A x \in S : f[x] >= 0) => sum(V) >= 0)
           F == {V \in SUBSET S : ~ ok(V)}
<1>1. SUFFICES ASSUME F # {} PROVE FALSE
  OBVIOUS
<1>2. PICK T \in F : \A U \in SUBSET T : U # T => U \notin F
  <2> HIDE DEF F
  <2>1. F \in SUBSET (SUBSET S)
    BY DEF F
  <2> QED BY <1>1, <2>1, MinimalSubset
<1>3. IsFiniteSet(T)
  BY FS_Subset
<1> HIDE DEF sum
<1>4. T # {}
  <2>1. sum({}) = 0
    BY SumEmpty DEF sum
  <2>2. T = {} => sum(T) \in Int /\ sum(T) >= 0
    BY <2>1
  <2> QED BY <2>2, <1>2
<1> DEFINE W == T \ {Pick(T)}
<1>5. Pick(T) \in T /\ W \in SUBSET T /\ W # T
  BY <1>4, PickIn
<1>6. sum(T) = f[Pick(T)] + sum(W)
  BY <1>3, <1>4, SumPick DEF sum
<1> HIDE DEF W
<1>7. ok(W)
  BY <1>2, <1>5
<1>8. f[Pick(T)] \in Int
  BY <1>5
<1>9. ok(T)
  BY <1>5, <1>6, <1>7, <1>8
<1> QED BY <1>2, <1>9

\* Any element can be taken out first: the sum does not depend on the order.
LEMMA SumRemove ==
  ASSUME NEW f, NEW S, IsFiniteSet(S), \A x \in S : f[x] \in Int, NEW a \in S
  PROVE  SumFunctionOnSet(f, S) = f[a] + SumFunctionOnSet(f, S \ {a})
<1> DEFINE sum(V) == SumFunctionOnSet(f, V)
           F == {V \in SUBSET S : \E x \in V : sum(V) # f[x] + sum(V \ {x})}
<1>1. SUFFICES ASSUME F # {} PROVE FALSE
  OBVIOUS
<1>2. PICK T \in F : \A U \in SUBSET T : U # T => U \notin F
  <2> HIDE DEF F
  <2>1. F \in SUBSET (SUBSET S)
    BY DEF F
  <2> QED BY <1>1, <2>1, MinimalSubset
<1>3. \A V \in SUBSET S : IsFiniteSet(V) /\ sum(V) \in Int
  BY FS_Subset, SumType
<1>4. \A V \in SUBSET S : V # {} => sum(V) = f[Pick(V)] + sum(V \ {Pick(V)})
  BY <1>3, SumPick
<1> HIDE DEF sum
<1>5. PICK x \in T : sum(T) # f[x] + sum(T \ {x})
  BY <1>2
<1> DEFINE p == Pick(T)
<1>6. p \in T /\ sum(T) = f[p] + sum(T \ {p}) /\ p # x
  BY <1>4, <1>5, PickIn
<1> HIDE DEF p
<1>7. sum(T \ {p}) = f[x] + sum((T \ {p}) \ {x})
  BY <1>2, <1>5, <1>6
<1>8. sum(T \ {x}) = f[p] + sum((T \ {x}) \ {p})
  BY <1>2, <1>5, <1>6
<1>9. (T \ {p}) \ {x} = (T \ {x}) \ {p}
  OBVIOUS
<1>10. f[x] \in Int /\ f[p] \in Int /\ sum((T \ {x}) \ {p}) \in Int
  BY <1>3, <1>5, <1>6
<1>11. sum(T) = f[p] + (f[x] + sum((T \ {x}) \ {p}))
  BY <1>6, <1>7, <1>9
<1> QED BY <1>5, <1>8, <1>10, <1>11

\* Only the entries summed matter.
LEMMA SumSame ==
  ASSUME NEW f, NEW g, NEW S, IsFiniteSet(S), \A x \in S : f[x] = g[x]
  PROVE  SumFunctionOnSet(f, S) = SumFunctionOnSet(g, S)
<1> DEFINE F == {V \in SUBSET S : SumFunctionOnSet(f, V) # SumFunctionOnSet(g, V)}
<1>1. SUFFICES ASSUME F # {} PROVE FALSE
  OBVIOUS
<1>2. PICK T \in F : \A U \in SUBSET T : U # T => U \notin F
  <2> HIDE DEF F
  <2>1. F \in SUBSET (SUBSET S)
    BY DEF F
  <2> QED BY <1>1, <2>1, MinimalSubset
<1>3. IsFiniteSet(T)
  BY FS_Subset
<1>4. T # {}
  BY <1>2, SumEmpty
<1> DEFINE W == T \ {Pick(T)}
<1>5. Pick(T) \in T /\ W \in SUBSET T /\ W # T
  BY <1>4, PickIn
<1>6. /\ SumFunctionOnSet(f, T) = f[Pick(T)] + SumFunctionOnSet(f, W)
      /\ SumFunctionOnSet(g, T) = g[Pick(T)] + SumFunctionOnSet(g, W)
  BY <1>3, <1>4, SumPick
<1>7. f[Pick(T)] = g[Pick(T)]
  BY <1>5
<1>8. SumFunctionOnSet(f, W) = SumFunctionOnSet(g, W)
  BY <1>2, <1>5
<1> QED BY <1>2, <1>6, <1>7, <1>8

\* When one entry changes, the sum changes by as much.
LEMMA SumChange ==
  ASSUME NEW f, NEW g, NEW S, IsFiniteSet(S), NEW a \in S,
         \A x \in S : f[x] \in Int /\ g[x] \in Int,
         \A x \in S \ {a} : g[x] = f[x]
  PROVE  SumFunctionOnSet(g, S) = SumFunctionOnSet(f, S) + g[a] - f[a]
<1>1. IsFiniteSet(S \ {a})
  BY FS_RemoveElement
<1>2. SumFunctionOnSet(g, S \ {a}) = SumFunctionOnSet(f, S \ {a})
  BY <1>1, SumSame
<1>3. SumFunctionOnSet(f, S \ {a}) \in Int
  BY <1>1, SumType
<1>4. /\ SumFunctionOnSet(f, S) = f[a] + SumFunctionOnSet(f, S \ {a})
      /\ SumFunctionOnSet(g, S) = g[a] + SumFunctionOnSet(g, S \ {a})
  BY SumRemove
<1> QED BY <1>2, <1>3, <1>4

\* When one entry moves by d, so does the sum.
LEMMA SumMoved ==
  ASSUME NEW f, NEW g, NEW S, IsFiniteSet(S), NEW a \in S, NEW d \in Int,
         \A x \in S : f[x] \in Int /\ g[x] \in Int,
         \A x \in S \ {a} : g[x] = f[x],
         g[a] = f[a] + d
  PROVE  SumFunctionOnSet(g, S) = SumFunctionOnSet(f, S) + d
<1>1. SumFunctionOnSet(g, S) = SumFunctionOnSet(f, S) + g[a] - f[a]
  BY SumChange
<1>2. SumFunctionOnSet(f, S) \in Int
  BY SumType
<1> QED BY <1>1, <1>2

\* The sum of sums is the sum of the entries added up.
LEMMA SumPlus ==
  ASSUME NEW f, NEW g, NEW h, NEW S, IsFiniteSet(S),
         \A x \in S : f[x] \in Int /\ g[x] \in Int /\ h[x] = f[x] + g[x]
  PROVE  SumFunctionOnSet(h, S) = SumFunctionOnSet(f, S) + SumFunctionOnSet(g, S)
<1> DEFINE s(u, V) == SumFunctionOnSet(u, V)
           F == {V \in SUBSET S : s(h, V) # s(f, V) + s(g, V)}
<1>1. SUFFICES ASSUME F # {} PROVE FALSE
  OBVIOUS
<1>2. PICK T \in F : \A U \in SUBSET T : U # T => U \notin F
  <2> HIDE DEF F
  <2>1. F \in SUBSET (SUBSET S)
    BY DEF F
  <2> QED BY <1>1, <2>1, MinimalSubset
<1>3. IsFiniteSet(T)
  BY FS_Subset
<1>4. T # {}
  BY <1>2, SumEmpty
<1> DEFINE W == T \ {Pick(T)}
<1>5. Pick(T) \in T /\ W \in SUBSET T /\ W # T /\ IsFiniteSet(W)
  BY <1>3, <1>4, PickIn, FS_Subset
<1>6. /\ s(f, T) = f[Pick(T)] + s(f, W)
      /\ s(g, T) = g[Pick(T)] + s(g, W)
      /\ s(h, T) = h[Pick(T)] + s(h, W)
  BY <1>3, <1>4, SumPick
<1>7. s(f, W) \in Int /\ s(g, W) \in Int
  BY <1>5, SumType
<1>8. s(h, W) = s(f, W) + s(g, W)
  BY <1>2, <1>5
<1>9. f[Pick(T)] \in Int /\ g[Pick(T)] \in Int /\ h[Pick(T)] = f[Pick(T)] + g[Pick(T)]
  BY <1>5
<1> HIDE DEF W, s
<1>10. s(h, T) = s(f, T) + s(g, T)
  BY <1>6, <1>7, <1>8, <1>9
<1> QED BY <1>2, <1>10

\* A sum of zeroes is zero.
LEMMA SumZero ==
  ASSUME NEW f, NEW S, IsFiniteSet(S), \A x \in S : f[x] = 0
  PROVE  SumFunctionOnSet(f, S) = 0
<1> DEFINE s == SumFunctionOnSet(f, S)
<1>1. \A x \in S : f[x] \in Int /\ f[x] = f[x] + f[x]
  OBVIOUS
<1>2. s = s + s
  BY <1>1, SumPlus
<1>3. s \in Int
  BY <1>1, SumType
<1> HIDE DEF s
<1>4. s = 0
  BY <1>2, <1>3
<1> QED BY <1>4 DEF s

\* A sum with one entry that is not zero is that entry.
LEMMA SumOne ==
  ASSUME NEW f, NEW S, IsFiniteSet(S), NEW a \in S, f[a] \in Int, \A x \in S \ {a} : f[x] = 0
  PROVE  SumFunctionOnSet(f, S) = f[a]
<1>1. SumFunctionOnSet(f, S \ {a}) = 0
  BY SumZero, FS_RemoveElement
<1>2. SumFunctionOnSet(f, S) = f[a] + SumFunctionOnSet(f, S \ {a})
  <2>1. \A x \in S : f[x] \in Int
    OBVIOUS
  <2> QED BY <2>1, SumRemove
<1> QED BY <1>1, <1>2

\* A sum of naturals is at least each of its entries.
LEMMA SumCovers ==
  ASSUME NEW f, NEW S, IsFiniteSet(S), \A x \in S : f[x] \in Nat, NEW a \in S
  PROVE  f[a] <= SumFunctionOnSet(f, S) /\ SumFunctionOnSet(f, S) \in Nat
<1>1. SumFunctionOnSet(f, S) = f[a] + SumFunctionOnSet(f, S \ {a})
  BY SumRemove
<1>2. SumFunctionOnSet(f, S \ {a}) \in Int /\ SumFunctionOnSet(f, S \ {a}) >= 0
  <2>1. IsFiniteSet(S \ {a})
    BY FS_RemoveElement
  <2>2. \A x \in S \ {a} : f[x] \in Int /\ f[x] >= 0
    OBVIOUS
  <2> QED BY <2>1, <2>2, SumType
<1> QED BY <1>1, <1>2

\* Zeroes may be left out of a sum.
LEMMA SumPad ==
  ASSUME NEW f, NEW S, IsFiniteSet(S), NEW T \in SUBSET S,
         \A x \in S : f[x] \in Int, \A x \in S \ T : f[x] = 0
  PROVE  SumFunctionOnSet(f, S) = SumFunctionOnSet(f, T)
<1> DEFINE s(V) == SumFunctionOnSet(f, V)
           F == {V \in SUBSET S : T \subseteq V /\ s(V) # s(T)}
<1>1. SUFFICES ASSUME F # {} PROVE FALSE
  OBVIOUS
<1>2. PICK V \in F : \A U \in SUBSET V : U # V => U \notin F
  <2> HIDE DEF F
  <2>1. F \in SUBSET (SUBSET S)
    BY DEF F
  <2> QED BY <1>1, <2>1, MinimalSubset
<1>3. PICK x \in V : x \notin T
  BY <1>2
<1>4. IsFiniteSet(V) /\ IsFiniteSet(T)
  BY <1>2, FS_Subset
<1>5. s(V) = f[x] + s(V \ {x})
  BY <1>2, <1>3, <1>4, SumRemove
<1>6. f[x] = 0 /\ s(T) \in Int
  BY <1>2, <1>3, <1>4, SumType
<1> HIDE DEF s
<1>7. s(V \ {x}) = s(T)
  BY <1>2, <1>3
<1> QED BY <1>2, <1>5, <1>6, <1>7

\* The sum over two disjoint sets is the sum of the sums.
LEMMA SumUnion ==
  ASSUME NEW f, NEW S, NEW T, IsFiniteSet(S), IsFiniteSet(T), S \cap T = {},
         \A x \in S \cup T : f[x] \in Int
  PROVE  SumFunctionOnSet(f, S \cup T) = SumFunctionOnSet(f, S) + SumFunctionOnSet(f, T)
<1> DEFINE g == [x \in S \cup T |-> IF x \in S THEN f[x] ELSE 0]
           h == [x \in S \cup T |-> IF x \in T THEN f[x] ELSE 0]
<1>1. IsFiniteSet(S \cup T)
  BY FS_Union
<1>2. SumFunctionOnSet(f, S \cup T) = SumFunctionOnSet(g, S \cup T) + SumFunctionOnSet(h, S \cup T)
  <2>1. \A x \in S \cup T : g[x] \in Int /\ h[x] \in Int /\ f[x] = g[x] + h[x]
    OBVIOUS
  <2> HIDE DEF g, h
  <2> QED BY <1>1, <2>1, SumPlus
<1>3. SumFunctionOnSet(g, S \cup T) = SumFunctionOnSet(f, S)
  <2>1. /\ \A x \in S \cup T : g[x] \in Int
        /\ \A x \in (S \cup T) \ S : g[x] = 0
        /\ \A x \in S : g[x] = f[x]
    OBVIOUS
  <2> HIDE DEF g
  <2>2. SumFunctionOnSet(g, S \cup T) = SumFunctionOnSet(g, S)
    BY <1>1, <2>1, SumPad
  <2> QED BY <2>1, <2>2, SumSame
<1>4. SumFunctionOnSet(h, S \cup T) = SumFunctionOnSet(f, T)
  <2>1. /\ \A x \in S \cup T : h[x] \in Int
        /\ \A x \in (S \cup T) \ T : h[x] = 0
        /\ \A x \in T : h[x] = f[x]
    OBVIOUS
  <2> HIDE DEF h
  <2>2. SumFunctionOnSet(h, S \cup T) = SumFunctionOnSet(h, T)
    BY <1>1, <2>1, SumPad
  <2> QED BY <2>1, <2>2, SumSame
<1> QED BY <1>2, <1>3, <1>4

\* A sum grows with its entries.
LEMMA SumLeq ==
  ASSUME NEW f, NEW g, NEW S, IsFiniteSet(S), \A x \in S : f[x] \in Int /\ g[x] \in Int /\ f[x] <= g[x]
  PROVE  SumFunctionOnSet(f, S) <= SumFunctionOnSet(g, S)
<1> DEFINE d == [x \in S |-> g[x] - f[x]]
<1>1. \A x \in S : d[x] \in Int /\ d[x] >= 0 /\ f[x] \in Int /\ g[x] = f[x] + d[x]
  OBVIOUS
<1> HIDE DEF d
<1>2. SumFunctionOnSet(g, S) = SumFunctionOnSet(f, S) + SumFunctionOnSet(d, S)
  BY <1>1, SumPlus
<1>3. SumFunctionOnSet(f, S) \in Int /\ SumFunctionOnSet(d, S) \in Int /\ SumFunctionOnSet(d, S) >= 0
  BY <1>1, SumType
<1> QED BY <1>2, <1>3

\* A common factor comes out of a sum.
LEMMA SumTimes ==
  ASSUME NEW f, NEW h, NEW S, IsFiniteSet(S), NEW c \in Int,
         \A x \in S : f[x] \in Int /\ h[x] = c * f[x]
  PROVE  SumFunctionOnSet(h, S) = c * SumFunctionOnSet(f, S)
<1> DEFINE s(u, V) == SumFunctionOnSet(u, V)
           F == {V \in SUBSET S : s(h, V) # c * s(f, V)}
<1>1. SUFFICES ASSUME F # {} PROVE FALSE
  OBVIOUS
<1>2. PICK T \in F : \A U \in SUBSET T : U # T => U \notin F
  <2> HIDE DEF F
  <2>1. F \in SUBSET (SUBSET S)
    BY DEF F
  <2> QED BY <1>1, <2>1, MinimalSubset
<1>3. IsFiniteSet(T)
  BY FS_Subset
<1>4. T # {}
  <2>1. s(h, {}) = 0 /\ s(f, {}) = 0
    BY SumEmpty
  <2> HIDE DEF s
  <2>2. s(h, {}) = c * s(f, {})
    BY <2>1
  <2> QED BY <1>2, <2>2
<1> DEFINE W == T \ {Pick(T)}
<1>5. Pick(T) \in T /\ W \in SUBSET T /\ W # T /\ IsFiniteSet(W)
  BY <1>3, <1>4, PickIn, FS_Subset
<1>6. /\ s(f, T) = f[Pick(T)] + s(f, W)
      /\ s(h, T) = h[Pick(T)] + s(h, W)
  BY <1>3, <1>4, SumPick
<1>7. s(f, W) \in Int
  BY <1>5, SumType
<1>8. s(h, W) = c * s(f, W)
  BY <1>2, <1>5
<1>9. f[Pick(T)] \in Int /\ h[Pick(T)] = c * f[Pick(T)]
  BY <1>5
<1> HIDE DEF W, s
<1>10. \A x, y \in Int : c * (x + y) = c * x + c * y
  OBVIOUS
<1>11. s(h, T) = c * s(f, T)
  BY <1>6, <1>7, <1>8, <1>9, <1>10
<1> QED BY <1>2, <1>11
=============================================================================
