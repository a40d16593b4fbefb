----------------------------- MODULE TokenProofs -----------------------------
(***************************************************************************)
(* What holds of the token contracts for any table, shares, clock, drips,  *)
(* positions and deals, in any order of releases, rollovers, checkpoints,  *)
(* collects, claims and registrations.  The step of the whole system       *)
(* (DealRewards with LPRewards, the reserve and the drips) is taken apart  *)
(* by what it touches: the reserve's books, the drips, the backing of the  *)
(* positions' rewards, and the deals' budgets.  TokenInv is the            *)
(* conjunction of the invariants of these parts.                           *)
(***************************************************************************)
EXTENDS DealRewards, SumTheorems

(***************************************************************************)
(* Arithmetic.                                                             *)
(***************************************************************************)
LEMMA MaxTwo == \A a, b \in Int : Max({a, b}) = IF a >= b THEN a ELSE b
<1>1. SUFFICES ASSUME NEW a \in Int, NEW b \in Int
               PROVE  Max({a, b}) = IF a >= b THEN a ELSE b
  OBVIOUS
<1> DEFINE top == IF a >= b THEN a ELSE b
<1>2. top \in {a, b} /\ \A y \in {a, b} : top >= y
  OBVIOUS
<1>3. \A x \in {a, b} : (\A y \in {a, b} : x >= y) => x = top
  OBVIOUS
<1> HIDE DEF top
<1>4. Max({a, b}) = top
  BY <1>2, <1>3 DEF Max
<1> QED BY <1>4 DEF top

LEMMA MinTwo == \A a, b \in Int : Min({a, b}) = IF a <= b THEN a ELSE b
<1>1. SUFFICES ASSUME NEW a \in Int, NEW b \in Int
               PROVE  Min({a, b}) = IF a <= b THEN a ELSE b
  OBVIOUS
<1> DEFINE low == IF a <= b THEN a ELSE b
<1>2. low \in {a, b} /\ \A y \in {a, b} : low <= y
  OBVIOUS
<1>3. \A x \in {a, b} : (\A y \in {a, b} : x <= y) => x = low
  OBVIOUS
<1> HIDE DEF low
<1>4. Min({a, b}) = low
  BY <1>2, <1>3 DEF Min
<1> QED BY <1>4 DEF low

LEMMA MinThree ==
  ASSUME NEW a \in Int, NEW b \in Int, NEW c \in Int
  PROVE  Min({a, b, c}) \in {a, b, c} /\ Min({a, b, c}) <= a /\ Min({a, b, c}) <= b /\ Min({a, b, c}) <= c
<1> DEFINE low == IF a <= b THEN IF a <= c THEN a ELSE c ELSE IF b <= c THEN b ELSE c
<1>1. low \in {a, b, c} /\ \A y \in {a, b, c} : low <= y
  OBVIOUS
<1> HIDE DEF low
<1>2. Min({a, b, c}) \in {a, b, c} /\ \A y \in {a, b, c} : Min({a, b, c}) <= y
  BY <1>1 DEF Min
<1> QED BY <1>2

\* A finite set of integers that is not empty has a largest element.
LEMMA MaxIn ==
  ASSUME NEW S \in SUBSET Int, IsFiniteSet(S), S # {}
  PROVE  Max(S) \in S
<1> DEFINE above(x) == {y \in S : y >= x}
           F == {above(x) : x \in S}
<1>1. PICK T \in F : \A U \in SUBSET T : U # T => U \notin F
  <2>1. F \in SUBSET (SUBSET S) /\ F # {}
    OBVIOUS
  <2> HIDE DEF F
  <2> QED BY <2>1, MinimalSubset
<1>2. PICK x \in S : T = above(x)
  OBVIOUS
<1>3. \A y \in S : x >= y
  <2>1. SUFFICES ASSUME NEW y \in S, ~ (x >= y) PROVE FALSE
    OBVIOUS
  <2>2. x \in Int /\ y \in Int /\ y > x
    BY <2>1
  <2>3. x \in above(x) /\ x \notin above(y)
    BY <2>2
  <2>4. \A z \in S : z >= y => z >= x
    BY <2>2
  <2>5. above(y) \in SUBSET above(x) /\ above(y) # above(x)
    BY <2>3, <2>4
  <2> QED BY <1>1, <1>2, <2>5
<1> QED BY <1>3 DEF Max

\* A product of naturals is a natural, and grows with its factors.
LEMMA ProductNat == \A a, b \in Nat : a * b \in Nat
OBVIOUS

LEMMA ProductGrows == \A a, b, c \in Nat : a <= b => a * c <= b * c
OBVIOUS

LEMMA QuotientNat == \A a \in Nat, b \in Nat \ {0} : a \div b \in Nat /\ (a \div b) * b <= a
OBVIOUS

\* So many basis points of an amount are a natural number, and no more than it.
LEMMA PartOf == \A n \in Nat, s \in 0 .. BPS : (n * s) \div BPS \in 0 .. n
<1>1. BPS \in Nat \ {0}
  BY EmissionsAssumption
<1>2. SUFFICES ASSUME NEW n \in Nat, NEW s \in 0 .. BPS
               PROVE  (n * s) \div BPS \in 0 .. n
  OBVIOUS
<1>3. n * s \in Nat /\ n * s <= n * BPS
  BY <1>1
<1>4. \A x \in Nat : x \div BPS \in Nat /\ (x <= n * BPS => x \div BPS <= n)
  BY <1>1
<1> QED BY <1>3, <1>4

(***************************************************************************)
(* Sums as the model writes them.                                          *)
(***************************************************************************)
LEMMA SumIs == ASSUME NEW S, NEW f PROVE SumFunction([x \in S |-> f[x]]) = SumFunctionOnSet([x \in S |-> f[x]], S)
BY DEF SumFunction

(***************************************************************************)
(* Transfers.                                                              *)
(***************************************************************************)
LEMMA PaidIs ==
  \A b \in [Holders -> Int], from \in Holders, to \in Holders, amount \in Int :
    from # to =>
      /\ Paid(b, from, to, amount) \in [Holders -> Int]
      /\ Paid(b, from, to, amount)[from] = b[from] - amount
      /\ Paid(b, from, to, amount)[to] = b[to] + amount
BY DEF Paid

LEMMA PaidOther ==
  \A b \in [Holders -> Int], from \in Holders, to \in Holders, amount \in Int, h \in Holders :
    h # from /\ h # to => Paid(b, from, to, amount)[h] = b[h]
BY DEF Paid

LEMMA BurnedIs ==
  \A b \in [Holders -> Int], from \in Holders, amount \in Int :
    /\ Burned(b, from, amount) \in [Holders -> Int]
    /\ Burned(b, from, amount)[from] = b[from] - amount
BY DEF Burned

LEMMA BurnedOther ==
  \A b \in [Holders -> Int], from \in Holders, amount \in Int, h \in Holders :
    h # from => Burned(b, from, amount)[h] = b[h]
BY DEF Burned

LEMMA SettledIs ==
  ASSUME NEW b \in [Holders -> Int], Settled(b)
  PROVE  sgage' = b /\ sgage' \in [Holders -> Nat]
<1>1. \A h \in Holders : b[h] \in Nat
  BY DEF Settled
<1> QED BY <1>1 DEF Settled

LEMMA TheHolders ==
  /\ "emissions" \in Holders /\ "lpRewards" \in Holders /\ "drip" \in Holders /\ People \in Holders
  /\ "emissions" # "lpRewards" /\ "emissions" # "drip" /\ "lpRewards" # "drip"
  /\ People # "emissions" /\ People # "lpRewards" /\ People # "drip"
BY DEF Holders, Contracts, People

(***************************************************************************)
(* The reserve.                                                            *)
(***************************************************************************)
ReserveType ==
  /\ now \in Nat /\ launchAt \in Nat
  /\ shares \in [Epochs -> [deal : 0 .. BPS, term21 : 0 .. BPS]]
  /\ released \in SUBSET Epochs /\ rolledOver \in SUBSET released
  /\ reserved \in [Epochs -> [Terms -> Nat]]
  /\ sgage \in [Holders -> Nat]

\* What an epoch has let out of the reserve.
Let(e) == LiquidityBudget(e) + reserved[e]["TERM7"] + reserved[e]["TERM21"]

ReserveInv ==
  /\ \A e \in released : Started(e)
  /\ \A e \in Epochs, b \in Terms : reserved[e][b] <= DealBudget(e, b)
  /\ \A e \in rolledOver, b \in Terms : reserved[e][b] = DealBudget(e, b)
  /\ OutIsAccounted

LEMMA EpochsFinite == IsFiniteSet(Epochs) /\ Epochs \in SUBSET Nat
<1>1. WEEKS - 1 \in Int
  BY EmissionsAssumption
<1> QED BY <1>1, FS_Interval DEF Epochs

LEMMA TermsAre == Terms = {"TERM7", "TERM21"} /\ "TERM7" # "TERM21"
BY DEF Terms

\* The three budgets of an epoch are its amount in the table, whatever the shares.
LEMMA Budgets ==
  ASSUME ReserveType, NEW e \in Epochs
  PROVE  /\ LiquidityBudget(e) \in Nat
         /\ \A b \in Terms : DealBudget(e, b) \in Nat
         /\ LiquidityBudget(e) + DealBudget(e, "TERM7") + DealBudget(e, "TERM21") = Weekly[e]
         /\ Weekly[e] \in Nat
<1>1. Weekly[e] \in Nat /\ shares[e].deal \in 0 .. BPS /\ shares[e].term21 \in 0 .. BPS
  BY EmissionsAssumption DEF ReserveType
<1>2. DealsTotal(e) \in 0 .. Weekly[e]
  BY <1>1, PartOf DEF DealsTotal
<1> DEFINE deals21 == (DealsTotal(e) * shares[e].term21) \div BPS
<1>3. deals21 \in 0 .. DealsTotal(e)
  <2>1. DealsTotal(e) \in Nat
    BY <1>1, <1>2
  <2> QED BY <1>1, <2>1, PartOf
<1>4. /\ DealBudget(e, "TERM21") = deals21
      /\ DealBudget(e, "TERM7") = DealsTotal(e) - deals21
      /\ LiquidityBudget(e) = Weekly[e] - DealsTotal(e)
  BY DEF DealBudget, LiquidityBudget
<1> HIDE DEF deals21
<1> QED BY <1>1, <1>2, <1>3, <1>4, TermsAre

\* An epoch has let out at most its amount, and all of it once it is rolled over.
LEMMA LetOut ==
  ASSUME ReserveType, ReserveInv, NEW e \in Epochs
  PROVE  /\ Let(e) \in Nat /\ Let(e) <= Weekly[e] /\ Weekly[e] \in Nat
         /\ e \in rolledOver => Let(e) = Weekly[e]
         /\ \A b \in Terms : reserved[e][b] \in Nat /\ Remaining(e, b) \in Nat
         /\ Let(e) + Remaining(e, "TERM7") + Remaining(e, "TERM21") = Weekly[e]
<1>1. /\ LiquidityBudget(e) \in Nat
      /\ \A b \in Terms : DealBudget(e, b) \in Nat
      /\ LiquidityBudget(e) + DealBudget(e, "TERM7") + DealBudget(e, "TERM21") = Weekly[e]
      /\ Weekly[e] \in Nat
  BY Budgets
<1>2. \A b \in Terms : /\ reserved[e][b] \in Nat /\ reserved[e][b] <= DealBudget(e, b)
                       /\ e \in rolledOver => reserved[e][b] = DealBudget(e, b)
  BY DEF ReserveType, ReserveInv
<1> QED BY <1>1, <1>2, TermsAre DEF Let, Remaining

LEMMA TotalIs ==
  ASSUME ReserveType, ReserveInv
  PROVE  /\ totalOut = SumFunctionOnSet([e \in Epochs |-> Let(e)], released)
         /\ totalOut \in Int
         /\ sgage["emissions"] = PrefixSum(WEEKS) - totalOut
         /\ PrefixSum(WEEKS) \in Int
<1>1. IsFiniteSet(released) /\ released \in SUBSET Epochs
  BY EpochsFinite, FS_Subset DEF ReserveType
<1>2. totalOut = SumFunctionOnSet([e \in released |-> Let(e)], released)
  BY DEF ReserveInv, OutIsAccounted, SumFunction, Let
<1>3. SumFunctionOnSet([e \in released |-> Let(e)], released) = SumFunctionOnSet([e \in Epochs |-> Let(e)], released)
  <2>1. \A x \in released : [e \in released |-> Let(e)][x] = [e \in Epochs |-> Let(e)][x]
    BY <1>1
  <2> QED BY <1>1, <2>1, SumSame
<1>4. \A x \in released : [e \in Epochs |-> Let(e)][x] \in Int
  BY <1>1, LetOut
<1>5. totalOut \in Int
  BY <1>1, <1>2, <1>3, <1>4, SumType
<1>6. PrefixSum(WEEKS) \in Int
  <2> DEFINE top == Min({WEEKS, WEEKS - 1})
  <2>1. WEEKS \in Int /\ WEEKS - 1 \in Int /\ WEEKS > WEEKS - 1
    BY EmissionsAssumption
  <2>2. top = WEEKS - 1
    BY <2>1, MinTwo
  <2>3. \A x \in Epochs : Weekly[x] \in Int
    BY EmissionsAssumption
  <2> QED BY <2>2, <2>3, EpochsFinite, SumType DEF PrefixSum, Epochs
<1> QED BY <1>2, <1>3, <1>5, <1>6 DEF ReserveInv, OutIsAccounted

\* How a sum over the released epochs grows when epochs join and one entry moves.
LEMMA SumGrows ==
  ASSUME NEW f \in [Epochs -> Int], NEW g \in [Epochs -> Int],
         NEW R \in SUBSET Epochs, NEW E \in SUBSET Epochs, R \cap E = {}, NEW d \in Int,
         \/ g = f /\ d = 0
         \/ \E a \in R \cup E : g[a] = f[a] + d /\ \A x \in Epochs \ {a} : g[x] = f[x]
  PROVE  SumFunctionOnSet(g, R \cup E) = SumFunctionOnSet(f, R) + SumFunctionOnSet(f, E) + d
<1>1. IsFiniteSet(R) /\ IsFiniteSet(E) /\ IsFiniteSet(R \cup E)
  BY EpochsFinite, FS_Subset
<1>2. \A x \in R \cup E : f[x] \in Int /\ g[x] \in Int
  OBVIOUS
<1>3. SumFunctionOnSet(f, R \cup E) = SumFunctionOnSet(f, R) + SumFunctionOnSet(f, E)
  BY <1>1, <1>2, SumUnion
<1>4. SumFunctionOnSet(f, R) \in Int /\ SumFunctionOnSet(f, E) \in Int
  BY <1>1, <1>2, SumType
<1>5. CASE g = f /\ d = 0
  BY <1>3, <1>4, <1>5
<1>6. CASE \E a \in R \cup E : g[a] = f[a] + d /\ \A x \in Epochs \ {a} : g[x] = f[x]
  <2>1. PICK a \in R \cup E : g[a] = f[a] + d /\ \A x \in Epochs \ {a} : g[x] = f[x]
    BY <1>6
  <2>2. SumFunctionOnSet(g, R \cup E) = SumFunctionOnSet(f, R \cup E) + d
    BY <1>1, <1>2, <2>1, SumMoved
  <2> QED BY <1>3, <2>2
<1> QED BY <1>5, <1>6

LEMMA LiquidityIs ==
  ASSUME ReserveType, NEW E \in SUBSET Epochs
  PROVE  /\ LiquidityOf(E) = SumFunctionOnSet([e \in Epochs |-> LiquidityBudget(e)], E)
         /\ LiquidityOf(E) \in Nat
<1>1. IsFiniteSet(E)
  BY EpochsFinite, FS_Subset
<1>2. LiquidityOf(E) = SumFunctionOnSet([e \in E |-> LiquidityBudget(e)], E)
  BY DEF LiquidityOf, SumFunction
<1>3. \A x \in E : [e \in E |-> LiquidityBudget(e)][x] = [e \in Epochs |-> LiquidityBudget(e)][x]
  OBVIOUS
<1>4. \A x \in E : [e \in Epochs |-> LiquidityBudget(e)][x] \in Nat
  BY Budgets
<1>5. /\ \A x \in E : [e \in Epochs |-> LiquidityBudget(e)][x] \in Int
      /\ \A x \in E : [e \in Epochs |-> LiquidityBudget(e)][x] >= 0
  BY <1>4
<1>6. SumFunctionOnSet([e \in Epochs |-> LiquidityBudget(e)], E) \in Nat
  BY <1>1, <1>5, SumType
<1> QED BY <1>1, <1>2, <1>3, <1>6, SumSame

\* Epochs E are released and m more leaves, reserved of the budget b of epoch a.
Released(E, m, a, b) ==
  /\ \A e \in E : Started(e) /\ e \notin released
  /\ released' = released \cup E
  /\ totalOut' = totalOut + (LiquidityOf(E) + m)
  /\ reserved' = IF m > 0 THEN [reserved EXCEPT ![a][b] = @ + m] ELSE reserved
  /\ m > 0 => a \in (released \cup E) \ rolledOver /\ b \in Terms /\ m <= Remaining(a, b)
  /\ sgage' \in [Holders -> Nat]
  /\ sgage'["emissions"] = sgage["emissions"] - (LiquidityOf(E) + m)
  /\ UNCHANGED <<now, launchAt, shares, rolledOver>>

LEMMA ReleasedKeeps ==
  ASSUME ReserveType, ReserveInv, NEW E, NEW m \in Nat, NEW a, NEW b, Released(E, m, a, b)
  PROVE  ReserveType' /\ ReserveInv'
<1>1. E \in SUBSET Epochs /\ released \cap E = {} /\ released' = released \cup E
  BY DEF Released, Started
<1>2. UNCHANGED <<now, launchAt, shares, rolledOver>>
  BY DEF Released
<1>3. reserved' \in [Epochs -> [Terms -> Nat]]
  <2>1. CASE m = 0
    BY <2>1 DEF Released, ReserveType
  <2>2. CASE m > 0
    <3>1. a \in Epochs /\ b \in Terms
      BY <1>1, <2>2 DEF Released, ReserveType
    <3>2. [reserved[a] EXCEPT ![b] = @ + m] \in [Terms -> Nat]
      BY <3>1 DEF ReserveType
    <3>3. reserved' = [reserved EXCEPT ![a] = [reserved[a] EXCEPT ![b] = @ + m]]
      BY <2>2 DEF Released
    <3> QED BY <3>1, <3>2, <3>3 DEF ReserveType
  <2> QED BY <2>1, <2>2
<1>4. ReserveType'
  BY <1>1, <1>2, <1>3 DEF ReserveType, Released
<1>5. \A e \in Epochs : /\ LiquidityBudget(e)' = LiquidityBudget(e) /\ Started(e)' = Started(e)
                        /\ \A c \in Terms : DealBudget(e, c)' = DealBudget(e, c)
  BY <1>2 DEF LiquidityBudget, DealBudget, DealsTotal, Started, Launched, EpochStart
<1>6. ASSUME NEW e \in Epochs, NEW c \in Terms
      PROVE  reserved'[e][c] = IF m > 0 /\ e = a /\ c = b THEN reserved[e][c] + m ELSE reserved[e][c]
  BY <1>1 DEF Released, ReserveType
<1>7. \A e \in released' : Started(e)'
  BY <1>1, <1>5 DEF ReserveInv, Released, ReserveType
<1>8. \A e \in Epochs, c \in Terms : reserved'[e][c] <= DealBudget(e, c)'
  <2>1. SUFFICES ASSUME NEW e \in Epochs, NEW c \in Terms
                 PROVE  reserved'[e][c] <= DealBudget(e, c)'
    OBVIOUS
  <2>2. DealBudget(e, c) \in Nat /\ reserved[e][c] \in Nat /\ reserved[e][c] <= DealBudget(e, c)
    BY Budgets DEF ReserveInv, ReserveType
  <2>3. m > 0 /\ e = a /\ c = b => reserved[e][c] + m <= DealBudget(e, c)
    BY <2>2 DEF Released, Remaining
  <2> QED BY <1>5, <1>6, <2>2, <2>3
<1>9. \A e \in rolledOver', c \in Terms : reserved'[e][c] = DealBudget(e, c)'
  <2>1. SUFFICES ASSUME NEW e \in rolledOver, NEW c \in Terms
                 PROVE  reserved'[e][c] = DealBudget(e, c)'
    BY <1>2
  <2>2. e \in Epochs /\ ~ (m > 0 /\ e = a)
    BY <2>1 DEF Released, ReserveType
  <2>3. reserved'[e][c] = reserved[e][c]
    BY <1>6, <2>2
  <2> QED BY <1>5, <2>1, <2>2, <2>3 DEF ReserveInv
<1>10. OutIsAccounted'
  <2> DEFINE f == [e \in Epochs |-> Let(e)]
             g == [e \in Epochs |-> Let(e)']
             l == [e \in Epochs |-> LiquidityBudget(e)]
  <2>1. \A e \in Epochs : Let(e) \in Int /\ LiquidityBudget(e) \in Int
    BY LetOut, Budgets
  <2>2. \A e \in Epochs : Let(e)' = IF m > 0 /\ e = a THEN Let(e) + m ELSE Let(e)
    <3>1. SUFFICES ASSUME NEW e \in Epochs
                   PROVE  Let(e)' = IF m > 0 /\ e = a THEN Let(e) + m ELSE Let(e)
      OBVIOUS
    <3>2. Let(e)' = LiquidityBudget(e) + reserved'[e]["TERM7"] + reserved'[e]["TERM21"]
      BY <1>5 DEF Let
    <3>3. reserved[e]["TERM7"] \in Nat /\ reserved[e]["TERM21"] \in Nat /\ LiquidityBudget(e) \in Int
      BY TermsAre, Budgets DEF ReserveType
    <3>4. m > 0 => b \in Terms
      BY DEF Released
    <3> QED BY <1>6, <3>2, <3>3, <3>4, TermsAre DEF Let
  <2>3. f \in [Epochs -> Int] /\ g \in [Epochs -> Int]
    BY <2>1, <2>2
  <2>4. \/ g = f /\ m = 0
        \/ \E x \in released \cup E : g[x] = f[x] + m /\ \A y \in Epochs \ {x} : g[y] = f[y]
    <3>1. CASE m = 0
      BY <2>2, <3>1
    <3>2. CASE m > 0
      <4>1. a \in released \cup E /\ a \in Epochs
        BY <1>1, <3>2 DEF Released, ReserveType
      <4> QED BY <2>2, <3>2, <4>1
    <3> QED BY <3>1, <3>2
  <2> HIDE DEF f, g
  <2>5. SumFunctionOnSet(g, released \cup E) = SumFunctionOnSet(f, released) + SumFunctionOnSet(f, E) + m
    <3>1. released \in SUBSET Epochs
      BY DEF ReserveType
    <3> QED BY <1>1, <2>3, <2>4, <3>1, SumGrows
  <2>6. SumFunctionOnSet(f, E) = LiquidityOf(E) /\ LiquidityOf(E) \in Nat
    <3>1. \A e \in E : f[e] = l[e]
      <4>1. SUFFICES ASSUME NEW e \in E PROVE f[e] = l[e]
        OBVIOUS
      <4>2. reserved[e]["TERM7"] = 0 /\ reserved[e]["TERM21"] = 0
        BY <1>1, <4>1, TermsAre DEF ReserveInv, OutIsAccounted
      <4>3. e \in Epochs /\ LiquidityBudget(e) \in Int
        BY <1>1, <2>1, <4>1
      <4> QED BY <4>2, <4>3 DEF f, Let
    <3>2. SumFunctionOnSet(f, E) = SumFunctionOnSet(l, E)
      <4>1. IsFiniteSet(E)
        BY <1>1, EpochsFinite, FS_Subset
      <4> HIDE DEF l
      <4> QED BY <3>1, <4>1, SumSame
    <3> QED BY <1>1, <3>2, LiquidityIs
  <2>7. /\ totalOut = SumFunctionOnSet(f, released) /\ totalOut \in Int
        /\ sgage["emissions"] = PrefixSum(WEEKS) - totalOut /\ PrefixSum(WEEKS) \in Int
    BY TotalIs DEF f
  <2>8. totalOut' = SumFunctionOnSet(g, released')
    BY <1>1, <2>5, <2>6, <2>7 DEF Released
  <2>9. totalOut' = SumFunction([e \in released |-> LiquidityBudget(e) + reserved[e]["TERM7"] + reserved[e]["TERM21"]])'
    <3> DEFINE h == [e \in released' |-> Let(e)']
    <3>1. \A e \in released' : h[e] = g[e]
      BY <1>4 DEF g, ReserveType
    <3>2. IsFiniteSet(released')
      BY <1>4, EpochsFinite, FS_Subset DEF ReserveType
    <3>3. SumFunctionOnSet(g, released') = SumFunctionOnSet(h, released')
      <4> HIDE DEF h
      <4> QED BY <3>1, <3>2, SumSame
    <3> QED BY <2>8, <3>3 DEF SumFunction, Let
  <2>10. sgage'["emissions"] = PrefixSum(WEEKS) - totalOut'
    BY <2>6, <2>7 DEF Released
  <2>11. \A e \in Epochs \ released', c \in Terms : reserved'[e][c] = 0
    <3>1. SUFFICES ASSUME NEW e \in Epochs \ released', NEW c \in Terms PROVE reserved'[e][c] = 0
      OBVIOUS
    <3>2. e \in Epochs \ released /\ ~ (m > 0 /\ e = a)
      BY <1>1, <3>1 DEF Released
    <3> QED BY <1>6, <3>2 DEF ReserveInv, OutIsAccounted
  <2>12. PrefixSum(WEEKS)' = PrefixSum(WEEKS)
    BY DEF PrefixSum
  <2> QED BY <2>9, <2>10, <2>11, <2>12 DEF OutIsAccounted
<1>11. ReserveInv'
  BY <1>7, <1>8, <1>9, <1>10 DEF ReserveInv
<1> QED BY <1>4, <1>11

LEMMA AccountedNext ==
  ASSUME ReserveType',
         totalOut' = SumFunctionOnSet([e \in Epochs |-> Let(e)'], released'),
         sgage'["emissions"] = PrefixSum(WEEKS) - totalOut',
         \A e \in Epochs \ released', b \in Terms : reserved'[e][b] = 0
  PROVE  OutIsAccounted'
<1> DEFINE g == [e \in Epochs |-> Let(e)']
           h == [e \in released' |-> Let(e)']
<1>1. IsFiniteSet(released') /\ released' \in SUBSET Epochs
  BY EpochsFinite, FS_Subset DEF ReserveType
<1>2. \A e \in released' : h[e] = g[e]
  BY <1>1
<1>3. SumFunctionOnSet(g, released') = SumFunctionOnSet(h, released')
  <2> HIDE DEF g, h
  <2> QED BY <1>1, <1>2, SumSame
<1>4. totalOut' = SumFunction([e \in released |-> LiquidityBudget(e) + reserved[e]["TERM7"] + reserved[e]["TERM21"]])'
  BY <1>3 DEF SumFunction, Let
<1>5. PrefixSum(WEEKS)' = PrefixSum(WEEKS)
  BY DEF PrefixSum
<1> QED BY <1>4, <1>5 DEF OutIsAccounted

LEMMA RolledOverKeeps ==
  ASSUME ReserveType, ReserveInv, NEW e \in Epochs, RolloverOut(e), now' = now, sgage' \in [Holders -> Nat],
         sgage'["emissions"] = sgage["emissions"] - (Remaining(e, "TERM7") + Remaining(e, "TERM21"))
  PROVE  ReserveType' /\ ReserveInv'
<1>1. /\ UNCHANGED <<now, launchAt, shares, released>>
      /\ e \in released \ rolledOver /\ rolledOver' = rolledOver \cup {e}
      /\ totalOut' = totalOut + (Remaining(e, "TERM7") + Remaining(e, "TERM21"))
  BY DEF RolloverOut, TakeOut
<1>2. \A x \in Epochs, b \in Terms : reserved'[x][b] = IF x = e THEN DealBudget(e, b) ELSE reserved[x][b]
  BY DEF RolloverOut, ReserveType
<1>3. reserved' \in [Epochs -> [Terms -> Nat]]
  <2>1. [b \in Terms |-> DealBudget(e, b)] \in [Terms -> Nat]
    BY Budgets
  <2> QED BY <2>1 DEF RolloverOut, ReserveType
<1>4. ReserveType'
  BY <1>1, <1>3 DEF ReserveType
<1>5. \A x \in Epochs : /\ LiquidityBudget(x)' = LiquidityBudget(x) /\ Started(x)' = Started(x)
                        /\ \A c \in Terms : DealBudget(x, c)' = DealBudget(x, c)
  BY <1>1 DEF LiquidityBudget, DealBudget, DealsTotal, Started, Launched, EpochStart
<1>6. \A x \in released' : Started(x)'
  BY <1>1, <1>5 DEF ReserveInv, ReserveType
<1>7. \A x \in Epochs, c \in Terms : reserved'[x][c] <= DealBudget(x, c)'
  <2>1. SUFFICES ASSUME NEW x \in Epochs, NEW c \in Terms
                 PROVE  reserved'[x][c] <= DealBudget(x, c)'
    OBVIOUS
  <2>2. DealBudget(x, c) \in Nat /\ reserved[x][c] <= DealBudget(x, c)
    BY Budgets DEF ReserveInv
  <2> QED BY <1>2, <1>5, <2>2
<1>8. \A x \in rolledOver', c \in Terms : reserved'[x][c] = DealBudget(x, c)'
  BY <1>1, <1>2, <1>5 DEF ReserveInv, ReserveType
<1>9. OutIsAccounted'
  <2> DEFINE f == [x \in Epochs |-> Let(x)]
             g == [x \in Epochs |-> Let(x)']
             d == Remaining(e, "TERM7") + Remaining(e, "TERM21")
  <2>1. \A x \in Epochs : Let(x) \in Int
    BY LetOut
  <2>2. d \in Int
    BY LetOut, TermsAre
  <2>3. \A x \in Epochs : Let(x)' = IF x = e THEN Let(x) + d ELSE Let(x)
    <3>1. SUFFICES ASSUME NEW x \in Epochs
                   PROVE  Let(x)' = IF x = e THEN Let(x) + d ELSE Let(x)
      OBVIOUS
    <3>2. Let(x)' = LiquidityBudget(x) + reserved'[x]["TERM7"] + reserved'[x]["TERM21"]
      BY <1>5 DEF Let
    <3>3. /\ reserved[x]["TERM7"] \in Nat /\ reserved[x]["TERM21"] \in Nat /\ LiquidityBudget(x) \in Int
          /\ DealBudget(x, "TERM7") \in Nat /\ DealBudget(x, "TERM21") \in Nat
      BY TermsAre, Budgets DEF ReserveType
    <3> QED BY <1>2, <3>2, <3>3, TermsAre DEF Let, Remaining
  <2>4. f \in [Epochs -> Int] /\ g \in [Epochs -> Int]
    BY <2>1, <2>2, <2>3
  <2>5. g[e] = f[e] + d /\ \A y \in Epochs \ {e} : g[y] = f[y]
    BY <2>3
  <2>6. released \in SUBSET Epochs /\ IsFiniteSet(released)
    BY EpochsFinite, FS_Subset DEF ReserveType
  <2>7. /\ totalOut = SumFunctionOnSet(f, released) /\ totalOut \in Int
        /\ sgage["emissions"] = PrefixSum(WEEKS) - totalOut /\ PrefixSum(WEEKS) \in Int
    BY TotalIs DEF f
  <2> HIDE DEF f, g, d
  <2>8. SumFunctionOnSet(g, released) = SumFunctionOnSet(f, released) + d
    <3>1. \A x \in released : f[x] \in Int /\ g[x] \in Int
      BY <2>4, <2>6
    <3>2. e \in released /\ \A x \in released \ {e} : g[x] = f[x]
      BY <1>1, <2>5, <2>6
    <3> QED BY <2>2, <2>5, <2>6, <3>1, <3>2, SumMoved
  <2>9. totalOut' = SumFunctionOnSet(g, released')
    BY <1>1, <2>7, <2>8 DEF d
  <2>10. sgage'["emissions"] = PrefixSum(WEEKS) - totalOut'
    BY <1>1, <2>2, <2>7 DEF d
  <2>11. \A x \in Epochs \ released', c \in Terms : reserved'[x][c] = 0
    BY <1>1, <1>2 DEF ReserveInv, OutIsAccounted
  <2> QED BY <1>4, <2>9, <2>10, <2>11, AccountedNext DEF g
<1> QED BY <1>4, <1>6, <1>7, <1>8, <1>9 DEF ReserveInv

\* Nothing of the reserve moves.
ReserveStays ==
  /\ UNCHANGED emissionVars
  /\ sgage' \in [Holders -> Nat] /\ sgage'["emissions"] = sgage["emissions"]

\* Time passes, or something happens elsewhere.
LEMMA ReserveUntouched ==
  ASSUME ReserveType, ReserveInv, ReserveStays, now' \in Nat, now <= now'
  PROVE  ReserveType' /\ ReserveInv'
<1>1. UNCHANGED <<launchAt, shares, released, rolledOver, reserved, totalOut>>
  BY DEF ReserveStays, emissionVars
<1>2. ReserveType'
  BY <1>1 DEF ReserveStays, ReserveType
<1>3. \A x \in Epochs : /\ LiquidityBudget(x)' = LiquidityBudget(x)
                        /\ \A c \in Terms : DealBudget(x, c)' = DealBudget(x, c)
  BY <1>1 DEF LiquidityBudget, DealBudget, DealsTotal
<1>4. \A x \in released' : Started(x)'
  <2>1. SUFFICES ASSUME NEW x \in released PROVE Started(x)'
    BY <1>1
  <2>2. Launched /\ x \in Epochs /\ now >= EpochStart(x)
    BY DEF ReserveInv, Started
  <2>3. EpochStart(x) \in Nat /\ now \in Nat
    BY <2>2, EpochsFinite, EmissionsAssumption, ProductNat DEF EpochStart, ReserveType
  <2>4. EpochStart(x)' = EpochStart(x) /\ Launched' = Launched
    BY <1>1 DEF EpochStart, Launched
  <2> QED BY <2>2, <2>3, <2>4 DEF Started
<1>5. OutIsAccounted'
  <2>1. OutIsAccounted
    BY DEF ReserveInv
  <2>2. \A x \in released : LiquidityBudget(x)' = LiquidityBudget(x)
    BY <1>3 DEF ReserveType
  <2>3. PrefixSum(WEEKS)' = PrefixSum(WEEKS)
    BY DEF PrefixSum
  <2>4. sgage'["emissions"] = PrefixSum(WEEKS) - totalOut'
    BY <1>1, <2>1 DEF OutIsAccounted, ReserveStays
  <2> QED BY <1>1, <2>1, <2>2, <2>3, <2>4 DEF OutIsAccounted
<1> QED BY <1>1, <1>2, <1>3, <1>4, <1>5 DEF ReserveInv, ReserveType

LEMMA LaunchKeeps ==
  ASSUME ReserveType, ReserveInv, NEW at \in LaunchTimes, Launch(at), UNCHANGED <<now, sgage>>
  PROVE  ReserveType' /\ ReserveInv'
<1>1. UNCHANGED <<now, sgage, shares, released, rolledOver, reserved, totalOut>> /\ launchAt' = at
  BY DEF Launch
<1>2. released = {} /\ rolledOver = {}
  BY DEF ReserveInv, ReserveType, Started, Launch
<1>3. at \in Nat
  BY EmissionsAssumption
<1>4. ReserveType'
  BY <1>1, <1>3 DEF ReserveType
<1>5. \A x \in Epochs : /\ LiquidityBudget(x)' = LiquidityBudget(x)
                        /\ \A c \in Terms : DealBudget(x, c)' = DealBudget(x, c)
  BY <1>1 DEF LiquidityBudget, DealBudget, DealsTotal
<1>6. OutIsAccounted'
  <2>1. OutIsAccounted
    BY DEF ReserveInv
  <2>2. \A x \in released : LiquidityBudget(x)' = LiquidityBudget(x)
    BY <1>2
  <2>3. PrefixSum(WEEKS)' = PrefixSum(WEEKS)
    BY DEF PrefixSum
  <2> QED BY <1>1, <2>1, <2>2, <2>3 DEF OutIsAccounted
<1> QED BY <1>1, <1>2, <1>4, <1>5, <1>6 DEF ReserveInv

\* Shares are set of epochs that have not started: nothing of them has left.
LEMMA SharesKeep ==
  ASSUME ReserveType, ReserveInv, NEW e \in Epochs, NEW choice \in SharesChoices, SetShares(e, choice),
         UNCHANGED <<now, sgage>>
  PROVE  ReserveType' /\ ReserveInv'
<1>1. UNCHANGED <<now, sgage, launchAt, released, rolledOver, reserved, totalOut>> /\ ~ Started(e)
  BY DEF SetShares
<1>2. e \notin released /\ e \notin rolledOver
  BY <1>1 DEF ReserveInv, ReserveType
<1>3. choice \in [deal : 0 .. BPS, term21 : 0 .. BPS]
  BY EmissionsAssumption
<1>4. shares' \in [Epochs -> [deal : 0 .. BPS, term21 : 0 .. BPS]] /\ \A x \in Epochs \ {e} : shares'[x] = shares[x]
  BY <1>3 DEF SetShares, ReserveType
<1>5. ReserveType'
  BY <1>1, <1>4 DEF ReserveType
<1>6. \A x \in Epochs \ {e} : /\ LiquidityBudget(x)' = LiquidityBudget(x)
                              /\ \A c \in Terms : DealBudget(x, c)' = DealBudget(x, c)
  BY <1>4 DEF LiquidityBudget, DealBudget, DealsTotal
<1>7. \A c \in Terms : reserved[e][c] = 0
  BY <1>2 DEF ReserveInv, OutIsAccounted
<1>8. \A c \in Terms : DealBudget(e, c)' \in Nat
  <2>1. DealsTotal(e)' \in Nat
    <3>1. Weekly[e] \in Nat /\ shares'[e].deal \in 0 .. BPS
      BY <1>4, EmissionsAssumption
    <3>2. (Weekly[e] * shares'[e].deal) \div BPS \in 0 .. Weekly[e]
      BY <3>1, PartOf
    <3> QED BY <3>1, <3>2 DEF DealsTotal
  <2> DEFINE deals21 == (DealsTotal(e)' * shares'[e].term21) \div BPS
  <2>2. deals21 \in 0 .. DealsTotal(e)'
    <3>1. shares'[e].term21 \in 0 .. BPS
      BY <1>4
    <3> HIDE DEF DealsTotal
    <3> QED BY <2>1, <3>1, PartOf
  <2>3. DealBudget(e, "TERM21")' = deals21 /\ DealBudget(e, "TERM7")' = DealsTotal(e)' - deals21
    BY DEF DealBudget
  <2> HIDE DEF deals21
  <2> QED BY <2>1, <2>2, <2>3, TermsAre
<1>9. \A x \in released' : Started(x)'
  <2>1. \A x \in Epochs : Started(x)' = Started(x)
    BY <1>1 DEF Started, Launched, EpochStart
  <2> QED BY <1>1, <2>1 DEF ReserveInv, ReserveType
<1>10. \A x \in Epochs, c \in Terms : reserved'[x][c] <= DealBudget(x, c)'
  <2>1. SUFFICES ASSUME NEW x \in Epochs, NEW c \in Terms PROVE reserved'[x][c] <= DealBudget(x, c)'
    OBVIOUS
  <2>2. CASE x = e
    BY <1>1, <1>7, <1>8, <2>2
  <2>3. CASE x # e
    <3>1. DealBudget(x, c)' = DealBudget(x, c) /\ reserved[x][c] <= DealBudget(x, c)
      BY <1>6, <2>3 DEF ReserveInv
    <3> QED BY <1>1, <3>1
  <2> QED BY <2>2, <2>3
<1>11. \A x \in rolledOver', c \in Terms : reserved'[x][c] = DealBudget(x, c)'
  BY <1>1, <1>2, <1>6 DEF ReserveInv, ReserveType
<1>12. OutIsAccounted'
  <2>1. OutIsAccounted
    BY DEF ReserveInv
  <2>2. \A x \in released : LiquidityBudget(x)' = LiquidityBudget(x)
    BY <1>2, <1>6 DEF ReserveType
  <2>3. PrefixSum(WEEKS)' = PrefixSum(WEEKS)
    BY DEF PrefixSum
  <2> QED BY <1>1, <2>1, <2>2, <2>3 DEF OutIsAccounted
<1> QED BY <1>5, <1>9, <1>10, <1>11, <1>12 DEF ReserveInv

(***************************************************************************)
(* The ceiling.                                                            *)
(***************************************************************************)
\* Of naturals, a part sums to no more than the whole.
LEMMA SumPart ==
  ASSUME NEW f, NEW S, IsFiniteSet(S), \A x \in S : f[x] \in Nat, NEW T \in SUBSET S
  PROVE  SumFunctionOnSet(f, T) <= SumFunctionOnSet(f, S)
<1>1. IsFiniteSet(T) /\ IsFiniteSet(S \ T) /\ S = T \cup (S \ T)
  BY FS_Subset, S \ T \in SUBSET S
<1>2. SumFunctionOnSet(f, T \cup (S \ T)) = SumFunctionOnSet(f, T) + SumFunctionOnSet(f, S \ T)
  BY <1>1, SumUnion
<1>3. /\ SumFunctionOnSet(f, T) \in Int
      /\ SumFunctionOnSet(f, S \ T) \in Int /\ SumFunctionOnSet(f, S \ T) >= 0
  <2>1. \A x \in S \ T : f[x] \in Int /\ f[x] >= 0
    OBVIOUS
  <2> QED BY <1>1, <2>1, SumType
<1>4. SumFunctionOnSet(f, S) = SumFunctionOnSet(f, T) + SumFunctionOnSet(f, S \ T)
  <2> DEFINE W == S \ T
  <2>1. S = T \cup W
    BY <1>1
  <2>2. SumFunctionOnSet(f, T \cup W) = SumFunctionOnSet(f, T) + SumFunctionOnSet(f, W)
    BY <1>2
  <2> HIDE DEF W
  <2>3. SumFunctionOnSet(f, S) = SumFunctionOnSet(f, T) + SumFunctionOnSet(f, W)
    BY ONLY <2>1, <2>2
  <2> QED BY <2>3 DEF W
<1>5. SumFunctionOnSet(f, T) \in Int
  BY <1>3
<1> QED BY <1>3, <1>4, <1>5

\* The epochs the ceiling counts.
UpTo(c) == 0 .. Min({c, WEEKS - 1})

LEMMA UpToIs == \A c \in Nat : UpTo(c) \in SUBSET Epochs /\ IsFiniteSet(UpTo(c)) /\ \A x \in Epochs : x <= c => x \in UpTo(c)
<1>1. SUFFICES ASSUME NEW c \in Nat
               PROVE  UpTo(c) \in SUBSET Epochs /\ IsFiniteSet(UpTo(c)) /\ \A x \in Epochs : x <= c => x \in UpTo(c)
  OBVIOUS
<1>2. WEEKS - 1 \in Nat
  BY EmissionsAssumption
<1>3. Min({c, WEEKS - 1}) = IF c <= WEEKS - 1 THEN c ELSE WEEKS - 1
  BY <1>2, MinTwo
<1>4. UpTo(c) \in SUBSET Epochs /\ \A x \in Epochs : x <= c => x \in UpTo(c)
  BY <1>2, <1>3 DEF UpTo, Epochs
<1> QED BY <1>4, EpochsFinite, FS_Subset

LEMMA CurrentEpochIs ==
  ASSUME ReserveType
  PROVE  /\ CurrentEpoch \in Nat
         /\ \A x \in Epochs : Started(x) => x <= CurrentEpoch
<1>1. WEEKS \in Nat /\ EPOCH \in Nat \ {0} /\ now \in Nat /\ launchAt \in Nat
  BY EmissionsAssumption DEF ReserveType
<1>2. CASE now < launchAt
  <2>1. CurrentEpoch = 0
    BY <1>2 DEF CurrentEpoch, EpochOf
  <2>2. \A x \in Nat : launchAt + x * EPOCH \in Nat /\ launchAt + x * EPOCH >= launchAt
    BY <1>1, ProductNat
  <2> QED BY <1>1, <1>2, <2>1, <2>2, EpochsFinite DEF Started, EpochStart
<1>3. CASE ~ (now < launchAt)
  <2> DEFINE q == (now - launchAt) \div EPOCH
  <2>1. now - launchAt \in Nat
    BY <1>1, <1>3
  <2>2. q \in Nat /\ \A x \in Nat : x * EPOCH <= now - launchAt => x <= q
    BY <1>1, <2>1
  <2>3. CurrentEpoch = Min({q, WEEKS})
    BY <1>3 DEF CurrentEpoch, EpochOf
  <2> HIDE DEF q
  <2>4. CurrentEpoch = IF q <= WEEKS THEN q ELSE WEEKS
    BY <1>1, <2>2, <2>3, MinTwo
  <2>5. ASSUME NEW x \in Epochs, Started(x) PROVE x <= CurrentEpoch
    <3>1. x \in Nat /\ x <= WEEKS /\ x * EPOCH \in Nat
      BY <1>1, ProductNat DEF Epochs
    <3>2. x * EPOCH <= now - launchAt
      BY <1>1, <2>5, <3>1 DEF Started, EpochStart
    <3> QED BY <1>1, <2>2, <2>4, <3>1, <3>2
  <2> QED BY <1>1, <2>2, <2>4, <2>5
<1> QED BY <1>2, <1>3

\* What may leave of an epoch that has started is under the ceiling, and there.
LEMMA Payable ==
  ASSUME ReserveType, ReserveInv, NEW e \in Epochs, Started(e), NEW amount \in Nat,
         IF e \in released THEN Let(e) + amount <= Weekly[e] ELSE amount <= Weekly[e]
  PROVE  UnderCeiling(amount) /\ amount <= sgage["emissions"]
<1> DEFINE f == [x \in Epochs |-> Let(x)]
           R == released \cup {e}
           g == [x \in Epochs |-> IF x = e THEN Weekly[x] - (IF e \in released THEN Let(e) ELSE 0) ELSE 0]
           U == UpTo(CurrentEpoch)
<1>1. CurrentEpoch \in Nat /\ \A x \in Epochs : Started(x) => x <= CurrentEpoch
  BY CurrentEpochIs
<1>2. U \in SUBSET Epochs /\ IsFiniteSet(U) /\ R \in SUBSET U
  BY <1>1, UpToIs DEF ReserveInv, ReserveType
<1>3. \A x \in Epochs : Let(x) \in Nat /\ Let(x) <= Weekly[x] /\ Weekly[x] \in Nat
  BY LetOut
<1>4. totalOut = SumFunctionOnSet(f, released) /\ totalOut \in Int
      /\ sgage["emissions"] = PrefixSum(WEEKS) - totalOut /\ PrefixSum(WEEKS) \in Int
  BY TotalIs
<1>5. IsFiniteSet(released) /\ IsFiniteSet(R) /\ released \in SUBSET Epochs /\ R \in SUBSET Epochs
  BY <1>2, EpochsFinite, FS_Subset DEF ReserveType
<1>6. totalOut + amount <= SumFunctionOnSet(Weekly, R)
  <2>1. CASE e \in released
    <3>1. R = released
      BY <2>1
    <3>2. SumFunctionOnSet(Weekly, released) = Weekly[e] + SumFunctionOnSet(Weekly, released \ {e})
      <4>1. \A x \in released : Weekly[x] \in Int
        BY <1>3, <1>5
      <4> QED BY <1>5, <2>1, <4>1, SumRemove
    <3>3. SumFunctionOnSet(f, released) = Let(e) + SumFunctionOnSet(f, released \ {e})
      <4>1. \A x \in released : f[x] \in Int
        BY <1>3, <1>5
      <4>2. f[e] = Let(e)
        OBVIOUS
      <4> HIDE DEF f
      <4> QED BY <1>5, <2>1, <4>1, <4>2, SumRemove
    <3>4. IsFiniteSet(released \ {e}) /\ \A x \in released \ {e} : f[x] \in Int /\ Weekly[x] \in Int /\ f[x] <= Weekly[x]
      BY <1>3, <1>5, FS_RemoveElement
    <3>5. /\ SumFunctionOnSet(f, released \ {e}) <= SumFunctionOnSet(Weekly, released \ {e})
          /\ SumFunctionOnSet(f, released \ {e}) \in Int /\ SumFunctionOnSet(Weekly, released \ {e}) \in Int
      <4> HIDE DEF f
      <4> QED BY <3>4, SumLeq, SumType
    <3>6. Let(e) + amount <= Weekly[e] /\ Let(e) \in Nat /\ Weekly[e] \in Nat
      BY <1>3, <2>1
    <3> HIDE DEF f, R
    <3> QED BY <1>4, <3>1, <3>2, <3>3, <3>5, <3>6
  <2>2. CASE e \notin released
    <3>1. SumFunctionOnSet(Weekly, R) = Weekly[e] + SumFunctionOnSet(Weekly, released)
      <4>1. \A x \in R : Weekly[x] \in Int
        BY <1>3, <1>5
      <4>2. R \ {e} = released /\ e \in R
        BY <2>2
      <4> HIDE DEF R
      <4>3. SumFunctionOnSet(Weekly, R) = Weekly[e] + SumFunctionOnSet(Weekly, R \ {e})
        BY <1>5, <4>1, <4>2, SumRemove
      <4> QED BY <4>2, <4>3
    <3>2. \A x \in released : f[x] \in Int /\ Weekly[x] \in Int /\ f[x] <= Weekly[x]
      BY <1>3, <1>5
    <3>3. SumFunctionOnSet(f, released) <= SumFunctionOnSet(Weekly, released) /\ SumFunctionOnSet(Weekly, released) \in Int
      <4> HIDE DEF f
      <4> QED BY <1>5, <3>2, SumLeq, SumType
    <3>4. amount <= Weekly[e] /\ Weekly[e] \in Nat
      BY <1>3, <2>2
    <3> HIDE DEF f, R
    <3> QED BY <1>4, <3>1, <3>3, <3>4
  <2> QED BY <2>1, <2>2
<1>7. SumFunctionOnSet(Weekly, R) <= SumFunctionOnSet(Weekly, U) /\ SumFunctionOnSet(Weekly, R) \in Int
  <2>1. \A x \in U : Weekly[x] \in Nat
    BY <1>2, <1>3
  <2>2. \A x \in R : Weekly[x] \in Int
    BY <1>3, <1>5
  <2> HIDE DEF U, R
  <2> QED BY <1>2, <1>5, <2>1, <2>2, SumPart, SumType
<1>8. SumFunctionOnSet(Weekly, U) = PrefixSum(CurrentEpoch) /\ PrefixSum(CurrentEpoch) \in Int
  <2>1. \A x \in U : Weekly[x] \in Int
    BY <1>2, <1>3
  <2>2. SumFunctionOnSet(Weekly, U) \in Int
    <3> HIDE DEF U
    <3> QED BY <1>2, <2>1, SumType
  <2> QED BY <2>2 DEF PrefixSum, UpTo
<1>9. PrefixSum(CurrentEpoch) <= PrefixSum(WEEKS)
  <2>1. UpTo(WEEKS) = Epochs
    <3>1. WEEKS \in Nat /\ \A x \in Epochs : x <= WEEKS
      BY EmissionsAssumption DEF Epochs
    <3> QED BY <3>1, UpToIs
  <2>2. SumFunctionOnSet(Weekly, U) <= SumFunctionOnSet(Weekly, Epochs)
    <3>1. \A x \in Epochs : Weekly[x] \in Nat
      BY <1>3
    <3> HIDE DEF U
    <3> QED BY <1>2, <3>1, EpochsFinite, SumPart
  <2>3. PrefixSum(WEEKS) = SumFunctionOnSet(Weekly, Epochs)
    BY <2>1 DEF PrefixSum, UpTo
  <2> QED BY <1>8, <2>2, <2>3
<1> HIDE DEF R, U, f
<1> QED BY <1>4, <1>6, <1>7, <1>8, <1>9 DEF UnderCeiling

\* No release or rollover is ever refused by the ceiling or by the balance.
LEMMA CeilingNeverBites ==
  ASSUME ReserveType, ReserveInv
  PROVE  BudgetsStayPayable
<1>1. ASSUME NEW e \in StartedUnreleased
      PROVE  UnderCeiling(LiquidityBudget(e)) /\ LiquidityBudget(e) <= sgage["emissions"]
  <2>1. e \in Epochs /\ e \notin released /\ Started(e)
    BY <1>1 DEF StartedUnreleased
  <2>2. LiquidityBudget(e) \in Nat /\ LiquidityBudget(e) <= Weekly[e]
    <3>1. /\ LiquidityBudget(e) \in Nat /\ DealBudget(e, "TERM7") \in Nat /\ DealBudget(e, "TERM21") \in Nat
          /\ LiquidityBudget(e) + DealBudget(e, "TERM7") + DealBudget(e, "TERM21") = Weekly[e]
      BY <2>1, Budgets, TermsAre
    <3> QED BY <3>1
  <2> QED BY <2>1, <2>2, Payable
<1>2. ASSUME NEW e \in released \ rolledOver
      PROVE  /\ UnderCeiling(Remaining(e, "TERM7") + Remaining(e, "TERM21"))
             /\ Remaining(e, "TERM7") + Remaining(e, "TERM21") <= sgage["emissions"]
  <2>1. e \in Epochs /\ e \in released /\ Started(e)
    BY <1>2 DEF ReserveInv, ReserveType
  <2>2. /\ Remaining(e, "TERM7") \in Nat /\ Remaining(e, "TERM21") \in Nat /\ Let(e) \in Nat /\ Weekly[e] \in Nat
        /\ Let(e) + Remaining(e, "TERM7") + Remaining(e, "TERM21") = Weekly[e]
    BY <2>1, LetOut, TermsAre
  <2> DEFINE amount == Remaining(e, "TERM7") + Remaining(e, "TERM21")
  <2>3. amount \in Nat /\ Let(e) + amount <= Weekly[e]
    BY <2>2
  <2> HIDE DEF amount
  <2>4. UnderCeiling(amount) /\ amount <= sgage["emissions"]
    BY <2>1, <2>3, Payable
  <2> QED BY <2>4 DEF amount
<1> QED BY <1>1, <1>2 DEF BudgetsStayPayable

\* The last burn finds nothing left: every epoch let out all of its amount.
LEMMA NothingLeft ==
  ASSUME ReserveType, ReserveInv, Finalize
  PROVE  sgage["emissions"] = 0 /\ UNCHANGED emissionVars /\ sgage' = Burned(sgage, "emissions", 0)
<1>1. released = Epochs /\ rolledOver = Epochs
  BY DEF Finalize, ReserveType
<1>2. totalOut = SumFunctionOnSet([e \in Epochs |-> Let(e)], Epochs)
      /\ sgage["emissions"] = PrefixSum(WEEKS) - totalOut /\ PrefixSum(WEEKS) \in Int
  BY <1>1, TotalIs
<1>3. \A e \in Epochs : [x \in Epochs |-> Let(x)][e] = Weekly[e]
  BY <1>1, LetOut
<1>4. totalOut = SumFunctionOnSet(Weekly, Epochs)
  <2> DEFINE f == [e \in Epochs |-> Let(e)]
  <2>1. \A e \in Epochs : f[e] = Weekly[e]
    BY <1>3
  <2> HIDE DEF f
  <2>2. SumFunctionOnSet(f, Epochs) = SumFunctionOnSet(Weekly, Epochs)
    BY <2>1, EpochsFinite, SumSame
  <2> QED BY <1>2, <2>2 DEF f
<1>5. PrefixSum(WEEKS) = SumFunctionOnSet(Weekly, Epochs)
  <2>1. WEEKS \in Nat /\ \A x \in Epochs : x <= WEEKS
    BY EmissionsAssumption DEF Epochs
  <2>2. UpTo(WEEKS) = Epochs
    BY <2>1, UpToIs
  <2> QED BY <2>2 DEF PrefixSum, UpTo
<1>6. sgage["emissions"] = 0
  BY <1>2, <1>4, <1>5
<1> QED BY <1>6 DEF Finalize, Settled

(***************************************************************************)
(* Drips.                                                                  *)
(***************************************************************************)
DripRecord == [total : Nat, start : Nat, length : Nat, claimed : Nat]

DripsType == drips \in [DripIds -> DripRecord] /\ totalLocked \in Int

DripsInv ==
  /\ \A id \in DripIds : drips[id].total > 0 => drips[id].length > 0
  /\ DripsAreBacked

Quadratic(n, e, l) == (n * e * e) \div (l * l)

LEMMA SquareGrows == \A e, f, n \in Nat : e <= f => n * e * e <= n * f * f /\ n * e * e \in Nat
<1>1. SUFFICES ASSUME NEW e \in Nat, NEW f \in Nat, NEW n \in Nat, e <= f
               PROVE  n * e * e <= n * f * f /\ n * e * e \in Nat
  OBVIOUS
<1>2. \A x, y, m \in Nat : x <= y => m * x <= m * y /\ x * m <= y * m
  OBVIOUS
<1>3. \A x, y \in Nat : x * y \in Nat
  OBVIOUS
<1> DEFINE a == n * e
           b == n * f
<1>4. a \in Nat /\ b \in Nat /\ a <= b
  BY <1>1, <1>2, <1>3
<1> HIDE DEF a, b
<1>5. a * e <= a * f /\ a * f <= b * f /\ a * e \in Nat /\ a * f \in Nat /\ b * f \in Nat
  BY <1>1, <1>2, <1>3, <1>4
<1>6. a * e <= b * f
  BY <1>5
<1> QED BY <1>5, <1>6 DEF a, b

LEMMA QuadraticIs ==
  ASSUME NEW n \in Nat, NEW e \in Nat, NEW l \in Nat \ {0}, e <= l
  PROVE  /\ Quadratic(n, e, l) \in 0 .. n
         /\ 2 * e <= l => 4 * Quadratic(n, e, l) <= n
         /\ \A f \in Nat : e <= f /\ f <= l => Quadratic(n, e, l) <= Quadratic(n, f, l)
<1> DEFINE d == l * l
           q == (n * e * e) \div d
<1>1. d \in Nat \ {0}
  OBVIOUS
<1>2. n * e * e \in Nat /\ n * l * l \in Nat /\ n * e * e <= n * l * l
  BY SquareGrows
<1>3. n * l * l = n * d
  OBVIOUS
<1>4. \A x \in Nat, m \in Nat \ {0} : x \div m \in Nat /\ (x \div m) * m <= x
  OBVIOUS
<1>5. \A x, y \in Nat, m \in Nat \ {0} : x * m <= y * m => x <= y
  OBVIOUS
<1>6. \A x, y \in Nat, m \in Nat \ {0} : x <= y => x \div m <= y \div m
  OBVIOUS
<1>7. q \in Nat /\ q * d <= n * e * e
  <2> HIDE DEF d
  <2> QED BY <1>1, <1>2, <1>4
<1>8. q <= n
  <2> HIDE DEF d, q
  <2>1. q * d \in Nat /\ n * d \in Nat
    BY <1>1, <1>7, ProductNat
  <2>2. q * d <= n * d
    BY <1>2, <1>3, <1>7, <2>1
  <2> QED BY <1>1, <1>5, <1>7, <2>2
<1>9. 2 * e <= l => 4 * q <= n
  <2>1. SUFFICES ASSUME 2 * e <= l PROVE 4 * q <= n
    OBVIOUS
  <2>2. n * (2 * e) * (2 * e) <= n * l * l
    BY <2>1, SquareGrows, 2 * e \in Nat
  <2>3. n * (2 * e) * (2 * e) = 4 * (n * e * e)
    OBVIOUS
  <2> HIDE DEF d, q
  <2>4. q * d \in Nat /\ n * d \in Nat /\ (4 * q) * d = 4 * (q * d)
    BY <1>1, <1>7, ProductNat
  <2>5. (4 * q) * d <= n * d
    BY <1>2, <1>3, <1>7, <2>2, <2>3, <2>4
  <2> QED BY <1>1, <1>5, <1>7, <2>5
<1>10. ASSUME NEW f \in Nat, e <= f, f <= l PROVE q <= (n * f * f) \div d
  <2>1. n * e * e <= n * f * f /\ n * f * f \in Nat
    BY <1>10, SquareGrows
  <2> HIDE DEF d
  <2> QED BY <1>1, <1>2, <1>6, <2>1
<1> QED BY <1>7, <1>8, <1>9, <1>10 DEF Quadratic

\* What a drip has unlocked at t.
UnlockedAt(d, t) ==
  LET e == t - d.start
  IN  IF d.total = 0 \/ e <= 0 THEN 0 ELSE IF e >= d.length THEN d.total ELSE Quadratic(d.total, e, d.length)

LEMMA UnlockedNow == ASSUME NEW d PROVE Unlocked(d) = UnlockedAt(d, now) /\ Unlocked(d)' = UnlockedAt(d', now')
BY DEF Unlocked, UnlockedAt, Quadratic

LEMMA UnlockedIs ==
  ASSUME NEW d \in DripRecord, d.total > 0 => d.length > 0, NEW t \in Nat
  PROVE  /\ UnlockedAt(d, t) \in 0 .. d.total
         /\ 2 * (t - d.start) <= d.length => 4 * UnlockedAt(d, t) <= d.total
         /\ \A u \in Nat : t <= u => UnlockedAt(d, t) <= UnlockedAt(d, u)
<1>1. d.total \in Nat /\ d.start \in Nat /\ d.length \in Nat
  BY DEF DripRecord
<1>2. CASE d.total = 0
  BY <1>1, <1>2 DEF UnlockedAt
<1>3. CASE d.total > 0
  <2>1. d.length \in Nat \ {0}
    BY <1>1, <1>3
  <2> DEFINE e == t - d.start
  <2>2. ASSUME NEW x \in Nat, x - d.start > 0, x - d.start < d.length
        PROVE  /\ UnlockedAt(d, x) = Quadratic(d.total, x - d.start, d.length)
               /\ UnlockedAt(d, x) \in 0 .. d.total
               /\ 2 * (x - d.start) <= d.length => 4 * UnlockedAt(d, x) <= d.total
               /\ \A f \in Nat : x - d.start <= f /\ f <= d.length => UnlockedAt(d, x) <= Quadratic(d.total, f, d.length)
    <3> DEFINE n == x - d.start
    <3>1. n \in Nat /\ n <= d.length
      BY <1>1, <2>2
    <3>2. UnlockedAt(d, x) = Quadratic(d.total, n, d.length)
      BY <1>1, <1>3, <2>2 DEF UnlockedAt
    <3> HIDE DEF n
    <3>3. /\ Quadratic(d.total, n, d.length) \in 0 .. d.total
          /\ 2 * n <= d.length => 4 * Quadratic(d.total, n, d.length) <= d.total
          /\ \A f \in Nat : n <= f /\ f <= d.length => Quadratic(d.total, n, d.length) <= Quadratic(d.total, f, d.length)
      BY <1>1, <2>1, <3>1, QuadraticIs
    <3> QED BY <3>2, <3>3 DEF n
  <2>3. ASSUME NEW x \in Nat, x - d.start >= d.length
        PROVE  UnlockedAt(d, x) = d.total
    BY <1>1, <1>3, <2>1, <2>3 DEF UnlockedAt
  <2>4. ASSUME NEW x \in Nat, x - d.start <= 0
        PROVE  UnlockedAt(d, x) = 0
    BY <1>1, <2>4 DEF UnlockedAt
  <2>5. \A x \in Nat : UnlockedAt(d, x) \in 0 .. d.total
    <3>1. SUFFICES ASSUME NEW x \in Nat PROVE UnlockedAt(d, x) \in 0 .. d.total
      OBVIOUS
    <3>2. x - d.start <= 0 \/ x - d.start >= d.length \/ (x - d.start > 0 /\ x - d.start < d.length)
      BY <1>1
    <3> QED BY <1>1, <2>2, <2>3, <2>4, <3>2
  <2>6. 2 * (t - d.start) <= d.length => 4 * UnlockedAt(d, t) <= d.total
    <3>1. t - d.start <= 0 \/ t - d.start >= d.length \/ (t - d.start > 0 /\ t - d.start < d.length)
      BY <1>1
    <3>2. t - d.start >= d.length => ~ (2 * (t - d.start) <= d.length)
      BY <1>1, <2>1
    <3> QED BY <1>1, <2>2, <2>4, <3>1, <3>2
  <2>7. ASSUME NEW u \in Nat, t <= u PROVE UnlockedAt(d, t) <= UnlockedAt(d, u)
    <3>1. UnlockedAt(d, t) \in 0 .. d.total /\ UnlockedAt(d, u) \in 0 .. d.total
      BY <2>5
    <3>2. CASE t - d.start <= 0
      BY <1>1, <2>4, <3>1, <3>2
    <3>3. CASE u - d.start >= d.length
      BY <1>1, <2>3, <3>1, <3>3
    <3>4. CASE t - d.start > 0 /\ u - d.start < d.length
      <4>1. /\ u - d.start \in Nat /\ u - d.start > 0 /\ t - d.start < d.length
            /\ t - d.start <= u - d.start /\ u - d.start <= d.length
        BY <1>1, <2>7, <3>4
      <4> QED BY <2>2, <3>4, <4>1
    <3> QED BY <1>1, <3>2, <3>3, <3>4
  <2> QED BY <2>5, <2>6, <2>7
<1> QED BY <1>1, <1>2, <1>3

\* The per-drip part of DripsInv, and the sum that totalLocked stands for.
DripFine(d) ==
  /\ d.total > 0 => d.length > 0
  /\ d.claimed <= Unlocked(d)

Locked == [id \in DripIds |-> drips[id].total - drips[id].claimed]

LEMMA DripsTypeIs ==
  ASSUME DripsType, NEW id \in DripIds
  PROVE  /\ drips[id] \in DripRecord
         /\ drips[id].total \in Nat /\ drips[id].claimed \in Nat /\ drips[id].length \in Nat /\ drips[id].start \in Nat
         /\ Locked[id] \in Int
BY DEF DripsType, DripRecord, Locked

\* What DripsInv says of each drip follows from its being fine.
LEMMA DripsNext ==
  ASSUME DripsType', now' \in Nat,
         \A id \in DripIds : DripFine(drips[id])',
         sgage'["drip"] = totalLocked',
         totalLocked' = SumFunctionOnSet(Locked', DripIds)
  PROVE  DripsInv'
<1>1. \A id \in DripIds : /\ drips'[id] \in DripRecord
                          /\ drips'[id].total > 0 => drips'[id].length > 0
                          /\ drips'[id].claimed <= Unlocked(drips[id])'
  BY DEF DripsType, DripFine
<1>2. ASSUME NEW id \in DripIds
      PROVE  2 * (now' - drips'[id].start) <= drips'[id].length => 4 * Unlocked(drips[id])' <= drips'[id].total
  BY <1>1, UnlockedIs, UnlockedNow
<1>3. totalLocked' = SumFunction([id \in DripIds |-> drips[id].total - drips[id].claimed])'
  BY DEF SumFunction, Locked
<1>4. DripsAreBacked'
  BY <1>1, <1>2, <1>3 DEF DripsAreBacked
<1> QED BY <1>1, <1>4 DEF DripsInv

LEMMA DripsAre ==
  ASSUME DripsType, DripsInv
  PROVE  /\ \A id \in DripIds : DripFine(drips[id])
         /\ sgage["drip"] = totalLocked
         /\ totalLocked = SumFunctionOnSet(Locked, DripIds)
BY DEF DripsInv, DripsAreBacked, DripFine, Locked, SumFunction

\* No grant and no claim.
LEMMA DripsUntouched ==
  ASSUME DripsType, DripsInv, UNCHANGED dripVars, sgage'["drip"] = sgage["drip"],
         now \in Nat, now' \in Nat, now <= now'
  PROVE  DripsType' /\ DripsInv'
<1>1. drips' = drips /\ totalLocked' = totalLocked
  BY DEF dripVars
<1>2. DripsType'
  BY <1>1 DEF DripsType
<1>3. ASSUME NEW id \in DripIds PROVE DripFine(drips[id])'
  <2>1. drips[id] \in DripRecord /\ DripFine(drips[id])
    BY DripsTypeIs, DripsAre
  <2>2. UnlockedAt(drips[id], now) <= UnlockedAt(drips[id], now')
    BY <2>1, UnlockedIs DEF DripFine
  <2>3. UnlockedAt(drips[id], now) \in Nat /\ UnlockedAt(drips[id], now') \in Nat
    <3>1. drips[id].total \in Nat
      BY DripsTypeIs
    <3>2. UnlockedAt(drips[id], now) \in 0 .. drips[id].total /\ UnlockedAt(drips[id], now') \in 0 .. drips[id].total
      BY <2>1, UnlockedIs DEF DripFine
    <3> QED BY <3>1, <3>2
  <2>4. Unlocked(drips[id]) = UnlockedAt(drips[id], now) /\ Unlocked(drips[id])' = UnlockedAt(drips[id], now')
    BY <1>1, UnlockedNow
  <2>5. drips[id].claimed \in Nat
    BY DripsTypeIs
  <2>6. drips[id].claimed <= Unlocked(drips[id])'
    BY <2>1, <2>2, <2>3, <2>4, <2>5 DEF DripFine
  <2> QED BY <1>1, <2>1, <2>6 DEF DripFine
<1>4. totalLocked' = SumFunctionOnSet(Locked', DripIds)
  <2>1. Locked' = Locked
    BY <1>1 DEF Locked
  <2> QED BY <1>1, <2>1, DripsAre
<1>5. sgage'["drip"] = totalLocked'
  BY <1>1, DripsAre
<1> QED BY <1>2, <1>3, <1>4, <1>5, DripsNext

\* Grants of what is sent to the drips.
LEMMA DripsGranted ==
  ASSUME DripsType, DripsInv, NEW grant, grant \in [DOMAIN grant -> Nat],
         NEW start \in Nat, NEW length \in Nat, GrantAll(grant, start, length),
         sgage'["drip"] = sgage["drip"] + SumFunction(grant), now \in Nat, now' = now
  PROVE  DripsType' /\ DripsInv'
<1> DEFINE G == DOMAIN grant
           fresh(id) == [total |-> grant[id], start |-> start, length |-> length, claimed |-> 0]
<1>1. /\ G \in SUBSET DripIds /\ length > 0
      /\ \A id \in G : drips[id].total = 0
      /\ drips' = [id \in DripIds |-> IF id \in G THEN fresh(id) ELSE drips[id]]
      /\ totalLocked' = totalLocked + SumFunctionOnSet(grant, G)
  BY DEF GrantAll, Grantable, SumFunction
<1>2. IsFiniteSet(DripIds) /\ IsFiniteSet(G)
  BY <1>1, EmissionsAssumption, FS_Subset
<1>3. ASSUME NEW id \in G PROVE grant[id] \in Nat /\ fresh(id) \in DripRecord
  BY <1>1 DEF DripRecord
<1>4. SumFunctionOnSet(grant, G) \in Int
  BY <1>2, <1>3, SumType
<1>5. DripsType'
  <2>1. \A id \in DripIds : drips'[id] \in DripRecord
    BY <1>1, <1>3 DEF DripsType
  <2>2. drips' \in [DripIds -> DripRecord]
    BY <1>1, <2>1
  <2>3. totalLocked' \in Int
    BY <1>1, <1>4 DEF DripsType
  <2> QED BY <2>2, <2>3 DEF DripsType
<1>6. ASSUME NEW id \in DripIds PROVE DripFine(drips[id])'
  <2>1. CASE id \in G
    <3>1. drips'[id] = fresh(id)
      BY <1>1, <2>1
    <3>2. fresh(id) \in DripRecord /\ fresh(id).length > 0 /\ fresh(id).claimed = 0 /\ fresh(id).total \in Nat
      BY <1>1, <1>3, <2>1
    <3>3. UnlockedAt(fresh(id), now') \in 0 .. fresh(id).total
      BY <3>2, UnlockedIs
    <3>4. Unlocked(drips[id])' = UnlockedAt(fresh(id), now')
      BY <3>1, UnlockedNow
    <3>5. fresh(id).claimed <= Unlocked(drips[id])'
      BY <3>2, <3>3, <3>4
    <3> QED BY <3>1, <3>2, <3>5 DEF DripFine
  <2>2. CASE id \notin G
    <3>1. drips'[id] = drips[id]
      BY <1>1, <2>2
    <3>2. DripFine(drips[id])
      BY DripsAre
    <3>3. Unlocked(drips[id])' = UnlockedAt(drips[id], now) /\ Unlocked(drips[id]) = UnlockedAt(drips[id], now)
      BY <3>1, UnlockedNow
    <3> QED BY <3>1, <3>2, <3>3 DEF DripFine
  <2> QED BY <2>1, <2>2
<1>7. SumFunctionOnSet(Locked', DripIds) = SumFunctionOnSet(Locked, DripIds) + SumFunctionOnSet(grant, G)
  <2> DEFINE p == [id \in DripIds |-> IF id \in G THEN grant[id] ELSE 0]
  <2>1. ASSUME NEW id \in DripIds PROVE Locked'[id] = Locked[id] + p[id] /\ Locked[id] \in Int /\ p[id] \in Int
    <3>1. Locked[id] = drips[id].total - drips[id].claimed /\ Locked'[id] = drips'[id].total - drips'[id].claimed
      BY DEF Locked
    <3>2. Locked[id] \in Int /\ drips[id].total \in Nat /\ drips[id].claimed \in Nat
      BY DripsTypeIs
    <3>3. CASE id \in G
      <4>1. drips[id].claimed = 0
        <5>1. UnlockedAt(drips[id], now) \in 0 .. drips[id].total
          BY DripsTypeIs, DripsAre, UnlockedIs DEF DripFine
        <5>2. drips[id].claimed <= UnlockedAt(drips[id], now)
          BY DripsAre, UnlockedNow DEF DripFine
        <5> QED BY <1>1, <3>2, <3>3, <5>1, <5>2
      <4>2. drips'[id].total = grant[id] /\ drips'[id].claimed = 0 /\ grant[id] \in Nat
        BY <1>1, <1>3, <3>3
      <4> QED BY <1>1, <3>1, <3>2, <3>3, <4>1, <4>2
    <3>4. CASE id \notin G
      BY <1>1, <3>1, <3>2, <3>4
    <3> QED BY <3>3, <3>4
  <2>2. /\ \A id \in DripIds : p[id] \in Int
        /\ \A id \in DripIds \ G : p[id] = 0
        /\ \A id \in G : p[id] = grant[id]
    BY <1>1, <2>1
  <2> HIDE DEF p, G
  <2>3. SumFunctionOnSet(Locked', DripIds) = SumFunctionOnSet(Locked, DripIds) + SumFunctionOnSet(p, DripIds)
    BY <1>2, <2>1, SumPlus
  <2>4. SumFunctionOnSet(p, DripIds) = SumFunctionOnSet(p, G)
    BY <1>1, <1>2, <2>2, SumPad
  <2>5. SumFunctionOnSet(p, G) = SumFunctionOnSet(grant, G)
    BY <1>2, <2>2, SumSame
  <2> QED BY <2>3, <2>4, <2>5
<1>8. totalLocked' = SumFunctionOnSet(Locked', DripIds)
  BY <1>1, <1>7, DripsAre
<1>9. sgage'["drip"] = totalLocked'
  BY <1>1, DripsAre DEF SumFunction
<1> QED BY <1>5, <1>6, <1>8, <1>9, DripsNext

\* A claim takes out what it marks as claimed.
LEMMA DripsClaimed ==
  ASSUME DripsType, DripsInv, ReserveType, NEW account, NEW ids \in SUBSET DripIds, Claim(account, ids), now' = now
  PROVE  /\ DripsType' /\ DripsInv'
         /\ sgage' \in [Holders -> Nat]
         /\ sgage'["emissions"] = sgage["emissions"] /\ sgage'["lpRewards"] = sgage["lpRewards"]
         /\ \A id \in DripIds : drips'[id].total = drips[id].total /\ drips'[id].start = drips[id].start
<1> DEFINE c == [id \in ids |-> Claimable(id)]
           amount == SumFunctionOnSet(c, ids)
<1>1. /\ drips' = [id \in DripIds |-> IF id \in ids THEN [drips[id] EXCEPT !.claimed = @ + Claimable(id)] ELSE drips[id]]
      /\ totalLocked' = totalLocked - amount
      /\ Settled(Paid(sgage, "drip", People, amount))
  BY DEF Claim, SumFunction
<1>2. now \in Nat /\ sgage \in [Holders -> Int]
  BY DEF ReserveType
<1>3. IsFiniteSet(DripIds) /\ IsFiniteSet(ids)
  BY EmissionsAssumption, FS_Subset
<1>4. ASSUME NEW id \in DripIds
      PROVE  /\ drips[id].claimed \in Nat /\ Claimable(id) \in Nat
             /\ drips[id].claimed + Claimable(id) = Unlocked(drips[id])
  <2>1. Unlocked(drips[id]) \in 0 .. drips[id].total
    BY <1>2, DripsTypeIs, DripsAre, UnlockedIs, UnlockedNow DEF DripFine
  <2>2. drips[id].claimed \in Nat /\ drips[id].claimed <= Unlocked(drips[id]) /\ drips[id].total \in Nat
    BY DripsTypeIs, DripsAre DEF DripFine
  <2> QED BY <2>1, <2>2 DEF Claimable
<1>5. ASSUME NEW id \in DripIds
      PROVE  /\ drips'[id] \in DripRecord
             /\ drips'[id].total = drips[id].total /\ drips'[id].start = drips[id].start
             /\ drips'[id].length = drips[id].length
             /\ drips'[id].claimed = IF id \in ids THEN drips[id].claimed + Claimable(id) ELSE drips[id].claimed
  BY <1>1, <1>4 DEF DripsType, DripRecord
<1>6. amount \in Int
  <2>1. \A id \in ids : c[id] \in Int
    BY <1>4
  <2> HIDE DEF c
  <2> QED BY <1>3, <2>1, SumType
<1>7. DripsType'
  <2>1. drips' \in [DripIds -> DripRecord]
    BY <1>1, <1>5
  <2>2. totalLocked' \in Int
    <3> HIDE DEF amount
    <3> QED BY <1>1, <1>6 DEF DripsType
  <2> QED BY <2>1, <2>2 DEF DripsType
<1>8. ASSUME NEW id \in DripIds PROVE DripFine(drips[id])'
  <2>1. UnlockedAt(drips'[id], now) = UnlockedAt(drips[id], now)
    BY <1>5 DEF UnlockedAt
  <2>2. Unlocked(drips[id])' = Unlocked(drips[id])
    BY <2>1, UnlockedNow
  <2>3. DripFine(drips[id]) /\ Unlocked(drips[id]) = drips[id].claimed + Claimable(id)
        /\ drips[id].claimed \in Nat /\ Claimable(id) \in Nat
    BY <1>4, DripsAre
  <2>4. drips'[id].claimed <= Unlocked(drips[id])'
    BY <1>5, <2>2, <2>3
  <2> QED BY <1>5, <2>3, <2>4 DEF DripFine
<1>9. SumFunctionOnSet(Locked', DripIds) = SumFunctionOnSet(Locked, DripIds) - amount
  <2> DEFINE p == [id \in DripIds |-> IF id \in ids THEN Claimable(id) ELSE 0]
  <2>1. ASSUME NEW id \in DripIds PROVE Locked[id] = Locked'[id] + p[id] /\ Locked'[id] \in Int /\ p[id] \in Int
    <3>1. Locked[id] = drips[id].total - drips[id].claimed /\ Locked'[id] = drips'[id].total - drips'[id].claimed
      BY DEF Locked
    <3>2. drips[id].total \in Nat
      BY DripsTypeIs
    <3> QED BY <1>4, <1>5, <3>1, <3>2
  <2>2. /\ \A id \in DripIds : p[id] \in Int
        /\ \A id \in DripIds \ ids : p[id] = 0
        /\ \A id \in ids : p[id] = c[id]
    BY <2>1
  <2> HIDE DEF p, c
  <2>3. SumFunctionOnSet(Locked, DripIds) = SumFunctionOnSet(Locked', DripIds) + SumFunctionOnSet(p, DripIds)
    BY <1>3, <2>1, SumPlus
  <2>4. SumFunctionOnSet(p, DripIds) = SumFunctionOnSet(p, ids)
    BY <1>3, <2>2, SumPad
  <2>5. SumFunctionOnSet(p, ids) = SumFunctionOnSet(c, ids)
    BY <1>3, <2>2, SumSame
  <2>6. SumFunctionOnSet(Locked', DripIds) \in Int
    BY <1>3, <2>1, SumType
  <2> QED BY <1>6, <2>3, <2>4, <2>5, <2>6
<1> HIDE DEF amount
<1>10. totalLocked' = SumFunctionOnSet(Locked', DripIds)
  BY <1>1, <1>9, DripsAre
<1>11. /\ sgage' \in [Holders -> Nat] /\ sgage'["drip"] = sgage["drip"] - amount
       /\ sgage'["emissions"] = sgage["emissions"] /\ sgage'["lpRewards"] = sgage["lpRewards"]
  <2> DEFINE b == Paid(sgage, "drip", People, amount)
  <2>1. /\ b \in [Holders -> Int]
        /\ b["drip"] = sgage["drip"] - amount
        /\ b["emissions"] = sgage["emissions"] /\ b["lpRewards"] = sgage["lpRewards"]
    <3>1. sgage \in [Holders -> Int] /\ amount \in Int
      BY <1>2, <1>6
    <3>2. b \in [Holders -> Int] /\ b["drip"] = sgage["drip"] - amount
      BY <3>1, TheHolders DEF Paid
    <3>3. b["emissions"] = sgage["emissions"]
      BY <3>1, TheHolders DEF Paid
    <3>4. b["lpRewards"] = sgage["lpRewards"]
      BY <3>1, TheHolders DEF Paid
    <3> QED BY <3>2, <3>3, <3>4
  <2> HIDE DEF b
  <2>2. sgage' = b /\ sgage' \in [Holders -> Nat]
    BY <1>1, <2>1, SettledIs DEF b
  <2> QED BY <2>1, <2>2
<1>12. sgage'["drip"] = totalLocked'
  BY <1>1, <1>11, DripsAre
<1>13. DripsInv'
  BY <1>2, <1>7, <1>8, <1>10, <1>12, DripsNext
<1> QED BY <1>5, <1>7, <1>11, <1>13

(***************************************************************************)
(* Rewards of positions.  A position is owed what it accrued and, at the   *)
(* accumulators of g, its weight times what they grew since it was settled *)
(* (Scaled, in units of 1 / PRECISION).  Sound says that what the          *)
(* positions ps are owed, with what nobody earned, is within a budget.     *)
(***************************************************************************)
PosRecord == [weight : Nat, ePaid : Nat, lPaid : Nat, emissions : Nat, lump : Nat, nonce : Nat]

\* A record of the pool; its seed and its next epoch may be anything.
PoolRecord(g) ==
  g \in [ePer : Nat, lPer : Nat, totalWeight : Nat, undistributed : Nat, lastUpdate : Nat,
         seed : {g.seed}, nextEpoch : {g.nextEpoch}]

Scaled(p, g) == PRECISION * (p.emissions + p.lump) + p.weight * ((g.ePer - p.ePaid) + (g.lPer - p.lPaid))

Owing(ps, g) == [t \in Tokens |-> Scaled(ps[t], g)]
Weights(ps) == [t \in Tokens |-> ps[t].weight]

PaidUp(p, g) == p \in PosRecord /\ p.ePaid <= g.ePer /\ p.lPaid <= g.lPer

Sound(ps, g, budget) ==
  /\ PoolRecord(g)
  /\ \A t \in Tokens : PaidUp(ps[t], g)
  /\ g.totalWeight = SumFunctionOnSet(Weights(ps), Tokens)
  /\ PRECISION * g.undistributed + SumFunctionOnSet(Owing(ps, g), Tokens) <= PRECISION * budget

LEMMA PoolRecordIs ==
  ASSUME NEW g, PoolRecord(g)
  PROVE  /\ g.ePer \in Nat /\ g.lPer \in Nat /\ g.totalWeight \in Nat /\ g.undistributed \in Nat
         /\ g.lastUpdate \in Nat
BY DEF PoolRecord

LEMMA TokensFinite == IsFiniteSet(Tokens) /\ PRECISION \in Nat \ {0}
BY LPAssumption

LEMMA ScaledIs ==
  ASSUME NEW p, NEW g, PoolRecord(g), PaidUp(p, g)
  PROVE  Scaled(p, g) \in Nat
<1>1. p.emissions + p.lump \in Nat /\ p.weight \in Nat
  BY DEF PaidUp, PosRecord
<1>2. (g.ePer - p.ePaid) + (g.lPer - p.lPaid) \in Nat
  BY PoolRecordIs DEF PaidUp, PosRecord
<1> QED BY <1>1, <1>2, TokensFinite, ProductNat DEF Scaled

\* The accrual of a position pays no more than it is owed.
LEMMA AccruedIs ==
  ASSUME NEW p, NEW g, PoolRecord(g), PaidUp(p, g)
  PROVE  /\ Accrued(p, g) \in PosRecord
         /\ Accrued(p, g).weight = p.weight /\ Accrued(p, g).nonce = p.nonce
         /\ Accrued(p, g).ePaid = g.ePer /\ Accrued(p, g).lPaid = g.lPer
         /\ PRECISION * (Accrued(p, g).emissions + Accrued(p, g).lump) <= Scaled(p, g)
<1> DEFINE a == g.ePer - p.ePaid
           b == g.lPer - p.lPaid
           x == (p.weight * a) \div PRECISION
           y == (p.weight * b) \div PRECISION
           q == Accrued(p, g)
<1>1. p \in PosRecord /\ p.emissions \in Nat /\ p.lump \in Nat /\ p.weight \in Nat /\ p.nonce \in Nat
  BY DEF PaidUp, PosRecord
<1>2. a \in Nat /\ b \in Nat /\ g.ePer \in Nat /\ g.lPer \in Nat
  BY PoolRecordIs DEF PaidUp, PosRecord
<1>3. /\ q = [p EXCEPT !.emissions = p.emissions + x, !.lump = p.lump + y, !.ePaid = g.ePer, !.lPaid = g.lPer]
  BY DEF Accrued
<1>4. Scaled(p, g) = PRECISION * (p.emissions + p.lump) + p.weight * (a + b)
  BY DEF Scaled
<1> HIDE DEF a, b
<1>5. p.weight * a \in Nat /\ p.weight * b \in Nat
  BY <1>1, <1>2, ProductNat
<1>6. x \in Nat /\ y \in Nat /\ x * PRECISION <= p.weight * a /\ y * PRECISION <= p.weight * b
  BY <1>5, TokensFinite, QuotientNat
<1> HIDE DEF x, y, q
<1>7. /\ q \in PosRecord /\ q.weight = p.weight /\ q.nonce = p.nonce /\ q.ePaid = g.ePer /\ q.lPaid = g.lPer
      /\ q.emissions = p.emissions + x /\ q.lump = p.lump + y
  <2> DEFINE r == [weight |-> p.weight, ePaid |-> g.ePer, lPaid |-> g.lPer,
                   emissions |-> p.emissions + x, lump |-> p.lump + y, nonce |-> p.nonce]
  <2>1. q = r
    BY <1>1, <1>3 DEF PosRecord
  <2>2. p.emissions + x \in Nat /\ p.lump + y \in Nat
    BY <1>1, <1>6
  <2> QED BY <1>1, <1>2, <2>1, <2>2 DEF PosRecord
<1>8. PRECISION * (q.emissions + q.lump) <= Scaled(p, g)
  <2>1. \A k, m, n, i, j \in Nat : k * ((m + i) + (n + j)) = k * (m + n) + i * k + j * k
    OBVIOUS
  <2>2. \A k, m, n \in Nat : k * (m + n) = k * m + k * n
    OBVIOUS
  <2>3. /\ PRECISION \in Nat /\ PRECISION * (p.emissions + p.lump) \in Nat
        /\ x * PRECISION \in Nat /\ y * PRECISION \in Nat
    BY <1>1, <1>6, TokensFinite, ProductNat
  <2>4. PRECISION * (q.emissions + q.lump) = PRECISION * (p.emissions + p.lump) + x * PRECISION + y * PRECISION
    BY <1>1, <1>6, <1>7, <2>1, <2>3
  <2>5. Scaled(p, g) = PRECISION * (p.emissions + p.lump) + p.weight * a + p.weight * b
    BY <1>1, <1>2, <1>4, <1>5, <2>2, <2>3
  <2> QED BY <1>5, <1>6, <2>3, <2>4, <2>5
<1> QED BY <1>7, <1>8 DEF q

\* Whatever happens to the positions: their debts grow by d at most, the budget by as much.
LEMMA SoundStep ==
  ASSUME NEW ps, NEW g, NEW b \in Int, Sound(ps, g, b),
         NEW qs, NEW h, NEW c \in Int, PoolRecord(h),
         \A t \in Tokens : PaidUp(qs[t], h),
         h.totalWeight = SumFunctionOnSet(Weights(qs), Tokens),
         NEW d, \A t \in Tokens : d[t] \in Int /\ Scaled(qs[t], h) <= Scaled(ps[t], g) + d[t],
         PRECISION * h.undistributed + SumFunctionOnSet(d, Tokens) + PRECISION * b
           <= PRECISION * g.undistributed + PRECISION * c
  PROVE  Sound(qs, h, c)
<1> DEFINE o == Owing(ps, g)
           n == Owing(qs, h)
           m == [t \in Tokens |-> o[t] + d[t]]
<1>1. PoolRecord(g) /\ PRECISION * g.undistributed + SumFunctionOnSet(o, Tokens) <= PRECISION * b
  BY DEF Sound
<1>2. ASSUME NEW t \in Tokens
      PROVE  o[t] \in Int /\ d[t] \in Int /\ m[t] = o[t] + d[t] /\ m[t] \in Int /\ n[t] \in Int /\ n[t] <= m[t]
  <2>1. Scaled(ps[t], g) \in Nat /\ Scaled(qs[t], h) \in Nat
    BY <1>1, ScaledIs DEF Sound
  <2> QED BY <2>1 DEF Owing
<1> HIDE DEF o, m, n
<1>3. SumFunctionOnSet(m, Tokens) = SumFunctionOnSet(o, Tokens) + SumFunctionOnSet(d, Tokens)
  BY <1>2, TokensFinite, SumPlus
<1>4. SumFunctionOnSet(n, Tokens) <= SumFunctionOnSet(m, Tokens)
  BY <1>2, TokensFinite, SumLeq
<1>5. SumFunctionOnSet(n, Tokens) \in Int /\ SumFunctionOnSet(o, Tokens) \in Int /\ SumFunctionOnSet(d, Tokens) \in Int
  BY <1>2, TokensFinite, SumType
<1>6. /\ PRECISION * g.undistributed \in Int /\ PRECISION * h.undistributed \in Int
      /\ PRECISION * b \in Int /\ PRECISION * c \in Int
  <2>1. \A x, y \in Int : x * y \in Int
    OBVIOUS
  <2>2. g.undistributed \in Int /\ h.undistributed \in Int /\ PRECISION \in Int
    BY <1>1, PoolRecordIs, TokensFinite
  <2>3. \A x \in Int : PRECISION * x \in Int
    BY <2>1, <2>2
  <2> QED BY <2>2, <2>3
<1>7. PRECISION * h.undistributed + SumFunctionOnSet(n, Tokens) <= PRECISION * c
  BY <1>1, <1>3, <1>4, <1>5, <1>6
<1> QED BY <1>7 DEF Sound, n

\* A larger budget, or other fields of the pool.
LEMMA SoundSame ==
  ASSUME NEW ps, NEW g, NEW b \in Int, Sound(ps, g, b), NEW h, PoolRecord(h), NEW c \in Int, b <= c,
         h.ePer = g.ePer, h.lPer = g.lPer, h.totalWeight = g.totalWeight, h.undistributed = g.undistributed
  PROVE  Sound(ps, h, c)
<1>1. \A t \in Tokens : PaidUp(ps[t], h)
  BY DEF Sound, PaidUp
<1>2. Owing(ps, h) = Owing(ps, g)
  BY DEF Owing, Scaled
<1>3. PRECISION * b <= PRECISION * c /\ PRECISION * b \in Int /\ PRECISION * c \in Int
  <2>1. \A k \in Nat, x, y \in Int : x <= y => k * x <= k * y
    OBVIOUS
  <2>2. \A x, y \in Int : x * y \in Int
    OBVIOUS
  <2>3. PRECISION \in Nat /\ PRECISION \in Int
    BY TokensFinite
  <2>4. \A x \in Int : PRECISION * x \in Int
    BY <2>2, <2>3
  <2> QED BY <2>1, <2>3, <2>4
<1>4. PRECISION * g.undistributed \in Int /\ SumFunctionOnSet(Owing(ps, g), Tokens) \in Int
  <2>1. PoolRecord(g)
    BY DEF Sound
  <2>2. PRECISION * g.undistributed \in Nat
    BY <2>1, PoolRecordIs, TokensFinite, ProductNat
  <2>3. \A t \in Tokens : Owing(ps, g)[t] \in Int
    BY <2>1, ScaledIs DEF Owing, Sound
  <2> QED BY <2>2, <2>3, TokensFinite, SumType
<1>5. PRECISION * h.undistributed + SumFunctionOnSet(Owing(ps, h), Tokens) <= PRECISION * c
  BY <1>2, <1>3, <1>4 DEF Sound
<1> QED BY <1>1, <1>5 DEF Sound

LEMMA Times == \A k \in Nat, x, y \in Int : k * x \in Int /\ k * (x + y) = k * x + k * y /\ (x <= y => k * x <= k * y)
OBVIOUS

\* What nobody earned, or is burned, moves the budget by as much.
LEMMA SoundUnearned ==
  ASSUME NEW ps, NEW g, NEW b \in Int, Sound(ps, g, b), NEW h, PoolRecord(h), NEW x \in Int,
         h.ePer = g.ePer, h.lPer = g.lPer, h.totalWeight = g.totalWeight, h.undistributed = g.undistributed + x
  PROVE  Sound(ps, h, b + x)
<1> DEFINE d == [t \in Tokens |-> 0]
           c == b + x
<1>1. \A t \in Tokens : PaidUp(ps[t], h)
  BY DEF Sound, PaidUp
<1>2. h.totalWeight = SumFunctionOnSet(Weights(ps), Tokens)
  BY DEF Sound
<1>3. \A t \in Tokens : Scaled(ps[t], h) = Scaled(ps[t], g) /\ Scaled(ps[t], g) \in Nat
  BY ScaledIs DEF Scaled, Sound
<1>4. \A t \in Tokens : d[t] \in Int /\ Scaled(ps[t], h) <= Scaled(ps[t], g) + d[t]
  BY <1>3
<1>5. SumFunctionOnSet(d, Tokens) = 0
  <2>1. \A t \in Tokens : d[t] = 0
    OBVIOUS
  <2> HIDE DEF d
  <2> QED BY <2>1, TokensFinite, SumZero
<1>6. PRECISION * h.undistributed + SumFunctionOnSet(d, Tokens) + PRECISION * b
        <= PRECISION * g.undistributed + PRECISION * c
  <2>1. g.undistributed \in Int /\ PRECISION \in Nat
    BY PoolRecordIs, TokensFinite DEF Sound
  <2>2. /\ PRECISION * h.undistributed = PRECISION * g.undistributed + PRECISION * x
        /\ PRECISION * c = PRECISION * b + PRECISION * x
        /\ PRECISION * g.undistributed \in Int /\ PRECISION * x \in Int /\ PRECISION * b \in Int
    BY <2>1, Times
  <2> HIDE DEF c, d
  <2> QED BY <1>5, <2>2
<1>7. c \in Int
  OBVIOUS
<1> HIDE DEF d, c
<1>8. Sound(ps, h, c)
  BY <1>1, <1>2, <1>4, <1>6, <1>7, SoundStep
<1> QED BY <1>8 DEF c

\* The accumulators rise: every weight is owed the rise.
LEMMA SoundRaised ==
  ASSUME NEW ps, NEW g, NEW b \in Int, Sound(ps, g, b), NEW h, PoolRecord(h), NEW i \in Nat, NEW j \in Nat,
         h.ePer = g.ePer + i, h.lPer = g.lPer + j,
         h.totalWeight = g.totalWeight, h.undistributed = g.undistributed,
         NEW x \in Int, (i + j) * g.totalWeight <= PRECISION * x
  PROVE  Sound(ps, h, b + x)
<1> DEFINE d == [t \in Tokens |-> (i + j) * Weights(ps)[t]]
           c == b + x
<1>1. \A t \in Tokens : PaidUp(ps[t], h)
  <2>1. SUFFICES ASSUME NEW t \in Tokens PROVE PaidUp(ps[t], h)
    OBVIOUS
  <2>2. PaidUp(ps[t], g) /\ g.ePer \in Nat /\ g.lPer \in Nat
    BY PoolRecordIs DEF Sound
  <2>3. ps[t] \in PosRecord /\ ps[t].ePaid \in Nat /\ ps[t].lPaid \in Nat /\ ps[t].ePaid <= g.ePer /\ ps[t].lPaid <= g.lPer
    BY <2>2 DEF PaidUp, PosRecord
  <2> QED BY <2>2, <2>3 DEF PaidUp
<1>2. h.totalWeight = SumFunctionOnSet(Weights(ps), Tokens)
  BY DEF Sound
<1>3. ASSUME NEW t \in Tokens
      PROVE  d[t] \in Int /\ Scaled(ps[t], h) <= Scaled(ps[t], g) + d[t] /\ Weights(ps)[t] \in Int
  <2>1. PaidUp(ps[t], g) /\ g.ePer \in Nat /\ g.lPer \in Nat
    BY PoolRecordIs DEF Sound
  <2> DEFINE p == ps[t]
             r == (g.ePer - p.ePaid) + (g.lPer - p.lPaid)
             n == PRECISION * (p.emissions + p.lump)
  <2>2. p.weight \in Nat /\ p.emissions \in Nat /\ p.lump \in Nat /\ p.ePaid \in Nat /\ p.lPaid \in Nat
    BY <2>1 DEF PaidUp, PosRecord
  <2>3. n \in Nat /\ r \in Int
    BY <2>1, <2>2, TokensFinite, ProductNat
  <2>4. Scaled(p, h) = n + p.weight * (r + (i + j)) /\ Scaled(p, g) = n + p.weight * r
    BY <2>1, <2>2 DEF Scaled
  <2>5. d[t] = (i + j) * p.weight
    BY DEF Weights
  <2> HIDE DEF n, r, p, d
  <2>6. p.weight * (r + (i + j)) = p.weight * r + p.weight * (i + j) /\ p.weight * r \in Int /\ p.weight * (i + j) \in Int
    BY <2>2, <2>3, Times
  <2>7. p.weight * (i + j) = (i + j) * p.weight
    BY <2>2
  <2>8. d[t] \in Int /\ Scaled(p, h) <= Scaled(p, g) + d[t]
    BY <2>3, <2>4, <2>5, <2>6, <2>7
  <2> QED BY <2>2, <2>8 DEF p, Weights
<1>4. SumFunctionOnSet(d, Tokens) = (i + j) * g.totalWeight
  <2>1. \A t \in Tokens : Weights(ps)[t] \in Int /\ d[t] = (i + j) * Weights(ps)[t]
    BY <1>3
  <2>2. i + j \in Int
    OBVIOUS
  <2> HIDE DEF d
  <2>3. SumFunctionOnSet(d, Tokens) = (i + j) * SumFunctionOnSet(Weights(ps), Tokens)
    BY <2>1, <2>2, TokensFinite, SumTimes
  <2> QED BY <2>3 DEF Sound
<1>5. PRECISION * h.undistributed + SumFunctionOnSet(d, Tokens) + PRECISION * b
        <= PRECISION * g.undistributed + PRECISION * c
  <2>1. g.undistributed \in Int /\ g.totalWeight \in Int /\ PRECISION \in Nat
    BY PoolRecordIs, TokensFinite DEF Sound
  <2>2. /\ PRECISION * c = PRECISION * b + PRECISION * x
        /\ PRECISION * g.undistributed \in Int /\ PRECISION * x \in Int /\ PRECISION * b \in Int
    BY <2>1, Times
  <2>3. (i + j) * g.totalWeight \in Int
    BY <2>1, Times
  <2> HIDE DEF c, d
  <2> QED BY <1>4, <2>2, <2>3
<1>6. c \in Int
  OBVIOUS
<1> HIDE DEF d, c
<1>7. Sound(ps, h, c)
  BY <1>1, <1>2, <1>3, <1>5, <1>6, SoundStep
<1> QED BY <1>7 DEF c

\* Emissions a of the epochs are streamed, by weight or to nobody.
LEMMA SoundStreamed ==
  ASSUME NEW ps, NEW g, NEW b \in Int, Sound(ps, g, b), NEW h, PoolRecord(h), NEW a \in [Epochs -> Nat],
         h.lPer = g.lPer, h.totalWeight = g.totalWeight,
         IF g.totalWeight > 0
         THEN /\ h.ePer = g.ePer + SumFunctionOnSet([e \in Epochs |-> (a[e] * PRECISION) \div g.totalWeight], Epochs)
              /\ h.undistributed = g.undistributed
         ELSE h.ePer = g.ePer /\ h.undistributed = g.undistributed + SumFunctionOnSet(a, Epochs)
  PROVE  Sound(ps, h, b + SumFunctionOnSet(a, Epochs)) /\ h.ePer >= g.ePer
<1> DEFINE w == g.totalWeight
           f == [e \in Epochs |-> (a[e] * PRECISION) \div w]
           i == SumFunctionOnSet(f, Epochs)
           x == SumFunctionOnSet(a, Epochs)
<1>1. x \in Int /\ x >= 0
  <2>1. \A e \in Epochs : a[e] \in Int /\ a[e] >= 0
    OBVIOUS
  <2> QED BY <2>1, EpochsFinite, SumType
<1>2. w \in Nat /\ g.ePer \in Nat
  BY PoolRecordIs DEF Sound
<1>3. CASE w > 0
  <2>1. ASSUME NEW e \in Epochs
        PROVE  f[e] \in Nat /\ w * f[e] <= PRECISION * a[e]
    <3> DEFINE q == (a[e] * PRECISION) \div w
    <3>1. a[e] * PRECISION \in Nat
      <4>1. a[e] \in Nat /\ PRECISION \in Nat
        BY TokensFinite
      <4> QED BY <4>1, ProductNat, Zenon
    <3>2. q \in Nat /\ q * w <= a[e] * PRECISION
      <4>1. w \in Nat \ {0}
        BY <1>2, <1>3
      <4> QED BY <3>1, <4>1, QuotientNat, Zenon
    <3>3. f[e] = q
      OBVIOUS
    <3> HIDE DEF q, w, f
    <3>4. q * w = w * q /\ a[e] * PRECISION = PRECISION * a[e]
      BY <1>2, <3>2, TokensFinite
    <3> QED BY <3>2, <3>3, <3>4
  <2>2. i \in Nat
    <3>1. \A e \in Epochs : f[e] \in Int /\ f[e] >= 0
      BY <2>1
    <3> HIDE DEF f
    <3>2. SumFunctionOnSet(f, Epochs) \in Int /\ SumFunctionOnSet(f, Epochs) >= 0
      BY <3>1, EpochsFinite, SumType
    <3> QED BY <3>2
  <2>3. w * i <= PRECISION * x
    <3> DEFINE u == [e \in Epochs |-> w * f[e]]
               v == [e \in Epochs |-> PRECISION * a[e]]
    <3>1. ASSUME NEW e \in Epochs
          PROVE  /\ f[e] \in Int /\ a[e] \in Int /\ u[e] \in Int /\ v[e] \in Int /\ u[e] <= v[e]
                 /\ u[e] = w * f[e] /\ v[e] = PRECISION * a[e]
      <4>1. w * f[e] \in Nat /\ PRECISION * a[e] \in Nat
        BY <1>2, <2>1, TokensFinite, ProductNat
      <4> HIDE DEF f
      <4> QED BY <2>1, <4>1
    <3>2. w \in Int /\ PRECISION \in Int
      BY <1>2, TokensFinite
    <3> HIDE DEF u, v, f, w
    <3>3. SumFunctionOnSet(u, Epochs) = w * SumFunctionOnSet(f, Epochs)
      <4>1. \A e \in Epochs : f[e] \in Int /\ u[e] = w * f[e]
        BY <3>1
      <4>2. IsFiniteSet(Epochs) /\ w \in Int
        BY <3>2, EpochsFinite
      <4> QED BY ONLY <4>1, <4>2, SumTimes
    <3>4. SumFunctionOnSet(v, Epochs) = PRECISION * SumFunctionOnSet(a, Epochs)
      <4>1. \A e \in Epochs : a[e] \in Int /\ v[e] = PRECISION * a[e]
        BY <3>1
      <4>2. IsFiniteSet(Epochs) /\ PRECISION \in Int
        BY <3>2, EpochsFinite
      <4> QED BY ONLY <4>1, <4>2, SumTimes
    <3>5. SumFunctionOnSet(u, Epochs) <= SumFunctionOnSet(v, Epochs)
      BY <3>1, EpochsFinite, SumLeq
    <3> QED BY <3>3, <3>4, <3>5
  <2>4. h.ePer = g.ePer + i /\ h.lPer = g.lPer + 0 /\ h.undistributed = g.undistributed
    BY <1>3, PoolRecordIs DEF Sound
  <2> HIDE DEF i, x
  <2>5. (i + 0) * g.totalWeight <= PRECISION * x
    <3>1. (i + 0) * w = w * i
      BY <1>2, <2>2
    <3> QED BY <2>3, <3>1
  <2>6. Sound(ps, h, b + x)
    BY <1>1, <2>2, <2>4, <2>5, SoundRaised, 0 \in Nat
  <2> QED BY <1>2, <2>2, <2>4, <2>6 DEF x
<1>4. CASE ~ (w > 0)
  <2>1. h.ePer = g.ePer /\ h.undistributed = g.undistributed + x
    BY <1>4
  <2> HIDE DEF x
  <2>2. Sound(ps, h, b + x)
    BY <1>1, <2>1, SoundUnearned
  <2> QED BY <1>2, <2>1, <2>2 DEF x
<1> QED BY <1>3, <1>4

\* A position settled at g, with a new weight.
Rechecked(p, g, v) == [Accrued(p, g) EXCEPT !.weight = v]

\* A settled position that was paid out.
PaidOut(p, v, n) == [p EXCEPT !.weight = v, !.emissions = 0, !.lump = 0, !.nonce = n]

LEMMA RecheckedIs ==
  ASSUME NEW p, NEW g, PoolRecord(g), PaidUp(p, g), NEW v \in Nat
  PROVE  /\ PaidUp(Rechecked(p, g, v), g)
         /\ Rechecked(p, g, v).weight = v
         /\ Scaled(Rechecked(p, g, v), g) <= Scaled(p, g)
<1> DEFINE a == Accrued(p, g)
           q == Rechecked(p, g, v)
<1>1. /\ a \in PosRecord /\ a.ePaid = g.ePer /\ a.lPaid = g.lPer
      /\ PRECISION * (a.emissions + a.lump) <= Scaled(p, g)
  BY AccruedIs
<1>2. g.ePer \in Nat /\ g.lPer \in Nat
  BY PoolRecordIs
<1> HIDE DEF a
<1>3. /\ q \in PosRecord /\ q.weight = v /\ q.ePaid = a.ePaid /\ q.lPaid = a.lPaid
      /\ q.emissions = a.emissions /\ q.lump = a.lump
  BY <1>1 DEF Rechecked, PosRecord, a
<1> HIDE DEF q
<1>4. Scaled(q, g) = PRECISION * (a.emissions + a.lump)
  <2>1. Scaled(q, g) = PRECISION * (a.emissions + a.lump) + v * ((g.ePer - g.ePer) + (g.lPer - g.lPer))
    BY <1>1, <1>3 DEF Scaled
  <2>2. (g.ePer - g.ePer) + (g.lPer - g.lPer) = 0 /\ v * 0 = 0
    BY <1>2
  <2>3. PRECISION * (a.emissions + a.lump) \in Nat
    BY <1>1, TokensFinite, ProductNat DEF PosRecord
  <2> QED BY <2>1, <2>2, <2>3
<1>5. PaidUp(q, g)
  BY <1>1, <1>2, <1>3 DEF PaidUp
<1> QED BY <1>1, <1>3, <1>4, <1>5 DEF q

\* The weights of S become w.
LEMMA WeightsMove ==
  ASSUME NEW ps, NEW qs, NEW S \in SUBSET Tokens, NEW w,
         \A t \in Tokens : ps[t].weight \in Int,
         \A t \in S : w[t] \in Int /\ qs[t].weight = w[t],
         \A t \in Tokens \ S : qs[t].weight = ps[t].weight
  PROVE  SumFunctionOnSet(Weights(qs), Tokens)
           = SumFunctionOnSet(Weights(ps), Tokens) + SumFunctionOnSet([t \in S |-> w[t] - ps[t].weight], S)
<1> DEFINE f == Weights(ps)
           h == Weights(qs)
           d == [t \in Tokens |-> IF t \in S THEN w[t] - ps[t].weight ELSE 0]
           e == [t \in S |-> w[t] - ps[t].weight]
<1>1. \A t \in Tokens : f[t] \in Int /\ d[t] \in Int /\ h[t] = f[t] + d[t]
  BY DEF Weights
<1>2. /\ \A t \in Tokens \ S : d[t] = 0
      /\ \A t \in S : d[t] = e[t]
  OBVIOUS
<1>3. IsFiniteSet(S)
  BY TokensFinite, FS_Subset
<1> HIDE DEF f, h, d, e
<1>4. SumFunctionOnSet(h, Tokens) = SumFunctionOnSet(f, Tokens) + SumFunctionOnSet(d, Tokens)
  BY <1>1, TokensFinite, SumPlus
<1>5. SumFunctionOnSet(d, Tokens) = SumFunctionOnSet(d, S)
  BY <1>1, <1>2, TokensFinite, SumPad
<1>6. SumFunctionOnSet(d, S) = SumFunctionOnSet(e, S)
  BY <1>2, <1>3, SumSame
<1>7. SumFunctionOnSet(h, Tokens) = SumFunctionOnSet(f, Tokens) + SumFunctionOnSet(e, S)
  BY <1>4, <1>5, <1>6
<1> QED BY <1>7 DEF f, h, e

\* The positions of S are checkpointed.
LEMMA SoundChecked ==
  ASSUME NEW ps, NEW g, NEW b \in Int, Sound(ps, g, b), NEW S \in SUBSET Tokens, NEW w,
         \A t \in S : w[t] \in Nat,
         NEW qs, \A t \in S : qs[t] = Rechecked(ps[t], g, w[t]),
         \A t \in Tokens \ S : qs[t] = ps[t],
         NEW h, PoolRecord(h), h.ePer = g.ePer, h.lPer = g.lPer, h.undistributed = g.undistributed,
         h.totalWeight = g.totalWeight + SumFunctionOnSet([t \in S |-> w[t] - ps[t].weight], S)
  PROVE  Sound(qs, h, b)
<1> DEFINE d == [t \in Tokens |-> 0]
<1>1. PoolRecord(g) /\ \A t \in Tokens : PaidUp(ps[t], g)
  BY DEF Sound
<1>2. ASSUME NEW t \in Tokens
      PROVE  /\ PaidUp(qs[t], g) /\ Scaled(qs[t], g) <= Scaled(ps[t], g)
             /\ t \in S => qs[t].weight = w[t]
  <2>1. CASE t \in S
    BY <1>1, <2>1, RecheckedIs
  <2>2. CASE t \notin S
    <3>1. Scaled(ps[t], g) \in Nat
      BY <1>1, ScaledIs
    <3> QED BY <1>1, <2>2, <3>1
  <2> QED BY <2>1, <2>2
<1>3. \A t \in Tokens : PaidUp(qs[t], h)
  BY <1>2 DEF PaidUp
<1>4. h.totalWeight = SumFunctionOnSet(Weights(qs), Tokens)
  <2>1. \A t \in Tokens : ps[t].weight \in Int
    BY <1>1 DEF PaidUp, PosRecord
  <2>2. \A t \in S : w[t] \in Int /\ qs[t].weight = w[t]
    BY <1>2
  <2>3. \A t \in Tokens \ S : qs[t].weight = ps[t].weight
    OBVIOUS
  <2>4. SumFunctionOnSet(Weights(qs), Tokens)
          = SumFunctionOnSet(Weights(ps), Tokens) + SumFunctionOnSet([t \in S |-> w[t] - ps[t].weight], S)
    BY <2>1, <2>2, <2>3, WeightsMove
  <2> QED BY <2>4 DEF Sound
<1>5. ASSUME NEW t \in Tokens
      PROVE  d[t] \in Int /\ Scaled(qs[t], h) <= Scaled(ps[t], g) + d[t]
  <2>1. Scaled(qs[t], h) = Scaled(qs[t], g)
    BY DEF Scaled
  <2>2. Scaled(qs[t], g) \in Nat /\ Scaled(ps[t], g) \in Nat
    BY <1>1, <1>2, ScaledIs
  <2> QED BY <1>2, <2>1, <2>2
<1>6. PRECISION * h.undistributed + SumFunctionOnSet(d, Tokens) + PRECISION * b
        <= PRECISION * g.undistributed + PRECISION * b
  <2>1. SumFunctionOnSet(d, Tokens) = 0
    <3>1. \A t \in Tokens : d[t] = 0
      OBVIOUS
    <3> HIDE DEF d
    <3> QED BY <3>1, TokensFinite, SumZero
  <2>2. g.undistributed \in Int /\ PRECISION \in Nat
    BY <1>1, PoolRecordIs, TokensFinite
  <2>3. PRECISION * g.undistributed \in Int /\ PRECISION * b \in Int
    BY <2>2, Times
  <2> HIDE DEF d
  <2> QED BY <2>1, <2>3
<1> HIDE DEF d
<1> QED BY <1>3, <1>4, <1>5, <1>6, SoundStep

\* A position is settled and paid what it accrued.
LEMMA SoundCollected ==
  ASSUME NEW ps, NEW g, NEW b \in Int, Sound(ps, g, b), NEW t \in Tokens, NEW v \in Nat, NEW n \in Nat,
         NEW qs, qs[t] = PaidOut(Accrued(ps[t], g), v, n),
         \A u \in Tokens \ {t} : qs[u] = ps[u],
         NEW h, PoolRecord(h), h.ePer = g.ePer, h.lPer = g.lPer, h.undistributed = g.undistributed,
         h.totalWeight = g.totalWeight + v - Accrued(ps[t], g).weight
  PROVE  Sound(qs, h, b - (Accrued(ps[t], g).emissions + Accrued(ps[t], g).lump))
<1> DEFINE a == Accrued(ps[t], g)
           paid == a.emissions + a.lump
           d == [u \in Tokens |-> IF u = t THEN 0 - PRECISION * paid ELSE 0]
           c == b - paid
<1>1. PoolRecord(g) /\ \A u \in Tokens : PaidUp(ps[u], g)
  BY DEF Sound
<1>2. /\ a \in PosRecord /\ a.ePaid = g.ePer /\ a.lPaid = g.lPer /\ a.weight = ps[t].weight
      /\ PRECISION * (a.emissions + a.lump) <= Scaled(ps[t], g)
  BY <1>1, AccruedIs
<1>3. a.emissions \in Nat /\ a.lump \in Nat /\ paid \in Nat /\ a.weight \in Nat
  <2> HIDE DEF a
  <2> QED BY <1>2 DEF PosRecord
<1>4. g.ePer \in Nat /\ g.lPer \in Nat /\ g.undistributed \in Nat /\ g.totalWeight \in Nat
  BY <1>1, PoolRecordIs
<1>5. /\ qs[t] \in PosRecord /\ qs[t].weight = v /\ qs[t].ePaid = g.ePer /\ qs[t].lPaid = g.lPer
      /\ qs[t].emissions = 0 /\ qs[t].lump = 0
  <2>1. qs[t] = PaidOut(a, v, n)
    OBVIOUS
  <2> HIDE DEF a
  <2> DEFINE r == [weight |-> v, ePaid |-> g.ePer, lPaid |-> g.lPer, emissions |-> 0, lump |-> 0, nonce |-> n]
  <2>2. qs[t] = r
    BY <1>2, <2>1 DEF PaidOut, PosRecord
  <2> QED BY <1>4, <2>2 DEF PosRecord
<1>6. Scaled(qs[t], h) = 0
  <2>1. Scaled(qs[t], h) = PRECISION * (0 + 0) + v * ((g.ePer - g.ePer) + (g.lPer - g.lPer))
    BY <1>5 DEF Scaled
  <2>2. (g.ePer - g.ePer) + (g.lPer - g.lPer) = 0 /\ v * 0 = 0 /\ PRECISION * (0 + 0) = 0
    BY <1>4, TokensFinite
  <2> QED BY <2>1, <2>2
<1>7. \A u \in Tokens : PaidUp(qs[u], h)
  BY <1>1, <1>4, <1>5 DEF PaidUp
<1>8. h.totalWeight = SumFunctionOnSet(Weights(qs), Tokens)
  <2>1. ASSUME NEW u \in Tokens PROVE Weights(ps)[u] \in Int /\ Weights(qs)[u] \in Int
    BY <1>1, <1>7 DEF Weights, PaidUp, PosRecord
  <2>2. \A u \in Tokens \ {t} : Weights(qs)[u] = Weights(ps)[u]
    BY DEF Weights
  <2>3. Weights(qs)[t] = v /\ Weights(ps)[t] = a.weight
    BY <1>2, <1>5 DEF Weights
  <2>4. SumFunctionOnSet(Weights(qs), Tokens) = SumFunctionOnSet(Weights(ps), Tokens) + Weights(qs)[t] - Weights(ps)[t]
    BY <2>1, <2>2, TokensFinite, SumChange
  <2> QED BY <2>3, <2>4 DEF Sound
<1> HIDE DEF paid, c, a
<1>9. PRECISION * paid \in Nat
  BY <1>3, TokensFinite, ProductNat
<1>10. ASSUME NEW u \in Tokens
       PROVE  d[u] \in Int /\ Scaled(qs[u], h) <= Scaled(ps[u], g) + d[u]
  <2>1. Scaled(ps[u], g) \in Nat
    BY <1>1, ScaledIs
  <2>2. CASE u = t
    BY <1>2, <1>6, <1>9, <2>1, <2>2 DEF paid
  <2>3. CASE u # t
    <3>1. Scaled(qs[u], h) = Scaled(ps[u], g)
      BY <2>3 DEF Scaled
    <3> QED BY <2>1, <2>3, <3>1
  <2> QED BY <2>2, <2>3
<1>11. SumFunctionOnSet(d, Tokens) = 0 - PRECISION * paid
  <2>1. d[t] = 0 - PRECISION * paid /\ d[t] \in Int /\ \A u \in Tokens \ {t} : d[u] = 0
    BY <1>9
  <2> HIDE DEF d
  <2>2. SumFunctionOnSet(d, Tokens) = d[t]
    BY <2>1, TokensFinite, SumOne
  <2> QED BY <2>1, <2>2
<1>12. c \in Int /\ b = c + paid
  BY <1>3 DEF c
<1>13. PRECISION * h.undistributed + SumFunctionOnSet(d, Tokens) + PRECISION * b
        <= PRECISION * g.undistributed + PRECISION * c
  <2>1. PRECISION * b = PRECISION * c + PRECISION * paid /\ PRECISION * c \in Int
    <3>1. PRECISION \in Nat /\ paid \in Int
      BY <1>3, TokensFinite
    <3> QED BY <1>12, <3>1, Times
  <2>2. PRECISION * g.undistributed \in Nat
    BY <1>4, TokensFinite, ProductNat
  <2> HIDE DEF d
  <2> QED BY <1>9, <1>11, <2>1, <2>2
<1> HIDE DEF d
<1>14. Sound(qs, h, c)
  BY <1>7, <1>8, <1>10, <1>12, <1>13, SoundStep
<1> QED BY <1>14 DEF c, paid, a

\* A lump is shared out by weight, or kept for nobody.
LEMMA SoundLump ==
  ASSUME NEW ps, NEW g, NEW b \in Int, Sound(ps, g, b), NEW amount \in Nat
  PROVE  Sound(ps, Lump(g, amount), b + amount)
<1> DEFINE h == Lump(g, amount)
           w == g.totalWeight
<1>1. /\ PoolRecord(g) /\ g.ePer \in Nat /\ g.lPer \in Nat /\ w \in Nat /\ g.undistributed \in Nat /\ g.lastUpdate \in Nat
  BY PoolRecordIs DEF Sound
<1>2. CASE w = 0
  <2>1. /\ PoolRecord(h) /\ h.ePer = g.ePer /\ h.lPer = g.lPer /\ h.totalWeight = g.totalWeight
        /\ h.undistributed = g.undistributed + amount
    BY <1>1, <1>2 DEF Lump, PoolRecord
  <2> HIDE DEF h
  <2>2. Sound(ps, h, b + amount)
    BY <2>1, SoundUnearned
  <2> QED BY <2>2 DEF h
<1>3. CASE w > 0
  <2> DEFINE j == (amount * PRECISION) \div w
  <2>1. j \in Nat /\ j * w <= PRECISION * amount
    <3>1. amount * PRECISION \in Nat
      BY TokensFinite, ProductNat
    <3>2. amount * PRECISION = PRECISION * amount
      BY TokensFinite
    <3>3. w \in Nat \ {0}
      BY <1>1, <1>3
    <3>4. j \in Nat /\ j * w <= amount * PRECISION
      BY <3>1, <3>3, QuotientNat, Zenon
    <3> QED BY <3>2, <3>4
  <2> HIDE DEF j
  <2>2. /\ PoolRecord(h) /\ h.ePer = g.ePer + 0 /\ h.lPer = g.lPer + j /\ h.totalWeight = g.totalWeight
        /\ h.undistributed = g.undistributed
    <3>1. h = [g EXCEPT !.lPer = g.lPer + j]
      BY <1>1, <1>3 DEF Lump, j
    <3> HIDE DEF h
    <3> QED BY <1>1, <2>1, <3>1 DEF PoolRecord
  <2>3. (0 + j) * g.totalWeight <= PRECISION * amount
    <3>1. 0 + j = j
      BY <2>1
    <3> QED BY <2>1, <3>1
  <2> HIDE DEF h
  <2>4. Sound(ps, h, b + amount)
    BY <2>1, <2>2, <2>3, SoundRaised, 0 \in Nat
  <2> QED BY <2>4 DEF h
<1> QED BY <1>1, <1>2, <1>3

(***************************************************************************)
(* The stream.  Epoch e streams its liquidity share evenly over its length *)
(* from its start, whoever is there to earn it.                            *)
(***************************************************************************)
\* Seconds of epoch e that are over at t.
Elapsed(e, t) ==
  IF ~ Launched \/ t <= EpochStart(e) THEN 0
  ELSE IF t >= EpochStart(e) + EPOCH THEN EPOCH ELSE t - EpochStart(e)

StreamedOf(t) == [e \in Epochs |-> EmissionRate(e) * Elapsed(e, t)]

Streamed(t) == SumFunctionOnSet(StreamedOf(t), Epochs)

LEMMA EpochStarts ==
  ASSUME ReserveType, NEW e \in Epochs
  PROVE  /\ EpochStart(e) \in Nat /\ launchAt \in Nat /\ launchAt <= EpochStart(e)
         /\ EpochStart(e + 1) = EpochStart(e) + EPOCH
         /\ EpochStart(WEEKS) \in Nat /\ EpochStart(e + 1) <= EpochStart(WEEKS)
         /\ EPOCH \in Nat \ {0}
<1>1. /\ e \in Nat /\ e + 1 \in Nat /\ e + 1 <= WEEKS /\ WEEKS \in Nat /\ EPOCH \in Nat \ {0} /\ launchAt \in Nat
  BY EmissionsAssumption DEF Epochs, ReserveType
<1>2. e * EPOCH \in Nat /\ (e + 1) * EPOCH \in Nat /\ WEEKS * EPOCH \in Nat
  BY <1>1, ProductNat
<1>3. (e + 1) * EPOCH = e * EPOCH + EPOCH
  BY <1>1
<1>4. (e + 1) * EPOCH <= WEEKS * EPOCH
  BY <1>1, ProductGrows
<1> QED BY <1>1, <1>2, <1>3, <1>4 DEF EpochStart

LEMMA ElapsedIs ==
  ASSUME ReserveType, NEW e \in Epochs, NEW t \in Nat
  PROVE  /\ Elapsed(e, t) \in 0 .. EPOCH
         /\ \A u \in Nat : t <= u => Elapsed(e, t) <= Elapsed(e, u)
BY EpochStarts DEF Elapsed

LEMMA RateIs ==
  ASSUME ReserveType, NEW e \in Epochs
  PROVE  EmissionRate(e) \in Nat /\ EmissionRate(e) * EPOCH <= LiquidityBudget(e) /\ LiquidityBudget(e) \in Nat
<1>1. LiquidityBudget(e) \in Nat /\ EPOCH \in Nat \ {0}
  BY Budgets, EmissionsAssumption
<1> QED BY <1>1, QuotientNat DEF EmissionRate

\* What an epoch has streamed is part of its liquidity share, and nothing before its start.
LEMMA StreamedIs ==
  ASSUME ReserveType, NEW e \in Epochs, NEW t \in Nat
  PROVE  /\ StreamedOf(t)[e] \in Nat
         /\ StreamedOf(t)[e] <= LiquidityBudget(e)
         /\ \A u \in Nat : t <= u => StreamedOf(t)[e] <= StreamedOf(u)[e]
         /\ ~ (Launched /\ t > EpochStart(e)) => StreamedOf(t)[e] = 0
<1>1. /\ EmissionRate(e) \in Nat /\ EmissionRate(e) * EPOCH <= LiquidityBudget(e) /\ LiquidityBudget(e) \in Nat
      /\ EPOCH \in Nat
  BY RateIs, EmissionsAssumption
<1>2. \A k, x, y \in Nat : x <= y => k * x <= k * y
  OBVIOUS
<1>3. \A u \in Nat : Elapsed(e, u) \in Nat /\ Elapsed(e, u) <= EPOCH
  BY <1>1, ElapsedIs
<1>4. \A u \in Nat : /\ StreamedOf(u)[e] = EmissionRate(e) * Elapsed(e, u) /\ StreamedOf(u)[e] \in Nat
  BY <1>1, <1>3, ProductNat DEF StreamedOf
<1>5. StreamedOf(t)[e] <= LiquidityBudget(e)
  <2>1. EmissionRate(e) * Elapsed(e, t) <= EmissionRate(e) * EPOCH /\ EmissionRate(e) * EPOCH \in Nat
    BY <1>1, <1>2, <1>3, ProductNat
  <2> QED BY <1>1, <1>4, <2>1
<1>6. ASSUME NEW u \in Nat, t <= u PROVE StreamedOf(t)[e] <= StreamedOf(u)[e]
  <2>1. Elapsed(e, t) <= Elapsed(e, u)
    BY <1>6, ElapsedIs
  <2> QED BY <1>1, <1>2, <1>3, <1>4, <2>1
<1>7. ~ (Launched /\ t > EpochStart(e)) => StreamedOf(t)[e] = 0
  <2>1. ~ (Launched /\ t > EpochStart(e)) => Elapsed(e, t) = 0
    BY EpochStarts DEF Elapsed
  <2> QED BY <1>1, <1>4, <2>1
<1> QED BY <1>4, <1>5, <1>6, <1>7

LEMMA StreamedTotal ==
  ASSUME ReserveType, NEW t \in Nat
  PROVE  /\ Streamed(t) \in Int /\ Streamed(t) >= 0
         /\ \A u \in Nat : t <= u => Streamed(t) <= Streamed(u)
         /\ (~ Launched \/ t <= launchAt) => Streamed(t) = 0
<1>1. \A u \in Nat, e \in Epochs : StreamedOf(u)[e] \in Nat
  BY StreamedIs
<1>2. Streamed(t) \in Int /\ Streamed(t) >= 0
  <2>1. \A e \in Epochs : StreamedOf(t)[e] \in Int /\ StreamedOf(t)[e] >= 0
    BY <1>1
  <2> QED BY <2>1, EpochsFinite, SumType DEF Streamed
<1>3. ASSUME NEW u \in Nat, t <= u PROVE Streamed(t) <= Streamed(u)
  <2>1. \A e \in Epochs : StreamedOf(t)[e] \in Int /\ StreamedOf(u)[e] \in Int /\ StreamedOf(t)[e] <= StreamedOf(u)[e]
    BY <1>1, <1>3, StreamedIs
  <2> QED BY <2>1, EpochsFinite, SumLeq DEF Streamed
<1>4. ASSUME ~ Launched \/ t <= launchAt PROVE Streamed(t) = 0
  <2>1. \A e \in Epochs : StreamedOf(t)[e] = 0
    <3>1. \A e \in Epochs : ~ (Launched /\ t > EpochStart(e))
      BY <1>4, EpochStarts
    <3> QED BY <3>1, StreamedIs
  <2> QED BY <2>1, EpochsFinite, SumZero DEF Streamed
<1> QED BY <1>2, <1>3, <1>4

\* The seconds _globalNow counts of an epoch are those that elapsed since the update.
LEMMA OverlapIs ==
  ASSUME ReserveType, Launched, NEW e \in Epochs, NEW t \in Nat, NEW u \in Nat, t <= u
  PROVE  Overlap(e, Max({t, launchAt}), Min({u, EpochStart(WEEKS)})) = Elapsed(e, u) - Elapsed(e, t)
<1> DEFINE from == Max({t, launchAt})
           end == Min({u, EpochStart(WEEKS)})
           s == EpochStart(e)
           low == Max({from, s})
           high == Min({end, s + EPOCH})
<1>1. /\ s \in Nat /\ launchAt \in Nat /\ launchAt <= s /\ EPOCH \in Nat \ {0}
      /\ EpochStart(e + 1) = s + EPOCH /\ EpochStart(WEEKS) \in Nat /\ s + EPOCH <= EpochStart(WEEKS)
  BY EpochStarts
<1>2. Elapsed(e, u) = IF u <= s THEN 0 ELSE IF u >= s + EPOCH THEN EPOCH ELSE u - s
  BY DEF Elapsed
<1>3. Elapsed(e, t) = IF t <= s THEN 0 ELSE IF t >= s + EPOCH THEN EPOCH ELSE t - s
  BY DEF Elapsed
<1>4. Overlap(e, from, end) = Max({0, high - low})
  BY <1>1 DEF Overlap
<1> HIDE DEF s
<1>5. from = (IF t >= launchAt THEN t ELSE launchAt) /\ end = (IF u <= EpochStart(WEEKS) THEN u ELSE EpochStart(WEEKS))
  BY <1>1, MaxTwo, MinTwo
<1> HIDE DEF from, end
<1>6. from \in Nat /\ end \in Nat
  BY <1>1, <1>5
<1>7. low = (IF from >= s THEN from ELSE s) /\ high = (IF end <= s + EPOCH THEN end ELSE s + EPOCH)
  BY <1>1, <1>6, MaxTwo, MinTwo
<1> HIDE DEF low, high
<1>8. low \in Nat /\ high \in Nat
  BY <1>1, <1>6, <1>7
<1>9. Overlap(e, from, end) = IF 0 >= high - low THEN 0 ELSE high - low
  BY <1>4, <1>8, MaxTwo
<1>10. low = IF t >= s THEN t ELSE s
  BY <1>1, <1>5, <1>7
<1>11. high = IF u <= s + EPOCH THEN u ELSE s + EPOCH
  BY <1>1, <1>5, <1>7
<1>12. Overlap(e, from, end) = Elapsed(e, u) - Elapsed(e, t)
  BY <1>1, <1>2, <1>3, <1>9, <1>10, <1>11
<1> QED BY <1>12 DEF from, end

\* _globalNow adds to the budget what was streamed since the update, and no more.
LEMMA GlobalIs ==
  ASSUME ReserveType, NEW b \in Int, Sound(pos, pool, b), pool.lastUpdate <= now
  PROVE  /\ Sound(pos, GlobalNow, b + (Streamed(now) - Streamed(pool.lastUpdate)))
         /\ GlobalNow.lPer = pool.lPer /\ GlobalNow.totalWeight = pool.totalWeight
         /\ GlobalNow.lastUpdate = pool.lastUpdate /\ GlobalNow.seed = pool.seed
         /\ GlobalNow.nextEpoch = pool.nextEpoch
<1> DEFINE t == pool.lastUpdate
           from == Max({t, launchAt})
           end == Min({now, EpochStart(WEEKS)})
           a == [e \in Epochs |-> EmissionRate(e) * Overlap(e, from, end)]
           h == GlobalNow
           w == pool.totalWeight
           c == Streamed(now) - Streamed(t)
<1>1. /\ PoolRecord(pool) /\ t \in Nat /\ now \in Nat /\ t <= now /\ launchAt \in Nat
      /\ pool.ePer \in Nat /\ w \in Nat /\ pool.undistributed \in Nat
  BY PoolRecordIs DEF Sound, ReserveType
<1>2. Streamed(now) \in Int /\ Streamed(t) \in Int /\ Streamed(t) <= Streamed(now)
  BY <1>1, StreamedTotal
<1>3. c \in Int /\ c >= 0 /\ b + c \in Int /\ b <= b + c
  BY <1>2
<1>4. CASE ~ Launched \/ now <= launchAt \/ now = t
  <2>1. h = pool
    BY <1>4 DEF GlobalNow
  <2> HIDE DEF c
  <2>2. Sound(pos, pool, b + c)
    BY <1>1, <1>3, SoundSame
  <2> QED BY <2>1, <2>2 DEF c
<1>5. CASE Launched /\ ~ (now <= launchAt) /\ ~ (now = t)
  <2>1. ASSUME NEW e \in Epochs
        PROVE  a[e] = StreamedOf(now)[e] - StreamedOf(t)[e] /\ a[e] \in Nat
    <3>1. a[e] = EmissionRate(e) * (Elapsed(e, now) - Elapsed(e, t))
      BY <1>1, <1>5, OverlapIs
    <3>2. Elapsed(e, now) \in Nat /\ Elapsed(e, t) \in Nat /\ Elapsed(e, t) <= Elapsed(e, now) /\ EmissionRate(e) \in Nat
      <4>1. EPOCH \in Nat
        BY EmissionsAssumption
      <4> QED BY <1>1, <4>1, ElapsedIs, RateIs
    <3>3. \A k, x, y \in Nat : x <= y => k * (y - x) = k * y - k * x /\ k * (y - x) \in Nat
      OBVIOUS
    <3> HIDE DEF a
    <3>4. a[e] = EmissionRate(e) * Elapsed(e, now) - EmissionRate(e) * Elapsed(e, t) /\ a[e] \in Nat
      BY <3>1, <3>2, <3>3
    <3> QED BY <3>4 DEF StreamedOf
  <2>2. a \in [Epochs -> Nat]
    BY <2>1
  <2>3. SumFunctionOnSet(a, Epochs) = c
    <3>1. \A e \in Epochs : /\ a[e] \in Int /\ StreamedOf(t)[e] \in Int
                            /\ StreamedOf(now)[e] = StreamedOf(t)[e] + a[e]
      <4>1. \A e \in Epochs : StreamedOf(t)[e] \in Nat /\ StreamedOf(now)[e] \in Nat
        BY <1>1, StreamedIs
      <4> HIDE DEF a
      <4> QED BY <2>1, <4>1
    <3> DEFINE u == StreamedOf(now)
               v == StreamedOf(t)
    <3> HIDE DEF a, u, v
    <3>2. SumFunctionOnSet(u, Epochs) = SumFunctionOnSet(v, Epochs) + SumFunctionOnSet(a, Epochs)
      <4>1. \A e \in Epochs : v[e] \in Int /\ a[e] \in Int /\ u[e] = v[e] + a[e]
        BY <3>1 DEF u, v
      <4>2. IsFiniteSet(Epochs)
        BY EpochsFinite
      <4> QED BY ONLY <4>1, <4>2, SumPlus
    <3>3. SumFunctionOnSet(a, Epochs) \in Int
      BY <3>1, EpochsFinite, SumType
    <3> QED BY <1>2, <3>2, <3>3 DEF Streamed, u, v
  <2>4. c \in Nat
    BY <1>3
  <2>5. CASE w > 0
    <3> DEFINE f == [e \in Epochs |-> (a[e] * PRECISION) \div w]
               i == SumFunctionOnSet(f, Epochs)
    <3>1. h = [pool EXCEPT !.ePer = @ + i]
      <4>1. i = SumFunction([e \in Epochs |-> (EmissionRate(e) * Overlap(e, from, end) * PRECISION) \div pool.totalWeight])
        BY DEF SumFunction
      <4> QED BY <1>5, <2>5, <4>1 DEF GlobalNow
    <3>2. i \in Nat
      <4>1. ASSUME NEW e \in Epochs PROVE f[e] \in Nat
        <5>1. a[e] * PRECISION \in Nat
          <6> HIDE DEF a
          <6> QED BY <2>1, TokensFinite, ProductNat
        <5> QED BY <1>1, <2>5, <5>1, QuotientNat
      <4> HIDE DEF f
      <4>2. \A e \in Epochs : f[e] \in Int /\ f[e] >= 0
        BY <4>1
      <4>3. SumFunctionOnSet(f, Epochs) \in Int /\ SumFunctionOnSet(f, Epochs) >= 0
        BY <4>2, EpochsFinite, SumType
      <4> QED BY <4>3
    <3> HIDE DEF i, h
    <3>3. /\ PoolRecord(h) /\ h.ePer = pool.ePer + i /\ h.lPer = pool.lPer /\ h.totalWeight = pool.totalWeight
          /\ h.undistributed = pool.undistributed /\ h.lastUpdate = pool.lastUpdate /\ h.seed = pool.seed
          /\ h.nextEpoch = pool.nextEpoch
      BY <1>1, <3>1, <3>2 DEF PoolRecord
    <3>4. pool.totalWeight > 0 /\ h.ePer = pool.ePer + SumFunctionOnSet([e \in Epochs |-> (a[e] * PRECISION) \div pool.totalWeight], Epochs)
      BY <2>5, <3>3 DEF i
    <3> HIDE DEF a, c
    <3>5. Sound(pos, h, b + SumFunctionOnSet(a, Epochs))
      BY <2>2, <3>3, <3>4, SoundStreamed
    <3>6. Sound(pos, h, b + c)
      BY <2>3, <3>5
    <3> QED BY <3>3, <3>6 DEF c, h
  <2>6. CASE ~ (w > 0)
    <3>1. h = [pool EXCEPT !.undistributed = @ + SumFunctionOnSet(a, Epochs)]
      <4>1. SumFunctionOnSet(a, Epochs) = SumFunction([e \in Epochs |-> EmissionRate(e) * Overlap(e, from, end)])
        BY DEF SumFunction
      <4> QED BY <1>5, <2>6, <4>1 DEF GlobalNow
    <3> HIDE DEF h, a, c
    <3>2. h = [pool EXCEPT !.undistributed = pool.undistributed + c]
      BY <2>3, <3>1
    <3>3. /\ PoolRecord(h) /\ h.ePer = pool.ePer /\ h.lPer = pool.lPer /\ h.totalWeight = pool.totalWeight
          /\ h.undistributed = pool.undistributed + c /\ h.lastUpdate = pool.lastUpdate /\ h.seed = pool.seed
          /\ h.nextEpoch = pool.nextEpoch
      BY <1>1, <2>4, <3>2 DEF PoolRecord
    <3>4. Sound(pos, h, b + c)
      BY <1>3, <3>3, SoundUnearned
    <3> QED BY <3>3, <3>4 DEF c, h
  <2> QED BY <2>5, <2>6
<1> QED BY <1>4, <1>5

(***************************************************************************)
(* The pool of positions.                                                  *)
(***************************************************************************)
\* What is held for the positions: the balance, less what was delivered ahead of
\* the stream, with what was streamed ahead of its delivery.
Budget(t) == sgage["lpRewards"] - LiquidityOf(released) + Streamed(t)

LPType == pos \in [Tokens -> PosRecord] /\ value \in [Tokens -> Nat]

LPInv ==
  /\ pool.lastUpdate <= now
  /\ Sound(pos, pool, Budget(pool.lastUpdate))

LEMMA BudgetIs ==
  ASSUME ReserveType, NEW t \in Nat
  PROVE  /\ Budget(t) \in Int
         /\ \A u \in Nat : Budget(u) = Budget(t) + (Streamed(u) - Streamed(t))
<1>1. sgage["lpRewards"] \in Nat /\ LiquidityOf(released) \in Nat
  BY TheHolders, LiquidityIs DEF ReserveType
<1>2. \A u \in Nat : Streamed(u) \in Int
  BY StreamedTotal
<1> QED BY <1>1, <1>2 DEF Budget

\* After _updateGlobal the positions are owed what is held for them now.
LEMMA UpdatedIs ==
  ASSUME ReserveType, LPInv
  PROVE  /\ Sound(pos, UpdateGlobal, Budget(now)) /\ PoolRecord(UpdateGlobal)
         /\ UpdateGlobal.lastUpdate = now /\ UpdateGlobal.lPer = pool.lPer
         /\ UpdateGlobal.seed = pool.seed /\ UpdateGlobal.nextEpoch = pool.nextEpoch
         /\ UpdateGlobal.totalWeight = pool.totalWeight /\ UpdateGlobal.ePer = GlobalNow.ePer
         /\ UpdateGlobal.undistributed = GlobalNow.undistributed
<1> DEFINE h == GlobalNow
           g == UpdateGlobal
<1>1. pool.lastUpdate \in Nat /\ now \in Nat /\ pool.lastUpdate <= now /\ Sound(pos, pool, Budget(pool.lastUpdate))
  BY PoolRecordIs DEF LPInv, Sound, ReserveType
<1>2. Budget(pool.lastUpdate) \in Int /\ Budget(now) \in Int
      /\ Budget(now) = Budget(pool.lastUpdate) + (Streamed(now) - Streamed(pool.lastUpdate))
  BY <1>1, BudgetIs
<1>3. /\ Sound(pos, h, Budget(now))
      /\ h.lPer = pool.lPer /\ h.totalWeight = pool.totalWeight
      /\ h.seed = pool.seed /\ h.nextEpoch = pool.nextEpoch
  BY <1>1, <1>2, GlobalIs
<1>4. PoolRecord(h)
  BY <1>3 DEF Sound
<1>5. g = [h EXCEPT !.lastUpdate = now]
  BY DEF UpdateGlobal
<1> HIDE DEF h, g
<1>6. /\ PoolRecord(g) /\ g.lastUpdate = now /\ g.lPer = h.lPer /\ g.ePer = h.ePer
      /\ g.totalWeight = h.totalWeight /\ g.undistributed = h.undistributed
      /\ g.seed = h.seed /\ g.nextEpoch = h.nextEpoch
  BY <1>1, <1>4, <1>5 DEF PoolRecord
<1>7. Sound(pos, g, Budget(now))
  BY <1>2, <1>3, <1>6, SoundSame
<1> QED BY <1>3, <1>6, <1>7 DEF h, g

LEMMA StreamedNext ==
  ASSUME UNCHANGED <<shares, launchAt>>
  PROVE  \A t : Streamed(t)' = Streamed(t)
<1>1. \A e \in Epochs : EmissionRate(e)' = EmissionRate(e)
  BY DEF EmissionRate, LiquidityBudget, DealsTotal
<1>2. \A e, t : Elapsed(e, t)' = Elapsed(e, t)
  BY DEF Elapsed, EpochStart, Launched
<1>3. \A t : StreamedOf(t)' = StreamedOf(t)
  BY <1>1, <1>2 DEF StreamedOf
<1> QED BY <1>3 DEF Streamed

\* What is held moves only by what positions are paid: a delivery changes nothing.
LEMMA BudgetMoves ==
  ASSUME ReserveType, NEW E, NEW m \in Nat, NEW a, NEW b, Released(E, m, a, b), NEW x \in Int,
         sgage'["lpRewards"] = sgage["lpRewards"] + LiquidityOf(E) - x
  PROVE  \A t \in Nat : Budget(t)' = Budget(t) - x
<1>1. UNCHANGED <<shares, launchAt>> /\ released' = released \cup E /\ E \in SUBSET Epochs /\ released \cap E = {}
      /\ released \in SUBSET Epochs
  BY DEF Released, Started, ReserveType
<1>2. \A t : Streamed(t)' = Streamed(t)
  BY <1>1, StreamedNext
<1> DEFINE f == [e \in Epochs |-> LiquidityBudget(e)]
<1>3. LiquidityOf(released)' = LiquidityOf(released) + LiquidityOf(E)
  <2>1. LiquidityOf(released)' = SumFunctionOnSet([e \in released \cup E |-> LiquidityBudget(e)'], released \cup E)
    BY <1>1 DEF LiquidityOf, SumFunction
  <2>2. \A e \in released \cup E : LiquidityBudget(e)' = LiquidityBudget(e)
    BY <1>1 DEF LiquidityBudget, DealsTotal
  <2>3. LiquidityOf(released)' = SumFunctionOnSet([e \in released \cup E |-> LiquidityBudget(e)], released \cup E)
    BY <2>1, <2>2
  <2>4. LiquidityOf(released \cup E) = SumFunctionOnSet([e \in released \cup E |-> LiquidityBudget(e)], released \cup E)
    BY DEF LiquidityOf, SumFunction
  <2>5. /\ LiquidityOf(released \cup E) = SumFunctionOnSet(f, released \cup E)
        /\ LiquidityOf(released) = SumFunctionOnSet(f, released)
        /\ LiquidityOf(E) = SumFunctionOnSet(f, E)
    <3>1. released \cup E \in SUBSET Epochs
      BY <1>1
    <3> QED BY <1>1, <3>1, LiquidityIs
  <2>6. SumFunctionOnSet(f, released \cup E) = SumFunctionOnSet(f, released) + SumFunctionOnSet(f, E)
    <3>1. \A e \in released \cup E : f[e] \in Int
      BY <1>1, Budgets
    <3>2. IsFiniteSet(released) /\ IsFiniteSet(E)
      BY <1>1, EpochsFinite, FS_Subset
    <3> HIDE DEF f
    <3> QED BY <1>1, <3>1, <3>2, SumUnion
  <2> QED BY <2>3, <2>4, <2>5, <2>6
<1>4. sgage["lpRewards"] \in Int
  BY TheHolders DEF ReserveType
<1>6. LiquidityOf(released) \in Nat /\ LiquidityOf(E) \in Nat
  BY <1>1, LiquidityIs
<1>5. \A t \in Nat : Streamed(t) \in Int
  BY StreamedTotal
<1> QED BY <1>2, <1>3, <1>4, <1>5, <1>6 DEF Budget

\* Nothing is released and nothing leaves.
LEMMA NothingReleased ==
  ASSUME ReserveType, ReserveInv, UNCHANGED <<now, emissionVars>>, sgage' \in [Holders -> Nat],
         sgage'["emissions"] = sgage["emissions"]
  PROVE  Released({}, 0, 0, "TERM7") /\ LiquidityOf({}) = 0
<1>1. LiquidityOf({}) = 0
  <2>1. LiquidityOf({}) = SumFunctionOnSet([e \in {} |-> LiquidityBudget(e)], {})
    BY DEF LiquidityOf, SumFunction
  <2> QED BY <2>1, SumEmpty
<1>2. UNCHANGED <<launchAt, shares, released, rolledOver, reserved, totalOut>>
  BY DEF emissionVars
<1>3. totalOut' = totalOut + (LiquidityOf({}) + 0) /\ sgage'["emissions"] = sgage["emissions"] - (LiquidityOf({}) + 0)
  <2>1. sgage["emissions"] \in Int
    BY TheHolders DEF ReserveType
  <2>2. totalOut \in Int
    BY TotalIs
  <2> QED BY <1>1, <1>2, <2>1, <2>2
<1> QED BY <1>1, <1>2, <1>3 DEF Released

(***************************************************************************)
(* The steps of the liquidity rewards.                                     *)
(***************************************************************************)
LPState == ReserveType /\ ReserveInv /\ DripsType /\ DripsInv /\ LPType /\ LPInv

LEMMA BudgetPrimed == ASSUME NEW n, n = pool'.lastUpdate PROVE Budget(pool.lastUpdate)' = Budget(n)'
<1>1. Streamed(pool.lastUpdate)' = Streamed(n)'
  <2>1. \A e : Elapsed(e, pool.lastUpdate)' = Elapsed(e, n)'
    BY DEF Elapsed
  <2>2. StreamedOf(pool.lastUpdate)' = StreamedOf(n)'
    BY <2>1 DEF StreamedOf
  <2> QED BY <2>2 DEF Streamed
<1> QED BY <1>1 DEF Budget

\* The positions are paid x and hold no more than what is left.
LEMMA LPMoves ==
  ASSUME ReserveType, NEW E, NEW m \in Nat, NEW a, NEW b, Released(E, m, a, b), NEW x \in Int,
         sgage'["lpRewards"] = sgage["lpRewards"] + LiquidityOf(E) - x,
         pos' \in [Tokens -> PosRecord], value' \in [Tokens -> Nat],
         NEW n \in Nat, n <= now, pool'.lastUpdate = n, Sound(pos', pool', Budget(n) - x)
  PROVE  LPType' /\ LPInv'
<1>1. Budget(n)' = Budget(n) - x
  BY BudgetMoves
<1>2. Budget(pool.lastUpdate)' = Budget(n)'
  BY BudgetPrimed
<1>3. now' = now
  BY DEF Released
<1>4. (pool.lastUpdate <= now)'
  BY <1>3
<1>5. Sound(pos, pool, Budget(pool.lastUpdate))'
  <2>1. Sound(pos, pool, Budget(pool.lastUpdate))' <=> Sound(pos', pool', Budget(pool.lastUpdate)')
    BY DEF Sound, PoolRecord, PaidUp, Weights, Owing, Scaled
  <2> QED BY <1>1, <1>2, <2>1
<1> QED BY <1>4, <1>5 DEF LPType, LPInv

\* The whole state after a step that lets E and m out of the reserve.
LEMMA MovesKeep ==
  ASSUME LPState, NEW E, NEW m \in Nat, NEW a, NEW b, Released(E, m, a, b), NEW x \in Int,
         sgage'["lpRewards"] = sgage["lpRewards"] + LiquidityOf(E) - x,
         DripsType', DripsInv',
         pos' \in [Tokens -> PosRecord], value' \in [Tokens -> Nat],
         NEW n \in Nat, n <= now, pool'.lastUpdate = n, Sound(pos', pool', Budget(n) - x)
  PROVE  LPState'
<1>1. ReserveType /\ ReserveInv
  BY DEF LPState
<1>2. ReserveType' /\ ReserveInv'
  BY <1>1, ReleasedKeeps
<1>3. LPType' /\ LPInv'
  BY <1>1, LPMoves
<1> QED BY <1>2, <1>3 DEF LPState

LEMMA PoolNow ==
  ASSUME LPState
  PROVE  /\ now \in Nat /\ pool.lastUpdate \in Nat /\ pool.lastUpdate <= now
         /\ Sound(pos, pool, Budget(pool.lastUpdate)) /\ PoolRecord(pool)
         /\ Budget(now) \in Int /\ Budget(pool.lastUpdate) \in Int
<1>1. ReserveType /\ LPInv
  BY DEF LPState
<1>2. PoolRecord(pool) /\ pool.lastUpdate <= now /\ Sound(pos, pool, Budget(pool.lastUpdate))
  BY <1>1 DEF LPInv, Sound
<1>3. pool.lastUpdate \in Nat
  BY <1>2, PoolRecordIs
<1>4. now \in Nat
  BY <1>1 DEF ReserveType
<1>5. Budget(now) \in Int /\ Budget(pool.lastUpdate) \in Int
  BY <1>1, <1>3, <1>4, BudgetIs
<1> QED BY <1>2, <1>3, <1>4, <1>5

\* Nothing is paid, granted or released.
LEMMA QuietKeeps ==
  ASSUME LPState, UNCHANGED <<now, sgage, emissionVars, dripVars>>,
         pos' \in [Tokens -> PosRecord], value' \in [Tokens -> Nat],
         NEW n \in Nat, n <= now, pool'.lastUpdate = n, Sound(pos', pool', Budget(n))
  PROVE  LPState'
<1>1. ReserveType /\ ReserveInv /\ DripsType /\ DripsInv
  BY DEF LPState
<1>2. Released({}, 0, 0, "TERM7") /\ LiquidityOf({}) = 0
  <2>1. sgage' \in [Holders -> Nat] /\ sgage'["emissions"] = sgage["emissions"]
    BY <1>1 DEF ReserveType
  <2> QED BY <1>1, <2>1, NothingReleased
<1>3. DripsType' /\ DripsInv'
  <2>1. now \in Nat /\ now' \in Nat /\ now <= now'
    BY <1>1 DEF ReserveType
  <2> QED BY <1>1, <2>1, DripsUntouched
<1>4. sgage'["lpRewards"] = sgage["lpRewards"] + LiquidityOf({}) - 0
  <2>1. sgage["lpRewards"] \in Int
    BY <1>1, TheHolders DEF ReserveType
  <2> QED BY <1>2, <2>1
<1>5. Sound(pos', pool', Budget(n) - 0)
  <2>1. Budget(n) \in Int
    BY <1>1, BudgetIs
  <2>2. Budget(n) - 0 = Budget(n)
    BY <2>1
  <2> QED BY <2>2
<1> QED BY <1>2, <1>3, <1>4, <1>5, MovesKeep

LEMMA CheckpointSound ==
  ASSUME NEW S \in SUBSET Tokens, NEW g, NEW b \in Int, Sound(pos, g, b),
         pos \in [Tokens -> PosRecord], value' \in [Tokens -> Nat], Checkpoint(S, g)
  PROVE  Sound(pos', pool', b) /\ pos' \in [Tokens -> PosRecord] /\ pool'.lastUpdate = g.lastUpdate
<1> DEFINE w == [t \in S |-> NewWeight(t, g)]
           q == [t \in Tokens |-> IF t \in S THEN [Accrued(pos[t], g) EXCEPT !.weight = NewWeight(t, g)] ELSE pos[t]]
           n == g.totalWeight + SumFunctionOnSet([t \in S |-> w[t] - pos[t].weight], S)
           h == [g EXCEPT !.totalWeight = n]
<1>1. \A t \in S : w[t] \in Nat
  BY DEF NewWeight
<1>2. pos' = q
  BY DEF Checkpoint
<1>3. pool' = h
  <2>1. SumFunction([t \in S |-> NewWeight(t, g) - pos[t].weight]) = SumFunctionOnSet([t \in S |-> w[t] - pos[t].weight], S)
    <3>1. [t \in S |-> NewWeight(t, g) - pos[t].weight] = [t \in S |-> w[t] - pos[t].weight]
      OBVIOUS
    <3> QED BY <3>1 DEF SumFunction
  <2> QED BY <2>1 DEF Checkpoint
<1>4. \A t \in S : q[t] = Rechecked(pos[t], g, w[t])
  BY DEF Rechecked
<1>5. \A t \in Tokens \ S : q[t] = pos[t]
  OBVIOUS
<1> HIDE DEF w, q
<1>6. PoolRecord(g) /\ \A t \in Tokens : PaidUp(pos[t], g)
  BY DEF Sound
<1>7. \A t \in Tokens : PaidUp(q[t], g) /\ q[t] \in PosRecord
  <2> SUFFICES ASSUME NEW t \in Tokens PROVE PaidUp(q[t], g)
    BY DEF PaidUp
  <2>1. CASE t \in S
    BY <1>1, <1>4, <1>6, <2>1, RecheckedIs
  <2>2. CASE t \notin S
    BY <1>5, <1>6, <2>2
  <2> QED BY <2>1, <2>2
<1>8. q \in [Tokens -> PosRecord]
  BY <1>7 DEF q
<1>9. n = SumFunctionOnSet(Weights(q), Tokens) /\ n \in Nat
  <2>1. \A t \in Tokens : pos[t].weight \in Int /\ q[t].weight \in Nat
    BY <1>8 DEF PosRecord
  <2>2. \A t \in S : w[t] \in Int /\ q[t].weight = w[t]
    BY <1>1, <1>4, <1>6, RecheckedIs
  <2>3. SumFunctionOnSet(Weights(q), Tokens)
           = SumFunctionOnSet(Weights(pos), Tokens) + SumFunctionOnSet([t \in S |-> w[t] - pos[t].weight], S)
    BY <1>5, <2>1, <2>2, WeightsMove
  <2>4. g.totalWeight = SumFunctionOnSet(Weights(pos), Tokens)
    BY DEF Sound
  <2>5. \A t \in Tokens : Weights(q)[t] \in Int /\ Weights(q)[t] >= 0
    BY <2>1 DEF Weights
  <2>6. SumFunctionOnSet(Weights(q), Tokens) \in Int /\ SumFunctionOnSet(Weights(q), Tokens) >= 0
    <3>1. \A t \in Tokens : Weights(q)[t] \in Int
      BY <2>5
    <3> QED BY <2>5, <3>1, TokensFinite, SumType
  <2> QED BY <2>3, <2>4, <2>6
<1> HIDE DEF n
<1>10. /\ PoolRecord(h) /\ h.ePer = g.ePer /\ h.lPer = g.lPer /\ h.undistributed = g.undistributed
       /\ h.totalWeight = n /\ h.lastUpdate = g.lastUpdate
  BY <1>6, <1>9 DEF PoolRecord
<1> HIDE DEF h
<1>11. h.totalWeight = g.totalWeight + SumFunctionOnSet([t \in S |-> w[t] - pos[t].weight], S)
  BY <1>10 DEF n
<1>12. Sound(q, h, b)
  BY <1>1, <1>4, <1>5, <1>10, <1>11, SoundChecked
<1> QED BY <1>2, <1>3, <1>8, <1>10, <1>12

LEMMA CheckpointKeeps ==
  ASSUME LPState, NEW S \in SUBSET Tokens, NEW g, Sound(pos, g, Budget(now)), g.lastUpdate = now,
         value' \in [Tokens -> Nat], Checkpoint(S, g), UNCHANGED <<now, sgage, emissionVars, dripVars>>
  PROVE  LPState'
<1>1. pos \in [Tokens -> PosRecord]
  BY DEF LPState, LPType
<1>2. Budget(now) \in Int /\ now \in Nat
  BY PoolNow
<1>3. Sound(pos', pool', Budget(now)) /\ pos' \in [Tokens -> PosRecord] /\ pool'.lastUpdate = now
  BY <1>1, <1>2, CheckpointSound
<1>4. now <= now
  BY <1>2
<1> QED BY <1>2, <1>3, <1>4, QuietKeeps

BudgetsSane == ReserveType => /\ \A t \in Nat : Budget(t) \in Int /\ Streamed(t) \in Int /\ Streamed(t) >= 0
                              /\ LiquidityOf(released) \in Nat

LEMMA BudgetsAreSane == BudgetsSane
<1>1. ASSUME ReserveType, NEW t \in Nat PROVE Budget(t) \in Int /\ Streamed(t) \in Int /\ Streamed(t) >= 0
  BY <1>1, BudgetIs, StreamedTotal
<1>2. ASSUME ReserveType PROVE LiquidityOf(released) \in Nat
  <2>1. released \in SUBSET Epochs
    BY <1>2 DEF ReserveType
  <2> QED BY <1>2, <2>1, LiquidityIs
<1> QED BY <1>1, <1>2 DEF BudgetsSane

LEMMA BudgetsStaySane == BudgetsSane'
BY BudgetsAreSane, PTL

\* The pool does not move, and more is held for the positions than before.
LEMMA LPStays ==
  ASSUME LPState, ReserveType', UNCHANGED <<pool, pos, value>>, now' >= now,
         \A t \in Nat : t <= now => Budget(t) <= Budget(t)'
  PROVE  LPType' /\ LPInv'
<1>1. PICK n \in Nat : n = pool.lastUpdate
  BY PoolNow
<1>2. /\ n <= now /\ now \in Nat /\ Sound(pos, pool, Budget(n)) /\ Budget(n) \in Int
  BY <1>1, PoolNow
<1>3. Budget(pool.lastUpdate)' = Budget(n)'
  BY <1>1, BudgetPrimed
<1>4. Budget(n)' \in Int /\ Budget(n) <= Budget(n)'
  BY <1>2, BudgetsStaySane DEF BudgetsSane
<1>5. PoolRecord(pool)
  BY <1>2 DEF Sound
<1>6. Sound(pos, pool, Budget(n)')
  BY <1>2, <1>4, <1>5, SoundSame
<1>7. Sound(pos, pool, Budget(pool.lastUpdate))'
  <2>1. Sound(pos, pool, Budget(pool.lastUpdate))' <=> Sound(pos', pool', Budget(pool.lastUpdate)')
    BY DEF Sound, PoolRecord, PaidUp, Weights, Owing, Scaled
  <2> QED BY <1>3, <1>6, <2>1
<1>8. (pool.lastUpdate <= now)'
  <2>1. now' \in Nat
    BY DEF ReserveType
  <2> QED BY <1>1, <1>2, <2>1
<1>9. LPType'
  BY DEF LPState, LPType
<1> QED BY <1>7, <1>8, <1>9 DEF LPInv

LEMMA TickKeeps ==
  ASSUME LPState, Tick
  PROVE  LPState'
<1>1. ReserveType /\ ReserveInv /\ DripsType /\ DripsInv
  BY DEF LPState
<1>2. now \in Nat /\ now' = now + 1 /\ UNCHANGED <<sgage, emissionVars, dripVars, pool, pos, value>>
  BY <1>1 DEF Tick, lpVars, ReserveType
<1>3. now' \in Nat /\ now <= now'
  BY <1>2
<1>4. ReserveType' /\ ReserveInv'
  <2>1. ReserveStays
    BY <1>1, <1>2 DEF ReserveStays, ReserveType
  <2> QED BY <1>1, <1>3, <2>1, ReserveUntouched
<1>5. DripsType' /\ DripsInv'
  BY <1>1, <1>2, <1>3, DripsUntouched
<1>6. ASSUME NEW t \in Nat PROVE Budget(t) <= Budget(t)'
  <2>1. UNCHANGED <<shares, launchAt, released>>
    BY <1>2 DEF emissionVars
  <2>2. LiquidityOf(released)' = LiquidityOf(released)
    BY <2>1 DEF LiquidityOf, LiquidityBudget, DealsTotal
  <2>3. Streamed(t)' = Streamed(t)
    BY <2>1, StreamedNext
  <2>4. Budget(t) \in Int
    BY <1>1, BudgetIs
  <2>5. Budget(t)' = Budget(t)
    BY <1>2, <2>2, <2>3 DEF Budget
  <2> QED BY <2>4, <2>5
<1>7. LPType' /\ LPInv'
  BY <1>2, <1>3, <1>4, <1>6, LPStays
<1> QED BY <1>4, <1>5, <1>7 DEF LPState

LEMMA LaunchStep ==
  ASSUME LPState, NEW at \in LaunchTimes, Launch(at), UNCHANGED <<now, sgage, dripVars, lpVars>>
  PROVE  LPState'
<1>1. ReserveType /\ ReserveInv /\ DripsType /\ DripsInv
  BY DEF LPState
<1>2. now \in Nat /\ now' = now /\ UNCHANGED <<sgage, dripVars, pool, pos, value>>
  BY <1>1 DEF lpVars, ReserveType
<1>3. now' \in Nat /\ now <= now' /\ now' >= now
  BY <1>2
<1>4. ReserveType' /\ ReserveInv'
  BY <1>1, <1>2, LaunchKeeps
<1>5. DripsType' /\ DripsInv'
  BY <1>1, <1>2, <1>3, DripsUntouched
<1>6. released = {} /\ released' = {} /\ ~ Launched
  BY <1>1 DEF ReserveInv, ReserveType, Started, Launch
<1>7. LiquidityOf(released) = 0 /\ LiquidityOf(released)' = 0
  <2>1. LiquidityOf(released) = SumFunctionOnSet([e \in {} |-> LiquidityBudget(e)], {})
    BY <1>6 DEF LiquidityOf, SumFunction
  <2>2. LiquidityOf(released)' = SumFunctionOnSet([e \in {} |-> LiquidityBudget(e)'], {})
    BY <1>6 DEF LiquidityOf, SumFunction
  <2> QED BY <2>1, <2>2, SumEmpty
<1>8. ASSUME NEW t \in Nat PROVE Budget(t) <= Budget(t)'
  <2>1. Streamed(t) = 0
    BY <1>1, <1>6, StreamedTotal
  <2>2. Streamed(t)' \in Int /\ Streamed(t)' >= 0
    BY <1>4, BudgetsStaySane DEF BudgetsSane
  <2>3. sgage["lpRewards"] \in Int /\ sgage' = sgage
    BY <1>1, <1>2, TheHolders DEF ReserveType
  <2>4. Budget(t) = sgage["lpRewards"]
    BY <1>7, <2>1, <2>3 DEF Budget
  <2>5. Budget(t)' = sgage["lpRewards"] + Streamed(t)'
    BY <1>7, <2>2, <2>3 DEF Budget
  <2> QED BY <2>2, <2>3, <2>4, <2>5
<1>9. LPType' /\ LPInv'
  BY <1>2, <1>3, <1>4, <1>8, LPStays
<1> QED BY <1>4, <1>5, <1>9 DEF LPState

\* Shares move only in epochs that have neither streamed nor delivered.
LEMMA SharesStep ==
  ASSUME LPState, NEW e \in Epochs, NEW choice \in SharesChoices, SetShares(e, choice),
         UNCHANGED <<now, sgage, dripVars, lpVars>>
  PROVE  LPState'
<1>1. ReserveType /\ ReserveInv /\ DripsType /\ DripsInv
  BY DEF LPState
<1>2. now \in Nat /\ now' = now /\ UNCHANGED <<sgage, dripVars, pool, pos, value>>
  BY <1>1 DEF lpVars, ReserveType
<1>3. now' \in Nat /\ now <= now' /\ now' >= now
  BY <1>2
<1>4. ReserveType' /\ ReserveInv'
  BY <1>1, <1>2, SharesKeep
<1>5. DripsType' /\ DripsInv'
  BY <1>1, <1>2, <1>3, DripsUntouched
<1>6. UNCHANGED <<launchAt, released>> /\ ~ Started(e)
  BY DEF SetShares
<1>7. \A x \in Epochs \ {e} : LiquidityBudget(x)' = LiquidityBudget(x)
  BY <1>1 DEF SetShares, LiquidityBudget, DealsTotal, ReserveType
<1>8. e \notin released /\ released \in SUBSET Epochs
  BY <1>1, <1>6 DEF ReserveInv, ReserveType
<1>9. LiquidityOf(released)' = LiquidityOf(released)
  <2>1. \A x \in released : LiquidityBudget(x)' = LiquidityBudget(x)
    BY <1>7, <1>8
  <2> QED BY <1>6, <2>1 DEF LiquidityOf
<1>10. ASSUME NEW t \in Nat, t <= now PROVE Budget(t) <= Budget(t)'
  <2>1. \A x \in Epochs : Elapsed(x, t)' = Elapsed(x, t)
    BY <1>6 DEF Elapsed, EpochStart, Launched
  <2>2. Elapsed(e, t) = 0
    <3>1. EpochStart(e) \in Nat
      BY <1>1, EpochStarts
    <3> QED BY <1>2, <1>6, <1>10, <3>1 DEF Started, Elapsed
  <2>3. \A x \in Epochs \ {e} : EmissionRate(x)' = EmissionRate(x)
    BY <1>7 DEF EmissionRate
  <2>4. EmissionRate(e) \in Nat
    BY <1>1, RateIs
  <2>5. EmissionRate(e)' \in Int
    <3>1. LiquidityBudget(e)' \in Int
      <4>1. DealsTotal(e)' \in Int
        <5>1. Weekly[e] \in Nat /\ shares'[e].deal \in Nat /\ BPS \in Nat \ {0}
          BY <1>4, EmissionsAssumption DEF ReserveType
        <5>2. Weekly[e] * shares'[e].deal \in Nat
          BY <5>1, ProductNat
        <5> QED BY <5>1, <5>2, QuotientNat DEF DealsTotal
      <4>2. Weekly[e] \in Nat
        BY EmissionsAssumption
      <4> QED BY <4>1, <4>2 DEF LiquidityBudget
    <3>2. EPOCH \in Nat \ {0}
      BY EmissionsAssumption
    <3> QED BY <3>1, <3>2 DEF EmissionRate
  <2>6. \A x \in Epochs : EmissionRate(x)' * Elapsed(x, t)' = EmissionRate(x) * Elapsed(x, t)
    <3>1. SUFFICES ASSUME NEW x \in Epochs
                   PROVE  EmissionRate(x)' * Elapsed(x, t)' = EmissionRate(x) * Elapsed(x, t)
      OBVIOUS
    <3>2. CASE x = e
      <4>1. Elapsed(e, t) = 0 /\ Elapsed(e, t)' = 0
        BY <2>1, <2>2
      <4> QED BY <2>4, <2>5, <3>2, <4>1
    <3>3. CASE x # e
      BY <2>1, <2>3, <3>3
    <3> QED BY <3>2, <3>3
  <2>7. Streamed(t)' = Streamed(t)
    BY <2>6 DEF Streamed, StreamedOf
  <2>8. Budget(t) \in Int
    BY <1>1, BudgetIs
  <2>9. Budget(t)' = Budget(t)
    BY <1>2, <1>9, <2>7 DEF Budget
  <2> QED BY <2>8, <2>9
<1>11. LPType' /\ LPInv'
  BY <1>2, <1>3, <1>4, <1>10, LPStays
<1> QED BY <1>4, <1>5, <1>11 DEF LPState

\* Positions are checkpointed, change their liquidity or their owner, or become the seed.
LEMMA PositionsStep ==
  ASSUME LPState,
         \/ \E S \in SUBSET Minted \ {{}} : CheckpointMany(S)
         \/ \E t \in Minted :
              \/ \E v \in Values, recorded \in BOOLEAN : ChangeLiquidity(t, v, recorded)
              \/ \E to \in Owners \cup {FLOOR} : TransferNFT(t, to)
              \/ SetSeed(t)
  PROVE  LPState'
<1>1. Minted \in SUBSET Tokens /\ Values \in SUBSET Nat
  BY LPAssumption
<1>2. ReserveType /\ LPInv /\ pos \in [Tokens -> PosRecord] /\ value \in [Tokens -> Nat]
  BY DEF LPState, LPType
<1>3. /\ Sound(pos, UpdateGlobal, Budget(now)) /\ PoolRecord(UpdateGlobal)
      /\ UpdateGlobal.lastUpdate = now
  BY <1>2, UpdatedIs
<1>4. /\ now \in Nat /\ pool.lastUpdate \in Nat /\ pool.lastUpdate <= now
      /\ Sound(pos, pool, Budget(pool.lastUpdate)) /\ Budget(now) \in Int /\ Budget(pool.lastUpdate) \in Int
  BY PoolNow
<1>5. ASSUME NEW S \in SUBSET Minted \ {{}}, CheckpointMany(S) PROVE LPState'
  <2>1. UNCHANGED <<now, sgage, emissionVars, dripVars, value>> /\ Checkpoint(S, UpdateGlobal)
    BY <1>5 DEF CheckpointMany
  <2>2. S \in SUBSET Tokens /\ value' \in [Tokens -> Nat]
    BY <1>1, <1>2, <2>1
  <2> QED BY <1>3, <2>1, <2>2, CheckpointKeeps
<1>6. ASSUME NEW t \in Minted, NEW v \in Values, NEW recorded \in BOOLEAN, ChangeLiquidity(t, v, recorded)
      PROVE  LPState'
  <2>1. UNCHANGED <<now, sgage, emissionVars, dripVars>> /\ value' = [value EXCEPT ![t] = v]
    BY <1>6 DEF ChangeLiquidity
  <2>2. {t} \in SUBSET Tokens /\ value' \in [Tokens -> Nat]
    BY <1>1, <1>2, <2>1
  <2>3. CASE recorded
    <3>1. Checkpoint({t}, UpdateGlobal)
      BY <1>6, <2>3 DEF ChangeLiquidity
    <3> QED BY <1>3, <2>1, <2>2, <3>1, CheckpointKeeps
  <2>4. CASE ~ recorded
    <3>1. pool' = pool /\ pos' = pos
      BY <1>6, <2>4 DEF ChangeLiquidity
    <3>2. pool'.lastUpdate = pool.lastUpdate /\ Sound(pos', pool', Budget(pool.lastUpdate)) /\ pos' \in [Tokens -> PosRecord]
      BY <1>2, <1>4, <3>1
    <3> QED BY <1>4, <2>1, <2>2, <3>2, QuietKeeps
  <2> QED BY <2>3, <2>4
<1>7. ASSUME NEW t \in Minted, NEW to \in Owners \cup {FLOOR}, TransferNFT(t, to) PROVE LPState'
  <2>1. UNCHANGED <<now, sgage, emissionVars, dripVars, pool, pos, value>>
    BY <1>7 DEF TransferNFT
  <2>2. /\ pool'.lastUpdate = pool.lastUpdate /\ Sound(pos', pool', Budget(pool.lastUpdate))
        /\ pos' \in [Tokens -> PosRecord] /\ value' \in [Tokens -> Nat]
    BY <1>2, <1>4, <2>1
  <2> QED BY <1>4, <2>1, <2>2, QuietKeeps
<1>8. ASSUME NEW t \in Minted, SetSeed(t) PROVE LPState'
  <2> DEFINE h == UpdateGlobal
             g == [h EXCEPT !.seed = t]
  <2>1. UNCHANGED <<now, sgage, emissionVars, dripVars, value>> /\ Checkpoint({t}, g)
    BY <1>8 DEF SetSeed
  <2>2. {t} \in SUBSET Tokens /\ value' \in [Tokens -> Nat]
    BY <1>1, <1>2, <2>1
  <2>3. PoolRecord(h) /\ h.lastUpdate = now /\ Sound(pos, h, Budget(now))
    BY <1>3
  <2> HIDE DEF h
  <2>4. /\ PoolRecord(g) /\ g.lastUpdate = now
        /\ g.ePer = h.ePer /\ g.lPer = h.lPer /\ g.totalWeight = h.totalWeight /\ g.undistributed = h.undistributed
    BY <2>3 DEF PoolRecord
  <2> HIDE DEF g
  <2>5. Sound(pos, g, Budget(now))
    <3>1. Budget(now) <= Budget(now)
      BY <1>4
    <3> QED BY <1>4, <2>3, <2>4, <3>1, SoundSame
  <2> QED BY <2>1, <2>2, <2>4, <2>5, CheckpointKeeps
<1> QED BY <1>5, <1>6, <1>7, <1>8

\* The sGAGE of released epochs on its way to the positions.
LEMMA DeliveredIs ==
  ASSUME ReserveType, NEW E \in SUBSET Epochs
  PROVE  /\ Delivered(sgage, E) \in [Holders -> Int]
         /\ Delivered(sgage, E)["emissions"] = sgage["emissions"] - LiquidityOf(E)
         /\ Delivered(sgage, E)["lpRewards"] = sgage["lpRewards"] + LiquidityOf(E)
         /\ Delivered(sgage, E)["drip"] = sgage["drip"]
         /\ sgage \in [Holders -> Int] /\ LiquidityOf(E) \in Nat
<1>1. sgage \in [Holders -> Int]
  BY DEF ReserveType
<1>5. LiquidityOf(E) \in Nat
  BY LiquidityIs
<1>2. LiquidityOf(E) \in Int /\ LiquidityOf(E) \in Nat
  BY <1>5
<1>3. /\ Delivered(sgage, E) \in [Holders -> Int]
      /\ Delivered(sgage, E)["emissions"] = sgage["emissions"] - LiquidityOf(E)
      /\ Delivered(sgage, E)["lpRewards"] = sgage["lpRewards"] + LiquidityOf(E)
  BY <1>1, <1>2, TheHolders, PaidIs DEF Delivered
<1>4. Delivered(sgage, E)["drip"] = sgage["drip"]
  BY <1>1, <1>2, TheHolders, PaidOther DEF Delivered
<1> QED BY <1>1, <1>2, <1>3, <1>4

LEMMA NotifiedIs ==
  ASSUME NEW g, PoolRecord(g), NEW E
  PROVE  /\ PoolRecord(Notified(g, E)) /\ Notified(g, E).lastUpdate = g.lastUpdate
         /\ Notified(g, E).ePer = g.ePer /\ Notified(g, E).lPer = g.lPer
         /\ Notified(g, E).totalWeight = g.totalWeight /\ Notified(g, E).undistributed = g.undistributed
<1> DEFINE n == Max({g.nextEpoch} \cup {e + 1 : e \in E})
<1>1. Notified(g, E) = [g EXCEPT !.nextEpoch = n]
  BY DEF Notified
<1> HIDE DEF n
<1> QED BY <1>1 DEF PoolRecord

LEMMA EnsuredIs ==
  ASSUME NEW g, PoolRecord(g)
  PROVE  /\ PoolRecord(Ensured(g)) /\ Ensured(g).lastUpdate = g.lastUpdate
         /\ Ensured(g).ePer = g.ePer /\ Ensured(g).lPer = g.lPer
         /\ Ensured(g).totalWeight = g.totalWeight /\ Ensured(g).undistributed = g.undistributed
<1> DEFINE n == Max({g.nextEpoch, LastStarted + 1})
<1>1. Ensured(g) = [g EXCEPT !.nextEpoch = n]
  BY DEF Ensured
<1> HIDE DEF n
<1> QED BY <1>1 DEF PoolRecord

LEMMA ReleaseOutIs ==
  ASSUME ReserveType, NEW E, NEW m \in Nat, NEW a, NEW b, ReleaseOut(E, m),
         reserved' = IF m > 0 THEN [reserved EXCEPT ![a][b] = @ + m] ELSE reserved,
         m > 0 => a \in (released \cup E) \ rolledOver /\ b \in Terms /\ m <= Remaining(a, b),
         sgage' \in [Holders -> Nat],
         sgage'["emissions"] = sgage["emissions"] - (LiquidityOf(E) + m), now' = now
  PROVE  Released(E, m, a, b)
<1>1. \A e \in E : Started(e) /\ e \notin released
  BY DEF ReleaseOut
<1>2. released' = released \cup E /\ totalOut' = totalOut + (LiquidityOf(E) + m)
  BY DEF ReleaseOut, TakeOut
<1>3. UNCHANGED <<now, launchAt, shares, rolledOver>>
  BY DEF ReleaseOut
<1> QED BY <1>1, <1>2, <1>3 DEF Released

\* Nothing but the mark of the next epoch moves in the pool.
LEMMA DeliveryKeeps ==
  ASSUME LPState, NEW E, NEW m \in Nat, NEW a, NEW b, Released(E, m, a, b),
         sgage'["lpRewards"] = sgage["lpRewards"] + LiquidityOf(E),
         DripsType', DripsInv', UNCHANGED <<pos, value>>, pool' = Notified(pool, E)
  PROVE  LPState'
<1>1. ReserveType /\ LPType
  BY DEF LPState
<1>2. PICK n \in Nat : n = pool.lastUpdate
  BY PoolNow
<1>3. n <= now /\ PoolRecord(pool) /\ Sound(pos, pool, Budget(n)) /\ Budget(n) \in Int
  BY <1>2, PoolNow
<1>4. sgage'["lpRewards"] = sgage["lpRewards"] + LiquidityOf(E) - 0
  <2>1. sgage["lpRewards"] \in Int
    BY <1>1, TheHolders DEF ReserveType
  <2>2. E \in SUBSET Epochs
    BY DEF Released, Started
  <2>3. LiquidityOf(E) \in Nat
    BY <1>1, <2>2, LiquidityIs
  <2> QED BY <2>1, <2>3
<1>5. pool'.lastUpdate = n
  BY <1>2, <1>3, NotifiedIs
<1>6. Sound(pos', pool', Budget(n) - 0)
  <2>1. Budget(n) <= Budget(n) /\ Budget(n) - 0 = Budget(n)
    BY <1>3
  <2>2. Sound(pos, Notified(pool, E), Budget(n))
    BY <1>3, <2>1, NotifiedIs, SoundSame
  <2> QED BY <2>1, <2>2
<1>7. pos' \in [Tokens -> PosRecord] /\ value' \in [Tokens -> Nat]
  BY <1>1 DEF LPType
<1> QED BY <1>3, <1>4, <1>5, <1>6, <1>7, MovesKeep

LEMMA ReleaseStep ==
  ASSUME LPState, NEW e \in Epochs, Release(e)
  PROVE  LPState'
<1>1. ReserveType /\ ReserveInv /\ DripsType /\ DripsInv /\ LPType
  BY DEF LPState
<1>2. /\ ReleaseOut({e}, 0) /\ Settled(Delivered(sgage, {e})) /\ pool' = Notified(pool, {e})
      /\ UNCHANGED <<now, reserved, dripVars, pos, value>>
  BY DEF Release
<1>3. sgage' = Delivered(sgage, {e}) /\ sgage' \in [Holders -> Nat]
  BY <1>1, <1>2, DeliveredIs, SettledIs
<1>4. /\ sgage'["emissions"] = sgage["emissions"] - LiquidityOf({e})
      /\ sgage'["lpRewards"] = sgage["lpRewards"] + LiquidityOf({e})
      /\ sgage'["drip"] = sgage["drip"] /\ LiquidityOf({e}) \in Nat /\ sgage \in [Holders -> Int]
  BY <1>1, <1>3, DeliveredIs
<1>5. Released({e}, 0, 0, "TERM7")
  <2>1. sgage'["emissions"] = sgage["emissions"] - (LiquidityOf({e}) + 0)
    BY <1>4
  <2>2. reserved' = reserved /\ now' = now
    BY <1>2
  <2> QED BY <1>1, <1>2, <1>3, <2>1, <2>2, ReleaseOutIs
<1>6. DripsType' /\ DripsInv'
  <2>1. now \in Nat /\ now' \in Nat /\ now <= now'
    BY <1>1, <1>2 DEF ReserveType
  <2> QED BY <1>1, <1>2, <1>4, <2>1, DripsUntouched
<1> QED BY <1>2, <1>4, <1>5, <1>6, DeliveryKeeps

LEMMA LumpStep ==
  ASSUME LPState, NEW amount \in Lumps, NotifyLump(amount)
  PROVE  LPState'
<1>1. ReserveType /\ ReserveInv /\ DripsType /\ DripsInv /\ LPType /\ LPInv
  BY DEF LPState
<1>2. /\ pool' = Lump(UpdateGlobal, amount) /\ Settled(Paid(sgage, People, "lpRewards", amount))
      /\ UNCHANGED <<now, emissionVars, dripVars, pos, value>>
  BY DEF NotifyLump
<1>3. amount \in Nat /\ amount \in Int
  BY LPAssumption
<1>4. sgage \in [Holders -> Int]
  BY <1>1 DEF ReserveType
<1>5. /\ Paid(sgage, People, "lpRewards", amount) \in [Holders -> Int]
      /\ Paid(sgage, People, "lpRewards", amount)["lpRewards"] = sgage["lpRewards"] + amount
  BY <1>3, <1>4, TheHolders DEF Paid
<1>6. Paid(sgage, People, "lpRewards", amount)["emissions"] = sgage["emissions"]
  BY <1>3, <1>4, TheHolders DEF Paid
<1>7. Paid(sgage, People, "lpRewards", amount)["drip"] = sgage["drip"]
  BY <1>3, <1>4, TheHolders DEF Paid
<1>8. sgage' = Paid(sgage, People, "lpRewards", amount) /\ sgage' \in [Holders -> Nat]
  BY <1>2, <1>5, SettledIs
<1>9. Released({}, 0, 0, "TERM7") /\ LiquidityOf({}) = 0
  BY <1>1, <1>2, <1>6, <1>8, NothingReleased
<1>10. DripsType' /\ DripsInv'
  <2>1. now \in Nat /\ now' \in Nat /\ now <= now'
    BY <1>1, <1>2 DEF ReserveType
  <2> QED BY <1>1, <1>2, <1>7, <1>8, <2>1, DripsUntouched
<1>11. sgage'["lpRewards"] = sgage["lpRewards"] + LiquidityOf({}) - (0 - amount) /\ 0 - amount \in Int
  <2>1. sgage["lpRewards"] \in Int
    BY <1>4, TheHolders
  <2> QED BY <1>3, <1>5, <1>8, <1>9, <2>1
<1>12. now \in Nat /\ now <= now /\ Budget(now) \in Int
  BY PoolNow
<1>13. pool'.lastUpdate = now
  <2>1. UpdateGlobal.lastUpdate = now /\ PoolRecord(UpdateGlobal)
    BY <1>1, UpdatedIs
  <2> HIDE DEF UpdateGlobal
  <2> QED BY <1>2, <2>1 DEF Lump, PoolRecord
<1>14. Sound(pos', pool', Budget(now) - (0 - amount))
  <2>1. Sound(pos, UpdateGlobal, Budget(now))
    BY <1>1, UpdatedIs
  <2>2. Sound(pos, Lump(UpdateGlobal, amount), Budget(now) + amount)
    BY <1>3, <1>12, <2>1, SoundLump
  <2>3. Budget(now) + amount = Budget(now) - (0 - amount)
    BY <1>3, <1>12
  <2> QED BY <1>2, <2>2, <2>3
<1>15. pos' \in [Tokens -> PosRecord] /\ value' \in [Tokens -> Nat]
  BY <1>1, <1>2 DEF LPType
<1> QED BY <1>9, <1>10, <1>11, <1>12, <1>13, <1>14, <1>15, MovesKeep

LEMMA NoLiquidity == LiquidityOf({}) = 0
<1>1. LiquidityOf({}) = SumFunctionOnSet([e \in {} |-> LiquidityBudget(e)], {})
  BY DEF LiquidityOf, SumFunction
<1> QED BY <1>1, SumEmpty

\* What is left of a week's deal budgets is passed on as a lump.
LEMMA RolloverStep ==
  ASSUME LPState, NEW e \in Epochs, Rollover(e)
  PROVE  LPState'
<1> DEFINE amount == Remaining(e, "TERM7") + Remaining(e, "TERM21")
<1>1. ReserveType /\ ReserveInv /\ DripsType /\ DripsInv /\ LPType /\ LPInv
  BY DEF LPState
<1>2. /\ RolloverOut(e) /\ Settled(Paid(sgage, "emissions", "lpRewards", amount))
      /\ pool' = (IF amount > 0 THEN Lump(UpdateGlobal, amount) ELSE pool)
      /\ UNCHANGED <<now, dripVars, pos, value>>
  BY DEF Rollover
<1>3. amount \in Nat /\ amount \in Int
  <2>1. Remaining(e, "TERM7") \in Nat /\ Remaining(e, "TERM21") \in Nat
    BY <1>1, LetOut, TermsAre
  <2> QED BY <2>1
<1> HIDE DEF amount
<1>4. sgage \in [Holders -> Int] /\ sgage["lpRewards"] \in Int
  BY <1>1, TheHolders DEF ReserveType
<1>5. /\ Paid(sgage, "emissions", "lpRewards", amount) \in [Holders -> Int]
      /\ Paid(sgage, "emissions", "lpRewards", amount)["lpRewards"] = sgage["lpRewards"] + amount
      /\ Paid(sgage, "emissions", "lpRewards", amount)["emissions"] = sgage["emissions"] - amount
  <2>1. "emissions" \in Holders /\ "lpRewards" \in Holders /\ "emissions" # "lpRewards"
    BY TheHolders
  <2> QED BY <1>3, <1>4, <2>1, PaidIs
<1>6. Paid(sgage, "emissions", "lpRewards", amount)["drip"] = sgage["drip"]
  <2>1. {"emissions", "lpRewards", "drip"} \subseteq Holders /\ "drip" \notin {"emissions", "lpRewards"}
    BY TheHolders
  <2> QED BY <1>3, <1>4, <2>1, PaidOther
<1>7. sgage' = Paid(sgage, "emissions", "lpRewards", amount) /\ sgage' \in [Holders -> Nat]
  BY <1>2, <1>5, SettledIs
<1>8. ReserveType' /\ ReserveInv'
  <2>1. sgage'["emissions"] = sgage["emissions"] - (Remaining(e, "TERM7") + Remaining(e, "TERM21"))
    BY <1>5, <1>7 DEF amount
  <2> QED BY <1>1, <1>2, <1>7, <2>1, RolledOverKeeps
<1>9. DripsType' /\ DripsInv'
  <2>1. now \in Nat /\ now' \in Nat /\ now <= now'
    BY <1>1, <1>2 DEF ReserveType
  <2> QED BY <1>1, <1>2, <1>6, <1>7, <2>1, DripsUntouched
<1>10. ASSUME NEW t \in Nat PROVE Budget(t)' = Budget(t) + amount
  <2>1. UNCHANGED <<shares, launchAt, released>>
    BY <1>2 DEF RolloverOut
  <2>2. LiquidityOf(released)' = LiquidityOf(released)
    BY <2>1 DEF LiquidityOf, LiquidityBudget, DealsTotal
  <2>3. Streamed(t)' = Streamed(t)
    BY <2>1, StreamedNext
  <2>4. Streamed(t) \in Int /\ LiquidityOf(released) \in Nat
    BY <1>1, BudgetsAreSane DEF BudgetsSane
  <2>5. sgage'["lpRewards"] = sgage["lpRewards"] + amount
    BY <1>5, <1>7
  <2> QED BY <1>3, <1>4, <2>2, <2>3, <2>4, <2>5 DEF Budget
<1>11. now \in Nat /\ now <= now /\ Budget(now) \in Int
  BY PoolNow
<1>12. LPType' /\ LPInv'
  <2>1. CASE ~ (amount > 0)
    <3>1. UNCHANGED <<pool, pos, value>> /\ now' >= now
      BY <1>2, <1>11, <2>1
    <3>2. \A t \in Nat : t <= now => Budget(t) <= Budget(t)'
      <4>1. \A t \in Nat : Budget(t) \in Int
        BY <1>1, BudgetIs
      <4>2. amount = 0
        BY <1>3, <2>1
      <4> QED BY <1>10, <4>1, <4>2
    <3> QED BY <1>8, <3>1, <3>2, LPStays
  <2>2. CASE amount > 0
    <3>1. pool' = Lump(UpdateGlobal, amount)
      BY <1>2, <2>2
    <3>2. pool'.lastUpdate = now
      <4>1. UpdateGlobal.lastUpdate = now /\ PoolRecord(UpdateGlobal)
        BY <1>1, UpdatedIs
      <4> HIDE DEF UpdateGlobal
      <4> QED BY <3>1, <4>1 DEF Lump, PoolRecord
    <3>3. Sound(pos', pool', Budget(now) + amount)
      <4>1. Sound(pos, UpdateGlobal, Budget(now))
        BY <1>1, UpdatedIs
      <4>2. Sound(pos, Lump(UpdateGlobal, amount), Budget(now) + amount)
        BY <1>3, <1>11, <4>1, SoundLump
      <4> QED BY <1>2, <3>1, <4>2
    <3>4. PICK n \in Nat : n = now
      BY <1>11
    <3>5. Budget(pool.lastUpdate)' = Budget(n)'
      BY <3>2, <3>4, BudgetPrimed
    <3>6. Budget(n)' = Budget(n) + amount
      BY <1>10
    <3>7. Sound(pos, pool, Budget(pool.lastUpdate))'
      <4>1. Sound(pos, pool, Budget(pool.lastUpdate))' <=> Sound(pos', pool', Budget(pool.lastUpdate)')
        BY DEF Sound, PoolRecord, PaidUp, Weights, Owing, Scaled
      <4> QED BY <3>3, <3>4, <3>5, <3>6, <4>1
    <3>8. (pool.lastUpdate <= now)'
      BY <1>2, <1>11, <3>2
    <3>9. LPType'
      BY <1>1, <1>2 DEF LPType
    <3> QED BY <3>7, <3>8, <3>9 DEF LPInv
  <2> QED BY <2>1, <2>2
<1> QED BY <1>8, <1>9, <1>12 DEF LPState

LEMMA FinalizeStep ==
  ASSUME LPState, Finalize, UNCHANGED <<now, dripVars, lpVars>>
  PROVE  LPState'
<1>1. ReserveType /\ ReserveInv /\ LPType
  BY DEF LPState
<1>2. sgage["emissions"] = 0 /\ UNCHANGED emissionVars /\ sgage' = Burned(sgage, "emissions", 0)
  BY <1>1, NothingLeft
<1>3. sgage \in [Holders -> Nat]
  BY <1>1 DEF ReserveType
<1>4. sgage' = sgage
  <2>1. sgage["emissions"] - 0 = sgage["emissions"]
    BY <1>2
  <2> QED BY <1>2, <1>3, <2>1 DEF Burned
<1>5. UNCHANGED <<pool, pos, value, now, dripVars>>
  BY DEF lpVars
<1>6. pos' \in [Tokens -> PosRecord] /\ value' \in [Tokens -> Nat]
  BY <1>1, <1>5 DEF LPType
<1>7. PICK n \in Nat : n = pool.lastUpdate
  BY PoolNow
<1>8. n <= now /\ pool'.lastUpdate = n /\ Sound(pos', pool', Budget(n))
  BY <1>5, <1>7, PoolNow
<1> QED BY <1>2, <1>4, <1>5, <1>6, <1>8, QuietKeeps

LEMMA ClaimStep ==
  ASSUME LPState, NEW account, NEW ids \in SUBSET DripIds, Claim(account, ids), UNCHANGED <<now, emissionVars, lpVars>>
  PROVE  LPState' /\ \A id \in DripIds : drips'[id].total = drips[id].total /\ drips'[id].start = drips[id].start
<1>1. ReserveType /\ ReserveInv /\ LPType /\ DripsType /\ DripsInv
  BY DEF LPState
<1>2. /\ DripsType' /\ DripsInv'
      /\ sgage' \in [Holders -> Nat]
      /\ sgage'["emissions"] = sgage["emissions"] /\ sgage'["lpRewards"] = sgage["lpRewards"]
      /\ \A id \in DripIds : drips'[id].total = drips[id].total /\ drips'[id].start = drips[id].start
  BY <1>1, DripsClaimed
<1>3. Released({}, 0, 0, "TERM7") /\ LiquidityOf({}) = 0
  BY <1>1, <1>2, NothingReleased
<1>4. sgage'["lpRewards"] = sgage["lpRewards"] + LiquidityOf({}) - 0
  <2>1. sgage["lpRewards"] \in Int
    BY <1>1, TheHolders DEF ReserveType
  <2> QED BY <1>2, <1>3, <2>1
<1>5. UNCHANGED <<pool, pos, value>>
  BY DEF lpVars
<1>6. pos' \in [Tokens -> PosRecord] /\ value' \in [Tokens -> Nat]
  BY <1>1, <1>5 DEF LPType
<1>7. PICK n \in Nat : n = pool.lastUpdate
  BY PoolNow
<1>8. n <= now /\ pool'.lastUpdate = n /\ Sound(pos', pool', Budget(n)) /\ Budget(n) \in Int
  BY <1>5, <1>7, PoolNow
<1>9. Sound(pos', pool', Budget(n) - 0)
  <2>1. Budget(n) - 0 = Budget(n)
    BY <1>8
  <2> QED BY <1>8, <2>1
<1>10. LPState'
  BY <1>2, <1>3, <1>4, <1>6, <1>8, <1>9, MovesKeep
<1> QED BY <1>2, <1>10

\* What _ensureReleased releases before a payment.
LEMMA EnsuredOut ==
  ASSUME ReserveType, ReserveInv, NEW g, EnsureReleased(g), now' = now, sgage' \in [Holders -> Nat],
         sgage'["emissions"] = sgage["emissions"] - LiquidityOf(Unreleased(g))
  PROVE  Released(Unreleased(g), 0, 0, "TERM7")
<1> DEFINE E == Unreleased(g)
<1>1. sgage["emissions"] \in Int
  BY TheHolders DEF ReserveType
<1>2. CASE E = {}
  <2>1. UNCHANGED <<now, emissionVars>>
    BY <1>2 DEF EnsureReleased
  <2>2. sgage'["emissions"] = sgage["emissions"]
    BY <1>1, <1>2, NoLiquidity
  <2> QED BY <1>2, <2>1, <2>2, NothingReleased
<1>3. CASE E # {}
  <2>1. ReleaseOut(E, 0) /\ reserved' = reserved
    BY <1>3 DEF EnsureReleased
  <2>2. E \in SUBSET Epochs
    BY <2>1 DEF ReleaseOut, Started
  <2>3. LiquidityOf(E) \in Nat
    BY <2>2, LiquidityIs
  <2> HIDE DEF E
  <2>4. sgage'["emissions"] = sgage["emissions"] - (LiquidityOf(E) + 0)
    BY <2>3 DEF E
  <2>5. Released(E, 0, 0, "TERM7")
    BY <2>1, <2>4, ReleaseOutIs
  <2> QED BY <2>5 DEF E
<1> QED BY <1>2, <1>3

LEMMA UnreleasedIn ==
  ASSUME NEW g, EnsureReleased(g)
  PROVE  Unreleased(g) \in SUBSET Epochs
BY DEF EnsureReleased, ReleaseOut, Started

\* No grant, or one grant of n.
LEMMA GrantOrNot ==
  ASSUME DripsType, DripsInv, NEW id, NEW n \in Nat, now \in Nat, now' = now,
         NEW start \in Nat, NEW length \in Nat,
         IF n > 0 THEN GrantAll([x \in {id} |-> n], start, length) ELSE UNCHANGED dripVars,
         sgage'["drip"] = sgage["drip"] + n, sgage["drip"] \in Int
  PROVE  DripsType' /\ DripsInv' /\ \A x \in DripIds \ {id} : drips'[x] = drips[x]
<1>1. CASE n = 0
  <2>1. UNCHANGED dripVars /\ sgage'["drip"] = sgage["drip"] /\ now' \in Nat /\ now <= now'
    BY <1>1
  <2> QED BY <2>1, DripsUntouched DEF dripVars
<1>2. CASE n > 0
  <2> DEFINE grant == [x \in {id} |-> n]
  <2>1. GrantAll(grant, start, length)
    BY <1>2
  <2>2. SumFunction(grant) = n
    <3>1. IsFiniteSet({id})
      BY FS_Singleton
    <3>2. grant[id] = n /\ id \in {id} /\ \A x \in {id} \ {id} : grant[x] = 0
      OBVIOUS
    <3>3. SumFunction(grant) = SumFunctionOnSet(grant, {id})
      BY DEF SumFunction
    <3> HIDE DEF grant
    <3>4. SumFunctionOnSet(grant, {id}) = grant[id]
      BY <3>1, <3>2, SumOne
    <3> QED BY <3>2, <3>3, <3>4
  <2>3. grant \in [DOMAIN grant -> Nat]
    OBVIOUS
  <2>4. \A x \in DripIds \ {id} : drips'[x] = drips[x]
    BY <2>1 DEF GrantAll
  <2> HIDE DEF grant
  <2>5. DripsType' /\ DripsInv'
    BY <2>1, <2>2, <2>3, DripsGranted
  <2> QED BY <2>4, <2>5
<1> QED BY <1>1, <1>2

\* What a collection pays: e to the drips and l to the owner.
LEMMA CollectedIs ==
  ASSUME NEW b \in [Holders -> Int], NEW e \in Int, NEW l \in Int
  PROVE  LET c == Paid(Paid(b, "lpRewards", "drip", e), "lpRewards", People, l)
         IN  /\ c \in [Holders -> Int] /\ c["lpRewards"] = b["lpRewards"] - (e + l)
             /\ c["drip"] = b["drip"] + e /\ c["emissions"] = b["emissions"]
<1> DEFINE b1 == Paid(b, "lpRewards", "drip", e)
           b2 == Paid(b1, "lpRewards", People, l)
<1>1. b1 \in [Holders -> Int] /\ b1["lpRewards"] = b["lpRewards"] - e
  BY TheHolders DEF Paid
<1>2. b1["drip"] = b["drip"] + e
  BY TheHolders DEF Paid
<1>3. b1["emissions"] = b["emissions"]
  BY TheHolders DEF Paid
<1> HIDE DEF b1
<1>4. b2 \in [Holders -> Int] /\ b2["lpRewards"] = b1["lpRewards"] - l
  BY <1>1, TheHolders DEF Paid
<1>5. b2["emissions"] = b1["emissions"]
  BY <1>1, TheHolders DEF Paid
<1>6. b2["drip"] = b1["drip"]
  BY <1>1, TheHolders DEF Paid
<1>7. b2["lpRewards"] = b["lpRewards"] - (e + l)
  <2>1. b["lpRewards"] \in Int
    BY TheHolders
  <2> QED BY <1>1, <1>4, <2>1
<1> HIDE DEF b2
<1>8. b2 \in [Holders -> Int] /\ b2["lpRewards"] = b["lpRewards"] - (e + l)
      /\ b2["drip"] = b["drip"] + e /\ b2["emissions"] = b["emissions"]
  BY <1>2, <1>3, <1>4, <1>5, <1>6, <1>7
<1> QED BY <1>8 DEF b1, b2

LEMMA CollectStep ==
  ASSUME LPState, NEW t \in Minted, Collect(t)
  PROVE  LPState' /\ \A id \in DripIds : id[1] # <<"lp", t, pos[t].nonce + 1>> => drips'[id] = drips[id]
<1> DEFINE g == UpdateGlobal
           p == Accrued(pos[t], g)
           E == Unreleased(g)
           id == <<<<"lp", t, p.nonce + 1>>, owner[t]>>
           weight == IF t = g.seed \/ owner[t] = FLOOR THEN 0 ELSE value[t]
           k == IF p.emissions > 0 THEN p.nonce + 1 ELSE p.nonce
           w == g.totalWeight + weight - p.weight
           h == [g EXCEPT !.totalWeight = w]
           b0 == Delivered(sgage, E)
           b1 == Paid(b0, "lpRewards", "drip", p.emissions)
           b2 == Paid(b1, "lpRewards", People, p.lump)
<1>1. /\ pool' = Ensured(h)
      /\ pos' = [pos EXCEPT ![t] = PaidOut(p, weight, k)]
      /\ EnsureReleased(g)
      /\ IF p.emissions > 0 THEN GrantAll([x \in {id} |-> p.emissions], now, LP_DRIP_LENGTH) ELSE UNCHANGED dripVars
      /\ Settled(b2)
      /\ UNCHANGED <<now, value>>
  BY DEF Collect, PaidOut
<1>2. ReserveType /\ ReserveInv /\ DripsType /\ DripsInv /\ LPInv /\ pos \in [Tokens -> PosRecord]
      /\ value \in [Tokens -> Nat]
  BY DEF LPState, LPType
<1>3. t \in Tokens /\ LP_DRIP_LENGTH \in Nat
  BY LPAssumption
<1>4. Sound(pos, g, Budget(now)) /\ PoolRecord(g) /\ g.lastUpdate = now /\ PaidUp(pos[t], g)
  <2>1. Sound(pos, g, Budget(now)) /\ PoolRecord(g) /\ g.lastUpdate = now
    BY <1>2, UpdatedIs
  <2> QED BY <1>3, <2>1 DEF Sound
<1>5. now \in Nat /\ now <= now /\ Budget(now) \in Int
  BY PoolNow
<1>6. weight \in Nat
  BY <1>2, <1>3
<1> HIDE DEF g, weight
<1>7. p \in PosRecord /\ p.weight = pos[t].weight /\ p.nonce = pos[t].nonce
  BY <1>4, AccruedIs
<1>8. p.emissions \in Nat /\ p.lump \in Nat /\ p.nonce \in Nat /\ p.weight \in Nat /\ k \in Nat
  BY <1>7 DEF PosRecord
<1> HIDE DEF p, k
<1>9. E \in SUBSET Epochs
  BY <1>1, UnreleasedIn
<1> HIDE DEF E
<1>10. /\ b0 \in [Holders -> Int] /\ b0["emissions"] = sgage["emissions"] - LiquidityOf(E)
       /\ b0["lpRewards"] = sgage["lpRewards"] + LiquidityOf(E) /\ b0["drip"] = sgage["drip"]
       /\ sgage \in [Holders -> Int] /\ LiquidityOf(E) \in Nat
  BY <1>2, <1>9, DeliveredIs
<1> HIDE DEF b0
<1>11. p.emissions \in Int /\ p.lump \in Int
  BY <1>8
<1>12. /\ b2 \in [Holders -> Int] /\ b2["lpRewards"] = b0["lpRewards"] - (p.emissions + p.lump)
       /\ b2["drip"] = b0["drip"] + p.emissions /\ b2["emissions"] = b0["emissions"]
  BY <1>10, <1>11, CollectedIs
<1> HIDE DEF b2
<1>17. sgage' = b2 /\ sgage' \in [Holders -> Nat]
  BY <1>1, <1>12, SettledIs
<1>18. Released(E, 0, 0, "TERM7")
  <2>1. sgage'["emissions"] = sgage["emissions"] - LiquidityOf(Unreleased(g))
    BY <1>10, <1>12, <1>17 DEF E
  <2>2. Released(Unreleased(g), 0, 0, "TERM7")
    BY <1>1, <1>2, <1>17, <2>1, EnsuredOut
  <2> QED BY <2>2 DEF E
<1>19. /\ DripsType' /\ DripsInv' /\ \A x \in DripIds \ {id} : drips'[x] = drips[x]
  <2>1. sgage'["drip"] = sgage["drip"] + p.emissions
    BY <1>10, <1>12, <1>17
  <2>2. sgage["drip"] \in Int
    BY <1>10, TheHolders
  <2> HIDE DEF id
  <2> QED BY <1>1, <1>2, <1>3, <1>5, <1>8, <2>1, <2>2, GrantOrNot
<1> DEFINE x == p.emissions + p.lump
<1>20. x \in Int /\ sgage'["lpRewards"] = sgage["lpRewards"] + LiquidityOf(E) - x
  <2>1. x \in Int
    BY <1>8
  <2>2. b0["lpRewards"] \in Int
    BY <1>10, TheHolders
  <2>3. b2["lpRewards"] = b0["lpRewards"] - x
    BY <1>12
  <2>4. sgage["lpRewards"] \in Int /\ LiquidityOf(E) \in Int
    BY <1>10, TheHolders
  <2>5. b0["lpRewards"] = sgage["lpRewards"] + LiquidityOf(E)
    BY <1>10
  <2>6. sgage'["lpRewards"] = b0["lpRewards"] - x
    BY <1>17, <2>3
  <2> HIDE DEF x
  <2> QED BY <2>1, <2>2, <2>4, <2>5, <2>6
<1> HIDE DEF x
<1>21. pos' \in [Tokens -> PosRecord] /\ pos'[t] = PaidOut(p, weight, k) /\ \A u \in Tokens \ {t} : pos'[u] = pos[u]
  <2>1. PaidOut(p, weight, k) \in PosRecord
    BY <1>6, <1>7, <1>8 DEF PaidOut, PosRecord
  <2> QED BY <1>1, <1>2, <1>3, <2>1
<1>22. w \in Nat
  <2>1. g.totalWeight = SumFunctionOnSet(Weights(pos), Tokens)
    BY <1>4 DEF Sound
  <2>2. \A u \in Tokens : Weights(pos)[u] \in Nat
    BY <1>2 DEF Weights, PosRecord
  <2>3. Weights(pos)[t] <= SumFunctionOnSet(Weights(pos), Tokens) /\ SumFunctionOnSet(Weights(pos), Tokens) \in Nat
    BY <1>3, <2>2, TokensFinite, SumCovers
  <2>4. Weights(pos)[t] = p.weight
    BY <1>3, <1>7 DEF Weights
  <2> QED BY <1>6, <1>8, <2>1, <2>3, <2>4
<1>23. /\ PoolRecord(h) /\ h.ePer = g.ePer /\ h.lPer = g.lPer /\ h.undistributed = g.undistributed
       /\ h.lastUpdate = now /\ h.totalWeight = g.totalWeight + weight - p.weight
  <2> HIDE DEF w
  <2>1. /\ PoolRecord(h) /\ h.ePer = g.ePer /\ h.lPer = g.lPer /\ h.undistributed = g.undistributed
        /\ h.lastUpdate = now /\ h.totalWeight = w
    BY <1>4, <1>22 DEF PoolRecord
  <2> QED BY <2>1 DEF w
<1> HIDE DEF h
<1>24. /\ PoolRecord(pool') /\ pool'.ePer = g.ePer /\ pool'.lPer = g.lPer /\ pool'.undistributed = g.undistributed
       /\ pool'.lastUpdate = now /\ pool'.totalWeight = g.totalWeight + weight - p.weight
  BY <1>1, <1>23, EnsuredIs
<1>25. Sound(pos', pool', Budget(now) - x)
  BY <1>3, <1>4, <1>5, <1>6, <1>8, <1>21, <1>24, SoundCollected DEF p, x
<1>26. value' \in [Tokens -> Nat]
  BY <1>1, <1>2
<1>27. LPState'
  BY <1>5, <1>18, <1>19, <1>20, <1>21, <1>24, <1>25, <1>26, MovesKeep
<1>28. \A i \in DripIds : i[1] # <<"lp", t, pos[t].nonce + 1>> => drips'[i] = drips[i]
  <2>1. \A i \in DripIds : i[1] # <<"lp", t, pos[t].nonce + 1>> => i # id
    BY <1>7
  <2> QED BY <1>19, <2>1
<1> QED BY <1>27, <1>28

LEMMA BurnStep ==
  ASSUME LPState, BurnUndistributed
  PROVE  LPState'
<1> DEFINE g == UpdateGlobal
           E == Unreleased(g)
           n == g.undistributed
           h == [g EXCEPT !.undistributed = 0]
           b0 == Delivered(sgage, E)
           b1 == Burned(b0, "lpRewards", n)
<1>1. /\ pool' = Ensured(h) /\ EnsureReleased(g) /\ Settled(b1)
      /\ UNCHANGED <<now, dripVars, pos, value>>
  BY DEF BurnUndistributed
<1>2. ReserveType /\ ReserveInv /\ DripsType /\ DripsInv /\ LPInv /\ pos \in [Tokens -> PosRecord]
      /\ value \in [Tokens -> Nat]
  BY DEF LPState, LPType
<1>3. Sound(pos, g, Budget(now)) /\ PoolRecord(g) /\ g.lastUpdate = now
  BY <1>2, UpdatedIs
<1>4. now \in Nat /\ now <= now /\ Budget(now) \in Int
  BY PoolNow
<1> HIDE DEF g
<1>5. n \in Nat /\ n \in Int
  <2>1. n \in Nat
    BY <1>3, PoolRecordIs
  <2> QED BY <2>1
<1>6. E \in SUBSET Epochs
  BY <1>1, UnreleasedIn
<1>7. /\ PoolRecord(h) /\ h.ePer = g.ePer /\ h.lPer = g.lPer /\ h.undistributed = 0
      /\ h.lastUpdate = now /\ h.totalWeight = g.totalWeight
  BY <1>3 DEF PoolRecord
<1> HIDE DEF E, n, h
<1>8. /\ b0 \in [Holders -> Int] /\ b0["emissions"] = sgage["emissions"] - LiquidityOf(E)
      /\ b0["lpRewards"] = sgage["lpRewards"] + LiquidityOf(E) /\ b0["drip"] = sgage["drip"]
      /\ sgage \in [Holders -> Int] /\ LiquidityOf(E) \in Nat
  BY <1>2, <1>6, DeliveredIs
<1> HIDE DEF b0
<1>9. b1 \in [Holders -> Int] /\ b1["lpRewards"] = b0["lpRewards"] - n
  BY <1>5, <1>8, TheHolders, BurnedIs
<1>10. b1["emissions"] = b0["emissions"]
  BY <1>5, <1>8, TheHolders, BurnedOther
<1>11. b1["drip"] = b0["drip"]
  BY <1>5, <1>8, TheHolders, BurnedOther
<1> HIDE DEF b1
<1>12. sgage' = b1 /\ sgage' \in [Holders -> Nat]
  BY <1>1, <1>9, SettledIs
<1>13. Released(E, 0, 0, "TERM7")
  <2>1. sgage'["emissions"] = sgage["emissions"] - LiquidityOf(Unreleased(g))
    BY <1>8, <1>10, <1>12 DEF E
  <2>2. Released(Unreleased(g), 0, 0, "TERM7")
    BY <1>1, <1>2, <1>12, <2>1, EnsuredOut
  <2> QED BY <2>2 DEF E
<1>14. DripsType' /\ DripsInv'
  <2>1. now \in Nat /\ now' \in Nat /\ now <= now'
    BY <1>1, <1>4
  <2>2. sgage'["drip"] = sgage["drip"]
    BY <1>8, <1>11, <1>12
  <2> QED BY <1>1, <1>2, <2>1, <2>2, DripsUntouched
<1>15. sgage'["lpRewards"] = sgage["lpRewards"] + LiquidityOf(E) - n
  <2>1. sgage'["lpRewards"] = b0["lpRewards"] - n
    BY <1>9, <1>12
  <2>2. b0["lpRewards"] = sgage["lpRewards"] + LiquidityOf(E)
    BY <1>8
  <2>3. b0["lpRewards"] \in Int
    BY <1>8, TheHolders
  <2>4. sgage["lpRewards"] \in Int /\ LiquidityOf(E) \in Int
    BY <1>8, TheHolders
  <2> QED BY <1>5, <2>1, <2>2, <2>3, <2>4
<1>16. Sound(pos', pool', Budget(now) - n) /\ pool'.lastUpdate = now
  <2>1. /\ PoolRecord(Ensured(h)) /\ Ensured(h).ePer = g.ePer /\ Ensured(h).lPer = g.lPer
        /\ Ensured(h).totalWeight = g.totalWeight /\ Ensured(h).undistributed = 0
        /\ Ensured(h).lastUpdate = now
    BY <1>7, EnsuredIs
  <2>2. 0 - n \in Int /\ Ensured(h).undistributed = g.undistributed + (0 - n)
    BY <1>5, <2>1 DEF n
  <2>3. Sound(pos, Ensured(h), Budget(now) + (0 - n))
    BY <1>3, <1>4, <2>1, <2>2, SoundUnearned
  <2>4. Budget(now) + (0 - n) = Budget(now) - n
    BY <1>4, <1>5
  <2> QED BY <1>1, <2>1, <2>3, <2>4
<1>17. pos' \in [Tokens -> PosRecord] /\ value' \in [Tokens -> Nat]
  BY <1>1, <1>2
<1> QED BY <1>4, <1>5, <1>13, <1>14, <1>15, <1>16, <1>17, MovesKeep

(***************************************************************************)
(* What positions are owed is held, or in the reserve of a started epoch.  *)
(***************************************************************************)
\* No more was streamed than the started epochs have for the positions.
LEMMA StreamedIsThere ==
  ASSUME ReserveType, ReserveInv
  PROVE  Streamed(now) <= LiquidityOf(released) + LiquidityOf(StartedUnreleased)
<1> DEFINE f == StreamedOf(now)
           l == [e \in Epochs |-> LiquidityBudget(e)]
           R == released
           U == StartedUnreleased
           S == R \cup U
<1>1. R \in SUBSET Epochs /\ U \in SUBSET Epochs /\ R \cap U = {} /\ S \in SUBSET Epochs
  BY DEF ReserveType, StartedUnreleased
<1>2. IsFiniteSet(R) /\ IsFiniteSet(U) /\ IsFiniteSet(S) /\ IsFiniteSet(Epochs)
  BY <1>1, EpochsFinite, FS_Subset
<1>3. now \in Nat
  BY DEF ReserveType
<1>4. \A e \in Epochs : f[e] \in Nat /\ f[e] <= LiquidityBudget(e) /\ LiquidityBudget(e) \in Nat
  BY <1>3, StreamedIs, Budgets
<1>5. \A e \in Epochs \ S : f[e] = 0
  <2> SUFFICES ASSUME NEW e \in Epochs \ S PROVE f[e] = 0
    OBVIOUS
  <2>1. ~ Started(e)
    BY DEF StartedUnreleased
  <2>2. EpochStart(e) \in Nat
    BY EpochStarts
  <2>3. ~ (Launched /\ now > EpochStart(e))
    BY <1>3, <2>1, <2>2 DEF Started
  <2> QED BY <1>3, <2>3, StreamedIs
<1>6. \A e \in Epochs : l[e] = LiquidityBudget(e)
  OBVIOUS
<1>7. LiquidityOf(R) = SumFunctionOnSet(l, R) /\ LiquidityOf(U) = SumFunctionOnSet(l, U)
  BY <1>1, LiquidityIs
<1> HIDE DEF f, l, R, U
<1>8. SumFunctionOnSet(f, Epochs) = SumFunctionOnSet(f, S)
  BY <1>1, <1>2, <1>4, <1>5, SumPad
<1>9. SumFunctionOnSet(f, S) <= SumFunctionOnSet(l, S)
  <2>1. \A e \in S : f[e] \in Int /\ l[e] \in Int /\ f[e] <= l[e]
    BY <1>1, <1>4, <1>6
  <2> HIDE DEF S
  <2> QED BY <1>2, <2>1, SumLeq
<1>10. SumFunctionOnSet(l, S) = SumFunctionOnSet(l, R) + SumFunctionOnSet(l, U)
  <2>1. \A e \in R \cup U : l[e] \in Int
    BY <1>1, <1>4, <1>6
  <2> QED BY <1>1, <1>2, <2>1, SumUnion
<1>11. SumFunctionOnSet(f, Epochs) <= LiquidityOf(R) + LiquidityOf(U)
  BY <1>7, <1>8, <1>9, <1>10
<1> QED BY <1>11 DEF Streamed, f, R, U

LEMMA Covered ==
  ASSUME LPState
  PROVE  RewardsAreCovered
<1> DEFINE g == GlobalNow
           owed == [t \in Tokens |-> Accrued(pos[t], g).emissions + Accrued(pos[t], g).lump]
           timed == [t \in Tokens |-> PRECISION * owed[t]]
           u == g.undistributed
           B == Budget(now)
           s == SumFunctionOnSet(owed, Tokens)
<1>1. ReserveType /\ ReserveInv /\ LPInv
  BY DEF LPState
<1>2. Sound(pos, g, B) /\ B \in Int
  <2>1. pool.lastUpdate \in Nat /\ now \in Nat /\ Budget(now) \in Int /\ Budget(pool.lastUpdate) \in Int
        /\ Sound(pos, pool, Budget(pool.lastUpdate)) /\ pool.lastUpdate <= now
    BY PoolNow
  <2>2. Budget(now) = Budget(pool.lastUpdate) + (Streamed(now) - Streamed(pool.lastUpdate))
    BY <1>1, <2>1, BudgetIs
  <2> QED BY <1>1, <2>1, <2>2, GlobalIs
<1> HIDE DEF g, B
<1>3. PoolRecord(g) /\ \A t \in Tokens : PaidUp(pos[t], g)
  BY <1>2 DEF Sound
<1>4. u \in Nat
  BY <1>3, PoolRecordIs
<1>5. \A t \in Tokens : owed[t] \in Nat /\ PRECISION * owed[t] <= Scaled(pos[t], g) /\ Scaled(pos[t], g) \in Nat
  <2> SUFFICES ASSUME NEW t \in Tokens
               PROVE  owed[t] \in Nat /\ PRECISION * owed[t] <= Scaled(pos[t], g) /\ Scaled(pos[t], g) \in Nat
    OBVIOUS
  <2>1. Accrued(pos[t], g) \in PosRecord
        /\ PRECISION * (Accrued(pos[t], g).emissions + Accrued(pos[t], g).lump) <= Scaled(pos[t], g)
    BY <1>3, AccruedIs
  <2>2. Accrued(pos[t], g).emissions \in Nat /\ Accrued(pos[t], g).lump \in Nat
    BY <2>1 DEF PosRecord
  <2>3. Scaled(pos[t], g) \in Nat
    BY <1>3, ScaledIs
  <2> QED BY <2>1, <2>2, <2>3
<1>6. PRECISION * u + SumFunctionOnSet(Owing(pos, g), Tokens) <= PRECISION * B
  BY <1>2 DEF Sound
<1>7. \A t \in Tokens : timed[t] = PRECISION * owed[t]
  OBVIOUS
<1>8. RewardsAreCovered <=> u + s <= sgage["lpRewards"] + LiquidityOf(StartedUnreleased)
  BY DEF RewardsAreCovered, SumFunction, g
<1> HIDE DEF owed, timed, u
<1>9. SumFunctionOnSet(timed, Tokens) = PRECISION * s
  <2>1. \A t \in Tokens : owed[t] \in Int /\ timed[t] = PRECISION * owed[t]
    BY <1>5, <1>7
  <2>2. PRECISION \in Int
    BY TokensFinite
  <2> QED BY <2>1, <2>2, TokensFinite, SumTimes
<1>10. SumFunctionOnSet(timed, Tokens) <= SumFunctionOnSet(Owing(pos, g), Tokens)
  <2>1. \A t \in Tokens : timed[t] \in Int /\ Owing(pos, g)[t] \in Int /\ timed[t] <= Owing(pos, g)[t]
    <3>1. \A t \in Tokens : PRECISION * owed[t] \in Int
      BY <1>5, TokensFinite, ProductNat
    <3> QED BY <1>5, <1>7, <3>1 DEF Owing
  <2> QED BY <2>1, TokensFinite, SumLeq
<1>11. s \in Int
  <2>1. \A t \in Tokens : owed[t] \in Int
    BY <1>5
  <2> QED BY <2>1, TokensFinite, SumType
<1>12. SumFunctionOnSet(Owing(pos, g), Tokens) \in Int
  <2>1. \A t \in Tokens : Owing(pos, g)[t] \in Int
    BY <1>5 DEF Owing
  <2> QED BY <2>1, TokensFinite, SumType
<1> HIDE DEF s
<1>13. u + s <= B
  <2>1. PRECISION * u + PRECISION * s <= PRECISION * B
    <3>1. PRECISION * u \in Int /\ PRECISION * s \in Int /\ PRECISION * B \in Int
      BY <1>2, <1>4, <1>11, TokensFinite
    <3> QED BY <1>6, <1>9, <1>10, <1>12, <3>1
  <2>2. PRECISION * (u + s) <= PRECISION * B
    BY <1>4, <1>11, <2>1, TokensFinite, Times
  <2>3. \A k \in Nat \ {0}, x, y \in Int : k * x <= k * y => x <= y
    OBVIOUS
  <2> QED BY <1>2, <1>4, <1>11, <2>2, <2>3, TokensFinite
<1>14. B <= sgage["lpRewards"] + LiquidityOf(StartedUnreleased)
  <2>1. Streamed(now) <= LiquidityOf(released) + LiquidityOf(StartedUnreleased)
    BY <1>1, StreamedIsThere
  <2>2. LiquidityOf(released) \in Nat /\ LiquidityOf(StartedUnreleased) \in Nat
    <3>1. released \in SUBSET Epochs /\ StartedUnreleased \in SUBSET Epochs
      BY <1>1 DEF ReserveType, StartedUnreleased
    <3> QED BY <1>1, <3>1, LiquidityIs
  <2>3. sgage["lpRewards"] \in Int /\ now \in Nat
    BY <1>1, TheHolders DEF ReserveType
  <2>4. Streamed(now) \in Int
    BY <1>1, <2>3, StreamedTotal
  <2> QED BY <2>1, <2>2, <2>3, <2>4 DEF B, Budget
<1>15. sgage["lpRewards"] + LiquidityOf(StartedUnreleased) \in Int
  <2>1. StartedUnreleased \in SUBSET Epochs
    BY DEF StartedUnreleased
  <2>2. LiquidityOf(StartedUnreleased) \in Nat
    BY <1>1, <2>1, LiquidityIs
  <2>3. sgage["lpRewards"] \in Int
    BY <1>1, TheHolders DEF ReserveType
  <2> QED BY <2>2, <2>3
<1>16. u + s <= sgage["lpRewards"] + LiquidityOf(StartedUnreleased)
  BY <1>2, <1>4, <1>11, <1>13, <1>14, <1>15
<1> QED BY <1>8, <1>16

\* The reserve keeps its table, the drips are backed and the rewards covered.
LEMMA LPStateIs ==
  ASSUME LPState
  PROVE  ReserveKeepsItsTable /\ OwedIsHeld
<1>1. ReserveType /\ ReserveInv /\ DripsInv
  BY DEF LPState
<1>2. BudgetsStayPayable
  BY <1>1, CeilingNeverBites
<1>3. OutIsAccounted /\ DripsAreBacked
  BY <1>1 DEF ReserveInv, DripsInv
<1> QED BY <1>2, <1>3, Covered DEF ReserveKeepsItsTable, OwedIsHeld

(***************************************************************************)
(* The initial state.                                                      *)
(***************************************************************************)
LEMMA LPStart ==
  ASSUME LPInit
  PROVE  LPState /\ \A id \in DripIds : drips[id] = NoDrip
<1>1. /\ now = StartTime /\ launchAt = 0 /\ shares = [e \in Epochs |-> DefaultShares]
      /\ released = {} /\ rolledOver = {} /\ totalOut = 0
      /\ reserved = [e \in Epochs |-> [b \in Terms |-> 0]]
  BY DEF LPInit, LPInitAt, EmissionsInit
<1>2. drips = [id \in DripIds |-> NoDrip] /\ totalLocked = 0
  BY DEF LPInit, LPInitAt, DripInit
<1>3. /\ pool = [ePer |-> 0, lPer |-> 0, totalWeight |-> 0, undistributed |-> 0, lastUpdate |-> now,
                 seed |-> NoSeed, nextEpoch |-> 0]
      /\ pos = [t \in Tokens |-> NoPosition] /\ value = [t \in Tokens |-> 0]
      /\ sgage = [h \in Holders |-> CASE h = "emissions" -> PrefixSum(WEEKS) [] h = People -> PeopleStart [] OTHER -> 0]
  BY DEF LPInit, LPInitAt
<1>4. PrefixSum(WEEKS) \in Nat
  <2> DEFINE T == 0 .. Min({WEEKS, WEEKS - 1})
  <2>1. Min({WEEKS, WEEKS - 1}) = WEEKS - 1
    <3>1. WEEKS \in Int /\ WEEKS - 1 \in Int /\ WEEKS - 1 <= WEEKS
      BY EmissionsAssumption
    <3>2. \A a, b \in Int : Min({a, b}) = IF a <= b THEN a ELSE b
      BY MinTwo
    <3>3. ~ (WEEKS <= WEEKS - 1)
      BY EmissionsAssumption
    <3> QED BY <3>1, <3>2, <3>3
  <2>2. T = Epochs
    BY <2>1 DEF Epochs
  <2>3. IsFiniteSet(Epochs) /\ \A e \in Epochs : Weekly[e] \in Int /\ Weekly[e] >= 0
    BY EpochsFinite, EmissionsAssumption
  <2>4. SumFunctionOnSet(Weekly, Epochs) \in Int /\ SumFunctionOnSet(Weekly, Epochs) >= 0
    <3>1. \A e \in Epochs : Weekly[e] \in Int
      BY <2>3
    <3> QED BY <2>3, <3>1, SumType
  <2> QED BY <2>2, <2>4 DEF PrefixSum
<1>5. sgage \in [Holders -> Nat]
  BY <1>3, <1>4, LPAssumption
<1>6. sgage["emissions"] = PrefixSum(WEEKS)
  BY <1>3, TheHolders
<1>7. sgage["lpRewards"] = 0
  BY <1>3, TheHolders
<1>8. sgage["drip"] = 0
  BY <1>3, TheHolders
<1>9. ReserveType
  BY <1>1, <1>5, EmissionsAssumption DEF ReserveType
<1>10. ReserveInv
  <2>1. OutIsAccounted
    <3>1. SumFunction([e \in released |-> LiquidityBudget(e) + reserved[e]["TERM7"] + reserved[e]["TERM21"]]) = 0
      <4>1. SumFunction([e \in released |-> LiquidityBudget(e) + reserved[e]["TERM7"] + reserved[e]["TERM21"]])
              = SumFunctionOnSet([e \in {} |-> LiquidityBudget(e) + reserved[e]["TERM7"] + reserved[e]["TERM21"]], {})
        BY <1>1 DEF SumFunction
      <4> QED BY <4>1, SumEmpty
    <3>2. sgage["emissions"] = PrefixSum(WEEKS) - totalOut
      BY <1>1, <1>4, <1>6
    <3>3. \A e \in Epochs \ released, b \in Terms : reserved[e][b] = 0
      BY <1>1
    <3> QED BY <1>1, <3>1, <3>2, <3>3 DEF OutIsAccounted
  <2>2. \A e \in Epochs, b \in Terms : reserved[e][b] <= DealBudget(e, b)
    <3> SUFFICES ASSUME NEW e \in Epochs, NEW b \in Terms PROVE reserved[e][b] <= DealBudget(e, b)
      OBVIOUS
    <3>1. DealBudget(e, b) \in Nat /\ reserved[e][b] = 0
      BY <1>1, <1>9, Budgets
    <3> QED BY <3>1
  <2> QED BY <1>1, <2>1, <2>2 DEF ReserveInv
<1>11. DripsType /\ \A id \in DripIds : drips[id] = NoDrip
  BY <1>2 DEF DripsType, DripRecord, NoDrip
<1>12. DripsInv
  <2>1. \A id \in DripIds : Unlocked(drips[id]) = 0
    BY <1>11 DEF Unlocked, NoDrip
  <2>2. SumFunction([id \in DripIds |-> drips[id].total - drips[id].claimed]) = 0
    <3> DEFINE f == [id \in DripIds |-> drips[id].total - drips[id].claimed]
    <3>1. \A id \in DripIds : f[id] = 0
      BY <1>11 DEF NoDrip
    <3>2. IsFiniteSet(DripIds)
      BY EmissionsAssumption
    <3>3. SumFunction(f) = SumFunctionOnSet(f, DripIds)
      BY DEF SumFunction
    <3> HIDE DEF f
    <3>4. SumFunction(f) = 0
      BY <3>1, <3>2, <3>3, SumZero
    <3> QED BY <3>4 DEF f
  <2>3. \A id \in DripIds : drips[id].total = 0 /\ drips[id].claimed = 0
    BY <1>11 DEF NoDrip
  <2> QED BY <1>2, <1>8, <2>1, <2>2, <2>3 DEF DripsInv, DripsAreBacked
<1>13. LPType
  BY <1>3 DEF LPType, PosRecord, NoPosition
<1>14. LPInv
  <2>1. now \in Nat
    BY <1>9 DEF ReserveType
  <2>2. PoolRecord(pool)
    BY <1>3, <2>1 DEF PoolRecord
  <2>3. \A t \in Tokens : pos[t] \in PosRecord /\ pos[t].ePaid = 0 /\ pos[t].lPaid = 0 /\ pos[t].weight = 0
                          /\ pos[t].emissions = 0 /\ pos[t].lump = 0
    BY <1>3 DEF PosRecord, NoPosition
  <2>4. pool.ePer = 0 /\ pool.lPer = 0 /\ pool.totalWeight = 0 /\ pool.undistributed = 0 /\ pool.lastUpdate = now
    BY <1>3
  <2>5. \A t \in Tokens : PaidUp(pos[t], pool)
    BY <2>3, <2>4 DEF PaidUp
  <2>6. SumFunctionOnSet(Weights(pos), Tokens) = 0
    <3>1. \A t \in Tokens : Weights(pos)[t] = 0
      BY <2>3 DEF Weights
    <3> QED BY <3>1, TokensFinite, SumZero
  <2>7. SumFunctionOnSet(Owing(pos, pool), Tokens) = 0
    <3>1. \A t \in Tokens : Scaled(pos[t], pool) = 0
      BY <2>3, <2>4, TokensFinite DEF Scaled
    <3>2. \A t \in Tokens : Owing(pos, pool)[t] = 0
      BY <3>1 DEF Owing
    <3> QED BY <3>2, TokensFinite, SumZero
  <2>8. Budget(now) = 0
    <3>1. Streamed(now) = 0
      BY <1>1, <1>9, <2>1, StreamedTotal DEF Launched
    <3>2. LiquidityOf(released) = 0
      BY <1>1, NoLiquidity
    <3> QED BY <1>7, <3>1, <3>2 DEF Budget
  <2>9. PRECISION * pool.undistributed + SumFunctionOnSet(Owing(pos, pool), Tokens) <= PRECISION * Budget(pool.lastUpdate)
    BY <2>4, <2>7, <2>8, TokensFinite
  <2>10. Sound(pos, pool, Budget(pool.lastUpdate))
    BY <2>2, <2>4, <2>5, <2>6, <2>9 DEF Sound
  <2> QED BY <2>1, <2>4, <2>10 DEF LPInv
<1> QED BY <1>9, <1>10, <1>11, <1>12, <1>13, <1>14 DEF LPState

(***************************************************************************)
(* The deals' budgets.                                                     *)
(***************************************************************************)
DealRecord == [fundedAt : Nat, lender : Owners \cup {NoSeed}, borrower : Owners \cup {NoSeed}]
RegRecord == [registered : BOOLEAN, epoch : Nat, lender : Nat, borrower : Nat]

DealsType ==
  /\ deals \in [Deals -> DealRecord]
  /\ rates \in [Epochs -> RateChoices \cup {NoRates}]
  /\ regs \in [Deals -> RegRecord]

\* A deal's part of budget b of epoch e, and the whole of what was registered.
UsedOf(e, b) ==
  [d \in Deals |-> IF regs[d].registered /\ regs[d].epoch = e /\ TermOf[d] = b THEN regs[d].lender + regs[d].borrower ELSE 0]
Used(e, b) == SumFunctionOnSet(UsedOf(e, b), Deals)

DealsInv ==
  /\ \A d \in Deals : Funded(d) => deals[d].lender \in Owners /\ deals[d].borrower \in Owners
  /\ \A d \in Deals : regs[d].registered => Funded(d) /\ Launched
  /\ \A d \in Deals : ~ regs[d].registered => regs[d].lender = 0 /\ regs[d].borrower = 0
  /\ \A e \in Epochs, b \in Terms : Used(e, b) <= DealBudget(e, b)
  /\ \A e \in Epochs \ rolledOver, b \in Terms : Used(e, b) = reserved[e][b]
  /\ PartiesHaveTheirDrips

DealDrip(d, a) == <<<<"deal", d>>, a>>

LEMMA DealDrips == \A d \in Deals, a \in Owners : DealDrip(d, a) \in DripIds
BY DealAssumption DEF DealDrip

Share(d, a) == (IF a = deals[d].lender THEN regs[d].lender ELSE 0) + (IF a = deals[d].borrower THEN regs[d].borrower ELSE 0)

PartyFine(d, a) ==
  /\ drips[DealDrip(d, a)].total = IF regs[d].registered THEN Share(d, a) ELSE 0
  /\ drips[DealDrip(d, a)].total > 0 => drips[DealDrip(d, a)].start = Max({deals[d].fundedAt, launchAt})

LEMMA PartiesAre == PartiesHaveTheirDrips <=> \A d \in Deals : \A a \in Owners : PartyFine(d, a)
BY DEF PartiesHaveTheirDrips, PartyFine, Share, DealDrip

LEMMA PartiesAreNext == (PartiesHaveTheirDrips <=> \A d \in Deals : \A a \in Owners : PartyFine(d, a))'
BY PartiesAre, PTL

LEMMA UsedIs ==
  ASSUME DealsType, NEW e, NEW b
  PROVE  /\ SumFunction([d \in {x \in Deals : regs[x].registered /\ regs[x].epoch = e /\ TermOf[x] = b} |->
                           regs[d].lender + regs[d].borrower]) = Used(e, b)
         /\ \A d \in Deals : UsedOf(e, b)[d] \in Int
         /\ Used(e, b) \in Int
<1> DEFINE T == {x \in Deals : regs[x].registered /\ regs[x].epoch = e /\ TermOf[x] = b}
           f == UsedOf(e, b)
           g == [d \in T |-> regs[d].lender + regs[d].borrower]
<1>1. \A d \in Deals : regs[d].lender \in Nat /\ regs[d].borrower \in Nat
  BY DEF DealsType, RegRecord
<1>2. \A d \in Deals : f[d] \in Int
  BY <1>1 DEF UsedOf
<1>3. T \in SUBSET Deals /\ IsFiniteSet(Deals) /\ \A d \in Deals \ T : f[d] = 0
  BY DealAssumption DEF UsedOf
<1>4. \A d \in T : f[d] = g[d]
  BY DEF UsedOf
<1>5. SumFunction(g) = SumFunctionOnSet(g, T)
  BY DEF SumFunction
<1>6. IsFiniteSet(T)
  BY <1>3, FS_Subset
<1> HIDE DEF T, f, g
<1>7. SumFunctionOnSet(f, Deals) = SumFunctionOnSet(f, T)
  BY <1>2, <1>3, SumPad
<1>8. SumFunctionOnSet(f, T) = SumFunctionOnSet(g, T)
  BY <1>4, <1>6, SumSame
<1>9. SumFunctionOnSet(f, Deals) \in Int
  BY <1>2, <1>3, SumType
<1>10. SumFunction(g) = Used(e, b) /\ Used(e, b) \in Int
  BY <1>5, <1>7, <1>8, <1>9 DEF Used, f
<1> QED BY <1>2, <1>10 DEF f, g, T

LEMMA BudgetsReach ==
  ASSUME DealsType, DealsInv
  PROVE  BudgetsReachTheParties
<1>1. BudgetsAreRegistered
  BY UsedIs DEF BudgetsAreRegistered, DealsInv
<1> QED BY <1>1 DEF BudgetsReachTheParties, DealsInv

\* What a step has to leave alone for the deals' budgets to stay as they are.
DealsLeft ==
  /\ UNCHANGED dealVars
  /\ Launched => launchAt' = launchAt
  /\ \A d \in Deals, a \in Owners :
       drips'[DealDrip(d, a)].total = drips[DealDrip(d, a)].total /\ drips'[DealDrip(d, a)].start = drips[DealDrip(d, a)].start

LEMMA DealsKept ==
  ASSUME DealsType, DealsInv, DealsLeft, rolledOver \subseteq rolledOver',
         \A e \in Epochs, b \in Terms : Used(e, b) <= DealBudget(e, b)',
         \A e \in Epochs \ rolledOver', b \in Terms : reserved'[e][b] = reserved[e][b]
  PROVE  DealsType' /\ DealsInv'
<1>1. deals' = deals /\ rates' = rates /\ regs' = regs
  BY DEF DealsLeft, dealVars
<1>2. DealsType'
  BY <1>1 DEF DealsType
<1>3. \A e, b : Used(e, b)' = Used(e, b)
  BY <1>1 DEF Used, UsedOf
<1>4. \A d \in Deals : (regs[d].registered => Funded(d) /\ Launched)'
  BY <1>1 DEF DealsInv, DealsLeft, Funded, Launched
<1>5. \A d \in Deals : (Funded(d) => deals[d].lender \in Owners /\ deals[d].borrower \in Owners)'
  BY <1>1 DEF DealsInv, Funded
<1>6. \A d \in Deals : (~ regs[d].registered => regs[d].lender = 0 /\ regs[d].borrower = 0)'
  BY <1>1 DEF DealsInv
<1>7. \A e \in Epochs, b \in Terms : (Used(e, b) <= DealBudget(e, b))'
  BY <1>3
<1>8. \A e \in Epochs \ rolledOver', b \in Terms : Used(e, b)' = reserved'[e][b]
  BY <1>3 DEF DealsInv
<1>9. PartiesHaveTheirDrips'
  <2>1. ASSUME NEW d \in Deals, NEW a \in Owners PROVE PartyFine(d, a)'
    <3>1. PartyFine(d, a)
      BY PartiesAre DEF DealsInv
    <3>2. /\ drips'[DealDrip(d, a)].total = drips[DealDrip(d, a)].total
          /\ drips'[DealDrip(d, a)].start = drips[DealDrip(d, a)].start
      BY DEF DealsLeft
    <3>3. regs[d].registered => launchAt' = launchAt
      BY DEF DealsInv, DealsLeft
    <3>4. ~ regs[d].registered => ~ (drips[DealDrip(d, a)].total > 0)
      BY <3>1 DEF PartyFine
    <3>5. DealDrip(d, a)' = DealDrip(d, a) /\ Share(d, a)' = Share(d, a)
      BY <1>1 DEF DealDrip, Share
    <3> QED BY <1>1, <3>1, <3>2, <3>3, <3>4, <3>5 DEF PartyFine
  <2> QED BY <2>1, PartiesAreNext
<1>10. DealsInv'
  BY <1>4, <1>5, <1>6, <1>7, <1>8, <1>9 DEF DealsInv
<1> QED BY <1>2, <1>10

\* The budgets and what is reserved of them stay: every step but a change of shares and a registration.
LEMMA DealsStay ==
  ASSUME DealsType, DealsInv, DealsLeft, shares' = shares, rolledOver \subseteq rolledOver',
         \A e \in Epochs \ rolledOver', b \in Terms : reserved'[e][b] = reserved[e][b]
  PROVE  DealsType' /\ DealsInv'
<1>1. \A e \in Epochs, b \in Terms : DealBudget(e, b)' = DealBudget(e, b)
  BY DEF DealBudget, DealsTotal
<1>2. \A e \in Epochs, b \in Terms : Used(e, b) <= DealBudget(e, b)'
  BY <1>1 DEF DealsInv
<1> QED BY <1>2, DealsKept

TokenInv == LPState /\ DealsType /\ DealsInv

LEMMA DealsStart ==
  ASSUME DealInit
  PROVE  TokenInv
<1>1. LPState /\ \A id \in DripIds : drips[id] = NoDrip
  BY LPStart DEF DealInit
<1>2. /\ deals = [d \in Deals |-> [fundedAt |-> 0, lender |-> NoSeed, borrower |-> NoSeed]]
      /\ rates = [e \in Epochs |-> NoRates]
      /\ regs = [d \in Deals |-> NoReg]
  BY DEF DealInit, DealRewardsInit
<1>3. DealsType
  BY <1>2 DEF DealsType, DealRecord, RegRecord, NoReg
<1>4. \A d \in Deals : ~ regs[d].registered /\ regs[d].lender = 0 /\ regs[d].borrower = 0
  BY <1>2 DEF NoReg
<1>5. \A d \in Deals : ~ Funded(d)
  BY <1>2 DEF Funded
<1>6. ASSUME NEW e \in Epochs, NEW b \in Terms PROVE Used(e, b) = 0
  <2>1. \A d \in Deals : UsedOf(e, b)[d] = 0
    BY <1>4 DEF UsedOf
  <2>2. IsFiniteSet(Deals)
    BY DealAssumption
  <2> QED BY <2>1, <2>2, SumZero DEF Used
<1>7. /\ launchAt = 0 /\ released = {} /\ rolledOver = {} /\ reserved = [e \in Epochs |-> [b \in Terms |-> 0]]
  BY DEF DealInit, LPInit, LPInitAt, EmissionsInit
<1>8. \A e \in Epochs, b \in Terms : Used(e, b) <= DealBudget(e, b) /\ Used(e, b) = reserved[e][b]
  <2> SUFFICES ASSUME NEW e \in Epochs, NEW b \in Terms
               PROVE  Used(e, b) <= DealBudget(e, b) /\ Used(e, b) = reserved[e][b]
    OBVIOUS
  <2>1. DealBudget(e, b) \in Nat
    BY <1>1, Budgets DEF LPState
  <2> QED BY <1>6, <1>7, <2>1
<1>9. PartiesHaveTheirDrips
  <2>1. \A d \in Deals, a \in Owners : drips[DealDrip(d, a)].total = 0
    BY <1>1, DealDrips DEF NoDrip
  <2>2. \A d \in Deals : \A a \in Owners : PartyFine(d, a)
    BY <1>4, <2>1 DEF PartyFine
  <2> QED BY <2>2, PartiesAre
<1>10. DealsInv
  BY <1>4, <1>5, <1>8, <1>9 DEF DealsInv
<1> QED BY <1>1, <1>3, <1>10 DEF TokenInv

\* No grant, no claim, and the reserve's books of deals stay.
LEMMA DealsQuiet ==
  ASSUME DealsType, DealsInv, UNCHANGED <<dealVars, dripVars, shares, launchAt, rolledOver, reserved>>
  PROVE  DealsType' /\ DealsInv'
<1>1. DealsLeft
  BY DEF DealsLeft, dripVars
<1>2. rolledOver \subseteq rolledOver' /\ \A e \in Epochs \ rolledOver', b \in Terms : reserved'[e][b] = reserved[e][b]
  OBVIOUS
<1> QED BY <1>1, <1>2, DealsStay

LEMMA LaunchDeals ==
  ASSUME TokenInv, NEW at \in LaunchTimes, Launch(at), UNCHANGED <<now, sgage, dripVars, lpVars, dealVars>>
  PROVE  TokenInv'
<1>1. LPState /\ DealsType /\ DealsInv
  BY DEF TokenInv
<1>2. LPState'
  BY <1>1, LaunchStep
<1>3. DealsLeft
  BY DEF DealsLeft, dripVars, Launch
<1>4. UNCHANGED <<shares, rolledOver, reserved>>
  BY DEF Launch
<1>5. rolledOver \subseteq rolledOver' /\ \A e \in Epochs \ rolledOver', b \in Terms : reserved'[e][b] = reserved[e][b]
  BY <1>4
<1>6. DealsType' /\ DealsInv'
  BY <1>1, <1>3, <1>4, <1>5, DealsStay
<1> QED BY <1>2, <1>6 DEF TokenInv

\* A deal budget moves only while nothing of it is used.
LEMMA SharesDeals ==
  ASSUME TokenInv, NEW e \in Epochs, NEW choice \in SharesChoices, SetShares(e, choice),
         UNCHANGED <<now, sgage, dripVars, lpVars, dealVars>>
  PROVE  TokenInv'
<1>1. LPState /\ DealsType /\ DealsInv /\ ReserveType /\ ReserveInv
  BY DEF TokenInv, LPState
<1>2. LPState'
  BY <1>1, SharesStep
<1>3. UNCHANGED <<launchAt, rolledOver, reserved>> /\ ~ Started(e)
  BY DEF SetShares
<1>4. DealsLeft
  BY <1>3 DEF DealsLeft, dripVars
<1>5. ReserveInv' /\ ReserveType'
  BY <1>2 DEF LPState
<1>6. \A x \in Epochs, b \in Terms : Used(x, b) <= DealBudget(x, b)'
  <2> SUFFICES ASSUME NEW x \in Epochs, NEW b \in Terms PROVE Used(x, b) <= DealBudget(x, b)'
    OBVIOUS
  <2>1. CASE x = e
    <3>1. e \notin released /\ e \notin rolledOver
      BY <1>1, <1>3 DEF ReserveInv, ReserveType
    <3>2. Used(e, b) = reserved[e][b]
      BY <1>1, <3>1 DEF DealsInv
    <3>3. reserved'[e][b] <= DealBudget(e, b)'
      BY <1>5 DEF ReserveInv
    <3> QED BY <1>3, <2>1, <3>2, <3>3
  <2>2. CASE x # e
    <3>1. shares'[x] = shares[x]
      BY <1>1, <2>2 DEF SetShares, ReserveType
    <3>2. DealBudget(x, b)' = DealBudget(x, b)
      BY <3>1 DEF DealBudget, DealsTotal
    <3> QED BY <1>1, <3>2 DEF DealsInv
  <2> QED BY <2>1, <2>2
<1>7. rolledOver \subseteq rolledOver' /\ \A x \in Epochs \ rolledOver', b \in Terms : reserved'[x][b] = reserved[x][b]
  BY <1>3
<1>8. DealsType' /\ DealsInv'
  BY <1>1, <1>4, <1>6, <1>7, DealsKept
<1> QED BY <1>2, <1>8 DEF TokenInv

LEMMA RolloverDeals ==
  ASSUME TokenInv, NEW e \in Epochs, Rollover(e), UNCHANGED dealVars
  PROVE  TokenInv'
<1>1. LPState /\ DealsType /\ DealsInv /\ ReserveType
  BY DEF TokenInv, LPState
<1>2. LPState'
  BY <1>1, RolloverStep
<1>3. /\ UNCHANGED <<launchAt, shares>> /\ rolledOver' = rolledOver \cup {e}
      /\ reserved' = [reserved EXCEPT ![e] = [b \in Terms |-> DealBudget(e, b)]]
      /\ UNCHANGED dripVars
  BY DEF Rollover, RolloverOut
<1>4. DealsLeft
  BY <1>3 DEF DealsLeft, dripVars
<1>5. rolledOver \subseteq rolledOver' /\ \A x \in Epochs \ rolledOver', b \in Terms : reserved'[x][b] = reserved[x][b]
  BY <1>1, <1>3 DEF ReserveType
<1>6. DealsType' /\ DealsInv'
  BY <1>1, <1>3, <1>4, <1>5, DealsStay
<1> QED BY <1>2, <1>6 DEF TokenInv

LEMMA EnsuredLeaves ==
  ASSUME NEW g, EnsureReleased(g)
  PROVE  UNCHANGED <<shares, launchAt, rolledOver, reserved>>
BY DEF EnsureReleased, ReleaseOut, emissionVars

\* A drip of a position is not one of a deal.
LEMMA DripKeysDiffer == \A d, a, t, n : DealDrip(d, a)[1] # <<"lp", t, n>>
<1> SUFFICES ASSUME NEW d, NEW a, NEW t, NEW n, DealDrip(d, a)[1] = <<"lp", t, n>> PROVE FALSE
  OBVIOUS
<1>1. <<"deal", d>> = <<"lp", t, n>>
  BY DEF DealDrip
<1>2. <<"deal", d>>[1] = <<"lp", t, n>>[1]
  BY <1>1
<1>3. "deal" = "lp"
  BY <1>2
<1> QED BY <1>3

LEMMA CollectDeals ==
  ASSUME TokenInv, NEW t \in Minted, Collect(t), UNCHANGED dealVars
  PROVE  TokenInv'
<1>1. LPState /\ DealsType /\ DealsInv
  BY DEF TokenInv
<1>2. LPState' /\ \A id \in DripIds : id[1] # <<"lp", t, pos[t].nonce + 1>> => drips'[id] = drips[id]
  BY <1>1, CollectStep
<1>3. UNCHANGED <<shares, launchAt, rolledOver, reserved>>
  <2>1. EnsureReleased(UpdateGlobal)
    BY DEF Collect
  <2> QED BY <2>1, EnsuredLeaves
<1>4. \A d \in Deals, a \in Owners : drips'[DealDrip(d, a)] = drips[DealDrip(d, a)]
  BY <1>2, DealDrips, DripKeysDiffer
<1>5. DealsLeft
  BY <1>3, <1>4 DEF DealsLeft
<1>6. rolledOver \subseteq rolledOver' /\ \A x \in Epochs \ rolledOver', b \in Terms : reserved'[x][b] = reserved[x][b]
  BY <1>3
<1>7. DealsType' /\ DealsInv'
  BY <1>1, <1>3, <1>5, <1>6, DealsStay
<1> QED BY <1>2, <1>7 DEF TokenInv

LEMMA ClaimDeals ==
  ASSUME TokenInv, ClaimNext, UNCHANGED dealVars
  PROVE  TokenInv'
<1>1. LPState /\ DealsType /\ DealsInv
  BY DEF TokenInv
<1>2. PICK account \in Owners, ids \in SUBSET {id \in DripIds : drips[id].total > 0} \ {{}} : Claim(account, ids)
  BY DEF ClaimNext
<1>3. UNCHANGED <<now, emissionVars, lpVars>>
  BY DEF ClaimNext
<1>4. ids \in SUBSET DripIds
  BY <1>2
<1>5. LPState' /\ \A id \in DripIds : drips'[id].total = drips[id].total /\ drips'[id].start = drips[id].start
  BY <1>1, <1>2, <1>3, <1>4, ClaimStep
<1>6. UNCHANGED <<shares, launchAt, rolledOver, reserved>>
  BY <1>3 DEF emissionVars
<1>7. DealsLeft
  BY <1>5, <1>6, DealDrips DEF DealsLeft
<1>8. rolledOver \subseteq rolledOver' /\ \A x \in Epochs \ rolledOver', b \in Terms : reserved'[x][b] = reserved[x][b]
  BY <1>6
<1>9. DealsType' /\ DealsInv'
  BY <1>1, <1>6, <1>7, <1>8, DealsStay
<1> QED BY <1>5, <1>9 DEF TokenInv

\* Whatever happens in the liquidity rewards, the reserve and the drips.
LEMMA LPStep ==
  ASSUME TokenInv, LPNext, UNCHANGED dealVars
  PROVE  TokenInv'
<1>1. LPState /\ DealsType /\ DealsInv
  BY DEF TokenInv
<1>2. CASE OwnerNext
  <2>1. UNCHANGED <<now, sgage, dripVars, lpVars>>
    BY <1>2 DEF OwnerNext
  <2>2. ASSUME NEW at \in LaunchTimes, Launch(at) PROVE TokenInv'
    BY <2>1, <2>2, LaunchDeals
  <2>3. ASSUME NEW e \in Epochs, NEW choice \in SharesChoices, SetShares(e, choice) PROVE TokenInv'
    BY <2>1, <2>3, SharesDeals
  <2> QED BY <1>2, <2>2, <2>3 DEF OwnerNext
<1>3. ASSUME NEW e \in Epochs, Release(e) PROVE TokenInv'
  <2>1. LPState'
    BY <1>1, <1>3, ReleaseStep
  <2>2. UNCHANGED <<dealVars, dripVars, shares, launchAt, rolledOver, reserved>>
    BY <1>3 DEF Release, ReleaseOut
  <2> QED BY <1>1, <2>1, <2>2, DealsQuiet DEF TokenInv
<1>4. ASSUME NEW e \in Epochs, Rollover(e) PROVE TokenInv'
  BY <1>4, RolloverDeals
<1>5. CASE Finalize /\ UNCHANGED <<now, dripVars, lpVars>>
  <2>1. LPState'
    BY <1>1, <1>5, FinalizeStep
  <2>2. UNCHANGED <<dealVars, dripVars, shares, launchAt, rolledOver, reserved>>
    BY <1>5 DEF Finalize, emissionVars
  <2> QED BY <1>1, <2>1, <2>2, DealsQuiet DEF TokenInv
<1>6. ASSUME \/ \E S \in SUBSET Minted \ {{}} : CheckpointMany(S)
             \/ \E t \in Minted :
                  \/ \E v \in Values, recorded \in BOOLEAN : ChangeLiquidity(t, v, recorded)
                  \/ \E to \in Owners \cup {FLOOR} : TransferNFT(t, to)
                  \/ SetSeed(t)
      PROVE  TokenInv'
  <2>1. LPState'
    BY <1>1, <1>6, PositionsStep
  <2>2. UNCHANGED <<emissionVars, dripVars>>
    BY <1>6 DEF CheckpointMany, ChangeLiquidity, TransferNFT, SetSeed
  <2>3. UNCHANGED <<dealVars, dripVars, shares, launchAt, rolledOver, reserved>>
    BY <2>2 DEF emissionVars
  <2> QED BY <1>1, <2>1, <2>3, DealsQuiet DEF TokenInv
<1>7. ASSUME NEW t \in Minted, Collect(t) PROVE TokenInv'
  BY <1>7, CollectDeals
<1>8. CASE ClaimNext
  BY <1>8, ClaimDeals
<1>9. ASSUME NEW amount \in Lumps, NotifyLump(amount) PROVE TokenInv'
  <2>1. LPState'
    BY <1>1, <1>9, LumpStep
  <2>2. UNCHANGED <<dealVars, dripVars, shares, launchAt, rolledOver, reserved>>
    BY <1>9 DEF NotifyLump, emissionVars
  <2> QED BY <1>1, <2>1, <2>2, DealsQuiet DEF TokenInv
<1>10. CASE BurnUndistributed
  <2>1. LPState'
    BY <1>1, <1>10, BurnStep
  <2>2. EnsureReleased(UpdateGlobal) /\ UNCHANGED dripVars
    BY <1>10 DEF BurnUndistributed
  <2>3. UNCHANGED <<dealVars, dripVars, shares, launchAt, rolledOver, reserved>>
    BY <2>2, EnsuredLeaves
  <2> QED BY <1>1, <2>1, <2>3, DealsQuiet DEF TokenInv
<1>11. CASE Tick
  <2>1. LPState'
    BY <1>1, <1>11, TickKeeps
  <2>2. UNCHANGED <<dealVars, dripVars, shares, launchAt, rolledOver, reserved>>
    BY <1>11 DEF Tick, emissionVars
  <2> QED BY <1>1, <2>1, <2>2, DealsQuiet DEF TokenInv
<1>12. CASE EmissionsNext
  BY <1>2, <1>3, <1>4, <1>5, <1>12 DEF EmissionsNext
<1>13. CASE PositionsNext
  BY <1>6, <1>7, <1>13 DEF PositionsNext
<1> QED BY <1>8, <1>9, <1>10, <1>11, <1>12, <1>13 DEF LPNext

LEMMA LPUntouched ==
  ASSUME LPState, UNCHANGED lpAllVars
  PROVE  LPState'
<1>1. UNCHANGED <<now, sgage, emissionVars, dripVars, pool, pos, value>>
  BY DEF lpAllVars, lpVars
<1>2. pos' \in [Tokens -> PosRecord] /\ value' \in [Tokens -> Nat]
  BY <1>1 DEF LPState, LPType
<1>3. PICK n \in Nat : n = pool.lastUpdate
  BY PoolNow
<1>4. n <= now /\ pool'.lastUpdate = n /\ Sound(pos', pool', Budget(n))
  BY <1>1, <1>3, PoolNow
<1> QED BY <1>1, <1>2, <1>4, QuietKeeps

LEMMA FundDeals ==
  ASSUME TokenInv, NEW d \in Deals, NEW parties \in Parties, Fund(d, parties)
  PROVE  TokenInv'
<1>1. LPState /\ DealsType /\ DealsInv /\ now \in Nat
  BY PoolNow DEF TokenInv
<1>2. LPState'
  BY <1>1, LPUntouched DEF Fund
<1>3. /\ deals' = [deals EXCEPT ![d] = [fundedAt |-> now, lender |-> parties.lender, borrower |-> parties.borrower]]
      /\ rates' = rates /\ regs' = regs /\ ~ Funded(d)
      /\ UNCHANGED <<launchAt, shares, rolledOver, reserved, drips>>
  BY DEF Fund, lpAllVars, emissionVars, dripVars
<1>4. parties.lender \in Owners /\ parties.borrower \in Owners
  BY DealAssumption
<1>5. deals' \in [Deals -> DealRecord] /\ \A x \in Deals \ {d} : deals'[x] = deals[x]
  BY <1>1, <1>3, <1>4 DEF DealsType, DealRecord
<1>6. deals'[d].lender \in Owners /\ deals'[d].borrower \in Owners
  BY <1>1, <1>3, <1>4 DEF DealsType
<1>7. DealsType'
  BY <1>1, <1>3, <1>5 DEF DealsType
<1>8. ~ regs[d].registered
  BY <1>1, <1>3 DEF DealsInv
<1>9. \A e, b : Used(e, b)' = Used(e, b)
  BY <1>3 DEF Used, UsedOf
<1>10. \A e, b : DealBudget(e, b)' = DealBudget(e, b)
  BY <1>3 DEF DealBudget, DealsTotal
<1>11. \A x \in Deals : (Funded(x) => deals[x].lender \in Owners /\ deals[x].borrower \in Owners)'
  BY <1>1, <1>5, <1>6 DEF DealsInv, Funded
<1>12. \A x \in Deals : (regs[x].registered => Funded(x) /\ Launched)'
  BY <1>1, <1>3, <1>5, <1>8 DEF DealsInv, Funded, Launched
<1>13. \A x \in Deals : (~ regs[x].registered => regs[x].lender = 0 /\ regs[x].borrower = 0)'
  BY <1>1, <1>3 DEF DealsInv
<1>14. \A e \in Epochs, b \in Terms : (Used(e, b) <= DealBudget(e, b))'
  BY <1>1, <1>9, <1>10 DEF DealsInv
<1>15. \A e \in Epochs \ rolledOver', b \in Terms : Used(e, b)' = reserved'[e][b]
  BY <1>1, <1>3, <1>9 DEF DealsInv
<1>16. PartiesHaveTheirDrips'
  <2>1. ASSUME NEW x \in Deals, NEW a \in Owners PROVE PartyFine(x, a)'
    <3>1. PartyFine(x, a)
      BY <1>1, PartiesAre DEF DealsInv
    <3>2. DealDrip(x, a)' = DealDrip(x, a)
      BY DEF DealDrip
    <3>3. CASE x = d
      <4>1. drips[DealDrip(d, a)].total = 0
        BY <1>8, <3>1, <3>3 DEF PartyFine
      <4> QED BY <1>3, <1>8, <3>2, <3>3, <4>1 DEF PartyFine
    <3>4. CASE x # d
      <4>1. deals'[x] = deals[x]
        BY <1>5, <3>4
      <4>2. Share(x, a)' = Share(x, a)
        BY <1>3, <4>1 DEF Share
      <4> QED BY <1>3, <3>1, <3>2, <4>1, <4>2 DEF PartyFine
    <3> QED BY <3>3, <3>4
  <2> QED BY <2>1, PartiesAreNext
<1>17. DealsInv'
  BY <1>11, <1>12, <1>13, <1>14, <1>15, <1>16 DEF DealsInv
<1> QED BY <1>2, <1>7, <1>17 DEF TokenInv

LEMMA RatesDeals ==
  ASSUME TokenInv, NEW e \in Epochs, NEW r \in RateChoices, SetEpochRates(e, r)
  PROVE  TokenInv'
<1>1. LPState /\ DealsType /\ DealsInv
  BY DEF TokenInv
<1>2. LPState'
  BY <1>1, LPUntouched DEF SetEpochRates
<1>3. /\ rates' = [rates EXCEPT ![e] = r] /\ deals' = deals /\ regs' = regs
      /\ UNCHANGED <<launchAt, shares, rolledOver, reserved, drips>>
  BY DEF SetEpochRates, lpAllVars, emissionVars, dripVars
<1>4. DealsType'
  BY <1>1, <1>3 DEF DealsType
<1>5. \A x, b : Used(x, b)' = Used(x, b) /\ DealBudget(x, b)' = DealBudget(x, b)
  BY <1>3 DEF Used, UsedOf, DealBudget, DealsTotal
<1>6. \A d \in Deals : Funded(d)' = Funded(d) /\ Launched' = Launched
  BY <1>3 DEF Funded, Launched
<1>7. PartiesHaveTheirDrips'
  <2>1. ASSUME NEW x \in Deals, NEW a \in Owners PROVE PartyFine(x, a)'
    <3>1. PartyFine(x, a)
      BY <1>1, PartiesAre DEF DealsInv
    <3>2. DealDrip(x, a)' = DealDrip(x, a) /\ Share(x, a)' = Share(x, a)
      BY <1>3 DEF DealDrip, Share
    <3> QED BY <1>3, <3>1, <3>2 DEF PartyFine
  <2> QED BY <2>1, PartiesAreNext
<1>8. DealsInv'
  BY <1>1, <1>3, <1>5, <1>6, <1>7 DEF DealsInv
<1> QED BY <1>2, <1>4, <1>8 DEF TokenInv

(***************************************************************************)
(* A registration.                                                         *)
(***************************************************************************)
LEMMA DealEpochIs ==
  ASSUME ReserveType, DealsType, NEW d \in Deals
  PROVE  DealEpoch(d) \in Nat
<1>1. deals[d].fundedAt \in Nat /\ launchAt \in Nat
  BY DEF DealsType, DealRecord, ReserveType
<1>2. EPOCH \in Nat \ {0} /\ WEEKS \in Nat
  BY EmissionsAssumption
<1> DEFINE t == deals[d].fundedAt
           q == (t - launchAt) \div EPOCH
<1>3. CASE t < launchAt
  BY <1>3 DEF DealEpoch, EpochOf
<1>4. CASE ~ (t < launchAt)
  <2>1. t - launchAt \in Nat
    BY <1>1, <1>4
  <2>2. q \in Nat
    BY <1>2, <2>1, QuotientNat
  <2>3. DealEpoch(d) = Min({q, WEEKS})
    BY <1>4 DEF DealEpoch, EpochOf
  <2> HIDE DEF q
  <2>4. Min({q, WEEKS}) = IF q <= WEEKS THEN q ELSE WEEKS
    BY <1>2, <2>2, MinTwo
  <2> QED BY <1>2, <2>2, <2>3, <2>4
<1> QED BY <1>3, <1>4

LEMMA EffectiveIs ==
  ASSUME DealsType, NEW e
  PROVE  EffectiveRates(e) \in RateChoices \cup {NoRates}
<1> DEFINE earlier == {x \in Epochs : x <= e /\ rates[x] # NoRates}
<1>1. CASE earlier = {}
  BY <1>1 DEF EffectiveRates
<1>2. CASE earlier # {}
  <2>1. earlier \in SUBSET Epochs
    OBVIOUS
  <2>2. earlier \in SUBSET Int /\ IsFiniteSet(earlier)
    <3>1. Epochs \in SUBSET Int
      BY EpochsFinite
    <3> HIDE DEF earlier
    <3>2. IsFiniteSet(earlier)
      BY <2>1, EpochsFinite, FS_Subset
    <3> QED BY <2>1, <3>1, <3>2
  <2>3. EffectiveRates(e) = rates[Max(earlier)]
    BY <1>2 DEF EffectiveRates
  <2> HIDE DEF earlier
  <2>4. Max(earlier) \in earlier
    BY <1>2, <2>2, MaxIn
  <2>5. Max(earlier) \in Epochs
    BY <2>1, <2>4
  <2> QED BY <2>3, <2>5 DEF DealsType
<1> QED BY <1>1, <1>2

\* A reward comes out of what is left of the deal's budget, if there is one.
LEMMA RewardIs ==
  ASSUME ReserveType, ReserveInv, DealsType, NEW d \in Deals
  PROVE  /\ Reward(d) \in Nat
         /\ Reward(d) > 0 => /\ DealEpoch(d) \in Epochs \ rolledOver
                             /\ Reward(d) <= Remaining(DealEpoch(d), TermOf[d])
<1> DEFINE e == DealEpoch(d)
           r == EffectiveRates(e)
           m == IF TermOf[d] = "TERM21" THEN r.rate21 ELSE r.rate7
           raw == FeeOf[d] * m
           cap == (FeeOf[d] * MAX_REWARD_SHARE) \div (BPS * r.price)
           left == Remaining(e, TermOf[d])
<1>1. CASE e \notin Epochs \/ r = NoRates \/ e \in rolledOver
  BY <1>1 DEF Reward
<1>2. CASE ~ (e \notin Epochs \/ r = NoRates \/ e \in rolledOver)
  <2>1. Reward(d) = Min({raw, cap, left})
    BY <1>2 DEF Reward
  <2>2. r \in RateChoices
    BY <1>2, EffectiveIs
  <2>3. r.rate7 \in Nat /\ r.rate21 \in Nat /\ r.price \in Nat \ {0}
    BY <2>2, DealAssumption
  <2>4. FeeOf[d] \in Nat /\ TermOf[d] \in Terms /\ MAX_REWARD_SHARE \in Nat /\ BPS \in Nat \ {0}
    BY DealAssumption, EmissionsAssumption
  <2>5. left \in Nat
    BY <1>2, <2>4, LetOut
  <2>6. m \in Nat
    BY <2>3
  <2> HIDE DEF e, r, m
  <2>7. raw \in Nat
    BY <2>4, <2>6, ProductNat
  <2>8. cap \in Nat
    <3>1. FeeOf[d] * MAX_REWARD_SHARE \in Nat
      BY <2>4, ProductNat
    <3>2. BPS * r.price \in Nat \ {0}
      <4>1. \A a, b \in Nat \ {0} : a * b \in Nat \ {0}
        OBVIOUS
      <4> QED BY <2>3, <2>4, <4>1
    <3> QED BY <3>1, <3>2, QuotientNat
  <2> HIDE DEF raw, cap, left
  <2>9. Min({raw, cap, left}) \in {raw, cap, left} /\ Min({raw, cap, left}) <= left
    <3>1. raw \in Int /\ cap \in Int /\ left \in Int
      BY <2>5, <2>7, <2>8
    <3> QED BY <3>1, MinThree
  <2>10. Reward(d) \in Nat /\ Reward(d) <= left
    BY <2>1, <2>5, <2>7, <2>8, <2>9
  <2> QED BY <1>2, <2>10 DEF left, e
<1> QED BY <1>1, <1>2

\* The two parts of a reward.
LEMMA PartsIs ==
  ASSUME ReserveType, ReserveInv, DealsType, NEW d \in Deals
  PROVE  /\ (Reward(d) * EffectiveRates(DealEpoch(d)).lenderShare) \div BPS \in Nat
         /\ Reward(d) - (Reward(d) * EffectiveRates(DealEpoch(d)).lenderShare) \div BPS \in Nat
<1> DEFINE n == Reward(d)
           s == EffectiveRates(DealEpoch(d)).lenderShare
           l == (n * s) \div BPS
<1>1. n \in Nat
  BY RewardIs
<1>2. s \in 0 .. BPS
  <2>1. EffectiveRates(DealEpoch(d)) \in RateChoices \cup {NoRates}
    BY EffectiveIs
  <2>2. \A r \in RateChoices : r.lenderShare \in 0 .. BPS
    BY DealAssumption
  <2>3. NoRates.lenderShare \in 0 .. BPS
    BY EmissionsAssumption DEF NoRates
  <2> QED BY <2>1, <2>2, <2>3
<1> HIDE DEF n, s
<1>3. l \in 0 .. n
  BY <1>1, <1>2, PartOf
<1> HIDE DEF l
<1>4. l \in Nat /\ n - l \in Nat
  BY <1>1, <1>3
<1> QED BY <1>4 DEF n, s, l

\* What an account is granted of a deal whose parties get l and b.
Given(d, a, l, b) == (IF a = deals[d].lender THEN l ELSE 0) + (IF a = deals[d].borrower THEN b ELSE 0)

LEMMA DealDripIs == \A d, a : DealDrip(d, a)[2] = a /\ DealDrip(d, a)[1] = <<"deal", d>>
BY DEF DealDrip

LEMMA DealKeysDiffer == \A d, x, a, c : DealDrip(d, a) = DealDrip(x, c) => d = x /\ a = c
<1> SUFFICES ASSUME NEW d, NEW x, NEW a, NEW c, DealDrip(d, a) = DealDrip(x, c) PROVE d = x /\ a = c
  OBVIOUS
<1>1. a = c /\ <<"deal", d>> = <<"deal", x>>
  BY DealDripIs
<1>2. <<"deal", d>>[2] = <<"deal", x>>[2]
  BY <1>1
<1> QED BY <1>1, <1>2

\* The grants of a registration are those of the parties, and the whole reward.
LEMMA GrantsAre ==
  ASSUME NEW d, NEW l \in Nat, NEW b \in Nat
  PROVE  /\ \A id : id \in DOMAIN Grants(d, l, b) <=>
                  \E a \in {deals[d].lender, deals[d].borrower} : Given(d, a, l, b) > 0 /\ id = DealDrip(d, a)
         /\ Grants(d, l, b) \in [DOMAIN Grants(d, l, b) -> Nat]
         /\ \A a : DealDrip(d, a) \in DOMAIN Grants(d, l, b) => Grants(d, l, b)[DealDrip(d, a)] = Given(d, a, l, b)
         /\ SumFunction(Grants(d, l, b)) = l + b
<1> DEFINE L == deals[d].lender
           B == deals[d].borrower
           T == {DealDrip(d, a) : a \in {c \in {L, B} : Given(d, c, l, b) > 0}}
           g == [id \in T |-> Given(d, id[2], l, b)]
           D == {DealDrip(d, L), DealDrip(d, B)}
           f == [id \in D |-> Given(d, id[2], l, b)]
<1>1. Grants(d, l, b) = g
  BY DEF Grants, DealDrip, Given
<1>2. DOMAIN g = T
  OBVIOUS
<1>3. \A a : Given(d, a, l, b) \in Nat
  BY DEF Given
<1>4. g \in [DOMAIN g -> Nat]
  BY <1>3
<1>5. \A a : DealDrip(d, a) \in T => g[DealDrip(d, a)] = Given(d, a, l, b)
  BY DealDripIs
<1>6. T \in SUBSET D /\ IsFiniteSet(D)
  <2>1. IsFiniteSet({DealDrip(d, L)}) /\ IsFiniteSet({DealDrip(d, B)})
    BY FS_Singleton
  <2>2. D = {DealDrip(d, L)} \cup {DealDrip(d, B)}
    OBVIOUS
  <2> QED BY <2>1, <2>2, FS_Union
<1>7. \A id \in T : f[id] = g[id]
  BY <1>6
<1>8. f[DealDrip(d, L)] = Given(d, L, l, b) /\ f[DealDrip(d, B)] = Given(d, B, l, b)
  BY DealDripIs
<1>9. \A id \in D : f[id] \in Nat
  BY <1>3
<1>10. \A id \in D \ T : f[id] = 0
  <2> SUFFICES ASSUME NEW id \in D \ T PROVE f[id] = 0
    OBVIOUS
  <2>1. PICK a \in {L, B} : id = DealDrip(d, a)
    OBVIOUS
  <2>2. f[id] = Given(d, a, l, b)
    BY <2>1, <1>8
  <2>3. ~ (Given(d, a, l, b) > 0)
    BY <2>1
  <2> QED BY <1>3, <2>2, <2>3
<1> HIDE DEF f, g, T, D
<1>11. SumFunctionOnSet(f, D) = SumFunctionOnSet(f, T)
  <2>1. \A id \in D : f[id] \in Int
    BY <1>9
  <2> QED BY <1>6, <1>10, <2>1, SumPad
<1>12. SumFunctionOnSet(f, T) = SumFunctionOnSet(g, T)
  <2>1. IsFiniteSet(T)
    BY <1>6, FS_Subset
  <2> QED BY <1>7, <2>1, SumSame
<1>13. SumFunction(g) = SumFunctionOnSet(g, T)
  BY <1>2 DEF SumFunction
<1>14. SumFunctionOnSet(f, D) = l + b
  <2>1. CASE L = B
    <3>1. D = {DealDrip(d, L)} /\ DealDrip(d, L) \in D /\ \A x \in D \ {DealDrip(d, L)} : f[x] = 0
      BY <2>1 DEF D
    <3>2. f[DealDrip(d, L)] = l + b /\ l + b \in Int
      BY <1>8, <2>1 DEF Given
    <3>3. SumFunctionOnSet(f, D) = f[DealDrip(d, L)]
      <4>1. f[DealDrip(d, L)] \in Int
        BY <3>2
      <4> QED BY <1>6, <3>1, <4>1, SumOne
    <3> QED BY <3>2, <3>3
  <2>2. CASE L # B
    <3>1. DealDrip(d, L) # DealDrip(d, B)
      BY <2>2, DealKeysDiffer
    <3>2. f[DealDrip(d, L)] = l /\ f[DealDrip(d, B)] = b
      BY <1>8, <2>2 DEF Given
    <3>3. \A x \in D : f[x] \in Int
      BY <1>9
    <3>4. DealDrip(d, L) \in D /\ D \ {DealDrip(d, L)} = {DealDrip(d, B)}
      BY <3>1 DEF D
    <3>5. SumFunctionOnSet(f, D) = f[DealDrip(d, L)] + SumFunctionOnSet(f, D \ {DealDrip(d, L)})
      BY <1>6, <3>3, <3>4, SumRemove
    <3>6. SumFunctionOnSet(f, {DealDrip(d, B)}) = f[DealDrip(d, B)]
      <4>1. IsFiniteSet({DealDrip(d, B)}) /\ DealDrip(d, B) \in {DealDrip(d, B)} /\ f[DealDrip(d, B)] \in Int
        BY <3>2, FS_Singleton
      <4>2. \A x \in {DealDrip(d, B)} \ {DealDrip(d, B)} : f[x] = 0
        OBVIOUS
      <4> QED BY <4>1, <4>2, SumOne
    <3> QED BY <3>2, <3>4, <3>5, <3>6
  <2> QED BY <2>1, <2>2
<1>15. SumFunction(g) = l + b
  BY <1>11, <1>12, <1>13, <1>14
<1>16. \A a : DealDrip(d, a) \in DOMAIN g => g[DealDrip(d, a)] = Given(d, a, l, b)
  BY <1>2, <1>5
<1>17. \A id : id \in DOMAIN g <=>
          \E a \in {deals[d].lender, deals[d].borrower} : Given(d, a, l, b) > 0 /\ id = DealDrip(d, a)
  <2>1. \A id : id \in T <=> \E a \in {L, B} : Given(d, a, l, b) > 0 /\ id = DealDrip(d, a)
    BY DEF T
  <2> QED BY <1>2, <2>1
<1> QED BY <1>1, <1>4, <1>15, <1>16, <1>17

LEMMA GrantsHave ==
  ASSUME NEW d, NEW l \in Nat, NEW b \in Nat
  PROVE  /\ \A a : DealDrip(d, a) \in DOMAIN Grants(d, l, b) <=>
                    a \in {deals[d].lender, deals[d].borrower} /\ Given(d, a, l, b) > 0
         /\ \A a, x : x # d => DealDrip(x, a) \notin DOMAIN Grants(d, l, b)
         /\ \A a : DealDrip(d, a) \in DOMAIN Grants(d, l, b) =>
                    Grants(d, l, b)[DealDrip(d, a)] = Given(d, a, l, b)
<1> DEFINE g == Grants(d, l, b)
<1>1. \A id : id \in DOMAIN g <=>
          \E a \in {deals[d].lender, deals[d].borrower} : Given(d, a, l, b) > 0 /\ id = DealDrip(d, a)
  BY GrantsAre
<1>2. \A a : DealDrip(d, a) \in DOMAIN g => g[DealDrip(d, a)] = Given(d, a, l, b)
  BY GrantsAre
<1> HIDE DEF g
<1>3. \A a : DealDrip(d, a) \in DOMAIN g <=> a \in {deals[d].lender, deals[d].borrower} /\ Given(d, a, l, b) > 0
  BY <1>1, DealKeysDiffer
<1>4. \A a, x : x # d => DealDrip(x, a) \notin DOMAIN g
  BY <1>1, DealKeysDiffer
<1> QED BY <1>2, <1>3, <1>4 DEF g

\* A transfer from the reserve to the drips after a delivery.
LEMMA RewardedIs ==
  ASSUME ReserveType, NEW E \in SUBSET Epochs, NEW n \in Nat, Settled(Paid(Delivered(sgage, E), "emissions", "drip", n))
  PROVE  /\ sgage' \in [Holders -> Nat]
         /\ sgage'["emissions"] = sgage["emissions"] - (LiquidityOf(E) + n)
         /\ sgage'["lpRewards"] = sgage["lpRewards"] + LiquidityOf(E)
         /\ sgage'["drip"] = sgage["drip"] + n
<1> DEFINE b0 == Delivered(sgage, E)
           b1 == Paid(b0, "emissions", "drip", n)
<1>1. /\ b0 \in [Holders -> Int] /\ b0["emissions"] = sgage["emissions"] - LiquidityOf(E)
      /\ b0["lpRewards"] = sgage["lpRewards"] + LiquidityOf(E) /\ b0["drip"] = sgage["drip"]
      /\ sgage \in [Holders -> Int] /\ LiquidityOf(E) \in Nat
  BY DeliveredIs
<1>0. Settled(b1)
  OBVIOUS
<1> HIDE DEF b0
<1>2. n \in Int
  OBVIOUS
<1>3. b1 \in [Holders -> Int] /\ b1["emissions"] = b0["emissions"] - n
  BY <1>1, <1>2, TheHolders DEF Paid
<1>4. b1["drip"] = b0["drip"] + n
  BY <1>1, <1>2, TheHolders DEF Paid
<1>5. b1["lpRewards"] = b0["lpRewards"]
  BY <1>1, <1>2, TheHolders DEF Paid
<1> HIDE DEF b1
<1>7. sgage' = b1 /\ sgage' \in [Holders -> Nat]
  BY <1>0, <1>3, SettledIs
<1>8. sgage'["emissions"] = sgage["emissions"] - (LiquidityOf(E) + n)
  <2>1. sgage["emissions"] \in Int /\ LiquidityOf(E) \in Int
    BY <1>1, TheHolders
  <2>2. b0["emissions"] = sgage["emissions"] - LiquidityOf(E)
    BY <1>1
  <2>3. sgage'["emissions"] = b0["emissions"] - n
    BY <1>3, <1>7
  <2> QED BY <1>2, <2>1, <2>2, <2>3
<1>9. sgage'["lpRewards"] = sgage["lpRewards"] + LiquidityOf(E)
  BY <1>1, <1>5, <1>7
<1>10. sgage'["drip"] = sgage["drip"] + n
  BY <1>1, <1>4, <1>7
<1> QED BY <1>7, <1>8, <1>9, <1>10

\* What a registration does, by the names of its parts.
Registered(d, e, n, l, b) ==
  /\ ~ regs[d].registered /\ Funded(d) /\ Launched
  /\ regs' = [regs EXCEPT ![d] = [registered |-> TRUE, epoch |-> e, lender |-> l, borrower |-> b]]
  /\ ReleaseOut({e} \cap (Epochs \ released), n)
  /\ pool' = Notified(pool, {e} \cap (Epochs \ released))
  /\ reserved' = IF n > 0 THEN [reserved EXCEPT ![e][TermOf[d]] = @ + n] ELSE reserved
  /\ IF n > 0
     THEN GrantAll(Grants(d, l, b), Max({deals[d].fundedAt, launchAt}), LengthOf[TermOf[d]])
     ELSE UNCHANGED dripVars
  /\ Settled(Paid(Delivered(sgage, {e} \cap (Epochs \ released)), "emissions", "drip", n))
  /\ UNCHANGED <<now, pos, owner, value, lumps, deals, rates>>
  /\ e \in Nat /\ n \in Nat /\ l \in Nat /\ b \in Nat /\ l + b = n
  /\ n > 0 => e \in Epochs \ rolledOver /\ n <= Remaining(e, TermOf[d])

LEMMA RegisteredIs ==
  ASSUME ReserveType, ReserveInv, DealsType, NEW d \in Deals, Register(d)
  PROVE  \E e, n, l, b : Registered(d, e, n, l, b)
<1> DEFINE e == DealEpoch(d)
           n == Reward(d)
           l == (n * EffectiveRates(e).lenderShare) \div BPS
           b == n - l
<1>1. e \in Nat /\ n \in Nat /\ l \in Nat /\ b \in Nat
  BY DealEpochIs, RewardIs, PartsIs
<1>2. n > 0 => e \in Epochs \ rolledOver /\ n <= Remaining(e, TermOf[d])
  BY RewardIs
<1>3. l + b = n
  <2> HIDE DEF l, n
  <2> QED BY <1>1
<1>4. /\ ~ regs[d].registered /\ Funded(d) /\ Launched
      /\ regs' = [regs EXCEPT ![d] = [registered |-> TRUE, epoch |-> e, lender |-> l, borrower |-> b]]
      /\ ReleaseOut({e} \cap (Epochs \ released), n)
      /\ pool' = Notified(pool, {e} \cap (Epochs \ released))
      /\ reserved' = (IF n > 0 THEN [reserved EXCEPT ![e][TermOf[d]] = @ + n] ELSE reserved)
      /\ IF n > 0
         THEN GrantAll(Grants(d, l, b), Max({deals[d].fundedAt, launchAt}), LengthOf[TermOf[d]])
         ELSE UNCHANGED dripVars
      /\ Settled(Paid(Delivered(sgage, {e} \cap (Epochs \ released)), "emissions", "drip", n))
      /\ UNCHANGED <<now, pos, owner, value, lumps, deals, rates>>
  BY DEF Register
<1> HIDE DEF e, n, l, b
<1>5. Registered(d, e, n, l, b)
  BY <1>1, <1>2, <1>3, <1>4 DEF Registered
<1> QED BY <1>5

LEMMA RegisterLP ==
  ASSUME TokenInv, NEW d \in Deals, NEW e, NEW n, NEW l, NEW b, Registered(d, e, n, l, b)
  PROVE  LPState' /\ UNCHANGED <<launchAt, shares, rolledOver>>
<1> DEFINE E == {e} \cap (Epochs \ released)
           g == Grants(d, l, b)
           start == Max({deals[d].fundedAt, launchAt})
<1>1. LPState /\ ReserveType /\ ReserveInv /\ DripsType /\ DripsInv /\ DealsType /\ now \in Nat
  BY PoolNow DEF TokenInv, LPState
<1>2. /\ ReleaseOut(E, n) /\ pool' = Notified(pool, E)
      /\ reserved' = (IF n > 0 THEN [reserved EXCEPT ![e][TermOf[d]] = @ + n] ELSE reserved)
      /\ Settled(Paid(Delivered(sgage, E), "emissions", "drip", n))
      /\ UNCHANGED <<now, pos, value>>
      /\ n \in Nat /\ l \in Nat /\ b \in Nat /\ l + b = n
  BY DEF Registered
<1>3. E \in SUBSET Epochs
  OBVIOUS
<1>4. /\ sgage' \in [Holders -> Nat]
      /\ sgage'["emissions"] = sgage["emissions"] - (LiquidityOf(E) + n)
      /\ sgage'["lpRewards"] = sgage["lpRewards"] + LiquidityOf(E)
      /\ sgage'["drip"] = sgage["drip"] + n
  BY <1>1, <1>2, <1>3, RewardedIs
<1>5. TermOf[d] \in Terms /\ LengthOf[TermOf[d]] \in Nat
  BY DealAssumption
<1>6. n > 0 => e \in (released \cup E) \ rolledOver /\ TermOf[d] \in Terms /\ n <= Remaining(e, TermOf[d])
  BY <1>5 DEF Registered
<1>7. Released(E, n, e, TermOf[d])
  BY <1>1, <1>2, <1>4, <1>6, ReleaseOutIs
<1>8. DripsType' /\ DripsInv'
  <2>1. CASE n = 0
    <3>1. UNCHANGED dripVars
      BY <2>1 DEF Registered
    <3>2. sgage["drip"] \in Int
      BY <1>1, TheHolders DEF ReserveType
    <3>3. sgage'["drip"] = sgage["drip"] /\ now' \in Nat /\ now <= now'
      BY <1>1, <1>2, <1>4, <2>1, <3>2
    <3> QED BY <1>1, <3>1, <3>3, DripsUntouched
  <2>2. CASE n > 0
    <3>1. GrantAll(g, start, LengthOf[TermOf[d]])
      BY <2>2 DEF Registered
    <3>2. g \in [DOMAIN g -> Nat] /\ SumFunction(g) = n
      BY <1>2, GrantsAre
    <3>3. start \in Nat
      <4>1. deals[d].fundedAt \in Nat /\ launchAt \in Nat
        BY <1>1 DEF DealsType, DealRecord, ReserveType
      <4>2. start = IF deals[d].fundedAt >= launchAt THEN deals[d].fundedAt ELSE launchAt
        BY <4>1, MaxTwo
      <4> QED BY <4>1, <4>2
    <3> HIDE DEF g, start
    <3> QED BY <1>1, <1>2, <1>4, <1>5, <3>1, <3>2, <3>3, DripsGranted
  <2> QED BY <1>2, <2>1, <2>2
<1>9. LPState'
  BY <1>1, <1>2, <1>4, <1>7, <1>8, DeliveryKeeps
<1>10. UNCHANGED <<launchAt, shares, rolledOver>>
  BY <1>7 DEF Released
<1> QED BY <1>9, <1>10

LEMMA RegisterDeals ==
  ASSUME TokenInv, NEW d \in Deals, NEW e, NEW n, NEW l, NEW b, Registered(d, e, n, l, b)
  PROVE  DealsType' /\ DealsInv'
<1>1. ReserveType /\ ReserveInv /\ DripsType /\ DealsType /\ DealsInv
  BY DEF TokenInv, LPState
<1>2. LPState' /\ UNCHANGED <<launchAt, shares, rolledOver>>
  BY RegisterLP
<1>3. /\ ~ regs[d].registered /\ Funded(d) /\ Launched
      /\ regs' = [regs EXCEPT ![d] = [registered |-> TRUE, epoch |-> e, lender |-> l, borrower |-> b]]
      /\ reserved' = (IF n > 0 THEN [reserved EXCEPT ![e][TermOf[d]] = @ + n] ELSE reserved)
      /\ UNCHANGED <<deals, rates>>
      /\ e \in Nat /\ n \in Nat /\ l \in Nat /\ b \in Nat /\ l + b = n
      /\ n > 0 => e \in Epochs \ rolledOver
  BY DEF Registered
<1>4. TermOf[d] \in Terms /\ IsFiniteSet(Deals)
  BY DealAssumption
<1>5. regs' \in [Deals -> RegRecord] /\ \A x \in Deals \ {d} : regs'[x] = regs[x]
  BY <1>1, <1>3 DEF DealsType, RegRecord
<1>6. regs'[d] = [registered |-> TRUE, epoch |-> e, lender |-> l, borrower |-> b]
  BY <1>1, <1>3 DEF DealsType
<1>7. DealsType'
  BY <1>1, <1>3, <1>5 DEF DealsType
<1>8. ASSUME NEW x \in Epochs, NEW c \in Terms
      PROVE  Used(x, c)' = IF x = e /\ c = TermOf[d] THEN Used(x, c) + n ELSE Used(x, c)
  <2> DEFINE f == UsedOf(x, c)
             h == UsedOf(x, c)'
             k == IF x = e /\ c = TermOf[d] THEN n ELSE 0
  <2>1. \A y \in Deals : f[y] \in Int
    BY <1>1, UsedIs
  <2>2. f[d] = 0
    BY <1>3 DEF UsedOf
  <2>3. h[d] = k
    BY <1>3, <1>6 DEF UsedOf
  <2>4. \A y \in Deals \ {d} : h[y] = f[y]
    BY <1>5 DEF UsedOf
  <2>5. k \in Int
    BY <1>3
  <2>6. Used(x, c)' = SumFunctionOnSet(h, Deals) /\ Used(x, c) = SumFunctionOnSet(f, Deals)
    BY DEF Used
  <2>7. Used(x, c) \in Int
    BY <1>1, UsedIs
  <2> HIDE DEF f, h, k
  <2>8. SumFunctionOnSet(h, Deals) = SumFunctionOnSet(f, Deals) + k
    <3>1. \A y \in Deals : f[y] \in Int /\ h[y] \in Int
      BY <2>1, <2>3, <2>4, <2>5
    <3>2. h[d] = f[d] + k
      BY <2>2, <2>3, <2>5
    <3> QED BY <1>4, <2>4, <2>5, <3>1, <3>2, SumMoved
  <2> QED BY <2>6, <2>7, <2>8 DEF k
<1>9. ASSUME NEW x \in Epochs, NEW c \in Terms
      PROVE  reserved'[x][c] = IF n > 0 /\ x = e /\ c = TermOf[d] THEN reserved[x][c] + n ELSE reserved[x][c]
  BY <1>1, <1>3, <1>4 DEF ReserveType
<1>10. \A x \in Epochs \ rolledOver', c \in Terms : Used(x, c)' = reserved'[x][c]
  <2> SUFFICES ASSUME NEW x \in Epochs \ rolledOver', NEW c \in Terms PROVE Used(x, c)' = reserved'[x][c]
    OBVIOUS
  <2>1. Used(x, c) = reserved[x][c] /\ x \in Epochs
    BY <1>1, <1>2 DEF DealsInv
  <2>2. reserved[x][c] \in Nat
    BY <1>1 DEF ReserveType
  <2> QED BY <1>3, <1>8, <1>9, <2>1, <2>2
<1>11. \A x \in Epochs, c \in Terms : (Used(x, c) <= DealBudget(x, c))'
  <2> SUFFICES ASSUME NEW x \in Epochs, NEW c \in Terms PROVE Used(x, c)' <= DealBudget(x, c)'
    OBVIOUS
  <2>1. CASE x \notin rolledOver
    <3>1. reserved'[x][c] <= DealBudget(x, c)'
      BY <1>2 DEF LPState, ReserveInv
    <3> QED BY <1>2, <1>10, <2>1, <3>1
  <2>2. CASE x \in rolledOver
    <3>1. DealBudget(x, c)' = DealBudget(x, c)
      BY <1>2 DEF DealBudget, DealsTotal
    <3>2. Used(x, c) <= DealBudget(x, c) /\ Used(x, c) \in Int
      BY <1>1, UsedIs DEF DealsInv
    <3>3. x = e => n = 0
      BY <1>3, <2>2
    <3>4. Used(x, c)' = Used(x, c)
      BY <1>8, <3>2, <3>3
    <3> QED BY <3>1, <3>2, <3>4
  <2> QED BY <2>1, <2>2
<1>12. \A x \in Deals : (Funded(x) => deals[x].lender \in Owners /\ deals[x].borrower \in Owners)'
  BY <1>1, <1>3 DEF DealsInv, Funded
<1>13. \A x \in Deals : (regs[x].registered => Funded(x) /\ Launched)'
  BY <1>1, <1>2, <1>3, <1>5 DEF DealsInv, Funded, Launched
<1>14. \A x \in Deals : (~ regs[x].registered => regs[x].lender = 0 /\ regs[x].borrower = 0)'
  BY <1>1, <1>5, <1>6 DEF DealsInv
<1>15. PartiesHaveTheirDrips'
  <2> DEFINE g == Grants(d, l, b)
             start == Max({deals[d].fundedAt, launchAt})
  <2>2. \A a : DealDrip(d, a) \in DOMAIN g <=> a \in {deals[d].lender, deals[d].borrower} /\ Given(d, a, l, b) > 0
    BY <1>3, GrantsHave
  <2>3. \A a, x : x # d => DealDrip(x, a) \notin DOMAIN g
    BY <1>3, GrantsHave
  <2>4. \A a : DealDrip(d, a) \in DOMAIN g => g[DealDrip(d, a)] = Given(d, a, l, b)
    BY <1>3, GrantsHave
  <2> HIDE DEF g, start
  <2>1. ASSUME NEW x \in Deals, NEW a \in Owners PROVE PartyFine(x, a)'
    <3>1. PartyFine(x, a) /\ DealDrip(x, a)' = DealDrip(x, a) /\ DealDrip(x, a) \in DripIds
      BY <1>1, PartiesAre, DealDrips DEF DealsInv, DealDrip
    <3>2. CASE x # d
      <4>1. drips'[DealDrip(x, a)] = drips[DealDrip(x, a)]
        <5>1. CASE n = 0
          BY <5>1 DEF Registered, dripVars
        <5>2. CASE n > 0
          <6>1. GrantAll(g, start, LengthOf[TermOf[d]])
            BY <5>2 DEF Registered, g, start
          <6>2. DealDrip(x, a) \notin DOMAIN g
            BY <2>3, <3>2
          <6> QED BY <3>1, <6>1, <6>2 DEF GrantAll
        <5> QED BY <1>3, <5>1, <5>2
      <4>2. regs'[x] = regs[x] /\ deals' = deals /\ launchAt' = launchAt
        BY <1>2, <1>3, <1>5, <3>2
      <4>3. Share(x, a)' = Share(x, a)
        BY <4>2 DEF Share
      <4> QED BY <3>1, <4>1, <4>2, <4>3 DEF PartyFine
    <3>3. CASE x = d
      <4>1. drips[DealDrip(d, a)].total = 0
        BY <1>3, <3>1, <3>3 DEF PartyFine
      <4>2. regs'[d].registered /\ Share(d, a)' = Given(d, a, l, b)
        BY <1>3, <1>6 DEF Share, Given
      <4>3. start = Max({deals'[d].fundedAt, launchAt'})
        BY <1>2, <1>3 DEF start
      <4>4. /\ drips'[DealDrip(d, a)].total = Given(d, a, l, b)
            /\ drips'[DealDrip(d, a)].total > 0 => drips'[DealDrip(d, a)].start = start
        <5>1. CASE n = 0
          <6>1. l = 0 /\ b = 0
            BY <1>3, <5>1
          <6>2. Given(d, a, l, b) = 0
            BY <6>1 DEF Given
          <6>3. drips' = drips
            BY <5>1 DEF Registered, dripVars
          <6> QED BY <4>1, <6>2, <6>3
        <5>2. CASE n > 0
          <6>1. GrantAll(g, start, LengthOf[TermOf[d]])
            BY <5>2 DEF Registered, g, start
          <6>2. CASE DealDrip(d, a) \in DOMAIN g
            <7>1. g[DealDrip(d, a)] = Given(d, a, l, b)
              BY <2>4, <6>2
            <7>2. drips'[DealDrip(d, a)] = [total |-> g[DealDrip(d, a)], start |-> start, length |-> LengthOf[TermOf[d]], claimed |-> 0]
              BY <3>1, <3>3, <6>1, <6>2 DEF GrantAll
            <7> QED BY <7>1, <7>2
          <6>3. CASE DealDrip(d, a) \notin DOMAIN g
            <7>1. ~ (a \in {deals[d].lender, deals[d].borrower} /\ Given(d, a, l, b) > 0)
              BY <2>2, <6>3
            <7>2. Given(d, a, l, b) = 0
              BY <1>3, <7>1 DEF Given
            <7>3. drips'[DealDrip(d, a)] = drips[DealDrip(d, a)]
              BY <3>1, <3>3, <6>1, <6>3 DEF GrantAll
            <7> QED BY <4>1, <7>2, <7>3
          <6> QED BY <6>2, <6>3
        <5> QED BY <1>3, <5>1, <5>2
      <4> QED BY <3>1, <3>3, <4>2, <4>3, <4>4 DEF PartyFine
    <3> QED BY <3>2, <3>3
  <2> QED BY <2>1, PartiesAreNext
<1>16. DealsInv'
  BY <1>10, <1>11, <1>12, <1>13, <1>14, <1>15 DEF DealsInv
<1> QED BY <1>7, <1>16

LEMMA RegisterStep ==
  ASSUME TokenInv, NEW d \in Deals, Register(d)
  PROVE  TokenInv'
<1>1. ReserveType /\ ReserveInv /\ DealsType
  BY DEF TokenInv, LPState
<1>2. PICK e, n, l, b : Registered(d, e, n, l, b)
  BY <1>1, RegisteredIs
<1>3. LPState'
  BY <1>2, RegisterLP
<1>4. DealsType' /\ DealsInv'
  BY <1>2, RegisterDeals
<1> QED BY <1>3, <1>4 DEF TokenInv

(***************************************************************************)
(* The system.                                                             *)
(***************************************************************************)
LEMMA TokenNext ==
  ASSUME TokenInv, [DealRewardsNext]_dealAllVars
  PROVE  TokenInv'
<1>1. ASSUME NEW d \in Deals, NEW parties \in Parties, Fund(d, parties) PROVE TokenInv'
  BY <1>1, FundDeals
<1>2. ASSUME NEW e \in Epochs, NEW r \in RateChoices, SetEpochRates(e, r) PROVE TokenInv'
  BY <1>2, RatesDeals
<1>3. ASSUME NEW d \in Deals, Register(d) PROVE TokenInv'
  BY <1>3, RegisterStep
<1>4. CASE LPNext /\ UNCHANGED dealVars
  BY <1>4, LPStep
<1>5. CASE UNCHANGED dealAllVars
  <2>1. UNCHANGED lpAllVars /\ UNCHANGED dealVars
    BY <1>5 DEF dealAllVars
  <2>2. LPState'
    BY <2>1, LPUntouched DEF TokenInv
  <2>3. UNCHANGED <<dealVars, dripVars, shares, launchAt, rolledOver, reserved>>
    BY <2>1 DEF lpAllVars, emissionVars
  <2>4. DealsType' /\ DealsInv'
    BY <2>3, DealsQuiet DEF TokenInv
  <2> QED BY <2>2, <2>4 DEF TokenInv
<1>6. CASE DealNext
  BY <1>1, <1>2, <1>3, <1>6 DEF DealNext
<1> QED BY <1>4, <1>5, <1>6 DEF DealRewardsNext

\* The books of the reserve, the drips, the positions' rewards and the deals'
\* budgets hold in every state of the token contracts.
THEOREM TokensInvariant == DealSpec => []TokenInv
<1>1. DealInit => TokenInv
  BY DealsStart
<1>2. TokenInv /\ [DealRewardsNext]_dealAllVars => TokenInv'
  BY TokenNext
<1> QED BY <1>1, <1>2, PTL DEF DealSpec

\* The reserve lets out exactly the table's budgets of released and rolled over
\* epochs, and its ceiling (Emissions.sol, an assert) never stops a release or a
\* rollover, whatever the table, the shares set and the order of the calls.
THEOREM ReserveKeepsTable == DealSpec => []ReserveKeepsItsTable
<1>1. TokenInv => ReserveKeepsItsTable
  BY LPStateIs DEF TokenInv
<1> QED BY <1>1, TokensInvariant, PTL

\* Whatever positions and drips are owed, rounding included, is held where it is
\* paid from, or in the reserve of an epoch that has started.
THEOREM OwedStaysHeld == DealSpec => []OwedIsHeld
<1>1. TokenInv => OwedIsHeld
  BY LPStateIs DEF TokenInv
<1> QED BY <1>1, TokensInvariant, PTL

\* What leaves a week's budget for a deal reaches its two parties, once, however
\* deals are registered, epochs released and budgets rolled over.
THEOREM DealsGetTheirBudgets == DealSpec => []BudgetsReachTheParties
<1>1. TokenInv => BudgetsReachTheParties
  BY BudgetsReach DEF TokenInv
<1> QED BY <1>1, TokensInvariant, PTL

(***************************************************************************)
(* Only time earns.  What a position can collect is a function of its      *)
(* record and the accumulators of now (RewardsAt).  A step that updates    *)
(* the pool stores the accumulators of now; one that does not leaves them  *)
(* as they were, a change of shares because it is of an epoch to come.     *)
(***************************************************************************)
RewardsAt(p, e, l) == <<p.emissions + (p.weight * (e - p.ePaid)) \div PRECISION,
                        p.lump + (p.weight * (l - p.lPaid)) \div PRECISION>>

\* What may happen to the rewards of position t.
RewardsStay(t) ==
  \/ Rewards(t)' = Rewards(t)
  \/ pool'.lPer > pool.lPer /\ Rewards(t)'[1] = Rewards(t)[1]
  \/ /\ Rewards(t)' = <<0, 0>>
     /\ sgage'["drip"] - sgage["drip"] = Rewards(t)[1]
     /\ sgage'[People] - sgage[People] = Rewards(t)[2]

EarnedByTime ==
  \/ now' > now \/ launchAt' # launchAt
  \/ UNCHANGED <<shares, pool, pos>>
  \/ \A t \in Tokens : RewardsStay(t)

LEMMA RewardsIs ==
  ASSUME NEW t \in Tokens, pos[t] \in PosRecord
  PROVE  Rewards(t) = RewardsAt(pos[t], GlobalNow.ePer, GlobalNow.lPer)
<1> DEFINE g == GlobalNow
           p == pos[t]
<1>1. Rewards(t) = <<Accrued(p, g).emissions, Accrued(p, g).lump>>
  BY DEF Rewards, Earned
<1> HIDE DEF g, p
<1>2. /\ Accrued(p, g).emissions = p.emissions + (p.weight * (g.ePer - p.ePaid)) \div PRECISION
      /\ Accrued(p, g).lump = p.lump + (p.weight * (g.lPer - p.lPaid)) \div PRECISION
  BY DEF Accrued, PosRecord, p
<1> QED BY <1>1, <1>2 DEF RewardsAt, g, p

LEMMA RewardsPrimed ==
  ASSUME NEW t \in Tokens, pos'[t] \in PosRecord
  PROVE  Rewards(t)' = RewardsAt(pos'[t], GlobalNow'.ePer, GlobalNow'.lPer)
<1> DEFINE g == GlobalNow'
           p == pos'[t]
<1>1. Rewards(t)' = <<Accrued(p, g).emissions, Accrued(p, g).lump>>
  BY DEF Rewards, Earned, Accrued
<1> HIDE DEF g, p
<1>2. /\ Accrued(p, g).emissions = p.emissions + (p.weight * (g.ePer - p.ePaid)) \div PRECISION
      /\ Accrued(p, g).lump = p.lump + (p.weight * (g.lPer - p.lPaid)) \div PRECISION
  BY DEF Accrued, PosRecord, p
<1> QED BY <1>1, <1>2 DEF RewardsAt, g, p

\* What the accumulators of now are.
LEMMA EarnNow ==
  ASSUME LPState
  PROVE  /\ ReserveType /\ PoolRecord(pool) /\ PoolRecord(UpdateGlobal) /\ pos \in [Tokens -> PosRecord]
         /\ GlobalNow.lPer = pool.lPer /\ UpdateGlobal.lPer = pool.lPer
         /\ UpdateGlobal.ePer = GlobalNow.ePer /\ UpdateGlobal.lastUpdate = now
         /\ \A t \in Tokens : PaidUp(pos[t], UpdateGlobal)
<1>1. ReserveType /\ LPInv /\ pos \in [Tokens -> PosRecord]
  BY DEF LPState, LPType
<1>2. /\ PoolRecord(UpdateGlobal) /\ UpdateGlobal.lPer = pool.lPer
      /\ UpdateGlobal.ePer = GlobalNow.ePer /\ UpdateGlobal.lastUpdate = now
      /\ Sound(pos, UpdateGlobal, Budget(now))
  BY <1>1, UpdatedIs
<1>3. pool.lastUpdate <= now /\ Sound(pos, pool, Budget(pool.lastUpdate)) /\ Budget(pool.lastUpdate) \in Int
  BY PoolNow
<1>4. GlobalNow.lPer = pool.lPer
  BY <1>1, <1>3, GlobalIs
<1> QED BY <1>1, <1>2, <1>3, <1>4 DEF Sound

\* A pool updated now: rewards before and after, by the stored accumulators.
LEMMA UpdatedRewards ==
  ASSUME LPState, LPState', now' = now, pool'.lastUpdate = now, pool'.ePer = UpdateGlobal.ePer, NEW t \in Tokens
  PROVE  /\ Rewards(t) = RewardsAt(pos[t], UpdateGlobal.ePer, pool.lPer)
         /\ Rewards(t)' = RewardsAt(pos'[t], UpdateGlobal.ePer, pool'.lPer)
<1>1. pos[t] \in PosRecord /\ pos'[t] \in PosRecord
  BY DEF LPState, LPType
<1>2. GlobalNow' = pool'
  BY DEF GlobalNow
<1>3. GlobalNow.lPer = pool.lPer /\ UpdateGlobal.ePer = GlobalNow.ePer
  BY EarnNow
<1>4. Rewards(t) = RewardsAt(pos[t], UpdateGlobal.ePer, pool.lPer)
  BY <1>1, <1>3, RewardsIs
<1>5. Rewards(t)' = RewardsAt(pos'[t], UpdateGlobal.ePer, pool'.lPer)
  BY <1>1, <1>2, RewardsPrimed
<1> QED BY <1>4, <1>5

\* Settling a position leaves what it can collect; paying it out leaves nothing.
LEMMA SettlingKeeps ==
  ASSUME NEW p, NEW g, PoolRecord(g), PaidUp(p, g), NEW v \in Nat, NEW n \in Nat
  PROVE  /\ RewardsAt(Rechecked(p, g, v), g.ePer, g.lPer) = RewardsAt(p, g.ePer, g.lPer)
         /\ RewardsAt(PaidOut(Accrued(p, g), v, n), g.ePer, g.lPer) = <<0, 0>>
         /\ RewardsAt(p, g.ePer, g.lPer) = <<Accrued(p, g).emissions, Accrued(p, g).lump>>
<1> DEFINE a == Accrued(p, g)
           q == Rechecked(p, g, v)
           r == PaidOut(a, v, n)
<1>1. a \in PosRecord /\ a.ePaid = g.ePer /\ a.lPaid = g.lPer
  BY AccruedIs
<1>2. RewardsAt(p, g.ePer, g.lPer) = <<a.emissions, a.lump>>
  BY DEF RewardsAt, Accrued, PaidUp, PosRecord
<1> HIDE DEF a
<1>3. g.ePer \in Nat /\ g.lPer \in Nat
  BY PoolRecordIs
<1>4. (v * (g.ePer - g.ePer)) \div PRECISION = 0 /\ (v * (g.lPer - g.lPer)) \div PRECISION = 0
  <2>1. \A i \in Nat, x \in Nat : i * (x - x) = 0
    OBVIOUS
  <2>2. \A i \in Nat \ {0} : 0 \div i = 0
    OBVIOUS
  <2>3. v * (g.ePer - g.ePer) = 0 /\ v * (g.lPer - g.lPer) = 0
    BY <1>3, <2>1
  <2> QED BY <2>2, <2>3, TokensFinite
<1>5. q.emissions = a.emissions /\ q.lump = a.lump /\ q.weight = v /\ q.ePaid = g.ePer /\ q.lPaid = g.lPer
  BY <1>1 DEF Rechecked, PosRecord, a
<1>6. r.emissions = 0 /\ r.lump = 0 /\ r.weight = v /\ r.ePaid = g.ePer /\ r.lPaid = g.lPer
  BY <1>1 DEF PaidOut, PosRecord
<1>7. a.emissions \in Nat /\ a.lump \in Nat
  BY <1>1 DEF PosRecord
<1> HIDE DEF q, r
<1>8. RewardsAt(q, g.ePer, g.lPer) = <<a.emissions, a.lump>>
  <2>1. RewardsAt(q, g.ePer, g.lPer) = <<a.emissions + (v * (g.ePer - g.ePer)) \div PRECISION,
                                          a.lump + (v * (g.lPer - g.lPer)) \div PRECISION>>
    BY <1>5 DEF RewardsAt
  <2> QED BY <1>4, <1>7, <2>1
<1>9. RewardsAt(r, g.ePer, g.lPer) = <<0, 0>>
  <2>1. RewardsAt(r, g.ePer, g.lPer) = <<0 + (v * (g.ePer - g.ePer)) \div PRECISION,
                                          0 + (v * (g.lPer - g.lPer)) \div PRECISION>>
    BY <1>6 DEF RewardsAt
  <2> QED BY <1>4, <2>1
<1> QED BY <1>2, <1>8, <1>9 DEF a, q, r

\* The accumulators of now depend on the pool through these fields only, and on
\* the shares of the epochs that have begun.
LEMMA SameGlobal ==
  ASSUME LPState, UNCHANGED <<now, launchAt>>,
         pool'.lastUpdate = pool.lastUpdate, pool'.totalWeight = pool.totalWeight,
         pool'.ePer = pool.ePer, pool'.lPer = pool.lPer, PoolRecord(pool'),
         \A e \in Epochs : Started(e) => EmissionRate(e)' = EmissionRate(e),
         \A e \in Epochs : EmissionRate(e)' \in Int
  PROVE  GlobalNow'.ePer = GlobalNow.ePer /\ GlobalNow'.lPer = GlobalNow.lPer
<1> DEFINE from == Max({pool.lastUpdate, launchAt})
           end == Min({now, EpochStart(WEEKS)})
           f == [e \in Epochs |-> (EmissionRate(e) * Overlap(e, from, end) * PRECISION) \div pool.totalWeight]
           g == [e \in Epochs |-> (EmissionRate(e)' * Overlap(e, from, end) * PRECISION) \div pool.totalWeight]
<1>1. ReserveType /\ PoolRecord(pool) /\ pool.lastUpdate \in Nat /\ now \in Nat /\ pool.lastUpdate <= now
  BY PoolNow DEF LPState
<1>2. \A e : EpochStart(e)' = EpochStart(e)
  BY DEF EpochStart
<1>3. from' = from /\ end' = end /\ Launched' = Launched
  BY <1>2 DEF Launched
<1>4. \A e, x, y : Overlap(e, x, y)' = Overlap(e, x, y)
  BY <1>2 DEF Overlap
<1>5. CASE ~ Launched \/ now <= launchAt \/ now = pool.lastUpdate
  <2>1. GlobalNow = pool /\ GlobalNow' = pool'
    BY <1>3, <1>5 DEF GlobalNow
  <2> QED BY <2>1
<1>6. CASE Launched /\ ~ (now <= launchAt) /\ ~ (now = pool.lastUpdate)
  <2>1. ASSUME NEW e \in Epochs
        PROVE  EmissionRate(e)' * Overlap(e, from, end) = EmissionRate(e) * Overlap(e, from, end)
    <3>1. CASE Started(e)
      BY <3>1
    <3>2. CASE ~ Started(e)
      <4>1. Overlap(e, from, end) = Elapsed(e, now) - Elapsed(e, pool.lastUpdate)
        BY <1>1, <1>6, OverlapIs
      <4>2. now < EpochStart(e) /\ EpochStart(e) \in Nat
        BY <1>1, <1>6, <3>2, EpochStarts DEF Started
      <4>3. Elapsed(e, now) = 0 /\ Elapsed(e, pool.lastUpdate) = 0
        BY <1>1, <4>2 DEF Elapsed
      <4>4. Overlap(e, from, end) = 0
        BY <4>1, <4>3
      <4>5. EmissionRate(e) \in Int /\ EmissionRate(e)' \in Int
        BY <1>1, RateIs
      <4> QED BY <4>4, <4>5
    <3> QED BY <3>1, <3>2
  <2>2. g = f
    BY <2>1
  <2>3. CASE pool.totalWeight > 0
    <3>1. GlobalNow = [pool EXCEPT !.ePer = @ + SumFunction(f)]
      BY <1>6, <2>3 DEF GlobalNow
    <3>2. GlobalNow' = [pool' EXCEPT !.ePer = @ + SumFunction(g)]
      BY <1>3, <1>4, <1>6, <2>3 DEF GlobalNow
    <3> HIDE DEF f, g
    <3>3. GlobalNow.ePer = pool.ePer + SumFunction(f) /\ GlobalNow.lPer = pool.lPer
      BY <1>1, <3>1 DEF PoolRecord
    <3>4. GlobalNow'.ePer = pool'.ePer + SumFunction(g) /\ GlobalNow'.lPer = pool'.lPer
      BY <3>2 DEF PoolRecord
    <3> QED BY <2>2, <3>3, <3>4
  <2>4. CASE ~ (pool.totalWeight > 0)
    <3> DEFINE u == SumFunction([e \in Epochs |-> EmissionRate(e) * Overlap(e, from, end)])
               v == SumFunction([e \in Epochs |-> EmissionRate(e)' * Overlap(e, from, end)])
    <3>1. GlobalNow = [pool EXCEPT !.undistributed = @ + u]
      BY <1>6, <2>4 DEF GlobalNow
    <3>2. GlobalNow' = [pool' EXCEPT !.undistributed = @ + v]
      BY <1>3, <1>4, <1>6, <2>4 DEF GlobalNow
    <3> HIDE DEF u, v
    <3>3. GlobalNow.ePer = pool.ePer /\ GlobalNow.lPer = pool.lPer
      BY <1>1, <3>1 DEF PoolRecord
    <3>4. GlobalNow'.ePer = pool'.ePer /\ GlobalNow'.lPer = pool'.lPer
      BY <3>2 DEF PoolRecord
    <3> QED BY <3>3, <3>4
  <2> QED BY <2>3, <2>4
<1> QED BY <1>5, <1>6

\* A step that leaves positions and accumulators alone leaves the rewards alone.
LEMMA UntouchedEarn ==
  ASSUME LPState, LPState', pos' = pos,
         GlobalNow'.ePer = GlobalNow.ePer, GlobalNow'.lPer = GlobalNow.lPer
  PROVE  EarnedByTime
<1>1. ASSUME NEW t \in Tokens PROVE Rewards(t)' = Rewards(t)
  <2>1. pos[t] \in PosRecord /\ pos'[t] \in PosRecord
    BY DEF LPState, LPType
  <2> QED BY <2>1, RewardsIs, RewardsPrimed
<1> QED BY <1>1 DEF EarnedByTime, RewardsStay

LEMMA SharesEarn ==
  ASSUME LPState, LPState', NEW e \in Epochs, NEW choice \in SharesChoices, SetShares(e, choice),
         UNCHANGED <<now, sgage, dripVars, lpVars>>
  PROVE  EarnedByTime
<1>1. ReserveType /\ ReserveType' /\ PoolRecord(pool)
  BY EarnNow DEF LPState
<1>2. UNCHANGED <<now, launchAt, pool, pos>> /\ ~ Started(e)
  BY DEF SetShares, lpVars
<1>3. \A x \in Epochs \ {e} : LiquidityBudget(x)' = LiquidityBudget(x)
  BY <1>1 DEF SetShares, LiquidityBudget, DealsTotal, ReserveType
<1>4. \A x \in Epochs : Started(x) => EmissionRate(x)' = EmissionRate(x)
  BY <1>2, <1>3 DEF EmissionRate
<1>5. ASSUME NEW x \in Epochs PROVE EmissionRate(x)' \in Int
  <2>1. DealsTotal(x)' \in Int
    <3>1. Weekly[x] \in Nat /\ shares'[x].deal \in Nat /\ BPS \in Nat \ {0}
      BY <1>1, EmissionsAssumption DEF ReserveType
    <3>2. Weekly[x] * shares'[x].deal \in Nat
      BY <3>1, ProductNat
    <3> QED BY <3>1, <3>2, QuotientNat DEF DealsTotal
  <2>2. LiquidityBudget(x)' \in Int
    BY <2>1, EmissionsAssumption DEF LiquidityBudget
  <2>3. EPOCH \in Nat \ {0}
    BY EmissionsAssumption
  <2> QED BY <2>2, <2>3 DEF EmissionRate
<1>6. GlobalNow'.ePer = GlobalNow.ePer /\ GlobalNow'.lPer = GlobalNow.lPer
  BY <1>1, <1>2, <1>4, <1>5, SameGlobal
<1> QED BY <1>2, <1>6, UntouchedEarn

\* A delivery moves the mark of the next epoch only.
LEMMA NotifiedEarn ==
  ASSUME LPState, LPState', UNCHANGED <<now, launchAt, shares, pos>>, NEW E, pool' = Notified(pool, E)
  PROVE  EarnedByTime
<1>1. ReserveType /\ PoolRecord(pool)
  BY EarnNow
<1>2. /\ PoolRecord(pool') /\ pool'.lastUpdate = pool.lastUpdate /\ pool'.ePer = pool.ePer
      /\ pool'.lPer = pool.lPer /\ pool'.totalWeight = pool.totalWeight
  BY <1>1, NotifiedIs
<1>3. \A x \in Epochs : EmissionRate(x)' = EmissionRate(x)
  BY DEF EmissionRate, LiquidityBudget, DealsTotal
<1>4. \A x \in Epochs : EmissionRate(x)' \in Int
  BY <1>1, <1>3, RateIs
<1>5. GlobalNow'.ePer = GlobalNow.ePer /\ GlobalNow'.lPer = GlobalNow.lPer
  BY <1>2, <1>3, <1>4, SameGlobal
<1> QED BY <1>5, UntouchedEarn

\* A lump or a burn: the accumulator of emissions is stored, that of lumps may grow.
LEMMA UpdatedEarn ==
  ASSUME LPState, LPState', UNCHANGED <<now, pos>>,
         pool'.lastUpdate = now, pool'.ePer = UpdateGlobal.ePer, pool'.lPer >= pool.lPer
  PROVE  EarnedByTime
<1>1. ASSUME NEW t \in Tokens PROVE RewardsStay(t)
  <2>1. /\ Rewards(t) = RewardsAt(pos[t], UpdateGlobal.ePer, pool.lPer)
        /\ Rewards(t)' = RewardsAt(pos[t], UpdateGlobal.ePer, pool'.lPer)
    BY UpdatedRewards
  <2>2. CASE pool'.lPer = pool.lPer
    BY <2>1, <2>2 DEF RewardsStay
  <2>3. CASE pool'.lPer # pool.lPer
    <3>1. pool'.lPer \in Nat /\ pool.lPer \in Nat
      BY PoolRecordIs DEF LPState, LPInv, Sound
    <3>2. pool'.lPer > pool.lPer
      BY <2>3, <3>1
    <3>3. Rewards(t)'[1] = Rewards(t)[1]
      BY <2>1 DEF RewardsAt
    <3> QED BY <3>2, <3>3 DEF RewardsStay
  <2> QED BY <2>2, <2>3
<1> QED BY <1>1 DEF EarnedByTime

LEMMA LumpIs ==
  ASSUME NEW g, PoolRecord(g), NEW amount \in Nat
  PROVE  /\ Lump(g, amount).lastUpdate = g.lastUpdate /\ Lump(g, amount).ePer = g.ePer
         /\ Lump(g, amount).lPer >= g.lPer
<1>1. g.totalWeight \in Nat /\ g.lPer \in Nat
  BY PoolRecordIs
<1>2. CASE g.totalWeight = 0
  BY <1>1, <1>2 DEF Lump, PoolRecord
<1>3. CASE g.totalWeight # 0
  <2> DEFINE j == (amount * PRECISION) \div g.totalWeight
  <2>1. j \in Nat
    <3>1. amount * PRECISION \in Nat
      BY TokensFinite, ProductNat
    <3> QED BY <1>1, <1>3, <3>1, QuotientNat
  <2>2. Lump(g, amount) = [g EXCEPT !.lPer = @ + j]
    BY <1>3 DEF Lump
  <2> HIDE DEF j
  <2> QED BY <1>1, <2>1, <2>2 DEF PoolRecord
<1> QED BY <1>2, <1>3

LEMMA LumpEarn ==
  ASSUME LPState, LPState', UNCHANGED <<now, pos>>, NEW amount \in Nat, pool' = Lump(UpdateGlobal, amount)
  PROVE  EarnedByTime
<1> DEFINE g == UpdateGlobal
<1>1. PoolRecord(g) /\ g.lPer = pool.lPer /\ g.lastUpdate = now
  BY EarnNow
<1>2. pool' = Lump(g, amount)
  OBVIOUS
<1> HIDE DEF g
<1>3. pool'.lastUpdate = now /\ pool'.ePer = g.ePer /\ pool'.lPer >= pool.lPer
  BY <1>1, <1>2, LumpIs
<1> QED BY <1>3, UpdatedEarn DEF g

LEMMA RolloverEarn ==
  ASSUME LPState, LPState', NEW e \in Epochs, Rollover(e)
  PROVE  EarnedByTime
<1> DEFINE amount == Remaining(e, "TERM7") + Remaining(e, "TERM21")
<1>1. /\ pool' = (IF amount > 0 THEN Lump(UpdateGlobal, amount) ELSE pool)
      /\ UNCHANGED <<now, pos, shares>>
  BY DEF Rollover, RolloverOut
<1>2. amount \in Nat
  <2>1. Remaining(e, "TERM7") \in Nat /\ Remaining(e, "TERM21") \in Nat
    BY LetOut, TermsAre DEF LPState
  <2> QED BY <2>1
<1> HIDE DEF amount
<1>3. CASE amount > 0
  <2>1. pool' = Lump(UpdateGlobal, amount)
    BY <1>1, <1>3
  <2> QED BY <1>1, <1>2, <2>1, LumpEarn
<1>4. CASE ~ (amount > 0)
  BY <1>1, <1>4 DEF EarnedByTime
<1> QED BY <1>3, <1>4

LEMMA BurnEarn ==
  ASSUME LPState, LPState', BurnUndistributed
  PROVE  EarnedByTime
<1> DEFINE g == UpdateGlobal
           h == [g EXCEPT !.undistributed = 0]
<1>1. pool' = Ensured(h) /\ UNCHANGED <<now, pos>>
  BY DEF BurnUndistributed
<1>2. PoolRecord(g) /\ g.lPer = pool.lPer /\ g.lastUpdate = now
  BY EarnNow
<1> HIDE DEF g
<1>3. PoolRecord(h) /\ h.lPer = g.lPer /\ h.ePer = g.ePer /\ h.lastUpdate = now
  BY <1>2 DEF PoolRecord
<1> HIDE DEF h
<1>4. pool'.lastUpdate = now /\ pool'.ePer = g.ePer /\ pool'.lPer = pool.lPer
  BY <1>1, <1>2, <1>3, EnsuredIs
<1>5. pool.lPer \in Nat
  BY EarnNow, PoolRecordIs
<1>6. pool'.lPer >= pool.lPer
  BY <1>4, <1>5
<1> QED BY <1>1, <1>4, <1>6, UpdatedEarn DEF g

\* A checkpoint stores in the record what the position had earned.
LEMMA CheckpointEarn ==
  ASSUME LPState, LPState', now' = now, NEW S \in SUBSET Tokens, NEW g, Checkpoint(S, g),
         PoolRecord(g), g.lastUpdate = now, g.ePer = UpdateGlobal.ePer, g.lPer = pool.lPer
  PROVE  EarnedByTime
<1>1. /\ pool'.lastUpdate = g.lastUpdate /\ pool'.ePer = g.ePer /\ pool'.lPer = g.lPer
  BY DEF Checkpoint, PoolRecord
<1>2. ASSUME NEW t \in Tokens PROVE Rewards(t)' = Rewards(t)
  <2>1. /\ Rewards(t) = RewardsAt(pos[t], g.ePer, g.lPer)
        /\ Rewards(t)' = RewardsAt(pos'[t], g.ePer, g.lPer)
    BY <1>1, UpdatedRewards
  <2>2. CASE t \notin S
    <3>1. pos'[t] = pos[t]
      BY <2>2 DEF Checkpoint
    <3> QED BY <2>1, <3>1
  <2>3. CASE t \in S
    <3> DEFINE v == NewWeight(t, g)
    <3>1. pos'[t] = Rechecked(pos[t], g, v)
      BY <2>3 DEF Checkpoint, Rechecked
    <3>2. v \in Nat
      BY DEF NewWeight, LPState, LPType
    <3>3. PaidUp(pos[t], g)
      <4>1. PaidUp(pos[t], UpdateGlobal) /\ UpdateGlobal.lPer = pool.lPer
        BY EarnNow
      <4> QED BY <4>1 DEF PaidUp
    <3> HIDE DEF v
    <3>4. RewardsAt(Rechecked(pos[t], g, v), g.ePer, g.lPer) = RewardsAt(pos[t], g.ePer, g.lPer)
      BY <3>2, <3>3, SettlingKeeps
    <3> QED BY <2>1, <3>1, <3>4
  <2> QED BY <2>2, <2>3
<1> QED BY <1>2 DEF EarnedByTime, RewardsStay

LEMMA PositionsEarn ==
  ASSUME LPState, LPState',
         \/ \E S \in SUBSET Minted \ {{}} : CheckpointMany(S)
         \/ \E t \in Minted :
              \/ \E v \in Values, recorded \in BOOLEAN : ChangeLiquidity(t, v, recorded)
              \/ \E to \in Owners \cup {FLOOR} : TransferNFT(t, to)
              \/ SetSeed(t)
  PROVE  EarnedByTime
<1> DEFINE h == UpdateGlobal
<1>1. Minted \in SUBSET Tokens
  BY LPAssumption
<1>2. PoolRecord(h) /\ h.lastUpdate = now /\ h.lPer = pool.lPer
  BY EarnNow
<1>3. ASSUME NEW S \in SUBSET Minted \ {{}}, CheckpointMany(S) PROVE EarnedByTime
  <2>1. now' = now /\ Checkpoint(S, UpdateGlobal) /\ S \in SUBSET Tokens
    BY <1>1, <1>3 DEF CheckpointMany
  <2> QED BY <1>2, <2>1, CheckpointEarn
<1>4. ASSUME NEW t \in Minted, NEW v \in Values, NEW recorded \in BOOLEAN, ChangeLiquidity(t, v, recorded)
      PROVE  EarnedByTime
  <2>1. now' = now /\ UNCHANGED emissionVars /\ {t} \in SUBSET Tokens
    BY <1>1, <1>4 DEF ChangeLiquidity
  <2>2. CASE recorded
    <3>1. Checkpoint({t}, UpdateGlobal)
      BY <1>4, <2>2 DEF ChangeLiquidity
    <3> QED BY <1>2, <2>1, <3>1, CheckpointEarn
  <2>3. CASE ~ recorded
    <3>1. UNCHANGED <<shares, pool, pos>>
      BY <1>4, <2>1, <2>3 DEF ChangeLiquidity, emissionVars
    <3> QED BY <3>1 DEF EarnedByTime
  <2> QED BY <2>2, <2>3
<1>5. ASSUME NEW t \in Minted, NEW to \in Owners \cup {FLOOR}, TransferNFT(t, to) PROVE EarnedByTime
  BY <1>5 DEF TransferNFT, emissionVars, EarnedByTime
<1>6. ASSUME NEW t \in Minted, SetSeed(t) PROVE EarnedByTime
  <2> DEFINE g == [h EXCEPT !.seed = t]
  <2>1. now' = now /\ Checkpoint({t}, g) /\ {t} \in SUBSET Tokens
    BY <1>1, <1>6 DEF SetSeed
  <2>2. PoolRecord(h) /\ h.lastUpdate = now /\ h.lPer = pool.lPer
    BY <1>2
  <2> HIDE DEF h
  <2>3. PoolRecord(g) /\ g.lastUpdate = now /\ g.ePer = h.ePer /\ g.lPer = pool.lPer
    BY <2>2 DEF PoolRecord
  <2> HIDE DEF g
  <2> QED BY <2>1, <2>3, CheckpointEarn DEF h
<1> QED BY <1>3, <1>4, <1>5, <1>6

LEMMA PeopleGet ==
  ASSUME NEW b \in [Holders -> Int], NEW e \in Int, NEW l \in Int
  PROVE  Paid(Paid(b, "lpRewards", "drip", e), "lpRewards", People, l)[People] = b[People] + l
<1> DEFINE b1 == Paid(b, "lpRewards", "drip", e)
<1>1. b1 \in [Holders -> Int]
  BY TheHolders DEF Paid
<1>2. b1[People] = b[People]
  BY TheHolders DEF Paid
<1> HIDE DEF b1
<1>3. Paid(b1, "lpRewards", People, l)[People] = b1[People] + l
  BY <1>1, TheHolders DEF Paid
<1> QED BY <1>2, <1>3 DEF b1

\* A collect pays all the position has earned: emissions into its drip, lumps out.
LEMMA CollectEarn ==
  ASSUME LPState, LPState', NEW t \in Minted, Collect(t)
  PROVE  EarnedByTime
<1> DEFINE g == UpdateGlobal
           p == Accrued(pos[t], g)
           E == Unreleased(g)
           weight == IF t = g.seed \/ owner[t] = FLOOR THEN 0 ELSE value[t]
           k == IF p.emissions > 0 THEN p.nonce + 1 ELSE p.nonce
           h == [g EXCEPT !.totalWeight = @ + weight - p.weight]
           b0 == Delivered(sgage, E)
           b2 == Paid(Paid(b0, "lpRewards", "drip", p.emissions), "lpRewards", People, p.lump)
<1>1. /\ pool' = Ensured(h) /\ PoolRecord(pool')
      /\ pos' = [pos EXCEPT ![t] = PaidOut(p, weight, k)]
      /\ EnsureReleased(g) /\ Settled(b2) /\ now' = now
  <2>1. PoolRecord(pool')
    BY DEF LPState, LPInv, Sound, PoolRecord
  <2> QED BY <2>1 DEF Collect, PaidOut
<1>2. ReserveType /\ PoolRecord(g) /\ g.lPer = pool.lPer /\ g.lastUpdate = now /\ PaidUp(pos[t], g) /\ t \in Tokens
      /\ pos \in [Tokens -> PosRecord]
  BY EarnNow, LPAssumption
<1>3. weight \in Nat
  BY <1>2 DEF LPState, LPType
<1> HIDE DEF g, weight
<1>4. p \in PosRecord
  BY <1>2, AccruedIs
<1>5. p.emissions \in Nat /\ p.lump \in Nat /\ p.nonce \in Nat /\ k \in Nat
  BY <1>4 DEF PosRecord
<1>6. pool'.lastUpdate = now /\ pool'.ePer = g.ePer /\ pool'.lPer = g.lPer
  <2>1. h.lastUpdate = now /\ h.ePer = g.ePer /\ h.lPer = g.lPer
    BY <1>2 DEF PoolRecord
  <2> HIDE DEF h
  <2>2. /\ Ensured(h).lastUpdate = h.lastUpdate /\ Ensured(h).ePer = h.ePer /\ Ensured(h).lPer = h.lPer
    BY DEF Ensured
  <2> QED BY <1>1, <2>1, <2>2
<1>7. ASSUME NEW u \in Tokens PROVE /\ Rewards(u) = RewardsAt(pos[u], g.ePer, g.lPer)
                                    /\ Rewards(u)' = RewardsAt(pos'[u], g.ePer, g.lPer)
  <2>1. g.ePer = UpdateGlobal.ePer
    BY DEF g
  <2> QED BY <1>1, <1>2, <1>6, <2>1, UpdatedRewards
<1>8. ASSUME NEW u \in Tokens \ {t} PROVE RewardsStay(u)
  <2>1. pos'[u] = pos[u]
    BY <1>1, <1>2
  <2> QED BY <1>7, <2>1 DEF RewardsStay
<1>9. RewardsStay(t)
  <2>1. pos'[t] = PaidOut(p, weight, k)
    BY <1>1, <1>2
  <2> HIDE DEF k
  <2>2. /\ RewardsAt(PaidOut(p, weight, k), g.ePer, g.lPer) = <<0, 0>>
        /\ RewardsAt(pos[t], g.ePer, g.lPer) = <<p.emissions, p.lump>>
    BY <1>2, <1>3, <1>5, SettlingKeeps
  <2>3. Rewards(t)' = <<0, 0>> /\ Rewards(t) = <<p.emissions, p.lump>>
    BY <1>2, <1>7, <2>1, <2>2
  <2>4. E \in SUBSET Epochs
    BY <1>1, UnreleasedIn
  <2> HIDE DEF p, E
  <2>5. b0 \in [Holders -> Int] /\ b0["drip"] = sgage["drip"] /\ sgage \in [Holders -> Int] /\ LiquidityOf(E) \in Nat
    BY <1>2, <2>4, DeliveredIs
  <2>6. b0[People] = sgage[People]
    BY <2>5, TheHolders DEF Delivered, Paid
  <2> HIDE DEF b0
  <2>7. p.emissions \in Int /\ p.lump \in Int
    BY <1>5
  <2>8. b2 \in [Holders -> Int] /\ b2["drip"] = b0["drip"] + p.emissions
    BY <2>5, <2>7, CollectedIs
  <2>9. b2[People] = b0[People] + p.lump
    BY <2>5, <2>7, PeopleGet
  <2> HIDE DEF b2
  <2>10. sgage' = b2
    BY <1>1, <2>8, SettledIs
  <2>11. sgage["drip"] \in Int /\ sgage[People] \in Int
    BY <2>5, TheHolders
  <2>12. sgage'["drip"] - sgage["drip"] = p.emissions /\ sgage'[People] - sgage[People] = p.lump
    BY <2>5, <2>6, <2>7, <2>8, <2>9, <2>10, <2>11
  <2>13. Rewards(t)[1] = p.emissions /\ Rewards(t)[2] = p.lump
    BY <2>3
  <2> QED BY <2>3, <2>12, <2>13 DEF RewardsStay
<1> QED BY <1>8, <1>9 DEF EarnedByTime

LEMMA LPEarn ==
  ASSUME LPState, LPState', LPNext
  PROVE  EarnedByTime
<1>1. ASSUME NEW at \in LaunchTimes, Launch(at), UNCHANGED <<now, sgage, dripVars, lpVars>> PROVE EarnedByTime
  BY <1>1 DEF Launch, lpVars, EarnedByTime
<1>2. CASE OwnerNext
  BY <1>1, <1>2, SharesEarn DEF OwnerNext
<1>3. ASSUME NEW e \in Epochs, Release(e) PROVE EarnedByTime
  <2>1. UNCHANGED <<now, launchAt, shares, pos>> /\ pool' = Notified(pool, {e})
    BY <1>3 DEF Release, ReleaseOut
  <2> QED BY <2>1, NotifiedEarn
<1>4. ASSUME NEW e \in Epochs, Rollover(e) PROVE EarnedByTime
  BY <1>4, RolloverEarn
<1>5. CASE Finalize /\ UNCHANGED <<now, dripVars, lpVars>>
  BY <1>5 DEF Finalize, emissionVars, lpVars, EarnedByTime
<1>6. ASSUME \/ \E S \in SUBSET Minted \ {{}} : CheckpointMany(S)
             \/ \E t \in Minted :
                  \/ \E v \in Values, recorded \in BOOLEAN : ChangeLiquidity(t, v, recorded)
                  \/ \E to \in Owners \cup {FLOOR} : TransferNFT(t, to)
                  \/ SetSeed(t)
      PROVE  EarnedByTime
  BY <1>6, PositionsEarn
<1>7. ASSUME NEW t \in Minted, Collect(t) PROVE EarnedByTime
  BY <1>7, CollectEarn
<1>8. CASE ClaimNext
  BY <1>8 DEF ClaimNext, emissionVars, lpVars, EarnedByTime
<1>9. ASSUME NEW amount \in Lumps, NotifyLump(amount) PROVE EarnedByTime
  <2>1. amount \in Nat /\ UNCHANGED <<now, pos>> /\ pool' = Lump(UpdateGlobal, amount)
    BY <1>9, LPAssumption DEF NotifyLump
  <2> QED BY <2>1, LumpEarn
<1>10. CASE BurnUndistributed
  BY <1>10, BurnEarn
<1>11. CASE Tick
  BY <1>11 DEF Tick, emissionVars, lpVars, EarnedByTime
<1>12. CASE EmissionsNext
  BY <1>2, <1>3, <1>4, <1>5, <1>12 DEF EmissionsNext
<1>13. CASE PositionsNext
  BY <1>6, <1>7, <1>13 DEF PositionsNext
<1> QED BY <1>8, <1>9, <1>10, <1>11, <1>12, <1>13 DEF LPNext

LEMMA DealsEarn ==
  ASSUME TokenInv, TokenInv', DealNext
  PROVE  EarnedByTime
<1>1. LPState /\ LPState' /\ ReserveType /\ ReserveInv /\ DealsType
  BY DEF TokenInv, LPState
<1>2. ASSUME NEW d \in Deals, NEW parties \in Parties, Fund(d, parties) PROVE EarnedByTime
  BY <1>2 DEF Fund, lpAllVars, emissionVars, lpVars, EarnedByTime
<1>3. ASSUME NEW e \in Epochs, NEW r \in RateChoices, SetEpochRates(e, r) PROVE EarnedByTime
  BY <1>3 DEF SetEpochRates, lpAllVars, emissionVars, lpVars, EarnedByTime
<1>4. ASSUME NEW d \in Deals, Register(d) PROVE EarnedByTime
  <2>1. PICK e, n, l, b : Registered(d, e, n, l, b)
    BY <1>1, <1>4, RegisteredIs
  <2>2. UNCHANGED <<now, launchAt, shares, pos>> /\ pool' = Notified(pool, {e} \cap (Epochs \ released))
    BY <2>1 DEF Registered, ReleaseOut
  <2> QED BY <1>1, <2>2, NotifiedEarn
<1> QED BY <1>2, <1>3, <1>4 DEF DealNext

LEMMA TimeEarns ==
  ASSUME TokenInv, TokenInv', [DealRewardsNext]_dealAllVars
  PROVE  [EarnedByTime]_lpAllVars
<1>1. CASE LPNext
  BY <1>1, LPEarn DEF TokenInv
<1>2. CASE DealNext
  BY <1>2, DealsEarn
<1>3. CASE UNCHANGED dealAllVars
  BY <1>3 DEF dealAllVars
<1> QED BY <1>1, <1>2, <1>3 DEF DealRewardsNext

\* Only time and lumps earn: no checkpoint, change of liquidity, transfer, sale,
\* release, rollover, registration or change of shares moves what a position can
\* collect, a lump adds to its lumps only, and a collect pays it in full.
THEOREM OnlyTimePays == DealSpec => OnlyTimeEarns
<1> DEFINE step == \/ now' > now \/ launchAt' # launchAt
                   \/ UNCHANGED <<shares, pool, pos>>
                   \/ \A t \in Tokens :
                        LET before == Rewards(t)
                            after == Rewards(t)'
                        IN  \/ after = before
                            \/ pool'.lPer > pool.lPer /\ after[1] = before[1]
                            \/ /\ after = <<0, 0>>
                               /\ sgage'["drip"] - sgage["drip"] = before[1]
                               /\ sgage'[People] - sgage[People] = before[2]
<1>1. TokenInv /\ TokenInv' /\ [DealRewardsNext]_dealAllVars => [step]_lpAllVars
  BY TimeEarns DEF EarnedByTime, RewardsStay
<1>2. OnlyTimeEarns <=> [][step]_lpAllVars
  BY DEF OnlyTimeEarns
<1> HIDE DEF step
<1> QED BY <1>1, <1>2, TokensInvariant, PTL DEF DealSpec
=============================================================================
