------------------------- MODULE HybridOperatorProofs -------------------------
(***************************************************************************)
(* What the operators of HybridVault write and what they keep, for any     *)
(* number of holders, listings, lanes and tokens, any amounts, prices and  *)
(* reserve rates.                                                          *)
(*                                                                         *)
(* The strategy's storage is one record of some fifty fields.  For every   *)
(* internal operation one lemma (...Does) says which fields it writes and  *)
(* that the others stay.  The invariant is a conjunction of books, each a  *)
(* predicate of a few fields; an operation keeps the books it does not     *)
(* write by a frame lemma, and the others by arithmetic on sums.           *)
(***************************************************************************)
EXTENDS HybridVault, SumTheorems

Fields ==
  {"paused", "feeBps", "weight", "cap", "epoch", "approvedPrincipal", "approvals",
   "cash", "reserveShares", "performing", "overduePrincipal", "lockedProfit", "unlockStart", "unlockEnd",
   "harvested", "assigned", "feeAccrued", "highWater", "supply", "balance", "lockedShares",
   "requests", "head", "pendingShares", "claimable", "claimableTotal", "snapshots", "snapshotCount",
   "loanSnapshot", "loanSnapshotSupply", "pockets", "pocketClaimed", "pocketLiability",
   "accPerShare", "orphan", "accounted", "liability", "observed", "index", "owed",
   "funded", "terminal", "withdrawn", "overdue", "openLoans", "slots", "position", "loanFee",
   "lanePrincipal", "borrowerPrincipal"}

Shape(w) ==
  /\ DOMAIN w = {"v", "core", "held"}
  /\ DOMAIN w.v = Fields /\ w.v = [f \in Fields |-> w.v[f]]
  /\ DOMAIN w.core = {"deal", "credit", "reward", "recovered", "paid"}

\* V2 differs from V in none of the fields F.
Same(V2, V, F) == \A f \in F : V2[f] = V[f]

(***************************************************************************)
(* The books, each with the fields it reads.  V is the storage, C what the *)
(* loan engine records and H the token balances.                           *)
(***************************************************************************)
PolicyFields == {"paused", "feeBps", "weight", "cap", "epoch", "approvedPrincipal", "approvals"}
PolicyOk(V) ==
  /\ V.paused \in BOOLEAN /\ V.feeBps \in 0 .. BPS /\ V.weight \in [Lanes -> 0 .. BPS]
  /\ V.cap \in Nat /\ V.epoch \in Nat
  /\ V.approvals \in [Deals -> [validUntil : Nat, principal : Nat, epoch : Nat, units : 0 .. UNITS]]
  /\ \A d \in Deals : V.approvals[d].epoch <= V.epoch
  /\ V.approvedPrincipal = SumOver({d \in Deals : V.approvals[d].epoch = V.epoch},
                                   [d \in Deals |-> V.approvals[d].principal])

MoneyFields ==
  {"cash", "feeAccrued", "claimable", "claimableTotal", "harvested", "assigned", "pocketLiability"}
Claims(V) ==
  V.cash + V.feeAccrued + V.claimableTotal + V.pocketLiability["USDG"] + V.harvested - V.assigned
MoneyOk(V, H) ==
  /\ V.cash \in Nat /\ V.feeAccrued \in Nat /\ V.harvested \in Nat /\ V.assigned \in Nat
  /\ V.claimable \in [Holders -> Nat] /\ V.claimableTotal = SumHolders(V.claimable)
  /\ V.assigned <= V.harvested
  /\ Claims(V) <= H["USDG"]

PromiseFields == {"pocketLiability"}
PromiseOk(V, H) ==
  /\ V.pocketLiability \in [Tokens -> Nat] /\ H \in [Tokens -> Nat]
  /\ \A t \in Tokens : V.pocketLiability[t] <= H[t]

RewardFields ==
  {"accPerShare", "orphan", "accounted", "liability", "observed", "index", "owed",
   "balance", "supply", "pocketLiability"}
\* Rewards that holders have earned and no settlement has credited, times REWARD_PRECISION.
Unsettled(V) == SumHolders([h \in Holders |-> V.balance[h] * (V.accPerShare - V.index[h])])
\* Rewards of loans that were announced to the holders and are still at the loan engine.
Announced(V, C) == SumOver(Deals, [d \in Deals |-> Atmost(V.observed[d], C.reward[d])])
RewardTypes(V) ==
  /\ V.accPerShare \in Nat /\ V.orphan \in Nat /\ V.accounted \in Nat /\ V.liability \in Nat
  /\ V.observed \in [Deals -> Nat] /\ V.index \in [Holders -> Nat] /\ V.owed \in [Holders -> Nat]
  /\ \A h \in Holders : V.index[h] <= V.accPerShare
\* Holders may claim no more than was promised.
RewardCore(V) ==
  /\ RewardTypes(V)
  /\ V.liability = SumHolders(V.owed)
  /\ REWARD_PRECISION * V.liability + Unsettled(V) <= REWARD_PRECISION * V.accounted
RewardOk(V, C, H) ==
  /\ RewardCore(V)
  /\ V.accounted + V.orphan + V.pocketLiability["SGAGE"] <= H["SGAGE"] + Announced(V, C)

LoanFields ==
  {"performing", "overduePrincipal", "funded", "terminal", "withdrawn", "overdue", "openLoans", "slots",
   "position", "loanFee", "lanePrincipal", "borrowerPrincipal"}
Live(V) == V.funded \ V.terminal
Borrowers == {Terms[d].borrower : d \in Deals}
LoanTypes(V) ==
  /\ V.funded \subseteq Deals /\ V.withdrawn \subseteq Deals
  /\ V.terminal \subseteq V.funded /\ V.overdue \subseteq V.funded
  /\ V.openLoans \in Seq(Deals) /\ ToSet(V.openLoans) \subseteq V.funded /\ V.slots \in [Deals -> SUBSET Slots]
  /\ V.position \in [Deals -> Nat] /\ V.loanFee \in [Deals -> 0 .. BPS]
  /\ V.lanePrincipal \in [Lanes -> Nat] /\ V.borrowerPrincipal \in [Borrowers -> Nat]
\* A position is carried at the principal of the units it was taken with.
AtPrincipal(V) == \A d \in V.funded : V.position[d] = Share(Terms[d].principal, V.slots[d])
LoanOk(V) ==
  /\ LoanTypes(V) /\ AtPrincipal(V)
  /\ V.performing = SumOver(Live(V) \ V.overdue, V.position)
  /\ V.overduePrincipal = SumOver(Live(V) \cap V.overdue, V.position)
  /\ \A l \in Lanes : V.lanePrincipal[l] = SumOver({d \in Live(V) : Terms[d].lane = l}, V.position)
  /\ \A b \in Borrowers :
       V.borrowerPrincipal[b] = SumOver({d \in Live(V) : Terms[d].borrower = b}, V.position)
\* The list a checkpoint walks is exactly the loans it has not retired.
ListOk(V) == IsInjective(V.openLoans) /\ ToSet(V.openLoans) = Live(V)

PriceFields == {"lockedProfit", "unlockStart", "unlockEnd", "highWater", "reserveShares"}
PriceOk(V) ==
  /\ V.lockedProfit \in Nat /\ V.unlockEnd \in Nat /\ V.highWater \in Nat /\ V.reserveShares \in Nat
  /\ V.unlockStart \in 0 .. now

StockFields == {"supply", "balance", "lockedShares", "requests", "head", "pendingShares"}
Asked(V, h) ==
  SumOver({id \in DOMAIN V.requests : V.requests[id].owner = h}, [id \in DOMAIN V.requests |-> V.requests[id].shares])
StockOk(V) ==
  /\ V.supply \in Nat /\ V.balance \in [Holders -> Nat] /\ V.lockedShares \in [Holders -> Nat]
  /\ V.requests \in Seq([owner : Holders, shares : Nat]) /\ V.head \in Nat \ {0}
  /\ V.supply = SumHolders(V.balance) /\ V.pendingShares = SumHolders(V.lockedShares)
  /\ \A h \in Holders : V.lockedShares[h] = Asked(V, h)
LocksFit(V) == \A h \in Holders : V.lockedShares[h] <= V.balance[h]
\* Nothing before n still waits, and n is at most the next request.
Passed(V, n) == n \in 1 .. Len(V.requests) + 1 /\ \A id \in DOMAIN V.requests : id < n => V.requests[id].shares = 0

RecordFields == {"snapshots", "snapshotCount", "loanSnapshot", "loanSnapshotSupply", "balance", "overdue"}
\* The balance of record, of the storage alone.
BalAt(V, h, s) ==
  LET later == {i \in DOMAIN V.snapshots[h] : V.snapshots[h][i].id >= s}
  IN  IF s = 0 \/ later = {} THEN V.balance[h] ELSE V.snapshots[h][Min(later)].balance
OfRecord(V, s) == SumHolders([h \in Holders |-> BalAt(V, h, s)])
RecordTypes(V) ==
  /\ V.snapshotCount \in Nat
  /\ V.snapshots \in [Holders -> Seq([id : Nat, balance : Nat])]
  /\ \A h \in Holders : \A i \in DOMAIN V.snapshots[h] : V.snapshots[h][i].id <= V.snapshotCount
  /\ V.loanSnapshot \in [Deals -> Nat] /\ V.loanSnapshotSupply \in [Deals -> Nat]
RecordOk(V) ==
  /\ RecordTypes(V)
  /\ \A d \in V.overdue :
       /\ V.loanSnapshot[d] \in 1 .. V.snapshotCount
       /\ OfRecord(V, V.loanSnapshot[d]) = V.loanSnapshotSupply[d]

PocketFields == {"pockets", "pocketClaimed", "pocketLiability", "snapshots", "snapshotCount", "balance"}
PocketType == [deal : Deals, token : Tokens, amount : Nat, claimed : Nat, supply : Nat, snapshot : Nat]
Slice0(V, p, h) == (V.pockets[p].amount * BalAt(V, h, V.pockets[p].snapshot)) \div V.pockets[p].supply
PaidOut(V, p) == SumOver({h \in Holders : <<p, h>> \in V.pocketClaimed}, [h \in Holders |-> Slice0(V, p, h)])
Unpaid(V, t) ==
  SumOver({p \in DOMAIN V.pockets : V.pockets[p].token = t},
          [p \in DOMAIN V.pockets |-> V.pockets[p].amount - V.pockets[p].claimed])
PocketOk(V) ==
  /\ V.pockets \in Seq(PocketType) /\ V.pocketClaimed \subseteq (DOMAIN V.pockets) \X Holders
  /\ \A p \in DOMAIN V.pockets :
       /\ V.pockets[p].snapshot \in 1 .. V.snapshotCount
       /\ OfRecord(V, V.pockets[p].snapshot) = V.pockets[p].supply
       /\ V.pockets[p].claimed = PaidOut(V, p) /\ V.pockets[p].claimed <= V.pockets[p].amount
  /\ \A t \in Tokens : V.pocketLiability[t] = Unpaid(V, t)

EndFields == {"terminal", "withdrawn", "overdue"}
Final == {"REPAID", "DEFAULTED", "CANCELLED"}
Late(C, d) ==
  \/ C.deal[d].state = "DEFAULTED"
  \/ C.deal[d].state = "REPAID" /\ C.deal[d].fundedAt # 0 /\ C.deal[d].closedAt >= C.deal[d].fundedAt + Terms[d].term
\* A retired loan that was not taken back has ended, and if late it was written down.
EndOk(V, C) ==
  \A d \in V.terminal \ V.withdrawn : C.deal[d].state \in Final /\ (Late(C, d) => d \in V.overdue)

Stages == {"FUNDING", "ACTIVE", "REPAID", "DEFAULTED", "CANCELLED"}
DealType ==
  [state : Stages, fundedAt : Nat, closedAt : Nat, mine : SUBSET Slots, others : SUBSET Slots]
CoreOk(C) ==
  /\ C.deal \in [Deals -> DealType] /\ C.credit \in Nat /\ C.reward \in [Deals -> Nat]

\* The clock and the reserve are what the code takes them for.
EnvOk == now \in Nat /\ reserve.rate \in Nat \ {0} /\ reserve.limit \in Nat

\* What every internal operation keeps.
Sound(w) ==
  /\ Shape(w) /\ CoreOk(w.core)
  /\ PolicyOk(w.v) /\ MoneyOk(w.v, w.held) /\ PromiseOk(w.v, w.held) /\ RewardOk(w.v, w.core, w.held)
  /\ LoanOk(w.v) /\ PriceOk(w.v) /\ StockOk(w.v) /\ RecordOk(w.v) /\ PocketOk(w.v) /\ EndOk(w.v, w.core)

\* What holds between two transactions.
Good(w) == Sound(w) /\ ListOk(w.v) /\ LocksFit(w.v) /\ Passed(w.v, w.v.head)

\* No balance of record of an earlier write-down differs.
Kept(V2, V) ==
  /\ V.overdue \subseteq V2.overdue /\ V.snapshotCount <= V2.snapshotCount
  /\ \A d \in V.overdue : V2.loanSnapshot[d] = V.loanSnapshot[d]
  /\ \A h \in Holders, s \in 1 .. V.snapshotCount : BalAt(V2, h, s) = BalAt(V, h, s)

(***************************************************************************)
(* Arithmetic, and the constants.                                          *)
(***************************************************************************)
\* The parameters are the numbers and sets the code takes them for.
LEMMA Parameters ==
  /\ VIRTUAL_SHARES \in Nat \ {0} /\ PRICE_PRECISION \in Nat \ {0} /\ REWARD_PRECISION \in Nat \ {0}
  /\ BPS \in Nat \ {0} /\ PROFIT_UNLOCK \in Nat \ {0} /\ GRACE \in Nat
  /\ "USDG" \in Tokens /\ "SGAGE" \in Tokens
  /\ IsFiniteSet(Holders) /\ IsFiniteSet(Deals)
  /\ \A d \in Deals : Terms[d].principal \in Nat /\ Terms[d].cap \in Nat /\ Terms[d].term \in Nat \ {0}
                      /\ Terms[d].lane \in Lanes /\ Terms[d].borrower \in Borrowers
BY HybridAssumption, HybridInputs DEF Borrowers

\* Products and quotients of amounts.
LEMMA ProductNat == \A a, b \in Nat : a * b \in Nat
OBVIOUS

\* A quotient rounds down.
LEMMA QuotientNat == \A a \in Nat, b \in Nat \ {0} : a \div b \in Nat /\ (a \div b) * b <= a
OBVIOUS

\* A product grows with its factors.
LEMMA ProductGrows == \A a, b, c \in Nat : a <= b => a * c <= b * c
OBVIOUS

\* A part of an amount, in basis points, is no more than the amount.
LEMMA PartOf == \A n \in Nat, s \in 0 .. BPS : (n * s) \div BPS \in 0 .. n
<1>1. BPS \in Nat \ {0}
  BY Parameters
<1>2. SUFFICES ASSUME NEW n \in Nat, NEW s \in 0 .. BPS
               PROVE  (n * s) \div BPS \in 0 .. n
  OBVIOUS
<1>3. n * s \in Nat /\ n * s <= n * BPS
  BY <1>1
<1>4. \A x \in Nat : x \div BPS \in Nat /\ (x <= n * BPS => x \div BPS <= n)
  BY <1>1
<1> QED BY <1>3, <1>4

\* What the units of a listing receive of an amount is a natural number.
LEMMA ShareNat == ASSUME NEW total \in Nat, NEW S PROVE Share(total, S) \in Nat
<1>1. \A i \in 0 .. 3 : Slice(total, i) \in Nat
  BY DEF Slice, UNITS
<1> QED BY <1>1 DEF Share, SumSlots, Slots

\* A sum of naturals over the holders, or over some deals, is a natural.
LEMMA HoldersNat == ASSUME NEW f, \A h \in Holders : f[h] \in Nat PROVE SumHolders(f) \in Nat
BY Parameters, SumType DEF SumHolders, SumOver

\* A sum of amounts over listings is an amount.
LEMMA DealsNat == ASSUME NEW f, NEW S \in SUBSET Deals, \A d \in S : f[d] \in Nat PROVE SumOver(S, f) \in Nat
<1>1. IsFiniteSet(S)
  BY Parameters, FS_Subset
<1> QED BY <1>1, SumType DEF SumOver

(***************************************************************************)
(* Frames.                                                                 *)
(***************************************************************************)
LEMMA SameLess == ASSUME NEW V, NEW V2, NEW F, NEW G, Same(V2, V, G), F \subseteq G PROVE Same(V2, V, F)
BY DEF Same

\* Each book holds where none of its fields is written.
LEMMA PolicyFrame == ASSUME NEW V, NEW V2, Same(V2, V, PolicyFields), PolicyOk(V) PROVE PolicyOk(V2)
<1>1. /\ V2.paused = V.paused /\ V2.feeBps = V.feeBps /\ V2.weight = V.weight /\ V2.cap = V.cap
      /\ V2.epoch = V.epoch /\ V2.approvedPrincipal = V.approvedPrincipal /\ V2.approvals = V.approvals
  BY DEF Same, PolicyFields
<1> QED BY <1>1 DEF PolicyOk

\* The cash and the claims on it.
LEMMA MoneyFrame ==
  ASSUME NEW V, NEW V2, NEW H, Same(V2, V, MoneyFields), MoneyOk(V, H)
  PROVE  MoneyOk(V2, H) /\ Claims(V2) = Claims(V)
<1>1. /\ V2.cash = V.cash /\ V2.feeAccrued = V.feeAccrued /\ V2.claimable = V.claimable
      /\ V2.claimableTotal = V.claimableTotal /\ V2.harvested = V.harvested /\ V2.assigned = V.assigned
      /\ V2.pocketLiability = V.pocketLiability
  BY DEF Same, MoneyFields
<1> QED BY <1>1 DEF MoneyOk, Claims

\* What the pockets owe.
LEMMA PromiseFrame ==
  ASSUME NEW V, NEW V2, NEW H, Same(V2, V, PromiseFields), PromiseOk(V, H) PROVE PromiseOk(V2, H)
BY DEF Same, PromiseFields, PromiseOk

\* The rewards.
LEMMA RewardFrame ==
  ASSUME NEW V, NEW V2, NEW C, NEW H, Same(V2, V, RewardFields), RewardOk(V, C, H) PROVE RewardOk(V2, C, H)
<1>1. /\ V2.accPerShare = V.accPerShare /\ V2.orphan = V.orphan /\ V2.accounted = V.accounted
      /\ V2.liability = V.liability /\ V2.observed = V.observed /\ V2.index = V.index /\ V2.owed = V.owed
      /\ V2.balance = V.balance /\ V2.supply = V.supply /\ V2.pocketLiability = V.pocketLiability
  BY DEF Same, RewardFields
<1>2. Unsettled(V2) = Unsettled(V) /\ Announced(V2, C) = Announced(V, C)
  BY <1>1 DEF Unsettled, Announced
<1> QED BY <1>1, <1>2 DEF RewardOk, RewardCore, RewardTypes

\* The loans.
LEMMA LoanFrame == ASSUME NEW V, NEW V2, Same(V2, V, LoanFields), LoanOk(V) PROVE LoanOk(V2)
<1>1. /\ V2.performing = V.performing /\ V2.overduePrincipal = V.overduePrincipal /\ V2.funded = V.funded
      /\ V2.terminal = V.terminal /\ V2.withdrawn = V.withdrawn /\ V2.overdue = V.overdue
      /\ V2.openLoans = V.openLoans /\ V2.slots = V.slots /\ V2.position = V.position
      /\ V2.loanFee = V.loanFee /\ V2.lanePrincipal = V.lanePrincipal
      /\ V2.borrowerPrincipal = V.borrowerPrincipal
  BY DEF Same, LoanFields
<1>2. Live(V2) = Live(V)
  BY <1>1 DEF Live
<1>3. AtPrincipal(V) => AtPrincipal(V2)
  BY <1>1 DEF AtPrincipal
<1> QED BY <1>1, <1>2, <1>3 DEF LoanOk, LoanTypes

\* What the share price is computed from.
LEMMA PriceFrame == ASSUME NEW V, NEW V2, Same(V2, V, PriceFields), PriceOk(V) PROVE PriceOk(V2)
<1>1. /\ V2.lockedProfit = V.lockedProfit /\ V2.unlockStart = V.unlockStart /\ V2.unlockEnd = V.unlockEnd
      /\ V2.highWater = V.highWater /\ V2.reserveShares = V.reserveShares
  BY DEF Same, PriceFields
<1> QED BY <1>1 DEF PriceOk

\* The shares, the locks and the queue.
LEMMA StockFrame ==
  ASSUME NEW V, NEW V2, Same(V2, V, StockFields)
  PROVE  /\ StockOk(V) => StockOk(V2)
         /\ LocksFit(V) => LocksFit(V2)
         /\ Passed(V, V.head) => Passed(V2, V2.head)
<1>1. /\ V2.supply = V.supply /\ V2.balance = V.balance /\ V2.lockedShares = V.lockedShares
      /\ V2.requests = V.requests /\ V2.head = V.head /\ V2.pendingShares = V.pendingShares
  BY DEF Same, StockFields
<1>2. \A h \in Holders : Asked(V2, h) = Asked(V, h)
  BY <1>1 DEF Asked
<1> QED BY <1>1, <1>2 DEF StockOk, LocksFit, Passed

\* The balances of record are those of the snapshots and the balances.
LEMMA BalAtFrame ==
  ASSUME NEW V, NEW V2, V2.snapshots = V.snapshots, V2.balance = V.balance
  PROVE  \A h \in Holders : \A s : BalAt(V2, h, s) = BalAt(V, h, s)
BY DEF BalAt

\* So is their sum.
LEMMA OfRecordFrame ==
  ASSUME NEW V, NEW V2, V2.snapshots = V.snapshots, V2.balance = V.balance
  PROVE  \A s : OfRecord(V2, s) = OfRecord(V, s)
<1>1. \A h \in Holders : \A s : BalAt(V2, h, s) = BalAt(V, h, s)
  BY BalAtFrame
<1>2. ASSUME NEW s PROVE OfRecord(V2, s) = OfRecord(V, s)
  <2>1. [h \in Holders |-> BalAt(V2, h, s)] = [h \in Holders |-> BalAt(V, h, s)]
    BY <1>1
  <2> QED BY <2>1 DEF OfRecord
<1> QED BY <1>2

\* The snapshots.
LEMMA RecordFrame == ASSUME NEW V, NEW V2, Same(V2, V, RecordFields), RecordOk(V) PROVE RecordOk(V2)
<1>1. /\ V2.snapshots = V.snapshots /\ V2.snapshotCount = V.snapshotCount /\ V2.loanSnapshot = V.loanSnapshot
      /\ V2.loanSnapshotSupply = V.loanSnapshotSupply /\ V2.balance = V.balance /\ V2.overdue = V.overdue
  BY DEF Same, RecordFields
<1>2. \A s : OfRecord(V2, s) = OfRecord(V, s)
  BY <1>1, OfRecordFrame
<1> QED BY <1>1, <1>2 DEF RecordOk, RecordTypes

\* Where the records are not written, what was on record stays.
LEMMA KeptFrame == ASSUME NEW V, NEW V2, Same(V2, V, RecordFields), RecordOk(V) PROVE Kept(V2, V)
<1>1. /\ V2.snapshots = V.snapshots /\ V2.snapshotCount = V.snapshotCount /\ V2.loanSnapshot = V.loanSnapshot
      /\ V2.balance = V.balance /\ V2.overdue = V.overdue
  BY DEF Same, RecordFields
<1>2. \A h \in Holders : \A s : BalAt(V2, h, s) = BalAt(V, h, s)
  BY <1>1, BalAtFrame
<1> QED BY <1>1, <1>2 DEF Kept, RecordOk, RecordTypes

\* What stays on record through two steps stays on record.
LEMMA KeptChain ==
  ASSUME NEW V1, NEW V2, NEW V3, Kept(V2, V1), Kept(V3, V2),
         V1.snapshotCount \in Nat, V2.snapshotCount \in Nat, V3.snapshotCount \in Nat
  PROVE  Kept(V3, V1)
<1>1. 1 .. V1.snapshotCount \subseteq 1 .. V2.snapshotCount /\ V1.snapshotCount <= V3.snapshotCount
  BY DEF Kept
<1>2. ASSUME NEW h \in Holders, NEW s \in 1 .. V1.snapshotCount PROVE BalAt(V3, h, s) = BalAt(V1, h, s)
  BY <1>1 DEF Kept
<1> QED BY <1>1, <1>2 DEF Kept

\* Pockets see no more of the records than the balances of record of their snapshots.
LEMMA PocketKept ==
  ASSUME NEW V, NEW V2, PocketOk(V), Kept(V2, V), V.snapshotCount \in Nat, V2.snapshotCount \in Nat,
         V2.pockets = V.pockets, V2.pocketClaimed = V.pocketClaimed, V2.pocketLiability = V.pocketLiability
  PROVE  PocketOk(V2)
<1>1. ASSUME NEW s \in 1 .. V.snapshotCount PROVE OfRecord(V2, s) = OfRecord(V, s)
  <2>1. [h \in Holders |-> BalAt(V2, h, s)] = [h \in Holders |-> BalAt(V, h, s)]
    BY DEF Kept
  <2> QED BY <2>1 DEF OfRecord
<1>2. ASSUME NEW p \in DOMAIN V.pockets PROVE PaidOut(V2, p) = PaidOut(V, p)
  <2>1. V.pockets[p].snapshot \in 1 .. V.snapshotCount
    BY DEF PocketOk
  <2>2. \A h \in Holders : Slice0(V2, p, h) = Slice0(V, p, h)
    BY <2>1 DEF Slice0, Kept
  <2>3. [h \in Holders |-> Slice0(V2, p, h)] = [h \in Holders |-> Slice0(V, p, h)]
    BY <2>2
  <2> QED BY <2>3 DEF PaidOut
<1>3. \A t \in Tokens : Unpaid(V2, t) = Unpaid(V, t)
  BY DEF Unpaid
<1>4. 1 .. V.snapshotCount \subseteq 1 .. V2.snapshotCount
  BY DEF Kept
<1>5. ASSUME NEW p \in DOMAIN V2.pockets
      PROVE  /\ V2.pockets[p].snapshot \in 1 .. V2.snapshotCount
             /\ OfRecord(V2, V2.pockets[p].snapshot) = V2.pockets[p].supply
             /\ V2.pockets[p].claimed = PaidOut(V2, p) /\ V2.pockets[p].claimed <= V2.pockets[p].amount
  BY <1>1, <1>2, <1>4 DEF PocketOk
<1> QED BY <1>3, <1>5 DEF PocketOk

\* The pockets.
LEMMA PocketFrame ==
  ASSUME NEW V, NEW V2, Same(V2, V, PocketFields), PocketOk(V), V.snapshotCount \in Nat
  PROVE  PocketOk(V2)
<1>1. /\ V2.pockets = V.pockets /\ V2.pocketClaimed = V.pocketClaimed /\ V2.pocketLiability = V.pocketLiability
      /\ V2.snapshots = V.snapshots /\ V2.snapshotCount = V.snapshotCount /\ V2.balance = V.balance
  BY DEF Same, PocketFields
<1>2. \A h \in Holders : \A s : BalAt(V2, h, s) = BalAt(V, h, s)
  BY <1>1, BalAtFrame
<1>3. \A s : OfRecord(V2, s) = OfRecord(V, s)
  BY <1>1, OfRecordFrame
<1>4. ASSUME NEW p \in DOMAIN V.pockets PROVE PaidOut(V2, p) = PaidOut(V, p)
  <2>1. [h \in Holders |-> Slice0(V2, p, h)] = [h \in Holders |-> Slice0(V, p, h)]
    BY <1>1, <1>2 DEF Slice0
  <2> QED BY <2>1, <1>1 DEF PaidOut
<1>5. \A t \in Tokens : Unpaid(V2, t) = Unpaid(V, t)
  BY <1>1 DEF Unpaid
<1> QED BY <1>1, <1>3, <1>4, <1>5 DEF PocketOk

\* What the strategy and the engine agree on of loans that ended.
LEMMA EndFrame == ASSUME NEW V, NEW V2, NEW C, Same(V2, V, EndFields), EndOk(V, C) PROVE EndOk(V2, C)
BY DEF Same, EndFields, EndOk

\* The frames of one operation that writes the fields K, at once.
LEMMA Frames ==
  ASSUME NEW V, NEW V2, NEW K, Same(V2, V, Fields \ K)
  PROVE  /\ PolicyFields \cap K = {} => Same(V2, V, PolicyFields)
         /\ MoneyFields \cap K = {} => Same(V2, V, MoneyFields)
         /\ PromiseFields \cap K = {} => Same(V2, V, PromiseFields)
         /\ RewardFields \cap K = {} => Same(V2, V, RewardFields)
         /\ LoanFields \cap K = {} => Same(V2, V, LoanFields)
         /\ PriceFields \cap K = {} => Same(V2, V, PriceFields)
         /\ StockFields \cap K = {} => Same(V2, V, StockFields)
         /\ RecordFields \cap K = {} => Same(V2, V, RecordFields)
         /\ PocketFields \cap K = {} => Same(V2, V, PocketFields)
         /\ EndFields \cap K = {} => Same(V2, V, EndFields)
<1>1. PolicyFields \subseteq Fields
  BY DEF PolicyFields, Fields
<1>2. MoneyFields \subseteq Fields
  BY DEF MoneyFields, Fields
<1>3. PromiseFields \subseteq Fields
  BY DEF PromiseFields, Fields
<1>4. RewardFields \subseteq Fields
  BY DEF RewardFields, Fields
<1>5. LoanFields \subseteq Fields
  BY DEF LoanFields, Fields
<1>6. PriceFields \subseteq Fields
  BY DEF PriceFields, Fields
<1>7. StockFields \subseteq Fields
  BY DEF StockFields, Fields
<1>8. RecordFields \subseteq Fields
  BY DEF RecordFields, Fields
<1>9. PocketFields \subseteq Fields
  BY DEF PocketFields, Fields
<1>10. EndFields \subseteq Fields
  BY DEF EndFields, Fields
<1> QED BY <1>1, <1>2, <1>3, <1>4, <1>5, <1>6, <1>7, <1>8, <1>9, <1>10 DEF Same

(***************************************************************************)
(* The steps that the model's operators are made of, by name.              *)
(***************************************************************************)
High(w) == w.v.supply # 0 /\ Price(FullAssets(w), w.v.supply) > w.v.highWater
Charge(w, d, profit) ==
  IF High(w)
  THEN (Atmost(profit, ((Price(FullAssets(w), w.v.supply) - w.v.highWater) * w.v.supply) \div PRICE_PRECISION)
        * w.v.loanFee[d]) \div BPS
  ELSE 0

Stale(w, h) ==
  LET s == w.v.snapshots[h]
  IN  w.v.snapshotCount # 0 /\ (s = <<>> \/ Last(s).id < w.v.snapshotCount)
Noted(w, h) ==
  [w EXCEPT !.v.snapshots[h] =
     Append(w.v.snapshots[h], [id |-> w.v.snapshotCount, balance |-> w.v.balance[h]])]
Issued(x, h, shares) == [x EXCEPT !.v = [x.v EXCEPT !.balance[h] = @ + shares, !.supply = @ + shares]]
Retracted(x, h, shares) ==
  [x EXCEPT !.v = [x.v EXCEPT !.balance[h] = @ - shares, !.supply = @ - shares,
                              !.accounted = @ - Dust(x, shares),
                              !.orphan = @ + Dust(x, shares)]]
Collected(x) ==
  [x EXCEPT !.v = [x.v EXCEPT !.harvested = @ + x.core.credit],
            !.core = [x.core EXCEPT !.credit = 0],
            !.held = [x.held EXCEPT !["USDG"] = @ + x.core.credit]]
SetAside(w, amount) == [w EXCEPT !.v.orphan = @ + amount]
Spread(w, amount) ==
  [w EXCEPT !.v = [w.v EXCEPT !.accounted = @ + amount,
                              !.accPerShare = @ + (amount * REWARD_PRECISION) \div w.v.supply]]
Observed(told, d, due) == [told EXCEPT !.v.observed[d] = due]
Fetched(told, d, due) ==
  [told EXCEPT !.v = [told.v EXCEPT !.observed[d] = 0],
               !.core = [told.core EXCEPT !.reward[d] = 0],
               !.held = [told.held EXCEPT !["SGAGE"] = @ + due]]
Written(w, d) ==
  [w EXCEPT !.v = [w.v EXCEPT !.loanSnapshot[d] = w.v.snapshotCount + 1,
                              !.loanSnapshotSupply[d] = w.v.supply,
                              !.snapshotCount = @ + 1,
                              !.overdue = @ \cup {d}, !.performing = @ - w.v.position[d],
                              !.overduePrincipal = @ + w.v.position[d]]]
Taken(w, d, x, token, amount) ==
  [w EXCEPT !.core = [w.core EXCEPT !.paid = @ \cup {<<d, x>>}],
            !.held = [w.held EXCEPT ![token] = @ + amount]]
Opened(w, d) == [w EXCEPT !.core.recovered = @ \cup {d}]
Ended0(w, d, payout) ==
  [w EXCEPT !.v =
     [w.v EXCEPT !.borrowerPrincipal[Terms[d].borrower] = @ - w.v.position[d],
                 !.lanePrincipal[Terms[d].lane] = @ - w.v.position[d],
                 !.overduePrincipal = @ - (w.v.position[d] - Carried(w, d)),
                 !.performing = @ - Carried(w, d),
                 !.assigned = @ + payout,
                 !.terminal = @ \cup {d}]]
Paid(x, payout) == [x EXCEPT !.v.cash = @ + payout]
Approved(w, d, principal, approval) ==
  [w EXCEPT !.v = [w.v EXCEPT !.approvals[d] = approval, !.approvedPrincipal = @ + principal]]

(***************************************************************************)
(* What each operation writes.  In every lemma the fields that are not     *)
(* named stay as they are.                                                 *)
(***************************************************************************)
PayOutWrote(y, w, assets) ==
  /\ Shape(y)
  /\ y.core = w.core
  /\ y.held = [w.held EXCEPT !["USDG"] = w.held["USDG"] + FromReserve(w, assets)]
  /\ y.v.cash = Over(w.v.cash, assets)
  /\ y.v.reserveShares = w.v.reserveShares - Burned(w, assets)
  /\ Same(y.v, w.v, Fields \ {"cash", "reserveShares"})

\* It writes that, and every other field stays.
LEMMA PayOutDoes ==
  ASSUME NEW w, Shape(w), NEW assets
  PROVE  PayOutWrote(PayOut(w, assets), w, assets)
<1> DEFINE a1 == Over(w.v.cash, assets)
           a2 == w.v.reserveShares - Burned(w, assets)
           E == [w.v EXCEPT !.cash = a1, !.reserveShares = a2]
           H == [w.held EXCEPT !["USDG"] = w.held["USDG"] + FromReserve(w, assets)]
           y == PayOut(w, assets)
<1>1. y = [w EXCEPT !.v = E, !.held = H]
  BY DEF PayOut
<1>2. DOMAIN w.v = Fields /\ DOMAIN w = {"v", "core", "held"}
  BY DEF Shape
<1> HIDE DEF a1, a2, H
<1>3. "cash" \in Fields /\ "reserveShares" \in Fields
  BY DEF Fields
<1>4. E.cash = a1 /\ E.reserveShares = a2
  BY <1>2, <1>3
<1>5. DOMAIN E = Fields /\ Same(E, w.v, Fields \ {"cash", "reserveShares"})
  BY <1>2 DEF Same
<1>6. E = [f \in Fields |-> E[f]]
  BY <1>2, Zenon
<1> HIDE DEF y, E
<1>7. DOMAIN y = DOMAIN w /\ y.v = E /\ y.core = w.core /\ y.held = H
  BY <1>1, <1>2
<1> QED
  BY <1>2, <1>4, <1>5, <1>7, <1>6 DEF Shape, y, PayOutWrote, a1, a2, H

\* What SettleRewards writes.
SettleRewardsWrote(y, w, h) ==
  /\ Shape(y)
  /\ y.core = w.core
  /\ y.held = w.held
  /\ y.v.owed = [w.v.owed EXCEPT ![h] = w.v.owed[h] + Accruing(w, h)]
  /\ y.v.index = [w.v.index EXCEPT ![h] = w.v.accPerShare]
  /\ y.v.liability = w.v.liability + Accruing(w, h)
  /\ Same(y.v, w.v, Fields \ {"owed", "index", "liability"})

\* It writes that, and every other field stays.
LEMMA SettleRewardsDoes ==
  ASSUME NEW w, Shape(w), NEW h
  PROVE  SettleRewardsWrote(SettleRewards(w, h), w, h)
<1> DEFINE a1 == [w.v.owed EXCEPT ![h] = w.v.owed[h] + Accruing(w, h)]
           a2 == [w.v.index EXCEPT ![h] = w.v.accPerShare]
           a3 == w.v.liability + Accruing(w, h)
           E == [w.v EXCEPT !.owed = a1, !.index = a2, !.liability = a3]
           y == SettleRewards(w, h)
<1>1. y = [w EXCEPT !.v = E]
  BY DEF SettleRewards
<1>2. DOMAIN w.v = Fields /\ DOMAIN w = {"v", "core", "held"}
  BY DEF Shape
<1> HIDE DEF a1, a2, a3
<1>3. "owed" \in Fields /\ "index" \in Fields /\ "liability" \in Fields
  BY DEF Fields
<1>4. E.owed = a1 /\ E.index = a2 /\ E.liability = a3
  BY <1>2, <1>3
<1>5. DOMAIN E = Fields /\ Same(E, w.v, Fields \ {"owed", "index", "liability"})
  BY <1>2 DEF Same
<1>6. E = [f \in Fields |-> E[f]]
  BY <1>2, Zenon
<1> HIDE DEF y, E
<1>7. DOMAIN y = DOMAIN w /\ y.v = E /\ y.core = w.core /\ y.held = w.held
  BY <1>1, <1>2
<1> QED
  BY <1>2, <1>4, <1>5, <1>7, <1>6 DEF Shape, y, SettleRewardsWrote, a1, a2, a3

\* What Noted writes.
NotedWrote(y, w, h) ==
  /\ Shape(y)
  /\ y.core = w.core
  /\ y.held = w.held
  /\ y.v.snapshots = [w.v.snapshots EXCEPT ![h] = Append(w.v.snapshots[h], [id |-> w.v.snapshotCount,
          balance |-> w.v.balance[h]])]
  /\ Same(y.v, w.v, Fields \ {"snapshots"})

\* It writes that, and every other field stays.
LEMMA NotedDoes ==
  ASSUME NEW w, Shape(w), NEW h
  PROVE  NotedWrote(Noted(w, h), w, h)
<1> DEFINE a1 == [w.v.snapshots EXCEPT ![h] = Append(w.v.snapshots[h], [id |-> w.v.snapshotCount,
        balance |-> w.v.balance[h]])]
           E == [w.v EXCEPT !.snapshots = a1]
           y == Noted(w, h)
<1>1. y = [w EXCEPT !.v = E]
  BY DEF Noted
<1>2. DOMAIN w.v = Fields /\ DOMAIN w = {"v", "core", "held"}
  BY DEF Shape
<1> HIDE DEF a1
<1>3. "snapshots" \in Fields
  BY DEF Fields
<1>4. E.snapshots = a1
  BY <1>2, <1>3
<1>5. DOMAIN E = Fields /\ Same(E, w.v, Fields \ {"snapshots"})
  BY <1>2 DEF Same
<1>6. E = [f \in Fields |-> E[f]]
  BY <1>2, Zenon
<1> HIDE DEF y, E
<1>7. DOMAIN y = DOMAIN w /\ y.v = E /\ y.core = w.core /\ y.held = w.held
  BY <1>1, <1>2
<1> QED
  BY <1>2, <1>4, <1>5, <1>7, <1>6 DEF Shape, y, NotedWrote, a1

\* What Issued writes.
IssuedWrote(y, w, h, shares) ==
  /\ Shape(y)
  /\ y.core = w.core
  /\ y.held = w.held
  /\ y.v.balance = [w.v.balance EXCEPT ![h] = w.v.balance[h] + shares]
  /\ y.v.supply = w.v.supply + shares
  /\ Same(y.v, w.v, Fields \ {"balance", "supply"})

\* It writes that, and every other field stays.
LEMMA IssuedDoes ==
  ASSUME NEW w, Shape(w), NEW h, NEW shares
  PROVE  IssuedWrote(Issued(w, h, shares), w, h, shares)
<1> DEFINE a1 == [w.v.balance EXCEPT ![h] = w.v.balance[h] + shares]
           a2 == w.v.supply + shares
           E == [w.v EXCEPT !.balance = a1, !.supply = a2]
           y == Issued(w, h, shares)
<1>1. y = [w EXCEPT !.v = E]
  BY DEF Issued
<1>2. DOMAIN w.v = Fields /\ DOMAIN w = {"v", "core", "held"}
  BY DEF Shape
<1> HIDE DEF a1, a2
<1>3. "balance" \in Fields /\ "supply" \in Fields
  BY DEF Fields
<1>4. E.balance = a1 /\ E.supply = a2
  BY <1>2, <1>3
<1>5. DOMAIN E = Fields /\ Same(E, w.v, Fields \ {"balance", "supply"})
  BY <1>2 DEF Same
<1>6. E = [f \in Fields |-> E[f]]
  BY <1>2, Zenon
<1> HIDE DEF y, E
<1>7. DOMAIN y = DOMAIN w /\ y.v = E /\ y.core = w.core /\ y.held = w.held
  BY <1>1, <1>2
<1> QED
  BY <1>2, <1>4, <1>5, <1>7, <1>6 DEF Shape, y, IssuedWrote, a1, a2

\* What Retracted writes.
RetractedWrote(y, w, h, shares) ==
  /\ Shape(y)
  /\ y.core = w.core
  /\ y.held = w.held
  /\ y.v.balance = [w.v.balance EXCEPT ![h] = w.v.balance[h] - shares]
  /\ y.v.supply = w.v.supply - shares
  /\ y.v.accounted = w.v.accounted - Dust(w, shares)
  /\ y.v.orphan = w.v.orphan + Dust(w, shares)
  /\ Same(y.v, w.v, Fields \ {"balance", "supply", "accounted", "orphan"})

\* It writes that, and every other field stays.
LEMMA RetractedDoes ==
  ASSUME NEW w, Shape(w), NEW h, NEW shares
  PROVE  RetractedWrote(Retracted(w, h, shares), w, h, shares)
<1> DEFINE a1 == [w.v.balance EXCEPT ![h] = w.v.balance[h] - shares]
           a2 == w.v.supply - shares
           a3 == w.v.accounted - Dust(w, shares)
           a4 == w.v.orphan + Dust(w, shares)
           E == [w.v EXCEPT !.balance = a1, !.supply = a2, !.accounted = a3, !.orphan = a4]
           y == Retracted(w, h, shares)
<1>1. y = [w EXCEPT !.v = E]
  BY DEF Retracted
<1>2. DOMAIN w.v = Fields /\ DOMAIN w = {"v", "core", "held"}
  BY DEF Shape
<1> HIDE DEF a1, a2, a3, a4
<1>3. "balance" \in Fields /\ "supply" \in Fields /\ "accounted" \in Fields /\ "orphan" \in Fields
  BY DEF Fields
<1>4. E.balance = a1 /\ E.supply = a2 /\ E.accounted = a3 /\ E.orphan = a4
  BY <1>2, <1>3
<1>5. DOMAIN E = Fields /\ Same(E, w.v, Fields \ {"balance", "supply", "accounted", "orphan"})
  BY <1>2 DEF Same
<1>6. E = [f \in Fields |-> E[f]]
  BY <1>2, Zenon
<1> HIDE DEF y, E
<1>7. DOMAIN y = DOMAIN w /\ y.v = E /\ y.core = w.core /\ y.held = w.held
  BY <1>1, <1>2
<1> QED
  BY <1>2, <1>4, <1>5, <1>7, <1>6 DEF Shape, y, RetractedWrote, a1, a2, a3, a4

\* What ReconcileCash writes.
ReconcileCashWrote(y, w) ==
  /\ Shape(y)
  /\ y.core = w.core
  /\ y.held = w.held
  /\ y.v.harvested = w.v.harvested + Over(w.held["USDG"], Accounted(w))
  /\ Same(y.v, w.v, Fields \ {"harvested"})

\* It writes that, and every other field stays.
LEMMA ReconcileCashDoes ==
  ASSUME NEW w, Shape(w)
  PROVE  ReconcileCashWrote(ReconcileCash(w), w)
<1> DEFINE a1 == w.v.harvested + Over(w.held["USDG"], Accounted(w))
           E == [w.v EXCEPT !.harvested = a1]
           y == ReconcileCash(w)
<1>1. y = [w EXCEPT !.v = E]
  BY DEF ReconcileCash
<1>2. DOMAIN w.v = Fields /\ DOMAIN w = {"v", "core", "held"}
  BY DEF Shape
<1> HIDE DEF a1
<1>3. "harvested" \in Fields
  BY DEF Fields
<1>4. E.harvested = a1
  BY <1>2, <1>3
<1>5. DOMAIN E = Fields /\ Same(E, w.v, Fields \ {"harvested"})
  BY <1>2 DEF Same
<1>6. E = [f \in Fields |-> E[f]]
  BY <1>2, Zenon
<1> HIDE DEF y, E
<1>7. DOMAIN y = DOMAIN w /\ y.v = E /\ y.core = w.core /\ y.held = w.held
  BY <1>1, <1>2
<1> QED
  BY <1>2, <1>4, <1>5, <1>7, <1>6 DEF Shape, y, ReconcileCashWrote, a1

\* What Collected writes.
CollectedWrote(y, w) ==
  /\ Shape(y)
  /\ y.core = [w.core EXCEPT !.credit = 0]
  /\ y.held = [w.held EXCEPT !["USDG"] = w.held["USDG"] + w.core.credit]
  /\ y.v.harvested = w.v.harvested + w.core.credit
  /\ Same(y.v, w.v, Fields \ {"harvested"})

\* It writes that, and every other field stays.
LEMMA CollectedDoes ==
  ASSUME NEW w, Shape(w)
  PROVE  CollectedWrote(Collected(w), w)
<1> DEFINE a1 == w.v.harvested + w.core.credit
           E == [w.v EXCEPT !.harvested = a1]
           C == [w.core EXCEPT !.credit = 0]
           H == [w.held EXCEPT !["USDG"] = w.held["USDG"] + w.core.credit]
           y == Collected(w)
<1>1. y = [w EXCEPT !.v = E, !.core = C, !.held = H]
  BY DEF Collected
<1>2. DOMAIN w.v = Fields /\ DOMAIN w = {"v", "core", "held"}
  BY DEF Shape
<1> HIDE DEF a1, C, H
<1>3. "harvested" \in Fields
  BY DEF Fields
<1>4. E.harvested = a1
  BY <1>2, <1>3
<1>5. DOMAIN E = Fields /\ Same(E, w.v, Fields \ {"harvested"})
  BY <1>2 DEF Same
<1>6. E = [f \in Fields |-> E[f]]
  BY <1>2, Zenon
<1> HIDE DEF y, E
<1>7. DOMAIN y = DOMAIN w /\ y.v = E /\ y.core = C /\ y.held = H
  BY <1>1, <1>2
<1>8. DOMAIN y.core = DOMAIN w.core
  BY <1>7 DEF C, Shape
<1> QED
  BY <1>2, <1>4, <1>5, <1>7, <1>6, <1>8 DEF Shape, y, CollectedWrote, a1, C, H

\* What SetAside writes.
SetAsideWrote(y, w, amount) ==
  /\ Shape(y)
  /\ y.core = w.core
  /\ y.held = w.held
  /\ y.v.orphan = w.v.orphan + amount
  /\ Same(y.v, w.v, Fields \ {"orphan"})

\* It writes that, and every other field stays.
LEMMA SetAsideDoes ==
  ASSUME NEW w, Shape(w), NEW amount
  PROVE  SetAsideWrote(SetAside(w, amount), w, amount)
<1> DEFINE a1 == w.v.orphan + amount
           E == [w.v EXCEPT !.orphan = a1]
           y == SetAside(w, amount)
<1>1. y = [w EXCEPT !.v = E]
  BY DEF SetAside
<1>2. DOMAIN w.v = Fields /\ DOMAIN w = {"v", "core", "held"}
  BY DEF Shape
<1> HIDE DEF a1
<1>3. "orphan" \in Fields
  BY DEF Fields
<1>4. E.orphan = a1
  BY <1>2, <1>3
<1>5. DOMAIN E = Fields /\ Same(E, w.v, Fields \ {"orphan"})
  BY <1>2 DEF Same
<1>6. E = [f \in Fields |-> E[f]]
  BY <1>2, Zenon
<1> HIDE DEF y, E
<1>7. DOMAIN y = DOMAIN w /\ y.v = E /\ y.core = w.core /\ y.held = w.held
  BY <1>1, <1>2
<1> QED
  BY <1>2, <1>4, <1>5, <1>7, <1>6 DEF Shape, y, SetAsideWrote, a1

\* What Spread writes.
SpreadWrote(y, w, amount) ==
  /\ Shape(y)
  /\ y.core = w.core
  /\ y.held = w.held
  /\ y.v.accounted = w.v.accounted + amount
  /\ y.v.accPerShare = w.v.accPerShare + ((amount * REWARD_PRECISION) \div w.v.supply)
  /\ Same(y.v, w.v, Fields \ {"accounted", "accPerShare"})

\* It writes that, and every other field stays.
LEMMA SpreadDoes ==
  ASSUME NEW w, Shape(w), NEW amount
  PROVE  SpreadWrote(Spread(w, amount), w, amount)
<1> DEFINE a1 == w.v.accounted + amount
           a2 == w.v.accPerShare + ((amount * REWARD_PRECISION) \div w.v.supply)
           E == [w.v EXCEPT !.accounted = a1, !.accPerShare = a2]
           y == Spread(w, amount)
<1>1. y = [w EXCEPT !.v = E]
  BY DEF Spread
<1>2. DOMAIN w.v = Fields /\ DOMAIN w = {"v", "core", "held"}
  BY DEF Shape
<1> HIDE DEF a1, a2
<1>3. "accounted" \in Fields /\ "accPerShare" \in Fields
  BY DEF Fields
<1>4. E.accounted = a1 /\ E.accPerShare = a2
  BY <1>2, <1>3
<1>5. DOMAIN E = Fields /\ Same(E, w.v, Fields \ {"accounted", "accPerShare"})
  BY <1>2 DEF Same
<1>6. E = [f \in Fields |-> E[f]]
  BY <1>2, Zenon
<1> HIDE DEF y, E
<1>7. DOMAIN y = DOMAIN w /\ y.v = E /\ y.core = w.core /\ y.held = w.held
  BY <1>1, <1>2
<1> QED
  BY <1>2, <1>4, <1>5, <1>7, <1>6 DEF Shape, y, SpreadWrote, a1, a2

\* What Observed writes.
ObservedWrote(y, w, d, due) ==
  /\ Shape(y)
  /\ y.core = w.core
  /\ y.held = w.held
  /\ y.v.observed = [w.v.observed EXCEPT ![d] = due]
  /\ Same(y.v, w.v, Fields \ {"observed"})

\* It writes that, and every other field stays.
LEMMA ObservedDoes ==
  ASSUME NEW w, Shape(w), NEW d, NEW due
  PROVE  ObservedWrote(Observed(w, d, due), w, d, due)
<1> DEFINE a1 == [w.v.observed EXCEPT ![d] = due]
           E == [w.v EXCEPT !.observed = a1]
           y == Observed(w, d, due)
<1>1. y = [w EXCEPT !.v = E]
  BY DEF Observed
<1>2. DOMAIN w.v = Fields /\ DOMAIN w = {"v", "core", "held"}
  BY DEF Shape
<1> HIDE DEF a1
<1>3. "observed" \in Fields
  BY DEF Fields
<1>4. E.observed = a1
  BY <1>2, <1>3
<1>5. DOMAIN E = Fields /\ Same(E, w.v, Fields \ {"observed"})
  BY <1>2 DEF Same
<1>6. E = [f \in Fields |-> E[f]]
  BY <1>2, Zenon
<1> HIDE DEF y, E
<1>7. DOMAIN y = DOMAIN w /\ y.v = E /\ y.core = w.core /\ y.held = w.held
  BY <1>1, <1>2
<1> QED
  BY <1>2, <1>4, <1>5, <1>7, <1>6 DEF Shape, y, ObservedWrote, a1

\* What Fetched writes.
FetchedWrote(y, w, d, due) ==
  /\ Shape(y)
  /\ y.core = [w.core EXCEPT !.reward = [w.core.reward EXCEPT ![d] = 0]]
  /\ y.held = [w.held EXCEPT !["SGAGE"] = w.held["SGAGE"] + due]
  /\ y.v.observed = [w.v.observed EXCEPT ![d] = 0]
  /\ Same(y.v, w.v, Fields \ {"observed"})

\* It writes that, and every other field stays.
LEMMA FetchedDoes ==
  ASSUME NEW w, Shape(w), NEW d, NEW due
  PROVE  FetchedWrote(Fetched(w, d, due), w, d, due)
<1> DEFINE a1 == [w.v.observed EXCEPT ![d] = 0]
           E == [w.v EXCEPT !.observed = a1]
           C == [w.core EXCEPT !.reward = [w.core.reward EXCEPT ![d] = 0]]
           H == [w.held EXCEPT !["SGAGE"] = w.held["SGAGE"] + due]
           y == Fetched(w, d, due)
<1>1. y = [w EXCEPT !.v = E, !.core = C, !.held = H]
  BY DEF Fetched
<1>2. DOMAIN w.v = Fields /\ DOMAIN w = {"v", "core", "held"}
  BY DEF Shape
<1> HIDE DEF a1, C, H
<1>3. "observed" \in Fields
  BY DEF Fields
<1>4. E.observed = a1
  BY <1>2, <1>3
<1>5. DOMAIN E = Fields /\ Same(E, w.v, Fields \ {"observed"})
  BY <1>2 DEF Same
<1>6. E = [f \in Fields |-> E[f]]
  BY <1>2, Zenon
<1> HIDE DEF y, E
<1>7. DOMAIN y = DOMAIN w /\ y.v = E /\ y.core = C /\ y.held = H
  BY <1>1, <1>2
<1>8. DOMAIN y.core = DOMAIN w.core
  BY <1>7 DEF C, Shape
<1> QED
  BY <1>2, <1>4, <1>5, <1>7, <1>6, <1>8 DEF Shape, y, FetchedWrote, a1, C, H

\* What ReportProfit writes.
ReportProfitWrote(y, w, d, profit) ==
  /\ Shape(y)
  /\ y.core = w.core
  /\ y.held = w.held
  /\ y.v.cash = w.v.cash - Charge(w, d, profit)
  /\ y.v.feeAccrued = w.v.feeAccrued + Charge(w, d, profit)
  /\ y.v.highWater = IF High(w) THEN Price(FullAssets(w) - Charge(w, d, profit),
          w.v.supply) ELSE w.v.highWater
  /\ y.v.lockedProfit = LockedProfit(w) + profit - Charge(w, d, profit)
  /\ y.v.unlockStart = now
  /\ y.v.unlockEnd = now + PROFIT_UNLOCK
  /\ Same(y.v, w.v, Fields \ {"cash", "feeAccrued", "highWater", "lockedProfit", "unlockStart",
          "unlockEnd"})

\* It writes that, and every other field stays.
LEMMA ReportProfitDoes ==
  ASSUME NEW w, Shape(w), NEW d, NEW profit
  PROVE  ReportProfitWrote(ReportProfit(w, d, profit), w, d, profit)
<1> DEFINE a1 == w.v.cash - Charge(w, d, profit)
           a2 == w.v.feeAccrued + Charge(w, d, profit)
           a3 == IF High(w) THEN Price(FullAssets(w) - Charge(w, d, profit), w.v.supply) ELSE w.v.highWater
           a4 == LockedProfit(w) + profit - Charge(w, d, profit)
           a5 == now
           a6 == now + PROFIT_UNLOCK
           E == [w.v EXCEPT !.cash = a1, !.feeAccrued = a2, !.highWater = a3, !.lockedProfit = a4,
                   !.unlockStart = a5, !.unlockEnd = a6]
           y == ReportProfit(w, d, profit)
<1>1. y = [w EXCEPT !.v = E]
  BY DEF ReportProfit, Charge, High
<1>2. DOMAIN w.v = Fields /\ DOMAIN w = {"v", "core", "held"}
  BY DEF Shape
<1> HIDE DEF a1, a2, a3, a4, a5, a6
<1>3. "cash" \in Fields /\ "feeAccrued" \in Fields /\ "highWater" \in Fields
        /\ "lockedProfit" \in Fields /\ "unlockStart" \in Fields /\ "unlockEnd" \in Fields
  BY DEF Fields
<1>4. E.cash = a1 /\ E.feeAccrued = a2 /\ E.highWater = a3 /\ E.lockedProfit = a4
        /\ E.unlockStart = a5 /\ E.unlockEnd = a6
  BY <1>2, <1>3
<1>5. DOMAIN E = Fields
        /\ Same(E, w.v, Fields \ {"cash", "feeAccrued", "highWater", "lockedProfit", "unlockStart",
        "unlockEnd"})
  BY <1>2 DEF Same
<1>6. E = [f \in Fields |-> E[f]]
  BY <1>2, Zenon
<1> HIDE DEF y, E
<1>7. DOMAIN y = DOMAIN w /\ y.v = E /\ y.core = w.core /\ y.held = w.held
  BY <1>1, <1>2
<1> QED
  BY <1>2, <1>4, <1>5, <1>7, <1>6 DEF Shape, y, ReportProfitWrote, a1, a2, a3, a4, a5, a6

\* What ReportLoss writes.
ReportLossWrote(y, w, loss) ==
  /\ Shape(y)
  /\ y.core = w.core
  /\ y.held = w.held
  /\ y.v.lockedProfit = Over(LockedProfit(w), loss)
  /\ y.v.unlockStart = now
  /\ y.v.unlockEnd = IF w.v.unlockEnd < now THEN now ELSE w.v.unlockEnd
  /\ Same(y.v, w.v, Fields \ {"lockedProfit", "unlockStart", "unlockEnd"})

\* It writes that, and every other field stays.
LEMMA ReportLossDoes ==
  ASSUME NEW w, Shape(w), NEW loss
  PROVE  ReportLossWrote(ReportLoss(w, loss), w, loss)
<1> DEFINE a1 == Over(LockedProfit(w), loss)
           a2 == now
           a3 == IF w.v.unlockEnd < now THEN now ELSE w.v.unlockEnd
           E == [w.v EXCEPT !.lockedProfit = a1, !.unlockStart = a2, !.unlockEnd = a3]
           y == ReportLoss(w, loss)
<1>1. y = [w EXCEPT !.v = E]
  BY DEF ReportLoss
<1>2. DOMAIN w.v = Fields /\ DOMAIN w = {"v", "core", "held"}
  BY DEF Shape
<1> HIDE DEF a1, a2, a3
<1>3. "lockedProfit" \in Fields /\ "unlockStart" \in Fields /\ "unlockEnd" \in Fields
  BY DEF Fields
<1>4. E.lockedProfit = a1 /\ E.unlockStart = a2 /\ E.unlockEnd = a3
  BY <1>2, <1>3
<1>5. DOMAIN E = Fields /\ Same(E, w.v, Fields \ {"lockedProfit", "unlockStart", "unlockEnd"})
  BY <1>2 DEF Same
<1>6. E = [f \in Fields |-> E[f]]
  BY <1>2, Zenon
<1> HIDE DEF y, E
<1>7. DOMAIN y = DOMAIN w /\ y.v = E /\ y.core = w.core /\ y.held = w.held
  BY <1>1, <1>2
<1> QED
  BY <1>2, <1>4, <1>5, <1>7, <1>6 DEF Shape, y, ReportLossWrote, a1, a2, a3

\* What OpenPocket writes.
OpenPocketWrote(y, w, d, token, amount) ==
  /\ Shape(y)
  /\ y.core = w.core
  /\ y.held = w.held
  /\ y.v.pocketLiability = [w.v.pocketLiability EXCEPT ![token] = w.v.pocketLiability[token] + amount]
  /\ y.v.pockets = Append(w.v.pockets, [deal |-> d, token |-> token, amount |-> amount, claimed |-> 0,
          supply |-> w.v.loanSnapshotSupply[d], snapshot |-> w.v.loanSnapshot[d]])
  /\ Same(y.v, w.v, Fields \ {"pocketLiability", "pockets"})

\* It writes that, and every other field stays.
LEMMA OpenPocketDoes ==
  ASSUME NEW w, Shape(w), NEW d, NEW token, NEW amount
  PROVE  OpenPocketWrote(OpenPocket(w, d, token, amount), w, d, token, amount)
<1> DEFINE a1 == [w.v.pocketLiability EXCEPT ![token] = w.v.pocketLiability[token] + amount]
           a2 == Append(w.v.pockets, [deal |-> d, token |-> token, amount |-> amount, claimed |-> 0,
                   supply |-> w.v.loanSnapshotSupply[d], snapshot |-> w.v.loanSnapshot[d]])
           E == [w.v EXCEPT !.pocketLiability = a1, !.pockets = a2]
           y == OpenPocket(w, d, token, amount)
<1>1. y = [w EXCEPT !.v = E]
  BY DEF OpenPocket
<1>2. DOMAIN w.v = Fields /\ DOMAIN w = {"v", "core", "held"}
  BY DEF Shape
<1> HIDE DEF a1, a2
<1>3. "pocketLiability" \in Fields /\ "pockets" \in Fields
  BY DEF Fields
<1>4. E.pocketLiability = a1 /\ E.pockets = a2
  BY <1>2, <1>3
<1>5. DOMAIN E = Fields /\ Same(E, w.v, Fields \ {"pocketLiability", "pockets"})
  BY <1>2 DEF Same
<1>6. E = [f \in Fields |-> E[f]]
  BY <1>2, Zenon
<1> HIDE DEF y, E
<1>7. DOMAIN y = DOMAIN w /\ y.v = E /\ y.core = w.core /\ y.held = w.held
  BY <1>1, <1>2
<1> QED
  BY <1>2, <1>4, <1>5, <1>7, <1>6 DEF Shape, y, OpenPocketWrote, a1, a2

\* What Written writes.
WrittenWrote(y, w, d) ==
  /\ Shape(y)
  /\ y.core = w.core
  /\ y.held = w.held
  /\ y.v.loanSnapshot = [w.v.loanSnapshot EXCEPT ![d] = w.v.snapshotCount + 1]
  /\ y.v.loanSnapshotSupply = [w.v.loanSnapshotSupply EXCEPT ![d] = w.v.supply]
  /\ y.v.snapshotCount = w.v.snapshotCount + 1
  /\ y.v.overdue = w.v.overdue \cup {d}
  /\ y.v.performing = w.v.performing - w.v.position[d]
  /\ y.v.overduePrincipal = w.v.overduePrincipal + w.v.position[d]
  /\ Same(y.v, w.v, Fields \ {"loanSnapshot", "loanSnapshotSupply", "snapshotCount", "overdue",
          "performing", "overduePrincipal"})

\* It writes that, and every other field stays.
LEMMA WrittenDoes ==
  ASSUME NEW w, Shape(w), NEW d
  PROVE  WrittenWrote(Written(w, d), w, d)
<1> DEFINE a1 == [w.v.loanSnapshot EXCEPT ![d] = w.v.snapshotCount + 1]
           a2 == [w.v.loanSnapshotSupply EXCEPT ![d] = w.v.supply]
           a3 == w.v.snapshotCount + 1
           a4 == w.v.overdue \cup {d}
           a5 == w.v.performing - w.v.position[d]
           a6 == w.v.overduePrincipal + w.v.position[d]
           E == [w.v EXCEPT !.loanSnapshot = a1, !.loanSnapshotSupply = a2, !.snapshotCount = a3,
                   !.overdue = a4, !.performing = a5, !.overduePrincipal = a6]
           y == Written(w, d)
<1>1. y = [w EXCEPT !.v = E]
  BY DEF Written
<1>2. DOMAIN w.v = Fields /\ DOMAIN w = {"v", "core", "held"}
  BY DEF Shape
<1> HIDE DEF a1, a2, a3, a4, a5, a6
<1>3. "loanSnapshot" \in Fields /\ "loanSnapshotSupply" \in Fields /\ "snapshotCount" \in Fields
        /\ "overdue" \in Fields /\ "performing" \in Fields /\ "overduePrincipal" \in Fields
  BY DEF Fields
<1>4. E.loanSnapshot = a1 /\ E.loanSnapshotSupply = a2 /\ E.snapshotCount = a3 /\ E.overdue = a4
        /\ E.performing = a5 /\ E.overduePrincipal = a6
  BY <1>2, <1>3
<1>5. DOMAIN E = Fields
        /\ Same(E, w.v, Fields \ {"loanSnapshot", "loanSnapshotSupply", "snapshotCount", "overdue",
        "performing", "overduePrincipal"})
  BY <1>2 DEF Same
<1>6. E = [f \in Fields |-> E[f]]
  BY <1>2, Zenon
<1> HIDE DEF y, E
<1>7. DOMAIN y = DOMAIN w /\ y.v = E /\ y.core = w.core /\ y.held = w.held
  BY <1>1, <1>2
<1> QED
  BY <1>2, <1>4, <1>5, <1>7, <1>6 DEF Shape, y, WrittenWrote, a1, a2, a3, a4, a5, a6

\* What Finalized writes.
FinalizedWrote(y, w, d) ==
  /\ Shape(y)
  /\ y.core = [w.core EXCEPT !.deal = [w.core.deal EXCEPT ![d] = [w.core.deal[d]
          EXCEPT !.state = "DEFAULTED", !.closedAt = now]]]
  /\ y.held = w.held
  /\ y.v = w.v

\* It writes that, and every other field stays.
LEMMA FinalizedDoes ==
  ASSUME NEW w, Shape(w), NEW d
  PROVE  FinalizedWrote(Finalized(w, d), w, d)
<1> DEFINE C == [w.core EXCEPT !.deal = [w.core.deal EXCEPT ![d] = [w.core.deal[d]
        EXCEPT !.state = "DEFAULTED", !.closedAt = now]]]
           y == Finalized(w, d)
<1>1. y = [w EXCEPT !.core = C]
  BY DEF Finalized
<1>2. DOMAIN w.v = Fields /\ DOMAIN w = {"v", "core", "held"}
  BY DEF Shape
<1> HIDE DEF C
<1> HIDE DEF y
<1>3. DOMAIN y = DOMAIN w /\ y.v = w.v /\ y.core = C /\ y.held = w.held
  BY <1>1, <1>2
<1>4. DOMAIN y.core = DOMAIN w.core
  BY <1>3 DEF C, Shape
<1> QED
  BY <1>2, <1>3, <1>4 DEF Shape, y, FinalizedWrote, C

\* What Taken writes.
TakenWrote(y, w, d, x, token, amount) ==
  /\ Shape(y)
  /\ y.core = [w.core EXCEPT !.paid = w.core.paid \cup {<<d, x>>}]
  /\ y.held = [w.held EXCEPT ![token] = w.held[token] + amount]
  /\ y.v = w.v

\* It writes that, and every other field stays.
LEMMA TakenDoes ==
  ASSUME NEW w, Shape(w), NEW d, NEW x, NEW token, NEW amount
  PROVE  TakenWrote(Taken(w, d, x, token, amount), w, d, x, token, amount)
<1> DEFINE C == [w.core EXCEPT !.paid = w.core.paid \cup {<<d, x>>}]
           H == [w.held EXCEPT ![token] = w.held[token] + amount]
           y == Taken(w, d, x, token, amount)
<1>1. y = [w EXCEPT !.core = C, !.held = H]
  BY DEF Taken
<1>2. DOMAIN w.v = Fields /\ DOMAIN w = {"v", "core", "held"}
  BY DEF Shape
<1> HIDE DEF C, H
<1> HIDE DEF y
<1>3. DOMAIN y = DOMAIN w /\ y.v = w.v /\ y.core = C /\ y.held = H
  BY <1>1, <1>2
<1>4. DOMAIN y.core = DOMAIN w.core
  BY <1>3 DEF C, Shape
<1> QED
  BY <1>2, <1>3, <1>4 DEF Shape, y, TakenWrote, C, H

\* What Opened writes.
OpenedWrote(y, w, d) ==
  /\ Shape(y)
  /\ y.core = [w.core EXCEPT !.recovered = w.core.recovered \cup {d}]
  /\ y.held = w.held
  /\ y.v = w.v

\* It writes that, and every other field stays.
LEMMA OpenedDoes ==
  ASSUME NEW w, Shape(w), NEW d
  PROVE  OpenedWrote(Opened(w, d), w, d)
<1> DEFINE C == [w.core EXCEPT !.recovered = w.core.recovered \cup {d}]
           y == Opened(w, d)
<1>1. y = [w EXCEPT !.core = C]
  BY DEF Opened
<1>2. DOMAIN w.v = Fields /\ DOMAIN w = {"v", "core", "held"}
  BY DEF Shape
<1> HIDE DEF C
<1> HIDE DEF y
<1>3. DOMAIN y = DOMAIN w /\ y.v = w.v /\ y.core = C /\ y.held = w.held
  BY <1>1, <1>2
<1>4. DOMAIN y.core = DOMAIN w.core
  BY <1>3 DEF C, Shape
<1> QED
  BY <1>2, <1>3, <1>4 DEF Shape, y, OpenedWrote, C

\* What Ended writes.
EndedWrote(y, w, d, payout) ==
  /\ Shape(y)
  /\ y.core = w.core
  /\ y.held = w.held
  /\ y.v.borrowerPrincipal = [w.v.borrowerPrincipal
          EXCEPT ![Terms[d].borrower] = w.v.borrowerPrincipal[Terms[d].borrower] - w.v.position[d]]
  /\ y.v.lanePrincipal = [w.v.lanePrincipal EXCEPT ![Terms[d].lane] = w.v.lanePrincipal[Terms[d].lane]
          - w.v.position[d]]
  /\ y.v.overduePrincipal = w.v.overduePrincipal - (w.v.position[d] - Carried(w, d))
  /\ y.v.performing = w.v.performing - Carried(w, d)
  /\ y.v.assigned = w.v.assigned + payout
  /\ y.v.terminal = w.v.terminal \cup {d}
  /\ Same(y.v, w.v, Fields \ {"borrowerPrincipal", "lanePrincipal", "overduePrincipal", "performing",
          "assigned", "terminal"})

\* It writes that, and every other field stays.
LEMMA EndedDoes ==
  ASSUME NEW w, Shape(w), NEW d, NEW payout
  PROVE  EndedWrote(Ended0(w, d, payout), w, d, payout)
<1> DEFINE a1 == [w.v.borrowerPrincipal
        EXCEPT ![Terms[d].borrower] = w.v.borrowerPrincipal[Terms[d].borrower] - w.v.position[d]]
           a2 == [w.v.lanePrincipal EXCEPT ![Terms[d].lane] = w.v.lanePrincipal[Terms[d].lane]
                   - w.v.position[d]]
           a3 == w.v.overduePrincipal - (w.v.position[d] - Carried(w, d))
           a4 == w.v.performing - Carried(w, d)
           a5 == w.v.assigned + payout
           a6 == w.v.terminal \cup {d}
           E == [w.v EXCEPT !.borrowerPrincipal = a1, !.lanePrincipal = a2, !.overduePrincipal = a3,
                   !.performing = a4, !.assigned = a5, !.terminal = a6]
           y == Ended0(w, d, payout)
<1>1. y = [w EXCEPT !.v = E]
  BY DEF Ended0
<1>2. DOMAIN w.v = Fields /\ DOMAIN w = {"v", "core", "held"}
  BY DEF Shape
<1> HIDE DEF a1, a2, a3, a4, a5, a6
<1>3. "borrowerPrincipal" \in Fields /\ "lanePrincipal" \in Fields /\ "overduePrincipal" \in Fields
        /\ "performing" \in Fields /\ "assigned" \in Fields /\ "terminal" \in Fields
  BY DEF Fields
<1>4. E.borrowerPrincipal = a1 /\ E.lanePrincipal = a2 /\ E.overduePrincipal = a3 /\ E.performing = a4
        /\ E.assigned = a5 /\ E.terminal = a6
  BY <1>2, <1>3
<1>5. DOMAIN E = Fields
        /\ Same(E, w.v, Fields \ {"borrowerPrincipal", "lanePrincipal", "overduePrincipal", "performing",
        "assigned", "terminal"})
  BY <1>2 DEF Same
<1>6. E = [f \in Fields |-> E[f]]
  BY <1>2, Zenon
<1> HIDE DEF y, E
<1>7. DOMAIN y = DOMAIN w /\ y.v = E /\ y.core = w.core /\ y.held = w.held
  BY <1>1, <1>2
<1> QED
  BY <1>2, <1>4, <1>5, <1>7, <1>6 DEF Shape, y, EndedWrote, a1, a2, a3, a4, a5, a6

\* What Paid writes.
PaidWrote(y, w, payout) ==
  /\ Shape(y)
  /\ y.core = w.core
  /\ y.held = w.held
  /\ y.v.cash = w.v.cash + payout
  /\ Same(y.v, w.v, Fields \ {"cash"})

\* It writes that, and every other field stays.
LEMMA PaidDoes ==
  ASSUME NEW w, Shape(w), NEW payout
  PROVE  PaidWrote(Paid(w, payout), w, payout)
<1> DEFINE a1 == w.v.cash + payout
           E == [w.v EXCEPT !.cash = a1]
           y == Paid(w, payout)
<1>1. y = [w EXCEPT !.v = E]
  BY DEF Paid
<1>2. DOMAIN w.v = Fields /\ DOMAIN w = {"v", "core", "held"}
  BY DEF Shape
<1> HIDE DEF a1
<1>3. "cash" \in Fields
  BY DEF Fields
<1>4. E.cash = a1
  BY <1>2, <1>3
<1>5. DOMAIN E = Fields /\ Same(E, w.v, Fields \ {"cash"})
  BY <1>2 DEF Same
<1>6. E = [f \in Fields |-> E[f]]
  BY <1>2, Zenon
<1> HIDE DEF y, E
<1>7. DOMAIN y = DOMAIN w /\ y.v = E /\ y.core = w.core /\ y.held = w.held
  BY <1>1, <1>2
<1> QED
  BY <1>2, <1>4, <1>5, <1>7, <1>6 DEF Shape, y, PaidWrote, a1

\* What Drop writes.
DropWrote(y, w, Kept0) ==
  /\ Shape(y)
  /\ y.core = w.core
  /\ y.held = w.held
  /\ y.v.openLoans = Kept0
  /\ Same(y.v, w.v, Fields \ {"openLoans"})

\* It writes that, and every other field stays.
LEMMA DropDoes ==
  ASSUME NEW w, Shape(w), NEW Kept0
  PROVE  DropWrote([w EXCEPT !.v.openLoans = Kept0], w, Kept0)
<1> DEFINE a1 == Kept0
           E == [w.v EXCEPT !.openLoans = a1]
           y == [w EXCEPT !.v.openLoans = Kept0]
<1>1. y = [w EXCEPT !.v = E]
  OBVIOUS
<1>2. DOMAIN w.v = Fields /\ DOMAIN w = {"v", "core", "held"}
  BY DEF Shape
<1> HIDE DEF a1
<1>3. "openLoans" \in Fields
  BY DEF Fields
<1>4. E.openLoans = a1
  BY <1>2, <1>3
<1>5. DOMAIN E = Fields /\ Same(E, w.v, Fields \ {"openLoans"})
  BY <1>2 DEF Same
<1>6. E = [f \in Fields |-> E[f]]
  BY <1>2, Zenon
<1> HIDE DEF y, E
<1>7. DOMAIN y = DOMAIN w /\ y.v = E /\ y.core = w.core /\ y.held = w.held
  BY <1>1, <1>2
<1> QED
  BY <1>2, <1>4, <1>5, <1>7, <1>6 DEF Shape, y, DropWrote, a1

\* What Receive writes.
ReceiveWrote(y, w, amount) ==
  /\ Shape(y)
  /\ y.core = w.core
  /\ y.held = [w.held EXCEPT !["USDG"] = w.held["USDG"] + amount]
  /\ y.v.cash = w.v.cash + amount
  /\ Same(y.v, w.v, Fields \ {"cash"})

\* It writes that, and every other field stays.
LEMMA ReceiveDoes ==
  ASSUME NEW w, Shape(w), NEW amount
  PROVE  ReceiveWrote(Receive(w, amount), w, amount)
<1> DEFINE a1 == w.v.cash + amount
           E == [w.v EXCEPT !.cash = a1]
           H == [w.held EXCEPT !["USDG"] = w.held["USDG"] + amount]
           y == Receive(w, amount)
<1>1. y = [w EXCEPT !.v = E, !.held = H]
  BY DEF Receive
<1>2. DOMAIN w.v = Fields /\ DOMAIN w = {"v", "core", "held"}
  BY DEF Shape
<1> HIDE DEF a1, H
<1>3. "cash" \in Fields
  BY DEF Fields
<1>4. E.cash = a1
  BY <1>2, <1>3
<1>5. DOMAIN E = Fields /\ Same(E, w.v, Fields \ {"cash"})
  BY <1>2 DEF Same
<1>6. E = [f \in Fields |-> E[f]]
  BY <1>2, Zenon
<1> HIDE DEF y, E
<1>7. DOMAIN y = DOMAIN w /\ y.v = E /\ y.core = w.core /\ y.held = H
  BY <1>1, <1>2
<1> QED
  BY <1>2, <1>4, <1>5, <1>7, <1>6 DEF Shape, y, ReceiveWrote, a1, H

\* What Send writes.
SendWrote(y, w, token, amount) ==
  /\ Shape(y)
  /\ y.core = w.core
  /\ y.held = [w.held EXCEPT ![token] = w.held[token] - amount]
  /\ y.v = w.v

\* It writes that, and every other field stays.
LEMMA SendDoes ==
  ASSUME NEW w, Shape(w), NEW token, NEW amount
  PROVE  SendWrote(Send(w, token, amount), w, token, amount)
<1> DEFINE H == [w.held EXCEPT ![token] = w.held[token] - amount]
           y == Send(w, token, amount)
<1>1. y = [w EXCEPT !.held = H]
  BY DEF Send
<1>2. DOMAIN w.v = Fields /\ DOMAIN w = {"v", "core", "held"}
  BY DEF Shape
<1> HIDE DEF H
<1> HIDE DEF y
<1>3. DOMAIN y = DOMAIN w /\ y.v = w.v /\ y.core = w.core /\ y.held = H
  BY <1>1, <1>2
<1> QED
  BY <1>2, <1>3 DEF Shape, y, SendWrote, H

\* What Unlock writes.
UnlockWrote(y, w, id, shares) ==
  /\ Shape(y)
  /\ y.core = w.core
  /\ y.held = w.held
  /\ y.v.requests = [w.v.requests EXCEPT ![id] = [w.v.requests[id]
          EXCEPT !.shares = w.v.requests[id].shares - shares]]
  /\ y.v.lockedShares = [w.v.lockedShares
          EXCEPT ![w.v.requests[id].owner] = w.v.lockedShares[w.v.requests[id].owner] - shares]
  /\ y.v.pendingShares = w.v.pendingShares - shares
  /\ Same(y.v, w.v, Fields \ {"requests", "lockedShares", "pendingShares"})

\* It writes that, and every other field stays.
LEMMA UnlockDoes ==
  ASSUME NEW w, Shape(w), NEW id, NEW shares
  PROVE  UnlockWrote(Unlock(w, id, shares), w, id, shares)
<1> DEFINE a1 == [w.v.requests EXCEPT ![id] = [w.v.requests[id]
        EXCEPT !.shares = w.v.requests[id].shares - shares]]
           a2 == [w.v.lockedShares
                   EXCEPT ![w.v.requests[id].owner] = w.v.lockedShares[w.v.requests[id].owner] - shares]
           a3 == w.v.pendingShares - shares
           E == [w.v EXCEPT !.requests = a1, !.lockedShares = a2, !.pendingShares = a3]
           y == Unlock(w, id, shares)
<1>1. y = [w EXCEPT !.v = E]
  BY DEF Unlock
<1>2. DOMAIN w.v = Fields /\ DOMAIN w = {"v", "core", "held"}
  BY DEF Shape
<1> HIDE DEF a1, a2, a3
<1>3. "requests" \in Fields /\ "lockedShares" \in Fields /\ "pendingShares" \in Fields
  BY DEF Fields
<1>4. E.requests = a1 /\ E.lockedShares = a2 /\ E.pendingShares = a3
  BY <1>2, <1>3
<1>5. DOMAIN E = Fields /\ Same(E, w.v, Fields \ {"requests", "lockedShares", "pendingShares"})
  BY <1>2 DEF Same
<1>6. E = [f \in Fields |-> E[f]]
  BY <1>2, Zenon
<1> HIDE DEF y, E
<1>7. DOMAIN y = DOMAIN w /\ y.v = E /\ y.core = w.core /\ y.held = w.held
  BY <1>1, <1>2
<1> QED
  BY <1>2, <1>4, <1>5, <1>7, <1>6 DEF Shape, y, UnlockWrote, a1, a2, a3

\* What Credited writes.
CreditedWrote(y, w, h, assets) ==
  /\ Shape(y)
  /\ y.core = w.core
  /\ y.held = w.held
  /\ y.v.claimable = [w.v.claimable EXCEPT ![h] = w.v.claimable[h] + assets]
  /\ y.v.claimableTotal = w.v.claimableTotal + assets
  /\ Same(y.v, w.v, Fields \ {"claimable", "claimableTotal"})

\* It writes that, and every other field stays.
LEMMA CreditedDoes ==
  ASSUME NEW w, Shape(w), NEW h, NEW assets
  PROVE  CreditedWrote(Credited(w, h, assets), w, h, assets)
<1> DEFINE a1 == [w.v.claimable EXCEPT ![h] = w.v.claimable[h] + assets]
           a2 == w.v.claimableTotal + assets
           E == [w.v EXCEPT !.claimable = a1, !.claimableTotal = a2]
           y == Credited(w, h, assets)
<1>1. y = [w EXCEPT !.v = E]
  BY DEF Credited
<1>2. DOMAIN w.v = Fields /\ DOMAIN w = {"v", "core", "held"}
  BY DEF Shape
<1> HIDE DEF a1, a2
<1>3. "claimable" \in Fields /\ "claimableTotal" \in Fields
  BY DEF Fields
<1>4. E.claimable = a1 /\ E.claimableTotal = a2
  BY <1>2, <1>3
<1>5. DOMAIN E = Fields /\ Same(E, w.v, Fields \ {"claimable", "claimableTotal"})
  BY <1>2 DEF Same
<1>6. E = [f \in Fields |-> E[f]]
  BY <1>2, Zenon
<1> HIDE DEF y, E
<1>7. DOMAIN y = DOMAIN w /\ y.v = E /\ y.core = w.core /\ y.held = w.held
  BY <1>1, <1>2
<1> QED
  BY <1>2, <1>4, <1>5, <1>7, <1>6 DEF Shape, y, CreditedWrote, a1, a2

\* What Revoke writes.
RevokeWrote(y, w, d) ==
  /\ Shape(y)
  /\ y.core = w.core
  /\ y.held = w.held
  /\ y.v.approvals = [w.v.approvals EXCEPT ![d] = NoApproval]
  /\ y.v.approvedPrincipal = IF w.v.approvals[d].epoch = w.v.epoch THEN w.v.approvedPrincipal
          - w.v.approvals[d].principal ELSE w.v.approvedPrincipal
  /\ Same(y.v, w.v, Fields \ {"approvals", "approvedPrincipal"})

\* It writes that, and every other field stays.
LEMMA RevokeDoes ==
  ASSUME NEW w, Shape(w), NEW d
  PROVE  RevokeWrote(Revoke(w, d), w, d)
<1> DEFINE a1 == [w.v.approvals EXCEPT ![d] = NoApproval]
           a2 == IF w.v.approvals[d].epoch = w.v.epoch THEN w.v.approvedPrincipal
                   - w.v.approvals[d].principal ELSE w.v.approvedPrincipal
           E == [w.v EXCEPT !.approvals = a1, !.approvedPrincipal = a2]
           y == Revoke(w, d)
<1>1. y = [w EXCEPT !.v = E]
  BY DEF Revoke
<1>2. DOMAIN w.v = Fields /\ DOMAIN w = {"v", "core", "held"}
  BY DEF Shape
<1> HIDE DEF a1, a2
<1>3. "approvals" \in Fields /\ "approvedPrincipal" \in Fields
  BY DEF Fields
<1>4. E.approvals = a1 /\ E.approvedPrincipal = a2
  BY <1>2, <1>3
<1>5. DOMAIN E = Fields /\ Same(E, w.v, Fields \ {"approvals", "approvedPrincipal"})
  BY <1>2 DEF Same
<1>6. E = [f \in Fields |-> E[f]]
  BY <1>2, Zenon
<1> HIDE DEF y, E
<1>7. DOMAIN y = DOMAIN w /\ y.v = E /\ y.core = w.core /\ y.held = w.held
  BY <1>1, <1>2
<1> QED
  BY <1>2, <1>4, <1>5, <1>7, <1>6 DEF Shape, y, RevokeWrote, a1, a2

\* What Approved writes.
ApprovedWrote(y, w, d, principal, approval) ==
  /\ Shape(y)
  /\ y.core = w.core
  /\ y.held = w.held
  /\ y.v.approvals = [w.v.approvals EXCEPT ![d] = approval]
  /\ y.v.approvedPrincipal = w.v.approvedPrincipal + principal
  /\ Same(y.v, w.v, Fields \ {"approvals", "approvedPrincipal"})

\* It writes that, and every other field stays.
LEMMA ApprovedDoes ==
  ASSUME NEW w, Shape(w), NEW d, NEW principal, NEW approval
  PROVE  ApprovedWrote(Approved(w, d, principal, approval), w, d, principal, approval)
<1> DEFINE a1 == [w.v.approvals EXCEPT ![d] = approval]
           a2 == w.v.approvedPrincipal + principal
           E == [w.v EXCEPT !.approvals = a1, !.approvedPrincipal = a2]
           y == Approved(w, d, principal, approval)
<1>1. y = [w EXCEPT !.v = E]
  BY DEF Approved
<1>2. DOMAIN w.v = Fields /\ DOMAIN w = {"v", "core", "held"}
  BY DEF Shape
<1> HIDE DEF a1, a2
<1>3. "approvals" \in Fields /\ "approvedPrincipal" \in Fields
  BY DEF Fields
<1>4. E.approvals = a1 /\ E.approvedPrincipal = a2
  BY <1>2, <1>3
<1>5. DOMAIN E = Fields /\ Same(E, w.v, Fields \ {"approvals", "approvedPrincipal"})
  BY <1>2 DEF Same
<1>6. E = [f \in Fields |-> E[f]]
  BY <1>2, Zenon
<1> HIDE DEF y, E
<1>7. DOMAIN y = DOMAIN w /\ y.v = E /\ y.core = w.core /\ y.held = w.held
  BY <1>1, <1>2
<1> QED
  BY <1>2, <1>4, <1>5, <1>7, <1>6 DEF Shape, y, ApprovedWrote, a1, a2

\* What Booked writes.
BookedWrote(y, w, d, taken, principal) ==
  /\ Shape(y)
  /\ y.core = w.core
  /\ y.held = w.held
  /\ y.v.funded = w.v.funded \cup {d}
  /\ y.v.openLoans = Append(w.v.openLoans, d)
  /\ y.v.loanFee = [w.v.loanFee EXCEPT ![d] = v.feeBps]
  /\ y.v.slots = [w.v.slots EXCEPT ![d] = taken]
  /\ y.v.position = [w.v.position EXCEPT ![d] = principal]
  /\ y.v.performing = w.v.performing + principal
  /\ y.v.borrowerPrincipal = [w.v.borrowerPrincipal
          EXCEPT ![Terms[d].borrower] = w.v.borrowerPrincipal[Terms[d].borrower] + principal]
  /\ y.v.lanePrincipal = [w.v.lanePrincipal EXCEPT ![Terms[d].lane] = w.v.lanePrincipal[Terms[d].lane]
          + principal]
  /\ Same(y.v, w.v, Fields \ {"funded", "openLoans", "loanFee", "slots", "position", "performing",
          "borrowerPrincipal", "lanePrincipal"})

\* It writes that, and every other field stays.
LEMMA BookedDoes ==
  ASSUME NEW w, Shape(w), NEW d, NEW taken, NEW principal
  PROVE  BookedWrote(Booked(w, d, taken, principal), w, d, taken, principal)
<1> DEFINE a1 == w.v.funded \cup {d}
           a2 == Append(w.v.openLoans, d)
           a3 == [w.v.loanFee EXCEPT ![d] = v.feeBps]
           a4 == [w.v.slots EXCEPT ![d] = taken]
           a5 == [w.v.position EXCEPT ![d] = principal]
           a6 == w.v.performing + principal
           a7 == [w.v.borrowerPrincipal
                   EXCEPT ![Terms[d].borrower] = w.v.borrowerPrincipal[Terms[d].borrower] + principal]
           a8 == [w.v.lanePrincipal EXCEPT ![Terms[d].lane] = w.v.lanePrincipal[Terms[d].lane] + principal]
           E == [w.v EXCEPT !.funded = a1, !.openLoans = a2, !.loanFee = a3, !.slots = a4,
                   !.position = a5, !.performing = a6, !.borrowerPrincipal = a7, !.lanePrincipal = a8]
           y == Booked(w, d, taken, principal)
<1>1. y = [w EXCEPT !.v = E]
  BY DEF Booked
<1>2. DOMAIN w.v = Fields /\ DOMAIN w = {"v", "core", "held"}
  BY DEF Shape
<1> HIDE DEF a1, a2, a3, a4, a5, a6, a7, a8
<1>3. "funded" \in Fields /\ "openLoans" \in Fields /\ "loanFee" \in Fields /\ "slots" \in Fields
        /\ "position" \in Fields /\ "performing" \in Fields /\ "borrowerPrincipal" \in Fields
        /\ "lanePrincipal" \in Fields
  BY DEF Fields
<1>4. E.funded = a1 /\ E.openLoans = a2 /\ E.loanFee = a3 /\ E.slots = a4 /\ E.position = a5
        /\ E.performing = a6 /\ E.borrowerPrincipal = a7 /\ E.lanePrincipal = a8
  BY <1>2, <1>3
<1>5. DOMAIN E = Fields
        /\ Same(E, w.v, Fields \ {"funded", "openLoans", "loanFee", "slots", "position", "performing",
        "borrowerPrincipal", "lanePrincipal"})
  <2> DEFINE G == [w.v EXCEPT !.funded = a1, !.openLoans = a2, !.loanFee = a3, !.slots = a4]
  <2>1. DOMAIN G = Fields /\ Same(G, w.v, Fields \ {"funded", "openLoans", "loanFee", "slots"})
    BY <1>2 DEF Same
  <2>2. E = [G EXCEPT !.position = a5, !.performing = a6, !.borrowerPrincipal = a7, !.lanePrincipal = a8]
    OBVIOUS
  <2> HIDE DEF G, E
  <2>3. DOMAIN E = Fields
          /\ Same(E, G, Fields \ {"position", "performing", "borrowerPrincipal", "lanePrincipal"})
    BY <2>1, <2>2 DEF Same
  <2> QED BY <2>1, <2>3 DEF Same
<1>6. E = [f \in Fields |-> E[f]]
  BY <1>2, Zenon
<1> HIDE DEF y, E
<1>7. DOMAIN y = DOMAIN w /\ y.v = E /\ y.core = w.core /\ y.held = w.held
  BY <1>1, <1>2
<1> QED
  BY <1>2, <1>4, <1>5, <1>7, <1>6 DEF Shape, y, BookedWrote, a1, a2, a3, a4, a5, a6, a7, a8

\* What Filled writes.
FilledWrote(y, w, d, taken) ==
  /\ Shape(y)
  /\ y.core = [w.core EXCEPT !.deal = [w.core.deal EXCEPT ![d] = [w.core.deal[d] EXCEPT !.mine = taken,
          !.state = IF Empty(w, d) = taken THEN "ACTIVE" ELSE w.core.deal[d].state,
          !.fundedAt = IF Empty(w, d) = taken THEN now ELSE w.core.deal[d].fundedAt]]]
  /\ y.held = w.held
  /\ y.v = w.v

\* It writes that, and every other field stays.
LEMMA FilledDoes ==
  ASSUME NEW w, Shape(w), NEW d, NEW taken
  PROVE  FilledWrote(Filled(w, d, taken), w, d, taken)
<1> DEFINE C == [w.core EXCEPT !.deal = [w.core.deal EXCEPT ![d] = [w.core.deal[d] EXCEPT !.mine = taken,
        !.state = IF Empty(w, d) = taken THEN "ACTIVE" ELSE w.core.deal[d].state,
        !.fundedAt = IF Empty(w, d) = taken THEN now ELSE w.core.deal[d].fundedAt]]]
           y == Filled(w, d, taken)
<1>1. y = [w EXCEPT !.core = C]
  BY DEF Filled
<1>2. DOMAIN w.v = Fields /\ DOMAIN w = {"v", "core", "held"}
  BY DEF Shape
<1> HIDE DEF C
<1> HIDE DEF y
<1>3. DOMAIN y = DOMAIN w /\ y.v = w.v /\ y.core = C /\ y.held = w.held
  BY <1>1, <1>2
<1>4. DOMAIN y.core = DOMAIN w.core
  BY <1>3 DEF C, Shape
<1> QED
  BY <1>2, <1>3, <1>4 DEF Shape, y, FilledWrote, C

(***************************************************************************)
(* The model's operators as chains of these steps.                         *)
(***************************************************************************)
\* Before a balance changes: the snapshot, then the rewards.
LEMMA BeforeBalanceChangeIs ==
  ASSUME NEW w, NEW h
  PROVE  BeforeBalanceChange(w, h) = SettleRewards(IF Stale(w, h) THEN Noted(w, h) ELSE w, h)
BY DEF BeforeBalanceChange, Then, Stale, Noted

\* A mint settles the holder, then issues.
LEMMA MintIs ==
  ASSUME NEW w, NEW h, NEW shares
  PROVE  Mint(w, h, shares) = Issued(BeforeBalanceChange(w, h), h, shares)
BY DEF Mint, Then, Issued

\* A burn settles the holder, then retracts.
LEMMA BurnIs ==
  ASSUME NEW w, NEW h, NEW shares
  PROVE  Burn(w, h, shares) = Retracted(BeforeBalanceChange(w, h), h, shares)
BY DEF Burn, Then, Retracted

\* Cash at the engine is reconciled, and collected while USDG moves.
LEMMA HarvestCashIs ==
  ASSUME NEW w
  PROVE  HarvestCash(w) = IF "USDG" \in stopped THEN ReconcileCash(w) ELSE Collected(ReconcileCash(w))
BY DEF HarvestCash, Then, Collected

\* Rewards are spread over the shares, or set aside while there are none.
LEMMA DistributeIs ==
  ASSUME NEW w, NEW amount
  PROVE  Distribute(w, amount) =
           IF amount = 0 THEN w ELSE IF w.v.supply = 0 THEN SetAside(w, amount) ELSE Spread(w, amount)
BY DEF Distribute, SetAside, Spread

Told(w, d) == Distribute(w, Over(w.core.reward[d], w.v.observed[d]))

\* Rewards at the engine are announced once, and fetched while SGAGE moves.
LEMMA AccrueRewardIs ==
  ASSUME NEW w, NEW d
  PROVE  AccrueReward(w, d) =
           IF "SGAGE" \in stopped THEN Observed(Told(w, d), d, w.core.reward[d])
           ELSE Fetched(Told(w, d), d, w.core.reward[d])
BY DEF AccrueReward, Told, Observed, Fetched

\* A late loan is written down with a snapshot and a loss.
LEMMA WriteDownIs ==
  ASSUME NEW w, NEW d
  PROVE  WriteDown(w, d) = ReportLoss(Written(w, d), w.v.position[d])
BY DEF WriteDown, Written

\* An asset of a defaulted loan is taken once, into a pocket.
LEMMA RecoverAssetIs ==
  ASSUME NEW w, NEW d, NEW x
  PROVE  LET amount == Recoverable(w, d, x)
             token == Terms[d].recovery[x].token
         IN  RecoverAsset(w, d, x) =
               IF amount = 0 THEN w ELSE OpenPocket(Taken(w, d, x, token, amount), d, token, amount)
BY DEF RecoverAsset, Taken

\* A defaulted loan is recovered asset by asset.
LEMMA RecoverLoanIs ==
  ASSUME NEW w, NEW d
  PROVE  RecoverLoan(w, d) = RecoverAsset(RecoverAsset(Opened(w, d), d, 0), d, 1)
BY DEF RecoverLoan, Then, Opened

\* A loan is retired in steps: the books of the loan, then profit, loss or a pocket.
LEMMA RetireIs ==
  ASSUME NEW w, NEW d, NEW payout
  PROVE  LET x == Ended0(w, d, payout)
             carried == Carried(w, d)
         IN  Retire(w, d, payout) =
               IF d \in w.v.overdue THEN (IF payout # 0 THEN OpenPocket(x, d, "USDG", payout) ELSE x)
               ELSE IF payout > carried THEN ReportProfit(Paid(x, payout), d, payout - carried)
               ELSE IF payout < carried THEN ReportLoss(Paid(x, payout), carried - payout)
               ELSE Paid(x, payout)
<1>1. CASE d \in w.v.overdue
  BY <1>1 DEF Retire, Ended0
<1>2. CASE d \notin w.v.overdue /\ payout > Carried(w, d)
  BY <1>2 DEF Retire, Ended0, Paid, Then
<1>3. CASE d \notin w.v.overdue /\ ~ (payout > Carried(w, d)) /\ payout < Carried(w, d)
  BY <1>3 DEF Retire, Ended0, Paid, Then
<1>4. CASE d \notin w.v.overdue /\ ~ (payout > Carried(w, d)) /\ ~ (payout < Carried(w, d))
  BY <1>4 DEF Retire, Ended0, Paid
<1> QED BY <1>1, <1>2, <1>3, <1>4

\* A loan is brought current: written down, finalized, settled, its rewards told.
LEMMA BringCurrentIs ==
  ASSUME NEW w, NEW d
  PROVE  BringCurrent(w, d) = AccrueReward(SettleLoan(FinalizeIfDue(WriteDownIfDue(w, d), d), d), d)
BY DEF BringCurrent, Then

Walk(w) == FoldLeft(BringCurrent, w, w.v.openLoans)

\* A checkpoint: the cash, each open loan, the rewards, the list.
LEMMA CheckpointIs ==
  ASSUME NEW w
  PROVE  Checkpoint(w) = DropTerminal(ReconcileRewards(Walk(HarvestCash(w))))
BY DEF Checkpoint, Then, Walk

(***************************************************************************)
(* What each step keeps.                                                   *)
(***************************************************************************)
\* The books that read none of the fields K which a step writes.
LEMMA SoundFrame ==
  ASSUME NEW w, Sound(w), NEW y, NEW K, Same(y.v, w.v, Fields \ K)
  PROVE  /\ y.core = w.core => CoreOk(y.core)
         /\ PolicyFields \cap K = {} => PolicyOk(y.v)
         /\ MoneyFields \cap K = {} /\ y.held["USDG"] = w.held["USDG"] => MoneyOk(y.v, y.held)
         /\ PromiseFields \cap K = {} /\ y.held = w.held => PromiseOk(y.v, y.held)
         /\ RewardFields \cap K = {} /\ y.held["SGAGE"] = w.held["SGAGE"] /\ y.core.reward = w.core.reward
              => RewardOk(y.v, y.core, y.held)
         /\ LoanFields \cap K = {} => LoanOk(y.v)
         /\ PriceFields \cap K = {} => PriceOk(y.v)
         /\ StockFields \cap K = {} => StockOk(y.v)
         /\ RecordFields \cap K = {} => RecordOk(y.v) /\ Kept(y.v, w.v)
         /\ PocketFields \cap K = {} => PocketOk(y.v)
         /\ EndFields \cap K = {} /\ y.core.deal = w.core.deal => EndOk(y.v, y.core)
<1>1. w.v.snapshotCount \in Nat
  BY DEF Sound, RecordOk, RecordTypes
<1>2. MoneyFields \cap K = {} /\ y.held["USDG"] = w.held["USDG"] => MoneyOk(y.v, y.held)
  <2>1. MoneyOk(w.v, w.held)
    BY DEF Sound
  <2>2. y.held["USDG"] = w.held["USDG"] => MoneyOk(w.v, y.held)
    BY <2>1 DEF MoneyOk
  <2> QED BY <2>2, Frames, MoneyFrame
<1>3. RewardFields \cap K = {} /\ y.held["SGAGE"] = w.held["SGAGE"] /\ y.core.reward = w.core.reward
        => RewardOk(y.v, y.core, y.held)
  <2>1. RewardOk(w.v, w.core, w.held)
    BY DEF Sound
  <2>2. y.core.reward = w.core.reward => Announced(w.v, y.core) = Announced(w.v, w.core)
    BY DEF Announced
  <2>3. y.held["SGAGE"] = w.held["SGAGE"] /\ y.core.reward = w.core.reward => RewardOk(w.v, y.core, y.held)
    BY <2>1, <2>2 DEF RewardOk, RewardCore
  <2> QED BY <2>3, Frames, RewardFrame
<1>4. EndFields \cap K = {} /\ y.core.deal = w.core.deal => EndOk(y.v, y.core)
  <2>1. EndOk(w.v, w.core)
    BY DEF Sound
  <2>2. y.core.deal = w.core.deal => EndOk(w.v, y.core)
    BY <2>1 DEF EndOk, Late
  <2> QED BY <2>2, Frames, EndFrame
<1>5. PromiseFields \cap K = {} /\ y.held = w.held => PromiseOk(y.v, y.held)
  <2>1. PromiseOk(w.v, w.held)
    BY DEF Sound
  <2> QED BY <2>1, Frames, PromiseFrame
<1>6. PolicyOk(w.v) /\ LoanOk(w.v) /\ PriceOk(w.v) /\ StockOk(w.v) /\ RecordOk(w.v) /\ PocketOk(w.v) /\ CoreOk(w.core)
  BY DEF Sound
<1>7. PolicyFields \cap K = {} => PolicyOk(y.v)
  BY <1>6, Frames, PolicyFrame
<1>8. LoanFields \cap K = {} => LoanOk(y.v)
  BY <1>6, Frames, LoanFrame
<1>9. PriceFields \cap K = {} => PriceOk(y.v)
  BY <1>6, Frames, PriceFrame
<1>10. StockFields \cap K = {} => StockOk(y.v)
  BY <1>6, Frames, StockFrame
<1>11. RecordFields \cap K = {} => RecordOk(y.v) /\ Kept(y.v, w.v)
  BY <1>6, Frames, RecordFrame, KeptFrame
<1>12. PocketFields \cap K = {} => PocketOk(y.v)
  BY <1>1, <1>6, Frames, PocketFrame
<1> QED BY <1>2, <1>3, <1>4, <1>5, <1>6, <1>7, <1>8, <1>9, <1>10, <1>11, <1>12

\* What a holder is credited is a natural number, and no more than what waited for the holder.
LEMMA AccruingBounds ==
  ASSUME NEW w, RewardTypes(w.v), w.v.balance \in [Holders -> Nat], NEW h \in Holders
  PROVE  LET t == w.v.balance[h] * (w.v.accPerShare - w.v.index[h])
         IN  /\ t \in Nat /\ Accruing(w, h) \in Nat
             /\ REWARD_PRECISION * Accruing(w, h) <= t
<1> DEFINE b == w.v.balance[h]
           s == w.v.accPerShare - w.v.index[h]
           t == b * s
<1>1. b \in Nat /\ s \in Nat /\ REWARD_PRECISION \in Nat \ {0}
  BY Parameters DEF RewardTypes
<1>2. Accruing(w, h) = t \div REWARD_PRECISION
  BY DEF Accruing
<1> HIDE DEF b, s
<1>3. t \in Nat
  BY <1>1, ProductNat
<1> HIDE DEF t
<1>4. Accruing(w, h) \in Nat /\ Accruing(w, h) * REWARD_PRECISION <= t
  BY <1>1, <1>2, <1>3, QuotientNat
<1>5. REWARD_PRECISION * Accruing(w, h) <= t
  BY <1>1, <1>4
<1> QED BY <1>3, <1>4, <1>5 DEF t, b, s

\* A settlement moves what waited to what is owed, rounded down.
LEMMA SettleRewardsKeeps ==
  ASSUME NEW w, Sound(w), NEW h \in Holders
  PROVE  LET y == SettleRewards(w, h)
         IN  /\ Sound(y) /\ Kept(y.v, w.v) /\ y.core = w.core /\ y.held = w.held
             /\ Same(y.v, w.v, Fields \ {"owed", "index", "liability"})
             /\ y.v.index[h] = y.v.accPerShare
<1> DEFINE y == SettleRewards(w, h)
           V == w.v
           X == y.v
           a == Accruing(w, h)
           t == V.balance[h] * (V.accPerShare - V.index[h])
           K == {"owed", "index", "liability"}
<1>1. /\ Shape(y) /\ y.core = w.core /\ y.held = w.held /\ Same(X, V, Fields \ K)
      /\ X.owed = [V.owed EXCEPT ![h] = V.owed[h] + a]
      /\ X.index = [V.index EXCEPT ![h] = V.accPerShare]
      /\ X.liability = V.liability + a
  BY SettleRewardsDoes DEF Sound, SettleRewardsWrote
<1>2. /\ RewardOk(V, w.core, w.held) /\ RewardTypes(V) /\ V.balance \in [Holders -> Nat]
  BY DEF Sound, RewardOk, RewardCore, StockOk
<1>3. t \in Nat /\ a \in Nat /\ REWARD_PRECISION * a <= t
  BY <1>2, AccruingBounds
<1> HIDE DEF y, a
<1>4. /\ X.accPerShare = V.accPerShare /\ X.orphan = V.orphan /\ X.accounted = V.accounted
      /\ X.observed = V.observed /\ X.balance = V.balance /\ X.supply = V.supply
      /\ X.pocketLiability = V.pocketLiability
  BY <1>1 DEF Same, Fields
<1>5. RewardTypes(X)
  BY <1>1, <1>2, <1>3, <1>4 DEF RewardTypes
<1>6. X.liability = SumHolders(X.owed)
  <2>1. \A g \in Holders : V.owed[g] \in Int /\ X.owed[g] \in Int
    BY <1>2, <1>5 DEF RewardTypes
  <2>2. \A g \in Holders \ {h} : X.owed[g] = V.owed[g]
    BY <1>1, <1>2 DEF RewardTypes
  <2>3. X.owed[h] = V.owed[h] + a
    BY <1>1, <1>2 DEF RewardTypes
  <2> HIDE DEF X
  <2>4. SumFunctionOnSet(X.owed, Holders) = SumFunctionOnSet(V.owed, Holders) + a
    BY <1>3, <2>1, <2>2, <2>3, SumMoved, Parameters
  <2> QED BY <1>1, <1>2, <2>4 DEF RewardOk, RewardCore, SumHolders, SumOver
<1>7. Unsettled(X) = Unsettled(V) - t /\ Unsettled(V) \in Int
  <2> DEFINE f == [g \in Holders |-> V.balance[g] * (V.accPerShare - V.index[g])]
             k == [g \in Holders |-> X.balance[g] * (X.accPerShare - X.index[g])]
  <2>1. Unsettled(V) = SumFunctionOnSet(f, Holders) /\ Unsettled(X) = SumFunctionOnSet(k, Holders)
    BY DEF Unsettled, SumHolders, SumOver
  <2>2. \A g \in Holders \ {h} : k[g] = f[g]
    BY <1>1, <1>2, <1>4 DEF RewardTypes
  <2>3. f[h] = t /\ k[h] = 0
    BY <1>1, <1>2, <1>4 DEF RewardTypes
  <2>4. \A g \in Holders : f[g] \in Int
    BY <1>2 DEF RewardTypes
  <2>5. \A g \in Holders : k[g] \in Int
    BY <2>2, <2>3, <2>4
  <2> HIDE DEF f, k
  <2>6. k[h] = f[h] + (- t) /\ - t \in Int
    BY <1>3, <2>3
  <2>7. SumFunctionOnSet(k, Holders) = SumFunctionOnSet(f, Holders) + (- t)
    BY <2>2, <2>4, <2>5, <2>6, SumMoved, Parameters
  <2>8. SumFunctionOnSet(f, Holders) \in Int
    BY <2>4, SumType, Parameters
  <2> QED BY <1>3, <2>1, <2>7, <2>8
<1>8. RewardOk(X, y.core, y.held)
  <2>1. Announced(X, y.core) = Announced(V, w.core)
    BY <1>1, <1>4 DEF Announced
  <2>2. REWARD_PRECISION * (V.liability + a) = REWARD_PRECISION * V.liability + REWARD_PRECISION * a
    BY <1>2, <1>3, Parameters DEF RewardTypes
  <2>3. REWARD_PRECISION * V.liability \in Int /\ REWARD_PRECISION * V.accounted \in Int
        /\ REWARD_PRECISION * a \in Int
    BY <1>2, <1>3, Parameters DEF RewardTypes
  <2>4. REWARD_PRECISION * V.liability + Unsettled(V) <= REWARD_PRECISION * V.accounted
    BY <1>2 DEF RewardOk, RewardCore
  <2>5. REWARD_PRECISION * X.liability + Unsettled(X) <= REWARD_PRECISION * X.accounted
    BY <1>1, <1>3, <1>4, <1>7, <2>2, <2>3, <2>4
  <2> QED BY <1>1, <1>2, <1>4, <1>5, <1>6, <2>1, <2>5 DEF RewardOk, RewardCore
<1>9. /\ PolicyFields \cap K = {} /\ MoneyFields \cap K = {} /\ PromiseFields \cap K = {}
      /\ LoanFields \cap K = {} /\ PriceFields \cap K = {} /\ StockFields \cap K = {}
      /\ RecordFields \cap K = {} /\ PocketFields \cap K = {} /\ EndFields \cap K = {}
  BY DEF PolicyFields, MoneyFields, PromiseFields, LoanFields, PriceFields, StockFields, RecordFields,
         PocketFields, EndFields
<1> HIDE DEF K
<1>10. Sound(y) /\ Kept(X, V)
  BY <1>1, <1>8, <1>9, SoundFrame DEF Sound
<1>11. X.index[h] = X.accPerShare
  BY <1>1, <1>2, <1>4 DEF RewardTypes
<1> QED BY <1>1, <1>10, <1>11 DEF y, K

\* A set of naturals that is finite and not empty has a smallest element.
LEMMA MinIn ==
  ASSUME NEW S \in SUBSET Int, IsFiniteSet(S), S # {}
  PROVE  Min(S) \in S /\ \A y \in S : Min(S) <= y
<1> DEFINE below(x) == {y \in S : y <= x}
           F == {below(x) : x \in S}
<1>1. PICK T \in F : \A U \in SUBSET T : U # T => U \notin F
  <2>1. F \in SUBSET (SUBSET S) /\ F # {}
    OBVIOUS
  <2> HIDE DEF F
  <2> QED BY <2>1, MinimalSubset
<1>2. PICK x \in S : T = below(x)
  OBVIOUS
<1>3. \A y \in S : x <= y
  <2>1. SUFFICES ASSUME NEW y \in S, ~ (x <= y) PROVE FALSE
    OBVIOUS
  <2>2. x \in Int /\ y \in Int /\ y < x
    BY <2>1
  <2>3. x \in below(x) /\ x \notin below(y)
    BY <2>2
  <2>4. \A z \in S : z <= y => z <= x
    BY <2>2
  <2>5. below(y) \in SUBSET below(x) /\ below(y) # below(x)
    BY <2>3, <2>4
  <2> QED BY <1>1, <1>2, <2>5
<1> QED BY <1>3 DEF Min

\* A later entry that is added at the end does not come first.
LEMMA MinGrows ==
  ASSUME NEW n \in Nat, NEW S \in SUBSET (1 .. n), S # {}
  PROVE  Min(S \cup {n + 1}) = Min(S) /\ Min(S) \in S
<1> DEFINE m == Min(S)
           T == S \cup {n + 1}
<1>1. IsFiniteSet(S)
  <2>1. IsFiniteSet(1 .. n)
    BY FS_Interval
  <2> QED BY <2>1, FS_Subset
<1>2. S \in SUBSET Int /\ \A y \in S : y \in 1 .. n
  OBVIOUS
<1>3. m \in S /\ \A y \in S : m <= y
  BY <1>1, <1>2, MinIn
<1> HIDE DEF m
<1>4. m \in 1 .. n /\ m <= n + 1
  BY <1>2, <1>3
<1>5. m \in T /\ \A y \in T : m <= y
  BY <1>3, <1>4
<1>6. \A x \in T : (\A y \in T : x <= y) => x = m
  <2>1. SUFFICES ASSUME NEW x \in T, \A y \in T : x <= y PROVE x = m
    OBVIOUS
  <2>2. x <= m /\ m <= x /\ x \in Int
    BY <1>2, <1>5, <2>1
  <2> QED BY <1>4, <2>2
<1> HIDE DEF T
<1>7. Min(T) = m
  BY <1>5, <1>6 DEF Min
<1> QED BY <1>3, <1>7 DEF T, m

\* The least of one number.
LEMMA MinOne == ASSUME NEW n \in Int PROVE Min({n}) = n
BY DEF Min

\* The length, the domain and the entries of a sequence.
LEMMA SeqAt ==
  ASSUME NEW T, NEW q \in Seq(T)
  PROVE  Len(q) \in Nat /\ DOMAIN q = 1 .. Len(q) /\ \A i \in 1 .. Len(q) : q[i] \in T
OBVIOUS

\* A sequence without entries.
LEMMA EmptySeq == ASSUME NEW T, NEW q \in Seq(T), Len(q) = 0 PROVE q = <<>>
OBVIOUS

\* The entries after one more is appended.
LEMMA AppendAt ==
  ASSUME NEW T, NEW q \in Seq(T), NEW e \in T
  PROVE  LET r == Append(q, e)
         IN  /\ r \in Seq(T) /\ Len(r) = Len(q) + 1 /\ DOMAIN r = 1 .. Len(q) + 1
             /\ r[Len(q) + 1] = e /\ \A i \in 1 .. Len(q) : r[i] = q[i]
OBVIOUS

\* An operation that keeps every balance of record keeps the records' book.
LEMMA RecordKept ==
  ASSUME NEW V, NEW V2, RecordOk(V), RecordTypes(V2), Kept(V2, V), V2.overdue = V.overdue,
         V2.loanSnapshot = V.loanSnapshot, V2.loanSnapshotSupply = V.loanSnapshotSupply
  PROVE  RecordOk(V2)
<1>1. ASSUME NEW d \in V2.overdue
      PROVE  /\ V2.loanSnapshot[d] \in 1 .. V2.snapshotCount
             /\ OfRecord(V2, V2.loanSnapshot[d]) = V2.loanSnapshotSupply[d]
  <2>1. /\ V.loanSnapshot[d] \in 1 .. V.snapshotCount
        /\ OfRecord(V, V.loanSnapshot[d]) = V.loanSnapshotSupply[d]
    BY DEF RecordOk
  <2>2. [h \in Holders |-> BalAt(V2, h, V.loanSnapshot[d])] = [h \in Holders |-> BalAt(V, h, V.loanSnapshot[d])]
    BY <2>1 DEF Kept
  <2>3. V.loanSnapshot[d] \in 1 .. V2.snapshotCount
    BY <2>1 DEF Kept, RecordOk, RecordTypes
  <2> QED BY <2>1, <2>2, <2>3 DEF OfRecord
<1> QED BY <1>1 DEF RecordOk

\* The entry that a balance change writes is the balance of record it replaces.
LEMMA NotedKeeps ==
  ASSUME NEW w, Sound(w), NEW h \in Holders
  PROVE  LET y == Noted(w, h)
         IN  /\ Sound(y) /\ Kept(y.v, w.v) /\ y.core = w.core /\ y.held = w.held
             /\ Same(y.v, w.v, Fields \ {"snapshots"})
             /\ y.v.snapshots[h] =
                  Append(w.v.snapshots[h], [id |-> w.v.snapshotCount, balance |-> w.v.balance[h]])
<1> DEFINE y == Noted(w, h)
           V == w.v
           X == y.v
           q == V.snapshots[h]
           e == [id |-> V.snapshotCount, balance |-> V.balance[h]]
           K == {"snapshots"}
<1>1. /\ Shape(y) /\ y.core = w.core /\ y.held = w.held /\ Same(X, V, Fields \ K)
      /\ X.snapshots = [V.snapshots EXCEPT ![h] = Append(q, e)]
  BY NotedDoes DEF Sound, NotedWrote
<1>2. /\ RecordOk(V) /\ RecordTypes(V) /\ V.balance \in [Holders -> Nat] /\ PocketOk(V)
  BY DEF Sound, RecordOk, StockOk
<1> HIDE DEF y
<1>3. /\ X.snapshotCount = V.snapshotCount /\ X.loanSnapshot = V.loanSnapshot
      /\ X.loanSnapshotSupply = V.loanSnapshotSupply /\ X.balance = V.balance /\ X.overdue = V.overdue
      /\ X.pockets = V.pockets /\ X.pocketClaimed = V.pocketClaimed /\ X.pocketLiability = V.pocketLiability
  BY <1>1 DEF Same, Fields
<1>4. /\ q \in Seq([id : Nat, balance : Nat]) /\ e \in [id : Nat, balance : Nat]
      /\ \A i \in DOMAIN q : q[i].id <= V.snapshotCount
      /\ V.snapshotCount \in Nat
  BY <1>2 DEF RecordTypes
<1> HIDE DEF q
<1> DEFINE r == Append(q, e)
           n == Len(q)
<1>5. /\ r \in Seq([id : Nat, balance : Nat]) /\ n \in Nat /\ DOMAIN q = 1 .. n /\ DOMAIN r = 1 .. n + 1
      /\ \A i \in 1 .. n : r[i] = q[i]
      /\ r[n + 1] = e
  BY <1>4
<1>6. X.snapshots[h] = r /\ \A g \in Holders \ {h} : X.snapshots[g] = V.snapshots[g]
  BY <1>1, <1>2 DEF RecordTypes
<1> HIDE DEF r, n
<1>7. RecordTypes(X)
  <2>1. X.snapshots \in [Holders -> Seq([id : Nat, balance : Nat])]
    BY <1>1, <1>2, <1>5 DEF RecordTypes, r
  <2>2. \A i \in DOMAIN r : r[i].id <= V.snapshotCount
    <3>1. e.id <= V.snapshotCount
      BY <1>4
    <3>2. \A i \in 1 .. n + 1 : i \in 1 .. n \/ i = n + 1
      BY <1>5
    <3> QED BY <1>4, <1>5, <3>1, <3>2
  <2> QED BY <1>2, <1>3, <1>6, <2>1, <2>2 DEF RecordTypes
<1>8. ASSUME NEW s \in 1 .. V.snapshotCount PROVE BalAt(X, h, s) = BalAt(V, h, s)
  <2> DEFINE old == {i \in DOMAIN q : q[i].id >= s}
             all == {i \in DOMAIN r : r[i].id >= s}
  <2>1. e.id >= s /\ s # 0 /\ e.balance = V.balance[h]
    BY <1>4
  <2>2. all = old \cup {n + 1}
    <3>1. \A i \in 1 .. n : i \in all <=> i \in old
      BY <1>5
    <3>2. n + 1 \in all
      BY <1>5, <2>1
    <3>3. \A i : i \in 1 .. n + 1 <=> i \in 1 .. n \/ i = n + 1
      BY <1>5
    <3>4. old \subseteq 1 .. n /\ all \subseteq 1 .. n + 1
      BY <1>5
    <3> QED BY <3>1, <3>2, <3>3, <3>4
  <2>3. BalAt(X, h, s) = r[Min(all)].balance
    BY <1>3, <1>6, <2>1, <2>2 DEF BalAt
  <2>4. BalAt(V, h, s) = IF old = {} THEN V.balance[h] ELSE q[Min(old)].balance
    BY <2>1 DEF BalAt, q
  <2>5. old \in SUBSET (1 .. n)
    BY <1>5
  <2> HIDE DEF old, all
  <2>6. CASE old = {}
    <3>1. all = {n + 1} /\ n + 1 \in Int
      BY <1>5, <2>2, <2>6
    <3>2. Min(all) = n + 1
      BY <3>1, MinOne
    <3> QED BY <1>5, <2>1, <2>3, <2>4, <2>6, <3>2
  <2>7. CASE old # {}
    <3>1. Min(all) = Min(old) /\ Min(old) \in 1 .. n
      BY <1>5, <2>2, <2>5, <2>7, MinGrows
    <3> QED BY <1>5, <2>3, <2>4, <2>7, <3>1
  <2> QED BY <2>6, <2>7
<1>9. ASSUME NEW g \in Holders, NEW s \in 1 .. V.snapshotCount PROVE BalAt(X, g, s) = BalAt(V, g, s)
  <2>1. CASE g = h
    BY <1>8, <2>1
  <2>2. CASE g # h
    BY <1>3, <1>6, <2>2 DEF BalAt
  <2> QED BY <2>1, <2>2
<1>10. Kept(X, V)
  BY <1>3, <1>4, <1>9 DEF Kept
<1>11. RecordOk(X)
  BY <1>2, <1>3, <1>7, <1>10, RecordKept
<1>12. PocketOk(X)
  BY <1>2, <1>3, <1>4, <1>10, PocketKept
<1>13. /\ PolicyFields \cap K = {} /\ MoneyFields \cap K = {} /\ PromiseFields \cap K = {}
       /\ LoanFields \cap K = {} /\ PriceFields \cap K = {} /\ StockFields \cap K = {}
       /\ RewardFields \cap K = {} /\ EndFields \cap K = {}
  BY DEF PolicyFields, MoneyFields, PromiseFields, LoanFields, PriceFields, StockFields, RewardFields, EndFields
<1> HIDE DEF K
<1>14. Sound(y)
  BY <1>1, <1>11, <1>12, <1>13, SoundFrame DEF Sound
<1> QED BY <1>1, <1>6, <1>10, <1>14 DEF y, K, r, q, e

\* Every write-down so far finds an entry of h.
Fresh(V, h) ==
  \A s \in 1 .. V.snapshotCount : {i \in DOMAIN V.snapshots[h] : V.snapshots[h][i].id >= s} # {}

\* Before a balance moves, its rewards are credited and its record is written.
LEMMA BeforeBalanceChangeKeeps ==
  ASSUME NEW w, Sound(w), NEW h \in Holders
  PROVE  LET y == BeforeBalanceChange(w, h)
         IN  /\ Sound(y) /\ Kept(y.v, w.v) /\ y.core = w.core /\ y.held = w.held
             /\ Same(y.v, w.v, Fields \ {"owed", "index", "liability", "snapshots"})
             /\ y.v.index[h] = y.v.accPerShare /\ Fresh(y.v, h)
<1> DEFINE x == IF Stale(w, h) THEN Noted(w, h) ELSE w
           y == SettleRewards(x, h)
           V == w.v
<1>1. BeforeBalanceChange(w, h) = y
  BY BeforeBalanceChangeIs
<1>2. RecordTypes(V) /\ RecordOk(V)
  BY DEF Sound, RecordOk
<1>3. /\ V.snapshots[h] \in Seq([id : Nat, balance : Nat]) /\ V.snapshotCount \in Nat
  BY <1>2 DEF RecordTypes
<1>4. /\ Sound(x) /\ Kept(x.v, V) /\ x.core = w.core /\ x.held = w.held
      /\ Same(x.v, V, Fields \ {"snapshots"})
      /\ Fresh(x.v, h)
  <2>1. CASE Stale(w, h)
    <3> DEFINE e == [id |-> V.snapshotCount, balance |-> V.balance[h]]
               r == Append(V.snapshots[h], e)
               n == Len(V.snapshots[h])
    <3>1. /\ Sound(x) /\ Kept(x.v, V) /\ x.core = w.core /\ x.held = w.held
          /\ Same(x.v, V, Fields \ {"snapshots"}) /\ x.v.snapshots[h] = r
      BY <2>1, NotedKeeps
    <3>2. x.v.snapshotCount = V.snapshotCount
      BY <3>1 DEF Same, Fields
    <3>3. n + 1 \in DOMAIN r /\ r[n + 1] = e
      <4>1. V.balance[h] \in Nat
        BY DEF Sound, StockOk
      <4>2. e \in [id : Nat, balance : Nat]
        BY <1>3, <4>1
      <4>3. n \in Nat /\ DOMAIN r = 1 .. n + 1 /\ r[n + 1] = e
        <5> DEFINE q == V.snapshots[h]
        <5>1. q \in Seq([id : Nat, balance : Nat])
          BY <1>3
        <5> HIDE DEF q, e
        <5>2. /\ Len(q) \in Nat /\ DOMAIN Append(q, e) = 1 .. Len(q) + 1
              /\ Append(q, e)[Len(q) + 1] = e
          BY <4>2, <5>1, SeqAt, AppendAt
        <5> QED BY <5>2 DEF q
      <4> HIDE DEF r, e, n
      <4> QED BY <4>3
    <3>4. e.id = V.snapshotCount
      OBVIOUS
    <3> HIDE DEF x, r, e
    <3>5. Fresh(x.v, h)
      BY <1>3, <3>1, <3>2, <3>3, <3>4 DEF Fresh
    <3> QED BY <3>1, <3>5
  <2>2. CASE ~ Stale(w, h)
    <3>1. x = w
      BY <2>2
    <3>2. Kept(V, V)
      BY <1>3 DEF Kept
    <3>3. ASSUME NEW s \in 1 .. V.snapshotCount
          PROVE  {i \in DOMAIN V.snapshots[h] : V.snapshots[h][i].id >= s} # {}
      <4>1. V.snapshotCount # 0
        BY <1>3
      <4>2. V.snapshots[h] # <<>> /\ ~ (Last(V.snapshots[h]).id < V.snapshotCount)
        BY <2>2, <4>1 DEF Stale
      <4> DEFINE q == V.snapshots[h]
                 n == Len(q)
      <4>3. n \in DOMAIN q /\ q[n].id \in Nat
        <5>1. n \in Nat /\ DOMAIN q = 1 .. n /\ (\A i \in 1 .. n : q[i] \in [id : Nat, balance : Nat]) /\ n # 0
          BY <1>3, <4>2, SeqAt, EmptySeq
        <5> HIDE DEF q, n
        <5> QED BY <5>1
      <4>4. q[n].id >= s
        <5>1. ~ (q[n].id < V.snapshotCount)
          BY <4>2 DEF Last
        <5> HIDE DEF q, n
        <5> QED BY <1>3, <4>3, <5>1
      <4> QED BY <4>3, <4>4
    <3> QED BY <3>1, <3>2, <3>3 DEF Fresh, Same
  <2> QED BY <2>1, <2>2
<1> HIDE DEF x
<1>5. /\ Sound(y) /\ Kept(y.v, x.v) /\ y.core = x.core /\ y.held = x.held
      /\ Same(y.v, x.v, Fields \ {"owed", "index", "liability"})
      /\ y.v.index[h] = y.v.accPerShare
  BY <1>4, SettleRewardsKeeps
<1> HIDE DEF y
<1>6. Fresh(y.v, h)
  <2>1. y.v.snapshots = x.v.snapshots /\ y.v.snapshotCount = x.v.snapshotCount
    BY <1>5 DEF Same, Fields
  <2> QED BY <1>4, <2>1 DEF Fresh
<1>7. Kept(y.v, V)
  <2>1. x.v.snapshotCount \in Nat /\ y.v.snapshotCount \in Nat
    BY <1>4, <1>5 DEF Sound, RecordOk, RecordTypes
  <2> QED BY <1>3, <1>4, <1>5, <2>1, KeptChain
<1>8. Same(y.v, V, Fields \ {"owed", "index", "liability", "snapshots"})
  BY <1>4, <1>5 DEF Same
<1> QED BY <1>1, <1>4, <1>5, <1>6, <1>7, <1>8


\* A balance moves that has no rewards waiting and whose record is written.
LEMMA BalanceMoves ==
  ASSUME NEW w, Sound(w), NEW h \in Holders, NEW b \in Nat, NEW y,
         Same(y.v, w.v, Fields \ {"balance", "supply", "accounted", "orphan"}),
         y.v.balance = [w.v.balance EXCEPT ![h] = b],
         y.v.supply = w.v.supply + (b - w.v.balance[h]),
         Fresh(w.v, h), w.v.index[h] = w.v.accPerShare
  PROVE  /\ StockOk(y.v) /\ RecordOk(y.v) /\ PocketOk(y.v) /\ Kept(y.v, w.v)
         /\ Unsettled(y.v) = Unsettled(w.v)
<1> DEFINE V == w.v
           X == y.v
<1>1. /\ StockOk(V) /\ RecordOk(V) /\ RecordTypes(V) /\ PocketOk(V) /\ RewardTypes(V)
      /\ V.balance \in [Holders -> Nat] /\ V.supply \in Nat
  BY DEF Sound, StockOk, RecordOk, RewardOk, RewardCore
<1>2. /\ X.lockedShares = V.lockedShares /\ X.requests = V.requests /\ X.head = V.head
      /\ X.pendingShares = V.pendingShares /\ X.snapshots = V.snapshots /\ X.snapshotCount = V.snapshotCount
      /\ X.loanSnapshot = V.loanSnapshot /\ X.loanSnapshotSupply = V.loanSnapshotSupply
      /\ X.overdue = V.overdue /\ X.pockets = V.pockets /\ X.pocketClaimed = V.pocketClaimed
      /\ X.pocketLiability = V.pocketLiability /\ X.accPerShare = V.accPerShare /\ X.index = V.index
  BY DEF Same, Fields
<1>3. /\ X.balance \in [Holders -> Nat] /\ X.balance[h] = b
      /\ \A g \in Holders \ {h} : X.balance[g] = V.balance[g]
  BY <1>1
<1>4. X.supply = SumHolders(X.balance) /\ X.supply \in Nat
  <2>1. \A g \in Holders : V.balance[g] \in Int /\ X.balance[g] \in Int
    BY <1>1, <1>3
  <2>2. X.balance[h] = V.balance[h] + (b - V.balance[h]) /\ b - V.balance[h] \in Int
    BY <1>1, <1>3
  <2>3. SumFunctionOnSet(X.balance, Holders) = SumFunctionOnSet(V.balance, Holders) + (b - V.balance[h])
    <3> DEFINE d == b - V.balance[h]
    <3> HIDE DEF d, V, X
    <3>1. d \in Int /\ X.balance[h] = V.balance[h] + d
      BY <2>2 DEF d
    <3>2. SumFunctionOnSet(X.balance, Holders) = SumFunctionOnSet(V.balance, Holders) + d
      BY <1>3, <2>1, <3>1, SumMoved, Parameters
    <3> QED BY <3>2 DEF d
  <2>4. V.supply = SumFunctionOnSet(V.balance, Holders)
    BY <1>1 DEF StockOk, SumHolders, SumOver
  <2>5. SumHolders(X.balance) \in Nat
    BY <1>3, HoldersNat
  <2> QED BY <2>3, <2>4, <2>5 DEF SumHolders, SumOver
<1>5. StockOk(X)
  <2>1. \A g \in Holders : Asked(X, g) = Asked(V, g)
    BY <1>2 DEF Asked
  <2> QED BY <1>1, <1>2, <1>3, <1>4, <2>1 DEF StockOk
<1>6. ASSUME NEW g \in Holders, NEW s \in 1 .. V.snapshotCount PROVE BalAt(X, g, s) = BalAt(V, g, s)
  <2>1. CASE g = h
    <3>1. {i \in DOMAIN V.snapshots[g] : V.snapshots[g][i].id >= s} # {} /\ s # 0
      BY <1>1, <2>1 DEF Fresh
    <3> QED BY <1>2, <3>1 DEF BalAt
  <2>2. CASE g # h
    BY <1>2, <1>3, <2>2 DEF BalAt
  <2> QED BY <2>1, <2>2
<1>7. Kept(X, V)
  BY <1>1, <1>2, <1>6 DEF Kept, RecordTypes
<1>8. RecordTypes(X)
  BY <1>1, <1>2 DEF RecordTypes
<1>9. RecordOk(X)
  BY <1>1, <1>2, <1>7, <1>8, RecordKept
<1>10. PocketOk(X)
  BY <1>1, <1>2, <1>7, PocketKept DEF RecordTypes
<1>11. Unsettled(X) = Unsettled(V)
  <2>1. \A g \in Holders : X.balance[g] * (X.accPerShare - X.index[g]) = V.balance[g] * (V.accPerShare - V.index[g])
    <3>1. V.accPerShare - V.index[h] = 0
      BY <1>1 DEF RewardTypes
    <3>2. X.balance[h] * 0 = V.balance[h] * 0
      BY <1>1, <1>3
    <3> QED BY <1>2, <1>3, <3>1, <3>2
  <2>2. [g \in Holders |-> X.balance[g] * (X.accPerShare - X.index[g])]
          = [g \in Holders |-> V.balance[g] * (V.accPerShare - V.index[g])]
    BY <2>1
  <2> QED BY <2>2 DEF Unsettled
<1> QED BY <1>5, <1>7, <1>9, <1>10, <1>11

\* The balances after a mint or a burn, and all that the two may write.
MoreAt(new, old, h, n) == new[h] = old[h] + n /\ \A x \in Holders \ {h} : new[x] = old[x]
LessAt(new, old, h, n) == new[h] = old[h] - n /\ \A x \in Holders \ {h} : new[x] = old[x]
BalanceFields == {"owed", "index", "liability", "snapshots", "balance", "supply", "accounted", "orphan"}

\* Shares are minted to a holder whose rewards are settled and whose record is written.
LEMMA MintKeeps ==
  ASSUME NEW w, Sound(w), NEW h \in Holders, NEW shares \in Nat
  PROVE  LET y == Mint(w, h, shares)
         IN  /\ Sound(y) /\ Kept(y.v, w.v) /\ y.core = w.core /\ y.held = w.held
             /\ Same(y.v, w.v, Fields \ BalanceFields) /\ MoreAt(y.v.balance, w.v.balance, h, shares)
<1> DEFINE x == BeforeBalanceChange(w, h)
           y == Issued(x, h, shares)
           K == {"balance", "supply"}
<1>1. Mint(w, h, shares) = y
  BY MintIs
<1>2. /\ Sound(x) /\ Kept(x.v, w.v) /\ x.core = w.core /\ x.held = w.held
      /\ Same(x.v, w.v, Fields \ {"owed", "index", "liability", "snapshots"})
      /\ x.v.index[h] = x.v.accPerShare /\ Fresh(x.v, h)
  BY BeforeBalanceChangeKeeps
<1> HIDE DEF x
<1>3. /\ Shape(y) /\ y.core = x.core /\ y.held = x.held /\ Same(y.v, x.v, Fields \ K)
      /\ y.v.balance = [x.v.balance EXCEPT ![h] = x.v.balance[h] + shares]
      /\ y.v.supply = x.v.supply + shares
  <2>1. Shape(x)
    BY <1>2 DEF Sound
  <2>2. IssuedWrote(y, x, h, shares)
    BY <2>1, IssuedDoes
  <2> HIDE DEF y
  <2> QED BY <2>2 DEF IssuedWrote
<1> HIDE DEF y
<1>4. x.v.balance \in [Holders -> Nat] /\ x.v.balance = w.v.balance
  BY <1>2 DEF Sound, StockOk, Same, Fields
<1> DEFINE b == x.v.balance[h] + shares
<1>5. b \in Nat /\ shares = b - x.v.balance[h]
  BY <1>4
<1>6. Same(y.v, x.v, Fields \ {"balance", "supply", "accounted", "orphan"})
  BY <1>3 DEF Same
<1>7. y.v.balance = [x.v.balance EXCEPT ![h] = b] /\ y.v.supply = x.v.supply + (b - x.v.balance[h])
  BY <1>3, <1>5
<1> HIDE DEF b
<1>8. StockOk(y.v) /\ RecordOk(y.v) /\ PocketOk(y.v) /\ Kept(y.v, x.v) /\ Unsettled(y.v) = Unsettled(x.v)
  BY <1>2, <1>5, <1>6, <1>7, BalanceMoves
<1>9. RewardOk(y.v, y.core, y.held)
  <2>1. /\ y.v.accPerShare = x.v.accPerShare /\ y.v.orphan = x.v.orphan /\ y.v.accounted = x.v.accounted
        /\ y.v.liability = x.v.liability /\ y.v.observed = x.v.observed /\ y.v.index = x.v.index
        /\ y.v.owed = x.v.owed /\ y.v.pocketLiability = x.v.pocketLiability
    BY <1>3 DEF Same, Fields
  <2>2. Announced(y.v, y.core) = Announced(x.v, x.core)
    BY <1>3, <2>1 DEF Announced
  <2> QED BY <1>2, <1>3, <1>8, <2>1, <2>2 DEF Sound, RewardOk, RewardCore, RewardTypes
<1>10. /\ PolicyFields \cap K = {} /\ MoneyFields \cap K = {} /\ PromiseFields \cap K = {}
       /\ LoanFields \cap K = {} /\ PriceFields \cap K = {} /\ EndFields \cap K = {}
  BY DEF PolicyFields, MoneyFields, PromiseFields, LoanFields, PriceFields, EndFields
<1>11. Sound(y)
  <2> HIDE DEF K
  <2> QED BY <1>2, <1>3, <1>8, <1>9, <1>10, SoundFrame DEF Sound
<1>12. Same(y.v, w.v, Fields \ BalanceFields) /\ MoreAt(y.v.balance, w.v.balance, h, shares)
  BY <1>2, <1>3, <1>4 DEF Same, BalanceFields, MoreAt
<1>13. Kept(y.v, w.v)
  <2>1. w.v.snapshotCount \in Nat /\ x.v.snapshotCount \in Nat /\ y.v.snapshotCount \in Nat
    BY <1>2, <1>11 DEF Sound, RecordOk, RecordTypes
  <2> QED BY <1>2, <1>8, <2>1, KeptChain
<1> QED BY <1>1, <1>2, <1>3, <1>4, <1>11, <1>12, <1>13

\* What the rewards' book promises holders is no more than what it accounts for.
LEMMA LiabilityCovered ==
  ASSUME NEW w, Sound(w)
  PROVE  /\ w.v.liability <= w.v.accounted /\ Unsettled(w.v) \in Nat
         /\ w.v.liability \in Nat /\ w.v.accounted \in Nat
<1>1. RewardTypes(w.v) /\ RewardOk(w.v, w.core, w.held) /\ w.v.balance \in [Holders -> Nat]
  BY DEF Sound, RewardOk, RewardCore, StockOk
<1> DEFINE f == [h \in Holders |-> w.v.balance[h] * (w.v.accPerShare - w.v.index[h])]
<1>2. ASSUME NEW h \in Holders PROVE f[h] \in Nat
  <2>1. w.v.balance[h] \in Nat /\ w.v.accPerShare - w.v.index[h] \in Nat
    BY <1>1 DEF RewardTypes
  <2> QED BY <2>1, ProductNat
<1>3. Unsettled(w.v) \in Nat
  <2>1. Unsettled(w.v) = SumHolders(f)
    BY DEF Unsettled
  <2> HIDE DEF f
  <2> QED BY <1>2, <2>1, HoldersNat
<1> DEFINE l == w.v.liability
           a == w.v.accounted
<1>4. l \in Nat /\ a \in Nat /\ REWARD_PRECISION \in Nat \ {0}
  BY <1>1, Parameters DEF RewardTypes
<1>5. REWARD_PRECISION * l + Unsettled(w.v) <= REWARD_PRECISION * a
  BY <1>1 DEF RewardOk, RewardCore
<1> HIDE DEF l, a
<1>6. REWARD_PRECISION * l <= REWARD_PRECISION * a
  <2>1. REWARD_PRECISION * l \in Nat /\ REWARD_PRECISION * a \in Nat
    BY <1>4
  <2> QED BY <1>3, <1>5, <2>1
<1>7. l <= a
  BY <1>4, <1>6
<1> QED BY <1>3, <1>4, <1>7 DEF l, a

\* Shares are burned; with the last one, the rewards nobody can claim are set aside.
LEMMA BurnKeeps ==
  ASSUME NEW w, Sound(w), NEW h \in Holders, NEW shares \in Nat, shares <= w.v.balance[h]
  PROVE  LET y == Burn(w, h, shares)
         IN  /\ Sound(y) /\ Kept(y.v, w.v) /\ y.core = w.core /\ y.held = w.held
             /\ Same(y.v, w.v, Fields \ BalanceFields) /\ LessAt(y.v.balance, w.v.balance, h, shares)
<1> DEFINE x == BeforeBalanceChange(w, h)
           y == Retracted(x, h, shares)
           K == {"balance", "supply", "accounted", "orphan"}
           dust == Dust(x, shares)
<1>1. Burn(w, h, shares) = y
  BY BurnIs
<1>2. /\ Sound(x) /\ Kept(x.v, w.v) /\ x.core = w.core /\ x.held = w.held
      /\ Same(x.v, w.v, Fields \ {"owed", "index", "liability", "snapshots"})
      /\ x.v.index[h] = x.v.accPerShare /\ Fresh(x.v, h)
  BY BeforeBalanceChangeKeeps
<1> HIDE DEF x
<1>3. /\ Shape(y) /\ y.core = x.core /\ y.held = x.held /\ Same(y.v, x.v, Fields \ K)
      /\ y.v.balance = [x.v.balance EXCEPT ![h] = x.v.balance[h] - shares]
      /\ y.v.supply = x.v.supply - shares
      /\ y.v.accounted = x.v.accounted - dust
      /\ y.v.orphan = x.v.orphan + dust
  <2>1. Shape(x)
    BY <1>2 DEF Sound
  <2>2. RetractedWrote(y, x, h, shares)
    BY <2>1, RetractedDoes
  <2> HIDE DEF y
  <2> QED BY <2>2 DEF RetractedWrote
<1> HIDE DEF y
<1>4. /\ x.v.balance \in [Holders -> Nat] /\ x.v.balance = w.v.balance /\ x.v.supply \in Nat
      /\ x.v.supply = w.v.supply
  BY <1>2 DEF Sound, StockOk, Same, Fields
<1> DEFINE b == x.v.balance[h] - shares
<1>5. b \in Nat /\ x.v.supply - shares = x.v.supply + (b - x.v.balance[h])
  BY <1>4
<1>6. y.v.balance = [x.v.balance EXCEPT ![h] = b] /\ y.v.supply = x.v.supply + (b - x.v.balance[h])
  BY <1>3, <1>5
<1> HIDE DEF b
<1>7. StockOk(y.v) /\ RecordOk(y.v) /\ PocketOk(y.v) /\ Kept(y.v, x.v) /\ Unsettled(y.v) = Unsettled(x.v)
  <2>1. Same(y.v, x.v, Fields \ {"balance", "supply", "accounted", "orphan"}) /\ b \in Nat
    BY <1>3, <1>5
  <2> HIDE DEF K
  <2> QED BY <1>2, <1>6, <2>1, BalanceMoves
<1>8. /\ y.v.accPerShare = x.v.accPerShare /\ y.v.liability = x.v.liability
      /\ y.v.observed = x.v.observed /\ y.v.index = x.v.index
      /\ y.v.owed = x.v.owed /\ y.v.pocketLiability = x.v.pocketLiability
  BY <1>3 DEF Same, Fields
<1>9. /\ x.v.liability <= x.v.accounted /\ x.v.liability \in Nat /\ x.v.accounted \in Nat
      /\ Unsettled(x.v) \in Nat
  BY <1>2, LiabilityCovered
<1>10. /\ dust \in Nat /\ y.v.accounted \in Nat /\ y.v.liability <= y.v.accounted
       /\ dust = 0 \/ (shares = x.v.supply /\ y.v.accounted = y.v.liability)
  BY <1>3, <1>8, <1>9 DEF Dust
<1>11. REWARD_PRECISION * y.v.liability + Unsettled(y.v) <= REWARD_PRECISION * y.v.accounted
  <2>1. CASE dust = 0
    BY <1>2, <1>3, <1>7, <1>8, <1>9, <2>1 DEF Sound, RewardOk, RewardCore
  <2>2. CASE shares = x.v.supply /\ y.v.accounted = y.v.liability
    <3>1. y.v.supply = 0 /\ y.v.balance \in [Holders -> Nat] /\ y.v.supply = SumHolders(y.v.balance)
      BY <1>3, <1>4, <1>7, <2>2 DEF StockOk
    <3>2. \A g \in Holders : y.v.balance[g] = 0
      <4>1. ASSUME NEW g \in Holders PROVE y.v.balance[g] <= SumFunctionOnSet(y.v.balance, Holders)
        BY <3>1, SumCovers, Parameters
      <4> QED BY <3>1, <4>1 DEF SumHolders, SumOver
    <3>3. \A g \in Holders : y.v.balance[g] * (y.v.accPerShare - y.v.index[g]) = 0
      BY <1>2, <1>8, <3>2 DEF Sound, RewardOk, RewardCore, RewardTypes
    <3>4. Unsettled(y.v) = 0
      <4> DEFINE f == [g \in Holders |-> y.v.balance[g] * (y.v.accPerShare - y.v.index[g])]
      <4>1. \A g \in Holders : f[g] = 0
        BY <3>3
      <4>2. Unsettled(y.v) = SumFunctionOnSet(f, Holders)
        BY DEF Unsettled, SumHolders, SumOver
      <4> HIDE DEF f
      <4> QED BY <4>1, <4>2, SumZero, Parameters
    <3>5. REWARD_PRECISION * y.v.liability \in Nat
      BY <1>8, <1>9, Parameters
    <3> QED BY <2>2, <3>4, <3>5
  <2> QED BY <1>10, <2>1, <2>2
<1>12. RewardOk(y.v, y.core, y.held)
  <2>1. Announced(y.v, y.core) = Announced(x.v, x.core)
    BY <1>3, <1>8 DEF Announced
  <2>2. RewardTypes(x.v) /\ RewardOk(x.v, x.core, x.held)
    BY <1>2 DEF Sound, RewardOk, RewardCore
  <2>3. y.v.orphan \in Nat /\ y.v.accounted + y.v.orphan = x.v.accounted + x.v.orphan
    BY <1>3, <1>9, <1>10, <2>2 DEF RewardTypes
  <2>4. RewardTypes(y.v)
    BY <1>8, <1>10, <2>2, <2>3 DEF RewardTypes
  <2> QED BY <1>3, <1>8, <1>11, <2>1, <2>2, <2>3, <2>4 DEF RewardOk, RewardCore
<1>13. /\ PolicyFields \cap K = {} /\ MoneyFields \cap K = {} /\ PromiseFields \cap K = {}
       /\ LoanFields \cap K = {} /\ PriceFields \cap K = {} /\ EndFields \cap K = {}
  BY DEF PolicyFields, MoneyFields, PromiseFields, LoanFields, PriceFields, EndFields
<1>14. Sound(y)
  <2> HIDE DEF K
  <2> QED BY <1>2, <1>3, <1>7, <1>12, <1>13, SoundFrame DEF Sound
<1>15. Same(y.v, w.v, Fields \ BalanceFields) /\ LessAt(y.v.balance, w.v.balance, h, shares)
  BY <1>2, <1>3, <1>4 DEF Same, BalanceFields, LessAt
<1>16. Kept(y.v, w.v)
  <2>1. w.v.snapshotCount \in Nat /\ x.v.snapshotCount \in Nat /\ y.v.snapshotCount \in Nat
    BY <1>2, <1>14 DEF Sound, RecordOk, RecordTypes
  <2> QED BY <1>2, <1>7, <2>1, KeptChain
<1> QED BY <1>1, <1>2, <1>3, <1>4, <1>14, <1>15, <1>16


(***************************************************************************)
(* Cash and the share price.                                               *)
(***************************************************************************)
Keeps(y, w) == Sound(y) /\ Kept(y.v, w.v)

\* Two steps that keep the books keep them together.
LEMMA KeepsChain == ASSUME NEW w, Sound(w), NEW y, Keeps(y, w), NEW z, Keeps(z, y) PROVE Keeps(z, w)
<1>1. w.v.snapshotCount \in Nat /\ y.v.snapshotCount \in Nat /\ z.v.snapshotCount \in Nat
  BY DEF Keeps, Sound, RecordOk, RecordTypes
<1> QED BY <1>1, KeptChain DEF Keeps

\* Doing nothing keeps the books.
LEMMA KeepsSelf == ASSUME NEW w, Sound(w) PROVE Keeps(w, w)
BY DEF Keeps, Kept, Sound, RecordOk, RecordTypes

\* A strategy in order has its fields.
LEMMA SoundShape == ASSUME NEW w, Sound(w) PROVE Shape(w)
BY DEF Sound

\* Every claim on the cash is a natural number, and one part of the whole.
LEMMA ClaimsCover ==
  ASSUME NEW V, NEW H, MoneyOk(V, H), PromiseOk(V, H)
  PROVE  /\ V.cash \in Nat /\ V.feeAccrued \in Nat /\ V.harvested \in Nat /\ V.assigned \in Nat
         /\ V.claimableTotal \in Nat /\ V.pocketLiability["USDG"] \in Nat /\ H["USDG"] \in Nat
         /\ V.assigned <= V.harvested /\ Claims(V) \in Nat /\ Claims(V) <= H["USDG"]
         /\ V.cash <= Claims(V) /\ V.feeAccrued <= Claims(V) /\ V.claimableTotal <= Claims(V)
         /\ V.pocketLiability["USDG"] <= Claims(V)
<1>1. V.claimableTotal \in Nat
  BY HoldersNat DEF MoneyOk
<1>2. V.pocketLiability["USDG"] \in Nat /\ H["USDG"] \in Nat
  BY Parameters DEF PromiseOk
<1>3. /\ V.cash \in Nat /\ V.feeAccrued \in Nat /\ V.harvested \in Nat /\ V.assigned \in Nat
      /\ V.assigned <= V.harvested /\ Claims(V) <= H["USDG"]
  BY DEF MoneyOk
<1> QED BY <1>1, <1>2, <1>3 DEF Claims

CashFields ==
  {"cash", "feeAccrued", "claimable", "claimableTotal", "harvested", "assigned",
   "lockedProfit", "unlockStart", "unlockEnd", "highWater", "reserveShares"}

\* A step that moves cash, claims on it and the share price only.
LEMMA CashFrame ==
  ASSUME NEW w, Sound(w), NEW y, Shape(y), Same(y.v, w.v, Fields \ CashFields),
         y.core.deal = w.core.deal, y.core.reward = w.core.reward, y.core.credit \in Nat,
         y.held \in [Tokens -> Nat], \A t \in Tokens \ {"USDG"} : y.held[t] = w.held[t],
         MoneyOk(y.v, y.held), PriceOk(y.v)
  PROVE  Keeps(y, w)
<1>1. /\ PolicyFields \cap CashFields = {} /\ PromiseFields \cap CashFields = {} /\ RewardFields \cap CashFields = {}
      /\ LoanFields \cap CashFields = {} /\ StockFields \cap CashFields = {} /\ RecordFields \cap CashFields = {}
      /\ PocketFields \cap CashFields = {} /\ EndFields \cap CashFields = {}
  BY DEF PolicyFields, PromiseFields, RewardFields, LoanFields, StockFields, RecordFields, PocketFields, EndFields,
         CashFields
<1>2. y.held["SGAGE"] = w.held["SGAGE"]
  <2>1. "SGAGE" \in Tokens \ {"USDG"}
    BY Parameters
  <2> QED BY <2>1
<1>3. /\ PolicyOk(y.v) /\ RewardOk(y.v, y.core, y.held) /\ LoanOk(y.v) /\ StockOk(y.v)
      /\ RecordOk(y.v) /\ Kept(y.v, w.v) /\ PocketOk(y.v) /\ EndOk(y.v, y.core)
  BY <1>1, <1>2, SoundFrame
<1>4. CoreOk(y.core)
  BY DEF Sound, CoreOk
<1>5. PromiseOk(y.v, y.held)
  <2>1. PromiseOk(w.v, w.held)
    BY DEF Sound
  <2>2. y.v.pocketLiability = w.v.pocketLiability
    BY DEF Same, Fields, CashFields
  <2>3. y.v.pocketLiability["USDG"] <= y.held["USDG"]
    <3>1. PromiseOk(w.v, [t \in Tokens |-> y.v.pocketLiability[t]])
      BY <2>1, <2>2 DEF PromiseOk
    <3>2. y.v.claimableTotal \in Nat /\ y.v.pocketLiability["USDG"] \in Nat /\ y.held["USDG"] \in Nat
      BY <2>1, <2>2, HoldersNat, Parameters DEF MoneyOk, PromiseOk
    <3>3. /\ y.v.cash \in Nat /\ y.v.feeAccrued \in Nat /\ y.v.harvested \in Nat /\ y.v.assigned \in Nat
          /\ y.v.assigned <= y.v.harvested /\ Claims(y.v) <= y.held["USDG"]
      BY DEF MoneyOk
    <3> QED BY <3>2, <3>3 DEF Claims
  <2>4. ASSUME NEW t \in Tokens PROVE y.v.pocketLiability[t] <= y.held[t]
    BY <2>1, <2>2, <2>3 DEF PromiseOk
  <2> QED BY <2>1, <2>2, <2>4 DEF PromiseOk
<1> QED BY <1>3, <1>4, <1>5 DEF Keeps, Sound

\* The reserve pays what the cash lacks and burns no more shares than there are.
LEMMA PayOutKeeps ==
  ASSUME NEW w, Sound(w), EnvOk, NEW assets \in Nat, CanPayOut(w, assets)
  PROVE  LET y == PayOut(w, assets)
         IN  /\ Keeps(y, w) /\ y.core = w.core
             /\ Claims(y.v) + assets <= y.held["USDG"]
             /\ Same(y.v, w.v, Fields \ {"cash", "reserveShares"})
<1> DEFINE y == PayOut(w, assets)
           need == FromReserve(w, assets)
           burned == Burned(w, assets)
<1>1. PayOutWrote(y, w, assets)
  BY SoundShape, PayOutDoes
<1> HIDE DEF y
<1>2. /\ Shape(y) /\ y.core = w.core /\ y.held = [w.held EXCEPT !["USDG"] = w.held["USDG"] + need]
      /\ y.v.cash = Over(w.v.cash, assets) /\ y.v.reserveShares = w.v.reserveShares - burned
      /\ Same(y.v, w.v, Fields \ {"cash", "reserveShares"})
  BY <1>1 DEF PayOutWrote
<1>3. MoneyOk(w.v, w.held) /\ PromiseOk(w.v, w.held) /\ w.held \in [Tokens -> Nat] /\ PriceOk(w.v) /\ CoreOk(w.core)
  BY DEF Sound, PromiseOk
<1>4. /\ w.v.cash \in Nat /\ w.v.feeAccrued \in Nat /\ w.v.harvested \in Nat /\ w.v.assigned \in Nat
      /\ w.v.claimableTotal \in Nat /\ w.v.pocketLiability["USDG"] \in Nat
      /\ w.v.assigned <= w.v.harvested /\ Claims(w.v) \in Nat /\ Claims(w.v) <= w.held["USDG"]
  BY <1>3, ClaimsCover
<1>5. /\ y.v.feeAccrued = w.v.feeAccrued /\ y.v.harvested = w.v.harvested /\ y.v.assigned = w.v.assigned
      /\ y.v.claimable = w.v.claimable /\ y.v.claimableTotal = w.v.claimableTotal
      /\ y.v.pocketLiability = w.v.pocketLiability /\ y.v.lockedProfit = w.v.lockedProfit
      /\ y.v.unlockStart = w.v.unlockStart /\ y.v.unlockEnd = w.v.unlockEnd /\ y.v.highWater = w.v.highWater
  BY <1>2 DEF Same, Fields
<1>6. need = Over(assets, w.v.cash) /\ need \in Nat /\ Over(w.v.cash, assets) \in Nat
      /\ Over(w.v.cash, assets) + assets = w.v.cash + need
  BY <1>4 DEF FromReserve, Over
<1>7. burned \in Nat /\ burned <= w.v.reserveShares
  <2> DEFINE r == reserve.rate
             n == w.v.reserveShares
  <2>1. r \in Nat \ {0} /\ n \in Nat
    BY <1>3 DEF EnvOk, PriceOk
  <2>2. need <= n * r
    <3>1. need # 0 => need <= n * r
      BY DEF CanPayOut, ReserveValue
    <3>2. n * r \in Nat
      BY <2>1
    <3> QED BY <1>6, <3>1, <3>2
  <2>3. burned = (need + r - 1) \div r
    BY DEF Burned, Ceil
  <2> HIDE DEF r, n, need, burned
  <2>4. need + r - 1 \in Nat /\ need + r - 1 <= n * r + (r - 1) /\ n * r \in Nat
    BY <1>6, <2>1, <2>2
  <2>5. burned \in Nat /\ burned * r <= need + r - 1
    BY <2>1, <2>3, <2>4, QuotientNat
  <2>6. SUFFICES ASSUME ~ (burned <= n) PROVE FALSE
    BY <2>5 DEF n
  <2>7. n + 1 <= burned
    BY <2>1, <2>5, <2>6
  <2>8. (n + 1) * r <= burned * r
    BY <2>1, <2>5, <2>7, ProductGrows
  <2>9. (n + 1) * r = n * r + r /\ burned * r \in Nat
    BY <2>1, <2>5
  <2> QED BY <2>1, <2>4, <2>5, <2>8, <2>9
<1>8. /\ y.held \in [Tokens -> Nat] /\ y.held["USDG"] = w.held["USDG"] + need
      /\ \A t \in Tokens \ {"USDG"} : y.held[t] = w.held[t]
  BY <1>2, <1>3, <1>6, Parameters
<1> HIDE DEF need, burned
<1>9. Claims(y.v) + assets = Claims(w.v) + need
  BY <1>2, <1>4, <1>5, <1>6 DEF Claims
<1>10. w.held["USDG"] \in Nat
  BY <1>3, Parameters
<1>11. Claims(y.v) \in Int /\ Claims(y.v) + assets <= y.held["USDG"] /\ Claims(y.v) <= y.held["USDG"]
  <2>1. Claims(y.v) \in Int
    BY <1>2, <1>4, <1>5, <1>6 DEF Claims
  <2> QED BY <1>4, <1>6, <1>8, <1>9, <1>10, <2>1
<1>12. MoneyOk(y.v, y.held)
  BY <1>2, <1>3, <1>5, <1>6, <1>11 DEF MoneyOk
<1>13. PriceOk(y.v)
  <2>1. y.v.reserveShares \in Nat
    BY <1>2, <1>3, <1>7 DEF PriceOk
  <2> QED BY <1>3, <1>5, <2>1 DEF PriceOk
<1>14. Same(y.v, w.v, Fields \ CashFields)
  BY <1>2 DEF Same, CashFields
<1>15. Keeps(y, w)
  BY <1>2, <1>3, <1>8, <1>12, <1>13, <1>14, CashFrame DEF CoreOk
<1> QED BY <1>2, <1>11, <1>15 DEF y

\* Cash that comes in is counted at once.
LEMMA ReceiveKeeps ==
  ASSUME NEW w, Sound(w), NEW amount \in Nat
  PROVE  LET y == Receive(w, amount)
         IN  Keeps(y, w) /\ y.core = w.core /\ Same(y.v, w.v, Fields \ {"cash"})
<1> DEFINE y == Receive(w, amount)
<1>1. ReceiveWrote(y, w, amount)
  BY SoundShape, ReceiveDoes
<1> HIDE DEF y
<1>2. /\ Shape(y) /\ y.core = w.core /\ y.held = [w.held EXCEPT !["USDG"] = w.held["USDG"] + amount]
      /\ y.v.cash = w.v.cash + amount /\ Same(y.v, w.v, Fields \ {"cash"})
  BY <1>1 DEF ReceiveWrote
<1>3. MoneyOk(w.v, w.held) /\ PromiseOk(w.v, w.held) /\ w.held \in [Tokens -> Nat] /\ PriceOk(w.v) /\ CoreOk(w.core)
  BY DEF Sound, PromiseOk
<1>4. /\ w.v.cash \in Nat /\ w.v.feeAccrued \in Nat /\ w.v.harvested \in Nat /\ w.v.assigned \in Nat
      /\ w.v.claimableTotal \in Nat /\ w.v.pocketLiability["USDG"] \in Nat /\ w.held["USDG"] \in Nat
      /\ Claims(w.v) \in Nat /\ Claims(w.v) <= w.held["USDG"]
  BY <1>3, ClaimsCover
<1>5. /\ y.v.feeAccrued = w.v.feeAccrued /\ y.v.harvested = w.v.harvested /\ y.v.assigned = w.v.assigned
      /\ y.v.claimable = w.v.claimable /\ y.v.claimableTotal = w.v.claimableTotal
      /\ y.v.pocketLiability = w.v.pocketLiability /\ y.v.lockedProfit = w.v.lockedProfit
      /\ y.v.unlockStart = w.v.unlockStart /\ y.v.unlockEnd = w.v.unlockEnd /\ y.v.highWater = w.v.highWater
      /\ y.v.reserveShares = w.v.reserveShares
  BY <1>2 DEF Same, Fields
<1>6. /\ y.held \in [Tokens -> Nat] /\ y.held["USDG"] = w.held["USDG"] + amount
      /\ \A t \in Tokens \ {"USDG"} : y.held[t] = w.held[t]
  BY <1>2, <1>3, Parameters
<1>7. Claims(y.v) <= y.held["USDG"]
  BY <1>2, <1>4, <1>5, <1>6 DEF Claims
<1>8. MoneyOk(y.v, y.held) /\ PriceOk(y.v)
  BY <1>2, <1>3, <1>4, <1>5, <1>7 DEF MoneyOk, PriceOk
<1>9. Same(y.v, w.v, Fields \ CashFields)
  BY <1>2 DEF Same, CashFields
<1> QED BY <1>2, <1>3, <1>6, <1>8, <1>9, CashFrame DEF CoreOk, y

\* USDG that nothing claims may leave.
LEMMA SendKeeps ==
  ASSUME NEW w, Sound(w), NEW amount \in Nat, Claims(w.v) + amount <= w.held["USDG"]
  PROVE  LET y == Send(w, "USDG", amount) IN Keeps(y, w) /\ y.core = w.core /\ y.v = w.v
<1> DEFINE y == Send(w, "USDG", amount)
<1>1. SendWrote(y, w, "USDG", amount)
  BY SoundShape, SendDoes
<1> HIDE DEF y
<1>2. Shape(y) /\ y.core = w.core /\ y.held = [w.held EXCEPT !["USDG"] = w.held["USDG"] - amount] /\ y.v = w.v
  BY <1>1 DEF SendWrote
<1>3. MoneyOk(w.v, w.held) /\ PromiseOk(w.v, w.held) /\ w.held \in [Tokens -> Nat] /\ PriceOk(w.v) /\ CoreOk(w.core)
  BY DEF Sound, PromiseOk
<1>4. Claims(w.v) \in Nat /\ w.held["USDG"] \in Nat
  BY <1>3, ClaimsCover
<1>5. w.held["USDG"] - amount \in Nat /\ Claims(w.v) <= w.held["USDG"] - amount
  BY <1>4
<1>6. /\ y.held \in [Tokens -> Nat] /\ y.held["USDG"] = w.held["USDG"] - amount
      /\ \A t \in Tokens \ {"USDG"} : y.held[t] = w.held[t]
  BY <1>2, <1>3, <1>5, Parameters
<1>7. MoneyOk(y.v, y.held) /\ PriceOk(y.v)
  BY <1>2, <1>3, <1>5, <1>6 DEF MoneyOk
<1>8. Same(y.v, w.v, Fields \ CashFields)
  BY <1>2 DEF Same
<1> QED BY <1>2, <1>3, <1>6, <1>7, <1>8, CashFrame DEF CoreOk, y

\* Cash that arrived unannounced, and what is fetched from the loan engine, is harvested once.
LEMMA HarvestCashKeeps ==
  ASSUME NEW w, Sound(w)
  PROVE  LET y == HarvestCash(w)
         IN  /\ Keeps(y, w) /\ y.core.deal = w.core.deal /\ y.core.reward = w.core.reward
             /\ Same(y.v, w.v, Fields \ {"harvested"})
<1> DEFINE x == ReconcileCash(w)
<1>1. ReconcileCashWrote(x, w)
  BY SoundShape, ReconcileCashDoes
<1> HIDE DEF x
<1> DEFINE new == Over(w.held["USDG"], Accounted(w))
<1>2. /\ Shape(x) /\ x.core = w.core /\ x.held = w.held /\ x.v.harvested = w.v.harvested + new
      /\ Same(x.v, w.v, Fields \ {"harvested"})
  BY <1>1 DEF ReconcileCashWrote
<1>3. MoneyOk(w.v, w.held) /\ PromiseOk(w.v, w.held) /\ w.held \in [Tokens -> Nat] /\ PriceOk(w.v) /\ CoreOk(w.core)
  BY DEF Sound, PromiseOk
<1>4. /\ w.v.cash \in Nat /\ w.v.feeAccrued \in Nat /\ w.v.harvested \in Nat /\ w.v.assigned \in Nat
      /\ w.v.claimableTotal \in Nat /\ w.v.pocketLiability["USDG"] \in Nat /\ w.held["USDG"] \in Nat
      /\ w.v.assigned <= w.v.harvested /\ Claims(w.v) \in Nat /\ Claims(w.v) <= w.held["USDG"]
  BY <1>3, ClaimsCover
<1>5. new \in Nat /\ Claims(w.v) + new <= w.held["USDG"]
  <2>1. Accounted(w) = Claims(w.v)
    BY DEF Accounted, Claims
  <2> QED BY <1>4, <2>1 DEF Over
<1> HIDE DEF new
<1>6. /\ x.v.cash = w.v.cash /\ x.v.feeAccrued = w.v.feeAccrued /\ x.v.assigned = w.v.assigned
      /\ x.v.claimable = w.v.claimable /\ x.v.claimableTotal = w.v.claimableTotal
      /\ x.v.pocketLiability = w.v.pocketLiability /\ x.v.lockedProfit = w.v.lockedProfit
      /\ x.v.unlockStart = w.v.unlockStart /\ x.v.unlockEnd = w.v.unlockEnd /\ x.v.highWater = w.v.highWater
      /\ x.v.reserveShares = w.v.reserveShares
  BY <1>2 DEF Same, Fields
<1>7. Claims(x.v) <= w.held["USDG"] /\ x.v.harvested \in Nat /\ x.v.assigned <= x.v.harvested
  BY <1>2, <1>4, <1>5, <1>6 DEF Claims
<1>8. Keeps(x, w)
  <2>1. MoneyOk(x.v, x.held) /\ PriceOk(x.v)
    BY <1>2, <1>3, <1>4, <1>6, <1>7 DEF MoneyOk, PriceOk
  <2>2. Same(x.v, w.v, Fields \ CashFields)
    BY <1>2 DEF Same, CashFields
  <2> QED BY <1>2, <1>3, <2>1, <2>2, CashFrame DEF CoreOk
<1>9. CASE "USDG" \in stopped
  <2>1. HarvestCash(w) = x
    BY <1>9, HarvestCashIs DEF x
  <2> QED BY <1>2, <1>8, <2>1
<1>10. CASE "USDG" \notin stopped
  <2> DEFINE y == Collected(x)
  <2>1. HarvestCash(w) = y
    BY <1>10, HarvestCashIs DEF x
  <2>2. CollectedWrote(y, x)
    BY <1>2, CollectedDoes
  <2> HIDE DEF y
  <2>3. /\ Shape(y) /\ y.core = [x.core EXCEPT !.credit = 0]
        /\ y.held = [x.held EXCEPT !["USDG"] = x.held["USDG"] + x.core.credit]
        /\ y.v.harvested = x.v.harvested + x.core.credit /\ Same(y.v, x.v, Fields \ {"harvested"})
    BY <2>2 DEF CollectedWrote
  <2>4. /\ y.core.credit = 0 /\ y.core.deal = x.core.deal /\ y.core.reward = x.core.reward
        /\ x.core.credit \in Nat
    BY <1>2, <1>3, <2>3 DEF CoreOk, Shape
  <2>5. /\ y.held \in [Tokens -> Nat] /\ y.held["USDG"] = w.held["USDG"] + x.core.credit
        /\ \A t \in Tokens \ {"USDG"} : y.held[t] = x.held[t]
    BY <1>2, <1>3, <2>3, <2>4, Parameters
  <2>6. /\ y.v.cash = w.v.cash /\ y.v.feeAccrued = w.v.feeAccrued /\ y.v.assigned = w.v.assigned
        /\ y.v.claimable = w.v.claimable /\ y.v.claimableTotal = w.v.claimableTotal
        /\ y.v.pocketLiability = w.v.pocketLiability /\ y.v.lockedProfit = w.v.lockedProfit
        /\ y.v.unlockStart = w.v.unlockStart /\ y.v.unlockEnd = w.v.unlockEnd /\ y.v.highWater = w.v.highWater
        /\ y.v.reserveShares = w.v.reserveShares
    BY <1>6, <2>3 DEF Same, Fields
  <2> DEFINE c == x.core.credit
  <2> HIDE DEF c
  <2>7. c \in Nat /\ y.v.harvested = x.v.harvested + c /\ y.held["USDG"] = w.held["USDG"] + c
    BY <2>3, <2>4, <2>5 DEF c
  <2>8. Claims(y.v) <= y.held["USDG"] /\ y.v.harvested \in Nat /\ y.v.assigned <= y.v.harvested
    BY <1>4, <1>6, <1>7, <2>6, <2>7 DEF Claims
  <2>9. MoneyOk(y.v, y.held) /\ PriceOk(y.v)
    BY <1>3, <1>4, <2>6, <2>8 DEF MoneyOk, PriceOk
  <2>10. Same(y.v, x.v, Fields \ CashFields)
    BY <2>3 DEF Same, CashFields
  <2>11. Keeps(y, x)
    <3>1. Sound(x) /\ y.core.credit \in Nat
      BY <1>8, <2>4 DEF Keeps
    <3> QED BY <2>3, <2>4, <2>5, <2>9, <2>10, <3>1, CashFrame
  <2>12. Keeps(y, w)
    BY <1>8, <2>11, KeepsChain
  <2>13. Same(y.v, w.v, Fields \ {"harvested"})
    BY <1>2, <2>3 DEF Same
  <2> QED BY <1>2, <2>1, <2>4, <2>12, <2>13
<1> QED BY <1>9, <1>10


\* A sum over fewer deals is no larger.
LEMMA PartSum ==
  ASSUME NEW f, NEW T \in SUBSET Deals, NEW S \in SUBSET T, \A d \in T : f[d] \in Nat
  PROVE  SumOver(S, f) \in Nat /\ SumOver(T, f) \in Nat /\ SumOver(S, f) <= SumOver(T, f)
<1>1. IsFiniteSet(T) /\ IsFiniteSet(S) /\ IsFiniteSet(T \ S)
  <2>1. IsFiniteSet(T)
    BY Parameters, FS_Subset
  <2> QED BY <2>1, FS_Subset
<1> DEFINE R == T \ S
<1>2. S \cap R = {} /\ S \cup R = T /\ \A x \in S \cup R : f[x] \in Int
  OBVIOUS
<1>3. SumOver(S, f) \in Nat /\ SumOver(T, f) \in Nat /\ SumOver(R, f) \in Nat
  BY DealsNat
<1> HIDE DEF R
<1>4. SumFunctionOnSet(f, S \cup R) = SumFunctionOnSet(f, S) + SumFunctionOnSet(f, R)
  BY <1>1, <1>2, SumUnion DEF R
<1>5. SumOver(T, f) = SumOver(S, f) + SumOver(R, f)
  BY <1>2, <1>4 DEF SumOver
<1> QED BY <1>3, <1>5

\* What is known to be lost is part of what performs; assets and locked profit are natural numbers.
LEMMA PriceBounds ==
  ASSUME NEW w, Sound(w), EnvOk
  PROVE  /\ FullAssets(w) \in Nat /\ w.v.cash <= FullAssets(w)
         /\ LockedProfit(w) \in Nat /\ TotalAssets(w) \in Nat /\ ReserveValue(w) \in Nat
<1>1. LoanOk(w.v) /\ LoanTypes(w.v) /\ PriceOk(w.v) /\ w.v.cash \in Nat
  BY DEF Sound, LoanOk, MoneyOk
<1> DEFINE S == {d \in Undecided(w) : Impaired(Loan(w, d))}
           T == Live(w.v) \ w.v.overdue
<1>2. S \in SUBSET T /\ T \in SUBSET Deals /\ \A d \in T : w.v.position[d] \in Nat
  <2>1. S \subseteq T
    BY <1>1 DEF Undecided, Live, LoanTypes
  <2>2. T \subseteq Deals /\ \A d \in T : w.v.position[d] \in Nat
    BY <1>1 DEF Live, LoanTypes
  <2> QED BY <2>1, <2>2
<1>3. PendingLoss(w) = SumOver(S, w.v.position) /\ w.v.performing = SumOver(T, w.v.position)
  BY <1>1 DEF PendingLoss, LoanOk
<1> HIDE DEF S, T
<1>4. PendingLoss(w) \in Nat /\ w.v.performing \in Nat /\ PendingLoss(w) <= w.v.performing
  BY <1>2, <1>3, PartSum
<1>5. ReserveValue(w) \in Nat
  <2>1. w.v.reserveShares \in Nat /\ reserve.rate \in Nat
    BY <1>1 DEF PriceOk, EnvOk
  <2> QED BY <2>1, ProductNat DEF ReserveValue
<1>6. FullAssets(w) \in Nat /\ w.v.cash <= FullAssets(w)
  BY <1>1, <1>4, <1>5 DEF FullAssets
<1>7. LockedProfit(w) \in Nat
  <2>1. CASE now >= w.v.unlockEnd
    BY <2>1 DEF LockedProfit
  <2>2. CASE ~ (now >= w.v.unlockEnd)
    <3> DEFINE a == w.v.lockedProfit
               b == w.v.unlockEnd - now
               c == w.v.unlockEnd - w.v.unlockStart
    <3>1. a \in Nat /\ b \in Nat /\ c \in Nat \ {0}
      BY <1>1, <2>2 DEF PriceOk, EnvOk
    <3>2. LockedProfit(w) = (a * b) \div c
      BY <2>2 DEF LockedProfit
    <3> HIDE DEF a, b, c
    <3>3. a * b \in Nat
      BY <3>1, ProductNat
    <3> QED BY <3>1, <3>2, <3>3, QuotientNat
  <2> QED BY <2>1, <2>2
<1>8. TotalAssets(w) \in Nat
  <2>1. LockedAfterLoss(w) \in Nat
    BY <1>4, <1>7 DEF LockedAfterLoss, Over
  <2> QED BY <1>6, <2>1 DEF TotalAssets, Over
<1> QED BY <1>5, <1>6, <1>7, <1>8

\* What the conversions between shares and assets return.
LEMMA ConversionsNat ==
  ASSUME NEW w, Sound(w), EnvOk, NEW n \in Nat
  PROVE  ToShares(w, n) \in Nat /\ ToAssets(w, n) \in Nat /\ PreviewWithdraw(w, n) \in Nat
<1>1. FullAssets(w) \in Nat /\ TotalAssets(w) \in Nat /\ w.v.supply \in Nat /\ VIRTUAL_SHARES \in Nat \ {0}
  BY PriceBounds, Parameters DEF Sound, StockOk
<1> DEFINE s == w.v.supply + VIRTUAL_SHARES
           f == FullAssets(w) + 1
           t == TotalAssets(w) + 1
<1>2. s \in Nat \ {0} /\ f \in Nat \ {0} /\ t \in Nat \ {0}
  BY <1>1
<1>3. ToShares(w, n) = (n * s) \div f /\ ToAssets(w, n) = (n * t) \div s
      /\ PreviewWithdraw(w, n) = (n * s + t - 1) \div t
  BY DEF ToShares, ToAssets, PreviewWithdraw, Ceil
<1> HIDE DEF s, f, t
<1>4. n * s \in Nat /\ n * t \in Nat
  BY <1>2, ProductNat
<1>5. n * s + t - 1 \in Nat
  BY <1>2, <1>4
<1> QED BY <1>2, <1>3, <1>4, <1>5, QuotientNat

\* A loss touches the unlocking of profits only.
LEMMA ReportLossKeeps ==
  ASSUME NEW w, Sound(w), EnvOk, NEW loss \in Nat
  PROVE  LET y == ReportLoss(w, loss)
         IN  /\ Keeps(y, w) /\ y.core = w.core /\ y.held = w.held
             /\ Same(y.v, w.v, Fields \ {"lockedProfit", "unlockStart", "unlockEnd"})
<1> DEFINE y == ReportLoss(w, loss)
<1>1. ReportLossWrote(y, w, loss)
  BY SoundShape, ReportLossDoes
<1> HIDE DEF y
<1>2. /\ Shape(y) /\ y.core = w.core /\ y.held = w.held
      /\ y.v.lockedProfit = Over(LockedProfit(w), loss) /\ y.v.unlockStart = now
      /\ y.v.unlockEnd = (IF w.v.unlockEnd < now THEN now ELSE w.v.unlockEnd)
      /\ Same(y.v, w.v, Fields \ {"lockedProfit", "unlockStart", "unlockEnd"})
  BY <1>1 DEF ReportLossWrote
<1>3. PriceOk(w.v) /\ LockedProfit(w) \in Nat /\ now \in Nat /\ CoreOk(w.core)
  BY PriceBounds DEF Sound, EnvOk
<1>4. y.v.highWater = w.v.highWater /\ y.v.reserveShares = w.v.reserveShares
  BY <1>2 DEF Same, Fields
<1>5. PriceOk(y.v)
  <2>1. Over(LockedProfit(w), loss) \in Nat
    BY <1>3 DEF Over
  <2> QED BY <1>2, <1>3, <1>4, <2>1 DEF PriceOk
<1>6. MoneyOk(y.v, y.held)
  <2>1. MoneyFields \cap {"lockedProfit", "unlockStart", "unlockEnd"} = {}
    BY DEF MoneyFields
  <2> QED BY <1>2, <2>1, SoundFrame
<1>7. Same(y.v, w.v, Fields \ CashFields)
  BY <1>2 DEF Same, CashFields
<1> QED BY <1>2, <1>3, <1>5, <1>6, <1>7, CashFrame DEF CoreOk, Sound, PromiseOk, y

\* The fee on a profit is part of the profit.
LEMMA ChargeBounds ==
  ASSUME NEW w, Sound(w), EnvOk, NEW d \in Deals, NEW profit \in Nat
  PROVE  Charge(w, d, profit) \in 0 .. profit
<1>1. w.v.supply \in Nat /\ w.v.highWater \in Nat /\ w.v.loanFee[d] \in 0 .. BPS /\ FullAssets(w) \in Nat
      /\ PRICE_PRECISION \in Nat \ {0}
  BY PriceBounds, Parameters DEF Sound, StockOk, PriceOk, LoanOk, LoanTypes
<1>2. CASE ~ High(w)
  BY <1>2 DEF Charge
<1>3. CASE High(w)
  <2> DEFINE p == Price(FullAssets(w), w.v.supply)
             gain == ((p - w.v.highWater) * w.v.supply) \div PRICE_PRECISION
             m == Atmost(profit, gain)
  <2>1. w.v.supply # 0 /\ p > w.v.highWater
    BY <1>3 DEF High
  <2>2. p \in Nat
    <3>1. FullAssets(w) * PRICE_PRECISION \in Nat
      BY <1>1, ProductNat
    <3> QED BY <1>1, <2>1, <3>1, QuotientNat DEF Price
  <2>3. Charge(w, d, profit) = (m * w.v.loanFee[d]) \div BPS
    BY <1>3 DEF Charge
  <2> HIDE DEF p
  <2>4. gain \in Nat
    <3>1. p - w.v.highWater \in Nat
      BY <1>1, <2>1, <2>2
    <3>2. (p - w.v.highWater) * w.v.supply \in Nat
      BY <1>1, <3>1, ProductNat
    <3> QED BY <1>1, <3>2, QuotientNat
  <2> HIDE DEF gain
  <2>5. m \in Nat /\ m <= profit
    BY <2>4 DEF Atmost
  <2> HIDE DEF m
  <2>6. (m * w.v.loanFee[d]) \div BPS \in 0 .. m
    BY <1>1, <2>5, PartOf
  <2> QED BY <2>3, <2>5, <2>6
<1> QED BY <1>2, <1>3

\* A profit that is there in cash: the fee moves to the fees, the rest unlocks.
LEMMA ReportProfitKeeps ==
  ASSUME NEW w, Sound(w), EnvOk, NEW d \in Deals, NEW profit \in Nat, profit <= w.v.cash
  PROVE  LET y == ReportProfit(w, d, profit)
         IN  /\ Keeps(y, w) /\ y.core = w.core /\ y.held = w.held
             /\ Same(y.v, w.v, Fields \ {"cash", "feeAccrued", "highWater", "lockedProfit", "unlockStart", "unlockEnd"})
<1> DEFINE y == ReportProfit(w, d, profit)
           fee == Charge(w, d, profit)
           K == {"cash", "feeAccrued", "highWater", "lockedProfit", "unlockStart", "unlockEnd"}
<1>1. ReportProfitWrote(y, w, d, profit)
  BY SoundShape, ReportProfitDoes
<1> HIDE DEF y
<1>2. /\ Shape(y) /\ y.core = w.core /\ y.held = w.held
      /\ y.v.cash = w.v.cash - fee /\ y.v.feeAccrued = w.v.feeAccrued + fee
      /\ y.v.highWater = (IF High(w) THEN Price(FullAssets(w) - fee, w.v.supply) ELSE w.v.highWater)
      /\ y.v.lockedProfit = LockedProfit(w) + profit - fee
      /\ y.v.unlockStart = now /\ y.v.unlockEnd = now + PROFIT_UNLOCK
      /\ Same(y.v, w.v, Fields \ K)
  BY <1>1 DEF ReportProfitWrote
<1>3. /\ PriceOk(w.v) /\ LockedProfit(w) \in Nat /\ now \in Nat /\ CoreOk(w.core) /\ w.held \in [Tokens -> Nat]
      /\ FullAssets(w) \in Nat /\ w.v.cash <= FullAssets(w) /\ w.v.cash \in Nat /\ w.v.feeAccrued \in Nat
      /\ w.v.supply \in Nat /\ MoneyOk(w.v, w.held) /\ PromiseOk(w.v, w.held)
  BY PriceBounds DEF Sound, EnvOk, PromiseOk, MoneyOk, StockOk
<1>4. fee \in Nat /\ fee <= profit
  BY ChargeBounds
<1> HIDE DEF fee
<1>5. /\ y.v.harvested = w.v.harvested /\ y.v.assigned = w.v.assigned
      /\ y.v.claimable = w.v.claimable /\ y.v.claimableTotal = w.v.claimableTotal
      /\ y.v.pocketLiability = w.v.pocketLiability /\ y.v.reserveShares = w.v.reserveShares
  BY <1>2 DEF Same, Fields
<1>6. PriceOk(y.v)
  <2>1. y.v.highWater \in Nat
    <3>1. CASE High(w)
      <4>1. FullAssets(w) - fee \in Nat /\ w.v.supply \in Nat \ {0} /\ PRICE_PRECISION \in Nat
        BY <1>3, <1>4, <3>1, Parameters DEF High
      <4> DEFINE f == FullAssets(w) - fee
      <4>2. y.v.highWater = Price(f, w.v.supply)
        BY <1>2, <3>1
      <4> HIDE DEF f
      <4>3. f * PRICE_PRECISION \in Nat
        BY <4>1, ProductNat DEF f
      <4> QED BY <4>1, <4>2, <4>3, QuotientNat DEF Price
    <3>2. CASE ~ High(w)
      BY <1>2, <1>3, <3>2 DEF PriceOk
    <3> QED BY <3>1, <3>2
  <2>2. y.v.lockedProfit \in Nat
    BY <1>2, <1>3, <1>4
  <2>3. y.v.unlockEnd \in Nat /\ y.v.unlockStart \in 0 .. now
    BY <1>2, <1>3, Parameters
  <2> QED BY <1>3, <1>5, <2>1, <2>2, <2>3 DEF PriceOk
<1>7. MoneyOk(y.v, y.held)
  <2>1. y.v.cash \in Nat /\ y.v.feeAccrued \in Nat
    BY <1>2, <1>3, <1>4
  <2>2. /\ w.v.harvested \in Nat /\ w.v.assigned \in Nat /\ w.v.claimableTotal \in Nat
        /\ w.v.pocketLiability["USDG"] \in Nat
    BY <1>3, ClaimsCover
  <2>3. Claims(y.v) = Claims(w.v)
    BY <1>2, <1>3, <1>4, <1>5, <2>2 DEF Claims
  <2> QED BY <1>2, <1>3, <1>5, <2>1, <2>3 DEF MoneyOk
<1>8. Same(y.v, w.v, Fields \ CashFields)
  BY <1>2 DEF Same, CashFields
<1>9. Keeps(y, w)
  BY <1>2, <1>3, <1>6, <1>7, <1>8, CashFrame DEF CoreOk
<1> QED BY <1>2, <1>9 DEF y, K


(***************************************************************************)
(* Rewards.                                                                *)
(***************************************************************************)
ShareFields == {"accounted", "accPerShare", "orphan", "observed"}

\* A step that promises, sets aside or fetches rewards only.
LEMMA ShareFrame ==
  ASSUME NEW w, Sound(w), NEW y, Shape(y), Same(y.v, w.v, Fields \ ShareFields),
         y.core.deal = w.core.deal, CoreOk(y.core),
         y.held \in [Tokens -> Nat], \A t \in Tokens \ {"SGAGE"} : y.held[t] = w.held[t],
         y.held["SGAGE"] >= w.held["SGAGE"], RewardOk(y.v, y.core, y.held)
  PROVE  Keeps(y, w)
<1>1. /\ PolicyFields \cap ShareFields = {} /\ MoneyFields \cap ShareFields = {}
      /\ LoanFields \cap ShareFields = {} /\ PriceFields \cap ShareFields = {} /\ StockFields \cap ShareFields = {}
      /\ RecordFields \cap ShareFields = {} /\ PocketFields \cap ShareFields = {} /\ EndFields \cap ShareFields = {}
  BY DEF PolicyFields, MoneyFields, LoanFields, PriceFields, StockFields, RecordFields, PocketFields, EndFields,
         ShareFields
<1>2. y.held["USDG"] = w.held["USDG"]
  <2>1. "USDG" \in Tokens \ {"SGAGE"}
    BY Parameters
  <2> QED BY <2>1
<1>3. /\ PolicyOk(y.v) /\ MoneyOk(y.v, y.held) /\ LoanOk(y.v) /\ PriceOk(y.v) /\ StockOk(y.v)
      /\ RecordOk(y.v) /\ Kept(y.v, w.v) /\ PocketOk(y.v) /\ EndOk(y.v, y.core)
  BY <1>1, <1>2, SoundFrame
<1>4. PromiseOk(y.v, y.held)
  <2>1. PromiseOk(w.v, w.held)
    BY DEF Sound
  <2>2. y.v.pocketLiability = w.v.pocketLiability
    BY DEF Same, Fields, ShareFields
  <2>3. ASSUME NEW t \in Tokens PROVE y.v.pocketLiability[t] <= y.held[t]
    <3>1. w.v.pocketLiability[t] \in Nat /\ w.held[t] \in Nat /\ y.held[t] \in Nat
          /\ w.v.pocketLiability[t] <= w.held[t]
      BY <2>1 DEF PromiseOk
    <3>2. w.held[t] <= y.held[t]
      BY <3>1
    <3> QED BY <2>2, <3>1, <3>2
  <2> QED BY <2>1, <2>2, <2>3 DEF PromiseOk
<1> QED BY <1>3, <1>4 DEF Keeps, Sound

\* What is spread over the shares, rounded down, is no more than what is spread.
LEMMA SpreadUnsettled ==
  ASSUME NEW V, NEW X, NEW q \in Nat, V.balance \in [Holders -> Nat], RewardTypes(V),
         X.balance = V.balance, X.index = V.index, X.accPerShare = V.accPerShare + q
  PROVE  Unsettled(X) = Unsettled(V) + q * SumHolders(V.balance) /\ Unsettled(V) \in Int
<1> DEFINE f == [h \in Holders |-> V.balance[h] * (V.accPerShare - V.index[h])]
           g == [h \in Holders |-> q * V.balance[h]]
           k == [h \in Holders |-> X.balance[h] * (X.accPerShare - X.index[h])]
<1>1. ASSUME NEW h \in Holders
      PROVE  f[h] \in Int /\ g[h] \in Int /\ k[h] = f[h] + g[h] /\ V.balance[h] \in Int /\ g[h] = q * V.balance[h]
  <2> DEFINE b == V.balance[h]
             a == V.accPerShare
             i == V.index[h]
  <2>1. b \in Nat /\ a \in Nat /\ i \in Nat
    BY DEF RewardTypes
  <2>2. f[h] = b * (a - i) /\ g[h] = q * b /\ k[h] = b * ((a + q) - i)
    OBVIOUS
  <2> HIDE DEF a, b, i, f, g, k
  <2>3. b * ((a + q) - i) = b * (a - i) + q * b
    BY <2>1
  <2> QED BY <2>1, <2>2, <2>3 DEF b
<1>2. /\ Unsettled(V) = SumFunctionOnSet(f, Holders) /\ Unsettled(X) = SumFunctionOnSet(k, Holders)
      /\ SumHolders(V.balance) = SumFunctionOnSet(V.balance, Holders)
  BY DEF Unsettled, SumHolders, SumOver
<1> HIDE DEF f, g, k
<1>3. SumFunctionOnSet(k, Holders) = SumFunctionOnSet(f, Holders) + SumFunctionOnSet(g, Holders)
  BY <1>1, SumPlus, Parameters
<1>4. SumFunctionOnSet(g, Holders) = q * SumFunctionOnSet(V.balance, Holders)
  BY <1>1, SumTimes, Parameters
<1>5. SumFunctionOnSet(f, Holders) \in Int
  BY <1>1, SumType, Parameters
<1> QED BY <1>2, <1>3, <1>4, <1>5

\* An amount is promised to the shares, or set aside when there are none.
LEMMA DistributeKeeps ==
  ASSUME NEW w, Sound(w), NEW amount \in Nat
  PROVE  LET y == Distribute(w, amount)
         IN  /\ Shape(y) /\ y.core = w.core /\ y.held = w.held /\ RewardCore(y.v)
             /\ y.v.accounted + y.v.orphan = w.v.accounted + w.v.orphan + amount
             /\ Same(y.v, w.v, Fields \ {"accounted", "accPerShare", "orphan"})
<1> DEFINE y == Distribute(w, amount)
<1>1. /\ Shape(w) /\ RewardCore(w.v) /\ RewardTypes(w.v) /\ w.v.balance \in [Holders -> Nat] /\ w.v.supply \in Nat
      /\ w.v.supply = SumHolders(w.v.balance)
  BY DEF Sound, RewardOk, RewardCore, StockOk
<1>2. w.v.accounted \in Nat /\ w.v.orphan \in Nat /\ w.v.liability \in Nat /\ w.v.accPerShare \in Nat
  BY <1>1 DEF RewardTypes
<1>3. CASE amount = 0
  <2>1. y = w
    BY <1>3, DistributeIs
  <2> QED BY <1>1, <1>2, <1>3, <2>1 DEF Same
<1>4. CASE amount # 0 /\ w.v.supply = 0
  <2>1. y = SetAside(w, amount)
    BY <1>4, DistributeIs
  <2> HIDE DEF y
  <2>2. SetAsideWrote(y, w, amount)
    BY <1>1, <2>1, SetAsideDoes
  <2>3. /\ Shape(y) /\ y.core = w.core /\ y.held = w.held /\ y.v.orphan = w.v.orphan + amount
        /\ Same(y.v, w.v, Fields \ {"orphan"})
    BY <2>2 DEF SetAsideWrote
  <2>4. /\ y.v.accPerShare = w.v.accPerShare /\ y.v.accounted = w.v.accounted /\ y.v.liability = w.v.liability
        /\ y.v.observed = w.v.observed /\ y.v.index = w.v.index /\ y.v.owed = w.v.owed /\ y.v.balance = w.v.balance
    BY <2>3 DEF Same, Fields
  <2>5. Unsettled(y.v) = Unsettled(w.v) /\ y.v.orphan \in Nat
    BY <1>2, <2>3, <2>4 DEF Unsettled
  <2>6. RewardCore(y.v)
    BY <1>1, <2>4, <2>5 DEF RewardCore, RewardTypes
  <2>7. Same(y.v, w.v, Fields \ {"accounted", "accPerShare", "orphan"})
    BY <2>3 DEF Same
  <2>8. y.v.accounted + y.v.orphan = w.v.accounted + w.v.orphan + amount
    BY <1>2, <2>3, <2>4
  <2> QED BY <2>3, <2>6, <2>7, <2>8 DEF y
<1>5. CASE amount # 0 /\ w.v.supply # 0
  <2> DEFINE q == (amount * REWARD_PRECISION) \div w.v.supply
  <2>1. y = Spread(w, amount)
    BY <1>5, DistributeIs
  <2> HIDE DEF y
  <2>2. SpreadWrote(y, w, amount)
    BY <1>1, <2>1, SpreadDoes
  <2>3. /\ Shape(y) /\ y.core = w.core /\ y.held = w.held /\ y.v.accounted = w.v.accounted + amount
        /\ y.v.accPerShare = w.v.accPerShare + q
        /\ Same(y.v, w.v, Fields \ {"accounted", "accPerShare"})
    BY <2>2 DEF SpreadWrote
  <2>4. /\ y.v.orphan = w.v.orphan /\ y.v.liability = w.v.liability
        /\ y.v.observed = w.v.observed /\ y.v.index = w.v.index /\ y.v.owed = w.v.owed /\ y.v.balance = w.v.balance
    BY <2>3 DEF Same, Fields
  <2>5. q \in Nat /\ q * w.v.supply <= amount * REWARD_PRECISION /\ amount * REWARD_PRECISION \in Nat
    <3>1. amount * REWARD_PRECISION \in Nat /\ w.v.supply \in Nat \ {0}
      BY <1>1, <1>5, Parameters
    <3> DEFINE a == amount * REWARD_PRECISION
    <3> HIDE DEF a
    <3>2. a \div w.v.supply \in Nat /\ (a \div w.v.supply) * w.v.supply <= a
      BY <3>1, QuotientNat DEF a
    <3> QED BY <3>1, <3>2 DEF a
  <2> HIDE DEF q
  <2>6. Unsettled(y.v) = Unsettled(w.v) + q * w.v.supply /\ Unsettled(w.v) \in Int
    BY <1>1, <2>3, <2>4, <2>5, SpreadUnsettled
  <2> DEFINE l == REWARD_PRECISION * w.v.liability
             a == REWARD_PRECISION * w.v.accounted
             n == amount * REWARD_PRECISION
  <2>7. l \in Nat /\ a \in Nat /\ REWARD_PRECISION * y.v.accounted = a + n /\ n \in Nat
    BY <1>2, <2>3, Parameters
  <2>8. l + Unsettled(w.v) <= a /\ q * w.v.supply \in Nat
    BY <1>1, <2>5 DEF RewardCore
  <2>9. REWARD_PRECISION * y.v.liability + Unsettled(y.v) <= REWARD_PRECISION * y.v.accounted
    <3>1. REWARD_PRECISION * y.v.liability = l
      BY <2>4
    <3>2. q * w.v.supply <= n
      BY <2>5
    <3> DEFINE r == q * w.v.supply
    <3> HIDE DEF l, a, n, r
    <3>3. r \in Nat /\ r <= n /\ Unsettled(y.v) = Unsettled(w.v) + r
      BY <2>6, <2>8, <3>2 DEF r
    <3>4. l + (Unsettled(w.v) + r) <= a + n
      BY <2>6, <2>7, <2>8, <3>3
    <3> QED BY <2>7, <3>1, <3>3, <3>4
  <2>10. RewardTypes(y.v)
    BY <1>1, <1>2, <2>3, <2>4, <2>5 DEF RewardTypes
  <2>11. RewardCore(y.v)
    BY <1>1, <2>4, <2>9, <2>10 DEF RewardCore
  <2>12. Same(y.v, w.v, Fields \ {"accounted", "accPerShare", "orphan"})
    BY <2>3 DEF Same
  <2>13. y.v.accounted + y.v.orphan = w.v.accounted + w.v.orphan + amount
    BY <1>2, <2>3, <2>4
  <2> QED BY <2>3, <2>11, <2>12, <2>13 DEF y
<1> QED BY <1>3, <1>4, <1>5

\* What is announced changes by what one loan announces.
LEMMA AnnouncedMoves ==
  ASSUME NEW V, NEW C, NEW X, NEW D, NEW d \in Deals,
         V.observed \in [Deals -> Nat], X.observed \in [Deals -> Nat],
         C.reward \in [Deals -> Nat], D.reward \in [Deals -> Nat],
         \A e \in Deals \ {d} : X.observed[e] = V.observed[e] /\ D.reward[e] = C.reward[e]
  PROVE  /\ Announced(V, C) \in Nat /\ Announced(X, D) \in Nat
         /\ Announced(X, D) = Announced(V, C)
              + (Atmost(X.observed[d], D.reward[d]) - Atmost(V.observed[d], C.reward[d]))
<1> DEFINE f == [e \in Deals |-> Atmost(V.observed[e], C.reward[e])]
           g == [e \in Deals |-> Atmost(X.observed[e], D.reward[e])]
           m == Atmost(X.observed[d], D.reward[d]) - Atmost(V.observed[d], C.reward[d])
<1>1. \A e \in Deals : f[e] \in Nat /\ g[e] \in Nat
  BY DEF Atmost
<1>2. \A e \in Deals \ {d} : g[e] = f[e]
  OBVIOUS
<1>3. m \in Int /\ g[d] = f[d] + m
  <2>1. Atmost(X.observed[d], D.reward[d]) \in Nat /\ Atmost(V.observed[d], C.reward[d]) \in Nat
    BY DEF Atmost
  <2> QED BY <2>1
<1>4. Announced(V, C) = SumOver(Deals, f) /\ Announced(X, D) = SumOver(Deals, g)
  BY DEF Announced
<1> HIDE DEF f, g, m
<1>5. SumFunctionOnSet(g, Deals) = SumFunctionOnSet(f, Deals) + m
  BY <1>1, <1>2, <1>3, SumMoved, Parameters
<1>6. SumOver(Deals, f) \in Nat /\ SumOver(Deals, g) \in Nat
  BY <1>1, DealsNat
<1> QED BY <1>4, <1>5, <1>6 DEF SumOver, m

\* Rewards of a loan are promised once, when they are first seen to be due.
LEMMA AccrueRewardKeeps ==
  ASSUME NEW w, Sound(w), NEW d \in Deals
  PROVE  LET y == AccrueReward(w, d)
         IN  /\ Keeps(y, w) /\ y.core.deal = w.core.deal /\ y.core.credit = w.core.credit
             /\ Same(y.v, w.v, Fields \ ShareFields)
<1> DEFINE due == w.core.reward[d]
           n == Over(due, w.v.observed[d])
           t == Distribute(w, n)
           y == AccrueReward(w, d)
<1>1. /\ CoreOk(w.core) /\ w.core.reward \in [Deals -> Nat] /\ RewardTypes(w.v) /\ w.v.observed \in [Deals -> Nat]
      /\ w.held \in [Tokens -> Nat] /\ RewardOk(w.v, w.core, w.held) /\ Shape(w)
  BY DEF Sound, CoreOk, RewardOk, RewardCore, RewardTypes, PromiseOk
<1>2. due \in Nat /\ w.v.observed[d] \in Nat /\ n \in Nat /\ n = due - Atmost(w.v.observed[d], due)
  BY <1>1 DEF Over, Atmost
<1>3. t = Told(w, d)
  BY DEF Told
<1> HIDE DEF n
<1>4. /\ Shape(t) /\ t.core = w.core /\ t.held = w.held /\ RewardCore(t.v)
      /\ t.v.accounted + t.v.orphan = w.v.accounted + w.v.orphan + n
      /\ Same(t.v, w.v, Fields \ {"accounted", "accPerShare", "orphan"})
  BY <1>2, DistributeKeeps
<1> HIDE DEF t
<1>5. t.v.observed = w.v.observed /\ t.v.pocketLiability = w.v.pocketLiability
  BY <1>4 DEF Same, Fields
<1>6. /\ w.v.accounted + w.v.orphan + w.v.pocketLiability["SGAGE"] <= w.held["SGAGE"] + Announced(w.v, w.core)
      /\ w.held["SGAGE"] \in Nat /\ w.v.pocketLiability["SGAGE"] \in Nat
      /\ w.v.accounted \in Nat /\ w.v.orphan \in Nat
  BY <1>1, Parameters DEF RewardOk, RewardTypes, Sound, PromiseOk
<1> HIDE DEF due
<1>7. CASE "SGAGE" \in stopped
  <2>1. y = Observed(t, d, due)
    BY <1>3, <1>7, AccrueRewardIs DEF due
  <2> HIDE DEF y
  <2>2. ObservedWrote(y, t, d, due)
    BY <1>4, <2>1, ObservedDoes
  <2>3. /\ Shape(y) /\ y.core = t.core /\ y.held = t.held /\ y.v.observed = [t.v.observed EXCEPT ![d] = due]
        /\ Same(y.v, t.v, Fields \ {"observed"})
    BY <2>2 DEF ObservedWrote
  <2>4. /\ y.v.accPerShare = t.v.accPerShare /\ y.v.accounted = t.v.accounted /\ y.v.liability = t.v.liability
        /\ y.v.orphan = t.v.orphan /\ y.v.index = t.v.index /\ y.v.owed = t.v.owed /\ y.v.balance = t.v.balance
        /\ y.v.pocketLiability = t.v.pocketLiability
    BY <2>3 DEF Same, Fields
  <2>5. /\ y.v.observed \in [Deals -> Nat] /\ y.v.observed[d] = due
        /\ \A e \in Deals \ {d} : y.v.observed[e] = w.v.observed[e]
    BY <1>1, <1>2, <1>5, <2>3
  <2>6. RewardCore(y.v)
    <3>1. Unsettled(y.v) = Unsettled(t.v)
      BY <2>4 DEF Unsettled
    <3> QED BY <1>4, <2>4, <2>5, <3>1 DEF RewardCore, RewardTypes
  <2>7. Announced(y.v, y.core) = Announced(w.v, w.core) + n /\ Announced(w.v, w.core) \in Nat
    <3>1. y.core.reward = w.core.reward /\ w.core.reward[d] = due
      BY <1>4, <2>3 DEF due
    <3>2. /\ Announced(w.v, w.core) \in Nat
          /\ Announced(y.v, y.core)
               = Announced(w.v, w.core)
                   + (Atmost(y.v.observed[d], y.core.reward[d]) - Atmost(w.v.observed[d], w.core.reward[d]))
      <4> DEFINE V0 == w.v
                 C0 == w.core
                 X0 == y.v
                 D0 == y.core
      <4>1. /\ V0.observed \in [Deals -> Nat] /\ X0.observed \in [Deals -> Nat]
            /\ C0.reward \in [Deals -> Nat] /\ D0.reward \in [Deals -> Nat]
            /\ \A e \in Deals \ {d} : X0.observed[e] = V0.observed[e] /\ D0.reward[e] = C0.reward[e]
        BY <1>1, <2>5, <3>1
      <4> HIDE DEF V0, C0, X0, D0
      <4>2. /\ Announced(V0, C0) \in Nat
            /\ Announced(X0, D0)
                 = Announced(V0, C0)
                     + (Atmost(X0.observed[d], D0.reward[d]) - Atmost(V0.observed[d], C0.reward[d]))
        BY <4>1, AnnouncedMoves
      <4> QED BY <4>2 DEF V0, C0, X0, D0
    <3>3. Atmost(due, due) = due
      BY <1>2 DEF Atmost
    <3> QED BY <1>2, <2>5, <3>1, <3>2, <3>3
  <2>8. RewardOk(y.v, y.core, y.held)
    <3>1. y.v.accounted + y.v.orphan = w.v.accounted + w.v.orphan + n
      BY <1>4, <2>4
    <3>2. y.v.accounted \in Nat /\ y.v.orphan \in Nat
      BY <2>6 DEF RewardCore, RewardTypes
    <3>3. y.v.pocketLiability["SGAGE"] = w.v.pocketLiability["SGAGE"] /\ y.held["SGAGE"] = w.held["SGAGE"]
      BY <1>4, <1>5, <2>3, <2>4
    <3>4. y.v.accounted + y.v.orphan + y.v.pocketLiability["SGAGE"] <= y.held["SGAGE"] + Announced(y.v, y.core)
      BY <1>2, <1>6, <2>7, <3>1, <3>2, <3>3
    <3> QED BY <2>6, <3>4 DEF RewardOk
  <2>9. Same(y.v, w.v, Fields \ ShareFields)
    BY <1>4, <2>3 DEF Same, ShareFields
  <2>10. Keeps(y, w)
    <3>1. /\ y.core.deal = w.core.deal /\ CoreOk(y.core) /\ y.held \in [Tokens -> Nat]
          /\ (\A s \in Tokens \ {"SGAGE"} : y.held[s] = w.held[s]) /\ y.held["SGAGE"] >= w.held["SGAGE"]
      BY <1>1, <1>4, <1>6, <2>3
    <3> QED BY <2>3, <2>8, <2>9, <3>1, ShareFrame
  <2> QED BY <1>4, <2>3, <2>9, <2>10 DEF y
<1>8. CASE "SGAGE" \notin stopped
  <2>1. y = Fetched(t, d, due)
    BY <1>3, <1>8, AccrueRewardIs DEF due
  <2> HIDE DEF y
  <2>2. FetchedWrote(y, t, d, due)
    BY <1>4, <2>1, FetchedDoes
  <2>3. /\ Shape(y) /\ y.core = [t.core EXCEPT !.reward = [t.core.reward EXCEPT ![d] = 0]]
        /\ y.held = [t.held EXCEPT !["SGAGE"] = t.held["SGAGE"] + due]
        /\ y.v.observed = [t.v.observed EXCEPT ![d] = 0]
        /\ Same(y.v, t.v, Fields \ {"observed"})
    BY <2>2 DEF FetchedWrote
  <2>4. /\ y.v.accPerShare = t.v.accPerShare /\ y.v.accounted = t.v.accounted /\ y.v.liability = t.v.liability
        /\ y.v.orphan = t.v.orphan /\ y.v.index = t.v.index /\ y.v.owed = t.v.owed /\ y.v.balance = t.v.balance
        /\ y.v.pocketLiability = t.v.pocketLiability
    BY <2>3 DEF Same, Fields
  <2>5. /\ y.v.observed \in [Deals -> Nat] /\ y.v.observed[d] = 0
        /\ \A e \in Deals \ {d} : y.v.observed[e] = w.v.observed[e]
    BY <1>1, <1>5, <2>3
  <2>6. /\ y.core.deal = w.core.deal /\ y.core.credit = w.core.credit
        /\ y.core.reward = [w.core.reward EXCEPT ![d] = 0]
    BY <1>1, <1>4, <2>3 DEF Shape
  <2>7. /\ y.core.reward \in [Deals -> Nat] /\ y.core.reward[d] = 0
        /\ \A e \in Deals \ {d} : y.core.reward[e] = w.core.reward[e]
    BY <1>1, <2>6
  <2>8. /\ y.held \in [Tokens -> Nat] /\ y.held["SGAGE"] = w.held["SGAGE"] + due
        /\ \A s \in Tokens \ {"SGAGE"} : y.held[s] = w.held[s]
    BY <1>1, <1>2, <1>4, <2>3, Parameters
  <2>9. RewardCore(y.v)
    <3>1. Unsettled(y.v) = Unsettled(t.v)
      BY <2>4 DEF Unsettled
    <3> QED BY <1>4, <2>4, <2>5, <3>1 DEF RewardCore, RewardTypes
  <2>10. Announced(y.v, y.core) + due = Announced(w.v, w.core) + n /\ Announced(w.v, w.core) \in Nat
         /\ Announced(y.v, y.core) \in Nat
    <3>1. w.core.reward[d] = due
      BY DEF due
    <3>2. /\ Announced(w.v, w.core) \in Nat /\ Announced(y.v, y.core) \in Nat
          /\ Announced(y.v, y.core)
               = Announced(w.v, w.core)
                   + (Atmost(y.v.observed[d], y.core.reward[d]) - Atmost(w.v.observed[d], w.core.reward[d]))
      <4> DEFINE V0 == w.v
                 C0 == w.core
                 X0 == y.v
                 D0 == y.core
      <4>1. /\ V0.observed \in [Deals -> Nat] /\ X0.observed \in [Deals -> Nat]
            /\ C0.reward \in [Deals -> Nat] /\ D0.reward \in [Deals -> Nat]
            /\ \A e \in Deals \ {d} : X0.observed[e] = V0.observed[e] /\ D0.reward[e] = C0.reward[e]
        BY <1>1, <2>5, <2>7
      <4> HIDE DEF V0, C0, X0, D0
      <4>2. /\ Announced(V0, C0) \in Nat /\ Announced(X0, D0) \in Nat
            /\ Announced(X0, D0)
                 = Announced(V0, C0)
                     + (Atmost(X0.observed[d], D0.reward[d]) - Atmost(V0.observed[d], C0.reward[d]))
        BY <4>1, AnnouncedMoves
      <4> QED BY <4>2 DEF V0, C0, X0, D0
    <3>3. Atmost(0, 0) = 0
      BY DEF Atmost
    <3>4. Atmost(w.v.observed[d], due) = due - n
      BY <1>2 DEF Atmost
    <3> QED BY <1>2, <2>5, <2>7, <3>1, <3>2, <3>3, <3>4
  <2>11. RewardOk(y.v, y.core, y.held)
    <3>1. y.v.accounted + y.v.orphan = w.v.accounted + w.v.orphan + n
      BY <1>4, <2>4
    <3>2. y.v.accounted \in Nat /\ y.v.orphan \in Nat
      BY <2>9 DEF RewardCore, RewardTypes
    <3>3. y.v.pocketLiability["SGAGE"] = w.v.pocketLiability["SGAGE"]
      BY <1>5, <2>4
    <3>4. y.v.accounted + y.v.orphan + y.v.pocketLiability["SGAGE"] <= y.held["SGAGE"] + Announced(y.v, y.core)
      BY <1>2, <1>6, <2>8, <2>10, <3>1, <3>2, <3>3
    <3> QED BY <2>9, <3>4 DEF RewardOk
  <2>12. Same(y.v, w.v, Fields \ ShareFields)
    BY <1>4, <2>3 DEF Same, ShareFields
  <2>13. CoreOk(y.core) /\ y.held["SGAGE"] >= w.held["SGAGE"]
    BY <1>1, <1>2, <1>6, <2>6, <2>7, <2>8 DEF CoreOk
  <2>14. Keeps(y, w)
    BY <2>3, <2>6, <2>8, <2>11, <2>12, <2>13, ShareFrame
  <2> QED BY <2>6, <2>12, <2>14 DEF y
<1> QED BY <1>7, <1>8

\* Rewards that arrived unannounced are promised, and no more than arrived.
LEMMA ReconcileRewardsKeeps ==
  ASSUME NEW w, Sound(w)
  PROVE  LET y == ReconcileRewards(w)
         IN  Keeps(y, w) /\ y.core = w.core /\ y.held = w.held /\ Same(y.v, w.v, Fields \ ShareFields)
<1> DEFINE n == Over(Over(w.held["SGAGE"], w.v.pocketLiability["SGAGE"]), w.v.accounted + w.v.orphan)
           y == Distribute(w, n)
<1>1. ReconcileRewards(w) = y
  BY DEF ReconcileRewards
<1>2. /\ CoreOk(w.core) /\ w.core.reward \in [Deals -> Nat] /\ RewardTypes(w.v) /\ w.v.observed \in [Deals -> Nat]
      /\ w.held \in [Tokens -> Nat] /\ RewardOk(w.v, w.core, w.held)
  BY DEF Sound, CoreOk, RewardOk, RewardCore, RewardTypes, PromiseOk
<1>3. /\ w.v.accounted + w.v.orphan + w.v.pocketLiability["SGAGE"] <= w.held["SGAGE"] + Announced(w.v, w.core)
      /\ w.held["SGAGE"] \in Nat /\ w.v.pocketLiability["SGAGE"] \in Nat
      /\ w.v.pocketLiability["SGAGE"] <= w.held["SGAGE"]
      /\ w.v.accounted \in Nat /\ w.v.orphan \in Nat
  BY <1>2, Parameters DEF RewardOk, RewardTypes, Sound, PromiseOk
<1>4. Announced(w.v, w.core) \in Nat
  <2> DEFINE f == [e \in Deals |-> Atmost(w.v.observed[e], w.core.reward[e])]
  <2>1. \A e \in Deals : f[e] \in Nat
    BY <1>2 DEF Atmost
  <2>2. Announced(w.v, w.core) = SumOver(Deals, f)
    BY DEF Announced
  <2> HIDE DEF f
  <2> QED BY <2>1, <2>2, DealsNat
<1>5. /\ n \in Nat
      /\ n = 0 \/ w.v.accounted + w.v.orphan + w.v.pocketLiability["SGAGE"] + n <= w.held["SGAGE"]
  BY <1>3 DEF Over
<1> HIDE DEF n
<1>6. /\ Shape(y) /\ y.core = w.core /\ y.held = w.held /\ RewardCore(y.v)
      /\ y.v.accounted + y.v.orphan = w.v.accounted + w.v.orphan + n
      /\ Same(y.v, w.v, Fields \ {"accounted", "accPerShare", "orphan"})
  BY <1>5, DistributeKeeps
<1> HIDE DEF y
<1>7. y.v.observed = w.v.observed /\ y.v.pocketLiability = w.v.pocketLiability
  BY <1>6 DEF Same, Fields
<1>8. RewardOk(y.v, y.core, y.held)
  <2>1. Announced(y.v, y.core) = Announced(w.v, w.core)
    BY <1>6, <1>7 DEF Announced
  <2>2. y.v.accounted \in Nat /\ y.v.orphan \in Nat
    BY <1>6 DEF RewardCore, RewardTypes
  <2>3. y.v.accounted + y.v.orphan + y.v.pocketLiability["SGAGE"] <= y.held["SGAGE"] + Announced(y.v, y.core)
    BY <1>3, <1>4, <1>5, <1>6, <1>7, <2>1, <2>2
  <2> QED BY <1>6, <2>3 DEF RewardOk
<1>9. Same(y.v, w.v, Fields \ ShareFields)
  BY <1>6 DEF Same, ShareFields
<1>10. Keeps(y, w)
  <2>1. /\ y.core.deal = w.core.deal /\ CoreOk(y.core) /\ y.held \in [Tokens -> Nat]
        /\ (\A s \in Tokens \ {"SGAGE"} : y.held[s] = w.held[s]) /\ y.held["SGAGE"] >= w.held["SGAGE"]
    BY <1>2, <1>3, <1>6
  <2> QED BY <1>6, <1>8, <1>9, <2>1, ShareFrame
<1> QED BY <1>1, <1>6, <1>9, <1>10


(***************************************************************************)
(* Loans: the write-down, the default, the recovery and the settlement.    *)
(***************************************************************************)
WrittenFields ==
  {"loanSnapshot", "loanSnapshotSupply", "snapshotCount", "overdue", "performing", "overduePrincipal"}

\* The loan book without, and with, one more loan in a part of it.
LEMMA BookLess ==
  ASSUME NEW f, NEW S \in SUBSET Deals, \A e \in S : f[e] \in Nat, NEW d \in S
  PROVE  SumOver(S \ {d}, f) = SumOver(S, f) - f[d] /\ f[d] <= SumOver(S, f) /\ SumOver(S, f) \in Nat
<1>1. IsFiniteSet(S)
  BY Parameters, FS_Subset
<1>2. SumFunctionOnSet(f, S) = f[d] + SumFunctionOnSet(f, S \ {d})
  BY <1>1, SumRemove
<1>3. SumOver(S, f) = f[d] + SumOver(S \ {d}, f)
  BY <1>2 DEF SumOver
<1>4. SumOver(S, f) \in Nat /\ SumOver(S \ {d}, f) \in Nat /\ f[d] \in Nat
  <2>1. S \ {d} \in SUBSET Deals /\ \A e \in S \ {d} : f[e] \in Nat
    OBVIOUS
  <2> QED BY <2>1, DealsNat
<1> QED BY <1>3, <1>4

\* One more listing adds its own part to a sum.
LEMMA BookMore ==
  ASSUME NEW f, NEW S \in SUBSET Deals, NEW d \in Deals \ S, \A e \in S \cup {d} : f[e] \in Nat
  PROVE  SumOver(S \cup {d}, f) = SumOver(S, f) + f[d] /\ SumOver(S, f) \in Nat
<1> DEFINE T == S \cup {d}
<1>1. T \in SUBSET Deals /\ (\A e \in T : f[e] \in Nat) /\ d \in T /\ T \ {d} = S
  OBVIOUS
<1> HIDE DEF T
<1>2. SumOver(S, f) = SumOver(T, f) - f[d] /\ SumOver(T, f) \in Nat /\ f[d] <= SumOver(T, f)
  BY <1>1, BookLess
<1>3. f[d] \in Nat
  BY <1>1
<1> QED BY <1>2, <1>3 DEF T

\* The balance of record of a write-down that is recorded now is the balance.
LEMMA WrittenKeeps ==
  ASSUME NEW w, Sound(w), NEW d \in Live(w.v) \ w.v.overdue
  PROVE  LET y == Written(w, d)
         IN  /\ Keeps(y, w) /\ y.core = w.core /\ y.held = w.held /\ y.v.overdue = w.v.overdue \cup {d}
             /\ Same(y.v, w.v, Fields \ WrittenFields)
<1> DEFINE y == Written(w, d)
           V == w.v
           X == y.v
           n == V.snapshotCount + 1
<1>1. WrittenWrote(y, w, d)
  BY SoundShape, WrittenDoes
<1> HIDE DEF y
<1>2. /\ Shape(y) /\ y.core = w.core /\ y.held = w.held
      /\ X.loanSnapshot = [V.loanSnapshot EXCEPT ![d] = n]
      /\ X.loanSnapshotSupply = [V.loanSnapshotSupply EXCEPT ![d] = V.supply]
      /\ X.snapshotCount = n /\ X.overdue = V.overdue \cup {d}
      /\ X.performing = V.performing - V.position[d]
      /\ X.overduePrincipal = V.overduePrincipal + V.position[d]
      /\ Same(X, V, Fields \ WrittenFields)
  BY <1>1 DEF WrittenWrote, WrittenFields
<1>3. /\ LoanOk(V) /\ LoanTypes(V) /\ RecordOk(V) /\ RecordTypes(V) /\ PocketOk(V) /\ EndOk(V, w.core)
      /\ V.balance \in [Holders -> Nat] /\ V.supply = SumHolders(V.balance) /\ V.supply \in Nat
      /\ V.snapshotCount \in Nat
  BY DEF Sound, LoanOk, RecordOk, RecordTypes, StockOk
<1>4. /\ X.funded = V.funded /\ X.terminal = V.terminal /\ X.withdrawn = V.withdrawn /\ X.openLoans = V.openLoans
      /\ X.slots = V.slots /\ X.position = V.position /\ X.loanFee = V.loanFee
      /\ X.lanePrincipal = V.lanePrincipal /\ X.borrowerPrincipal = V.borrowerPrincipal
      /\ X.snapshots = V.snapshots /\ X.balance = V.balance
      /\ X.pockets = V.pockets /\ X.pocketClaimed = V.pocketClaimed /\ X.pocketLiability = V.pocketLiability
  BY <1>2 DEF Same, Fields, WrittenFields
<1>5. d \in Deals /\ d \in V.funded /\ d \notin V.overdue /\ n \in Nat /\ V.snapshotCount <= n
  BY <1>3 DEF Live, LoanTypes
<1> HIDE DEF n
<1>6. LoanOk(X)
  <2> DEFINE S == Live(V) \ V.overdue
             T == Live(V) \cap V.overdue
  <2>1. Live(X) = Live(V)
    BY <1>4 DEF Live
  <2>2. /\ S \in SUBSET Deals /\ d \in S /\ (\A e \in S : V.position[e] \in Nat)
        /\ T \in SUBSET Deals /\ d \in Deals \ T /\ (\A e \in T \cup {d} : V.position[e] \in Nat)
    BY <1>3, <1>5 DEF Live, LoanTypes
  <2>3. Live(X) \ X.overdue = S \ {d} /\ Live(X) \cap X.overdue = T \cup {d}
    BY <1>2, <2>1
  <2>4. V.performing = SumOver(S, V.position) /\ V.overduePrincipal = SumOver(T, V.position)
    BY <1>3 DEF LoanOk
  <2> HIDE DEF S, T
  <2>5. SumOver(S \ {d}, V.position) = SumOver(S, V.position) - V.position[d]
    BY <2>2, BookLess
  <2>6. SumOver(T \cup {d}, V.position) = SumOver(T, V.position) + V.position[d]
    BY <2>2, BookMore
  <2>7. X.performing = SumOver(Live(X) \ X.overdue, X.position)
    BY <1>2, <1>4, <2>3, <2>4, <2>5
  <2>8. X.overduePrincipal = SumOver(Live(X) \cap X.overdue, X.position)
    BY <1>2, <1>4, <2>3, <2>4, <2>6
  <2>9. LoanTypes(X)
    BY <1>2, <1>3, <1>4, <1>5 DEF LoanTypes
  <2>10. AtPrincipal(X)
    BY <1>3, <1>4 DEF LoanOk, AtPrincipal
  <2> QED BY <1>3, <1>4, <2>1, <2>7, <2>8, <2>9, <2>10 DEF LoanOk
<1>7. Kept(X, V)
  <2>1. \A h \in Holders : \A s : BalAt(X, h, s) = BalAt(V, h, s)
    BY <1>4, BalAtFrame
  <2>2. \A e \in V.overdue : X.loanSnapshot[e] = V.loanSnapshot[e]
    BY <1>2, <1>3, <1>5 DEF RecordTypes
  <2> QED BY <1>2, <1>5, <2>1, <2>2 DEF Kept
<1>8. RecordTypes(X)
  <2>1. ASSUME NEW h \in Holders, NEW i \in DOMAIN V.snapshots[h] PROVE V.snapshots[h][i].id <= n
    <3>1. V.snapshots[h] \in Seq([id : Nat, balance : Nat]) /\ V.snapshots[h][i].id <= V.snapshotCount
      BY <1>3 DEF RecordTypes
    <3>2. V.snapshots[h][i] \in [id : Nat, balance : Nat]
      BY <3>1, SeqAt
    <3>3. V.snapshots[h][i].id \in Nat
      BY <3>2
    <3> DEFINE last == V.snapshots[h][i].id
               m == V.snapshotCount
    <3>4. m \in Nat /\ n \in Nat /\ m <= n /\ last \in Nat /\ last <= m
      <4> HIDE DEF n
      <4> QED BY <1>3, <1>5, <3>1, <3>3
    <3> HIDE DEF last, m, n
    <3>5. last <= n
      BY <3>4
    <3> QED BY <3>5 DEF last
  <2>2. V.loanSnapshot \in [Deals -> Nat] /\ V.loanSnapshotSupply \in [Deals -> Nat]
    BY <1>3 DEF RecordTypes
  <2>3. X.loanSnapshot \in [Deals -> Nat] /\ X.loanSnapshotSupply \in [Deals -> Nat]
    BY <1>2, <1>3, <1>5, <2>2
  <2> QED BY <1>2, <1>3, <1>4, <1>5, <2>1, <2>3 DEF RecordTypes
<1>9. OfRecord(X, n) = V.supply
  <2>1. ASSUME NEW h \in Holders PROVE BalAt(X, h, n) = V.balance[h]
    <3>1. ASSUME NEW i \in DOMAIN V.snapshots[h] PROVE ~ (V.snapshots[h][i].id >= n)
      <4>1. V.snapshots[h] \in Seq([id : Nat, balance : Nat]) /\ V.snapshots[h][i].id <= V.snapshotCount
        BY <1>3 DEF RecordTypes
      <4>2. V.snapshots[h][i] \in [id : Nat, balance : Nat]
        BY <4>1, SeqAt
      <4> QED BY <1>3, <4>1, <4>2 DEF n
    <3>2. {i \in DOMAIN X.snapshots[h] : X.snapshots[h][i].id >= n} = {}
      BY <1>4, <3>1
    <3> QED BY <1>4, <3>2 DEF BalAt
  <2>2. [h \in Holders |-> BalAt(X, h, n)] = V.balance
    BY <1>3, <2>1
  <2> QED BY <1>3, <2>2 DEF OfRecord
<1>10. RecordOk(X)
  <2>1. \A s : OfRecord(X, s) = OfRecord(V, s)
    BY <1>4, OfRecordFrame
  <2>2. ASSUME NEW e \in X.overdue
        PROVE  /\ X.loanSnapshot[e] \in 1 .. X.snapshotCount
               /\ OfRecord(X, X.loanSnapshot[e]) = X.loanSnapshotSupply[e]
    <3>1. CASE e = d
      <4>1. X.loanSnapshot[d] = n /\ X.loanSnapshotSupply[d] = V.supply
        BY <1>2, <1>3, <1>5 DEF RecordTypes
      <4>2. n \in 1 .. X.snapshotCount
        BY <1>2, <1>3 DEF n
      <4> QED BY <1>9, <3>1, <4>1, <4>2
    <3>2. CASE e # d
      <4>1. e \in V.overdue /\ e \in Deals
        BY <1>2, <1>3, <3>2 DEF LoanTypes
      <4>2. X.loanSnapshot[e] = V.loanSnapshot[e] /\ X.loanSnapshotSupply[e] = V.loanSnapshotSupply[e]
        BY <1>2, <1>3, <3>2, <4>1 DEF RecordTypes
      <4>3. V.loanSnapshot[e] \in 1 .. V.snapshotCount /\ OfRecord(V, V.loanSnapshot[e]) = V.loanSnapshotSupply[e]
        BY <1>3, <4>1 DEF RecordOk
      <4>4. V.loanSnapshot[e] \in 1 .. n
        BY <1>3, <1>5, <4>3
      <4> QED BY <1>2, <2>1, <4>2, <4>3, <4>4
    <3> QED BY <3>1, <3>2
  <2> QED BY <1>8, <2>2 DEF RecordOk
<1>11. PocketOk(X)
  BY <1>2, <1>3, <1>4, <1>5, <1>7, PocketKept
<1>12. EndOk(X, y.core)
  BY <1>2, <1>3, <1>4 DEF EndOk
<1>13. /\ PolicyFields \cap WrittenFields = {} /\ MoneyFields \cap WrittenFields = {}
       /\ PromiseFields \cap WrittenFields = {} /\ RewardFields \cap WrittenFields = {}
       /\ PriceFields \cap WrittenFields = {} /\ StockFields \cap WrittenFields = {}
  BY DEF PolicyFields, MoneyFields, PromiseFields, RewardFields, PriceFields, StockFields, WrittenFields
<1>14. /\ PolicyOk(X) /\ MoneyOk(X, y.held) /\ PromiseOk(X, y.held) /\ RewardOk(X, y.core, y.held)
       /\ PriceOk(X) /\ StockOk(X) /\ CoreOk(y.core)
  BY <1>2, <1>13, SoundFrame
<1> QED BY <1>2, <1>6, <1>7, <1>10, <1>11, <1>12, <1>14 DEF Sound, Keeps, y

\* A late loan that is written down leaves the share price.
LEMMA WriteDownKeeps ==
  ASSUME NEW w, Sound(w), EnvOk, NEW d \in Live(w.v) \ w.v.overdue
  PROVE  LET y == WriteDown(w, d)
         IN  /\ Keeps(y, w) /\ y.core = w.core /\ y.held = w.held /\ y.v.overdue = w.v.overdue \cup {d}
             /\ Same(y.v, w.v, Fields \ (WrittenFields \cup PriceFields))
<1> DEFINE x == Written(w, d)
           loss == w.v.position[d]
           y == ReportLoss(x, loss)
<1>1. WriteDown(w, d) = y
  BY WriteDownIs
<1>2. loss \in Nat
  BY DEF Sound, LoanOk, LoanTypes, Live
<1>3. /\ Keeps(x, w) /\ x.core = w.core /\ x.held = w.held /\ x.v.overdue = w.v.overdue \cup {d}
      /\ Same(x.v, w.v, Fields \ WrittenFields)
  BY WrittenKeeps
<1> HIDE DEF x, loss
<1>4. Sound(x)
  BY <1>3 DEF Keeps
<1>5. /\ Keeps(y, x) /\ y.core = x.core /\ y.held = x.held
      /\ Same(y.v, x.v, Fields \ {"lockedProfit", "unlockStart", "unlockEnd"})
  BY <1>2, <1>4, ReportLossKeeps
<1> HIDE DEF y
<1>6. Keeps(y, w)
  BY <1>3, <1>5, KeepsChain
<1>7. y.v.overdue = x.v.overdue
  BY <1>5 DEF Same, Fields
<1>8. Same(y.v, w.v, Fields \ (WrittenFields \cup PriceFields))
  BY <1>3, <1>5 DEF Same, PriceFields
<1> QED BY <1>1, <1>3, <1>5, <1>6, <1>7, <1>8

\* The stages of a listing by their names.
LEMMA StageNamed ==
  "FUNDING" \in Stages /\ "ACTIVE" \in Stages /\ "REPAID" \in Stages /\ "DEFAULTED" \in Stages /\ "CANCELLED" \in Stages
BY DEF Stages

\* What the engine records of a listing when it ends.
Stopped(new, old, stage, t) == new = [old EXCEPT !.state = stage, !.closedAt = t]

\* A listing that ended is a listing, with its loan and slots as before.
LEMMA DealMoves ==
  ASSUME NEW old \in DealType, NEW stage \in Stages, NEW t \in Nat,
         NEW new, Stopped(new, old, stage, t)
  PROVE  new \in DealType /\ new.state = stage /\ new.fundedAt = old.fundedAt /\ new.mine = old.mine
BY DEF DealType, Stopped

\* A default that the engine records touches no loan that was settled before.
LEMMA FinalizedKeeps ==
  ASSUME NEW w, Sound(w), EnvOk, NEW d \in Deals, w.core.deal[d].state = "ACTIVE"
  PROVE  LET y == Finalized(w, d)
         IN  /\ Keeps(y, w) /\ y.v = w.v /\ y.held = w.held
             /\ \A e \in Deals \ {d} : y.core.deal[e] = w.core.deal[e]
             /\ y.core.deal[d].state = "DEFAULTED" /\ y.core.deal[d].fundedAt = w.core.deal[d].fundedAt
<1> DEFINE y == Finalized(w, d)
           new == [w.core.deal[d] EXCEPT !.state = "DEFAULTED", !.closedAt = now]
<1>1. FinalizedWrote(y, w, d)
  BY SoundShape, FinalizedDoes
<1> HIDE DEF y
<1>2. /\ Shape(y) /\ y.core = [w.core EXCEPT !.deal = [w.core.deal EXCEPT ![d] = new]]
      /\ y.held = w.held /\ y.v = w.v
  BY <1>1 DEF FinalizedWrote
<1>3. CoreOk(w.core) /\ EndOk(w.v, w.core) /\ w.core.deal \in [Deals -> DealType] /\ now \in Nat /\ Shape(w)
  BY DEF Sound, CoreOk, EnvOk
<1>4. w.core.deal[d] \in DealType
  BY <1>3
<1>5. new \in DealType /\ new.state = "DEFAULTED" /\ new.fundedAt = w.core.deal[d].fundedAt
  <2> DEFINE old == w.core.deal[d]
             stage == "DEFAULTED"
  <2>1. old \in DealType /\ stage \in Stages /\ Stopped(new, old, stage, now)
    BY <1>4, StageNamed DEF Stopped
  <2> HIDE DEF old, stage, new
  <2>2. new \in DealType /\ new.state = stage /\ new.fundedAt = old.fundedAt
    BY <1>3, <2>1, DealMoves
  <2> QED BY <2>2 DEF old, stage
<1> HIDE DEF new
<1>6. /\ y.core.deal = [w.core.deal EXCEPT ![d] = new] /\ y.core.credit = w.core.credit
      /\ y.core.reward = w.core.reward
  BY <1>2, <1>3 DEF Shape
<1>7. /\ y.core.deal \in [Deals -> DealType] /\ y.core.deal[d] = new
      /\ \A e \in Deals \ {d} : y.core.deal[e] = w.core.deal[e]
  BY <1>3, <1>5, <1>6
<1>8. CoreOk(y.core)
  BY <1>3, <1>6, <1>7 DEF CoreOk
<1>9. EndOk(y.v, y.core)
  <2>1. w.v.terminal \subseteq Deals
    BY DEF Sound, LoanOk, LoanTypes
  <2>2. d \notin w.v.terminal \ w.v.withdrawn
    BY <1>3 DEF EndOk, Final
  <2>3. ASSUME NEW e \in y.v.terminal \ y.v.withdrawn
        PROVE  y.core.deal[e].state \in Final /\ (Late(y.core, e) => e \in y.v.overdue)
    <3>1. e \in Deals \ {d} /\ e \in w.v.terminal \ w.v.withdrawn
      BY <1>2, <2>1, <2>2, <2>3
    <3>2. y.core.deal[e] = w.core.deal[e]
      BY <1>7, <3>1
    <3> QED BY <1>2, <1>3, <3>1, <3>2 DEF EndOk, Late
  <2> QED BY <2>3 DEF EndOk
<1>10. RewardOk(y.v, y.core, y.held)
  <2>1. Announced(y.v, y.core) = Announced(w.v, w.core)
    BY <1>2, <1>6 DEF Announced
  <2> QED BY <1>2, <2>1 DEF Sound, RewardOk
<1>11. Kept(y.v, w.v)
  BY <1>2, KeepsSelf DEF Keeps
<1> QED BY <1>2, <1>5, <1>7, <1>8, <1>9, <1>10, <1>11 DEF Sound, Keeps, y

\* The entry of a new pocket.
Pocket(w, d, token, amount) ==
  [deal |-> d, token |-> token, amount |-> amount, claimed |-> 0,
   supply |-> w.v.loanSnapshotSupply[d], snapshot |-> w.v.loanSnapshot[d]]

\* A new pocket is what it was opened with.
LEMMA PocketTyped ==
  ASSUME NEW w, NEW d \in Deals, NEW token \in Tokens, NEW amount \in Nat,
         w.v.loanSnapshotSupply[d] \in Nat, w.v.loanSnapshot[d] \in Nat
  PROVE  /\ Pocket(w, d, token, amount) \in PocketType
         /\ Pocket(w, d, token, amount).token = token /\ Pocket(w, d, token, amount).amount = amount
         /\ Pocket(w, d, token, amount).claimed = 0
         /\ Pocket(w, d, token, amount).supply = w.v.loanSnapshotSupply[d]
         /\ Pocket(w, d, token, amount).snapshot = w.v.loanSnapshot[d]
BY DEF Pocket, PocketType

\* A sum over one more member.
LEMMA SumInsert ==
  ASSUME NEW g, NEW S, NEW T, NEW m, IsFiniteSet(T), m \in T, T \ {m} = S, \A x \in T : g[x] \in Int
  PROVE  SumOver(T, g) = g[m] + SumOver(S, g)
BY SumRemove DEF SumOver

\* A new pocket is owed to the holders of its loan's write-down, and nobody has claimed of it.
LEMMA PocketAdded ==
  ASSUME NEW V, NEW X, NEW e \in PocketType, NEW amount \in Nat, NEW token \in Tokens,
         PocketOk(V), V.snapshotCount \in Nat, V.pocketLiability \in [Tokens -> Nat],
         e.amount = amount, e.claimed = 0, e.token = token,
         e.snapshot \in 1 .. V.snapshotCount, OfRecord(V, e.snapshot) = e.supply,
         X.pockets = Append(V.pockets, e), X.pocketClaimed = V.pocketClaimed,
         X.snapshots = V.snapshots, X.balance = V.balance, X.snapshotCount = V.snapshotCount,
         X.pocketLiability[token] = V.pocketLiability[token] + amount,
         \A t \in Tokens \ {token} : X.pocketLiability[t] = V.pocketLiability[t]
  PROVE  PocketOk(X)
<1> DEFINE q == V.pockets
           r == Append(q, e)
           n == Len(q)
<1>1. q \in Seq(PocketType) /\ V.pocketClaimed \subseteq (DOMAIN q) \X Holders
  BY DEF PocketOk
<1>2. /\ n \in Nat /\ DOMAIN q = 1 .. n /\ (\A i \in 1 .. n : q[i] \in PocketType)
      /\ r \in Seq(PocketType) /\ DOMAIN r = 1 .. n + 1 /\ r[n + 1] = e /\ \A i \in 1 .. n : r[i] = q[i]
  <2> HIDE DEF q
  <2> QED BY <1>1, SeqAt, AppendAt
<1>3. X.pockets = r
  OBVIOUS
<1> HIDE DEF r, n
<1>4. \A h \in Holders : \A s : BalAt(X, h, s) = BalAt(V, h, s)
  BY BalAtFrame
<1>5. \A s : OfRecord(X, s) = OfRecord(V, s)
  BY OfRecordFrame
<1>6. ASSUME NEW p \in DOMAIN X.pockets
      PROVE  /\ X.pockets[p].snapshot \in 1 .. X.snapshotCount
             /\ OfRecord(X, X.pockets[p].snapshot) = X.pockets[p].supply
             /\ X.pockets[p].claimed = PaidOut(X, p) /\ X.pockets[p].claimed <= X.pockets[p].amount
  <2>1. CASE p \in 1 .. n
    <3>1. X.pockets[p] = q[p]
      BY <1>2, <1>3, <2>1
    <3>2. [h \in Holders |-> Slice0(X, p, h)] = [h \in Holders |-> Slice0(V, p, h)]
      BY <1>4, <3>1 DEF Slice0
    <3>3. PaidOut(X, p) = PaidOut(V, p)
      BY <3>2 DEF PaidOut
    <3> QED BY <1>2, <1>5, <2>1, <3>1, <3>3 DEF PocketOk
  <2>2. CASE p = n + 1
    <3>1. X.pockets[p] = e
      BY <1>2, <1>3, <2>2
    <3>2. {h \in Holders : <<p, h>> \in X.pocketClaimed} = {}
      BY <1>1, <1>2, <2>2
    <3>3. PaidOut(X, p) = 0
      BY <3>2, SumEmpty DEF PaidOut, SumOver
    <3> QED BY <1>5, <3>1, <3>3
  <2> QED BY <1>2, <1>3, <2>1, <2>2
<1>7. ASSUME NEW t \in Tokens PROVE X.pocketLiability[t] = Unpaid(X, t)
  <2> DEFINE S == {p \in DOMAIN q : q[p].token = t}
             T == {p \in DOMAIN r : r[p].token = t}
             f == [p \in DOMAIN q |-> q[p].amount - q[p].claimed]
             g == [p \in DOMAIN r |-> r[p].amount - r[p].claimed]
  <2>1. Unpaid(V, t) = SumOver(S, f) /\ Unpaid(X, t) = SumOver(T, g) /\ V.pocketLiability[t] = SumOver(S, f)
    BY <1>3 DEF Unpaid, PocketOk
  <2>2. \A i \in 1 .. n + 1 : r[i] \in PocketType
    BY <1>2
  <2>3. IsFiniteSet(T) /\ IsFiniteSet(S) /\ (\A p \in T : g[p] \in Int) /\ (\A p \in S : f[p] = g[p])
    <3>1. n + 1 \in Int /\ T \subseteq 1 .. n + 1 /\ S \subseteq 1 .. n + 1
      BY <1>2
    <3>2. IsFiniteSet(1 .. n + 1)
      BY <3>1, FS_Interval
    <3>3. IsFiniteSet(T) /\ IsFiniteSet(S)
      BY <3>1, <3>2, FS_Subset
    <3>4. ASSUME NEW p \in T PROVE g[p] \in Int
      <4>1. p \in 1 .. n + 1 /\ p \in DOMAIN r
        BY <3>1, <1>2
      <4>2. r[p].amount \in Nat /\ r[p].claimed \in Nat
        BY <2>2, <4>1 DEF PocketType
      <4> QED BY <4>1, <4>2
    <3>5. ASSUME NEW p \in S PROVE f[p] = g[p]
      <4>1. p \in DOMAIN q /\ p \in DOMAIN r /\ r[p] = q[p]
        BY <1>2
      <4> QED BY <4>1
    <3> QED BY <3>3, <3>4, <3>5
  <2>4. (t = token => T = S \cup {n + 1} /\ n + 1 \in T /\ T \ {n + 1} = S /\ g[n + 1] = amount) /\ (t # token => T = S)
    BY <1>2
  <2> HIDE DEF S, T, f, g
  <2>5. SumOver(S, f) = SumOver(S, g)
    BY <2>3, SumSame DEF SumOver
  <2>6. CASE t # token
    BY <2>1, <2>4, <2>5, <2>6
  <2>7. CASE t = token
    <3> DEFINE m == n + 1
    <3>1. IsFiniteSet(T) /\ (\A p \in T : g[p] \in Int) /\ m \in T /\ T \ {m} = S /\ g[m] = amount
      BY <2>3, <2>4, <2>7
    <3> HIDE DEF m
    <3>2. V.pocketLiability[t] \in Nat
      OBVIOUS
    <3>3. X.pocketLiability[t] = V.pocketLiability[t] + amount
      BY <2>7
    <3>4. SumOver(T, g) = amount + SumOver(S, g)
      <4>1. IsFiniteSet(T) /\ m \in T /\ T \ {m} = S /\ \A p \in T : g[p] \in Int
        BY <3>1
      <4>2. SumOver(T, g) = g[m] + SumOver(S, g)
        BY ONLY <4>1, SumInsert
      <4> QED BY <3>1, <4>2
    <3> QED BY <2>1, <2>5, <3>2, <3>3, <3>4
  <2> QED BY <2>6, <2>7
<1>8. X.pocketClaimed \subseteq (DOMAIN X.pockets) \X Holders
  BY <1>1, <1>2, <1>3
<1> QED BY <1>2, <1>3, <1>6, <1>7, <1>8 DEF PocketOk

\* A pocket sets aside what nothing else claims.
LEMMA OpenPocketKeeps ==
  ASSUME NEW w, Sound(w), NEW d \in w.v.overdue, NEW token \in Tokens, NEW amount \in Nat,
         w.v.pocketLiability[token] + amount <= w.held[token],
         token = "USDG" => Claims(w.v) + amount <= w.held["USDG"],
         token = "SGAGE" => w.v.accounted + w.v.orphan + w.v.pocketLiability["SGAGE"] + amount
                              <= w.held["SGAGE"] + Announced(w.v, w.core)
  PROVE  LET y == OpenPocket(w, d, token, amount)
         IN  /\ Keeps(y, w) /\ y.core = w.core /\ y.held = w.held
             /\ Same(y.v, w.v, Fields \ {"pocketLiability", "pockets"})
<1> DEFINE y == OpenPocket(w, d, token, amount)
           V == w.v
           X == y.v
           K == {"pocketLiability", "pockets"}
           e == Pocket(w, d, token, amount)
<1>1. OpenPocketWrote(y, w, d, token, amount)
  BY SoundShape, OpenPocketDoes
<1> HIDE DEF y
<1>2. /\ Shape(y) /\ y.core = w.core /\ y.held = w.held
      /\ X.pocketLiability = [V.pocketLiability EXCEPT ![token] = V.pocketLiability[token] + amount]
      /\ X.pockets = Append(V.pockets, e) /\ Same(X, V, Fields \ K)
  BY <1>1 DEF OpenPocketWrote, Pocket
<1>3. /\ MoneyOk(V, w.held) /\ PromiseOk(V, w.held) /\ RewardOk(V, w.core, w.held) /\ PocketOk(V)
      /\ RecordOk(V) /\ RecordTypes(V) /\ CoreOk(w.core) /\ V.overdue \subseteq Deals
  BY DEF Sound, LoanOk, LoanTypes, RecordOk
<1>4. /\ e \in PocketType /\ e.token = token /\ e.amount = amount /\ e.claimed = 0
      /\ e.snapshot = V.loanSnapshot[d] /\ e.supply = V.loanSnapshotSupply[d]
  <2>1. d \in Deals /\ V.loanSnapshotSupply[d] \in Nat /\ V.loanSnapshot[d] \in Nat
    BY <1>3 DEF RecordTypes
  <2> QED BY <2>1, PocketTyped
<1> HIDE DEF e
<1>5. e.snapshot \in 1 .. V.snapshotCount /\ OfRecord(V, e.snapshot) = e.supply
  BY <1>3, <1>4 DEF RecordOk
<1>6. /\ X.pocketClaimed = V.pocketClaimed /\ X.snapshots = V.snapshots /\ X.balance = V.balance
      /\ X.snapshotCount = V.snapshotCount
      /\ X.cash = V.cash /\ X.feeAccrued = V.feeAccrued /\ X.claimable = V.claimable
      /\ X.claimableTotal = V.claimableTotal /\ X.harvested = V.harvested /\ X.assigned = V.assigned
      /\ X.accPerShare = V.accPerShare /\ X.orphan = V.orphan /\ X.accounted = V.accounted
      /\ X.liability = V.liability /\ X.observed = V.observed /\ X.index = V.index /\ X.owed = V.owed
  BY <1>2 DEF Same, Fields
<1>7. V.pocketLiability \in [Tokens -> Nat] /\ w.held \in [Tokens -> Nat] /\ V.snapshotCount \in Nat
  BY <1>3 DEF PromiseOk, RecordTypes
<1>8. /\ X.pocketLiability \in [Tokens -> Nat] /\ X.pocketLiability[token] = V.pocketLiability[token] + amount
      /\ \A t \in Tokens \ {token} : X.pocketLiability[t] = V.pocketLiability[t]
  BY <1>2, <1>7
<1>9. PocketOk(X)
  <2> DEFINE V0 == w.v
             X0 == y.v
  <2>1. /\ PocketOk(V0) /\ V0.snapshotCount \in Nat /\ V0.pocketLiability \in [Tokens -> Nat]
        /\ e \in PocketType /\ e.amount = amount /\ e.claimed = 0 /\ e.token = token
        /\ e.snapshot \in 1 .. V0.snapshotCount /\ OfRecord(V0, e.snapshot) = e.supply
        /\ X0.pockets = Append(V0.pockets, e) /\ X0.pocketClaimed = V0.pocketClaimed
        /\ X0.snapshots = V0.snapshots /\ X0.balance = V0.balance /\ X0.snapshotCount = V0.snapshotCount
        /\ X0.pocketLiability[token] = V0.pocketLiability[token] + amount
        /\ \A t \in Tokens \ {token} : X0.pocketLiability[t] = V0.pocketLiability[t]
    BY <1>2, <1>3, <1>4, <1>5, <1>6, <1>7, <1>8
  <2> HIDE DEF V0, X0
  <2>2. PocketOk(X0)
    BY <2>1, PocketAdded
  <2> QED BY <2>2 DEF X0
<1>10. PromiseOk(X, y.held)
  BY <1>2, <1>3, <1>7, <1>8 DEF PromiseOk
<1>11. MoneyOk(X, y.held)
  <2>1. /\ V.cash \in Nat /\ V.feeAccrued \in Nat /\ V.harvested \in Nat /\ V.assigned \in Nat
        /\ V.claimableTotal \in Nat /\ V.pocketLiability["USDG"] \in Nat /\ w.held["USDG"] \in Nat
        /\ Claims(V) \in Nat /\ Claims(V) <= w.held["USDG"]
    BY <1>3, ClaimsCover
  <2>2. Claims(X) <= w.held["USDG"]
    <3>1. CASE token = "USDG"
      <4>1. Claims(X) = Claims(V) + amount
        BY <1>6, <1>8, <2>1, <3>1 DEF Claims
      <4> QED BY <3>1, <4>1
    <3>2. CASE token # "USDG"
      <4>1. X.pocketLiability["USDG"] = V.pocketLiability["USDG"]
        BY <1>8, <3>2, Parameters
      <4> QED BY <1>6, <2>1, <4>1 DEF Claims
    <3> QED BY <3>1, <3>2
  <2> QED BY <1>2, <1>3, <1>6, <2>2 DEF MoneyOk
<1>12. RewardOk(X, y.core, y.held)
  <2>1. RewardCore(V) /\ V.accounted \in Nat /\ V.orphan \in Nat /\ V.pocketLiability["SGAGE"] \in Nat
        /\ V.accounted + V.orphan + V.pocketLiability["SGAGE"] <= w.held["SGAGE"] + Announced(V, w.core)
    BY <1>3, <1>7, Parameters DEF RewardOk, RewardCore, RewardTypes
  <2>2. Announced(X, y.core) = Announced(V, w.core) /\ Unsettled(X) = Unsettled(V)
    BY <1>2, <1>6 DEF Announced, Unsettled
  <2>3. RewardCore(X)
    BY <1>6, <2>1, <2>2 DEF RewardCore, RewardTypes
  <2>4. X.accounted + X.orphan + X.pocketLiability["SGAGE"] <= w.held["SGAGE"] + Announced(V, w.core)
    <3>1. CASE token = "SGAGE"
      <4> DEFINE m == w.held["SGAGE"] + Announced(V, w.core)
                 b == V.pocketLiability["SGAGE"]
      <4>1. X.pocketLiability["SGAGE"] = b + amount /\ V.accounted + V.orphan + b + amount <= m
        BY <1>8, <3>1
      <4> HIDE DEF m, b
      <4>2. b \in Nat
        BY <2>1 DEF b
      <4>3. X.accounted + X.orphan + X.pocketLiability["SGAGE"] = V.accounted + V.orphan + b + amount
        BY <1>6, <2>1, <4>1, <4>2
      <4> QED BY <4>1, <4>3 DEF m
    <3>2. CASE token # "SGAGE"
      <4>1. X.pocketLiability["SGAGE"] = V.pocketLiability["SGAGE"]
        BY <1>8, <3>2, Parameters
      <4> QED BY <1>6, <2>1, <4>1
    <3> QED BY <3>1, <3>2
  <2> QED BY <1>2, <2>2, <2>3, <2>4 DEF RewardOk
<1>13. /\ PolicyFields \cap K = {} /\ LoanFields \cap K = {} /\ PriceFields \cap K = {}
       /\ StockFields \cap K = {} /\ RecordFields \cap K = {} /\ EndFields \cap K = {}
  BY DEF PolicyFields, LoanFields, PriceFields, StockFields, RecordFields, EndFields
<1> HIDE DEF K
<1>14. /\ PolicyOk(X) /\ LoanOk(X) /\ PriceOk(X) /\ StockOk(X) /\ RecordOk(X) /\ Kept(X, V)
       /\ EndOk(X, y.core) /\ CoreOk(y.core)
  BY <1>2, <1>13, SoundFrame
<1> QED BY <1>2, <1>9, <1>10, <1>11, <1>12, <1>14 DEF Sound, Keeps, y, K

\* Tokens that arrive unannounced harm no book.
LEMMA HeldGrows ==
  ASSUME NEW w, Sound(w), NEW token \in Tokens, NEW amount \in Nat, NEW y, Shape(y), y.v = w.v,
         CoreOk(y.core), y.core.deal = w.core.deal, y.core.reward = w.core.reward,
         y.held = [w.held EXCEPT ![token] = w.held[token] + amount]
  PROVE  Keeps(y, w)
<1>1. /\ MoneyOk(w.v, w.held) /\ PromiseOk(w.v, w.held) /\ RewardOk(w.v, w.core, w.held)
      /\ w.held \in [Tokens -> Nat] /\ EndOk(w.v, w.core)
  BY DEF Sound, PromiseOk
<1>2. /\ y.held \in [Tokens -> Nat] /\ \A t \in Tokens : w.held[t] <= y.held[t]
      /\ \A t \in Tokens : y.held[t] \in Nat /\ w.held[t] \in Nat
  BY <1>1
<1>3. MoneyOk(y.v, y.held)
  <2>1. Claims(w.v) \in Nat /\ Claims(w.v) <= w.held["USDG"]
    BY <1>1, ClaimsCover
  <2>2. w.held["USDG"] <= y.held["USDG"] /\ w.held["USDG"] \in Nat /\ y.held["USDG"] \in Nat
    BY <1>2, Parameters
  <2> QED BY <1>1, <2>1, <2>2 DEF MoneyOk
<1>4. PromiseOk(y.v, y.held)
  <2>1. ASSUME NEW t \in Tokens PROVE w.v.pocketLiability[t] <= y.held[t]
    <3>1. w.v.pocketLiability[t] \in Nat /\ w.v.pocketLiability[t] <= w.held[t]
      BY <1>1 DEF PromiseOk
    <3> QED BY <1>2, <3>1
  <2> QED BY <1>1, <1>2, <2>1 DEF PromiseOk
<1>5. RewardOk(y.v, y.core, y.held)
  <2>1. Announced(y.v, y.core) = Announced(w.v, w.core)
    BY DEF Announced
  <2>2. w.held["SGAGE"] <= y.held["SGAGE"] /\ w.held["SGAGE"] \in Nat /\ y.held["SGAGE"] \in Nat
    BY <1>2, Parameters
  <2>3. /\ w.v.accounted \in Nat /\ w.v.orphan \in Nat /\ w.v.pocketLiability["SGAGE"] \in Nat
        /\ Announced(w.v, w.core) \in Nat
        /\ w.v.accounted + w.v.orphan + w.v.pocketLiability["SGAGE"] <= w.held["SGAGE"] + Announced(w.v, w.core)
    <3>1. w.v.observed \in [Deals -> Nat] /\ w.core.reward \in [Deals -> Nat]
      BY <1>1 DEF RewardOk, RewardCore, RewardTypes, Sound, CoreOk
    <3>2. \A d \in Deals : [e \in Deals |-> Atmost(w.v.observed[e], w.core.reward[e])][d] \in Nat
      BY <3>1 DEF Atmost
    <3>3. Announced(w.v, w.core) \in Nat
      BY <3>2, DealsNat DEF Announced
    <3> QED BY <1>1, <3>3, Parameters DEF RewardOk, RewardCore, RewardTypes, PromiseOk
  <2>4. w.v.accounted + w.v.orphan + w.v.pocketLiability["SGAGE"] <= y.held["SGAGE"] + Announced(w.v, w.core)
    BY <2>2, <2>3
  <2> QED BY <1>1, <2>1, <2>4 DEF RewardOk
<1>6. EndOk(y.v, y.core)
  BY <1>1 DEF EndOk, Late
<1>7. Kept(y.v, w.v)
  BY KeepsSelf DEF Keeps
<1> QED BY <1>3, <1>4, <1>5, <1>6, <1>7 DEF Sound, Keeps

\* What the strategy can still withdraw of a recovered asset is a natural number.
LEMMA RecoverableNat ==
  ASSUME NEW w, NEW d \in Deals, NEW x \in 0 .. 1
  PROVE  Recoverable(w, d, x) \in Nat /\ Terms[d].recovery[x].token \in Tokens
<1>1. Terms[d].recovery[x].amount \in Nat /\ Terms[d].recovery[x].token \in Tokens
  BY HybridInputs
<1>2. Share(Terms[d].recovery[x].amount, w.core.deal[d].mine) \in Nat
  BY <1>1, ShareNat
<1> QED BY <1>1, <1>2 DEF Recoverable

\* A recovered asset is in the strategy's hands before its pocket is opened.
LEMMA RecoverAssetKeeps ==
  ASSUME NEW w, Sound(w), NEW d \in w.v.overdue, NEW x \in 0 .. 1
  PROVE  LET y == RecoverAsset(w, d, x)
         IN  /\ Keeps(y, w) /\ y.core.deal = w.core.deal /\ y.core.reward = w.core.reward
             /\ Same(y.v, w.v, Fields \ {"pocketLiability", "pockets"})
<1> DEFINE amount == Recoverable(w, d, x)
           token == Terms[d].recovery[x].token
           z == Taken(w, d, x, token, amount)
           y == RecoverAsset(w, d, x)
<1>1. y = IF amount = 0 THEN w ELSE OpenPocket(z, d, token, amount)
  BY RecoverAssetIs
<1>2. amount \in Nat /\ token \in Tokens
  <2>1. d \in Deals
    BY DEF Sound, LoanOk, LoanTypes
  <2> QED BY <2>1, RecoverableNat
<1> HIDE DEF amount, token, y
<1>3. CASE amount = 0
  <2>1. y = w
    BY <1>1, <1>3
  <2>2. Same(w.v, w.v, Fields \ {"pocketLiability", "pockets"}) /\ Keeps(w, w)
    BY KeepsSelf DEF Same
  <2> QED BY <2>1, <2>2 DEF y
<1>4. CASE amount # 0
  <2>1. TakenWrote(z, w, d, x, token, amount)
    BY SoundShape, TakenDoes
  <2> HIDE DEF z
  <2>2. /\ Shape(z) /\ z.core = [w.core EXCEPT !.paid = w.core.paid \cup {<<d, x>>}]
        /\ z.held = [w.held EXCEPT ![token] = w.held[token] + amount] /\ z.v = w.v
    BY <2>1 DEF TakenWrote
  <2>3. z.core.deal = w.core.deal /\ z.core.reward = w.core.reward /\ z.core.credit = w.core.credit
    BY <2>2 DEF Shape
  <2>4. CoreOk(z.core)
    BY <2>3 DEF Sound, CoreOk
  <2>5. Keeps(z, w)
    BY <1>2, <2>2, <2>3, <2>4, HeldGrows
  <2>6. Sound(z) /\ d \in z.v.overdue
    BY <2>2, <2>5 DEF Keeps
  <2>7. /\ MoneyOk(w.v, w.held) /\ PromiseOk(w.v, w.held) /\ RewardOk(w.v, w.core, w.held)
        /\ w.held \in [Tokens -> Nat]
    BY DEF Sound, PromiseOk
  <2>8. z.held[token] = w.held[token] + amount
    BY <1>2, <2>2, <2>7
  <2>9. z.v.pocketLiability[token] + amount <= z.held[token]
    <3>1. w.v.pocketLiability[token] \in Nat /\ w.held[token] \in Nat /\ w.v.pocketLiability[token] <= w.held[token]
      BY <1>2, <2>7 DEF PromiseOk
    <3> QED BY <1>2, <2>2, <2>8, <3>1
  <2>10. token = "USDG" => Claims(z.v) + amount <= z.held["USDG"]
    <3>1. Claims(w.v) \in Nat /\ Claims(w.v) <= w.held["USDG"] /\ w.held["USDG"] \in Nat
      BY <2>7, ClaimsCover
    <3> QED BY <1>2, <2>2, <2>8, <3>1
  <2>11. token = "SGAGE" => z.v.accounted + z.v.orphan + z.v.pocketLiability["SGAGE"] + amount
                              <= z.held["SGAGE"] + Announced(z.v, z.core)
    <3>1. Announced(z.v, z.core) = Announced(w.v, w.core)
      BY <2>2, <2>3 DEF Announced
    <3>2. /\ w.v.accounted \in Nat /\ w.v.orphan \in Nat /\ w.v.pocketLiability["SGAGE"] \in Nat
          /\ w.held["SGAGE"] \in Nat /\ Announced(w.v, w.core) \in Nat
      <4>1. w.v.observed \in [Deals -> Nat] /\ w.core.reward \in [Deals -> Nat]
        BY <2>7 DEF RewardOk, RewardCore, RewardTypes, Sound, CoreOk
      <4>2. \A e \in Deals : [a \in Deals |-> Atmost(w.v.observed[a], w.core.reward[a])][e] \in Nat
        BY <4>1 DEF Atmost
      <4>3. Announced(w.v, w.core) \in Nat
        BY <4>2, DealsNat DEF Announced
      <4> QED BY <2>7, <4>3, Parameters DEF RewardOk, RewardCore, RewardTypes, PromiseOk
    <3>3. w.v.accounted + w.v.orphan + w.v.pocketLiability["SGAGE"] <= w.held["SGAGE"] + Announced(w.v, w.core)
      BY <2>7 DEF RewardOk
    <3> DEFINE a == w.v.accounted
               o == w.v.orphan
               p == w.v.pocketLiability["SGAGE"]
               b == w.held["SGAGE"]
               n == Announced(w.v, w.core)
    <3>4. SUFFICES ASSUME token = "SGAGE" PROVE a + o + p + amount <= z.held["SGAGE"] + n
      BY <2>2, <3>1
    <3>5. z.held["SGAGE"] = b + amount
      BY <2>8, <3>4
    <3>6. a \in Nat /\ o \in Nat /\ p \in Nat /\ b \in Nat /\ n \in Nat /\ a + o + p <= b + n
      BY <3>2, <3>3
    <3> HIDE DEF a, o, p, b, n
    <3> QED BY <1>2, <3>5, <3>6
  <2> DEFINE u == OpenPocket(z, d, token, amount)
  <2>12. /\ Keeps(u, z) /\ u.core = z.core
         /\ Same(u.v, z.v, Fields \ {"pocketLiability", "pockets"})
    BY <1>2, <2>6, <2>9, <2>10, <2>11, OpenPocketKeeps
  <2>13. y = u
    BY <1>1, <1>4
  <2> HIDE DEF u
  <2>14. Keeps(u, w)
    BY <2>5, <2>12, KeepsChain
  <2> QED BY <2>2, <2>3, <2>12, <2>13, <2>14 DEF y
<1> QED BY <1>3, <1>4

\* What is recovered of a late loan goes to the pockets of its holders of record; the books hold.
LEMMA RecoverLoanKeeps ==
  ASSUME NEW w, Sound(w), NEW d \in w.v.overdue
  PROVE  LET y == RecoverLoan(w, d)
         IN  /\ Keeps(y, w) /\ y.core.deal = w.core.deal /\ y.core.reward = w.core.reward
             /\ Same(y.v, w.v, Fields \ {"pocketLiability", "pockets"})
<1> DEFINE K == {"pocketLiability", "pockets"}
           a == Opened(w, d)
           b == RecoverAsset(a, d, 0)
           c == RecoverAsset(b, d, 1)
<1>1. RecoverLoan(w, d) = c
  BY RecoverLoanIs
<1>2. OpenedWrote(a, w, d)
  BY SoundShape, OpenedDoes
<1> HIDE DEF a
<1>3. /\ Shape(a) /\ a.core = [w.core EXCEPT !.recovered = w.core.recovered \cup {d}]
      /\ a.held = w.held /\ a.v = w.v
  BY <1>2 DEF OpenedWrote
<1>4. a.core.deal = w.core.deal /\ a.core.reward = w.core.reward /\ a.core.credit = w.core.credit
  BY <1>3 DEF Shape
<1>5. Keeps(a, w)
  <2>1. CoreOk(a.core) /\ EndOk(a.v, a.core) /\ Announced(a.v, a.core) = Announced(w.v, w.core)
    BY <1>3, <1>4 DEF Sound, CoreOk, EndOk, Late, Announced
  <2>2. RewardOk(a.v, a.core, a.held)
    BY <1>3, <2>1 DEF Sound, RewardOk
  <2>3. Kept(a.v, w.v)
    BY <1>3, KeepsSelf DEF Keeps
  <2> QED BY <1>3, <2>1, <2>2, <2>3 DEF Sound, Keeps
<1>6. Sound(a) /\ d \in a.v.overdue
  BY <1>3, <1>5 DEF Keeps
<1>7. Keeps(b, a) /\ b.core.deal = a.core.deal /\ b.core.reward = a.core.reward /\ Same(b.v, a.v, Fields \ K)
  <2> DEFINE i == 0
  <2>1. i \in 0 .. 1
    OBVIOUS
  <2> HIDE DEF i
  <2>2. Keeps(RecoverAsset(a, d, i), a)
        /\ RecoverAsset(a, d, i).core.deal = a.core.deal /\ RecoverAsset(a, d, i).core.reward = a.core.reward
        /\ Same(RecoverAsset(a, d, i).v, a.v, Fields \ K)
    BY <1>6, <2>1, RecoverAssetKeeps
  <2> QED BY <2>2 DEF i
<1> HIDE DEF b
<1>8. Sound(b) /\ d \in b.v.overdue
  BY <1>6, <1>7 DEF Keeps, Same, Fields
<1>9. Keeps(c, b) /\ c.core.deal = b.core.deal /\ c.core.reward = b.core.reward /\ Same(c.v, b.v, Fields \ K)
  BY <1>8, RecoverAssetKeeps
<1> HIDE DEF c
<1>10. Keeps(c, w)
  <2>1. Keeps(b, w)
    BY <1>5, <1>7, KeepsChain
  <2> QED BY <1>9, <2>1, KeepsChain
<1>11. Same(c.v, w.v, Fields \ K)
  BY <1>3, <1>7, <1>9 DEF Same
<1> QED BY <1>1, <1>4, <1>7, <1>9, <1>10, <1>11

(***************************************************************************)
(* Settlement.                                                             *)
(***************************************************************************)
EndedFields ==
  {"borrowerPrincipal", "lanePrincipal", "overduePrincipal", "performing", "assigned", "terminal"}
\* The loan may be retired: taken back, or ended and, if late, written down.
Over0(w, d) ==
  \/ d \in w.v.withdrawn
  \/ w.core.deal[d].state \in Final /\ (Late(w.core, d) => d \in w.v.overdue)

\* A retired loan leaves every running total, and its payout is no more harvested cash.
LEMMA EndedKeeps ==
  ASSUME NEW w, Sound(w), NEW d \in Live(w.v), NEW payout \in Nat,
         w.v.assigned + payout <= w.v.harvested, Over0(w, d)
  PROVE  LET y == Ended0(w, d, payout)
         IN  /\ Keeps(y, w) /\ y.core = w.core /\ y.held = w.held
             /\ y.v.terminal = w.v.terminal \cup {d} /\ Claims(y.v) + payout <= y.held["USDG"]
             /\ Same(y.v, w.v, Fields \ EndedFields)
<1> DEFINE y == Ended0(w, d, payout)
           V == w.v
           X == y.v
           n == V.position[d]
           c == Carried(w, d)
<1>1. EndedWrote(y, w, d, payout)
  BY SoundShape, EndedDoes
<1> HIDE DEF y
<1>2. /\ Shape(y) /\ y.core = w.core /\ y.held = w.held
      /\ X.borrowerPrincipal =
           [V.borrowerPrincipal EXCEPT ![Terms[d].borrower] = V.borrowerPrincipal[Terms[d].borrower] - n]
      /\ X.lanePrincipal = [V.lanePrincipal EXCEPT ![Terms[d].lane] = V.lanePrincipal[Terms[d].lane] - n]
      /\ X.overduePrincipal = V.overduePrincipal - (n - c) /\ X.performing = V.performing - c
      /\ X.assigned = V.assigned + payout /\ X.terminal = V.terminal \cup {d}
      /\ Same(X, V, Fields \ EndedFields)
  BY <1>1 DEF EndedWrote, EndedFields
<1>3. /\ LoanOk(V) /\ LoanTypes(V) /\ EndOk(V, w.core) /\ MoneyOk(V, w.held) /\ PromiseOk(V, w.held)
  BY DEF Sound, LoanOk
<1>4. /\ X.funded = V.funded /\ X.withdrawn = V.withdrawn /\ X.openLoans = V.openLoans /\ X.overdue = V.overdue
      /\ X.slots = V.slots /\ X.position = V.position /\ X.loanFee = V.loanFee
      /\ X.cash = V.cash /\ X.feeAccrued = V.feeAccrued /\ X.claimable = V.claimable
      /\ X.claimableTotal = V.claimableTotal /\ X.harvested = V.harvested /\ X.pocketLiability = V.pocketLiability
  BY <1>2 DEF Same, Fields, EndedFields
<1>5. d \in Deals /\ d \in V.funded /\ d \notin V.terminal /\ n \in Nat /\ \A e \in Deals : V.position[e] \in Nat
  BY <1>3 DEF Live, LoanTypes
<1>6. Live(X) = Live(V) \ {d}
  BY <1>2, <1>4 DEF Live
<1>7. Live(V) \in SUBSET Deals
  BY <1>3 DEF Live, LoanTypes
<1>8. c = IF d \in V.overdue THEN 0 ELSE n
  BY DEF Carried
<1> HIDE DEF c, n
<1>9. ASSUME NEW P \in SUBSET Live(V)
      PROVE  SumOver(P \ {d}, V.position) = SumOver(P, V.position) - (IF d \in P THEN n ELSE 0)
             /\ SumOver(P, V.position) \in Nat /\ (d \in P => n <= SumOver(P, V.position))
  <2>1. P \in SUBSET Deals /\ \A e \in P : V.position[e] \in Nat
    BY <1>5, <1>7
  <2>2. CASE d \in P
    <3>1. SumOver(P \ {d}, V.position) = SumOver(P, V.position) - V.position[d]
          /\ V.position[d] <= SumOver(P, V.position) /\ SumOver(P, V.position) \in Nat
      BY <2>1, <2>2, BookLess
    <3> QED BY <2>2, <3>1 DEF n
  <2>3. CASE d \notin P
    <3>1. P \ {d} = P /\ SumOver(P, V.position) \in Nat
      BY <2>1, <2>3, DealsNat
    <3> QED BY <2>3, <3>1
  <2> QED BY <2>2, <2>3
<1>10. X.performing = SumOver(Live(X) \ X.overdue, X.position)
  <2> DEFINE P == Live(V) \ V.overdue
  <2>1. P \in SUBSET Live(V) /\ Live(X) \ X.overdue = P \ {d} /\ (d \in P <=> d \notin V.overdue)
    BY <1>4, <1>6
  <2>2. V.performing = SumOver(P, V.position)
    BY <1>3 DEF LoanOk
  <2> HIDE DEF P
  <2>3. SumOver(P \ {d}, V.position) = SumOver(P, V.position) - (IF d \in P THEN n ELSE 0)
    BY <1>9, <2>1
  <2> QED BY <1>2, <1>4, <1>8, <2>1, <2>2, <2>3
<1>11. X.overduePrincipal = SumOver(Live(X) \cap X.overdue, X.position)
  <2> DEFINE P == Live(V) \cap V.overdue
  <2>1. P \in SUBSET Live(V) /\ Live(X) \cap X.overdue = P \ {d} /\ (d \in P <=> d \in V.overdue)
    BY <1>4, <1>6
  <2>2. V.overduePrincipal = SumOver(P, V.position)
    BY <1>3 DEF LoanOk
  <2> HIDE DEF P
  <2>3. SumOver(P \ {d}, V.position) = SumOver(P, V.position) - (IF d \in P THEN n ELSE 0)
        /\ SumOver(P, V.position) \in Nat
    BY <1>9, <2>1
  <2>4. n - c = IF d \in P THEN n ELSE 0
    BY <1>5, <1>8, <2>1
  <2> QED BY <1>2, <1>4, <2>1, <2>2, <2>3, <2>4
<1>12. ASSUME NEW l \in Lanes
       PROVE  /\ X.lanePrincipal[l] = SumOver({e \in Live(X) : Terms[e].lane = l}, X.position)
              /\ X.lanePrincipal[l] \in Nat
  <2> DEFINE P == {e \in Live(V) : Terms[e].lane = l}
  <2>1. P \in SUBSET Live(V) /\ {e \in Live(X) : Terms[e].lane = l} = P \ {d} /\ (d \in P <=> Terms[d].lane = l)
    BY <1>6
  <2>2. V.lanePrincipal[l] = SumOver(P, V.position) /\ V.lanePrincipal \in [Lanes -> Nat] /\ Terms[d].lane \in Lanes
    BY <1>3, <1>5, Parameters DEF LoanOk, LoanTypes
  <2> HIDE DEF P
  <2>3. /\ SumOver(P \ {d}, V.position) = SumOver(P, V.position) - (IF d \in P THEN n ELSE 0)
        /\ SumOver(P, V.position) \in Nat /\ (d \in P => n <= SumOver(P, V.position))
    BY <1>9, <2>1
  <2>4. X.lanePrincipal[l] = V.lanePrincipal[l] - (IF d \in P THEN n ELSE 0)
    BY <1>2, <1>5, <2>1, <2>2
  <2> DEFINE s == SumOver(P, V.position)
             m == IF d \in P THEN n ELSE 0
  <2>5. X.lanePrincipal[l] = s - m /\ SumOver(P \ {d}, V.position) = s - m /\ s \in Nat /\ m \in Nat /\ m <= s
    BY <1>5, <2>2, <2>3, <2>4
  <2> HIDE DEF s, m
  <2>6. s - m \in Nat
    BY <2>5
  <2> QED BY <1>4, <2>1, <2>5, <2>6
<1>13. ASSUME NEW b \in Borrowers
       PROVE  /\ X.borrowerPrincipal[b] = SumOver({e \in Live(X) : Terms[e].borrower = b}, X.position)
              /\ X.borrowerPrincipal[b] \in Nat
  <2> DEFINE P == {e \in Live(V) : Terms[e].borrower = b}
  <2>1. P \in SUBSET Live(V) /\ {e \in Live(X) : Terms[e].borrower = b} = P \ {d} /\ (d \in P <=> Terms[d].borrower = b)
    BY <1>6
  <2>2. V.borrowerPrincipal[b] = SumOver(P, V.position) /\ V.borrowerPrincipal \in [Borrowers -> Nat]
        /\ Terms[d].borrower \in Borrowers
    BY <1>3, <1>5, Parameters DEF LoanOk, LoanTypes
  <2> HIDE DEF P
  <2>3. /\ SumOver(P \ {d}, V.position) = SumOver(P, V.position) - (IF d \in P THEN n ELSE 0)
        /\ SumOver(P, V.position) \in Nat /\ (d \in P => n <= SumOver(P, V.position))
    BY <1>9, <2>1
  <2>4. X.borrowerPrincipal[b] = V.borrowerPrincipal[b] - (IF d \in P THEN n ELSE 0)
    BY <1>2, <1>5, <2>1, <2>2
  <2> DEFINE s == SumOver(P, V.position)
             m == IF d \in P THEN n ELSE 0
  <2>5. X.borrowerPrincipal[b] = s - m /\ SumOver(P \ {d}, V.position) = s - m /\ s \in Nat /\ m \in Nat /\ m <= s
    BY <1>5, <2>2, <2>3, <2>4
  <2> HIDE DEF s, m
  <2>6. s - m \in Nat
    BY <2>5
  <2> QED BY <1>4, <2>1, <2>5, <2>6
<1>14. LoanTypes(X)
  <2>1. DOMAIN X.lanePrincipal = Lanes /\ X.lanePrincipal \in [Lanes -> Nat]
    <3>1. V.lanePrincipal \in [Lanes -> Nat]
      BY <1>3 DEF LoanTypes
    <3> DEFINE f == X.lanePrincipal
    <3>2. f = [l \in Lanes |-> f[l]]
      BY <1>2, <3>1
    <3>3. \A l \in Lanes : f[l] \in Nat
      BY <1>12
    <3> HIDE DEF f
    <3> QED BY <3>2, <3>3 DEF f
  <2>2. X.borrowerPrincipal \in [Borrowers -> Nat]
    <3>1. V.borrowerPrincipal \in [Borrowers -> Nat]
      BY <1>3 DEF LoanTypes
    <3> DEFINE f == X.borrowerPrincipal
    <3>2. f = [l \in Borrowers |-> f[l]]
      BY <1>2, <3>1
    <3>3. \A l \in Borrowers : f[l] \in Nat
      BY <1>13
    <3> HIDE DEF f
    <3> QED BY <3>2, <3>3 DEF f
  <2>3. X.terminal \subseteq X.funded
    BY <1>2, <1>3, <1>4, <1>5 DEF LoanTypes
  <2> QED BY <1>3, <1>4, <2>1, <2>2, <2>3 DEF LoanTypes
<1>15. LoanOk(X)
  <2>1. AtPrincipal(X)
    BY <1>3, <1>4 DEF LoanOk, AtPrincipal
  <2> QED BY <1>10, <1>11, <1>12, <1>13, <1>14, <2>1 DEF LoanOk
<1>16. EndOk(X, y.core)
  <2>1. ASSUME NEW e \in X.terminal \ X.withdrawn
        PROVE  y.core.deal[e].state \in Final /\ (Late(y.core, e) => e \in X.overdue)
    <3>1. CASE e = d
      BY <1>2, <1>4, <3>1 DEF Over0
    <3>2. CASE e # d
      BY <1>2, <1>3, <1>4, <3>2 DEF EndOk
    <3> QED BY <3>1, <3>2
  <2> QED BY <2>1 DEF EndOk
<1>17. Claims(X) + payout = Claims(V) /\ Claims(X) \in Int /\ Claims(V) <= w.held["USDG"] /\ w.held["USDG"] \in Nat
       /\ X.assigned \in Nat /\ X.assigned <= X.harvested
  <2>1. /\ V.cash \in Nat /\ V.feeAccrued \in Nat /\ V.harvested \in Nat /\ V.assigned \in Nat
        /\ V.claimableTotal \in Nat /\ V.pocketLiability["USDG"] \in Nat /\ w.held["USDG"] \in Nat
        /\ Claims(V) \in Nat /\ Claims(V) <= w.held["USDG"]
    BY <1>3, ClaimsCover
  <2>2. Claims(X) + payout = Claims(V) /\ Claims(X) \in Int
    BY <1>2, <1>4, <2>1 DEF Claims
  <2> QED BY <1>2, <1>4, <2>1, <2>2
<1>18. MoneyOk(X, y.held)
  <2>1. Claims(X) <= w.held["USDG"]
    BY <1>17
  <2> QED BY <1>2, <1>3, <1>4, <1>17, <2>1 DEF MoneyOk
<1>19. /\ PolicyFields \cap EndedFields = {} /\ PromiseFields \cap EndedFields = {} /\ RewardFields \cap EndedFields = {}
       /\ PriceFields \cap EndedFields = {} /\ StockFields \cap EndedFields = {} /\ RecordFields \cap EndedFields = {}
       /\ PocketFields \cap EndedFields = {}
  BY DEF PolicyFields, PromiseFields, RewardFields, PriceFields, StockFields, RecordFields, PocketFields, EndedFields
<1>20. /\ PolicyOk(X) /\ PromiseOk(X, y.held) /\ RewardOk(X, y.core, y.held) /\ PriceOk(X) /\ StockOk(X)
       /\ RecordOk(X) /\ Kept(X, V) /\ PocketOk(X) /\ CoreOk(y.core)
  BY <1>2, <1>19, SoundFrame
<1>21. Claims(X) + payout <= y.held["USDG"]
  BY <1>2, <1>17
<1> QED BY <1>2, <1>15, <1>16, <1>18, <1>20, <1>21 DEF Sound, Keeps, y

\* A payout that no settlement has taken becomes idle cash.
LEMMA PaidKeeps ==
  ASSUME NEW w, Sound(w), NEW payout \in Nat, Claims(w.v) + payout <= w.held["USDG"]
  PROVE  LET y == Paid(w, payout)
         IN  /\ Keeps(y, w) /\ y.core = w.core /\ y.held = w.held
             /\ y.v.cash = w.v.cash + payout /\ Same(y.v, w.v, Fields \ {"cash"})
<1> DEFINE y == Paid(w, payout)
<1>1. PaidWrote(y, w, payout)
  BY SoundShape, PaidDoes
<1> HIDE DEF y
<1>2. /\ Shape(y) /\ y.core = w.core /\ y.held = w.held
      /\ y.v.cash = w.v.cash + payout /\ Same(y.v, w.v, Fields \ {"cash"})
  BY <1>1 DEF PaidWrote
<1>3. MoneyOk(w.v, w.held) /\ PromiseOk(w.v, w.held) /\ w.held \in [Tokens -> Nat] /\ PriceOk(w.v) /\ CoreOk(w.core)
  BY DEF Sound, PromiseOk
<1>4. /\ w.v.cash \in Nat /\ w.v.feeAccrued \in Nat /\ w.v.harvested \in Nat /\ w.v.assigned \in Nat
      /\ w.v.claimableTotal \in Nat /\ w.v.pocketLiability["USDG"] \in Nat
  BY <1>3, ClaimsCover
<1>5. /\ y.v.feeAccrued = w.v.feeAccrued /\ y.v.harvested = w.v.harvested /\ y.v.assigned = w.v.assigned
      /\ y.v.claimable = w.v.claimable /\ y.v.claimableTotal = w.v.claimableTotal
      /\ y.v.pocketLiability = w.v.pocketLiability /\ y.v.lockedProfit = w.v.lockedProfit
      /\ y.v.unlockStart = w.v.unlockStart /\ y.v.unlockEnd = w.v.unlockEnd /\ y.v.highWater = w.v.highWater
      /\ y.v.reserveShares = w.v.reserveShares
  BY <1>2 DEF Same, Fields
<1>6. Claims(y.v) = Claims(w.v) + payout
  BY <1>2, <1>4, <1>5 DEF Claims
<1>7. MoneyOk(y.v, y.held) /\ PriceOk(y.v)
  BY <1>2, <1>3, <1>4, <1>5, <1>6 DEF MoneyOk, PriceOk
<1>8. Same(y.v, w.v, Fields \ CashFields)
  BY <1>2 DEF Same, CashFields
<1>9. Keeps(y, w)
  BY <1>2, <1>3, <1>7, <1>8, CashFrame DEF CoreOk
<1> QED BY <1>2, <1>9 DEF y

\* What bringing one loan current may write.
WalkFields ==
  WrittenFields \cup PriceFields \cup CashFields \cup ShareFields \cup EndedFields \cup {"pocketLiability", "pockets"}
Round(y, w, d) ==
  /\ Keeps(y, w) /\ Same(y.v, w.v, Fields \ WalkFields)
  /\ w.v.terminal \subseteq y.v.terminal /\ y.v.terminal \subseteq w.v.terminal \cup {d}

\* A round that does nothing.
LEMMA RoundSelf == ASSUME NEW w, Sound(w), NEW d PROVE Round(w, w, d)
BY KeepsSelf DEF Round, Same

\* A step that keeps the books and ends no loan is a part of a round.
LEMMA RoundOf ==
  ASSUME NEW w, NEW y, NEW d, Keeps(y, w), NEW K, K \subseteq WalkFields \ {"terminal"}, Same(y.v, w.v, Fields \ K)
  PROVE  Round(y, w, d)
<1>1. Same(y.v, w.v, Fields \ WalkFields)
  BY DEF Same
<1>2. y.v.terminal = w.v.terminal
  BY DEF Same, Fields
<1> QED BY <1>1, <1>2 DEF Round

\* Two parts of a round on one loan are a part of it.
LEMMA RoundChain ==
  ASSUME NEW w, Sound(w), NEW y, NEW z, NEW d, Round(y, w, d), Round(z, y, d)
  PROVE  Round(z, w, d)
<1>1. Keeps(z, w)
  BY KeepsChain DEF Round
<1>2. Same(z.v, w.v, Fields \ WalkFields)
  BY DEF Round, Same
<1> QED BY <1>1, <1>2 DEF Round

\* Each part of a round writes fields a round may write.
LEMMA RoundFields ==
  /\ {"pocketLiability", "pockets"} \subseteq WalkFields \ {"terminal"}
  /\ {"cash"} \subseteq WalkFields \ {"terminal"}
  /\ {"cash", "feeAccrued", "highWater", "lockedProfit", "unlockStart", "unlockEnd"} \subseteq WalkFields \ {"terminal"}
  /\ {"lockedProfit", "unlockStart", "unlockEnd"} \subseteq WalkFields \ {"terminal"}
  /\ ShareFields \subseteq WalkFields \ {"terminal"}
  /\ (WrittenFields \cup PriceFields) \subseteq WalkFields \ {"terminal"}
BY DEF WalkFields, WrittenFields, PriceFields, CashFields, ShareFields, EndedFields

\* A loan is retired through the share price, or into a pocket of its holders of record if it was late.
LEMMA RetireKeeps ==
  ASSUME NEW w, Sound(w), EnvOk, NEW d \in Live(w.v), NEW payout \in Nat,
         w.v.assigned + payout <= w.v.harvested, Over0(w, d)
  PROVE  LET y == Retire(w, d, payout) IN Round(y, w, d) /\ y.core = w.core
<1> DEFINE x == Ended0(w, d, payout)
           c == Carried(w, d)
           p == OpenPocket(x, d, "USDG", payout)
           r == Paid(x, payout)
           f == ReportProfit(r, d, payout - c)
           l == ReportLoss(r, c - payout)
           y == Retire(w, d, payout)
<1>1. y = IF d \in w.v.overdue THEN (IF payout # 0 THEN p ELSE x)
          ELSE IF payout > c THEN f ELSE IF payout < c THEN l ELSE r
  BY RetireIs
<1>2. /\ Keeps(x, w) /\ x.core = w.core /\ x.held = w.held
      /\ x.v.terminal = w.v.terminal \cup {d} /\ Claims(x.v) + payout <= x.held["USDG"]
      /\ Same(x.v, w.v, Fields \ EndedFields)
  BY EndedKeeps
<1>3. d \in Deals /\ c \in Nat
  <2>1. d \in Deals /\ w.v.position[d] \in Nat
    BY DEF Sound, LoanOk, LoanTypes, Live
  <2> QED BY <2>1 DEF Carried
<1> HIDE DEF x, y, c
<1>4. Round(x, w, d)
  <2>1. Same(x.v, w.v, Fields \ WalkFields)
    BY <1>2 DEF Same, WalkFields
  <2> QED BY <1>2, <2>1 DEF Round
<1>5. Sound(x) /\ x.v.overdue = w.v.overdue
  BY <1>2 DEF Keeps, Same, Fields, EndedFields
<1>6. CASE d \in w.v.overdue /\ payout # 0
  <2>1. MoneyOk(x.v, x.held) /\ PromiseOk(x.v, x.held)
    BY <1>5 DEF Sound
  <2>2. x.v.pocketLiability["USDG"] + payout <= x.held["USDG"]
    <3>1. x.v.pocketLiability["USDG"] \in Nat /\ x.v.pocketLiability["USDG"] <= Claims(x.v) /\ x.held["USDG"] \in Nat
          /\ Claims(x.v) \in Nat
      BY <2>1, ClaimsCover
    <3> QED BY <1>2, <3>1
  <2> DEFINE t == "USDG"
  <2>3. /\ t \in Tokens /\ d \in x.v.overdue /\ x.v.pocketLiability[t] + payout <= x.held[t]
        /\ (t = "USDG" => Claims(x.v) + payout <= x.held["USDG"])
        /\ t # "SGAGE"
    BY <1>2, <1>5, <1>6, <2>2, Parameters
  <2> DEFINE q == OpenPocket(x, d, t, payout)
  <2>4. q = p
    OBVIOUS
  <2> HIDE DEF t, p
  <2>5. /\ Keeps(q, x) /\ q.core = x.core /\ q.held = x.held
        /\ Same(q.v, x.v, Fields \ {"pocketLiability", "pockets"})
    BY <1>5, <2>3, OpenPocketKeeps
  <2> HIDE DEF q
  <2>6. Round(q, x, d)
    BY <2>5, RoundOf, RoundFields
  <2>7. Round(q, w, d)
    BY <1>4, <2>6, RoundChain
  <2> QED BY <1>1, <1>2, <1>6, <2>4, <2>5, <2>7 DEF y
<1>7. CASE d \in w.v.overdue /\ payout = 0
  BY <1>1, <1>2, <1>4, <1>7 DEF y
<1>8. /\ Keeps(r, x) /\ r.core = x.core /\ r.held = x.held
      /\ r.v.cash = x.v.cash + payout /\ Same(r.v, x.v, Fields \ {"cash"})
  BY <1>2, <1>5, PaidKeeps
<1> HIDE DEF r
<1>9. Round(r, w, d) /\ Sound(r)
  <2>1. Round(r, x, d)
    BY <1>8, RoundOf, RoundFields
  <2> QED BY <1>4, <1>8, <2>1, RoundChain DEF Keeps
<1>10. x.v.cash \in Nat
  BY <1>5 DEF Sound, MoneyOk
<1>11. CASE d \notin w.v.overdue /\ payout > c
  <2> DEFINE n == payout - c
  <2>1. n \in Nat /\ n <= r.v.cash
    BY <1>3, <1>8, <1>10, <1>11
  <2> HIDE DEF n
  <2> DEFINE g == ReportProfit(r, d, n)
  <2>2. /\ Keeps(g, r) /\ g.core = r.core
        /\ Same(g.v, r.v, Fields \ {"cash", "feeAccrued", "highWater", "lockedProfit", "unlockStart", "unlockEnd"})
    BY <1>3, <1>9, <2>1, ReportProfitKeeps
  <2> HIDE DEF g
  <2>3. Round(g, r, d)
    BY <2>2, RoundOf, RoundFields
  <2>4. Round(g, w, d) /\ g.core = w.core
    BY <1>2, <1>8, <1>9, <2>2, <2>3, RoundChain
  <2>5. y = g
    BY <1>1, <1>11 DEF g, n
  <2> QED BY <2>4, <2>5 DEF y
<1>12. CASE d \notin w.v.overdue /\ payout < c
  <2> DEFINE n == c - payout
  <2>1. n \in Nat /\ ~ (payout > c)
    BY <1>3, <1>12
  <2> HIDE DEF n
  <2> DEFINE g == ReportLoss(r, n)
  <2>2. /\ Keeps(g, r) /\ g.core = r.core
        /\ Same(g.v, r.v, Fields \ {"lockedProfit", "unlockStart", "unlockEnd"})
    BY <1>9, <2>1, ReportLossKeeps
  <2> HIDE DEF g
  <2>3. Round(g, r, d)
    BY <2>2, RoundOf, RoundFields
  <2>4. Round(g, w, d) /\ g.core = w.core
    BY <1>2, <1>8, <1>9, <2>2, <2>3, RoundChain
  <2>5. y = g
    BY <1>1, <1>12, <2>1 DEF g, n
  <2> QED BY <2>4, <2>5 DEF y
<1>13. CASE d \notin w.v.overdue /\ payout = c
  <2>1. ~ (payout > c) /\ ~ (payout < c)
    BY <1>3, <1>13
  <2>2. y = r
    BY <1>1, <1>13, <2>1
  <2> QED BY <1>2, <1>8, <1>9, <2>2 DEF y
<1> QED BY <1>3, <1>6, <1>7, <1>11, <1>12, <1>13

\* What a checkpoint does to one loan before it settles it: late means written down.
Current(w, d) == Late(w.core, d) => d \in w.v.overdue

\* A loan that ended at the engine is retired with what it paid; the books hold.
LEMMA SettleLoanKeeps ==
  ASSUME NEW w, Sound(w), EnvOk, NEW d \in Live(w.v), Current(w, d)
  PROVE  LET y == SettleLoan(w, d)
         IN  Round(y, w, d) /\ y.core.deal = w.core.deal /\ y.core.reward = w.core.reward
<1> DEFINE state == w.core.deal[d].state
           refund == d \in w.v.withdrawn \/ state = "CANCELLED"
           payout == IF refund THEN w.v.position[d] ELSE Share(Terms[d].cap, w.v.slots[d])
           y == SettleLoan(w, d)
<1>1. y = IF refund \/ state = "REPAID" THEN (IF Arrived(w, payout) THEN Retire(w, d, payout) ELSE w)
          ELSE IF state = "DEFAULTED" /\ CanRecoverLoan(w, d) THEN Retire(RecoverLoan(w, d), d, 0) ELSE w
  BY DEF SettleLoan, Then
<1>2. d \in Deals /\ payout \in Nat
  <2>1. d \in Deals /\ w.v.position[d] \in Nat /\ Terms[d].cap \in Nat
    BY Parameters DEF Sound, LoanOk, LoanTypes, Live
  <2>2. Share(Terms[d].cap, w.v.slots[d]) \in Nat
    BY <2>1, ShareNat
  <2> QED BY <2>1, <2>2
<1> HIDE DEF payout, y
<1>3. Round(w, w, d)
  BY RoundSelf
<1>4. CASE (refund \/ state = "REPAID") /\ Arrived(w, payout)
  <2>1. Over0(w, d)
    BY <1>4 DEF Over0, Final, Current
  <2>2. w.v.assigned + payout <= w.v.harvested
    BY <1>4 DEF Arrived
  <2>3. Round(Retire(w, d, payout), w, d) /\ Retire(w, d, payout).core = w.core
    BY <1>2, <2>1, <2>2, RetireKeeps
  <2> QED BY <1>1, <1>4, <2>3 DEF y
<1>5. CASE ~ (refund \/ state = "REPAID") /\ state = "DEFAULTED" /\ CanRecoverLoan(w, d)
  <2> DEFINE x == RecoverLoan(w, d)
             none == 0
             z == Retire(x, d, none)
  <2>1. d \in w.v.overdue
    BY <1>5 DEF Current, Late
  <2>2. /\ Keeps(x, w) /\ x.core.deal = w.core.deal /\ x.core.reward = w.core.reward
        /\ Same(x.v, w.v, Fields \ {"pocketLiability", "pockets"})
    BY <2>1, RecoverLoanKeeps
  <2> HIDE DEF x
  <2>3. Sound(x) /\ x.v.funded = w.v.funded /\ x.v.terminal = w.v.terminal /\ x.v.overdue = w.v.overdue
    BY <2>2 DEF Keeps, Same, Fields
  <2>4. d \in Live(x.v) /\ Over0(x, d)
    BY <1>5, <2>1, <2>2, <2>3 DEF Live, Over0, Final
  <2>5. none \in Nat /\ x.v.assigned + none <= x.v.harvested
    BY <2>3 DEF Sound, MoneyOk
  <2>6. y = z
    BY <1>1, <1>5 DEF x
  <2> HIDE DEF none
  <2>7. Round(z, x, d) /\ z.core = x.core
    BY <2>3, <2>4, <2>5, RetireKeeps
  <2> HIDE DEF z
  <2>8. Round(x, w, d)
    BY <2>2, RoundOf, RoundFields
  <2>9. Round(z, w, d)
    BY <2>7, <2>8, RoundChain
  <2> QED BY <2>2, <2>6, <2>7, <2>9 DEF y
<1>6. CASE y = w
  BY <1>3, <1>6 DEF y
<1> QED BY <1>1, <1>4, <1>5, <1>6

\* First a late loan is written down.
LEMMA WriteDownIfDueKeeps ==
  ASSUME NEW w, Sound(w), EnvOk, NEW d \in Live(w.v)
  PROVE  LET a == WriteDownIfDue(w, d)
         IN  /\ Round(a, w, d) /\ a.core = w.core /\ d \in Live(a.v)
             /\ Impaired(Loan(a, d)) => d \in a.v.overdue
<1> DEFINE a == WriteDownIfDue(w, d)
<1>1. CASE d \notin w.v.overdue /\ Impaired(Loan(w, d))
  <2> DEFINE z == WriteDown(w, d)
  <2>1. a = z
    BY <1>1 DEF WriteDownIfDue
  <2>2. /\ Keeps(z, w) /\ z.core = w.core /\ z.held = w.held /\ z.v.overdue = w.v.overdue \cup {d}
        /\ Same(z.v, w.v, Fields \ (WrittenFields \cup PriceFields))
    BY <1>1, WriteDownKeeps
  <2> HIDE DEF z, a
  <2>3. Round(z, w, d)
    BY <2>2, RoundOf, RoundFields
  <2>4. Live(z.v) = Live(w.v)
    BY <2>2 DEF Live, Same, Fields, WrittenFields, PriceFields
  <2> QED BY <2>1, <2>2, <2>3, <2>4 DEF a
<1>2. CASE ~ (d \notin w.v.overdue /\ Impaired(Loan(w, d)))
  <2>1. a = w
    BY <1>2 DEF WriteDownIfDue
  <2>2. Round(w, w, d)
    BY RoundSelf
  <2> HIDE DEF a
  <2> QED BY <1>2, <2>1, <2>2 DEF a
<1> QED BY <1>1, <1>2

\* Then a loan past its grace is finalized, which changes nothing of the others.
LEMMA FinalizeIfDueKeeps ==
  ASSUME NEW a, Sound(a), EnvOk, NEW d \in Live(a.v), Impaired(Loan(a, d)) => d \in a.v.overdue
  PROVE  LET b == FinalizeIfDue(a, d)
         IN  /\ Round(b, a, d) /\ b.v = a.v
             /\ \A e \in Deals \ {d} : b.core.deal[e] = a.core.deal[e]
             /\ Impaired(Loan(b, d)) => d \in b.v.overdue
<1> DEFINE b == FinalizeIfDue(a, d)
<1>1. d \in Deals
  BY DEF Sound, LoanOk, LoanTypes, Live
<1>2. CASE a.core.deal[d].state = "ACTIVE" /\ GraceOver(Loan(a, d))
  <2> DEFINE z == Finalized(a, d)
  <2>1. b = z
    BY <1>2 DEF FinalizeIfDue
  <2>2. Keeps(z, a) /\ z.v = a.v /\ \A e \in Deals \ {d} : z.core.deal[e] = a.core.deal[e]
    BY <1>1, <1>2, FinalizedKeeps
  <2> HIDE DEF z, b
  <2>3. Round(z, a, d)
    <3> DEFINE K == {}
    <3>1. Same(z.v, a.v, Fields \ K) /\ K \subseteq WalkFields \ {"terminal"}
      BY <2>2 DEF Same
    <3> HIDE DEF K
    <3> QED BY <2>2, <3>1, RoundOf
  <2>4. Impaired(Loan(a, d))
    <3> DEFINE k == a.core.deal[d]
               l == Loan(a, d)
    <3>1. l.state = "ACTIVE" /\ l.fundedAt = k.fundedAt /\ l.term = Terms[d].term
      BY <1>2 DEF Loan
    <3>2. k.fundedAt \in Nat /\ Terms[d].term \in Nat /\ GRACE \in Nat /\ now \in Nat
      <4>1. k \in DealType
        BY <1>1 DEF Sound, CoreOk
      <4> QED BY <1>1, <4>1, Parameters DEF DealType, EnvOk
    <3>3. now >= l.fundedAt + l.term + GRACE
      BY <1>2 DEF GraceOver
    <3>4. now >= l.fundedAt + l.term
      BY <3>1, <3>2, <3>3
    <3> QED BY <3>1, <3>4 DEF Impaired
  <2> QED BY <2>1, <2>2, <2>3, <2>4 DEF b
<1>3. CASE ~ (a.core.deal[d].state = "ACTIVE" /\ GraceOver(Loan(a, d)))
  <2>1. b = a
    BY <1>3 DEF FinalizeIfDue
  <2>2. Round(a, a, d)
    BY RoundSelf
  <2> HIDE DEF b
  <2> QED BY <2>1, <2>2 DEF b
<1> QED BY <1>2, <1>3

\* A loan that is written down as soon as it is late is so when it has ended late.
LEMMA CurrentWhenDue ==
  ASSUME NEW w, NEW d, Impaired(Loan(w, d)) => d \in w.v.overdue
  PROVE  Current(w, d)
BY DEF Current, Late, Impaired, Loan

\* One round of the checkpoint keeps the books, whatever became of the loan.
LEMMA BringCurrentKeeps ==
  ASSUME NEW w, Sound(w), EnvOk, NEW d \in Live(w.v)
  PROVE  Round(BringCurrent(w, d), w, d)
<1> DEFINE a == WriteDownIfDue(w, d)
           b == FinalizeIfDue(a, d)
           c == SettleLoan(b, d)
           e == AccrueReward(c, d)
<1>1. BringCurrent(w, d) = e
  BY BringCurrentIs
<1>2. d \in Deals
  BY DEF Sound, LoanOk, LoanTypes, Live
<1>3. Round(a, w, d) /\ d \in Live(a.v) /\ (Impaired(Loan(a, d)) => d \in a.v.overdue)
  BY WriteDownIfDueKeeps
<1> HIDE DEF a
<1>4. Sound(a)
  BY <1>3 DEF Round, Keeps
<1>5. Round(b, a, d) /\ b.v = a.v /\ (Impaired(Loan(b, d)) => d \in b.v.overdue)
  BY <1>3, <1>4, FinalizeIfDueKeeps
<1> HIDE DEF b
<1>6. Sound(b) /\ Round(b, w, d) /\ d \in Live(b.v) /\ Current(b, d)
  <2>1. Round(b, w, d)
    BY <1>3, <1>5, RoundChain
  <2> QED BY <1>3, <1>5, <2>1, CurrentWhenDue DEF Round, Keeps
<1>7. Round(c, b, d)
  BY <1>6, SettleLoanKeeps
<1> HIDE DEF c
<1>8. Sound(c) /\ Round(c, w, d)
  BY <1>6, <1>7, RoundChain DEF Round, Keeps
<1>9. Keeps(e, c) /\ Same(e.v, c.v, Fields \ ShareFields)
  BY <1>2, <1>8, AccrueRewardKeeps
<1> HIDE DEF e
<1>10. Round(e, c, d)
  BY <1>9, RoundOf, RoundFields
<1> QED BY <1>1, <1>8, <1>10, RoundChain

(***************************************************************************)
(* The loops: a checkpoint over the open loans, its compaction of their    *)
(* list, and serveRequests over the queue.  Each is a fold, which is a     *)
(* recursive function over the subsets of the indices.                     *)
(***************************************************************************)
KeepOpen(ended, open, d) == IF d \in ended THEN open ELSE Append(open, d)

\* One turn of each of the three loops.
Turn(loop, ended, y, x) ==
  IF loop = "loans" THEN BringCurrent(y, x)
  ELSE IF loop = "list" THEN KeepOpen(ended, y, x)
  ELSE ServeOne(y, x)

\* g satisfies the recursion of a fold over s from base, for the subsets of S.
Folded(g, loop, ended, base, s, S) ==
  g = [T \in SUBSET S |-> IF T = {} THEN base ELSE Turn(loop, ended, g[T \ {Max(T)}], s[Max(T)])]

\* A set of integers that is finite and not empty has a largest element.
LEMMA MaxIn ==
  ASSUME NEW S \in SUBSET Int, IsFiniteSet(S), S # {}
  PROVE  Max(S) \in S /\ \A y \in S : y <= Max(S)
<1> DEFINE above(x) == {y \in S : y >= x}
           F == {above(x) : x \in S}
<1>1. PICK T \in F : \A U \in SUBSET T : U # T => U \notin F
  <2>1. F \in SUBSET (SUBSET S) /\ F # {}
    OBVIOUS
  <2> HIDE DEF F
  <2> QED BY <2>1, MinimalSubset
<1>2. PICK x \in S : T = above(x)
  OBVIOUS
<1>3. \A y \in S : x >= y
  <2>1. SUFFICES ASSUME NEW y \in S, ~ (x >= y) PROVE FALSE
    OBVIOUS
  <2>2. x \in Int /\ y \in Int /\ y > x
    BY <2>1
  <2>3. x \in above(x) /\ x \notin above(y)
    BY <2>2
  <2>4. \A z \in S : z >= y => z >= x
    BY <2>2
  <2>5. above(y) \in SUBSET above(x) /\ above(y) # above(x)
    BY <2>3, <2>4
  <2> QED BY <1>1, <1>2, <2>5
<1>4. Max(S) \in S /\ \A y \in S : Max(S) >= y
  BY <1>3 DEF Max
<1> QED BY <1>4

\* The recursion has a solution over every finite set of indices.
LEMMA FoldsAgree ==
  ASSUME NEW loop, NEW ended, NEW base, NEW s, NEW R, NEW S, NEW g, NEW h,
         Folded(g, loop, ended, base, s, R), Folded(h, loop, ended, base, s, S),
         NEW U \in SUBSET Int, U \subseteq R, U \subseteq S, IsFiniteSet(U)
  PROVE  g[U] = h[U]
<1> DEFINE F == {V \in SUBSET U : g[V] # h[V]}
<1>1. SUFFICES ASSUME F # {} PROVE FALSE
  OBVIOUS
<1>2. PICK V \in F : \A W \in SUBSET V : W # V => W \notin F
  <2> HIDE DEF F
  <2>1. F \in SUBSET (SUBSET U)
    BY DEF F
  <2> QED BY <1>1, <2>1, MinimalSubset
<1>3. V # {}
  BY <1>2 DEF Folded
<1> DEFINE W == V \ {Max(V)}
<1>4. W \in SUBSET V /\ W # V
  <2>1. V \in SUBSET Int /\ IsFiniteSet(V)
    BY FS_Subset
  <2>2. Max(V) \in V
    BY <1>3, <2>1, MaxIn
  <2> QED BY <2>2
<1>5. g[W] = h[W]
  BY <1>2, <1>4
<1>6. /\ g[V] = Turn(loop, ended, g[W], s[Max(V)])
      /\ h[V] = Turn(loop, ended, h[W], s[Max(V)])
  BY <1>3, V \in SUBSET R, V \in SUBSET S DEF Folded
<1> QED BY <1>2, <1>5, <1>6

\* Each loop over finitely many turns has a result.
LEMMA FoldsExist ==
  ASSUME NEW loop, NEW ended, NEW base, NEW s, NEW S \in SUBSET Int, IsFiniteSet(S)
  PROVE  \E g : Folded(g, loop, ended, base, s, S)
<1> DEFINE is(g, V) == Folded(g, loop, ended, base, s, V)
           F == {V \in SUBSET S : ~ \E g : is(g, V)}
           val(V) == (CHOOSE g : is(g, V))[V]
<1>1. SUFFICES ASSUME F # {} PROVE FALSE
  OBVIOUS
<1>2. PICK T \in F : \A U \in SUBSET T : U # T => U \notin F
  <2> HIDE DEF F
  <2>1. F \in SUBSET (SUBSET S)
    BY DEF F
  <2> QED BY <1>1, <2>1, MinimalSubset
<1>3. \A V \in SUBSET T : V # T => \E g : is(g, V) /\ val(V) = g[V]
  <2>1. SUFFICES ASSUME NEW V \in SUBSET T, V # T
                 PROVE  \E g : is(g, V) /\ val(V) = g[V]
    OBVIOUS
  <2>2. \E g : is(g, V)
    BY <1>2, <2>1
  <2>3. is((CHOOSE g : is(g, V)), V)
    BY <2>2
  <2> QED BY <2>3
<1>4. \A V \in SUBSET T : IsFiniteSet(V) /\ V \in SUBSET Int
  BY FS_Subset
<1>5. \A V \in SUBSET T : V # {} => Max(V) \in V
  BY <1>4, MaxIn
<1> DEFINE step(V) == IF V = {} THEN base ELSE Turn(loop, ended, val(V \ {Max(V)}), s[Max(V)])
<1> HIDE DEF val
<1>6. \A V \in SUBSET T : V # T => val(V) = step(V)
  <2>1. SUFFICES ASSUME NEW V \in SUBSET T, V # T PROVE val(V) = step(V)
    OBVIOUS
  <2>2. PICK g : is(g, V) /\ val(V) = g[V]
    BY <1>3, <2>1
  <2>3. CASE V = {}
    BY <2>2, <2>3 DEF Folded
  <2>4. CASE V # {}
    <3> DEFINE W == V \ {Max(V)}
    <3>1. W \in SUBSET T /\ W # T /\ W \subseteq V
      BY <1>5, <2>4
    <3>2. PICK h : is(h, W) /\ val(W) = h[W]
      BY <1>3, <3>1
    <3>3. g[W] = h[W]
      BY <3>1, <3>2, <2>2, <1>4, FoldsAgree
    <3>4. g[V] = Turn(loop, ended, g[W], s[Max(V)])
      BY <2>2, <2>4 DEF Folded
    <3> QED BY <2>2, <2>4, <3>2, <3>3, <3>4
  <2> QED BY <2>3, <2>4
<1> DEFINE h == [V \in SUBSET T |-> step(V)]
<1>7. is(h, T)
  <2>1. \A V \in SUBSET T : V # {} => V \ {Max(V)} \in SUBSET T /\ V \ {Max(V)} # T
    BY <1>5
  <2>2. \A V \in SUBSET T : V # {} => h[V \ {Max(V)}] = val(V \ {Max(V)})
    BY <1>6, <2>1
  <2>3. h = [V \in SUBSET T |-> IF V = {} THEN base ELSE Turn(loop, ended, h[V \ {Max(V)}], s[Max(V)])]
    BY <2>2
  <2> QED BY <2>3 DEF Folded
<1> QED BY <1>2, <1>7

\* What a loop has after k turns.
Steps(f, loop, ended, base, s, n) ==
  f[0] = base /\ \A k \in 1 .. n : f[k] = Turn(loop, ended, f[k - 1], s[k])

\* The result of a loop is reached turn by turn.
LEMMA FoldSteps ==
  ASSUME NEW loop, NEW ended, NEW base, NEW s, NEW n \in Nat, NEW g, Folded(g, loop, ended, base, s, 1 .. n)
  PROVE  \E f : Steps(f, loop, ended, base, s, n) /\ f[n] = g[1 .. n]
<1> DEFINE f == [k \in 0 .. n |-> g[1 .. k]]
<1>1. f[0] = base
  <2>1. (1 .. 0) = {}
    OBVIOUS
  <2>2. g[{}] = base
    BY DEF Folded
  <2> QED BY <2>1, <2>2
<1>2. ASSUME NEW k \in 1 .. n PROVE f[k] = Turn(loop, ended, f[k - 1], s[k])
  <2>1. (1 .. k) \in SUBSET (1 .. n) /\ (1 .. k) # {} /\ k - 1 \in 0 .. n /\ k \in 0 .. n
    OBVIOUS
  <2>2. Max(1 .. k) = k
    <3>1. k \in 1 .. k /\ \A y \in 1 .. k : k >= y
      OBVIOUS
    <3>2. \A x \in 1 .. k : (\A y \in 1 .. k : x >= y) => x = k
      BY <3>1
    <3> QED BY <3>1, <3>2 DEF Max
  <2>3. (1 .. k) \ {k} = 1 .. (k - 1)
    OBVIOUS
  <2>4. g[1 .. k] = Turn(loop, ended, g[1 .. (k - 1)], s[k])
    BY <2>1, <2>2, <2>3 DEF Folded
  <2> QED BY <2>1, <2>4
<1>3. Steps(f, loop, ended, base, s, n)
  BY <1>1, <1>2 DEF Steps
<1> QED BY <1>3

\* The three loops are their turns, one after the other.
LEMMA WalkSteps ==
  ASSUME NEW w, NEW n \in Nat, DOMAIN w.v.openLoans = 1 .. n
  PROVE  \E f : Steps(f, "loans", {}, w, w.v.openLoans, n) /\ Walk(w) = f[n]
<1> DEFINE loop == "loans"
           ended == {}
           s == w.v.openLoans
           is(g) == g = [T \in SUBSET (1 .. n) |-> IF T = {} THEN w ELSE BringCurrent(g[T \ {Max(T)}], s[Max(T)])]
<1>1. Walk(w) = (CHOOSE g : is(g))[1 .. n]
  BY DEF Walk, FoldLeft, MapThenFoldSet
<1>2. \A g : Folded(g, loop, ended, w, s, 1 .. n) <=> is(g)
  BY DEF Folded, Turn
<1> HIDE DEF loop, ended
<1>3. \E g : Folded(g, loop, ended, w, s, 1 .. n)
  <2>1. (1 .. n) \in SUBSET Int /\ IsFiniteSet(1 .. n)
    BY FS_Interval
  <2> QED BY ONLY <2>1, FoldsExist
<1> DEFINE G == CHOOSE g : is(g)
<1>4. is(G)
  BY <1>2, <1>3
<1>5. n \in Nat /\ Folded(G, loop, ended, w, s, 1 .. n)
  BY <1>2, <1>4
<1> HIDE DEF G
<1>6. \E f : Steps(f, loop, ended, w, s, n) /\ f[n] = G[1 .. n]
  BY ONLY <1>5, FoldSteps
<1> QED BY <1>1, <1>6 DEF G, loop, ended

\* The list of open loans is compacted entry by entry.
LEMMA DropSteps ==
  ASSUME NEW w, NEW n \in Nat, DOMAIN w.v.openLoans = 1 .. n
  PROVE  \E f : /\ Steps(f, "list", w.v.terminal, <<>>, w.v.openLoans, n)
                /\ DropTerminal(w) = [w EXCEPT !.v.openLoans = f[n]]
<1> DEFINE loop == "list"
           s == w.v.openLoans
           E == w.v.terminal
           none == <<>>
           is(g) == g = [T \in SUBSET (1 .. n) |-> IF T = {} THEN none ELSE
                           IF s[Max(T)] \in E THEN g[T \ {Max(T)}] ELSE Append(g[T \ {Max(T)}], s[Max(T)])]
<1>1. DropTerminal(w) = [w EXCEPT !.v.openLoans = (CHOOSE g : is(g))[1 .. n]]
  BY DEF DropTerminal, FoldLeft, MapThenFoldSet
<1> HIDE DEF none, E, s
<1>2. \A g : Folded(g, loop, E, none, s, 1 .. n) <=> is(g)
  BY DEF Folded, Turn, KeepOpen
<1> HIDE DEF loop, is
<1>3. \E g : Folded(g, loop, E, none, s, 1 .. n)
  <2>1. (1 .. n) \in SUBSET Int /\ IsFiniteSet(1 .. n)
    BY FS_Interval
  <2> QED BY ONLY <2>1, FoldsExist
<1> DEFINE G == CHOOSE g : is(g)
<1>4. is(G)
  <2>1. \E g : is(g)
    BY <1>2, <1>3
  <2> QED BY <2>1
<1>5. n \in Nat /\ Folded(G, loop, E, none, s, 1 .. n)
  BY <1>2, <1>4
<1> HIDE DEF G
<1>6. \E f : Steps(f, loop, E, none, s, n) /\ f[n] = G[1 .. n]
  BY ONLY <1>5, FoldSteps
<1> QED BY <1>1, <1>6 DEF G, none, loop, E, s

Queue(w, maxAssets) ==
  [w |-> w, budget |-> Atmost(maxAssets, FreeLiquidity(w)), stop |-> FALSE, head |-> w.v.head, ok |-> TRUE]
Turns(w, count) == [i \in 1 .. Atmost(count, Len(w.v.requests) - w.v.head + 1) |-> w.v.head + i - 1]

\* The queue is served request by request.
LEMMA ServedSteps ==
  ASSUME NEW w, NEW count, NEW maxAssets, NEW n \in Nat, n = Atmost(count, Len(w.v.requests) - w.v.head + 1)
  PROVE  \E f : /\ Steps(f, "queue", {}, Queue(w, maxAssets), Turns(w, count), n)
                /\ Served(w, count, maxAssets) = f[n]
<1> DEFINE loop == "queue"
           ended == {}
           s == Turns(w, count)
           q == Queue(w, maxAssets)
           is(g) == g = [T \in SUBSET (1 .. n) |-> IF T = {} THEN q ELSE ServeOne(g[T \ {Max(T)}], s[Max(T)])]
<1>1. Served(w, count, maxAssets) = (CHOOSE g : is(g))[1 .. n]
  BY DEF Served, FoldLeft, MapThenFoldSet, Turns, Queue
<1> HIDE DEF q, s
<1>2. \A g : Folded(g, loop, ended, q, s, 1 .. n) <=> is(g)
  BY DEF Folded, Turn
<1> HIDE DEF loop, ended
<1>3. \E g : Folded(g, loop, ended, q, s, 1 .. n)
  <2>1. (1 .. n) \in SUBSET Int /\ IsFiniteSet(1 .. n)
    BY FS_Interval
  <2> QED BY ONLY <2>1, FoldsExist
<1> DEFINE G == CHOOSE g : is(g)
<1>4. is(G)
  BY <1>2, <1>3
<1>5. n \in Nat /\ Folded(G, loop, ended, q, s, 1 .. n)
  BY <1>2, <1>4
<1> HIDE DEF G
<1>6. \E f : Steps(f, loop, ended, q, s, n) /\ f[n] = G[1 .. n]
  BY ONLY <1>5, FoldSteps
<1> QED BY <1>1, <1>6 DEF G, q, s, loop, ended

\* What holds at the start, and after each turn if it held before it, holds in the end.
LEMMA TurnByTurn ==
  ASSUME NEW n \in Nat, NEW A \in SUBSET (0 .. n), 0 \in A, \A k \in 1 .. n : k - 1 \in A => k \in A
  PROVE  n \in A
<1> DEFINE bad == (0 .. n) \ A
<1>1. SUFFICES ASSUME bad # {} PROVE FALSE
  OBVIOUS
<1>2. bad \in SUBSET Int /\ IsFiniteSet(bad)
  <2>1. IsFiniteSet(0 .. n)
    BY FS_Interval
  <2> QED BY <2>1, FS_Subset
<1> DEFINE m == Min(bad)
<1>3. m \in bad /\ \A y \in bad : m <= y
  BY <1>1, <1>2, MinIn
<1> HIDE DEF m
<1>4. m \in 1 .. n /\ m - 1 \in 0 .. n
  BY <1>3
<1>5. m - 1 \in A
  BY <1>3, <1>4
<1> QED BY <1>3, <1>4, <1>5

\* A checkpoint's walk brings every open loan current and keeps the books.
Walked(y, w, k) ==
  /\ Keeps(y, w) /\ Same(y.v, w.v, Fields \ WalkFields)
  /\ w.v.terminal \subseteq y.v.terminal
  /\ y.v.terminal \subseteq w.v.terminal \cup {w.v.openLoans[j] : j \in 1 .. k}

\* One turn of the walk brings one more loan current.
LEMMA WalkTurn ==
  ASSUME NEW w, Sound(w), EnvOk, ListOk(w.v), NEW n \in Nat, DOMAIN w.v.openLoans = 1 .. n, NEW k \in 1 .. n,
         NEW y, Walked(y, w, k - 1)
  PROVE  /\ Sound(y) /\ w.v.openLoans[k] \in Live(y.v) /\ y.v.funded = w.v.funded
         /\ Walked(BringCurrent(y, w.v.openLoans[k]), w, k)
<1> DEFINE s == w.v.openLoans
           d == s[k]
           z == BringCurrent(y, d)
<1>1. Sound(y) /\ y.v.funded = w.v.funded
  BY DEF Walked, Keeps, Same, Fields, WalkFields, WrittenFields, PriceFields, CashFields, ShareFields, EndedFields
<1>2. d \in Live(w.v)
  BY DEF ListOk, ToSet
<1>3. \A j \in 1 .. k - 1 : s[j] # d
  BY DEF ListOk, IsInjective
<1>4. d \in Live(y.v)
  BY <1>1, <1>2, <1>3 DEF Live, Walked
<1> HIDE DEF z
<1>5. Round(z, y, d)
  BY <1>1, <1>4, BringCurrentKeeps DEF z
<1>6. Keeps(z, w) /\ Same(z.v, w.v, Fields \ WalkFields)
  BY <1>5, KeepsChain DEF Walked, Round, Same
<1>7. /\ w.v.terminal \subseteq z.v.terminal
      /\ z.v.terminal \subseteq w.v.terminal \cup {s[j] : j \in 1 .. k}
  <2>1. {s[j] : j \in 1 .. k - 1} \cup {d} \subseteq {s[j] : j \in 1 .. k}
    OBVIOUS
  <2> QED BY <1>5, <2>1 DEF Walked, Round
<1>8. Walked(z, w, k)
  BY <1>6, <1>7 DEF Walked
<1> QED BY <1>1, <1>4, <1>8 DEF z

\* The walk over the open loans keeps the books.
LEMMA WalkKeeps ==
  ASSUME NEW w, Sound(w), EnvOk, ListOk(w.v)
  PROVE  LET y == Walk(w)
         IN  /\ Keeps(y, w) /\ Same(y.v, w.v, Fields \ WalkFields)
             /\ w.v.terminal \subseteq y.v.terminal
<1> DEFINE s == w.v.openLoans
           n == Len(s)
<1>1. n \in Nat /\ DOMAIN s = 1 .. n
  BY DEF Sound, LoanOk, LoanTypes
<1> HIDE DEF n
<1>2. PICK f : Steps(f, "loans", {}, w, s, n) /\ Walk(w) = f[n]
  BY <1>1, WalkSteps
<1> DEFINE A == {k \in 0 .. n : Walked(f[k], w, k)}
<1>3. 0 \in A
  <2>1. f[0] = w
    BY <1>2 DEF Steps
  <2>2. Walked(w, w, 0)
    BY KeepsSelf DEF Walked, Same
  <2> QED BY <1>1, <2>1, <2>2
<1>4. ASSUME NEW k \in 1 .. n, k - 1 \in A PROVE k \in A
  <2>1. f[k] = BringCurrent(f[k - 1], s[k])
    BY <1>2 DEF Steps, Turn
  <2>2. Walked(f[k - 1], w, k - 1)
    BY <1>4
  <2>3. Walked(BringCurrent(f[k - 1], s[k]), w, k)
    BY <1>1, <2>2, WalkTurn
  <2> QED BY <2>1, <2>3
<1>5. n \in A
  <2> HIDE DEF A
  <2>1. A \in SUBSET (0 .. n)
    BY DEF A
  <2> QED BY <1>1, <1>3, <1>4, <2>1, TurnByTurn
<1> QED BY <1>2, <1>5 DEF Walked

\* The list after k turns of the compaction: the loans among the first k that have not ended.
Compacted(q, s, ended, k) ==
  /\ q \in Seq(Deals) /\ IsInjective(q) /\ ToSet(q) = {s[j] : j \in 1 .. k} \ ended

\* One more entry of the list is kept or dropped.
LEMMA KeepOpenStep ==
  ASSUME NEW s \in Seq(Deals), IsInjective(s), NEW ended, NEW k \in 1 .. Len(s), NEW q, Compacted(q, s, ended, k - 1)
  PROVE  Compacted(KeepOpen(ended, q, s[k]), s, ended, k)
<1> DEFINE d == s[k]
           S == {s[j] : j \in 1 .. k - 1}
<1>1. {s[j] : j \in 1 .. k} = S \cup {d} /\ d \notin S /\ d \in Deals
  BY DEF IsInjective
<1> HIDE DEF d, S
<1>2. q \in Seq(Deals) /\ IsInjective(q) /\ ToSet(q) = S \ ended
  BY DEF Compacted, S
<1>3. CASE d \in ended
  BY <1>1, <1>2, <1>3 DEF Compacted, KeepOpen, d
<1>4. CASE d \notin ended
  <2> DEFINE r == Append(q, d)
             n == Len(q)
  <2>1. /\ r \in Seq(Deals) /\ n \in Nat /\ DOMAIN r = 1 .. n + 1 /\ DOMAIN q = 1 .. n
        /\ r[n + 1] = d /\ \A i \in 1 .. n : r[i] = q[i]
    BY <1>1, <1>2, AppendAt, SeqAt
  <2> HIDE DEF r, n
  <2>2. \A i \in 1 .. n : q[i] \in S \ ended
    BY <1>2, <2>1 DEF ToSet
  <2>3. ToSet(r) = ToSet(q) \cup {d}
    <3>1. ASSUME NEW i \in 1 .. n + 1 PROVE r[i] \in ToSet(q) \cup {d}
      <4>1. i = n + 1 \/ i \in 1 .. n
        BY <2>1
      <4> QED BY <2>1, <4>1 DEF ToSet
    <3>2. ASSUME NEW i \in 1 .. n PROVE q[i] \in ToSet(r)
      <4>1. i \in 1 .. n + 1
        BY <2>1
      <4> QED BY <2>1, <4>1 DEF ToSet
    <3>3. d \in ToSet(r)
      BY <2>1 DEF ToSet
    <3> QED BY <2>1, <3>1, <3>2, <3>3 DEF ToSet
  <2>4. IsInjective(r)
    <3>1. ASSUME NEW i \in 1 .. n + 1, NEW j \in 1 .. n + 1, r[i] = r[j] PROVE i = j
      <4>1. (i = n + 1 \/ i \in 1 .. n) /\ (j = n + 1 \/ j \in 1 .. n)
        BY <2>1
      <4>2. \A x \in 1 .. n : q[x] # d
        BY <1>1, <2>2
      <4>3. CASE i \in 1 .. n /\ j \in 1 .. n
        BY <1>2, <2>1, <3>1, <4>3 DEF IsInjective
      <4> QED BY <2>1, <3>1, <4>1, <4>2, <4>3
    <3> QED BY <2>1, <3>1 DEF IsInjective
  <2>5. KeepOpen(ended, q, d) = r
    BY <1>4 DEF KeepOpen, r
  <2> QED BY <1>1, <1>2, <1>4, <2>1, <2>3, <2>4, <2>5 DEF Compacted, d
<1> QED BY <1>3, <1>4

\* After the compaction the list holds each live loan once.
LEMMA DropTerminalKeeps ==
  ASSUME NEW w, Sound(w), IsInjective(w.v.openLoans), Live(w.v) \subseteq ToSet(w.v.openLoans)
  PROVE  LET y == DropTerminal(w)
         IN  /\ Keeps(y, w) /\ y.core = w.core /\ y.held = w.held
             /\ Same(y.v, w.v, Fields \ {"openLoans"}) /\ ListOk(y.v)
<1> DEFINE s == w.v.openLoans
           n == Len(s)
           E == w.v.terminal
           loop == "list"
           none == <<>>
<1>1. s \in Seq(Deals) /\ n \in Nat /\ DOMAIN s = 1 .. n
  BY DEF Sound, LoanOk, LoanTypes
<1> HIDE DEF n
<1>2. PICK f : Steps(f, loop, E, none, s, n) /\ DropTerminal(w) = [w EXCEPT !.v.openLoans = f[n]]
  BY <1>1, DropSteps
<1> DEFINE A == {k \in 0 .. n : Compacted(f[k], s, E, k)}
<1>3. 0 \in A
  <2>1. f[0] = none
    BY <1>2 DEF Steps
  <2>2. none \in Seq(Deals) /\ DOMAIN none = {} /\ {s[j] : j \in 1 .. 0} = {}
    OBVIOUS
  <2> HIDE DEF none
  <2>3. Compacted(none, s, E, 0)
    BY <2>2 DEF Compacted, IsInjective, ToSet
  <2> QED BY <1>1, <2>1, <2>3
<1>4. ASSUME NEW k \in 1 .. n, k - 1 \in A PROVE k \in A
  <2>1. f[k] = KeepOpen(E, f[k - 1], s[k])
    BY <1>2 DEF Steps, Turn
  <2>2. Compacted(f[k - 1], s, E, k - 1)
    BY <1>4
  <2>3. k \in 1 .. Len(s)
    BY DEF n
  <2>4. Compacted(KeepOpen(E, f[k - 1], s[k]), s, E, k)
    BY <1>1, <2>2, <2>3, KeepOpenStep
  <2> QED BY <2>1, <2>4
<1>5. n \in A
  <2> HIDE DEF A
  <2>1. A \in SUBSET (0 .. n)
    BY DEF A
  <2> QED BY <1>1, <1>3, <1>4, <2>1, TurnByTurn
<1> DEFINE L == f[n]
<1>6. L \in Seq(Deals) /\ IsInjective(L) /\ ToSet(L) = ToSet(s) \ E
  <2>1. {s[j] : j \in 1 .. n} = ToSet(s)
    BY <1>1 DEF ToSet
  <2> QED BY <1>5, <2>1 DEF Compacted
<1> HIDE DEF L
<1> DEFINE y == [w EXCEPT !.v.openLoans = L]
<1>7. DropTerminal(w) = y
  BY <1>2 DEF L
<1>8. DropWrote(y, w, L)
  BY SoundShape, DropDoes
<1> HIDE DEF y
<1>9. /\ Shape(y) /\ y.core = w.core /\ y.held = w.held
      /\ y.v.openLoans = L /\ Same(y.v, w.v, Fields \ {"openLoans"})
  BY <1>8 DEF DropWrote
<1>10. LoanOk(y.v) /\ ListOk(y.v)
  <2>1. /\ y.v.performing = w.v.performing /\ y.v.overduePrincipal = w.v.overduePrincipal
        /\ y.v.funded = w.v.funded /\ y.v.terminal = w.v.terminal /\ y.v.withdrawn = w.v.withdrawn
        /\ y.v.overdue = w.v.overdue /\ y.v.slots = w.v.slots
        /\ y.v.position = w.v.position /\ y.v.loanFee = w.v.loanFee
        /\ y.v.lanePrincipal = w.v.lanePrincipal /\ y.v.borrowerPrincipal = w.v.borrowerPrincipal
    BY <1>9 DEF Same, Fields
  <2>2. LoanOk(w.v) /\ Live(y.v) = Live(w.v)
    BY <2>1 DEF Sound, Live
  <2>3. ToSet(s) \subseteq w.v.funded /\ ToSet(L) = Live(w.v)
    BY <1>6, <2>2 DEF LoanOk, LoanTypes, Live
  <2>4. LoanTypes(y.v)
    BY <1>6, <1>9, <2>1, <2>2, <2>3 DEF LoanOk, LoanTypes
  <2>5. AtPrincipal(y.v)
    BY <2>1, <2>2 DEF LoanOk, AtPrincipal
  <2>6. LoanOk(y.v)
    BY <2>1, <2>2, <2>4, <2>5 DEF LoanOk
  <2> QED BY <1>6, <1>9, <2>2, <2>3, <2>6 DEF ListOk
<1>11. Keeps(y, w)
  <2> DEFINE K == {"openLoans"}
  <2>1. /\ PolicyFields \cap K = {} /\ MoneyFields \cap K = {} /\ PromiseFields \cap K = {}
        /\ RewardFields \cap K = {} /\ PriceFields \cap K = {} /\ StockFields \cap K = {}
        /\ RecordFields \cap K = {} /\ PocketFields \cap K = {} /\ EndFields \cap K = {}
    BY DEF PolicyFields, MoneyFields, PromiseFields, RewardFields, PriceFields, StockFields, RecordFields,
           PocketFields, EndFields
  <2>2. Same(y.v, w.v, Fields \ K)
    BY <1>9
  <2> HIDE DEF K
  <2>3. /\ PolicyOk(y.v) /\ MoneyOk(y.v, y.held) /\ PromiseOk(y.v, y.held) /\ RewardOk(y.v, y.core, y.held)
        /\ PriceOk(y.v) /\ StockOk(y.v) /\ RecordOk(y.v) /\ PocketOk(y.v) /\ EndOk(y.v, y.core) /\ CoreOk(y.core)
        /\ Kept(y.v, w.v)
    BY <1>9, <2>1, <2>2, SoundFrame
  <2> QED BY <1>9, <1>10, <2>3 DEF Sound, Keeps
<1> QED BY <1>7, <1>9, <1>10, <1>11

\* What a checkpoint may write.
CheckFields == WalkFields \cup {"openLoans"}

\* A checkpoint leaves the strategy between two transactions as it found it, only current.
LEMMA CheckpointKeeps ==
  ASSUME NEW w, Good(w), EnvOk
  PROVE  LET y == Checkpoint(w)
         IN  Good(y) /\ Keeps(y, w) /\ Same(y.v, w.v, Fields \ CheckFields)
<1> DEFINE a == HarvestCash(w)
           b == Walk(a)
           c == ReconcileRewards(b)
           y == DropTerminal(c)
<1>1. Checkpoint(w) = y
  BY CheckpointIs
<1>2. Sound(w) /\ ListOk(w.v)
  BY DEF Good
<1>3. Keeps(a, w) /\ Same(a.v, w.v, Fields \ {"harvested"})
  BY <1>2, HarvestCashKeeps
<1> HIDE DEF a
<1>4. Sound(a) /\ ListOk(a.v) /\ a.v.openLoans = w.v.openLoans
  BY <1>2, <1>3 DEF Keeps, ListOk, Live, Same, Fields
<1>5. /\ Keeps(b, a) /\ Same(b.v, a.v, Fields \ WalkFields)
      /\ a.v.terminal \subseteq b.v.terminal
  BY <1>4, WalkKeeps
<1> HIDE DEF b
<1>6. Sound(b) /\ b.v.funded = a.v.funded /\ b.v.openLoans = a.v.openLoans
  BY <1>5 DEF Keeps, Same, Fields, WalkFields, WrittenFields, PriceFields, CashFields, ShareFields, EndedFields
<1>7. Keeps(c, b) /\ Same(c.v, b.v, Fields \ ShareFields)
  BY <1>6, ReconcileRewardsKeeps
<1> HIDE DEF c
<1>8. Sound(c) /\ IsInjective(c.v.openLoans) /\ Live(c.v) \subseteq ToSet(c.v.openLoans)
  <2>1. /\ c.v.funded = b.v.funded /\ c.v.openLoans = b.v.openLoans /\ c.v.terminal = b.v.terminal
    BY <1>7 DEF Same, Fields, ShareFields
  <2> QED BY <1>4, <1>5, <1>6, <1>7, <2>1 DEF ListOk, Live, Keeps
<1>9. Keeps(y, c) /\ Same(y.v, c.v, Fields \ {"openLoans"}) /\ ListOk(y.v)
  BY <1>8, DropTerminalKeeps
<1> HIDE DEF y
<1>10. Keeps(b, w) /\ Keeps(c, w) /\ Keeps(y, w)
  BY <1>2, <1>3, <1>5, <1>7, <1>9, KeepsChain
<1>11. Same(y.v, w.v, Fields \ CheckFields)
  <2>1. /\ {"harvested"} \subseteq CheckFields /\ WalkFields \subseteq CheckFields
        /\ ShareFields \subseteq CheckFields /\ {"openLoans"} \subseteq CheckFields
    BY DEF CheckFields, WalkFields, CashFields
  <2> QED BY <1>3, <1>5, <1>7, <1>9, <2>1 DEF Same
<1>12. Same(y.v, w.v, StockFields)
  <2>1. StockFields \subseteq Fields \ CheckFields
    BY DEF StockFields, Fields, CheckFields, WalkFields, WrittenFields, PriceFields, CashFields, ShareFields,
           EndedFields
  <2> QED BY <1>11, <2>1 DEF Same
<1>13. LocksFit(y.v) /\ Passed(y.v, y.v.head)
  BY <1>12, StockFrame DEF Good
<1> QED BY <1>1, <1>9, <1>10, <1>11, <1>13 DEF Good, Keeps, y

(***************************************************************************)
(* The queue of redemption requests.                                       *)
(***************************************************************************)
QueueFields == {"requests", "lockedShares", "pendingShares"}

\* A step that touches the queue, and adds an amount to what its holder has asked for.
LEMMA QueueFrame ==
  ASSUME NEW w, Sound(w), NEW y, Shape(y), y.core = w.core, y.held = w.held,
         Same(y.v, w.v, Fields \ QueueFields), StockOk(y.v)
  PROVE  Keeps(y, w)
<1>1. /\ PolicyFields \cap QueueFields = {} /\ MoneyFields \cap QueueFields = {}
      /\ PromiseFields \cap QueueFields = {} /\ RewardFields \cap QueueFields = {}
      /\ PriceFields \cap QueueFields = {} /\ LoanFields \cap QueueFields = {}
      /\ RecordFields \cap QueueFields = {} /\ PocketFields \cap QueueFields = {} /\ EndFields \cap QueueFields = {}
  BY DEF PolicyFields, MoneyFields, PromiseFields, RewardFields, PriceFields, LoanFields, RecordFields,
         PocketFields, EndFields, QueueFields
<1>2. /\ PolicyOk(y.v) /\ MoneyOk(y.v, y.held) /\ PromiseOk(y.v, y.held) /\ RewardOk(y.v, y.core, y.held)
      /\ PriceOk(y.v) /\ LoanOk(y.v) /\ RecordOk(y.v) /\ PocketOk(y.v) /\ EndOk(y.v, y.core) /\ CoreOk(y.core)
      /\ Kept(y.v, w.v)
  BY <1>1, SoundFrame
<1> QED BY <1>2 DEF Sound, Keeps

\* The queue is a finite sequence of requests of holders.
LEMMA RequestsFinite ==
  ASSUME NEW V, StockOk(V)
  PROVE  /\ Len(V.requests) \in Nat /\ DOMAIN V.requests = 1 .. Len(V.requests)
         /\ \A id \in DOMAIN V.requests : V.requests[id].owner \in Holders /\ V.requests[id].shares \in Nat
         /\ \A S \in SUBSET DOMAIN V.requests : IsFiniteSet(S)
<1>1. V.requests \in Seq([owner : Holders, shares : Nat])
  BY DEF StockOk
<1>2. /\ Len(V.requests) \in Nat /\ DOMAIN V.requests = 1 .. Len(V.requests)
      /\ \A id \in 1 .. Len(V.requests) : V.requests[id] \in [owner : Holders, shares : Nat]
  BY <1>1, SeqAt
<1>3. IsFiniteSet(1 .. Len(V.requests))
  BY <1>2, FS_Interval
<1> QED BY <1>2, <1>3, FS_Subset

\* What a holder has locked covers each request of theirs.
LEMMA RequestLocked ==
  ASSUME NEW V, StockOk(V), NEW id \in DOMAIN V.requests
  PROVE  V.requests[id].shares <= V.lockedShares[V.requests[id].owner]
<1> DEFINE h == V.requests[id].owner
           S == {i \in DOMAIN V.requests : V.requests[i].owner = h}
           f == [i \in DOMAIN V.requests |-> V.requests[i].shares]
<1>1. h \in Holders /\ IsFiniteSet(S) /\ id \in S /\ \A i \in S : f[i] \in Nat
  BY RequestsFinite
<1>2. V.lockedShares[h] = SumOver(S, f)
  BY <1>1 DEF StockOk, Asked
<1>3. f[id] <= SumOver(S, f)
  <2> HIDE DEF f, S
  <2> QED BY <1>1, SumCovers DEF SumOver
<1> QED BY <1>2, <1>3

\* Shares of a request are unlocked: locks, queue and total fall together.
LEMMA UnlockKeeps ==
  ASSUME NEW w, Sound(w), NEW id \in DOMAIN w.v.requests, NEW shares \in Nat, shares <= w.v.requests[id].shares
  PROVE  LET y == Unlock(w, id, shares)
         IN  /\ Keeps(y, w) /\ y.core = w.core /\ y.held = w.held
             /\ DOMAIN y.v.requests = DOMAIN w.v.requests
             /\ y.v.requests[id].shares = w.v.requests[id].shares - shares
             /\ \A i \in DOMAIN w.v.requests \ {id} : y.v.requests[i] = w.v.requests[i]
             /\ \A h \in Holders :
                  y.v.lockedShares[h] = w.v.lockedShares[h] - (IF h = w.v.requests[id].owner THEN shares ELSE 0)
             /\ Same(y.v, w.v, Fields \ QueueFields)
<1> DEFINE y == Unlock(w, id, shares)
           V == w.v
           X == y.v
           o == V.requests[id].owner
<1>1. UnlockWrote(y, w, id, shares)
  BY SoundShape, UnlockDoes
<1> HIDE DEF y
<1>2. StockOk(V)
  BY DEF Sound
<1>3. /\ Len(V.requests) \in Nat /\ DOMAIN V.requests = 1 .. Len(V.requests)
      /\ \A i \in DOMAIN V.requests : V.requests[i].owner \in Holders /\ V.requests[i].shares \in Nat
      /\ \A S \in SUBSET DOMAIN V.requests : IsFiniteSet(S)
      /\ shares <= V.lockedShares[o] /\ o \in Holders
  <2>1. V.requests[id].shares <= V.lockedShares[o] /\ o \in Holders /\ V.lockedShares[o] \in Nat
    BY <1>2, RequestsFinite, RequestLocked DEF StockOk
  <2> HIDE DEF V
  <2>2. /\ Len(V.requests) \in Nat /\ DOMAIN V.requests = 1 .. Len(V.requests)
        /\ \A i \in DOMAIN V.requests : V.requests[i].owner \in Holders /\ V.requests[i].shares \in Nat
        /\ \A S \in SUBSET DOMAIN V.requests : IsFiniteSet(S)
    BY ONLY <1>2, RequestsFinite
  <2>3. V.requests[id].shares \in Nat /\ shares <= V.requests[id].shares
    BY <2>2 DEF V
  <2> QED BY <2>1, <2>2, <2>3
<1>4. /\ Shape(y) /\ y.core = w.core /\ y.held = w.held
      /\ X.requests = [V.requests EXCEPT ![id] = [V.requests[id] EXCEPT !.shares = V.requests[id].shares - shares]]
      /\ X.lockedShares = [V.lockedShares EXCEPT ![o] = V.lockedShares[o] - shares]
      /\ X.pendingShares = V.pendingShares - shares
      /\ Same(X, V, Fields \ QueueFields)
  BY <1>1 DEF UnlockWrote, QueueFields
<1>5. X.supply = V.supply /\ X.balance = V.balance /\ X.head = V.head
  BY <1>4 DEF Same, Fields, QueueFields
<1>6. id \in DOMAIN V.requests /\ shares <= V.requests[id].shares
  OBVIOUS
<1>7. w.v = V /\ y.v = X
  OBVIOUS
<1> HIDE DEF V, X
<1> DEFINE r == [V.requests[id] EXCEPT !.shares = V.requests[id].shares - shares]
<1>8. r \in [owner : Holders, shares : Nat] /\ r.shares = V.requests[id].shares - shares /\ r.owner = o
  <2>1. V.requests \in Seq([owner : Holders, shares : Nat])
    BY <1>2 DEF StockOk
  <2>2. V.requests[id] \in [owner : Holders, shares : Nat]
    BY <1>3, <1>6, <2>1, SeqAt
  <2> QED BY <1>6, <2>2
<1>9. /\ X.requests \in Seq([owner : Holders, shares : Nat]) /\ DOMAIN X.requests = DOMAIN V.requests
      /\ X.requests[id] = r /\ \A i \in DOMAIN V.requests \ {id} : X.requests[i] = V.requests[i]
  <2>1. V.requests \in Seq([owner : Holders, shares : Nat])
    BY <1>2 DEF StockOk
  <2>2. X.requests = [V.requests EXCEPT ![id] = r]
    BY <1>4
  <2> HIDE DEF r
  <2>3. X.requests \in Seq([owner : Holders, shares : Nat])
    BY <1>3, <1>6, <1>8, <2>1, <2>2
  <2> QED BY <1>6, <2>2, <2>3
<1> HIDE DEF r
<1>10. /\ X.lockedShares \in [Holders -> Nat]
      /\ \A h \in Holders : X.lockedShares[h] = V.lockedShares[h] - (IF h = o THEN shares ELSE 0)
  <2>1. V.lockedShares \in [Holders -> Nat]
    BY <1>2 DEF StockOk
  <2> HIDE DEF o
  <2> QED BY <1>3, <1>4, <2>1
<1>11. X.pendingShares = SumHolders(X.lockedShares)
  <2> DEFINE f == V.lockedShares
             g == X.lockedShares
             n == 0 - shares
  <2>1. IsFiniteSet(Holders) /\ o \in Holders /\ n \in Int /\ (\A x \in Holders : f[x] \in Int /\ g[x] \in Int)
    BY <1>2, <1>3, <1>10, Parameters DEF StockOk
  <2>2. (\A x \in Holders \ {o} : g[x] = f[x]) /\ g[o] = f[o] + n
    BY <1>3, <1>10, <2>1
  <2> HIDE DEF f, g, n, o
  <2>3. SumHolders(g) = SumHolders(f) + n
    BY <2>1, <2>2, SumMoved DEF SumHolders, SumOver
  <2>4. SumHolders(f) \in Nat
    <3>1. \A h \in Holders : f[h] \in Nat
      BY <1>2 DEF f, StockOk
    <3> QED BY <3>1, HoldersNat
  <2> QED BY <1>2, <1>4, <2>3, <2>4 DEF StockOk, f, g, n
<1>12. ASSUME NEW h \in Holders PROVE X.lockedShares[h] = Asked(X, h)
  <2> DEFINE S == {i \in DOMAIN V.requests : V.requests[i].owner = h}
             f == [i \in DOMAIN V.requests |-> V.requests[i].shares]
             g == [i \in DOMAIN X.requests |-> X.requests[i].shares]
  <2>1. {i \in DOMAIN X.requests : X.requests[i].owner = h} = S
    BY <1>8, <1>9
  <2>2. Asked(X, h) = SumOver(S, g) /\ Asked(V, h) = SumOver(S, f) /\ V.lockedShares[h] = Asked(V, h)
    BY <1>2, <2>1 DEF Asked, StockOk
  <2>3. IsFiniteSet(S) /\ \A i \in S : f[i] \in Int /\ g[i] \in Int
    <3>1. S \in SUBSET DOMAIN V.requests
      OBVIOUS
    <3>2. \A i \in DOMAIN V.requests : f[i] = V.requests[i].shares /\ g[i] = X.requests[i].shares
      BY <1>9
    <3> HIDE DEF f, g
    <3>3. V.requests[id].shares - shares \in Int
      BY <1>3, <1>6
    <3>4. \A i \in DOMAIN V.requests : f[i] \in Int /\ g[i] \in Int
      BY <1>3, <1>6, <1>8, <1>9, <3>2, <3>3
    <3> QED BY <1>3, <3>1, <3>4
  <2>4. (\A i \in S \ {id} : g[i] = f[i]) /\ g[id] = f[id] - shares /\ f[id] \in Nat
    <3>1. \A i \in DOMAIN V.requests : f[i] = V.requests[i].shares /\ g[i] = X.requests[i].shares
      BY <1>9
    <3> HIDE DEF f, g
    <3>2. \A i \in S \ {id} : g[i] = f[i]
      BY <1>9, <3>1
    <3>3. g[id] = f[id] - shares /\ f[id] \in Nat
      BY <1>3, <1>6, <1>8, <1>9, <3>1
    <3> QED BY <3>2, <3>3
  <2>5. h = o <=> id \in S
    BY <1>6
  <2> HIDE DEF S, f, g, o
  <2>6. CASE h = o
    <3> DEFINE n == 0 - shares
    <3>1. n \in Int /\ id \in S /\ g[id] = f[id] + n
      BY <2>4, <2>5, <2>6
    <3> HIDE DEF n
    <3>2. SumOver(S, g) = SumOver(S, f) + n
      BY <2>3, <2>4, <3>1, SumMoved DEF SumOver
    <3>3. SumOver(S, f) \in Int
      BY <2>3, SumType DEF SumOver
    <3> QED BY <1>10, <2>2, <2>6, <3>2, <3>3 DEF n
  <2>7. CASE h # o
    <3>1. \A i \in S : g[i] = f[i]
      BY <2>4, <2>5, <2>7
    <3>2. SumOver(S, g) = SumOver(S, f)
      BY <2>3, <3>1, SumSame DEF SumOver
    <3>3. X.lockedShares[h] = V.lockedShares[h] - 0 /\ V.lockedShares[h] \in Nat
      BY <1>2, <1>10, <2>7 DEF StockOk
    <3> QED BY <2>2, <3>2, <3>3
  <2> QED BY <2>6, <2>7
<1>13. StockOk(X)
  <2>1. /\ V.supply \in Nat /\ V.balance \in [Holders -> Nat] /\ V.head \in Nat \ {0}
        /\ V.supply = SumHolders(V.balance)
    BY <1>2 DEF StockOk
  <2> QED BY <1>5, <1>9, <1>10, <1>11, <1>12, <2>1 DEF StockOk
<1>14. Keeps(y, w)
  BY <1>7, <1>4, <1>13, QueueFrame
<1> QED BY <1>7, <1>4, <1>8, <1>9, <1>10, <1>14 DEF y, o

\* Assets that are set aside for a holder whose shares were bought.
LEMMA CreditedKeeps ==
  ASSUME NEW w, Sound(w), NEW h \in Holders, NEW assets \in Nat, Claims(w.v) + assets <= w.held["USDG"]
  PROVE  LET y == Credited(w, h, assets)
         IN  /\ Keeps(y, w) /\ y.core = w.core /\ y.held = w.held
             /\ Same(y.v, w.v, Fields \ {"claimable", "claimableTotal"})
<1> DEFINE y == Credited(w, h, assets)
           V == w.v
           X == y.v
<1>1. CreditedWrote(y, w, h, assets)
  BY SoundShape, CreditedDoes
<1> HIDE DEF y
<1>2. /\ Shape(y) /\ y.core = w.core /\ y.held = w.held
      /\ X.claimable = [V.claimable EXCEPT ![h] = V.claimable[h] + assets]
      /\ X.claimableTotal = V.claimableTotal + assets
      /\ Same(X, V, Fields \ {"claimable", "claimableTotal"})
  BY <1>1 DEF CreditedWrote
<1>3. MoneyOk(V, w.held) /\ PromiseOk(V, w.held) /\ w.held \in [Tokens -> Nat] /\ PriceOk(V) /\ CoreOk(w.core)
  BY DEF Sound, PromiseOk
<1>4. /\ V.cash \in Nat /\ V.feeAccrued \in Nat /\ V.harvested \in Nat /\ V.assigned \in Nat
      /\ V.claimableTotal \in Nat /\ V.pocketLiability["USDG"] \in Nat
  BY <1>3, ClaimsCover
<1>5. /\ X.feeAccrued = V.feeAccrued /\ X.harvested = V.harvested /\ X.assigned = V.assigned
      /\ X.cash = V.cash /\ X.pocketLiability = V.pocketLiability /\ X.lockedProfit = V.lockedProfit
      /\ X.unlockStart = V.unlockStart /\ X.unlockEnd = V.unlockEnd /\ X.highWater = V.highWater
      /\ X.reserveShares = V.reserveShares
  BY <1>2 DEF Same, Fields
<1>6. Claims(X) = Claims(V) + assets
  BY <1>2, <1>4, <1>5 DEF Claims
<1>7. X.claimable \in [Holders -> Nat] /\ X.claimableTotal = SumHolders(X.claimable)
  <2> DEFINE f == V.claimable
             g == X.claimable
  <2>1. f \in [Holders -> Nat] /\ V.claimableTotal = SumHolders(f)
    BY <1>3 DEF MoneyOk
  <2>2. g \in [Holders -> Nat] /\ (\A x \in Holders \ {h} : g[x] = f[x]) /\ g[h] = f[h] + assets
    BY <1>2, <2>1
  <2> HIDE DEF f, g
  <2>3. IsFiniteSet(Holders) /\ assets \in Int /\ (\A x \in Holders : f[x] \in Int /\ g[x] \in Int)
    BY <2>1, <2>2, Parameters
  <2>4. SumHolders(g) = SumHolders(f) + assets
    BY <2>2, <2>3, SumMoved DEF SumHolders, SumOver
  <2> QED BY <1>2, <2>1, <2>2, <2>4 DEF g
<1>8. MoneyOk(X, y.held) /\ PriceOk(X)
  BY <1>2, <1>3, <1>4, <1>5, <1>6, <1>7 DEF MoneyOk, PriceOk
<1>9. Same(X, V, Fields \ CashFields)
  BY <1>2 DEF Same, CashFields
<1>10. Keeps(y, w)
  BY <1>2, <1>3, <1>8, <1>9, CashFrame DEF CoreOk
<1> QED BY <1>2, <1>10 DEF y

ServeFields ==
  {"cash", "reserveShares", "owed", "index", "liability", "snapshots", "balance", "supply", "accounted", "orphan",
   "requests", "lockedShares", "pendingShares", "claimable", "claimableTotal"}

\* shares are a part of request id; after a step that took them they are gone from it, and no
\* other request differs.
PartOfRequest(w, id, shares) == shares \in Nat /\ shares <= w.v.requests[id].shares
Lessened(y, w, id, shares) ==
  /\ DOMAIN y.v.requests = DOMAIN w.v.requests
  /\ y.v.requests[id].shares = w.v.requests[id].shares - shares
  /\ \A i \in DOMAIN w.v.requests \ {id} : y.v.requests[i] = w.v.requests[i]

\* A purchase as the chain of its steps.
LEMMA BoughtIs ==
  ASSUME NEW w, NEW id, NEW shares, NEW assets
  PROVE  LET h == w.v.requests[id].owner
         IN  Bought(w, id, shares, assets) = Credited(Unlock(Burn(PayOut(w, assets), h, shares), id, shares), h, assets)
BY DEF Bought, Then

\* Shares of a request are bought: the books hold, and what is left of the request is less by them.
LEMMA BoughtKeeps ==
  ASSUME NEW w, Sound(w), LocksFit(w.v), EnvOk, NEW id \in DOMAIN w.v.requests,
         NEW shares, PartOfRequest(w, id, shares), NEW assets \in Nat, CanPayOut(w, assets)
  PROVE  LET y == Bought(w, id, shares, assets)
         IN  Keeps(y, w) /\ LocksFit(y.v) /\ Same(y.v, w.v, Fields \ ServeFields) /\ Lessened(y, w, id, shares)
<1> DEFINE h == w.v.requests[id].owner
           a == PayOut(w, assets)
           b == Burn(a, h, shares)
           c == Unlock(b, id, shares)
           y == Credited(c, h, assets)
<1>1. Bought(w, id, shares, assets) = y
  BY BoughtIs
<1>2. /\ h \in Holders /\ w.v.requests[id].shares \in Nat /\ shares \in Nat /\ shares <= w.v.requests[id].shares
      /\ shares <= w.v.lockedShares[h]
      /\ w.v.lockedShares \in [Holders -> Nat] /\ w.v.balance \in [Holders -> Nat]
      /\ \A x \in Holders : w.v.lockedShares[x] <= w.v.balance[x]
  <2> DEFINE V == w.v
  <2>1. StockOk(V) /\ id \in DOMAIN V.requests
    BY DEF Sound
  <2> HIDE DEF V
  <2>2. /\ V.requests[id].owner \in Holders /\ V.requests[id].shares \in Nat
        /\ V.requests[id].shares <= V.lockedShares[V.requests[id].owner]
    BY <2>1, RequestsFinite, RequestLocked
  <2>3. V.lockedShares \in [Holders -> Nat] /\ V.balance \in [Holders -> Nat]
    BY <2>1 DEF StockOk
  <2>4. shares \in Nat /\ shares <= V.requests[id].shares
    BY DEF PartOfRequest, V
  <2> QED BY <2>2, <2>3, <2>4 DEF LocksFit, V
<1>3. /\ Keeps(a, w) /\ Claims(a.v) + assets <= a.held["USDG"]
      /\ Same(a.v, w.v, Fields \ {"cash", "reserveShares"})
  BY PayOutKeeps
<1> HIDE DEF a, h
<1>4. /\ Sound(a) /\ a.v.balance = w.v.balance /\ a.v.requests = w.v.requests
      /\ a.v.lockedShares = w.v.lockedShares
  BY <1>3 DEF Keeps, Same, Fields
<1>5. shares <= a.v.balance[h]
  BY <1>2, <1>4
<1>6. /\ Keeps(b, a) /\ b.core = a.core /\ b.held = a.held
      /\ Same(b.v, a.v, Fields \ BalanceFields) /\ LessAt(b.v.balance, a.v.balance, h, shares)
  BY <1>2, <1>4, <1>5, BurnKeeps DEF Keeps
<1> HIDE DEF b
<1>7. /\ Sound(b) /\ b.v.requests = w.v.requests /\ b.v.lockedShares = w.v.lockedShares
      /\ Same(b.v, a.v, MoneyFields)
  <2>1. b.v.requests = a.v.requests /\ b.v.lockedShares = a.v.lockedShares /\ Same(b.v, a.v, MoneyFields)
    BY <1>6 DEF Same, Fields, MoneyFields, BalanceFields
  <2> QED BY <1>4, <1>6, <2>1 DEF Keeps
<1>8. id \in DOMAIN b.v.requests /\ shares <= b.v.requests[id].shares
  BY <1>2, <1>7
<1>9. /\ Keeps(c, b) /\ c.core = b.core /\ c.held = b.held
      /\ DOMAIN c.v.requests = DOMAIN b.v.requests
      /\ c.v.requests[id].shares = b.v.requests[id].shares - shares
      /\ \A i \in DOMAIN b.v.requests \ {id} : c.v.requests[i] = b.v.requests[i]
      /\ \A x \in Holders :
           c.v.lockedShares[x] = b.v.lockedShares[x] - (IF x = b.v.requests[id].owner THEN shares ELSE 0)
      /\ Same(c.v, b.v, Fields \ QueueFields)
  BY <1>2, <1>7, <1>8, UnlockKeeps
<1> HIDE DEF c
<1>10. /\ Sound(c) /\ c.v.balance = b.v.balance /\ Same(c.v, b.v, MoneyFields)
  BY <1>9 DEF Keeps, Same, Fields, MoneyFields, QueueFields
<1>11. Claims(c.v) + assets <= c.held["USDG"]
  <2>1. MoneyOk(a.v, a.held) /\ MoneyOk(b.v, b.held)
    BY <1>4, <1>7 DEF Sound
  <2>2. Claims(b.v) = Claims(a.v)
    BY <1>7, <2>1, MoneyFrame
  <2>3. Claims(c.v) = Claims(b.v)
    BY <1>10, <2>1, MoneyFrame
  <2> QED BY <1>3, <1>6, <1>9, <2>2, <2>3
<1>12. /\ Keeps(y, c) /\ Same(y.v, c.v, Fields \ {"claimable", "claimableTotal"})
  BY <1>2, <1>10, <1>11, CreditedKeeps
<1> HIDE DEF y
<1>13. y.v.balance = c.v.balance /\ y.v.requests = c.v.requests /\ y.v.lockedShares = c.v.lockedShares
  BY <1>12 DEF Same, Fields
<1>14. LocksFit(y.v)
  <2>1. SUFFICES ASSUME NEW x \in Holders PROVE y.v.lockedShares[x] <= y.v.balance[x]
    BY DEF LocksFit
  <2>2. b.v.requests[id].owner = h
    BY <1>7 DEF h
  <2>3. /\ y.v.lockedShares[x] = w.v.lockedShares[x] - (IF x = h THEN shares ELSE 0)
    BY <1>7, <1>9, <1>13, <2>2
  <2>4. LessAt(y.v.balance, w.v.balance, h, shares)
    BY <1>4, <1>6, <1>10, <1>13
  <2>5. y.v.balance[x] = w.v.balance[x] - (IF x = h THEN shares ELSE 0)
    BY <1>2, <2>4 DEF LessAt
  <2>6. w.v.lockedShares[x] <= w.v.balance[x] /\ w.v.lockedShares[x] \in Nat /\ w.v.balance[x] \in Nat
    BY <1>2
  <2> QED BY <1>2, <2>3, <2>5, <2>6
<1>15. Keeps(y, w)
  <2>1. Keeps(b, w)
    BY <1>3, <1>6, KeepsChain
  <2>2. Keeps(c, w)
    BY <1>9, <2>1, KeepsChain
  <2> QED BY <1>12, <2>2, KeepsChain
<1>16. Same(y.v, w.v, Fields \ ServeFields)
  BY <1>3, <1>6, <1>9, <1>12 DEF Same, ServeFields, QueueFields, BalanceFields
<1> QED BY <1>1, <1>7, <1>9, <1>13, <1>14, <1>15, <1>16 DEF y, Lessened

\* Shares bought for a budget that does not cover a request cost no more than the budget.
LEMMA QuotientBelow == \A a \in Nat, b \in Nat \ {0} : a < ((a \div b) + 1) * b
OBVIOUS

\* Products associate.
LEMMA ProductGroups == \A a, b, c \in Int : a * (b * c) = (a * b) * c
OBVIOUS

\* Shares cut down to the budget are a part of the request and cost no more than the budget.
LEMMA Bargain ==
  ASSUME NEW all \in Nat, NEW b \in Nat, NEW T \in Nat, NEW N \in Nat \ {0}, NEW W \in Nat,
         W = (all * T) \div N, W > b, NEW s, s = (all * b) \div W
  PROVE  s \in Nat /\ s <= all /\ (s * T) \div N \in Nat /\ (s * T) \div N <= b
<1>1. s \in Nat /\ s * W <= all * b
  <2>1. all * b \in Nat /\ W \in Nat \ {0}
    BY ProductNat
  <2> QED BY <2>1, QuotientNat
<1>2. s <= all
  <2>1. SUFFICES ASSUME s >= all + 1 PROVE FALSE
    BY <1>1
  <2>2. (all + 1) * W <= s * W
    BY <1>1, <2>1, ProductGrows
  <2>3. (all + 1) * W = all * W + W /\ all * W \in Nat /\ s * W \in Int /\ all * b \in Nat
    BY <1>1, ProductNat
  <2>4. b * all <= W * all
    BY ProductGrows
  <2>5. b * all = all * b /\ W * all = all * W
    OBVIOUS
  <2> QED BY <1>1, <2>2, <2>3, <2>4, <2>5
<1> DEFINE A == (s * T) \div N
<1>3. A \in Nat /\ A * N <= s * T
  <2>1. s * T \in Nat
    BY <1>1, ProductNat
  <2> QED BY <2>1, QuotientNat
<1>4. all * T < (W + 1) * N /\ all * T \in Nat
  BY QuotientBelow, ProductNat
<1> HIDE DEF A
<1>5. A <= b
  <2>1. SUFFICES ASSUME A >= b + 1 PROVE FALSE
    BY <1>3
  <2> DEFINE NW == N * W
  <2>2. NW \in Nat /\ N * b + N <= NW
    <3>1. (b + 1) * N <= W * N
      BY ProductGrows
    <3>2. (b + 1) * N = N * b + N /\ W * N = N * W /\ N * W \in Nat
      BY ProductNat
    <3> QED BY <3>1, <3>2
  <2>3. (b + 1) * NW <= A * NW
    BY <1>3, <2>1, <2>2, ProductGrows
  <2>4. A * NW = (A * N) * W
    <3>1. A \in Int /\ N \in Int /\ W \in Int
      BY <1>3
    <3> QED BY ONLY <3>1, ProductGroups
  <2>5. (A * N) * W <= (s * T) * W
    BY <1>1, <1>3, ProductGrows, ProductNat
  <2>6. (s * T) * W = (s * W) * T
    BY <1>1
  <2>7. (s * W) * T <= (all * b) * T
    BY <1>1, ProductGrows, ProductNat
  <2>8. (all * b) * T = (all * T) * b
    OBVIOUS
  <2>9. (all * T) * b <= ((W + 1) * N) * b
    <3>1. (W + 1) * N \in Nat /\ all * T <= (W + 1) * N
      BY <1>4, ProductNat
    <3> QED BY <1>4, <3>1, ProductGrows
  <2>10. ((W + 1) * N) * b = b * NW + N * b
    OBVIOUS
  <2>11. (b + 1) * NW = b * NW + NW /\ b * NW \in Nat
    BY <2>2, ProductNat
  <2> DEFINE p == b * NW
             q == N * b
             x1 == A * NW
             x2 == (s * T) * W
             x3 == (all * T) * b
  <2>12. /\ p \in Nat /\ q \in Nat /\ x1 \in Int /\ x2 \in Int /\ x3 \in Int
    BY <1>1, <1>3, <2>2, ProductNat
  <2>13. p + NW <= x1
    BY <2>3, <2>11
  <2>14. x1 <= x2
    BY <2>4, <2>5
  <2>15. x2 <= x3
    BY <2>6, <2>7, <2>8
  <2>16. x3 <= p + q
    BY <2>9, <2>10
  <2> HIDE DEF p, x1, x2, x3, NW
  <2>17. p + NW <= p + q
    BY <2>2, <2>12, <2>13, <2>14, <2>15, <2>16
  <2>18. NW <= q
    BY <2>2, <2>12, <2>17
  <2> QED BY <2>2, <2>12, <2>18 DEF q
<1> QED BY <1>1, <1>2, <1>3, <1>5 DEF A

\* One request is passed: what was before it, and it itself when nothing of it is left.
LEMMA PassedOn ==
  ASSUME NEW V, StockOk(V), NEW X, StockOk(X), DOMAIN X.requests = DOMAIN V.requests,
         NEW id \in DOMAIN V.requests, Passed(V, id),
         \A i \in DOMAIN V.requests \ {id} : X.requests[i] = V.requests[i]
  PROVE  Passed(X, id) /\ (X.requests[id].shares = 0 => Passed(X, id + 1))
<1> DEFINE n == Len(V.requests)
           m == Len(X.requests)
<1>1. n \in Nat /\ DOMAIN V.requests = 1 .. n /\ m \in Nat /\ DOMAIN X.requests = 1 .. m
  BY RequestsFinite
<1> HIDE DEF n, m
<1>2. m = n
  <2>1. 1 .. m = 1 .. n
    BY <1>1
  <2>2. (m \in 1 .. m \/ m = 0) /\ (n \in 1 .. n \/ n = 0)
    BY <1>1
  <2> QED BY <1>1, <2>1, <2>2
<1>3. id \in 1 .. n /\ \A i \in 1 .. n : i < id => X.requests[i].shares = 0
  <2>1. \A i \in 1 .. n : i < id => i # id
    BY <1>1
  <2> QED BY <1>1, <2>1 DEF Passed
<1>4. Passed(X, id)
  <2>1. id \in 1 .. m + 1
    BY <1>1, <1>2
  <2> QED BY <1>1, <1>2, <1>3, <2>1 DEF Passed, m
<1>5. ASSUME X.requests[id].shares = 0 PROVE Passed(X, id + 1)
  <2>1. id + 1 \in 1 .. m + 1
    BY <1>1, <1>2
  <2>2. \A i \in 1 .. m : i < id + 1 => i < id \/ i = id
    BY <1>1
  <2> QED BY <1>1, <1>2, <1>3, <1>5, <2>1, <2>2 DEF Passed, m
<1> QED BY <1>4, <1>5

\* The loop of serveRequests, after k turns from the state w that its checkpoint left.
QueueParts == {"w", "budget", "stop", "head", "ok"}
Serving(q, w, k) ==
  /\ DOMAIN q = QueueParts
  /\ q.ok => /\ q.budget \in Nat
             /\ Keeps(q.w, w) /\ LocksFit(q.w.v) /\ Same(q.w.v, w.v, Fields \ ServeFields)
             /\ DOMAIN q.w.v.requests = DOMAIN w.v.requests
             /\ Passed(q.w.v, q.head)
             /\ (~q.stop => q.head = w.v.head + k)

\* What the budget buys of a request is a part of it, and costs no more.
LEMMA AffordableFits ==
  ASSUME NEW q, Sound(q.w), EnvOk, q.budget \in Nat, NEW all \in Nat
  PROVE  LET worth == ToAssets(q.w, all)
             shares == Affordable(q, all, worth)
             assets == ToAssets(q.w, shares)
         IN  shares \in Nat /\ shares <= all /\ assets \in Nat /\ assets <= q.budget
<1> DEFINE T == TotalAssets(q.w) + 1
           N == q.w.v.supply + VIRTUAL_SHARES
           W == (all * T) \div N
           b == q.budget
<1>1. T \in Nat /\ N \in Nat \ {0} /\ b \in Nat
  <2>1. TotalAssets(q.w) \in Nat
    BY PriceBounds
  <2>2. q.w.v.supply \in Nat
    BY DEF Sound, StockOk
  <2> QED BY <2>1, <2>2, Parameters
<1>2. ToAssets(q.w, all) = W /\ \A x : ToAssets(q.w, x) = (x * T) \div N
  BY DEF ToAssets
<1> HIDE DEF T, N
<1>3. W \in Nat
  <2>1. all * T \in Nat
    BY <1>1, ProductNat
  <2> QED BY <1>1, <2>1, QuotientNat
<1>4. Affordable(q, all, W) = IF W > b THEN (all * b) \div W ELSE all
  BY DEF Affordable
<1> HIDE DEF b
<1> DEFINE s == (all * b) \div W
<1>5. CASE W > b
  <2> DEFINE U == W
             z == s
  <2>1. /\ U = (all * T) \div N /\ U > b /\ U \in Nat /\ z = (all * b) \div U
    BY <1>3, <1>5
  <2> HIDE DEF U, z
  <2>2. z \in Nat /\ z <= all /\ (z * T) \div N \in Nat /\ (z * T) \div N <= b
    BY <1>1, <2>1, Bargain
  <2> QED BY <1>2, <1>4, <1>5, <2>2 DEF b, z, U
<1>6. CASE ~ (W > b)
  <2>1. W <= b
    BY <1>1, <1>3, <1>6
  <2> QED BY <1>2, <1>3, <1>4, <1>6, <2>1 DEF b
<1> QED BY <1>5, <1>6

\* One turn of the queue, by its outcomes.
LEMMA ServeOneIs ==
  ASSUME NEW q, NEW id
  PROVE  LET all == q.w.v.requests[id].shares
             worth == ToAssets(q.w, all)
             shares == Affordable(q, all, worth)
             assets == ToAssets(q.w, shares)
             r == ServeShares(q, id, shares, assets)
         IN  ServeOne(q, id) =
               IF q.stop THEN q
               ELSE IF all = 0 THEN [q EXCEPT !.head = id + 1]
               ELSE IF worth = 0 THEN HandBack(q, id, all)
               ELSE IF shares = 0 \/ assets = 0 THEN [q EXCEPT !.stop = TRUE]
               ELSE NextHead(r, id, all, shares)
<1> DEFINE all == q.w.v.requests[id].shares
           worth == ToAssets(q.w, all)
           shares == Affordable(q, all, worth)
           assets == ToAssets(q.w, shares)
           r == ServeShares(q, id, shares, assets)
<1>1. ServeOne(q, id) = ServeHead(q, id)
  BY DEF ServeOne, Then
<1>2. ServeHead(q, id) =
     IF q.stop THEN q
      ELSE IF all = 0 THEN [q EXCEPT !.head = id + 1]
      ELSE IF worth = 0 THEN HandBack(q, id, all)
      ELSE IF shares = 0 \/ assets = 0 THEN [q EXCEPT !.stop = TRUE]
      ELSE NextHead(r, id, all, shares)
  BY DEF ServeHead, Then
<1> QED BY <1>1, <1>2

\* A turn of the queue keeps the books, passes only requests with nothing left, and stays within the budget.
LEMMA TurnKeeps ==
  ASSUME NEW w, Good(w), EnvOk, NEW k \in Nat \ {0}, NEW id \in DOMAIN w.v.requests, id = w.v.head + k - 1,
         NEW q, Serving(q, w, k - 1)
  PROVE  Serving(ServeOne(q, id), w, k)
<1> DEFINE W == q.w
           all == W.v.requests[id].shares
           worth == ToAssets(W, all)
           shares == Affordable(q, all, worth)
           assets == ToAssets(W, shares)
           r == ServeShares(q, id, shares, assets)
           z == ServeOne(q, id)
<1>1. SUFFICES Serving(z, w, k)
  OBVIOUS
<1>2. z = IF q.stop THEN q
          ELSE IF all = 0 THEN [q EXCEPT !.head = id + 1]
          ELSE IF worth = 0 THEN HandBack(q, id, all)
          ELSE IF shares = 0 \/ assets = 0 THEN [q EXCEPT !.stop = TRUE]
          ELSE NextHead(r, id, all, shares)
  BY ServeOneIs
<1>3. DOMAIN q = QueueParts
  BY DEF Serving
<1>4. /\ DOMAIN HandBack(q, id, all) = QueueParts /\ DOMAIN r = QueueParts
      /\ HandBack(q, id, all).w = Unlock(W, id, all) /\ HandBack(q, id, all).head = id + 1
      /\ HandBack(q, id, all).ok = q.ok /\ HandBack(q, id, all).budget = q.budget
      /\ HandBack(q, id, all).stop = q.stop
      /\ r.w = Bought(W, id, shares, assets) /\ r.head = q.head
      /\ r.ok = (q.ok /\ CanPayOut(W, assets)) /\ r.budget = q.budget - assets /\ r.stop = q.stop
  <2> HIDE DEF all, shares, assets
  <2> QED BY <1>3 DEF HandBack, ServeShares, QueueParts
<1> DEFINE hb == HandBack(q, id, all)
<1> HIDE DEF z, r, hb, W, assets, shares, worth, all
<1>5. DOMAIN NextHead(r, id, all, shares) = QueueParts /\ NextHead(r, id, all, shares).w = r.w
      /\ NextHead(r, id, all, shares).ok = r.ok /\ NextHead(r, id, all, shares).budget = r.budget
      /\ NextHead(r, id, all, shares).head = (IF shares = all THEN id + 1 ELSE r.head)
      /\ NextHead(r, id, all, shares).stop = (IF shares = all THEN r.stop ELSE TRUE)
  BY <1>4 DEF NextHead, QueueParts
<1>6. DOMAIN z = QueueParts /\ (z.ok => q.ok)
  BY <1>2, <1>3, <1>4, <1>5 DEF QueueParts, hb
<1>7. SUFFICES ASSUME q.ok, z.ok
               PROVE  /\ z.budget \in Nat
                      /\ Keeps(z.w, w) /\ LocksFit(z.w.v) /\ Same(z.w.v, w.v, Fields \ ServeFields)
                      /\ DOMAIN z.w.v.requests = DOMAIN w.v.requests
                      /\ Passed(z.w.v, z.head)
                      /\ (~z.stop => z.head = w.v.head + k)
  BY <1>6 DEF Serving
<1>8. /\ q.budget \in Nat
      /\ Keeps(W, w) /\ LocksFit(W.v) /\ Same(W.v, w.v, Fields \ ServeFields)
      /\ DOMAIN W.v.requests = DOMAIN w.v.requests
      /\ Passed(W.v, q.head)
      /\ (~q.stop => q.head = w.v.head + (k - 1))
  BY <1>7 DEF Serving, W
<1>9. Sound(w) /\ Sound(W) /\ StockOk(W.v) /\ id \in DOMAIN W.v.requests /\ w.v.head \in Nat /\ id \in Nat /\ all \in Nat
  <2>1. Sound(w) /\ Sound(W) /\ StockOk(W.v) /\ StockOk(w.v) /\ id \in DOMAIN W.v.requests
    BY <1>8 DEF Keeps, Good, Sound
  <2>2. all \in Nat
    BY <2>1, RequestsFinite DEF all
  <2>3. w.v.head \in Nat
    BY ONLY <2>1 DEF StockOk
  <2>4. id \in Nat
    <3> DEFINE n == Len(W.v.requests)
    <3>1. n \in Nat /\ id \in 1 .. n
      BY <2>1, RequestsFinite
    <3> HIDE DEF n
    <3> QED BY ONLY <3>1
  <2> QED BY <2>1, <2>2, <2>3, <2>4
<1>10. ~q.stop => q.head = id /\ id + 1 = w.v.head + k
  BY <1>8, <1>9
<1>11. CASE q.stop
  BY <1>2, <1>8, <1>11 DEF W
<1>12. CASE ~q.stop /\ all = 0
  <2>1. z.budget = q.budget /\ z.w = W /\ z.head = id + 1
    BY <1>2, <1>3, <1>12 DEF QueueParts, W
  <2>2. Passed(W.v, id + 1)
    BY <1>8, <1>9, <1>10, <1>12, PassedOn DEF all
  <2> QED BY <1>8, <1>10, <1>12, <2>1, <2>2
<1>13. CASE ~q.stop /\ all # 0 /\ worth = 0
  <2>1. z.budget = q.budget /\ z.w = Unlock(W, id, all) /\ z.head = id + 1
    BY <1>2, <1>4, <1>13 DEF hb
  <2> DEFINE y == Unlock(W, id, all)
  <2>2. /\ Keeps(y, W) /\ y.core = W.core /\ y.held = W.held
        /\ DOMAIN y.v.requests = DOMAIN W.v.requests
        /\ y.v.requests[id].shares = W.v.requests[id].shares - all
        /\ \A i \in DOMAIN W.v.requests \ {id} : y.v.requests[i] = W.v.requests[i]
        /\ \A h \in Holders :
             y.v.lockedShares[h] = W.v.lockedShares[h] - (IF h = W.v.requests[id].owner THEN all ELSE 0)
        /\ Same(y.v, W.v, Fields \ QueueFields)
    <3>1. Sound(W) /\ id \in DOMAIN W.v.requests /\ all \in Nat /\ all <= W.v.requests[id].shares
      BY <1>9 DEF all
    <3> QED BY ONLY <3>1, UnlockKeeps DEF y
  <2> HIDE DEF y
  <2>3. y.v.requests[id].shares = 0 /\ StockOk(y.v)
    BY <1>9, <2>2 DEF all, Keeps, Sound
  <2>4. Passed(y.v, id + 1)
    BY <1>8, <1>9, <1>10, <1>13, <2>2, <2>3, PassedOn
  <2>5. LocksFit(y.v)
    <3>1. y.v.balance = W.v.balance
      BY <2>2 DEF Same, Fields, QueueFields
    <3>2. \A h \in Holders : W.v.lockedShares[h] \in Nat /\ W.v.balance[h] \in Nat
      BY <1>9 DEF StockOk
    <3> QED BY <1>8, <1>9, <2>2, <3>1, <3>2 DEF LocksFit
  <2>6. Keeps(y, w)
    BY <1>8, <1>9, <2>2, KeepsChain
  <2>7. Same(y.v, w.v, Fields \ ServeFields)
    BY <1>8, <2>2 DEF Same, ServeFields, QueueFields
  <2> QED BY <1>8, <1>10, <1>13, <2>1, <2>2, <2>4, <2>5, <2>6, <2>7 DEF y
<1>14. CASE ~q.stop /\ all # 0 /\ worth # 0 /\ (shares = 0 \/ assets = 0)
  <2>1. z = [q EXCEPT !.stop = TRUE]
    BY <1>2, <1>14
  <2>2. z.budget = q.budget /\ z.w = W /\ z.head = q.head /\ z.stop
    BY <1>3, <2>1 DEF QueueParts, W
  <2> QED BY <1>8, <2>2
<1>15. CASE ~q.stop /\ all # 0 /\ worth # 0 /\ shares # 0 /\ assets # 0
  <2> DEFINE y == Bought(W, id, shares, assets)
  <2>1. /\ z.budget = q.budget - assets /\ z.w = y
        /\ z.head = (IF shares = all THEN id + 1 ELSE q.head)
        /\ (z.stop <=> shares # all) /\ CanPayOut(W, assets)
    BY <1>2, <1>4, <1>5, <1>7, <1>15
  <2>2. shares \in Nat /\ shares <= all /\ assets \in Nat /\ assets <= q.budget
    <3>1. Sound(q.w)
      BY <1>9 DEF W
    <3> QED BY <1>8, <1>9, <3>1, AffordableFits DEF worth, shares, assets, W
  <2>3. Keeps(y, W) /\ LocksFit(y.v) /\ Same(y.v, W.v, Fields \ ServeFields) /\ Lessened(y, W, id, shares)
    <3>1. /\ Sound(W) /\ LocksFit(W.v) /\ EnvOk /\ id \in DOMAIN W.v.requests /\ PartOfRequest(W, id, shares)
          /\ assets \in Nat /\ CanPayOut(W, assets)
      BY <1>8, <1>9, <2>1, <2>2 DEF all, PartOfRequest
    <3> QED BY ONLY <3>1, BoughtKeeps DEF y
  <2> HIDE DEF y
  <2>4. StockOk(y.v) /\ (shares = all => y.v.requests[id].shares = 0)
    BY <1>9, <2>3 DEF all, Keeps, Sound, Lessened
  <2>5. Passed(y.v, id) /\ (shares = all => Passed(y.v, id + 1))
    BY <1>8, <1>9, <1>10, <1>15, <2>3, <2>4, PassedOn DEF Lessened
  <2>6. Keeps(y, w)
    BY <1>8, <1>9, <2>3, KeepsChain
  <2>7. Same(y.v, w.v, Fields \ ServeFields)
    BY <1>8, <2>3 DEF Same
  <2>8. z.budget \in Nat
    BY <1>8, <2>1, <2>2
  <2> QED BY <1>8, <1>10, <1>15, <2>1, <2>3, <2>5, <2>6, <2>7, <2>8 DEF Lessened
<1> QED BY <1>11, <1>12, <1>13, <1>14, <1>15
=============================================================================
