--------------------------- MODULE DealVaultProofs ---------------------------
(***************************************************************************)
(* The first escrow with its fee sink, for any accounts, tokens, deals,    *)
(* bids, fees and clock: one bid wins a deal, money and collateral follow  *)
(* the outcomes, and what the vault owes it holds.                         *)
(*                                                                         *)
(* An operation touches one deal and one bid at most (Touches), so every   *)
(* total moves by what that deal's and that bid's entries move             *)
(* (RecordsMove); what remains is to compare that with the payment.        *)
(***************************************************************************)
EXTENDS FeeSink, SumTheorems

(***************************************************************************)
(* Types.                                                                  *)
(***************************************************************************)
Held == [kind : {"ERC20"}, token : Tokens, amount : Nat]
          \cup [kind : {"POSITION"}, token : Positions, amount : {1}]

DealType ==
  [borrower : Accounts \cup {NoAccount}, state : DealStates, c : Held \cup {NoAccount},
   term : Nat, listingExpiry : Nat, cap : Nat, minPrice : Nat,
   lender : Accounts \cup {NoAccount}, price : Nat, fee : Nat, fundedAt : Nat, expiry : Nat]

BidStates == {"NONE", "OPEN", "ACCEPTED", "WITHDRAWN"}

BidType ==
  [dealId : DealIds \cup {0}, lender : Accounts \cup {NoAccount}, price : Nat, expiry : Nat,
   state : BidStates, payer : Accounts \cup {NoAccount}]

RegType ==
  [paused : BOOLEAN, feeBps : Fees, terms : SUBSET Terms, open : [Tokens -> Caps],
   allowed : SUBSET (Tokens \cup Positions), isRouter : SUBSET Routers]

SinkType ==
  [route : {"TREASURY", "BUYBACK"}, treasury : Treasuries, buyback : Buybacks \cup {NoAccount}]

\* A deal that exists has a borrower and collateral, one that was funded a lender
\* who paid at least the fee; the numbers beyond dealCount are unused.
DealOK(d) ==
  /\ deals[d].state # "NONE" => deals[d].borrower \in Accounts /\ deals[d].c \in Held
  /\ deals[d].state \in Funded => deals[d].lender \in Accounts /\ deals[d].fee <= deals[d].price
  /\ d > dealCount => deals[d].state = "NONE"

BidOK(b) ==
  /\ bids[b].state # "NONE" =>
       bids[b].lender \in Accounts /\ bids[b].payer \in Accounts /\ bids[b].dealId \in DealIds
  /\ b > bidCount => bids[b] = NoBid

TypeOK ==
  /\ now \in Nat
  /\ reg \in RegType
  /\ dealCount \in Nat /\ deals \in [DealIds -> DealType] /\ \A d \in DealIds : DealOK(d)
  /\ bidCount \in Nat /\ bids \in [BidIds -> BidType] /\ \A b \in BidIds : BidOK(b)
  /\ balanceUSDG \in [Wallets -> Nat]
  /\ balanceERC20 \in [Accounts -> [Tokens -> Nat]]
  /\ owedNFT \in [Accounts -> SUBSET Positions]
  /\ openRaw \in [Tokens -> Nat]
  /\ usdg \in [Wallets -> Nat]
  /\ DOMAIN erc20 = Accounts \cup {Vault} /\ erc20[Vault] \in [Tokens -> Nat]
  /\ posOwner \in [Positions -> Accounts \cup {Vault}]
  /\ stopped \in SUBSET Accounts
  /\ sink \in SinkType /\ (sink.route = "BUYBACK" => sink.buyback # NoAccount)

(***************************************************************************)
(* The inductive invariant.  An account's entries and the vault's totals   *)
(* are the properties of DealVault; a position's custody is said without   *)
(* Cardinality and Max.                                                    *)
(***************************************************************************)
Over(d, p) == deals[d].state # "NONE" /\ deals[d].c.token = p

LastOver(d, p) == Over(d, p) /\ \A e \in DealIds : Over(e, p) => e <= d

\* Whom an ended deal left the collateral to.
Winner(d) == IF deals[d].state = "CLAIMED" THEN deals[d].lender ELSE deals[d].borrower

PositionFollows(p) ==
  /\ posOwner[p] = Vault =>
       \/ \E d \in LiveDeals : Over(d, p)
       \/ \E a \in Accounts : p \in owedNFT[a]
  /\ \A d \in LiveDeals : Over(d, p) =>
       posOwner[p] = Vault /\ LastOver(d, p) /\ \A a \in Accounts : p \notin owedNFT[a]
  /\ \A a \in Accounts : p \in owedNFT[a] =>
       /\ posOwner[p] = Vault
       /\ \A z \in Accounts : p \in owedNFT[z] => z = a
       /\ \E d \in DealIds : LastOver(d, p) /\ a = Winner(d)

Custody == \A p \in Positions : PositionFollows(p)

Inv == TypeOK /\ OneBidWins /\ EveryoneIsSquare /\ FeesAreAccounted /\ TokensFollowOutcomes /\ Custody

(***************************************************************************)
(* What the assumptions give.                                              *)
(***************************************************************************)
LEMMA Finite ==
  /\ IsFiniteSet(Wallets) /\ IsFiniteSet(DealIds) /\ IsFiniteSet(BidIds) /\ IsFiniteSet(Accounts)
BY VaultAssumption, FS_Subset

LEMMA Names ==
  /\ Vault \in Wallets /\ FEE_SINK \in Wallets /\ Accounts \subseteq Wallets
  /\ Vault # FEE_SINK /\ Vault \notin Accounts /\ FEE_SINK \notin Accounts /\ NoAccount \notin Accounts
  /\ Treasuries \cup Buybacks \subseteq Wallets \ (Accounts \cup {Vault, FEE_SINK})
  /\ NoAccount \notin Treasuries \cup Buybacks
BY VaultAssumption, SinkAssumption

LEMMA Ids ==
  /\ DealIds \subseteq Nat \ {0} /\ BidIds \subseteq Nat \ {0}
  /\ \A n \in Nat : n + 1 <= MaxDeals => n + 1 \in DealIds
  /\ \A n \in Nat : n + 1 <= MaxBids => n + 1 \in BidIds
  /\ MaxDeals \in DealIds /\ MaxBids \in BidIds
BY VaultAssumption

LEMMA Collaterals == Collateral \subseteq Held
BY VaultAssumption DEF Collateral, Held

LEMMA HeldKinds ==
  \A c \in Held :
    /\ c.kind \in {"ERC20", "POSITION"} /\ c.amount \in Nat
    /\ c.kind = "ERC20" => c.token \in Tokens
    /\ c.kind = "POSITION" => c.token \in Positions
    /\ c.token \in Tokens <=> c.kind = "ERC20"
    /\ c.token \in Positions <=> c.kind = "POSITION"
BY VaultAssumption DEF Held

\* The fee is a share of the price.
LEMMA FeeBounds ==
  ASSUME TypeOK, NEW price \in Nat
  PROVE  Fee(price) \in Nat /\ Fee(price) <= price
<1> DEFINE bps == IF reg.feeBps > MAX_FEE_BPS THEN MAX_FEE_BPS ELSE reg.feeBps
<1>1. bps \in 0 .. BPS /\ BPS \in Nat \ {0}
  <2>1. reg.feeBps \in Nat
    BY VaultAssumption DEF TypeOK, RegType
  <2>2. MAX_FEE_BPS \in 0 .. BPS /\ BPS \in Nat \ {0}
    BY VaultAssumption
  <2> QED BY <2>1, <2>2
<1> HIDE DEF bps
<1>2. price * bps \in Nat /\ price * bps <= price * BPS
  BY <1>1
<1>3. \A n \in Nat, m \in Nat \ {0} : n <= price * m => n \div m \in Nat /\ n \div m <= price
  OBVIOUS
<1>4. (price * bps) \div BPS \in Nat /\ (price * bps) \div BPS <= price
  BY <1>1, <1>2, <1>3
<1> QED BY <1>4 DEF Fee, bps

(***************************************************************************)
(* Types are kept.                                                         *)
(***************************************************************************)
DealBecomes(d, x) == deals' = [deals EXCEPT ![d] = x]
BidBecomes(b, x) == bids' = [bids EXCEPT ![b] = x]

LEMMA DealTypes ==
  ASSUME TypeOK, NEW d \in DealIds, NEW x \in DealType, DealBecomes(d, x),
         dealCount' \in Nat, dealCount' >= dealCount, d <= dealCount',
         x.state # "NONE", x.borrower \in Accounts, x.c \in Held,
         x.state \in Funded => x.lender \in Accounts /\ x.fee <= x.price
  PROVE  deals' \in [DealIds -> DealType] /\ \A e \in DealIds : DealOK(e)'
<1>1. deals' \in [DealIds -> DealType] /\ deals'[d] = x /\ \A e \in DealIds \ {d} : deals'[e] = deals[e]
  BY DEF TypeOK, DealBecomes
<1>2. ASSUME NEW e \in DealIds PROVE DealOK(e)'
  <2>1. CASE e = d
    BY <1>1, <2>1, Ids DEF DealOK
  <2>2. CASE e # d
    BY <1>1, <2>2, Ids DEF DealOK, TypeOK
  <2> QED BY <2>1, <2>2
<1> QED BY <1>1, <1>2

LEMMA BidTypes ==
  ASSUME TypeOK, NEW b \in BidIds, NEW x \in BidType, BidBecomes(b, x),
         bidCount' \in Nat, bidCount' >= bidCount, b <= bidCount',
         x.lender \in Accounts, x.payer \in Accounts, x.dealId \in DealIds
  PROVE  bids' \in [BidIds -> BidType] /\ \A e \in BidIds : BidOK(e)'
<1>1. bids' \in [BidIds -> BidType] /\ bids'[b] = x /\ \A e \in BidIds \ {b} : bids'[e] = bids[e]
  BY DEF TypeOK, BidBecomes
<1>2. ASSUME NEW e \in BidIds PROVE BidOK(e)'
  <2>1. CASE e = b
    BY <1>1, <2>1, Ids DEF BidOK
  <2>2. CASE e # b
    BY <1>1, <2>2, Ids DEF BidOK, TypeOK
  <2> QED BY <2>1, <2>2
<1> QED BY <1>1, <1>2

LEMMA PayTypes ==
  ASSUME TypeOK, NEW from \in Wallets, NEW to \in Wallets, NEW amount \in Nat,
         CanPay(from, to, amount), Pay(from, to, amount)
  PROVE  usdg' \in [Wallets -> Nat]
BY DEF TypeOK, CanPay, Pay

LEMMA CreditTypes ==
  ASSUME TypeOK, NEW a \in Wallets, NEW amount \in Nat, Credit(a, amount)
  PROVE  balanceUSDG' \in [Wallets -> Nat]
BY DEF TypeOK, Credit

LEMMA PullTypes ==
  ASSUME TypeOK, NEW a \in Accounts, NEW c \in Held, PullCollateral(a, c)
  PROVE  /\ openRaw' \in [Tokens -> Nat]
         /\ DOMAIN erc20' = Accounts \cup {Vault} /\ erc20'[Vault] \in [Tokens -> Nat]
         /\ posOwner' \in [Positions -> Accounts \cup {Vault}]
<1>1. c.amount \in Nat /\ a # Vault
  BY HeldKinds, Names
<1>2. CASE c.kind = "ERC20"
  <2>1. erc20'[Vault] = [erc20[Vault] EXCEPT ![c.token] = @ + c.amount] /\ DOMAIN erc20' = DOMAIN erc20
    BY <1>1, <1>2 DEF PullCollateral, TypeOK
  <2>2. c.token \in Tokens
    BY <1>2, HeldKinds
  <2>3. erc20'[Vault] \in [Tokens -> Nat] /\ DOMAIN erc20' = Accounts \cup {Vault}
    BY <1>1, <2>1, <2>2 DEF TypeOK
  <2>4. openRaw' \in [Tokens -> Nat] /\ posOwner' = posOwner
    BY <1>1, <1>2, <2>2 DEF PullCollateral, TypeOK
  <2> QED BY <2>3, <2>4 DEF TypeOK
<1>3. CASE c.kind # "ERC20"
  BY <1>3 DEF PullCollateral, TypeOK
<1> QED BY <1>2, <1>3

LEMMA CreditCollateralTypes ==
  ASSUME TypeOK, NEW a \in Accounts, NEW c \in Held, CreditCollateral(c, a)
  PROVE  /\ openRaw' \in [Tokens -> Nat]
         /\ balanceERC20' \in [Accounts -> [Tokens -> Nat]]
         /\ owedNFT' \in [Accounts -> SUBSET Positions]
<1>1. CASE c.kind = "ERC20"
  <2>1. c.token \in Tokens /\ c.amount \in Nat
    BY <1>1, HeldKinds
  <2>2. openRaw' \in [Tokens -> Nat] /\ owedNFT' = owedNFT
    BY <1>1, <2>1 DEF CreditCollateral, TypeOK
  <2>3. balanceERC20' = [balanceERC20 EXCEPT ![a][c.token] = @ + c.amount]
    BY <1>1 DEF CreditCollateral
  <2>4. balanceERC20' \in [Accounts -> [Tokens -> Nat]]
    BY <2>1, <2>3 DEF TypeOK
  <2> QED BY <2>2, <2>4 DEF TypeOK
<1>2. CASE c.kind # "ERC20"
  <2>1. c.token \in Positions
    BY <1>2, HeldKinds
  <2> QED BY <1>2, <2>1 DEF CreditCollateral, TypeOK
<1> QED BY <1>1, <1>2

LEMMA RegistryTypes ==
  ASSUME TypeOK, RegistryNext, UNCHANGED sink
  PROVE  TypeOK'
<1>1. UNCHANGED <<now, vaultVars, assetVars, stopped>>
  BY DEF RegistryNext, PauseNewDeals, SetTerms, SetFee, SetAllowed, SetOpenCap, SetRouter, Configure
<1>2. reg' \in RegType
  <2> USE DEF TypeOK
  <2>1. CASE \E paused \in BOOLEAN : PauseNewDeals(paused)
    BY <2>1 DEF PauseNewDeals, RegType
  <2>2. CASE \E terms \in SUBSET Terms \ {{}} : SetTerms(terms)
    BY <2>2 DEF SetTerms, RegType
  <2>3. CASE \E bps \in Fees : SetFee(bps)
    BY <2>3 DEF SetFee, RegType
  <2>4. CASE \E asset \in Tokens \cup Positions, ok \in BOOLEAN : SetAllowed(asset, ok)
    <3>1. PICK asset \in Tokens \cup Positions, ok \in BOOLEAN : SetAllowed(asset, ok)
      BY <2>4
    <3> DEFINE after == IF ok THEN reg.allowed \cup {asset} ELSE reg.allowed \ {asset}
    <3>2. reg' = [reg EXCEPT !.allowed = after] /\ after \in SUBSET (Tokens \cup Positions)
      BY <3>1 DEF SetAllowed, RegType
    <3> HIDE DEF after
    <3> QED BY <3>2 DEF RegType
  <2>5. CASE \E token \in Tokens, max \in Caps : SetOpenCap(token, max)
    <3>1. PICK token \in Tokens, max \in Caps : SetOpenCap(token, max)
      BY <2>5
    <3> DEFINE after == [reg.open EXCEPT ![token] = max]
    <3>2. reg' = [reg EXCEPT !.open = after] /\ after \in [Tokens -> Caps]
      BY <3>1 DEF SetOpenCap, RegType
    <3> HIDE DEF after
    <3> QED BY <3>2 DEF RegType
  <2>6. CASE \E router \in Routers, ok \in BOOLEAN : SetRouter(router, ok)
    <3>1. PICK router \in Routers, ok \in BOOLEAN : SetRouter(router, ok)
      BY <2>6
    <3> DEFINE after == IF ok THEN reg.isRouter \cup {router} ELSE reg.isRouter \ {router}
    <3>2. reg' = [reg EXCEPT !.isRouter = after] /\ after \in SUBSET Routers
      BY <3>1 DEF SetRouter, RegType
    <3> HIDE DEF after
    <3> QED BY <3>2 DEF RegType
  <2> QED BY <2>1, <2>2, <2>3, <2>4, <2>5, <2>6 DEF RegistryNext
<1> QED BY <1>1, <1>2 DEF TypeOK, DealOK, BidOK, vaultVars, dealVars, assetVars

\* A listing: the collateral is pulled and the next number taken.
LEMMA OpenDealTypes ==
  ASSUME TypeOK, NEW from \in Accounts, NEW borrower \in Accounts, NEW c \in Held,
         NEW ask \in [cap : Nat, minPrice : Nat], NEW term \in Nat, NEW expiry \in Nat,
         PullCollateral(from, c), OpenDeal(borrower, c, ask, term, expiry), UNCHANGED sink
  PROVE  TypeOK'
<1> DEFINE x == [NoDeal EXCEPT !.borrower = borrower, !.state = "LISTED", !.c = c, !.term = term,
                               !.listingExpiry = expiry, !.cap = ask.cap, !.minPrice = ask.minPrice]
<1>1. /\ x \in DealType /\ x.state = "LISTED" /\ x.borrower = borrower /\ x.c = c
  BY DEF DealType, NoDeal, DealStates, Live
<1>2. /\ NextDeal \in DealIds /\ NextDeal = dealCount + 1 /\ dealCount \in Nat
      /\ dealCount' = dealCount + 1 /\ DealBecomes(NextDeal, x)
  BY Ids DEF OpenDeal, NextDeal, TypeOK, DealBecomes
<1> HIDE DEF x
<1>3. deals' \in [DealIds -> DealType] /\ \A e \in DealIds : DealOK(e)'
  <2>1. x.state # "NONE" /\ x.state \notin Funded
    BY <1>1 DEF Funded
  <2>2. dealCount' \in Nat /\ dealCount' >= dealCount /\ NextDeal <= dealCount'
    BY <1>2
  <2> QED BY <1>1, <1>2, <2>1, <2>2, DealTypes
<1>4. UNCHANGED <<now, reg, bidCount, bids, balanceUSDG, balanceERC20, owedNFT, usdg, stopped>>
  BY DEF OpenDeal
<1>5. \A b \in BidIds : BidOK(b)'
  BY <1>4 DEF TypeOK, BidOK
<1>6. /\ openRaw' \in [Tokens -> Nat]
      /\ DOMAIN erc20' = Accounts \cup {Vault} /\ erc20'[Vault] \in [Tokens -> Nat]
      /\ posOwner' \in [Positions -> Accounts \cup {Vault}]
  BY PullTypes
<1> QED BY <1>2, <1>3, <1>4, <1>5, <1>6 DEF TypeOK

\* What an operation on a listed or funded deal leaves of it.
LEMMA DealEntry ==
  ASSUME TypeOK, NEW d \in DealIds, deals[d].state # "NONE"
  PROVE  /\ deals[d] \in DealType /\ deals[d].borrower \in Accounts /\ deals[d].c \in Held
         /\ d <= dealCount /\ dealCount \in Nat /\ d \in Nat
         /\ deals[d].price \in Nat /\ deals[d].cap \in Nat /\ deals[d].fee \in Nat /\ deals[d].minPrice \in Nat
         /\ deals[d].state \in Funded => deals[d].lender \in Accounts /\ deals[d].fee <= deals[d].price
BY Ids DEF TypeOK, DealOK, DealType

LEMMA BidEntry ==
  ASSUME TypeOK, NEW b \in BidIds, bids[b].state # "NONE"
  PROVE  /\ bids[b] \in BidType /\ bids[b].lender \in Accounts /\ bids[b].payer \in Accounts
         /\ bids[b].dealId \in DealIds /\ bids[b].price \in Nat
         /\ b <= bidCount /\ bidCount \in Nat /\ b \in Nat
<1>1. b <= bidCount
  BY Ids DEF TypeOK, BidOK, NoBid
<1> QED BY <1>1, Ids DEF TypeOK, BidOK, BidType

\* The end of a deal changes nothing of it but its state.
LEMMA EndTypes ==
  ASSUME TypeOK, NEW d \in DealIds, NEW s \in {"CANCELLED", "RECLAIMED", "CLAIMED"},
         deals[d].state \in Live, s # "CANCELLED" => deals[d].state = "FUNDED",
         deals' = [deals EXCEPT ![d].state = s], dealCount' = dealCount
  PROVE  deals' \in [DealIds -> DealType] /\ \A e \in DealIds : DealOK(e)'
<1> DEFINE x == [deals[d] EXCEPT !.state = s]
<1>1. deals[d].state # "NONE"
  BY DEF Live
<1>2. x \in DealType /\ x.state = s /\ x.borrower = deals[d].borrower /\ x.c = deals[d].c
        /\ x.lender = deals[d].lender /\ x.fee = deals[d].fee /\ x.price = deals[d].price
  BY <1>1, DealEntry DEF DealType, DealStates, Funded, Live
<1>3. DealBecomes(d, x)
  BY DEF TypeOK, DealBecomes
<1>4. x.state # "NONE" /\ (x.state \in Funded => deals[d].state \in Funded)
  BY <1>2 DEF Funded, Live
<1> HIDE DEF x
<1> QED BY <1>1, <1>2, <1>3, <1>4, DealEntry, DealTypes

\* Settlement: the price goes to the borrower, the fee to the sink.
LEMMA SettleTypes ==
  ASSUME TypeOK, NEW d \in DealIds, NEW lender \in Accounts, NEW price \in Nat,
         deals[d].state = "LISTED", Settle(d, lender, price), dealCount' = dealCount
  PROVE  /\ deals' \in [DealIds -> DealType] /\ \A e \in DealIds : DealOK(e)'
         /\ balanceUSDG' \in [Wallets -> Nat]
<1> DEFINE fee == Fee(price)
           x == [deals[d] EXCEPT !.state = "FUNDED", !.lender = lender, !.price = price, !.fee = fee,
                                 !.fundedAt = now, !.expiry = now + deals[d].term]
<1>1. fee \in Nat /\ fee <= price
  BY FeeBounds
<1>2. deals[d] \in DealType /\ deals[d].term \in Nat /\ now \in Nat
  BY DEF TypeOK, DealType
<1>3. DealBecomes(d, x)
  BY DEF Settle, DealBecomes
<1>4. balanceUSDG' = [balanceUSDG EXCEPT ![FEE_SINK] = @ + fee, ![deals[d].borrower] = @ + price - fee]
  BY DEF Settle
<1> HIDE DEF fee
<1>5. /\ x \in DealType /\ x.state = "FUNDED" /\ x.borrower = deals[d].borrower /\ x.c = deals[d].c
      /\ x.lender = lender /\ x.fee = fee /\ x.price = price
  <2>1. now + deals[d].term \in Nat /\ "FUNDED" \in DealStates
    BY <1>2 DEF DealStates, Live
  <2> QED BY <1>1, <1>2, <2>1 DEF DealType
<1> HIDE DEF x
<1>6. deals' \in [DealIds -> DealType] /\ \A e \in DealIds : DealOK(e)'
  BY <1>1, <1>3, <1>5, DealEntry, DealTypes
<1>7. balanceUSDG' \in [Wallets -> Nat]
  <2>1. price - fee \in Nat /\ fee \in Nat /\ price \in Nat
    BY <1>1
  <2>2. deals[d].borrower \in Wallets /\ FEE_SINK \in Wallets /\ deals[d].borrower # FEE_SINK
    BY DealEntry, Names
  <2>3. balanceUSDG \in [Wallets -> Nat]
    BY DEF TypeOK
  <2>4. balanceUSDG[FEE_SINK] + fee \in Nat /\ balanceUSDG[deals[d].borrower] + price - fee \in Nat
    BY <2>1, <2>2, <2>3
  <2> QED BY <1>4, <2>2, <2>3, <2>4
<1> QED BY <1>6, <1>7

LEMMA ListTypes ==
  ASSUME TypeOK, UNCHANGED sink, NEW from \in Accounts, NEW borrower \in Listers,
         NEW c \in Collateral, NEW ask \in Asks, NEW term \in Terms, NEW expiry \in Deadlines,
         \/ from = borrower /\ List(from, c, ask, term, expiry)
         \/ ListPositionFor(from, c, ask, term, borrower)
  PROVE  \E x \in Nat : /\ PullCollateral(from, c) /\ OpenDeal(borrower, c, ask, term, x)
                        /\ c \in Held /\ borrower \in Accounts /\ TypeOK'
<1>1. /\ borrower \in Accounts /\ c \in Held /\ ask \in [cap : Nat, minPrice : Nat] /\ term \in Nat
      /\ 0 \in Nat
  BY VaultAssumption, Collaterals
<1>2. expiry \in Nat
  BY VaultAssumption DEF Deadlines, TypeOK
<1>3. CASE List(from, c, ask, term, expiry) /\ from = borrower
  <2>1. PullCollateral(from, c) /\ OpenDeal(borrower, c, ask, term, expiry)
    BY <1>3 DEF List
  <2> QED BY <1>1, <1>2, <2>1, OpenDealTypes
<1>4. CASE ListPositionFor(from, c, ask, term, borrower)
  <2>1. PullCollateral(from, c) /\ OpenDeal(borrower, c, ask, term, 0)
    BY <1>4 DEF ListPositionFor
  <2> QED BY <1>1, <2>1, OpenDealTypes
<1> QED BY <1>3, <1>4

LEMMA CancelTypes ==
  ASSUME TypeOK, UNCHANGED sink, NEW d \in DealIds, NEW a \in Accounts, Cancel(d, a)
  PROVE  TypeOK'
<1>1. deals[d].state = "LISTED" /\ deals' = [deals EXCEPT ![d].state = "CANCELLED"] /\ dealCount' = dealCount
  BY DEF Cancel
<1>2. deals[d].state \in Live /\ deals[d].state # "NONE"
  BY <1>1 DEF Live
<1>3. deals' \in [DealIds -> DealType] /\ \A e \in DealIds : DealOK(e)'
  BY <1>1, <1>2, EndTypes
<1>4. deals[d].c \in Held
  BY <1>2, DealEntry
<1>5. UNCHANGED <<now, reg, dealCount, bidCount, bids, balanceUSDG, usdg, erc20, posOwner, stopped>>
  BY DEF Cancel, assetVars
<1>6. \A b \in BidIds : BidOK(b)'
  BY <1>5 DEF TypeOK, BidOK
<1>7. CreditCollateral(deals[d].c, a)
  BY DEF Cancel
<1> QED BY <1>3, <1>4, <1>5, <1>6, <1>7, CreditCollateralTypes DEF TypeOK

LEMMA ClaimTypes ==
  ASSUME TypeOK, UNCHANGED sink, NEW d \in DealIds, NEW a \in Accounts, Claim(d, a)
  PROVE  TypeOK'
<1>1. deals[d].state = "FUNDED" /\ deals' = [deals EXCEPT ![d].state = "CLAIMED"] /\ dealCount' = dealCount
  BY DEF Claim
<1>2. deals[d].state \in Live /\ deals[d].state # "NONE"
  BY <1>1 DEF Live
<1>3. deals' \in [DealIds -> DealType] /\ \A e \in DealIds : DealOK(e)'
  BY <1>1, <1>2, EndTypes
<1>4. deals[d].c \in Held
  BY <1>2, DealEntry
<1>5. UNCHANGED <<now, reg, dealCount, bidCount, bids, balanceUSDG, usdg, erc20, posOwner, stopped>>
  BY DEF Claim, assetVars
<1>6. \A b \in BidIds : BidOK(b)'
  BY <1>5 DEF TypeOK, BidOK
<1>7. CreditCollateral(deals[d].c, a)
  BY DEF Claim
<1> QED BY <1>3, <1>4, <1>5, <1>6, <1>7, CreditCollateralTypes DEF TypeOK

LEMMA ReclaimTypes ==
  ASSUME TypeOK, UNCHANGED sink, NEW d \in DealIds, NEW a \in Accounts, Reclaim(d, a)
  PROVE  TypeOK'
<1>1. deals[d].state = "FUNDED" /\ deals' = [deals EXCEPT ![d].state = "RECLAIMED"]
  BY DEF Reclaim
<1>2. deals[d].state \in Live /\ deals[d].state # "NONE" /\ deals[d].state \in Funded
  BY <1>1 DEF Live, Funded
<1>3. UNCHANGED <<now, reg, dealCount, bidCount, bids, erc20, posOwner, stopped>>
  BY DEF Reclaim
<1>4. deals' \in [DealIds -> DealType] /\ \A e \in DealIds : DealOK(e)'
  BY <1>1, <1>2, <1>3, EndTypes
<1>5. deals[d].c \in Held /\ deals[d].lender \in Accounts /\ deals[d].cap \in Nat
  BY <1>2, DealEntry
<1>6. \A b \in BidIds : BidOK(b)'
  BY <1>3 DEF TypeOK, BidOK
<1>7. balanceUSDG' \in [Wallets -> Nat]
  <2>1. Credit(deals[d].lender, deals[d].cap)
    BY DEF Reclaim
  <2> QED BY <1>5, <2>1, CreditTypes, Names
<1>8. usdg' \in [Wallets -> Nat]
  <2>1. CanPay(a, Vault, deals[d].cap) /\ Pay(a, Vault, deals[d].cap)
    BY DEF Reclaim
  <2> QED BY <1>5, <2>1, PayTypes, Names
<1>9. CreditCollateral(deals[d].c, a)
  BY DEF Reclaim
<1> QED BY <1>3, <1>4, <1>5, <1>6, <1>7, <1>8, <1>9, CreditCollateralTypes DEF TypeOK

\* A new bid, open or accepted at once.
LEMMA PlaceBidTypes ==
  ASSUME TypeOK, NEW d \in DealIds, NEW lender \in Accounts, NEW payer \in Accounts,
         NEW price \in Nat, NEW expiry \in Nat, NEW s \in {"OPEN", "ACCEPTED"},
         NextBid <= MaxBids, bidCount' = NextBid,
         BidBecomes(NextBid, PlaceBid(d, lender, price, expiry, s, payer))
  PROVE  /\ NextBid \in BidIds /\ bids[NextBid] = NoBid
         /\ bidCount' \in Nat /\ bids' \in [BidIds -> BidType] /\ \A e \in BidIds : BidOK(e)'
<1> DEFINE x == PlaceBid(d, lender, price, expiry, s, payer)
<1>1. x \in BidType /\ x.lender \in Accounts /\ x.payer \in Accounts /\ x.dealId \in DealIds
  BY DEF PlaceBid, BidType, BidStates
<1>2. NextBid \in BidIds /\ bidCount \in Nat /\ NextBid = bidCount + 1
  BY Ids DEF NextBid, TypeOK
<1>3. bidCount' \in Nat /\ bidCount' >= bidCount /\ NextBid <= bidCount' /\ NextBid > bidCount
  BY <1>2
<1> HIDE DEF x
<1>4. bids' \in [BidIds -> BidType] /\ \A e \in BidIds : BidOK(e)'
  BY <1>1, <1>2, <1>3, BidTypes DEF x
<1>5. bids[NextBid] = NoBid
  BY <1>2, <1>3 DEF TypeOK, BidOK
<1> QED BY <1>2, <1>3, <1>4, <1>5

LEMMA BidActionTypes ==
  ASSUME TypeOK, UNCHANGED sink, NEW d \in DealIds, NEW price \in Prices, NEW expiry \in Deadlines,
         NEW lender \in Accounts, NEW a \in Accounts, Bid(d, price, expiry, lender, a)
  PROVE  TypeOK' /\ NextBid \in BidIds /\ bids[NextBid] = NoBid
<1>1. price \in Nat /\ expiry \in Nat
  BY VaultAssumption DEF Deadlines, TypeOK
<1>2. /\ NextBid <= MaxBids /\ bidCount' = NextBid
      /\ BidBecomes(NextBid, PlaceBid(d, lender, price, expiry, "OPEN", a))
  BY DEF Bid, BidBecomes
<1>3. /\ NextBid \in BidIds /\ bids[NextBid] = NoBid
      /\ bidCount' \in Nat /\ bids' \in [BidIds -> BidType] /\ \A e \in BidIds : BidOK(e)'
  BY <1>1, <1>2, PlaceBidTypes
<1>4. CanPay(a, Vault, price) /\ Pay(a, Vault, price)
  BY DEF Bid
<1>5. usdg' \in [Wallets -> Nat]
  BY <1>1, <1>4, PayTypes, Names
<1>6. UNCHANGED <<now, reg, dealCount, deals, balanceUSDG, balanceERC20, owedNFT, openRaw,
                  erc20, posOwner, stopped>>
  BY DEF Bid
<1>7. \A e \in DealIds : DealOK(e)'
  BY <1>6 DEF TypeOK, DealOK
<1> QED BY <1>3, <1>5, <1>6, <1>7 DEF TypeOK

\* A bid that is there is withdrawn or accepted.
LEMMA BidEndTypes ==
  ASSUME TypeOK, NEW b \in BidIds, bids[b].state = "OPEN", NEW s \in {"WITHDRAWN", "ACCEPTED"},
         BidBecomes(b, [bids[b] EXCEPT !.state = s]), bidCount' = bidCount
  PROVE  bids' \in [BidIds -> BidType] /\ \A e \in BidIds : BidOK(e)'
<1> DEFINE x == [bids[b] EXCEPT !.state = s]
<1>1. bids[b].state # "NONE"
  OBVIOUS
<1>2. x \in BidType /\ x.lender = bids[b].lender /\ x.payer = bids[b].payer /\ x.dealId = bids[b].dealId
  BY <1>1, BidEntry DEF BidType, BidStates
<1>3. bidCount' \in Nat /\ bidCount' >= bidCount /\ b <= bidCount'
  BY <1>1, BidEntry
<1> HIDE DEF x
<1> QED BY <1>1, <1>2, <1>3, BidEntry, BidTypes DEF x

LEMMA WithdrawBidTypes ==
  ASSUME TypeOK, UNCHANGED sink, NEW b \in BidIds, NEW a \in Accounts, WithdrawBid(b, a)
  PROVE  TypeOK'
<1>1. bids[b].state = "OPEN" /\ a = bids[b].lender /\ bidCount' = bidCount
      /\ BidBecomes(b, [bids[b] EXCEPT !.state = "WITHDRAWN"])
  BY DEF WithdrawBid, BidBecomes
<1>2. bids' \in [BidIds -> BidType] /\ \A e \in BidIds : BidOK(e)'
  BY <1>1, BidEndTypes
<1>3. bids[b].price \in Nat /\ Credit(a, bids[b].price)
  BY <1>1, BidEntry DEF WithdrawBid
<1>4. balanceUSDG' \in [Wallets -> Nat]
  BY <1>3, CreditTypes, Names
<1>5. UNCHANGED <<now, reg, dealCount, deals, bidCount, balanceERC20, owedNFT, openRaw,
                  usdg, erc20, posOwner, stopped>>
  BY DEF WithdrawBid, assetVars
<1>6. \A e \in DealIds : DealOK(e)'
  BY <1>5 DEF TypeOK, DealOK
<1> QED BY <1>2, <1>4, <1>5, <1>6 DEF TypeOK

LEMMA AcceptTypes ==
  ASSUME TypeOK, UNCHANGED sink, NEW d \in DealIds, NEW b \in BidIds, NEW a \in Accounts, Accept(d, b, a)
  PROVE  TypeOK'
<1>1. bids[b].state = "OPEN" /\ bids[b].dealId = d /\ deals[d].state = "LISTED" /\ bidCount' = bidCount
      /\ BidBecomes(b, [bids[b] EXCEPT !.state = "ACCEPTED"])
  BY DEF Accept, BidBecomes
<1>2. bids' \in [BidIds -> BidType] /\ \A e \in BidIds : BidOK(e)'
  BY <1>1, BidEndTypes
<1>3. bids[b].price \in Nat /\ bids[b].lender \in Accounts
  BY <1>1, BidEntry
<1>4. Settle(d, bids[b].lender, bids[b].price)
      /\ UNCHANGED <<now, reg, dealCount, bidCount, balanceERC20, owedNFT, openRaw,
                     usdg, erc20, posOwner, stopped>>
  BY DEF Accept, assetVars
<1>5. /\ deals' \in [DealIds -> DealType] /\ \A e \in DealIds : DealOK(e)'
      /\ balanceUSDG' \in [Wallets -> Nat]
  BY <1>1, <1>3, <1>4, SettleTypes
<1> QED BY <1>2, <1>4, <1>5 DEF TypeOK

LEMMA FundTypes ==
  ASSUME TypeOK, UNCHANGED sink, NEW d \in DealIds, NEW lender \in Accounts, NEW a \in Accounts, Fund(d, lender, a)
  PROVE  TypeOK' /\ NextBid \in BidIds /\ bids[NextBid] = NoBid
<1> DEFINE price == deals[d].minPrice
<1>1. deals[d].state = "LISTED" /\ price \in Nat /\ now \in Nat
  BY DEF Fund, ListingOpen, TypeOK, DealType
<1>2. /\ NextBid <= MaxBids /\ bidCount' = NextBid
      /\ BidBecomes(NextBid, PlaceBid(d, lender, price, now, "ACCEPTED", a))
      /\ CanPay(a, Vault, price) /\ Pay(a, Vault, price) /\ Settle(d, lender, price)
  BY DEF Fund, BidBecomes
<1>3. UNCHANGED <<now, reg, dealCount, balanceERC20, owedNFT, openRaw, erc20, posOwner, stopped>>
  BY DEF Fund
<1> HIDE DEF price
<1>4. /\ NextBid \in BidIds /\ bids[NextBid] = NoBid
      /\ bidCount' \in Nat /\ bids' \in [BidIds -> BidType] /\ \A e \in BidIds : BidOK(e)'
  BY <1>1, <1>2, PlaceBidTypes
<1>5. /\ deals' \in [DealIds -> DealType] /\ \A e \in DealIds : DealOK(e)'
      /\ balanceUSDG' \in [Wallets -> Nat]
  BY <1>1, <1>2, <1>3, SettleTypes
<1>6. usdg' \in [Wallets -> Nat]
  BY <1>1, <1>2, PayTypes, Names
<1> QED BY <1>3, <1>4, <1>5, <1>6 DEF TypeOK

\* The records stand still in every other step.
LEMMA StillTypes ==
  ASSUME TypeOK, UNCHANGED dealVars
  PROVE  /\ dealCount' \in Nat /\ deals' \in [DealIds -> DealType] /\ \A d \in DealIds : DealOK(d)'
         /\ bidCount' \in Nat /\ bids' \in [BidIds -> BidType] /\ \A b \in BidIds : BidOK(b)'
BY DEF TypeOK, DealOK, BidOK, dealVars

LEMMA WithdrawUSDGTypes ==
  ASSUME TypeOK, UNCHANGED sink, NEW a \in Accounts \cup {FEE_SINK}, WithdrawUSDG(a)
  PROVE  TypeOK'
<1>1. balanceUSDG[a] \in Nat /\ a \in Wallets
  BY Names DEF TypeOK
<1>2. CanPay(Vault, a, balanceUSDG[a]) /\ Pay(Vault, a, balanceUSDG[a])
      /\ balanceUSDG' = [balanceUSDG EXCEPT ![a] = 0]
      /\ UNCHANGED <<now, reg, dealVars, balanceERC20, owedNFT, openRaw, erc20, posOwner, stopped>>
  BY DEF WithdrawUSDG
<1>3. usdg' \in [Wallets -> Nat]
  BY <1>1, <1>2, PayTypes, Names
<1>4. balanceUSDG' \in [Wallets -> Nat]
  BY <1>1, <1>2 DEF TypeOK
<1> QED BY <1>2, <1>3, <1>4, StillTypes DEF TypeOK

LEMMA WithdrawERC20Types ==
  ASSUME TypeOK, UNCHANGED sink, NEW a \in Accounts, NEW t \in Tokens, WithdrawERC20(a, t)
  PROVE  /\ TypeOK'
         /\ erc20'[Vault] = [erc20[Vault] EXCEPT ![t] = @ - balanceERC20[a][t]]
<1> DEFINE amount == balanceERC20[a][t]
<1>1. /\ erc20[Vault][t] >= amount
      /\ erc20' = [erc20 EXCEPT ![Vault][t] = @ - amount, ![a][t] = @ + amount]
      /\ balanceERC20' = [balanceERC20 EXCEPT ![a][t] = 0]
      /\ UNCHANGED <<now, reg, dealVars, balanceUSDG, owedNFT, openRaw, usdg, posOwner, stopped>>
  BY DEF WithdrawERC20
<1>2. amount \in Nat
  BY DEF TypeOK
<1> HIDE DEF amount
<1>3. DOMAIN erc20' = Accounts \cup {Vault} /\ erc20'[Vault] = [erc20[Vault] EXCEPT ![t] = @ - amount]
  BY <1>1, Names DEF TypeOK
<1>4. erc20'[Vault] \in [Tokens -> Nat]
  BY <1>1, <1>2, <1>3 DEF TypeOK
<1>5. balanceERC20' \in [Accounts -> [Tokens -> Nat]]
  BY <1>1 DEF TypeOK
<1> QED BY <1>1, <1>3, <1>4, <1>5, StillTypes DEF TypeOK, amount

LEMMA WithdrawPositionTypes ==
  ASSUME TypeOK, UNCHANGED sink, NEW a \in Accounts, NEW p \in Positions, NEW to \in Accounts,
         WithdrawPosition(a, p, to)
  PROVE  TypeOK'
<1>1. /\ owedNFT' = [owedNFT EXCEPT ![a] = @ \ {p}] /\ posOwner' = [posOwner EXCEPT ![p] = to]
      /\ UNCHANGED <<now, reg, dealVars, balanceUSDG, balanceERC20, openRaw, usdg, erc20, stopped>>
  BY DEF WithdrawPosition
<1>2. owedNFT' \in [Accounts -> SUBSET Positions] /\ posOwner' \in [Positions -> Accounts \cup {Vault}]
  BY <1>1 DEF TypeOK
<1> QED BY <1>1, <1>2, StillTypes DEF TypeOK

LEMMA OutsideTypes ==
  ASSUME TypeOK, UNCHANGED sink,
         \/ \E p \in Positions, to \in Accounts : TransferPosition(p, to)
         \/ \E a \in Accounts : Stop(a)
         \/ Tick
  PROVE  TypeOK'
<1>1. CASE \E p \in Positions, to \in Accounts : TransferPosition(p, to)
  <2>1. posOwner' \in [Positions -> Accounts \cup {Vault}]
        /\ UNCHANGED <<now, reg, vaultVars, usdg, erc20, stopped>>
    BY <1>1 DEF TransferPosition, TypeOK
  <2> QED BY <2>1, StillTypes DEF TypeOK, vaultVars
<1>2. CASE \E a \in Accounts : Stop(a)
  <2>1. stopped' \in SUBSET Accounts /\ UNCHANGED <<now, reg, vaultVars, assetVars>>
    BY <1>2 DEF Stop, TypeOK
  <2> QED BY <2>1, StillTypes DEF TypeOK, vaultVars, assetVars
<1>3. CASE Tick
  <2>1. now' \in Nat /\ UNCHANGED <<reg, vaultVars, assetVars, stopped>>
    BY <1>3 DEF Tick, TypeOK
  <2> QED BY <2>1, StillTypes DEF TypeOK, vaultVars, assetVars
<1> QED BY <1>1, <1>2, <1>3

\* Where the sink may sweep to.
LEMMA Destinations == TypeOK => Destination \in Treasuries \cup Buybacks
BY DEF TypeOK, SinkType, Destination

LEMMA SweepTypes == ASSUME TypeOK, Sweep PROVE TypeOK'
<1>1. usdg[FEE_SINK] \in Nat /\ FEE_SINK \in Wallets /\ Destination \in Wallets
  BY Names, Destinations DEF TypeOK
<1>2. CanPay(FEE_SINK, Destination, usdg[FEE_SINK]) /\ Pay(FEE_SINK, Destination, usdg[FEE_SINK])
      /\ UNCHANGED <<now, reg, vaultVars, erc20, posOwner, stopped, sink>>
  BY DEF Sweep
<1>3. usdg' \in [Wallets -> Nat]
  BY <1>1, <1>2, PayTypes
<1> QED BY <1>2, <1>3, StillTypes DEF TypeOK, vaultVars

LEMMA RouteTypes ==
  ASSUME TypeOK,
         \/ \E route \in {"TREASURY", "BUYBACK"} : SetRoute(route)
         \/ \E to \in Treasuries : SetTreasury(to)
         \/ \E to \in Buybacks : SetBuyback(to)
  PROVE  TypeOK' /\ UNCHANGED vars
<1>1. UNCHANGED vars
  BY DEF SetRoute, SetTreasury, SetBuyback
<1>2. sink' \in SinkType /\ (sink'.route = "BUYBACK" => sink'.buyback # NoAccount)
  <2>1. CASE \E route \in {"TREASURY", "BUYBACK"} : SetRoute(route)
    BY <2>1 DEF SetRoute, TypeOK, SinkType
  <2>2. CASE \E to \in Treasuries : SetTreasury(to)
    BY <2>2 DEF SetTreasury, TypeOK, SinkType
  <2>3. CASE \E to \in Buybacks : SetBuyback(to)
    BY <2>3, Names DEF SetBuyback, TypeOK, SinkType
  <2> QED BY <2>1, <2>2, <2>3
<1> QED BY <1>1, <1>2, StillTypes DEF TypeOK, vars, vaultVars, assetVars

LEMMA TypesInit == SinkInit => TypeOK
<1> SUFFICES ASSUME SinkInit PROVE TypeOK
  OBVIOUS
<1>1. NoDeal \in DealType
  BY DEF NoDeal, DealType, DealStates
<1>2. NoBid \in BidType
  BY DEF NoBid, BidType, BidStates
<1>3. deals = [d \in DealIds |-> NoDeal] /\ bids = [b \in BidIds |-> NoBid]
  BY DEF SinkInit, Init
<1>4. \A d \in DealIds : DealOK(d)
  BY <1>3 DEF DealOK, NoDeal, Funded
<1>5. \A b \in BidIds : BidOK(b)
  BY <1>3 DEF BidOK, NoBid
<1>6. reg \in RegType
  <2> DEFINE open == {[t \in Tokens |-> m] : m \in Caps}
  <2>1. open \subseteq [Tokens -> Caps]
    OBVIOUS
  <2>2. reg \in [paused : {FALSE}, feeBps : Fees, terms : {Terms}, open : open,
                allowed : {Tokens \cup Positions}, isRouter : {Routers}]
    BY DEF SinkInit, Init
  <2> HIDE DEF open
  <2> QED BY <2>1, <2>2 DEF RegType
<1>7. usdg \in [Wallets -> Nat]
  BY VaultAssumption DEF SinkInit, Init
<1>8. posOwner \in [Positions -> Accounts \cup {Vault}]
  BY VaultAssumption DEF SinkInit, Init
<1>9. DOMAIN erc20 = Accounts \cup {Vault} /\ erc20[Vault] \in [Tokens -> Nat]
  BY DEF SinkInit, Init
<1>10. sink \in SinkType /\ sink.route = "TREASURY"
  BY DEF SinkInit, SinkType
<1> QED BY <1>1, <1>2, <1>3, <1>4, <1>5, <1>6, <1>7, <1>8, <1>9, <1>10 DEF SinkInit, Init, TypeOK

(***************************************************************************)
(* The totals as sums over all records.                                    *)
(***************************************************************************)
Credits == SumFunctionOnSet(balanceUSDG, Wallets)
Escrowed == SumFunctionOnSet([b \in BidIds |-> OpenPrice(bids[b])], BidIds)
BidsCame(a) == SumFunctionOnSet([b \in BidIds |-> BidResult(bids[b], a)], BidIds)
DealsCame(a) == SumFunctionOnSet([d \in DealIds |-> DealResult(deals[d], a)], DealIds)
FeesCharged == SumFunctionOnSet([d \in DealIds |-> FeeCharged(deals[d])], DealIds)
Open(t) == SumFunctionOnSet([d \in DealIds |-> OpenAmount(deals[d], t)], DealIds)
Owed(t) == SumFunctionOnSet([a \in Accounts |-> balanceERC20[a][t]], Accounts)

SinkWallets == {FEE_SINK} \cup Treasuries \cup Buybacks
Swept == SumFunctionOnSet(usdg, SinkWallets)

Square ==
  /\ usdg[Vault] = Credits + Escrowed
  /\ \A a \in Accounts : usdg[a] + balanceUSDG[a] = Funds + BidsCame(a) + DealsCame(a)
FeesSquare == balanceUSDG[FEE_SINK] + Swept = FeesCharged
TokensSquare == \A t \in Tokens : openRaw[t] = Open(t) /\ erc20[Vault][t] = openRaw[t] + Owed(t)

LEMMA Totals ==
  /\ TypeOK => (EveryoneIsSquare <=> Square)
  /\ FeesAreAccounted <=> FeesSquare
  /\ TokensFollowOutcomes <=> TokensSquare
<1>1. ASSUME TypeOK PROVE SumFunction(balanceUSDG) = Credits
  BY <1>1 DEF SumFunction, Credits, TypeOK
<1>2. SumFunction([b \in BidIds |-> OpenPrice(bids[b])]) = Escrowed
  BY DEF SumFunction, Escrowed
<1>3. \A a : SumFunction([b \in BidIds |-> BidResult(bids[b], a)]) = BidsCame(a)
  BY DEF SumFunction, BidsCame
<1>4. \A a : SumFunction([d \in DealIds |-> DealResult(deals[d], a)]) = DealsCame(a)
  BY DEF SumFunction, DealsCame
<1>5. SumFunction([d \in DealIds |-> FeeCharged(deals[d])]) = FeesCharged
  BY DEF SumFunction, FeesCharged
<1>6. \A t : SumFunction([d \in DealIds |-> OpenAmount(deals[d], t)]) = Open(t)
  BY DEF SumFunction, Open
<1>7. \A t : SumFunction([a \in Accounts |-> balanceERC20[a][t]]) = Owed(t)
  BY DEF SumFunction, Owed
<1>8. TypeOK => (EveryoneIsSquare <=> Square)
  BY <1>1, <1>2, <1>3, <1>4 DEF EveryoneIsSquare, Square
<1>9. FeesAreAccounted <=> FeesSquare
  BY <1>5 DEF FeesAreAccounted, FeesSquare, Swept, SinkWallets
<1>10. TokensFollowOutcomes <=> TokensSquare
  BY <1>6, <1>7 DEF TokensFollowOutcomes, TokensSquare
<1> QED BY <1>8, <1>9, <1>10

\* One record's entries are numbers.
LEMMA BidInts == \A x \in BidType : OpenPrice(x) \in Nat /\ \A a : BidResult(x, a) \in Int
BY DEF BidType, OpenPrice, BidResult

LEMMA DealInts ==
  \A x \in DealType : FeeCharged(x) \in Nat /\ \A a : DealResult(x, a) \in Int
BY DEF DealType, FeeCharged, DealResult

LEMMA OpenInts ==
  \A x \in DealType : (x.state \in Live => x.c \in Held) => \A t : OpenAmount(x, t) \in Nat
BY HeldKinds DEF OpenAmount

LEMMA OpenNat == ASSUME TypeOK, NEW d \in DealIds, NEW t PROVE OpenAmount(deals[d], t) \in Nat
<1>1. deals[d].state \in Live => deals[d].c \in Held
  BY DEF TypeOK, DealOK, Live
<1> QED BY <1>1, OpenInts DEF TypeOK

LEMMA TotalInts ==
  TypeOK => /\ Credits \in Int /\ Escrowed \in Int /\ FeesCharged \in Int /\ Swept \in Int
            /\ \A a : BidsCame(a) \in Int /\ DealsCame(a) \in Int
            /\ \A t \in Tokens : Open(t) \in Int /\ Owed(t) \in Int
<1> SUFFICES ASSUME TypeOK
             PROVE  /\ Credits \in Int /\ Escrowed \in Int /\ FeesCharged \in Int /\ Swept \in Int
                    /\ \A a : BidsCame(a) \in Int /\ DealsCame(a) \in Int
                    /\ \A t \in Tokens : Open(t) \in Int /\ Owed(t) \in Int
  OBVIOUS
<1>1. bids \in [BidIds -> BidType] /\ deals \in [DealIds -> DealType]
  BY DEF TypeOK
<1>2. Credits \in Int
  <2>1. \A w \in Wallets : balanceUSDG[w] \in Int
    BY DEF TypeOK
  <2> QED BY <2>1, SumType, Finite DEF Credits
<1>3. Swept \in Int
  <2>1. SinkWallets \subseteq Wallets /\ \A w \in SinkWallets : usdg[w] \in Int
    BY Names DEF TypeOK, SinkWallets
  <2>2. IsFiniteSet(SinkWallets)
    BY <2>1, Finite, FS_Subset
  <2> QED BY <2>1, <2>2, SumType DEF Swept
<1>4. Escrowed \in Int
  <2> DEFINE f == [b \in BidIds |-> OpenPrice(bids[b])]
  <2>1. \A b \in BidIds : f[b] \in Int
    BY <1>1, BidInts
  <2> HIDE DEF f
  <2>2. SumFunctionOnSet(f, BidIds) \in Int
    BY <2>1, SumType, Finite
  <2> QED BY <2>2 DEF Escrowed, f
<1>5. FeesCharged \in Int
  <2> DEFINE f == [d \in DealIds |-> FeeCharged(deals[d])]
  <2>1. \A d \in DealIds : f[d] \in Int
    BY <1>1, DealInts
  <2> HIDE DEF f
  <2>2. SumFunctionOnSet(f, DealIds) \in Int
    BY <2>1, SumType, Finite
  <2> QED BY <2>2 DEF FeesCharged, f
<1>6. ASSUME NEW a PROVE BidsCame(a) \in Int /\ DealsCame(a) \in Int
  <2> DEFINE f == [b \in BidIds |-> BidResult(bids[b], a)]
             g == [d \in DealIds |-> DealResult(deals[d], a)]
  <2>1. (\A b \in BidIds : f[b] \in Int) /\ \A d \in DealIds : g[d] \in Int
    BY <1>1, BidInts, DealInts
  <2> HIDE DEF f, g
  <2>2. SumFunctionOnSet(f, BidIds) \in Int /\ SumFunctionOnSet(g, DealIds) \in Int
    BY <2>1, SumType, Finite
  <2> QED BY <2>2 DEF BidsCame, DealsCame, f, g
<1>7. ASSUME NEW t \in Tokens PROVE Open(t) \in Int /\ Owed(t) \in Int
  <2> DEFINE f == [d \in DealIds |-> OpenAmount(deals[d], t)]
             g == [a \in Accounts |-> balanceERC20[a][t]]
  <2>1. \A d \in DealIds : f[d] \in Int
    BY OpenNat
  <2>2. \A a \in Accounts : g[a] \in Int
    BY DEF TypeOK
  <2> HIDE DEF f, g
  <2>3. SumFunctionOnSet(f, DealIds) \in Int /\ SumFunctionOnSet(g, Accounts) \in Int
    BY <2>1, <2>2, SumType, Finite
  <2> QED BY <2>3 DEF Open, Owed, f, g
<1> QED BY <1>2, <1>3, <1>4, <1>5, <1>6, <1>7

(***************************************************************************)
(* A step that touches one deal and one bid.                               *)
(***************************************************************************)
Touches(d, b) ==
  /\ \A e \in DealIds \ {d} : deals'[e] = deals[e]
  /\ \A e \in BidIds \ {b} : bids'[e] = bids[e]

LEMMA RecordsMove ==
  ASSUME TypeOK, TypeOK', NEW d \in DealIds, NEW b \in BidIds, Touches(d, b)
  PROVE  /\ Escrowed' = Escrowed + OpenPrice(bids'[b]) - OpenPrice(bids[b])
         /\ FeesCharged' = FeesCharged + FeeCharged(deals'[d]) - FeeCharged(deals[d])
         /\ \A a : /\ BidsCame(a)' = BidsCame(a) + BidResult(bids'[b], a) - BidResult(bids[b], a)
                   /\ DealsCame(a)' = DealsCame(a) + DealResult(deals'[d], a) - DealResult(deals[d], a)
         /\ \A t : Open(t)' = Open(t) + OpenAmount(deals'[d], t) - OpenAmount(deals[d], t)
<1>1. /\ \A e \in BidIds : bids[e] \in BidType /\ bids'[e] \in BidType
      /\ \A e \in DealIds : deals[e] \in DealType /\ deals'[e] \in DealType
  BY DEF TypeOK
<1>2. Escrowed' = Escrowed + OpenPrice(bids'[b]) - OpenPrice(bids[b])
  <2> DEFINE f == [e \in BidIds |-> OpenPrice(bids[e])]
             g == [e \in BidIds |-> OpenPrice(bids'[e])]
  <2>1. /\ \A e \in BidIds : f[e] \in Int /\ g[e] \in Int
        /\ \A e \in BidIds \ {b} : g[e] = f[e]
        /\ f[b] = OpenPrice(bids[b]) /\ g[b] = OpenPrice(bids'[b])
    BY <1>1, BidInts DEF Touches
  <2>2. Escrowed = SumFunctionOnSet(f, BidIds) /\ Escrowed' = SumFunctionOnSet(g, BidIds)
    BY DEF Escrowed
  <2> HIDE DEF f, g
  <2>3. SumFunctionOnSet(g, BidIds) = SumFunctionOnSet(f, BidIds) + g[b] - f[b]
    BY <2>1, SumChange, Finite
  <2> QED BY <2>1, <2>2, <2>3
<1>3. FeesCharged' = FeesCharged + FeeCharged(deals'[d]) - FeeCharged(deals[d])
  <2> DEFINE f == [e \in DealIds |-> FeeCharged(deals[e])]
             g == [e \in DealIds |-> FeeCharged(deals'[e])]
  <2>1. /\ \A e \in DealIds : f[e] \in Int /\ g[e] \in Int
        /\ \A e \in DealIds \ {d} : g[e] = f[e]
        /\ f[d] = FeeCharged(deals[d]) /\ g[d] = FeeCharged(deals'[d])
    BY <1>1, DealInts DEF Touches
  <2>2. FeesCharged = SumFunctionOnSet(f, DealIds) /\ FeesCharged' = SumFunctionOnSet(g, DealIds)
    BY DEF FeesCharged
  <2> HIDE DEF f, g
  <2>3. SumFunctionOnSet(g, DealIds) = SumFunctionOnSet(f, DealIds) + g[d] - f[d]
    BY <2>1, SumChange, Finite
  <2> QED BY <2>1, <2>2, <2>3
<1>4. ASSUME NEW a PROVE BidsCame(a)' = BidsCame(a) + BidResult(bids'[b], a) - BidResult(bids[b], a)
  <2> DEFINE f == [e \in BidIds |-> BidResult(bids[e], a)]
             g == [e \in BidIds |-> BidResult(bids'[e], a)]
  <2>1. /\ \A e \in BidIds : f[e] \in Int /\ g[e] \in Int
        /\ \A e \in BidIds \ {b} : g[e] = f[e]
        /\ f[b] = BidResult(bids[b], a) /\ g[b] = BidResult(bids'[b], a)
    BY <1>1, BidInts DEF Touches
  <2>2. BidsCame(a) = SumFunctionOnSet(f, BidIds) /\ BidsCame(a)' = SumFunctionOnSet(g, BidIds)
    BY DEF BidsCame
  <2> HIDE DEF f, g
  <2>3. SumFunctionOnSet(g, BidIds) = SumFunctionOnSet(f, BidIds) + g[b] - f[b]
    BY <2>1, SumChange, Finite
  <2> QED BY <2>1, <2>2, <2>3
<1>5. ASSUME NEW a PROVE DealsCame(a)' = DealsCame(a) + DealResult(deals'[d], a) - DealResult(deals[d], a)
  <2> DEFINE f == [e \in DealIds |-> DealResult(deals[e], a)]
             g == [e \in DealIds |-> DealResult(deals'[e], a)]
  <2>1. /\ \A e \in DealIds : f[e] \in Int /\ g[e] \in Int
        /\ \A e \in DealIds \ {d} : g[e] = f[e]
        /\ f[d] = DealResult(deals[d], a) /\ g[d] = DealResult(deals'[d], a)
    BY <1>1, DealInts DEF Touches
  <2>2. DealsCame(a) = SumFunctionOnSet(f, DealIds) /\ DealsCame(a)' = SumFunctionOnSet(g, DealIds)
    BY DEF DealsCame
  <2> HIDE DEF f, g
  <2>3. SumFunctionOnSet(g, DealIds) = SumFunctionOnSet(f, DealIds) + g[d] - f[d]
    BY <2>1, SumChange, Finite
  <2> QED BY <2>1, <2>2, <2>3
<1>6. ASSUME NEW t PROVE Open(t)' = Open(t) + OpenAmount(deals'[d], t) - OpenAmount(deals[d], t)
  <2> DEFINE f == [e \in DealIds |-> OpenAmount(deals[e], t)]
             g == [e \in DealIds |-> OpenAmount(deals'[e], t)]
  <2>1. \A e \in DealIds : OpenAmount(deals'[e], t) \in Nat
    <3>1. \A e \in DealIds : deals'[e].state \in Live => deals'[e].c \in Held
      BY DEF TypeOK, DealOK, Live
    <3> QED BY <1>1, <3>1, OpenInts
  <2>2. /\ \A e \in DealIds : f[e] \in Int /\ g[e] \in Int
        /\ \A e \in DealIds \ {d} : g[e] = f[e]
        /\ f[d] = OpenAmount(deals[d], t) /\ g[d] = OpenAmount(deals'[d], t)
    BY <2>1, OpenNat DEF Touches
  <2>3. Open(t) = SumFunctionOnSet(f, DealIds) /\ Open(t)' = SumFunctionOnSet(g, DealIds)
    BY DEF Open
  <2> HIDE DEF f, g
  <2>4. SumFunctionOnSet(g, DealIds) = SumFunctionOnSet(f, DealIds) + g[d] - f[d]
    BY <2>2, SumChange, Finite
  <2> QED BY <2>2, <2>3, <2>4
<1> QED BY <1>2, <1>3, <1>4, <1>5, <1>6

(***************************************************************************)
(* Money.                                                                  *)
(***************************************************************************)
LEMMA MoneyKept ==
  ASSUME TypeOK, TypeOK', Square, FeesSquare, NEW d \in DealIds, NEW b \in BidIds, Touches(d, b),
         NEW c \in Int, Credits' = Credits + c,
         usdg'[Vault] = usdg[Vault] + c + OpenPrice(bids'[b]) - OpenPrice(bids[b]),
         \A a \in Accounts :
           usdg'[a] + balanceUSDG'[a] =
             usdg[a] + balanceUSDG[a] + (BidResult(bids'[b], a) - BidResult(bids[b], a))
                                      + (DealResult(deals'[d], a) - DealResult(deals[d], a)),
         balanceUSDG'[FEE_SINK] + Swept' =
           balanceUSDG[FEE_SINK] + Swept + (FeeCharged(deals'[d]) - FeeCharged(deals[d]))
  PROVE  Square' /\ FeesSquare'
<1>1. /\ OpenPrice(bids'[b]) \in Int /\ OpenPrice(bids[b]) \in Int
      /\ FeeCharged(deals'[d]) \in Int /\ FeeCharged(deals[d]) \in Int
      /\ \A a : /\ BidResult(bids'[b], a) \in Int /\ BidResult(bids[b], a) \in Int
                /\ DealResult(deals'[d], a) \in Int /\ DealResult(deals[d], a) \in Int
  BY BidInts, DealInts DEF TypeOK
<1>2. /\ Credits \in Int /\ Escrowed \in Int /\ FeesCharged \in Int
      /\ \A a : BidsCame(a) \in Int /\ DealsCame(a) \in Int
  BY TotalInts
<1>3. usdg'[Vault] = Credits' + Escrowed'
  <2>1. Escrowed' = Escrowed + OpenPrice(bids'[b]) - OpenPrice(bids[b])
    BY RecordsMove
  <2> QED BY <1>1, <1>2, <2>1 DEF Square
<1>4. ASSUME NEW a \in Accounts
      PROVE  usdg'[a] + balanceUSDG'[a] = Funds + BidsCame(a)' + DealsCame(a)'
  <2>1. /\ BidsCame(a)' = BidsCame(a) + BidResult(bids'[b], a) - BidResult(bids[b], a)
        /\ DealsCame(a)' = DealsCame(a) + DealResult(deals'[d], a) - DealResult(deals[d], a)
    BY RecordsMove
  <2>2. Funds \in Int /\ usdg[a] + balanceUSDG[a] = Funds + BidsCame(a) + DealsCame(a)
    BY VaultAssumption DEF Square
  <2> QED BY <1>1, <1>2, <2>1, <2>2
<1>5. balanceUSDG'[FEE_SINK] + Swept' = FeesCharged'
  <2>1. FeesCharged' = FeesCharged + FeeCharged(deals'[d]) - FeeCharged(deals[d])
    BY RecordsMove
  <2> QED BY <1>1, <1>2, <2>1 DEF FeesSquare
<1> QED BY <1>3, <1>4, <1>5 DEF Square, FeesSquare

\* What accounts pay each other and the vault is not swept.
LEMMA SweptSame ==
  ASSUME TypeOK, \A w \in SinkWallets : usdg'[w] = usdg[w]
  PROVE  Swept' = Swept
<1>1. IsFiniteSet(SinkWallets)
  BY Names, Finite, FS_Subset DEF SinkWallets
<1> QED BY <1>1, SumSame DEF Swept

LEMMA PayMoves ==
  ASSUME TypeOK, NEW from \in Accounts \cup {Vault}, NEW to \in Accounts \cup {Vault}, from # to,
         NEW amount \in Nat, Pay(from, to, amount)
  PROVE  /\ \A w \in Wallets : usdg'[w] = usdg[w] + (IF w = to THEN amount ELSE 0) - (IF w = from THEN amount ELSE 0)
         /\ Swept' = Swept
<1>1. from \in Wallets /\ to \in Wallets
  BY Names
<1>2. ASSUME NEW w \in Wallets
      PROVE  usdg'[w] = usdg[w] + (IF w = to THEN amount ELSE 0) - (IF w = from THEN amount ELSE 0)
  <2>1. usdg \in [Wallets -> Nat]
    BY DEF TypeOK
  <2>2. CASE w = to
    BY <1>1, <2>1, <2>2 DEF Pay
  <2>3. CASE w = from
    BY <1>1, <2>1, <2>3 DEF Pay
  <2>4. CASE w # to /\ w # from
    BY <1>1, <2>1, <2>4 DEF Pay
  <2> QED BY <2>2, <2>3, <2>4
<1>3. \A w \in SinkWallets : w \in Wallets /\ w # to /\ w # from /\ usdg[w] \in Nat
  BY Names DEF SinkWallets, TypeOK
<1> QED BY <1>2, <1>3, SweptSame

LEMMA CreditMoves ==
  ASSUME TypeOK, NEW a \in Accounts, NEW amount \in Nat, Credit(a, amount)
  PROVE  /\ \A w \in Wallets : balanceUSDG'[w] = balanceUSDG[w] + (IF w = a THEN amount ELSE 0)
         /\ Credits' = Credits + amount
<1> DEFINE f == balanceUSDG
           g == balanceUSDG'
<1>1. a \in Wallets /\ amount \in Int
  BY Names
<1>2. \A w \in Wallets : g[w] = f[w] + (IF w = a THEN amount ELSE 0)
  BY <1>1 DEF Credit, TypeOK
<1>3. \A w \in Wallets : f[w] \in Int
  BY DEF TypeOK
<1>4. Credits = SumFunctionOnSet(f, Wallets) /\ Credits' = SumFunctionOnSet(g, Wallets)
  BY DEF Credits
<1> HIDE DEF f, g
<1>5. SumFunctionOnSet(g, Wallets) = SumFunctionOnSet(f, Wallets) + amount
  <2>1. /\ \A w \in Wallets : f[w] \in Int /\ g[w] \in Int
        /\ \A w \in Wallets \ {a} : g[w] = f[w]
        /\ g[a] = f[a] + amount
    BY <1>1, <1>2, <1>3
  <2> QED BY <1>1, <2>1, SumMoved, Finite
<1> QED BY <1>2, <1>4, <1>5 DEF f, g

LEMMA SettleMoves ==
  ASSUME TypeOK, NEW d \in DealIds, NEW lender \in Accounts, NEW price \in Nat,
         deals[d].state = "LISTED", Settle(d, lender, price)
  PROVE  /\ Credits' = Credits + price
         /\ balanceUSDG'[FEE_SINK] = balanceUSDG[FEE_SINK] + deals'[d].fee
         /\ \A a \in Accounts : balanceUSDG'[a] =
              balanceUSDG[a] + (IF a = deals[d].borrower THEN price - deals'[d].fee ELSE 0)
         /\ \A e \in DealIds \ {d} : deals'[e] = deals[e]
         /\ deals'[d].state = "FUNDED" /\ deals'[d].borrower = deals[d].borrower /\ deals'[d].c = deals[d].c
         /\ deals'[d].lender = lender /\ deals'[d].price = price /\ deals'[d].fee \in Nat
<1> DEFINE fee == Fee(price)
           x == deals[d].borrower
           f == balanceUSDG
           g == balanceUSDG'
<1>1. fee \in Nat /\ fee <= price
  BY FeeBounds
<1>2. x \in Accounts /\ x \in Wallets /\ x # FEE_SINK /\ FEE_SINK \in Wallets
  BY DealEntry, Names
<1>3. /\ deals' = [deals EXCEPT ![d] =
           [@ EXCEPT !.state = "FUNDED", !.lender = lender, !.price = price, !.fee = fee,
                     !.fundedAt = now, !.expiry = now + deals[d].term]]
      /\ g = [f EXCEPT ![FEE_SINK] = @ + fee, ![x] = @ + price - fee]
  BY DEF Settle
<1>4. deals \in [DealIds -> DealType] /\ f \in [Wallets -> Nat]
  BY DEF TypeOK
<1> HIDE DEF fee, x
<1>5. /\ \A e \in DealIds \ {d} : deals'[e] = deals[e]
      /\ deals'[d].state = "FUNDED" /\ deals'[d].borrower = deals[d].borrower /\ deals'[d].c = deals[d].c
      /\ deals'[d].lender = lender /\ deals'[d].price = price /\ deals'[d].fee = fee
  BY <1>3, <1>4 DEF DealType
<1>6. /\ \A w \in Wallets \ {FEE_SINK, x} : g[w] = f[w]
      /\ g[FEE_SINK] = f[FEE_SINK] + fee
      /\ g[x] = f[x] + (price - fee)
  BY <1>1, <1>2, <1>3, <1>4
<1>7. Credits = SumFunctionOnSet(f, Wallets) /\ Credits' = SumFunctionOnSet(g, Wallets)
  BY DEF Credits
<1>8. Credits \in Int
  BY TotalInts
<1> HIDE DEF f, g
<1>9. \A w \in Wallets : f[w] \in Int /\ g[w] \in Int
  BY <1>1, <1>2, <1>4, <1>6
<1> DEFINE rest == price - fee
<1>10. fee \in Int /\ rest \in Int /\ g[x] = f[x] + rest
  BY <1>1, <1>6
<1> HIDE DEF rest
<1>11. SumFunctionOnSet(g, Wallets) = SumFunctionOnSet(f, Wallets) + fee + rest
  <2>1. \A w \in Wallets \ {FEE_SINK, x} : g[w] = f[w]
    BY <1>6
  <2>2. x # FEE_SINK /\ FEE_SINK # x /\ g[FEE_SINK] = f[FEE_SINK] + fee
    BY <1>2, <1>6
  <2>3. IsFiniteSet(Wallets) /\ x \in Wallets /\ FEE_SINK \in Wallets
    BY <1>2, Finite
  <2> DEFINE h == [w \in Wallets |-> IF w = FEE_SINK THEN f[w] + fee ELSE f[w]]
  <2>4. /\ \A w \in Wallets : h[w] \in Int
        /\ \A w \in Wallets \ {FEE_SINK} : h[w] = f[w]
        /\ h[FEE_SINK] = f[FEE_SINK] + fee
        /\ \A w \in Wallets \ {x} : g[w] = h[w]
        /\ g[x] = h[x] + rest
    BY <1>2, <1>9, <1>10, <2>1, <2>2
  <2> HIDE DEF h
  <2>5. SumFunctionOnSet(h, Wallets) = SumFunctionOnSet(f, Wallets) + fee
    BY <1>9, <1>10, <2>3, <2>4, SumMoved
  <2>6. SumFunctionOnSet(g, Wallets) = SumFunctionOnSet(h, Wallets) + rest
    BY <1>9, <1>10, <2>3, <2>4, SumMoved
  <2> QED BY <2>5, <2>6
<1>12. Credits' = Credits + price
  BY <1>1, <1>7, <1>8, <1>11 DEF rest
<1>13. \A a \in Accounts : g[a] = f[a] + (IF a = x THEN price - fee ELSE 0)
  BY <1>2, <1>6, <1>9, Names
<1> QED BY <1>1, <1>5, <1>6, <1>12, <1>13 DEF f, g, x

(***************************************************************************)
(* Tokens.                                                                 *)
(***************************************************************************)
LEMMA TokensKept ==
  ASSUME TypeOK, TypeOK', TokensSquare, NEW d \in DealIds, NEW b \in BidIds, Touches(d, b),
         \A t \in Tokens :
           /\ openRaw'[t] = openRaw[t] + (OpenAmount(deals'[d], t) - OpenAmount(deals[d], t))
           /\ Owed(t)' = Owed(t) + (erc20'[Vault][t] - openRaw'[t]) - (erc20[Vault][t] - openRaw[t])
  PROVE  TokensSquare'
<1>1. SUFFICES ASSUME NEW t \in Tokens
               PROVE  openRaw'[t] = Open(t)' /\ erc20'[Vault][t] = openRaw'[t] + Owed(t)'
  BY DEF TokensSquare
<1>2. Open(t)' = Open(t) + OpenAmount(deals'[d], t) - OpenAmount(deals[d], t)
  BY RecordsMove
<1>3. OpenAmount(deals[d], t) \in Int /\ OpenAmount(deals'[d], t) \in Int
  <2>1. deals'[d].state \in Live => deals'[d].c \in Held
    BY DEF TypeOK, DealOK, Live
  <2> QED BY <2>1, OpenNat, OpenInts DEF TypeOK
<1>4. /\ openRaw[t] \in Int /\ openRaw'[t] \in Int /\ erc20[Vault][t] \in Int /\ erc20'[Vault][t] \in Int
      /\ Open(t) \in Int /\ Owed(t) \in Int
  BY TotalInts DEF TypeOK
<1>5. openRaw[t] = Open(t) /\ erc20[Vault][t] = openRaw[t] + Owed(t)
  BY DEF TokensSquare
<1> QED BY <1>2, <1>3, <1>4, <1>5

LEMMA OwedSame == ASSUME balanceERC20' = balanceERC20 PROVE \A t \in Tokens : Owed(t)' = Owed(t)
BY DEF Owed

\* The collateral of a deal that ends is credited whole.
LEMMA CollateralCredited ==
  ASSUME TypeOK, NEW a \in Accounts, NEW c \in Held, CreditCollateral(c, a), NEW t \in Tokens
  PROVE  LET q == IF c.token = t THEN c.amount ELSE 0
         IN  q \in Nat /\ openRaw'[t] = openRaw[t] - q /\ Owed(t)' = Owed(t) + q
<1> DEFINE q == IF c.token = t THEN c.amount ELSE 0
           f == [z \in Accounts |-> balanceERC20[z][t]]
           g == [z \in Accounts |-> balanceERC20'[z][t]]
<1>1. q \in Nat /\ Owed(t) \in Int
  BY HeldKinds, TotalInts
<1>2. Owed(t) = SumFunctionOnSet(f, Accounts) /\ Owed(t)' = SumFunctionOnSet(g, Accounts)
  BY DEF Owed
<1>3. \A z \in Accounts : f[z] \in Int /\ balanceERC20[z] \in [Tokens -> Nat]
  BY DEF TypeOK
<1>4. CASE c.kind = "ERC20"
  <2>1. c.token \in Tokens /\ c.amount \in Nat
    BY <1>4, HeldKinds
  <2>2. /\ openRaw' = [openRaw EXCEPT ![c.token] = @ - c.amount]
        /\ balanceERC20' = [balanceERC20 EXCEPT ![a][c.token] = @ + c.amount]
    BY <1>4 DEF CreditCollateral
  <2>3. openRaw'[t] = openRaw[t] - q
    BY <2>1, <2>2 DEF TypeOK
  <2>4. /\ \A z \in Accounts \ {a} : g[z] = f[z]
        /\ g[a] = f[a] + q
    BY <1>3, <2>1, <2>2 DEF TypeOK
  <2> HIDE DEF f, g, q
  <2>5. \A z \in Accounts : g[z] \in Int
    BY <1>1, <1>3, <2>4
  <2>6. SumFunctionOnSet(g, Accounts) = SumFunctionOnSet(f, Accounts) + q
    BY <1>1, <1>3, <2>4, <2>5, SumMoved, Finite
  <2> QED BY <1>1, <1>2, <2>3, <2>6 DEF q
<1>5. CASE c.kind # "ERC20"
  <2>1. c.token # t /\ UNCHANGED <<openRaw, balanceERC20>>
    BY <1>5, HeldKinds DEF CreditCollateral
  <2>2. q = 0 /\ openRaw[t] \in Int /\ Owed(t)' = Owed(t)
    BY <2>1, OwedSame DEF TypeOK
  <2> QED BY <1>1, <2>1, <2>2
<1> QED BY <1>4, <1>5

(***************************************************************************)
(* One bid wins.                                                           *)
(***************************************************************************)
Won(d, b) == bids[b].dealId = d /\ bids[b].state = "ACCEPTED"

Wins ==
  \A d \in DealIds :
    /\ deals[d].state \in Funded =>
         \E b \in BidIds : Won(d, b) /\ bids[b].lender = deals[d].lender /\ bids[b].price = deals[d].price
    /\ \A b \in BidIds : Won(d, b) =>
         deals[d].state \in Funded /\ \A e \in BidIds : Won(d, e) => e = b

LEMMA WinsForm == OneBidWins <=> Wins
<1> DEFINE won(d) == {b \in BidIds : bids[b].dealId = d /\ bids[b].state = "ACCEPTED"}
<1>1. \A d \in DealIds : \A b : b \in won(d) <=> b \in BidIds /\ Won(d, b)
  BY DEF Won
<1>2. OneBidWins <=> \A d \in DealIds :
        IF deals[d].state \in Funded
        THEN \E b \in BidIds : won(d) = {b} /\ bids[b].lender = deals[d].lender /\ bids[b].price = deals[d].price
        ELSE won(d) = {}
  BY DEF OneBidWins
<1> HIDE DEF won
<1>3. ASSUME OneBidWins, NEW d \in DealIds
      PROVE  /\ deals[d].state \in Funded =>
                  \E b \in BidIds : Won(d, b) /\ bids[b].lender = deals[d].lender /\ bids[b].price = deals[d].price
             /\ \A b \in BidIds : Won(d, b) =>
                  deals[d].state \in Funded /\ \A e \in BidIds : Won(d, e) => e = b
  <2>1. CASE deals[d].state \in Funded
    <3>1. PICK b \in BidIds : won(d) = {b} /\ bids[b].lender = deals[d].lender /\ bids[b].price = deals[d].price
      BY <1>2, <1>3, <2>1
    <3> QED BY <1>1, <2>1, <3>1
  <2>2. CASE deals[d].state \notin Funded
    <3>1. won(d) = {}
      BY <1>2, <1>3, <2>2
    <3> QED BY <1>1, <2>2, <3>1
  <2> QED BY <2>1, <2>2
<1>4. ASSUME Wins PROVE OneBidWins
  <2>1. ASSUME NEW d \in DealIds, deals[d].state \in Funded
        PROVE  \E b \in BidIds : won(d) = {b} /\ bids[b].lender = deals[d].lender /\ bids[b].price = deals[d].price
    <3>1. PICK b \in BidIds : Won(d, b) /\ bids[b].lender = deals[d].lender /\ bids[b].price = deals[d].price
      BY <1>4, <2>1 DEF Wins
    <3>2. \A e \in BidIds : Won(d, e) => e = b
      BY <1>4, <3>1 DEF Wins
    <3>3. won(d) = {b}
      BY <1>1, <3>1, <3>2
    <3> QED BY <3>1, <3>3
  <2>2. ASSUME NEW d \in DealIds, deals[d].state \notin Funded
        PROVE  won(d) = {}
    <3>1. \A b \in BidIds : ~Won(d, b)
      BY <1>4, <2>2 DEF Wins
    <3> QED BY <1>1, <3>1
  <2> QED BY <1>2, <2>1, <2>2
<1> QED BY <1>3, <1>4 DEF Wins

\* No bid is accepted and no deal funded.
LEMMA WinsKept ==
  ASSUME Wins, NEW d \in DealIds, NEW b \in BidIds, Touches(d, b),
         deals'[d].state \in Funded <=> deals[d].state \in Funded,
         deals[d].state \in Funded => deals'[d].lender = deals[d].lender /\ deals'[d].price = deals[d].price,
         bids'[b] = bids[b] \/ (bids'[b].state # "ACCEPTED" /\ bids[b].state # "ACCEPTED")
  PROVE  Wins'
<1>1. \A e \in DealIds : /\ deals'[e].state \in Funded <=> deals[e].state \in Funded
                         /\ deals[e].state \in Funded =>
                              deals'[e].lender = deals[e].lender /\ deals'[e].price = deals[e].price
  BY DEF Touches
<1>2. \A e \in DealIds, z \in BidIds : (Won(e, z)' <=> Won(e, z)) /\ (Won(e, z) => bids'[z] = bids[z])
  BY DEF Touches, Won
<1> QED BY <1>1, <1>2 DEF Wins

\* A bid wins: its deal had none and is now funded by its lender at its price.
LEMMA WinsOnce ==
  ASSUME Wins, NEW d \in DealIds, NEW b \in BidIds, Touches(d, b),
         deals[d].state \notin Funded, deals'[d].state \in Funded,
         bids[b].state # "ACCEPTED", bids'[b].state = "ACCEPTED", bids'[b].dealId = d,
         bids'[b].lender = deals'[d].lender, bids'[b].price = deals'[d].price
  PROVE  Wins'
<1>1. \A z \in BidIds : Won(d, z)' <=> z = b
  BY DEF Wins, Won, Touches
<1>2. \A e \in DealIds \ {d}, z \in BidIds : (Won(e, z)' <=> Won(e, z)) /\ (Won(e, z) => bids'[z] = bids[z])
  BY DEF Won, Touches
<1>3. \A e \in DealIds \ {d} : deals'[e] = deals[e]
  BY DEF Touches
<1>4. ASSUME NEW e \in DealIds \ {d}
      PROVE  /\ deals'[e].state \in Funded =>
                  \E z \in BidIds : Won(e, z)' /\ bids'[z].lender = deals'[e].lender /\ bids'[z].price = deals'[e].price
             /\ \A z \in BidIds : Won(e, z)' =>
                  deals'[e].state \in Funded /\ \A y \in BidIds : Won(e, y)' => y = z
  BY <1>2, <1>3 DEF Wins
<1> QED BY <1>1, <1>4 DEF Wins

(***************************************************************************)
(* Custody of positions.                                                   *)
(***************************************************************************)
\* What custody reads of the deals over p is as before.
OverSame(p) ==
  \A e \in DealIds : /\ Over(e, p)' <=> Over(e, p)
                     /\ Over(e, p) => /\ e \in LiveDeals' <=> e \in LiveDeals
                                      /\ e \notin LiveDeals => Winner(e)' = Winner(e)

LEMMA CustodySame ==
  ASSUME NEW p, PositionFollows(p), OverSame(p), posOwner'[p] = posOwner[p],
         \A a \in Accounts : p \in owedNFT'[a] <=> p \in owedNFT[a]
  PROVE  PositionFollows(p)'
<1>1. \A e \in DealIds : LastOver(e, p)' <=> LastOver(e, p)
  BY DEF OverSame, LastOver
<1>2. LiveDeals \subseteq DealIds /\ LiveDeals' \subseteq DealIds
  BY DEF LiveDeals
<1>3. ASSUME NEW a \in Accounts, p \in owedNFT'[a]
      PROVE  \E e \in DealIds : LastOver(e, p)' /\ a = Winner(e)'
  <2>1. p \in owedNFT[a]
    BY <1>3
  <2>2. PICK e \in DealIds : LastOver(e, p) /\ a = Winner(e)
    BY <2>1 DEF PositionFollows
  <2>3. e \notin LiveDeals
    BY <2>1, <2>2 DEF PositionFollows, LastOver
  <2> QED BY <1>1, <2>2, <2>3 DEF OverSame, LastOver
<1> QED BY <1>1, <1>2, <1>3 DEF OverSame, PositionFollows

\* The deal that holds p ends, and the party it ended for is credited.
LEMMA CustodyEnds ==
  ASSUME NEW p, PositionFollows(p), NEW d \in DealIds, NEW a \in Accounts,
         d \in LiveDeals, Over(d, p), d \notin LiveDeals', Over(d, p)', Winner(d)' = a,
         \A e \in DealIds \ {d} : deals'[e] = deals[e],
         posOwner'[p] = posOwner[p], p \in owedNFT'[a],
         \A z \in Accounts \ {a} : owedNFT'[z] = owedNFT[z]
  PROVE  PositionFollows(p)'
<1>1. posOwner[p] = Vault /\ LastOver(d, p) /\ \A z \in Accounts : p \notin owedNFT[z]
  BY DEF PositionFollows
<1>2. \A e \in DealIds : Over(e, p)' <=> Over(e, p)
  BY DEF Over
<1>3. LastOver(d, p)'
  BY <1>1, <1>2 DEF LastOver
<1>4. \A e \in LiveDeals' : ~Over(e, p)'
  <2> SUFFICES ASSUME NEW e \in LiveDeals', Over(e, p)' PROVE FALSE
    OBVIOUS
  <2>1. e \in LiveDeals /\ e # d
    BY DEF LiveDeals
  <2>2. LastOver(e, p)
    BY <1>2, <2>1 DEF PositionFollows, LiveDeals
  <2>3. e = d
    BY <1>1, <2>2, Ids DEF LastOver, LiveDeals
  <2> QED BY <2>1, <2>3
<1>5. \A z \in Accounts : p \in owedNFT'[z] <=> z = a
  BY <1>1
<1> QED BY <1>1, <1>3, <1>4, <1>5 DEF PositionFollows

\* A new deal takes p from the account that held it.
LEMMA CustodyListed ==
  ASSUME NEW p, PositionFollows(p), NEW d \in DealIds,
         \A e \in DealIds \ {d} : deals'[e] = deals[e] /\ (deals[e].state # "NONE" => e < d),
         deals[d].state = "NONE", Over(d, p)', d \in LiveDeals',
         posOwner[p] # Vault, posOwner'[p] = Vault,
         \A a \in Accounts : owedNFT'[a] = owedNFT[a]
  PROVE  PositionFollows(p)'
<1>1. \A a \in Accounts : p \notin owedNFT[a]
  BY DEF PositionFollows
<1>2. \A e \in LiveDeals : ~Over(e, p)
  BY DEF PositionFollows
<1>3. \A e \in DealIds : Over(e, p)' => e <= d
  BY Ids DEF Over
<1>4. \A e \in LiveDeals' : Over(e, p)' => e = d
  BY <1>2 DEF LiveDeals, Over
<1>5. d \in Nat
  BY Ids
<1> QED BY <1>1, <1>3, <1>4 DEF PositionFollows, LastOver

\* An operation that moves no position and ends no deal.
LEMMA CustodyKept ==
  ASSUME Custody, NEW d \in DealIds, NEW b \in BidIds, Touches(d, b), UNCHANGED <<posOwner, owedNFT>>,
         deals'[d] = deals[d]
           \/ (deals'[d].c = deals[d].c /\ deals[d].state \in Live /\ deals'[d].state \in Live)
  PROVE  Custody'
<1> SUFFICES ASSUME NEW p \in Positions PROVE PositionFollows(p)'
  BY DEF Custody
<1>1. ASSUME NEW e \in DealIds
      PROVE  /\ Over(e, p)' <=> Over(e, p)
             /\ Over(e, p) => /\ e \in LiveDeals' <=> e \in LiveDeals
                              /\ e \notin LiveDeals => Winner(e)' = Winner(e)
  <2>1. CASE deals'[e] = deals[e]
    BY <2>1 DEF Over, LiveDeals, Winner
  <2>2. CASE deals'[e] # deals[e]
    <3>1. e = d /\ deals'[d].c = deals[d].c /\ deals[d].state \in Live /\ deals'[d].state \in Live
      BY <2>2 DEF Touches
    <3> QED BY <3>1 DEF Over, LiveDeals, Live
  <2> QED BY <2>1, <2>2
<1>2. OverSame(p)
  BY <1>1 DEF OverSame
<1> QED BY <1>2, CustodySame DEF Custody

(***************************************************************************)
(* The invariant with its sums and its winning bid spelled out.            *)
(***************************************************************************)
Kept == TypeOK /\ Wins /\ Square /\ FeesSquare /\ TokensSquare /\ Custody

LEMMA KeptForm == Inv <=> Kept
BY WinsForm, Totals DEF Inv, Kept

\* Nothing is paid and no result changes.
LEMMA MoneyStill ==
  ASSUME TypeOK, TypeOK', Square, FeesSquare, NEW d \in DealIds, NEW b \in BidIds, Touches(d, b),
         UNCHANGED <<usdg, balanceUSDG>>, bids'[b] = bids[b],
         FeeCharged(deals'[d]) = FeeCharged(deals[d]),
         \A a : DealResult(deals'[d], a) = DealResult(deals[d], a)
  PROVE  Square' /\ FeesSquare'
<1>1. 0 \in Int /\ Credits' = Credits /\ Credits \in Int /\ Swept' = Swept /\ Swept \in Int
  BY TotalInts DEF Credits, Swept
<1>2. /\ OpenPrice(bids[b]) \in Int /\ FeeCharged(deals[d]) \in Int
      /\ \A a : BidResult(bids[b], a) \in Int /\ DealResult(deals[d], a) \in Int
  BY BidInts, DealInts DEF TypeOK
<1>3. /\ \A w \in Wallets : usdg[w] \in Int /\ balanceUSDG[w] \in Int
      /\ Vault \in Wallets /\ FEE_SINK \in Wallets /\ Accounts \subseteq Wallets
  BY Names DEF TypeOK
<1>4. Credits' = Credits + 0 /\ usdg'[Vault] = usdg[Vault] + 0 + OpenPrice(bids'[b]) - OpenPrice(bids[b])
  BY <1>1, <1>2, <1>3
<1>5. \A a \in Accounts :
        usdg'[a] + balanceUSDG'[a] =
          usdg[a] + balanceUSDG[a] + (BidResult(bids'[b], a) - BidResult(bids[b], a))
                                   + (DealResult(deals'[d], a) - DealResult(deals[d], a))
  BY <1>2, <1>3
<1>6. balanceUSDG'[FEE_SINK] + Swept' =
        balanceUSDG[FEE_SINK] + Swept + (FeeCharged(deals'[d]) - FeeCharged(deals[d]))
  BY <1>1, <1>2, <1>3
<1> QED BY <1>1, <1>4, <1>5, <1>6, MoneyKept

\* No collateral token moves and no deal begins or ends.
LEMMA TokensStill ==
  ASSUME TypeOK, TypeOK', TokensSquare, NEW d \in DealIds, NEW b \in BidIds, Touches(d, b),
         UNCHANGED <<openRaw, erc20, balanceERC20>>,
         deals'[d] = deals[d]
           \/ (deals'[d].c = deals[d].c /\ deals[d].state \in Live /\ deals'[d].state \in Live)
  PROVE  TokensSquare'
<1>1. \A t : OpenAmount(deals'[d], t) = OpenAmount(deals[d], t)
  BY DEF OpenAmount
<1>2. ASSUME NEW t \in Tokens
      PROVE  /\ openRaw'[t] = openRaw[t] + (OpenAmount(deals'[d], t) - OpenAmount(deals[d], t))
             /\ Owed(t)' = Owed(t) + (erc20'[Vault][t] - openRaw'[t]) - (erc20[Vault][t] - openRaw[t])
  <2>1. /\ openRaw[t] \in Int /\ erc20[Vault][t] \in Int /\ Owed(t) \in Int /\ OpenAmount(deals[d], t) \in Int
        /\ Owed(t)' = Owed(t)
    BY TotalInts, OpenNat, OwedSame DEF TypeOK
  <2> QED BY <1>1, <2>1
<1> QED BY <1>2, TokensKept

\* A deal that ends: its collateral is credited to the party it ended for.
LEMMA CollateralEnds ==
  ASSUME TypeOK, TypeOK', TokensSquare, Custody, NEW d \in DealIds, NEW a \in Accounts,
         NEW s \in {"CANCELLED", "RECLAIMED", "CLAIMED"}, deals[d].state \in Live,
         deals'[d] = [deals[d] EXCEPT !.state = s], \A e \in DealIds \ {d} : deals'[e] = deals[e], bids' = bids,
         a = IF s = "CLAIMED" THEN deals[d].lender ELSE deals[d].borrower,
         CreditCollateral(deals[d].c, a), UNCHANGED <<erc20, posOwner>>
  PROVE  TokensSquare' /\ Custody'
<1> DEFINE c == deals[d].c
<1>1. deals[d].state # "NONE" /\ c \in Held /\ deals[d] \in DealType
  BY DealEntry DEF Live
<1>2. /\ deals'[d].c = c /\ deals'[d].state = s /\ deals'[d].lender = deals[d].lender
      /\ deals'[d].borrower = deals[d].borrower
  BY <1>1 DEF DealType
<1>3. s \notin Live /\ s # "NONE"
  BY DEF Live
<1>4. MaxBids \in BidIds /\ Touches(d, MaxBids)
  BY Ids DEF Touches
<1>5. TokensSquare'
  <2>1. ASSUME NEW t \in Tokens
        PROVE  /\ openRaw'[t] = openRaw[t] + (OpenAmount(deals'[d], t) - OpenAmount(deals[d], t))
               /\ Owed(t)' = Owed(t) + (erc20'[Vault][t] - openRaw'[t]) - (erc20[Vault][t] - openRaw[t])
    <3> DEFINE q == IF c.token = t THEN c.amount ELSE 0
    <3>1. q \in Nat /\ openRaw'[t] = openRaw[t] - q /\ Owed(t)' = Owed(t) + q
      BY <1>1, CollateralCredited
    <3>2. OpenAmount(deals'[d], t) = 0 /\ OpenAmount(deals[d], t) = q
      BY <1>2, <1>3 DEF OpenAmount
    <3>3. openRaw[t] \in Int /\ erc20[Vault][t] \in Int /\ Owed(t) \in Int /\ erc20' = erc20
      BY TotalInts DEF TypeOK
    <3> HIDE DEF q
    <3> QED BY <3>1, <3>2, <3>3
  <2> QED BY <1>4, <2>1, TokensKept
<1>6. ASSUME NEW p \in Positions PROVE PositionFollows(p)'
  <2>1. PositionFollows(p)
    BY DEF Custody
  <2>2. CASE c.token = p
    <3>1. owedNFT' = [owedNFT EXCEPT ![a] = @ \cup {p}] /\ posOwner' = posOwner
      BY <1>1, <2>2, HeldKinds DEF CreditCollateral
    <3>2. p \in owedNFT'[a] /\ \A z \in Accounts \ {a} : owedNFT'[z] = owedNFT[z]
      BY <3>1 DEF TypeOK
    <3>3. d \in LiveDeals /\ d \notin LiveDeals' /\ Over(d, p) /\ Over(d, p)' /\ Winner(d)' = a
      BY <1>1, <1>2, <1>3, <2>2 DEF LiveDeals, Over, Winner
    <3> QED BY <2>1, <3>1, <3>2, <3>3, CustodyEnds
  <2>3. CASE c.token # p
    <3>1. \A z \in Accounts : p \in owedNFT'[z] <=> p \in owedNFT[z]
      <4>1. CASE c.kind = "ERC20"
        BY <4>1 DEF CreditCollateral
      <4>2. CASE c.kind # "ERC20"
        <5>1. owedNFT' = [owedNFT EXCEPT ![a] = @ \cup {c.token}]
          BY <4>2 DEF CreditCollateral
        <5> QED BY <2>3, <5>1 DEF TypeOK
      <4> QED BY <4>1, <4>2
    <3>2. ASSUME NEW e \in DealIds
          PROVE  /\ Over(e, p)' <=> Over(e, p)
                 /\ Over(e, p) => /\ e \in LiveDeals' <=> e \in LiveDeals
                                  /\ e \notin LiveDeals => Winner(e)' = Winner(e)
      <4>1. CASE e = d
        BY <1>2, <2>3, <4>1 DEF Over
      <4>2. CASE e # d
        BY <4>2 DEF Over, LiveDeals, Winner
      <4> QED BY <4>1, <4>2
    <3>3. OverSame(p)
      BY <3>2 DEF OverSame
    <3>4. posOwner'[p] = posOwner[p]
      OBVIOUS
    <3> QED BY <2>1, <3>1, <3>3, <3>4, CustodySame
  <2> QED BY <2>2, <2>3
<1> QED BY <1>5, <1>6 DEF Custody

(***************************************************************************)
(* Each operation keeps it.                                                *)
(***************************************************************************)
\* A deal ends with no USDG moving: cancelled when listed, claimed when funded.
LEMMA EndUnpaid ==
  ASSUME Kept, TypeOK', NEW d \in DealIds, NEW a \in Accounts, NEW s \in {"CANCELLED", "CLAIMED"},
         deals[d].state = IF s = "CLAIMED" THEN "FUNDED" ELSE "LISTED",
         deals' = [deals EXCEPT ![d].state = s],
         a = IF s = "CLAIMED" THEN deals[d].lender ELSE deals[d].borrower,
         CreditCollateral(deals[d].c, a), UNCHANGED <<bids, balanceUSDG, usdg, erc20, posOwner>>
  PROVE  Kept'
<1>1. /\ deals'[d] = [deals[d] EXCEPT !.state = s] /\ \A e \in DealIds \ {d} : deals'[e] = deals[e]
      /\ deals[d] \in DealType
  BY DEF Kept, TypeOK
<1>2. /\ deals'[d].state = s /\ deals'[d].c = deals[d].c /\ deals'[d].lender = deals[d].lender
      /\ deals'[d].borrower = deals[d].borrower /\ deals'[d].cap = deals[d].cap
      /\ deals'[d].price = deals[d].price /\ deals'[d].fee = deals[d].fee
  BY <1>1 DEF DealType
<1>3. MaxBids \in BidIds /\ Touches(d, MaxBids) /\ bids'[MaxBids] = bids[MaxBids]
  BY <1>1, Ids DEF Touches
<1>4. deals[d].state \in Live
  BY DEF Live
<1>5. TokensSquare' /\ Custody'
  BY <1>1, <1>4, CollateralEnds DEF Kept
<1>6. deals'[d].state \in Funded <=> deals[d].state \in Funded
  BY <1>2 DEF Funded
<1>7. /\ FeeCharged(deals'[d]) = FeeCharged(deals[d])
      /\ \A z : DealResult(deals'[d], z) = DealResult(deals[d], z)
  BY <1>2, <1>6 DEF FeeCharged, DealResult
<1>8. Square' /\ FeesSquare'
  BY <1>3, <1>7, MoneyStill DEF Kept
<1>9. Wins'
  BY <1>2, <1>3, <1>6, WinsKept DEF Kept
<1> QED BY <1>5, <1>8, <1>9 DEF Kept

LEMMA CancelKept ==
  ASSUME Kept, UNCHANGED sink, NEW d \in DealIds, NEW a \in Accounts, Cancel(d, a)
  PROVE  Kept'
<1>1. TypeOK'
  BY CancelTypes DEF Kept
<1>2. /\ deals[d].state = "LISTED" /\ a = deals[d].borrower /\ deals' = [deals EXCEPT ![d].state = "CANCELLED"]
      /\ CreditCollateral(deals[d].c, a) /\ UNCHANGED <<bids, balanceUSDG, usdg, erc20, posOwner>>
  BY DEF Cancel, assetVars
<1> QED BY <1>1, <1>2, EndUnpaid

LEMMA ClaimKept ==
  ASSUME Kept, UNCHANGED sink, NEW d \in DealIds, NEW a \in Accounts, Claim(d, a)
  PROVE  Kept'
<1>1. TypeOK'
  BY ClaimTypes DEF Kept
<1>2. /\ deals[d].state = "FUNDED" /\ a = deals[d].lender /\ deals' = [deals EXCEPT ![d].state = "CLAIMED"]
      /\ CreditCollateral(deals[d].c, a) /\ UNCHANGED <<bids, balanceUSDG, usdg, erc20, posOwner>>
  BY DEF Claim, assetVars
<1> QED BY <1>1, <1>2, EndUnpaid

\* The borrower pays the cap in, the lender is credited it.
LEMMA ReclaimKept ==
  ASSUME Kept, UNCHANGED sink, NEW d \in DealIds, NEW a \in Accounts, Reclaim(d, a)
  PROVE  Kept'
<1> DEFINE cap == deals[d].cap
           lender == deals[d].lender
<1>1. TypeOK /\ TypeOK'
  BY ReclaimTypes DEF Kept
<1>2. /\ deals[d].state = "FUNDED" /\ a = deals[d].borrower /\ deals' = [deals EXCEPT ![d].state = "RECLAIMED"]
      /\ Credit(lender, cap) /\ Pay(a, Vault, cap)
      /\ CreditCollateral(deals[d].c, a) /\ UNCHANGED <<bids, erc20, posOwner>>
  BY DEF Reclaim
<1>3. deals[d].state \in Live /\ deals[d].state \in Funded
  BY <1>2 DEF Live, Funded
<1>4. cap \in Nat /\ lender \in Accounts /\ deals[d] \in DealType
  BY <1>1, <1>3, DealEntry DEF Live
<1>5. deals'[d] = [deals[d] EXCEPT !.state = "RECLAIMED"] /\ \A e \in DealIds \ {d} : deals'[e] = deals[e]
  BY <1>1, <1>2 DEF TypeOK
<1>6. /\ deals'[d].state = "RECLAIMED" /\ deals'[d].lender = lender /\ deals'[d].cap = cap
      /\ deals'[d].borrower = a /\ deals'[d].price = deals[d].price /\ deals'[d].fee = deals[d].fee
  BY <1>2, <1>4, <1>5 DEF DealType
<1>7. MaxBids \in BidIds /\ Touches(d, MaxBids) /\ bids'[MaxBids] = bids[MaxBids]
  BY <1>2, <1>5, Ids DEF Touches
<1>8. TokensSquare' /\ Custody'
  BY <1>1, <1>2, <1>3, <1>5, CollateralEnds DEF Kept
<1>9. deals'[d].state \in Funded
  BY <1>6 DEF Funded
<1>10. Wins'
  BY <1>3, <1>6, <1>7, <1>9, WinsKept DEF Kept
<1>11. FeeCharged(deals'[d]) = FeeCharged(deals[d])
  BY <1>3, <1>6, <1>9 DEF FeeCharged
<1>12. \A z : DealResult(deals'[d], z) - DealResult(deals[d], z) =
                (IF z = lender THEN cap ELSE 0) - (IF z = a THEN cap ELSE 0)
  <2>1. deals[d].price \in Nat /\ deals[d].fee \in Nat /\ deals[d].borrower = a
    BY <1>2, <1>4 DEF DealType
  <2> DEFINE net(z) == IF a = z THEN deals[d].price - deals[d].fee ELSE 0
  <2>2. \A z : net(z) \in Int
    BY <2>1
  <2>3. \A z : DealResult(deals[d], z) = net(z) + 0 - 0
    BY <1>2, <1>3, <2>1 DEF DealResult
  <2>4. \A z : DealResult(deals'[d], z) = net(z) + (IF lender = z THEN cap ELSE 0) - (IF a = z THEN cap ELSE 0)
    BY <1>6, <1>9 DEF DealResult
  <2> HIDE DEF net, cap, lender
  <2> QED BY <1>4, <2>2, <2>3, <2>4
<1>13. /\ \A w \in Wallets : usdg'[w] = usdg[w] + (IF w = Vault THEN cap ELSE 0) - (IF w = a THEN cap ELSE 0)
       /\ Swept' = Swept
  BY <1>1, <1>2, <1>4, Names, PayMoves
<1>14. /\ \A w \in Wallets : balanceUSDG'[w] = balanceUSDG[w] + (IF w = lender THEN cap ELSE 0)
       /\ Credits' = Credits + cap
  BY <1>1, <1>2, <1>4, CreditMoves
<1>15. /\ Vault \in Wallets /\ FEE_SINK \in Wallets /\ Vault # a /\ lender # FEE_SINK
       /\ \A z \in Accounts : z \in Wallets /\ z # Vault
       /\ \A w \in Wallets : usdg[w] \in Int /\ balanceUSDG[w] \in Int
  BY <1>1, <1>4, Names DEF TypeOK
<1>16. /\ OpenPrice(bids[MaxBids]) \in Int /\ \A z : BidResult(bids[MaxBids], z) \in Int
       /\ FeeCharged(deals[d]) \in Int /\ Swept \in Int
  BY <1>1, <1>7, BidInts, DealInts, TotalInts DEF TypeOK
<1> HIDE DEF cap, lender
<1>17. usdg'[Vault] = usdg[Vault] + cap + OpenPrice(bids'[MaxBids]) - OpenPrice(bids[MaxBids])
  BY <1>4, <1>7, <1>13, <1>15, <1>16
<1>18. ASSUME NEW z \in Accounts
       PROVE  usdg'[z] + balanceUSDG'[z] =
                usdg[z] + balanceUSDG[z] + (BidResult(bids'[MaxBids], z) - BidResult(bids[MaxBids], z))
                                         + (DealResult(deals'[d], z) - DealResult(deals[d], z))
  <2>1. usdg'[z] = usdg[z] - (IF z = a THEN cap ELSE 0)
    BY <1>4, <1>13, <1>15
  <2>2. balanceUSDG'[z] = balanceUSDG[z] + (IF z = lender THEN cap ELSE 0)
    BY <1>14, <1>15
  <2>3. BidResult(bids'[MaxBids], z) - BidResult(bids[MaxBids], z) = 0
    BY <1>7, <1>16
  <2> DEFINE came == BidResult(bids'[MaxBids], z) - BidResult(bids[MaxBids], z)
             won == DealResult(deals'[d], z) - DealResult(deals[d], z)
  <2>4. came = 0 /\ won = (IF z = lender THEN cap ELSE 0) - (IF z = a THEN cap ELSE 0)
    BY <1>12, <2>3
  <2> HIDE DEF came, won
  <2>5. usdg'[z] + balanceUSDG'[z] = usdg[z] + balanceUSDG[z] + came + won
    BY <1>4, <1>15, <2>1, <2>2, <2>4
  <2> QED BY <2>5 DEF came, won
<1>19. balanceUSDG'[FEE_SINK] + Swept' =
         balanceUSDG[FEE_SINK] + Swept + (FeeCharged(deals'[d]) - FeeCharged(deals[d]))
  BY <1>11, <1>13, <1>14, <1>15, <1>16
<1>20. Square' /\ FeesSquare'
  BY <1>1, <1>4, <1>7, <1>14, <1>17, <1>18, <1>19, MoneyKept DEF Kept
<1> QED BY <1>1, <1>8, <1>10, <1>20 DEF Kept

\* A number that no bid has had.
LEMMA NoBidResults == OpenPrice(NoBid) = 0 /\ \A z : BidResult(NoBid, z) = 0
BY DEF OpenPrice, BidResult, NoBid

\* A bid is paid into the vault.
LEMMA BidKept ==
  ASSUME Kept, UNCHANGED sink, NEW d \in DealIds, NEW price \in Prices, NEW expiry \in Deadlines,
         NEW lender \in Accounts, NEW a \in Accounts, Bid(d, price, expiry, lender, a)
  PROVE  Kept'
<1> DEFINE b == NextBid
<1>1. TypeOK /\ TypeOK' /\ b \in BidIds /\ bids[b] = NoBid
  BY BidActionTypes DEF Kept
<1>2. price \in Nat
  BY VaultAssumption
<1>3. /\ bids' = [bids EXCEPT ![b] = PlaceBid(d, lender, price, expiry, "OPEN", a)]
      /\ Pay(a, Vault, price)
      /\ UNCHANGED <<deals, balanceUSDG, balanceERC20, owedNFT, openRaw, erc20, posOwner>>
  BY DEF Bid
<1>4. /\ bids'[b] = PlaceBid(d, lender, price, expiry, "OPEN", a)
      /\ \A e \in BidIds \ {b} : bids'[e] = bids[e]
  BY <1>1, <1>3 DEF TypeOK
<1> HIDE DEF b
<1>5. MaxDeals \in DealIds /\ Touches(MaxDeals, b) /\ deals'[MaxDeals] = deals[MaxDeals]
  BY <1>3, <1>4, Ids DEF Touches
<1>6. TokensSquare' /\ Custody'
  BY <1>1, <1>3, <1>5, TokensStill, CustodyKept DEF Kept
<1>7. bids'[b].state # "ACCEPTED" /\ bids[b].state # "ACCEPTED"
  BY <1>1, <1>4 DEF PlaceBid, NoBid
<1>8. Wins'
  BY <1>1, <1>5, <1>7, WinsKept DEF Kept
<1>9. /\ OpenPrice(bids[b]) = 0 /\ OpenPrice(bids'[b]) = price
      /\ \A z : BidResult(bids[b], z) = 0 /\ BidResult(bids'[b], z) = 0 - (IF a = z THEN price ELSE 0)
  BY <1>1, <1>4, NoBidResults DEF OpenPrice, BidResult, PlaceBid
<1>10. /\ \A w \in Wallets : usdg'[w] = usdg[w] + (IF w = Vault THEN price ELSE 0) - (IF w = a THEN price ELSE 0)
       /\ Swept' = Swept
  BY <1>1, <1>2, <1>3, Names, PayMoves
<1>11. /\ Vault \in Wallets /\ FEE_SINK \in Wallets /\ Vault # a
       /\ \A z \in Accounts : z \in Wallets /\ z # Vault
       /\ \A w \in Wallets : usdg[w] \in Int /\ balanceUSDG[w] \in Int
       /\ 0 \in Int /\ Credits' = Credits /\ Credits \in Int /\ Swept \in Int
       /\ FeeCharged(deals[MaxDeals]) \in Int /\ \A z : DealResult(deals[MaxDeals], z) \in Int
  BY <1>1, <1>3, <1>5, Names, TotalInts, DealInts DEF TypeOK, Credits
<1>12. usdg'[Vault] = usdg[Vault] + 0 + OpenPrice(bids'[b]) - OpenPrice(bids[b]) /\ Credits' = Credits + 0
  BY <1>2, <1>9, <1>10, <1>11
<1>13. ASSUME NEW z \in Accounts
       PROVE  usdg'[z] + balanceUSDG'[z] =
                usdg[z] + balanceUSDG[z] + (BidResult(bids'[b], z) - BidResult(bids[b], z))
                                         + (DealResult(deals'[MaxDeals], z) - DealResult(deals[MaxDeals], z))
  <2>1. usdg'[z] = usdg[z] - (IF a = z THEN price ELSE 0)
    BY <1>2, <1>10, <1>11
  <2>2. DealResult(deals'[MaxDeals], z) - DealResult(deals[MaxDeals], z) = 0
    BY <1>5, <1>11
  <2>3. BidResult(bids'[b], z) - BidResult(bids[b], z) = 0 - (IF a = z THEN price ELSE 0)
    BY <1>2, <1>9
  <2> DEFINE came == BidResult(bids'[b], z) - BidResult(bids[b], z)
             won == DealResult(deals'[MaxDeals], z) - DealResult(deals[MaxDeals], z)
  <2>4. came = 0 - (IF a = z THEN price ELSE 0) /\ won = 0
    BY <2>2, <2>3
  <2> HIDE DEF came, won
  <2>5. usdg'[z] + balanceUSDG'[z] = usdg[z] + balanceUSDG[z] + came + won
    BY <1>2, <1>3, <1>11, <2>1, <2>4
  <2> QED BY <2>5 DEF came, won
<1>14. balanceUSDG'[FEE_SINK] + Swept' =
         balanceUSDG[FEE_SINK] + Swept + (FeeCharged(deals'[MaxDeals]) - FeeCharged(deals[MaxDeals]))
  BY <1>3, <1>5, <1>10, <1>11
<1>15. Square' /\ FeesSquare'
  BY <1>1, <1>5, <1>11, <1>12, <1>13, <1>14, MoneyKept DEF Kept
<1> QED BY <1>1, <1>6, <1>8, <1>15 DEF Kept

\* A bid that is withdrawn is credited to its lender.
LEMMA WithdrawBidKept ==
  ASSUME Kept, UNCHANGED sink, NEW b \in BidIds, NEW a \in Accounts, WithdrawBid(b, a)
  PROVE  Kept'
<1> DEFINE price == bids[b].price
<1>1. TypeOK /\ TypeOK'
  BY WithdrawBidTypes DEF Kept
<1>2. /\ bids[b].state = "OPEN" /\ a = bids[b].lender
      /\ bids' = [bids EXCEPT ![b].state = "WITHDRAWN"] /\ Credit(a, price)
      /\ UNCHANGED <<deals, usdg, balanceERC20, owedNFT, openRaw, erc20, posOwner>>
  BY DEF WithdrawBid, assetVars
<1>3. price \in Nat /\ bids[b] \in BidType
  BY <1>1, <1>2, BidEntry
<1>4. bids'[b] = [bids[b] EXCEPT !.state = "WITHDRAWN"] /\ \A e \in BidIds \ {b} : bids'[e] = bids[e]
  BY <1>1, <1>2 DEF TypeOK
<1>5. /\ bids'[b].state = "WITHDRAWN" /\ bids'[b].price = price /\ bids'[b].lender = a
      /\ bids'[b].payer = bids[b].payer
  BY <1>2, <1>3, <1>4 DEF BidType
<1>6. MaxDeals \in DealIds /\ Touches(MaxDeals, b) /\ deals'[MaxDeals] = deals[MaxDeals]
  BY <1>2, <1>4, Ids DEF Touches
<1>7. TokensSquare' /\ Custody'
  BY <1>1, <1>2, <1>6, TokensStill, CustodyKept DEF Kept
<1>8. bids'[b].state # "ACCEPTED" /\ bids[b].state # "ACCEPTED"
  BY <1>2, <1>5
<1>9. Wins'
  BY <1>6, <1>8, WinsKept DEF Kept
<1> DEFINE paid(z) == IF bids[b].payer = z THEN price ELSE 0
<1>10. /\ OpenPrice(bids[b]) = price /\ OpenPrice(bids'[b]) = 0
       /\ \A z : BidResult(bids[b], z) = 0 - paid(z)
       /\ \A z : BidResult(bids'[b], z) = (IF a = z THEN price ELSE 0) - paid(z)
  BY <1>2, <1>5 DEF OpenPrice, BidResult
<1>11. \A z : paid(z) \in Int
  BY <1>3
<1>12. /\ \A w \in Wallets : balanceUSDG'[w] = balanceUSDG[w] + (IF w = a THEN price ELSE 0)
       /\ Credits' = Credits + price
  BY <1>1, <1>2, <1>3, CreditMoves
<1>13. /\ Vault \in Wallets /\ FEE_SINK \in Wallets /\ FEE_SINK # a /\ \A z \in Accounts : z \in Wallets
       /\ \A w \in Wallets : usdg[w] \in Int /\ balanceUSDG[w] \in Int
       /\ Swept' = Swept /\ Swept \in Int
       /\ FeeCharged(deals[MaxDeals]) \in Int /\ \A z : DealResult(deals[MaxDeals], z) \in Int
  BY <1>1, <1>2, <1>6, Names, TotalInts, DealInts DEF TypeOK, Swept
<1> HIDE DEF price, paid
<1>14. usdg'[Vault] = usdg[Vault] + price + OpenPrice(bids'[b]) - OpenPrice(bids[b])
  BY <1>2, <1>3, <1>10, <1>13
<1>15. ASSUME NEW z \in Accounts
       PROVE  usdg'[z] + balanceUSDG'[z] =
                usdg[z] + balanceUSDG[z] + (BidResult(bids'[b], z) - BidResult(bids[b], z))
                                         + (DealResult(deals'[MaxDeals], z) - DealResult(deals[MaxDeals], z))
  <2> DEFINE came == BidResult(bids'[b], z) - BidResult(bids[b], z)
             won == DealResult(deals'[MaxDeals], z) - DealResult(deals[MaxDeals], z)
  <2>1. came = (IF z = a THEN price ELSE 0)
    BY <1>3, <1>10, <1>11
  <2>2. won = 0
    BY <1>6, <1>13
  <2> HIDE DEF came, won
  <2>3. usdg'[z] + balanceUSDG'[z] = usdg[z] + balanceUSDG[z] + came + won
    BY <1>2, <1>3, <1>12, <1>13, <2>1, <2>2
  <2> QED BY <2>3 DEF came, won
<1>16. balanceUSDG'[FEE_SINK] + Swept' =
         balanceUSDG[FEE_SINK] + Swept + (FeeCharged(deals'[MaxDeals]) - FeeCharged(deals[MaxDeals]))
  BY <1>6, <1>12, <1>13
<1>17. Square' /\ FeesSquare'
  BY <1>1, <1>3, <1>6, <1>12, <1>14, <1>15, <1>16, MoneyKept DEF Kept
<1> QED BY <1>1, <1>7, <1>9, <1>17 DEF Kept

\* What a settlement, with the bid it settles, does to the books.
LEMMA SettleKept ==
  ASSUME Kept, TypeOK', NEW d \in DealIds, NEW b \in BidIds, NEW lender \in Accounts, NEW price \in Nat,
         deals[d].state = "LISTED", Settle(d, lender, price),
         \A e \in BidIds \ {b} : bids'[e] = bids[e],
         bids[b].state # "ACCEPTED", bids'[b].state = "ACCEPTED", bids'[b].dealId = d,
         bids'[b].lender = lender, bids'[b].price = price,
         UNCHANGED <<balanceERC20, owedNFT, openRaw, erc20, posOwner>>,
         Swept' = Swept,
         usdg'[Vault] = usdg[Vault] + price + OpenPrice(bids'[b]) - OpenPrice(bids[b]),
         \A z \in Accounts : usdg'[z] = usdg[z] + (BidResult(bids'[b], z) - BidResult(bids[b], z))
  PROVE  Kept'
<1> DEFINE fee == deals'[d].fee
           x == deals[d].borrower
<1>1. /\ Credits' = Credits + price
      /\ balanceUSDG'[FEE_SINK] = balanceUSDG[FEE_SINK] + fee
      /\ \A z \in Accounts : balanceUSDG'[z] = balanceUSDG[z] + (IF z = x THEN price - fee ELSE 0)
      /\ \A e \in DealIds \ {d} : deals'[e] = deals[e]
      /\ deals'[d].state = "FUNDED" /\ deals'[d].borrower = x /\ deals'[d].c = deals[d].c
      /\ deals'[d].lender = lender /\ deals'[d].price = price /\ fee \in Nat
  BY SettleMoves DEF Kept
<1>2. Touches(d, b) /\ deals[d].state \in Live /\ deals'[d].state \in Live
  BY <1>1 DEF Touches, Live
<1>3. TokensSquare' /\ Custody'
  BY <1>1, <1>2, TokensStill, CustodyKept DEF Kept
<1>4. deals[d].state \notin Funded /\ deals'[d].state \in Funded
  BY <1>1 DEF Funded
<1>5. Wins'
  BY <1>1, <1>2, <1>4, WinsOnce DEF Kept
<1>6. /\ FeeCharged(deals[d]) = 0 /\ FeeCharged(deals'[d]) = fee
      /\ \A z : DealResult(deals[d], z) = 0
      /\ \A z : DealResult(deals'[d], z) = (IF x = z THEN price - fee ELSE 0) + 0 - 0
  BY <1>1, <1>4 DEF FeeCharged, DealResult
<1>7. /\ FEE_SINK \in Wallets /\ \A z \in Accounts : z \in Wallets
      /\ \A w \in Wallets : usdg[w] \in Int /\ balanceUSDG[w] \in Int
      /\ Swept \in Int
      /\ \A z : BidResult(bids[b], z) \in Int /\ BidResult(bids'[b], z) \in Int
  BY Names, TotalInts, BidInts DEF TypeOK, Kept
<1> HIDE DEF fee, x
<1>8. ASSUME NEW z \in Accounts
      PROVE  usdg'[z] + balanceUSDG'[z] =
               usdg[z] + balanceUSDG[z] + (BidResult(bids'[b], z) - BidResult(bids[b], z))
                                        + (DealResult(deals'[d], z) - DealResult(deals[d], z))
  <2> DEFINE came == BidResult(bids'[b], z) - BidResult(bids[b], z)
             won == DealResult(deals'[d], z) - DealResult(deals[d], z)
  <2>1. came \in Int /\ usdg'[z] = usdg[z] + came
    BY <1>7
  <2>2. won = IF z = x THEN price - fee ELSE 0
    BY <1>1, <1>6
  <2> HIDE DEF came, won
  <2>3. balanceUSDG'[z] = balanceUSDG[z] + won /\ won \in Int
    BY <1>1, <2>2
  <2>4. usdg'[z] + balanceUSDG'[z] = usdg[z] + balanceUSDG[z] + came + won
    BY <1>7, <2>1, <2>3
  <2> QED BY <2>4 DEF came, won
<1>9. balanceUSDG'[FEE_SINK] + Swept' =
        balanceUSDG[FEE_SINK] + Swept + (FeeCharged(deals'[d]) - FeeCharged(deals[d]))
  BY <1>1, <1>6, <1>7
<1>10. Square' /\ FeesSquare'
  BY <1>1, <1>2, <1>8, <1>9, MoneyKept DEF Kept
<1> QED BY <1>3, <1>5, <1>10 DEF Kept

LEMMA AcceptKept ==
  ASSUME Kept, UNCHANGED sink, NEW d \in DealIds, NEW b \in BidIds, NEW a \in Accounts, Accept(d, b, a)
  PROVE  Kept'
<1> DEFINE price == bids[b].price
           lender == bids[b].lender
<1>1. TypeOK /\ TypeOK'
  BY AcceptTypes DEF Kept
<1>2. /\ deals[d].state = "LISTED" /\ bids[b].dealId = d /\ bids[b].state = "OPEN"
      /\ bids' = [bids EXCEPT ![b].state = "ACCEPTED"] /\ Settle(d, lender, price)
      /\ UNCHANGED <<balanceERC20, owedNFT, openRaw, usdg, erc20, posOwner>>
  BY DEF Accept, assetVars
<1>3. price \in Nat /\ lender \in Accounts /\ bids[b] \in BidType
  BY <1>1, <1>2, BidEntry
<1>4. bids'[b] = [bids[b] EXCEPT !.state = "ACCEPTED"] /\ \A e \in BidIds \ {b} : bids'[e] = bids[e]
  BY <1>1, <1>2 DEF TypeOK
<1>5. /\ bids'[b].state = "ACCEPTED" /\ bids'[b].dealId = d /\ bids'[b].price = price
      /\ bids'[b].lender = lender /\ bids'[b].payer = bids[b].payer
  BY <1>2, <1>3, <1>4 DEF BidType
<1>6. /\ OpenPrice(bids[b]) = price /\ OpenPrice(bids'[b]) = 0
      /\ \A z : BidResult(bids'[b], z) = BidResult(bids[b], z)
  BY <1>2, <1>5 DEF OpenPrice, BidResult
<1>7. /\ Vault \in Wallets /\ \A z \in Accounts : z \in Wallets
      /\ \A w \in Wallets : usdg[w] \in Int
      /\ Swept' = Swept /\ \A z : BidResult(bids[b], z) \in Int
  BY <1>1, <1>2, <1>3, Names, BidInts DEF TypeOK, Swept
<1> HIDE DEF price, lender
<1>8. usdg'[Vault] = usdg[Vault] + price + OpenPrice(bids'[b]) - OpenPrice(bids[b])
  BY <1>2, <1>3, <1>6, <1>7
<1>9. \A z \in Accounts : usdg'[z] = usdg[z] + (BidResult(bids'[b], z) - BidResult(bids[b], z))
  BY <1>2, <1>6, <1>7
<1>10. bids[b].state # "ACCEPTED"
  BY <1>2
<1>11. UNCHANGED <<balanceERC20, owedNFT, openRaw, erc20, posOwner>>
  BY <1>2
<1> QED BY <1>1, <1>2, <1>3, <1>4, <1>5, <1>7, <1>8, <1>9, <1>10, <1>11, SettleKept

\* A lender pays the asking price in and wins at once.
LEMMA FundKept ==
  ASSUME Kept, UNCHANGED sink, NEW d \in DealIds, NEW lender \in Accounts, NEW a \in Accounts, Fund(d, lender, a)
  PROVE  Kept'
<1> DEFINE price == deals[d].minPrice
           b == NextBid
<1>1. TypeOK /\ TypeOK' /\ b \in BidIds /\ bids[b] = NoBid
  BY FundTypes DEF Kept
<1>2. deals[d].state = "LISTED" /\ price \in Nat
  BY <1>1 DEF Fund, ListingOpen, TypeOK, DealType
<1>3. /\ bids' = [bids EXCEPT ![b] = PlaceBid(d, lender, price, now, "ACCEPTED", a)]
      /\ Pay(a, Vault, price) /\ Settle(d, lender, price)
      /\ UNCHANGED <<balanceERC20, owedNFT, openRaw, erc20, posOwner>>
  BY DEF Fund
<1>4. /\ bids'[b] = PlaceBid(d, lender, price, now, "ACCEPTED", a)
      /\ \A e \in BidIds \ {b} : bids'[e] = bids[e]
  BY <1>1, <1>3 DEF TypeOK
<1>5. /\ bids'[b].state = "ACCEPTED" /\ bids'[b].dealId = d /\ bids'[b].price = price /\ bids'[b].lender = lender
      /\ bids[b].state # "ACCEPTED"
  BY <1>1, <1>4 DEF PlaceBid, NoBid
<1>6. /\ OpenPrice(bids[b]) = 0 /\ OpenPrice(bids'[b]) = 0
      /\ \A z : BidResult(bids[b], z) = 0 /\ BidResult(bids'[b], z) = 0 - (IF a = z THEN price ELSE 0)
  BY <1>1, <1>4, NoBidResults DEF OpenPrice, BidResult, PlaceBid
<1>7. /\ \A w \in Wallets : usdg'[w] = usdg[w] + (IF w = Vault THEN price ELSE 0) - (IF w = a THEN price ELSE 0)
      /\ Swept' = Swept
  BY <1>1, <1>2, <1>3, Names, PayMoves
<1>8. /\ Vault \in Wallets /\ Vault # a /\ \A z \in Accounts : z \in Wallets /\ z # Vault
      /\ \A w \in Wallets : usdg[w] \in Int
  BY <1>1, Names DEF TypeOK
<1> HIDE DEF price, b
<1>9. usdg'[Vault] = usdg[Vault] + price + OpenPrice(bids'[b]) - OpenPrice(bids[b])
  BY <1>2, <1>6, <1>7, <1>8
<1>10. ASSUME NEW z \in Accounts PROVE usdg'[z] = usdg[z] + (BidResult(bids'[b], z) - BidResult(bids[b], z))
  <2> DEFINE paid == IF a = z THEN price ELSE 0
  <2>1. usdg'[z] = usdg[z] - paid
    BY <1>2, <1>7, <1>8
  <2>2. BidResult(bids'[b], z) = 0 - paid /\ BidResult(bids[b], z) = 0 /\ paid \in Int
    BY <1>2, <1>6
  <2> HIDE DEF paid
  <2> QED BY <1>8, <2>1, <2>2
<1> QED BY <1>1, <1>2, <1>3, <1>4, <1>5, <1>7, <1>9, <1>10, SettleKept

\* The collateral of a new deal is taken whole.
LEMMA CollateralPulled ==
  ASSUME TypeOK, NEW a \in Accounts, NEW c \in Held, PullCollateral(a, c), NEW t \in Tokens
  PROVE  LET q == IF c.token = t THEN c.amount ELSE 0
         IN  q \in Nat /\ openRaw'[t] = openRaw[t] + q /\ erc20'[Vault][t] = erc20[Vault][t] + q
<1> DEFINE q == IF c.token = t THEN c.amount ELSE 0
<1>1. c.amount \in Nat /\ q \in Nat /\ a # Vault
  BY HeldKinds, Names
<1>2. CASE c.kind = "ERC20"
  <2>1. erc20'[Vault] = [erc20[Vault] EXCEPT ![c.token] = @ + c.amount]
    BY <1>1, <1>2 DEF PullCollateral, TypeOK
  <2>2. c.token \in Tokens /\ openRaw' = [openRaw EXCEPT ![c.token] = @ + c.amount]
    BY <1>2, HeldKinds DEF PullCollateral
  <2> QED BY <1>1, <2>1, <2>2 DEF TypeOK
<1>3. CASE c.kind # "ERC20"
  <2>1. c.token # t /\ UNCHANGED <<openRaw, erc20>>
    BY <1>3, HeldKinds DEF PullCollateral
  <2>2. q = 0 /\ openRaw[t] \in Int /\ erc20[Vault][t] \in Int
    BY <2>1 DEF TypeOK
  <2> QED BY <2>1, <2>2
<1> QED BY <1>2, <1>3

LEMMA OpenDealKept ==
  ASSUME Kept, TypeOK', NEW from \in Accounts, NEW borrower \in Accounts, NEW c \in Held,
         NEW ask, NEW term, NEW expiry,
         PullCollateral(from, c), OpenDeal(borrower, c, ask, term, expiry)
  PROVE  Kept'
<1>0. PICK n \in DealIds : n = dealCount + 1 /\ n = NextDeal
  BY Ids DEF Kept, TypeOK, OpenDeal, NextDeal
<1>1. TypeOK /\ n \in DealIds /\ n = dealCount + 1 /\ dealCount \in Nat
  BY <1>0 DEF Kept, TypeOK
<1>2. /\ deals' = [deals EXCEPT ![n] =
           [NoDeal EXCEPT !.borrower = borrower, !.state = "LISTED", !.c = c, !.term = term,
                          !.listingExpiry = expiry, !.cap = ask.cap, !.minPrice = ask.minPrice]]
      /\ UNCHANGED <<bids, balanceUSDG, balanceERC20, owedNFT, usdg>>
  BY <1>0 DEF OpenDeal
<1>3. /\ \A e \in DealIds \ {n} : deals'[e] = deals[e]
      /\ deals'[n].state = "LISTED" /\ deals'[n].c = c
  BY <1>1, <1>2 DEF TypeOK, NoDeal
<1>4. deals[n].state = "NONE" /\ \A e \in DealIds \ {n} : deals[e].state # "NONE" => e < n
  <2>1. \A e \in DealIds : e \in Nat /\ (e > dealCount => deals[e].state = "NONE")
    BY <1>1, Ids DEF TypeOK, DealOK
  <2>2. n > dealCount /\ \A e \in DealIds \ {n} : e <= dealCount => e < n
    BY <1>1, <2>1
  <2> QED BY <1>1, <2>1, <2>2
<1>5. MaxBids \in BidIds /\ Touches(n, MaxBids) /\ bids'[MaxBids] = bids[MaxBids]
  BY <1>2, <1>3, Ids DEF Touches
<1>6. /\ deals[n].state \notin Funded /\ deals'[n].state \notin Funded
      /\ deals[n].state \notin Live /\ deals'[n].state \in Live /\ deals'[n].state # "NONE"
  BY <1>3, <1>4 DEF Funded, Live
<1>7. Wins'
  BY <1>1, <1>5, <1>6, WinsKept DEF Kept
<1>8. /\ FeeCharged(deals'[n]) = FeeCharged(deals[n])
      /\ \A z : DealResult(deals'[n], z) = DealResult(deals[n], z)
  BY <1>3, <1>4, <1>6 DEF FeeCharged, DealResult
<1>9. Square' /\ FeesSquare'
  BY <1>1, <1>2, <1>5, <1>8, MoneyStill DEF Kept
<1>10. TokensSquare'
  <2>1. ASSUME NEW t \in Tokens
        PROVE  /\ openRaw'[t] = openRaw[t] + (OpenAmount(deals'[n], t) - OpenAmount(deals[n], t))
               /\ Owed(t)' = Owed(t) + (erc20'[Vault][t] - openRaw'[t]) - (erc20[Vault][t] - openRaw[t])
    <3> DEFINE q == IF c.token = t THEN c.amount ELSE 0
    <3>1. q \in Nat /\ openRaw'[t] = openRaw[t] + q /\ erc20'[Vault][t] = erc20[Vault][t] + q
      BY <1>1, CollateralPulled
    <3>2. OpenAmount(deals'[n], t) = q /\ OpenAmount(deals[n], t) = 0
      BY <1>3, <1>6 DEF OpenAmount
    <3>3. openRaw[t] \in Int /\ erc20[Vault][t] \in Int /\ Owed(t) \in Int /\ Owed(t)' = Owed(t)
      BY <1>1, <1>2, TotalInts, OwedSame DEF TypeOK
    <3> HIDE DEF q
    <3> QED BY <3>1, <3>2, <3>3
  <2> QED BY <1>1, <1>5, <2>1, TokensKept DEF Kept
<1>11. ASSUME NEW p \in Positions PROVE PositionFollows(p)'
  <2>1. PositionFollows(p)
    BY DEF Kept, Custody
  <2>2. CASE c.token = p
    <3>1. posOwner[p] = from /\ posOwner' = [posOwner EXCEPT ![p] = Vault]
      BY <2>2, HeldKinds DEF PullCollateral
    <3>2. posOwner[p] # Vault /\ posOwner'[p] = Vault
      BY <1>1, <3>1, Names DEF TypeOK
    <3>3. Over(n, p)' /\ n \in LiveDeals'
      BY <1>1, <1>3, <1>6, <2>2 DEF Over, LiveDeals
    <3> QED BY <1>1, <1>2, <1>3, <1>4, <2>1, <3>2, <3>3, CustodyListed
  <2>3. CASE c.token # p
    <3>1. posOwner'[p] = posOwner[p]
      BY <1>1, <2>3 DEF PullCollateral, TypeOK
    <3>2. ASSUME NEW e \in DealIds
          PROVE  /\ Over(e, p)' <=> Over(e, p)
                 /\ Over(e, p) => /\ e \in LiveDeals' <=> e \in LiveDeals
                                  /\ e \notin LiveDeals => Winner(e)' = Winner(e)
      <4>1. CASE e = n
        BY <1>3, <1>4, <2>3, <4>1 DEF Over
      <4>2. CASE e # n
        BY <1>3, <4>2 DEF Over, LiveDeals, Winner
      <4> QED BY <4>1, <4>2
    <3>3. OverSame(p)
      BY <3>2 DEF OverSame
    <3> QED BY <1>2, <2>1, <3>1, <3>3, CustodySame
  <2> QED BY <2>2, <2>3
<1> QED BY <1>7, <1>9, <1>10, <1>11 DEF Kept, Custody

LEMMA ListKept ==
  ASSUME Kept, UNCHANGED sink, NEW from \in Accounts, NEW borrower \in Listers,
         NEW c \in Collateral, NEW ask \in Asks, NEW term \in Terms, NEW expiry \in Deadlines,
         \/ from = borrower /\ List(from, c, ask, term, expiry)
         \/ ListPositionFor(from, c, ask, term, borrower)
  PROVE  Kept'
<1>1. TypeOK
  BY DEF Kept
<1>2. PICK x \in Nat : /\ PullCollateral(from, c) /\ OpenDeal(borrower, c, ask, term, x)
                       /\ c \in Held /\ borrower \in Accounts /\ TypeOK'
  BY <1>1, ListTypes
<1> QED BY <1>2, OpenDealKept

(***************************************************************************)
(* Withdrawals, and what happens outside the vault.                        *)
(***************************************************************************)
\* The records, the tokens and the positions stand still.
LEMMA RecordsStill ==
  ASSUME Kept, TypeOK', UNCHANGED <<deals, bids, balanceERC20, owedNFT, openRaw, erc20, posOwner>>
  PROVE  /\ TokensSquare' /\ Custody' /\ Wins' /\ MaxDeals \in DealIds /\ MaxBids \in BidIds
         /\ Touches(MaxDeals, MaxBids) /\ deals'[MaxDeals] = deals[MaxDeals] /\ bids'[MaxBids] = bids[MaxBids]
<1>1. /\ MaxDeals \in DealIds /\ MaxBids \in BidIds /\ Touches(MaxDeals, MaxBids)
      /\ deals'[MaxDeals] = deals[MaxDeals] /\ bids'[MaxBids] = bids[MaxBids]
  BY Ids DEF Touches
<1> QED BY <1>1, TokensStill, CustodyKept, WinsKept DEF Kept

\* Nothing the invariant reads changes but its types.
LEMMA StillKept ==
  ASSUME Kept, TypeOK',
         UNCHANGED <<deals, bids, balanceUSDG, balanceERC20, owedNFT, openRaw, usdg, erc20, posOwner>>
  PROVE  Kept'
<1>1. /\ TokensSquare' /\ Custody' /\ Wins' /\ MaxDeals \in DealIds /\ MaxBids \in BidIds
      /\ Touches(MaxDeals, MaxBids) /\ deals'[MaxDeals] = deals[MaxDeals] /\ bids'[MaxBids] = bids[MaxBids]
  BY RecordsStill
<1>2. Square' /\ FeesSquare'
  BY <1>1, MoneyStill DEF Kept
<1> QED BY <1>1, <1>2 DEF Kept

LEMMA Withdrawn ==
  ASSUME TypeOK, NEW a \in Accounts \cup {FEE_SINK}, WithdrawUSDG(a)
  PROVE  LET amount == balanceUSDG[a]
         IN  /\ amount \in Nat
             /\ \A w \in Wallets : usdg'[w] = usdg[w] + (IF w = a THEN amount ELSE 0) - (IF w = Vault THEN amount ELSE 0)
             /\ \A w \in Wallets : balanceUSDG'[w] = balanceUSDG[w] - (IF w = a THEN amount ELSE 0)
             /\ Credits' = Credits + (0 - amount)
             /\ Swept' = Swept + (IF a = FEE_SINK THEN amount ELSE 0)
<1> DEFINE amount == balanceUSDG[a]
           loss == 0 - amount
           f == balanceUSDG
           g == balanceUSDG'
<1>1. a \in Wallets /\ Vault \in Wallets /\ a # Vault /\ amount \in Nat /\ loss \in Int
  BY Names DEF TypeOK
<1>2. /\ usdg' = [usdg EXCEPT ![Vault] = @ - amount, ![a] = @ + amount]
      /\ balanceUSDG' = [balanceUSDG EXCEPT ![a] = 0]
  BY DEF WithdrawUSDG, Pay
<1>3. usdg \in [Wallets -> Nat] /\ f \in [Wallets -> Nat]
  BY DEF TypeOK
<1>4. amount = f[a]
  OBVIOUS
<1> HIDE DEF amount
<1>5. ASSUME NEW w \in Wallets
      PROVE  usdg'[w] = usdg[w] + (IF w = a THEN amount ELSE 0) - (IF w = Vault THEN amount ELSE 0)
  <2>1. CASE w = a
    BY <1>1, <1>2, <1>3, <2>1
  <2>2. CASE w = Vault
    BY <1>1, <1>2, <1>3, <2>2
  <2>3. CASE w # a /\ w # Vault
    BY <1>1, <1>2, <1>3, <2>3
  <2> QED BY <2>1, <2>2, <2>3
<1>6. \A w \in Wallets : g[w] = f[w] - (IF w = a THEN amount ELSE 0)
  BY <1>1, <1>2, <1>3, <1>4
<1>7. Credits = SumFunctionOnSet(f, Wallets) /\ Credits' = SumFunctionOnSet(g, Wallets)
  BY DEF Credits
<1>8. Credits' = Credits + loss
  <2>1. /\ \A w \in Wallets : f[w] \in Int /\ g[w] \in Int
        /\ \A w \in Wallets \ {a} : g[w] = f[w]
        /\ g[a] = f[a] + loss
    BY <1>1, <1>3, <1>6
  <2> HIDE DEF f, g, loss
  <2> QED BY <1>1, <1>7, <2>1, SumMoved, Finite
<1>9. Swept' = Swept + (IF a = FEE_SINK THEN amount ELSE 0)
  <2>1. SinkWallets \subseteq Wallets \ (Accounts \cup {Vault}) /\ FEE_SINK \in SinkWallets /\ IsFiniteSet(SinkWallets)
    BY Names, Finite, FS_Subset DEF SinkWallets
  <2> DEFINE u == usdg
             v == usdg'
  <2>2. Swept = SumFunctionOnSet(u, SinkWallets) /\ Swept' = SumFunctionOnSet(v, SinkWallets)
    BY DEF Swept
  <2>3. CASE a = FEE_SINK
    <3>1. /\ \A w \in SinkWallets : u[w] \in Int /\ v[w] \in Int
          /\ \A w \in SinkWallets \ {a} : v[w] = u[w]
          /\ v[a] = u[a] + amount /\ amount \in Int /\ a \in SinkWallets
      BY <1>1, <1>3, <1>5, <2>1, <2>3
    <3> HIDE DEF u, v
    <3>2. Swept' = Swept + amount
      BY <2>1, <2>2, <3>1, SumMoved
    <3> QED BY <2>3, <3>2
  <2>4. CASE a # FEE_SINK
    <3>1. \A w \in SinkWallets : usdg'[w] = usdg[w]
      BY <1>1, <1>3, <1>5, <2>1, <2>4
    <3>2. Swept' = Swept /\ Swept \in Int
      BY <3>1, SweptSame, TotalInts
    <3> QED BY <2>4, <3>2
  <2> QED BY <2>3, <2>4
<1> QED BY <1>1, <1>5, <1>6, <1>8, <1>9 DEF amount

\* An account or the sink is paid what it is credited.
LEMMA WithdrawUSDGKept ==
  ASSUME Kept, UNCHANGED sink, NEW a \in Accounts \cup {FEE_SINK}, WithdrawUSDG(a)
  PROVE  Kept'
<1> DEFINE amount == balanceUSDG[a]
           loss == 0 - amount
<1>1. TypeOK /\ TypeOK'
  BY WithdrawUSDGTypes DEF Kept
<1>2. UNCHANGED <<deals, bids, balanceERC20, owedNFT, openRaw, erc20, posOwner>>
  BY DEF WithdrawUSDG, dealVars
<1>3. /\ TokensSquare' /\ Custody' /\ Wins' /\ MaxDeals \in DealIds /\ MaxBids \in BidIds
      /\ Touches(MaxDeals, MaxBids) /\ deals'[MaxDeals] = deals[MaxDeals] /\ bids'[MaxBids] = bids[MaxBids]
  BY <1>1, <1>2, RecordsStill
<1>4. /\ amount \in Nat
      /\ \A w \in Wallets : usdg'[w] = usdg[w] + (IF w = a THEN amount ELSE 0) - (IF w = Vault THEN amount ELSE 0)
      /\ \A w \in Wallets : balanceUSDG'[w] = balanceUSDG[w] - (IF w = a THEN amount ELSE 0)
      /\ Credits' = Credits + loss
      /\ Swept' = Swept + (IF a = FEE_SINK THEN amount ELSE 0)
  BY <1>1, Withdrawn
<1>5. /\ Vault \in Wallets /\ FEE_SINK \in Wallets /\ a # Vault /\ Vault # FEE_SINK
      /\ \A z \in Accounts : z \in Wallets /\ z # Vault
      /\ \A w \in Wallets : usdg[w] \in Int /\ balanceUSDG[w] \in Int
      /\ Swept \in Int
      /\ OpenPrice(bids[MaxBids]) \in Int /\ \A z : BidResult(bids[MaxBids], z) \in Int
      /\ FeeCharged(deals[MaxDeals]) \in Int /\ \A z : DealResult(deals[MaxDeals], z) \in Int
  BY <1>1, <1>3, Names, TotalInts, DealInts, BidInts DEF TypeOK
<1> HIDE DEF amount
<1>6. loss \in Int /\ usdg'[Vault] = usdg[Vault] + loss + OpenPrice(bids'[MaxBids]) - OpenPrice(bids[MaxBids])
  BY <1>3, <1>4, <1>5
<1>7. ASSUME NEW z \in Accounts
      PROVE  usdg'[z] + balanceUSDG'[z] =
               usdg[z] + balanceUSDG[z] + (BidResult(bids'[MaxBids], z) - BidResult(bids[MaxBids], z))
                                        + (DealResult(deals'[MaxDeals], z) - DealResult(deals[MaxDeals], z))
  <2>1. /\ usdg'[z] = usdg[z] + (IF z = a THEN amount ELSE 0)
        /\ balanceUSDG'[z] = balanceUSDG[z] - (IF z = a THEN amount ELSE 0)
    BY <1>4, <1>5
  <2> QED BY <1>3, <1>4, <1>5, <2>1
<1>8. balanceUSDG'[FEE_SINK] + Swept' =
        balanceUSDG[FEE_SINK] + Swept + (FeeCharged(deals'[MaxDeals]) - FeeCharged(deals[MaxDeals]))
  BY <1>3, <1>4, <1>5
<1> HIDE DEF loss
<1>9. Square' /\ FeesSquare'
  BY <1>1, <1>3, <1>4, <1>6, <1>7, <1>8, MoneyKept DEF Kept
<1> QED BY <1>1, <1>3, <1>9 DEF Kept

LEMMA SweepKept == ASSUME Kept, Sweep PROVE Kept'
<1>0. PICK to \in Treasuries \cup Buybacks : to = Destination
  BY Destinations DEF Kept
<1> DEFINE amount == usdg[FEE_SINK]
           loss == 0 - amount
           f == usdg
           g == usdg'
           h == [w \in Wallets |-> IF w = to THEN f[w] + amount ELSE f[w]]
<1>1. TypeOK /\ TypeOK'
  BY SweepTypes DEF Kept
<1>2. /\ UNCHANGED <<deals, bids, balanceUSDG, balanceERC20, owedNFT, openRaw, erc20, posOwner>>
      /\ usdg' = [usdg EXCEPT ![FEE_SINK] = @ - amount, ![to] = @ + amount]
  BY <1>0 DEF Sweep, vaultVars, dealVars, Pay
<1>3. /\ TokensSquare' /\ Custody' /\ Wins' /\ MaxDeals \in DealIds /\ MaxBids \in BidIds
      /\ Touches(MaxDeals, MaxBids) /\ deals'[MaxDeals] = deals[MaxDeals] /\ bids'[MaxBids] = bids[MaxBids]
  BY <1>1, <1>2, RecordsStill
<1>4. /\ to \in Wallets /\ FEE_SINK \in Wallets /\ to # FEE_SINK /\ to # Vault /\ to \notin Accounts
      /\ Vault \in Wallets /\ Vault # FEE_SINK /\ FEE_SINK \notin Accounts /\ Accounts \subseteq Wallets
      /\ f \in [Wallets -> Nat] /\ amount \in Nat /\ loss \in Int
  BY <1>1, Names DEF TypeOK
<1>5. SinkWallets \subseteq Wallets /\ IsFiniteSet(SinkWallets) /\ to \in SinkWallets /\ FEE_SINK \in SinkWallets
  BY Names, Finite, FS_Subset DEF SinkWallets
<1>6. /\ \A w \in SinkWallets : f[w] \in Int /\ g[w] \in Int /\ h[w] \in Int
      /\ \A w \in SinkWallets \ {to} : h[w] = f[w]
      /\ h[to] = f[to] + amount
      /\ \A w \in SinkWallets \ {FEE_SINK} : g[w] = h[w]
      /\ g[FEE_SINK] = h[FEE_SINK] + loss
  BY <1>1, <1>2, <1>4, <1>5 DEF TypeOK
<1>7. \A w \in Accounts \cup {Vault} : usdg'[w] = usdg[w] /\ usdg[w] \in Int
  BY <1>2, <1>4
<1>8. Swept = SumFunctionOnSet(f, SinkWallets) /\ Swept' = SumFunctionOnSet(g, SinkWallets)
  BY DEF Swept
<1>9. balanceUSDG[FEE_SINK] \in Int /\ \A z \in Accounts : balanceUSDG[z] \in Int
  BY <1>1, <1>4 DEF TypeOK
<1>10. /\ 0 \in Int /\ Credits' = Credits /\ Credits \in Int /\ Swept \in Int
       /\ OpenPrice(bids[MaxBids]) \in Int /\ \A z : BidResult(bids[MaxBids], z) \in Int
       /\ FeeCharged(deals[MaxDeals]) \in Int /\ \A z : DealResult(deals[MaxDeals], z) \in Int
  BY <1>1, <1>2, <1>3, TotalInts, DealInts, BidInts DEF TypeOK, Credits
<1>11. Swept' = Swept
  <2>1. amount \in Int /\ loss \in Int
    BY <1>4
  <2> HIDE DEF amount, loss, f, g, h
  <2>2. SumFunctionOnSet(h, SinkWallets) = SumFunctionOnSet(f, SinkWallets) + amount
    BY <1>5, <1>6, <2>1, SumMoved
  <2>3. SumFunctionOnSet(g, SinkWallets) = SumFunctionOnSet(h, SinkWallets) + loss
    BY <1>5, <1>6, <2>1, SumMoved
  <2> QED BY <1>8, <1>10, <2>1, <2>2, <2>3 DEF loss
<1> HIDE DEF amount, loss, f, g, h
<1>12. Credits' = Credits + 0 /\ usdg'[Vault] = usdg[Vault] + 0 + OpenPrice(bids'[MaxBids]) - OpenPrice(bids[MaxBids])
  BY <1>3, <1>7, <1>10
<1>13. ASSUME NEW z \in Accounts
       PROVE  usdg'[z] + balanceUSDG'[z] =
                usdg[z] + balanceUSDG[z] + (BidResult(bids'[MaxBids], z) - BidResult(bids[MaxBids], z))
                                         + (DealResult(deals'[MaxDeals], z) - DealResult(deals[MaxDeals], z))
  <2>1. usdg'[z] = usdg[z] /\ usdg[z] \in Int /\ balanceUSDG'[z] = balanceUSDG[z] /\ balanceUSDG[z] \in Int
    BY <1>2, <1>7, <1>9
  <2> QED BY <1>3, <1>10, <2>1
<1>14. balanceUSDG'[FEE_SINK] + Swept' =
         balanceUSDG[FEE_SINK] + Swept + (FeeCharged(deals'[MaxDeals]) - FeeCharged(deals[MaxDeals]))
  BY <1>2, <1>3, <1>9, <1>10, <1>11
<1>15. Square' /\ FeesSquare'
  BY <1>1, <1>3, <1>10, <1>12, <1>13, <1>14, MoneyKept DEF Kept
<1> QED BY <1>1, <1>3, <1>15 DEF Kept

LEMMA WithdrawERC20Kept ==
  ASSUME Kept, UNCHANGED sink, NEW a \in Accounts, NEW token \in Tokens, WithdrawERC20(a, token)
  PROVE  Kept'
<1> DEFINE amount == balanceERC20[a][token]
<1>1. TypeOK /\ TypeOK'
  BY WithdrawERC20Types DEF Kept
<1>2. erc20'[Vault] = [erc20[Vault] EXCEPT ![token] = @ - amount]
  BY <1>1, WithdrawERC20Types
<1>3. /\ UNCHANGED <<deals, bids, balanceUSDG, owedNFT, openRaw, usdg, posOwner>>
      /\ balanceERC20' = [balanceERC20 EXCEPT ![a][token] = 0]
  BY DEF WithdrawERC20, dealVars
<1>4. /\ MaxDeals \in DealIds /\ MaxBids \in BidIds /\ Touches(MaxDeals, MaxBids)
      /\ deals'[MaxDeals] = deals[MaxDeals] /\ bids'[MaxBids] = bids[MaxBids]
  BY <1>3, Ids DEF Touches
<1>5. Square' /\ FeesSquare' /\ Custody' /\ Wins'
  BY <1>1, <1>3, <1>4, MoneyStill, CustodyKept, WinsKept DEF Kept
<1>6. ASSUME NEW t \in Tokens
      PROVE  /\ openRaw'[t] = openRaw[t] + (OpenAmount(deals'[MaxDeals], t) - OpenAmount(deals[MaxDeals], t))
             /\ Owed(t)' = Owed(t) + (erc20'[Vault][t] - openRaw'[t]) - (erc20[Vault][t] - openRaw[t])
  <2> DEFINE q == IF token = t THEN amount ELSE 0
             loss == 0 - q
             f == [z \in Accounts |-> balanceERC20[z][t]]
             g == [z \in Accounts |-> balanceERC20'[z][t]]
  <2>1. /\ openRaw[t] \in Int /\ erc20[Vault][t] \in Int /\ Owed(t) \in Int
        /\ OpenAmount(deals[MaxDeals], t) \in Int /\ q \in Nat /\ loss \in Int
    BY <1>1, <1>4, TotalInts, OpenNat DEF TypeOK
  <2>2. erc20'[Vault][t] = erc20[Vault][t] - q
    BY <1>1, <1>2, <2>1 DEF TypeOK
  <2>3. /\ \A z \in Accounts : f[z] \in Int /\ g[z] \in Int
        /\ \A z \in Accounts \ {a} : g[z] = f[z]
        /\ g[a] = f[a] + loss
    <3>1. balanceERC20 \in [Accounts -> [Tokens -> Nat]] /\ balanceERC20' \in [Accounts -> [Tokens -> Nat]]
      BY <1>1 DEF TypeOK
    <3>2. \A z \in Accounts \ {a} : balanceERC20'[z] = balanceERC20[z]
      BY <1>3, <3>1
    <3>3. balanceERC20'[a][t] = balanceERC20[a][t] - q
      BY <1>3, <3>1
    <3> QED BY <3>1, <3>2, <3>3
  <2>4. Owed(t) = SumFunctionOnSet(f, Accounts) /\ Owed(t)' = SumFunctionOnSet(g, Accounts)
    BY DEF Owed
  <2> HIDE DEF f, g, loss
  <2>5. Owed(t)' = Owed(t) + loss
    BY <2>1, <2>3, <2>4, SumMoved, Finite
  <2> HIDE DEF q
  <2> QED BY <1>3, <1>4, <2>1, <2>2, <2>5 DEF loss
<1>7. TokensSquare'
  BY <1>1, <1>4, <1>6, TokensKept DEF Kept
<1> QED BY <1>1, <1>5, <1>7 DEF Kept

\* A position leaves the vault, or changes hands outside it.
LEMMA PositionLeaves ==
  ASSUME Kept, NEW p \in Positions, NEW to \in Accounts,
         posOwner' = [posOwner EXCEPT ![p] = to], UNCHANGED deals,
         \A d \in LiveDeals : ~Over(d, p), \A z \in Accounts : p \notin owedNFT'[z],
         \A q \in Positions \ {p}, z \in Accounts : q \in owedNFT'[z] <=> q \in owedNFT[z]
  PROVE  Custody'
<1> SUFFICES ASSUME NEW q \in Positions PROVE PositionFollows(q)'
  BY DEF Custody
<1>1. PositionFollows(q)
  BY DEF Kept, Custody
<1>2. posOwner'[q] = IF q = p THEN to ELSE posOwner[q]
  BY DEF Kept, TypeOK
<1>3. CASE q = p
  <2>1. posOwner'[q] # Vault
    BY <1>2, <1>3, Names
  <2>2. \A d \in LiveDeals' : ~Over(d, q)'
    BY <1>3 DEF LiveDeals, Over
  <2> QED BY <1>3, <2>1, <2>2 DEF PositionFollows
<1>4. CASE q # p
  <2>1. OverSame(q)
    BY DEF OverSame, Over, LiveDeals, Winner
  <2> QED BY <1>1, <1>2, <1>4, <2>1, CustodySame
<1> QED BY <1>3, <1>4

LEMMA PositionKept ==
  ASSUME Kept, UNCHANGED sink, NEW p \in Positions, NEW to \in Accounts,
         TransferPosition(p, to) \/ \E a \in Accounts : WithdrawPosition(a, p, to)
  PROVE  Kept'
<1>1. /\ TypeOK /\ TypeOK'
      /\ UNCHANGED <<deals, bids, balanceUSDG, balanceERC20, openRaw, usdg, erc20>>
      /\ posOwner' = [posOwner EXCEPT ![p] = to]
  BY WithdrawPositionTypes, OutsideTypes DEF Kept, TransferPosition, WithdrawPosition, vaultVars, dealVars
<1>2. PositionFollows(p) /\ owedNFT \in [Accounts -> SUBSET Positions]
  BY <1>1 DEF Kept, Custody, TypeOK
<1>3. /\ \A d \in LiveDeals : ~Over(d, p)
      /\ \A z \in Accounts : p \notin owedNFT'[z]
      /\ \A q \in Positions \ {p}, z \in Accounts : q \in owedNFT'[z] <=> q \in owedNFT[z]
  <2>1. CASE TransferPosition(p, to)
    <3>1. posOwner[p] # Vault /\ owedNFT' = owedNFT
      BY <2>1, Names DEF TransferPosition, vaultVars
    <3> QED BY <1>2, <3>1 DEF PositionFollows
  <2>2. CASE \E a \in Accounts : WithdrawPosition(a, p, to)
    <3>1. PICK a \in Accounts : WithdrawPosition(a, p, to)
      BY <2>2
    <3>2. p \in owedNFT[a] /\ owedNFT' = [owedNFT EXCEPT ![a] = @ \ {p}]
      BY <3>1 DEF WithdrawPosition
    <3>3. (\A z \in Accounts : p \in owedNFT[z] => z = a) /\ \A d \in LiveDeals : ~Over(d, p)
      BY <1>2, <3>2 DEF PositionFollows
    <3> QED BY <1>2, <3>2, <3>3
  <2> QED BY <2>1, <2>2
<1>4. Custody'
  BY <1>1, <1>3, PositionLeaves
<1>5. /\ MaxDeals \in DealIds /\ MaxBids \in BidIds /\ Touches(MaxDeals, MaxBids)
      /\ deals'[MaxDeals] = deals[MaxDeals] /\ bids'[MaxBids] = bids[MaxBids]
  BY <1>1, Ids DEF Touches
<1>6. Square' /\ FeesSquare' /\ TokensSquare' /\ Wins'
  BY <1>1, <1>5, MoneyStill, TokensStill, WinsKept DEF Kept
<1> QED BY <1>1, <1>4, <1>6 DEF Kept

(***************************************************************************)
(* The invariant holds at the start and every step keeps it.               *)
(***************************************************************************)
LEMMA KeptInit == SinkInit => Kept
<1> SUFFICES ASSUME SinkInit PROVE Kept
  OBVIOUS
<1>1. TypeOK
  BY TypesInit
<1>2. /\ deals = [d \in DealIds |-> NoDeal] /\ bids = [b \in BidIds |-> NoBid]
      /\ balanceUSDG = [a \in Wallets |-> 0] /\ balanceERC20 = [a \in Accounts |-> [t \in Tokens |-> 0]]
      /\ owedNFT = [a \in Accounts |-> {}] /\ openRaw = [t \in Tokens |-> 0]
      /\ usdg = [w \in Wallets |-> IF w \in Accounts THEN Funds ELSE 0]
      /\ erc20[Vault] = [t \in Tokens |-> 0] /\ posOwner \in [Positions -> Listers]
  BY DEF SinkInit, Init
<1>3. /\ \A d \in DealIds : deals[d] = NoDeal
      /\ \A b \in BidIds : bids[b] = NoBid
      /\ NoDeal.state = "NONE" /\ "NONE" \notin Funded /\ "NONE" \notin Live /\ NoBid.state # "ACCEPTED"
  BY <1>2 DEF NoDeal, NoBid, Funded, Live
<1>4. /\ FeeCharged(NoDeal) = 0 /\ \A a : DealResult(NoDeal, a) = 0 /\ \A t : OpenAmount(NoDeal, t) = 0
  BY <1>3 DEF FeeCharged, DealResult, OpenAmount
<1>5. Wins
  BY <1>3 DEF Wins, Won
<1>6. Credits = 0
  BY <1>2, SumZero, Finite DEF Credits
<1>7. Escrowed = 0
  <2> DEFINE f == [b \in BidIds |-> OpenPrice(bids[b])]
  <2>1. \A b \in BidIds : f[b] = 0
    BY <1>3, NoBidResults
  <2> HIDE DEF f
  <2>2. SumFunctionOnSet(f, BidIds) = 0
    BY <2>1, SumZero, Finite
  <2> QED BY <2>2 DEF Escrowed, f
<1>8. ASSUME NEW a PROVE BidsCame(a) = 0 /\ DealsCame(a) = 0
  <2> DEFINE f == [b \in BidIds |-> BidResult(bids[b], a)]
             g == [d \in DealIds |-> DealResult(deals[d], a)]
  <2>1. (\A b \in BidIds : f[b] = 0) /\ \A d \in DealIds : g[d] = 0
    BY <1>3, <1>4, NoBidResults
  <2> HIDE DEF f, g
  <2>2. SumFunctionOnSet(f, BidIds) = 0 /\ SumFunctionOnSet(g, DealIds) = 0
    BY <2>1, SumZero, Finite
  <2> QED BY <2>2 DEF BidsCame, DealsCame, f, g
<1>9. Square
  <2>1. usdg[Vault] = 0 /\ \A a \in Accounts : usdg[a] = Funds /\ balanceUSDG[a] = 0 /\ Funds \in Nat
    BY <1>2, Names, VaultAssumption
  <2> QED BY <1>6, <1>7, <1>8, <2>1 DEF Square
<1>10. FeesSquare
  <2>1. balanceUSDG[FEE_SINK] = 0 /\ \A w \in SinkWallets : usdg[w] = 0
    BY <1>2, Names DEF SinkWallets
  <2>2. IsFiniteSet(SinkWallets)
    BY Names, Finite, FS_Subset DEF SinkWallets
  <2>3. Swept = 0
    BY <2>1, <2>2, SumZero DEF Swept
  <2>4. FeesCharged = 0
    <3> DEFINE f == [d \in DealIds |-> FeeCharged(deals[d])]
    <3>1. \A d \in DealIds : f[d] = 0
      BY <1>3, <1>4
    <3> HIDE DEF f
    <3>2. SumFunctionOnSet(f, DealIds) = 0
      BY <3>1, SumZero, Finite
    <3> QED BY <3>2 DEF FeesCharged, f
  <2> QED BY <2>1, <2>3, <2>4 DEF FeesSquare
<1>11. ASSUME NEW t \in Tokens PROVE openRaw[t] = Open(t) /\ erc20[Vault][t] = openRaw[t] + Owed(t)
  <2> DEFINE f == [d \in DealIds |-> OpenAmount(deals[d], t)]
             g == [a \in Accounts |-> balanceERC20[a][t]]
  <2>1. (\A d \in DealIds : f[d] = 0) /\ \A a \in Accounts : g[a] = 0
    BY <1>2, <1>3, <1>4
  <2> HIDE DEF f, g
  <2>2. SumFunctionOnSet(f, DealIds) = 0 /\ SumFunctionOnSet(g, Accounts) = 0
    BY <2>1, SumZero, Finite
  <2>3. Open(t) = 0 /\ Owed(t) = 0
    BY <2>2 DEF Open, Owed, f, g
  <2> QED BY <1>2, <2>3
<1>12. Custody
  <2>1. ASSUME NEW p \in Positions
        PROVE  /\ posOwner[p] # Vault /\ \A a \in Accounts : p \notin owedNFT[a]
               /\ \A d \in LiveDeals : ~Over(d, p)
    BY <1>2, <1>3, Names, VaultAssumption DEF LiveDeals
  <2> QED BY <2>1 DEF Custody, PositionFollows
<1> QED BY <1>1, <1>5, <1>9, <1>10, <1>11, <1>12 DEF Kept, TokensSquare

LEMMA DealNextKept ==
  ASSUME Kept, UNCHANGED sink, NEW a \in Accounts, DealNext(a)
  PROVE  Kept'
<1>1. CASE \E c \in Collateral, ask \in Asks, term \in Terms, expiry \in Deadlines :
             a \in Listers /\ List(a, c, ask, term, expiry)
  BY <1>1, ListKept
<1>2. CASE \E c \in Collateral, ask \in Asks, term \in Terms, borrower \in Listers :
             ListPositionFor(a, c, ask, term, borrower)
  <2>1. 0 \in Deadlines
    BY DEF Deadlines
  <2> QED BY <1>2, <2>1, ListKept
<1>3. CASE \E d \in DealIds : Cancel(d, a) \/ Reclaim(d, a) \/ Claim(d, a)
  BY <1>3, CancelKept, ReclaimKept, ClaimKept
<1>4. CASE \E d \in DealIds, lender \in Accounts, price \in Prices, expiry \in Deadlines :
             Bid(d, price, expiry, lender, a)
  BY <1>4, BidKept
<1>5. CASE \E d \in DealIds, b \in BidIds : Accept(d, b, a)
  BY <1>5, AcceptKept
<1>6. CASE \E d \in DealIds, lender \in Accounts : Fund(d, lender, a)
  BY <1>6, FundKept
<1>7. CASE \E b \in BidIds : WithdrawBid(b, a)
  BY <1>7, WithdrawBidKept
<1> QED BY <1>1, <1>2, <1>3, <1>4, <1>5, <1>6, <1>7 DEF DealNext

LEMMA NextKept ==
  ASSUME Kept, Next, UNCHANGED sink
  PROVE  Kept'
<1>1. CASE RegistryNext
  <2>1. TypeOK'
    BY <1>1, RegistryTypes DEF Kept
  <2>2. UNCHANGED <<deals, bids, balanceUSDG, balanceERC20, owedNFT, openRaw, usdg, erc20, posOwner>>
    BY <1>1 DEF RegistryNext, PauseNewDeals, SetTerms, SetFee, SetAllowed, SetOpenCap, SetRouter, Configure,
                vaultVars, dealVars, assetVars
  <2> QED BY <2>1, <2>2, StillKept
<1>2. CASE \E a \in Accounts : DealNext(a)
  BY <1>2, DealNextKept
<1>3. CASE \E a \in Accounts : WithdrawUSDG(a)
  BY <1>3, WithdrawUSDGKept
<1>4. CASE \E a \in Accounts, token \in Tokens : WithdrawERC20(a, token)
  BY <1>4, WithdrawERC20Kept
<1>5. CASE \E p \in Positions, to \in Accounts :
             TransferPosition(p, to) \/ \E a \in Accounts : WithdrawPosition(a, p, to)
  BY <1>5, PositionKept
<1>6. CASE (\E a \in Accounts : Stop(a)) \/ Tick
  <2>1. TypeOK'
    BY <1>6, OutsideTypes DEF Kept
  <2>2. UNCHANGED <<deals, bids, balanceUSDG, balanceERC20, owedNFT, openRaw, usdg, erc20, posOwner>>
    BY <1>6 DEF Stop, Tick, vaultVars, dealVars, assetVars
  <2> QED BY <2>1, <2>2, StillKept
<1> QED BY <1>1, <1>2, <1>3, <1>4, <1>5, <1>6 DEF Next

LEMMA KeptNext == Kept /\ [SinkNext]_sinkVars => Kept'
<1> SUFFICES ASSUME Kept, [SinkNext]_sinkVars PROVE Kept'
  OBVIOUS
<1>1. CASE Next /\ UNCHANGED sink
  BY <1>1, NextKept
<1>2. CASE Collect
  BY <1>2, WithdrawUSDGKept DEF Collect
<1>3. CASE Sweep
  BY <1>3, SweepKept
<1>4. CASE \/ \E route \in {"TREASURY", "BUYBACK"} : SetRoute(route)
           \/ \E to \in Treasuries : SetTreasury(to)
           \/ \E to \in Buybacks : SetBuyback(to)
  <2>1. TypeOK' /\ UNCHANGED vars
    BY <1>4, RouteTypes DEF Kept
  <2> QED BY <2>1, StillKept DEF vars, vaultVars, dealVars, assetVars
<1>5. CASE UNCHANGED sinkVars
  <2>1. TypeOK'
    BY <1>5, StillTypes DEF Kept, TypeOK, sinkVars, vars, vaultVars, dealVars, assetVars
  <2> QED BY <1>5, <2>1, StillKept DEF sinkVars, vars, vaultVars, dealVars, assetVars
<1> QED BY <1>1, <1>2, <1>3, <1>4, <1>5 DEF SinkNext

(***************************************************************************)
(* The theorems.                                                           *)
(***************************************************************************)
\* Whatever is listed, bid, funded, ended, withdrawn, collected and swept, in
\* any order and with the registry and the sink's route changing in between, the
\* books of DealVault.sol and FeeSink.sol agree with what the deals came to.
THEOREM EscrowInductive == SinkSpec => []Inv
<1>1. SinkSpec => []Kept
  BY KeptInit, KeptNext, PTL DEF SinkSpec
<1>2. Kept => Inv
  BY KeptForm
<1> QED BY <1>1, <1>2, PTL

\* DealVault.sol accepts one bid of a deal at most, and one of its own: the deal
\* then records that bid's lender and price, and keeps them to its end.
THEOREM OneBidAlwaysWins == SinkSpec => []OneBidWins
BY EscrowInductive, PTL DEF Inv

\* The vault's USDG is always its credits and its open bids together, so the last
\* account to withdraw is paid, and each account has what its own bids, payouts,
\* repayments and claims came to: no order of operations pays an outcome twice.
THEOREM EveryoneStaysSquare == SinkSpec => []EveryoneIsSquare
BY EscrowInductive, PTL DEF Inv

\* Every fee _settle took is credited to the sink, in it or where it was swept:
\* no order of collect, sweep and changes of route loses or repeats one.
THEOREM FeesStayAccounted == SinkSpec => []FeesAreAccounted
BY EscrowInductive, PTL DEF Inv

LEMMA CustodyForm == TypeOK /\ Custody => PositionsFollowOutcomes
<1> SUFFICES ASSUME TypeOK, Custody, NEW p \in Positions
             PROVE  LET over == {d \in DealIds : deals[d].state # "NONE" /\ deals[d].c.token = p}
                        live == over \cap LiveDeals
                        owed == {a \in Accounts : p \in owedNFT[a]}
                        last == deals[Max(over)]
                    IN  /\ Cardinality(live) + Cardinality(owed) = (IF posOwner[p] = Vault THEN 1 ELSE 0)
                        /\ live # {} => live = {Max(over)}
                        /\ \A a \in owed : a = IF last.state = "CLAIMED" THEN last.lender ELSE last.borrower
  BY DEF PositionsFollowOutcomes
<1> DEFINE over == {d \in DealIds : deals[d].state # "NONE" /\ deals[d].c.token = p}
           live == over \cap LiveDeals
           owed == {a \in Accounts : p \in owedNFT[a]}
<1>1. PositionFollows(p)
  BY DEF Custody
<1>2. ASSUME NEW d \in DealIds, LastOver(d, p) PROVE Max(over) = d
  <2>1. d \in over /\ over \subseteq Nat /\ \A e \in over : e <= d
    BY <1>2, Ids DEF LastOver, Over
  <2> HIDE DEF over
  <2>2. \A x \in over : (\A y \in over : x >= y) <=> x = d
    BY <2>1
  <2> QED BY <2>1, <2>2 DEF Max
<1>3. \A d \in live : d \in DealIds /\ LastOver(d, p) /\ posOwner[p] = Vault /\ owed = {}
  BY <1>1 DEF PositionFollows, Over, LiveDeals
<1>4. live # {} => live = {Max(over)}
  <2> HIDE DEF live, over, owed
  <2> QED BY <1>2, <1>3
<1>5. \A a \in owed : owed = {a} /\ posOwner[p] = Vault /\ \E d \in DealIds : LastOver(d, p) /\ a = Winner(d)
  BY <1>1 DEF PositionFollows
<1>6. \A a \in owed : a = IF deals[Max(over)].state = "CLAIMED" THEN deals[Max(over)].lender
                                                                ELSE deals[Max(over)].borrower
  <2> HIDE DEF over, owed
  <2> QED BY <1>2, <1>5 DEF Winner
<1>7. posOwner[p] = Vault => live # {} \/ owed # {}
  BY <1>1 DEF PositionFollows, Over, LiveDeals
<1>8. Cardinality(live) + Cardinality(owed) = (IF posOwner[p] = Vault THEN 1 ELSE 0)
  <2> HIDE DEF live, over, owed
  <2>1. Cardinality({}) = 0 /\ \A x : Cardinality({x}) = 1
    BY FS_EmptySet, FS_Singleton
  <2>2. CASE live # {}
    <3>1. PICK m : owed = {} /\ posOwner[p] = Vault /\ live = {m}
      BY <1>3, <1>4, <2>2
    <3>2. Cardinality(live) = 1 /\ Cardinality(owed) = 0
      BY <2>1, <3>1
    <3> QED BY <3>1, <3>2
  <2>3. CASE live = {} /\ owed # {}
    <3>1. PICK a \in owed : owed = {a} /\ posOwner[p] = Vault
      BY <1>5, <2>3
    <3> QED BY <2>1, <2>3, <3>1
  <2>4. CASE live = {} /\ owed = {}
    BY <1>7, <2>1, <2>4
  <2> QED BY <2>2, <2>3, <2>4
<1> QED BY <1>4, <1>6, <1>8

\* The open amounts the registry's caps are checked against are those of the live
\* deals, the vault holds every token it owes, and a position is in custody for
\* one live deal or one account, the one its last deal ended for.
THEOREM CollateralAlwaysFollows == SinkSpec => []CollateralFollowsOutcomes
<1>1. Inv => CollateralFollowsOutcomes
  BY CustodyForm DEF Inv, CollateralFollowsOutcomes
<1> QED BY <1>1, EscrowInductive, PTL

\* What every right of the vault needs on its way: the checked subtraction of
\* _creditCollateral goes through for each live deal, the USDG and the tokens
\* of each credit are there, and a position owed is in custody.
Covered ==
  /\ \A d \in LiveDeals : deals[d].c.kind = "ERC20" => openRaw[deals[d].c.token] >= deals[d].c.amount
  /\ \A b \in BidIds : bids[b].state = "OPEN" => usdg[Vault] >= bids[b].price
  /\ \A a \in Wallets : usdg[Vault] >= balanceUSDG[a]
  /\ \A a \in Accounts, t \in Tokens : erc20[Vault][t] >= balanceERC20[a][t]
  /\ \A a \in Accounts : \A p \in owedNFT[a] : posOwner[p] = Vault

LEMMA KeptCovers == Kept => Covered
<1> SUFFICES ASSUME Kept PROVE Covered
  OBVIOUS
<1>1. TypeOK
  BY DEF Kept
<1>2. ASSUME NEW d \in LiveDeals, deals[d].c.kind = "ERC20"
      PROVE  openRaw[deals[d].c.token] >= deals[d].c.amount
  <2> DEFINE t == deals[d].c.token
             f == [e \in DealIds |-> OpenAmount(deals[e], t)]
  <2>1. d \in DealIds /\ deals[d].state \in Live /\ deals[d].c \in Held
    BY <1>1, DealEntry DEF LiveDeals, Live
  <2>2. t \in Tokens /\ f[d] = deals[d].c.amount
    BY <1>2, <2>1, HeldKinds DEF OpenAmount
  <2>3. \A e \in DealIds : f[e] \in Nat
    BY <1>1, OpenNat
  <2>4. openRaw[t] = SumFunctionOnSet(f, DealIds)
    BY <2>2 DEF Kept, TokensSquare, Open
  <2> HIDE DEF f
  <2>5. f[d] <= SumFunctionOnSet(f, DealIds) /\ SumFunctionOnSet(f, DealIds) \in Nat
    BY <2>1, <2>3, SumCovers, Finite
  <2> QED BY <2>1, <2>2, <2>3, <2>4, <2>5
<1>3. /\ \A a \in Wallets : balanceUSDG[a] \in Nat /\ balanceUSDG[a] <= Credits
      /\ Credits \in Nat
  <2>1. \A w \in Wallets : balanceUSDG[w] \in Nat
    BY <1>1 DEF TypeOK
  <2>2. \A w \in Wallets : balanceUSDG[w] <= Credits
    BY <2>1, SumCovers, Finite DEF Credits
  <2>3. Vault \in Wallets
    BY Names
  <2>4. Credits \in Nat
    BY <2>1, <2>3, SumCovers, Finite DEF Credits
  <2> QED BY <2>1, <2>2, <2>4
<1>4. \A b \in BidIds : OpenPrice(bids[b]) <= Escrowed /\ Escrowed \in Nat /\ OpenPrice(bids[b]) \in Nat
  <2> SUFFICES ASSUME NEW b \in BidIds
               PROVE  OpenPrice(bids[b]) <= Escrowed /\ Escrowed \in Nat /\ OpenPrice(bids[b]) \in Nat
    OBVIOUS
  <2> DEFINE f == [e \in BidIds |-> OpenPrice(bids[e])]
  <2>1. (\A e \in BidIds : f[e] \in Nat) /\ f[b] = OpenPrice(bids[b])
    BY <1>1, BidInts DEF TypeOK
  <2>2. Escrowed = SumFunctionOnSet(f, BidIds)
    BY DEF Escrowed
  <2> HIDE DEF f
  <2>3. f[b] <= SumFunctionOnSet(f, BidIds) /\ SumFunctionOnSet(f, BidIds) \in Nat
    BY <2>1, SumCovers, Finite
  <2> QED BY <2>1, <2>2, <2>3
<1>5. Escrowed \in Nat /\ usdg[Vault] = Credits + Escrowed
  BY <1>4, Ids DEF Kept, Square
<1>6. ASSUME NEW a \in Accounts, NEW t \in Tokens PROVE erc20[Vault][t] >= balanceERC20[a][t]
  <2> DEFINE f == [z \in Accounts |-> balanceERC20[z][t]]
  <2>1. \A z \in Accounts : f[z] \in Nat
    BY <1>1 DEF TypeOK
  <2>2. erc20[Vault][t] = openRaw[t] + SumFunctionOnSet(f, Accounts) /\ openRaw[t] \in Nat
    BY <1>1 DEF Kept, TypeOK, TokensSquare, Owed
  <2>3. f[a] = balanceERC20[a][t]
    OBVIOUS
  <2> HIDE DEF f
  <2>4. f[a] <= SumFunctionOnSet(f, Accounts) /\ SumFunctionOnSet(f, Accounts) \in Nat
    BY <2>1, SumCovers, Finite
  <2> QED BY <2>1, <2>2, <2>3, <2>4
<1>7. \A b \in BidIds : bids[b].state = "OPEN" => usdg[Vault] >= bids[b].price
  BY <1>3, <1>4, <1>5 DEF OpenPrice
<1>8. \A a \in Wallets : usdg[Vault] >= balanceUSDG[a]
  BY <1>3, <1>5
<1>9. \A a \in Accounts : \A p \in owedNFT[a] : posOwner[p] = Vault
  BY <1>1 DEF Kept, Custody, PositionFollows, TypeOK
<1> QED BY <1>2, <1>6, <1>7, <1>8, <1>9 DEF Covered

\* "Nothing can move collateral or USDG that belongs to a user" (DealVault.sol):
\* no settlement, payout or reclaim between others, and nothing the registry's owner
\* sets, leaves a right without the assets it is about.
THEOREM RightsAreCovered == SinkSpec => []Covered
<1>1. Inv => Covered
  BY KeptForm, KeptCovers
<1> QED BY <1>1, EscrowInductive, PTL
=============================================================================
