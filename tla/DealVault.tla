------------------------------ MODULE DealVault ------------------------------
(***************************************************************************)
(* The first escrow (DealVault.sol, its LP-only versions DealVaultV2 and   *)
(* DealVaultV3, and the listing routers' versions ZapDealVault and         *)
(* ZapMemeUSDGVault) with the registry it reads.  A borrower lists         *)
(* collateral, lenders bid or fund at the asking price, the borrower pays  *)
(* the cap back or the lender claims the collateral after a grace period.  *)
(* Everything owed is credited inside the vault and pulled by its owner.   *)
(*                                                                         *)
(* An entry point is one transaction and so one action.  The code of the   *)
(* tokens is outside: a position NFT is held by one address, a stopped     *)
(* USDG account can neither send nor receive.                              *)
(***************************************************************************)
EXTENDS Integers, FiniteSetsExt, Functions

CONSTANTS
  Accounts, NoAccount,
  Vault, FEE_SINK,  \* the addresses of the contract and of its fee sink
  Wallets,          \* every address that holds USDG
  Tokens,           \* ERC-20 collateral
  Positions,        \* liquidity position NFTs
  Kinds,            \* the kinds this version takes
  ZapListings,      \* whether this version has listPositionFor and withdrawPositionTo
  CannotReceive,    \* accounts that revert when they are sent an NFT
  Amounts,          \* raw ERC-20 collateral
  Asks,             \* [cap, minPrice] a borrower can post
  Prices,           \* what a bid can offer
  Lives,            \* how far ahead of now a listing or a bid can end
  Terms, Fees, Caps,\* what the registry can be set to
  Routers,          \* accounts the registry may trust
  OwnerMoves,       \* the registry operations this instance explores
  GRACE, MAX_LISTING_EXPIRY, MAX_FEE_BPS, BPS,
  Funds,            \* USDG every account starts with
  DealIds, BidIds,  \* 1 .. n
  Listers,          \* bound: the accounts that list, or are listed for
  MaxDeals, MaxBids,\* bounds on listings and bids
  MaxTime           \* bound: the clock stops here

VARIABLES
  now,
  reg,          \* CollateralRegistry: newDealsPaused, feeBps, terms, open, allowed, isRouter
  dealCount, deals,   \* dealCount, _deals
  bidCount, bids,     \* bidCount, _bids
  balanceUSDG, balanceERC20, owedNFT, openRaw,
  usdg,         \* USDG held by each wallet
  erc20,        \* collateral tokens held by each account and the vault
  posOwner,     \* POSITION_MANAGER.ownerOf
  stopped       \* accounts USDG has stopped

dealVars == <<dealCount, deals, bidCount, bids>>
vaultVars == <<dealVars, balanceUSDG, balanceERC20, owedNFT, openRaw>>
assetVars == <<usdg, erc20, posOwner>>
vars == <<now, reg, vaultVars, assetVars, stopped>>

ASSUME VaultAssumption ==
  /\ IsFiniteSet(Wallets) /\ IsFiniteSet(DealIds) /\ IsFiniteSet(BidIds)
  /\ Accounts \subseteq Wallets /\ {Vault, FEE_SINK} \subseteq Wallets
  /\ {Vault, FEE_SINK, NoAccount} \cap Accounts = {}
  /\ Vault # FEE_SINK
  /\ Routers \subseteq Accounts
  /\ ZapListings \in BOOLEAN
  /\ Kinds \subseteq {"ERC20", "POSITION"}
  /\ Tokens \cap Positions = {}
  /\ Amounts \subseteq Nat \ {0}
  /\ Asks \subseteq [cap : Nat, minPrice : Nat]
  /\ Prices \subseteq Nat
  /\ Lives \subseteq Nat
  /\ Terms \subseteq Nat \ {0}
  /\ Fees \subseteq Nat
  /\ Caps \subseteq Nat
  /\ GRACE \in Nat /\ MAX_LISTING_EXPIRY \in Nat
  /\ BPS \in Nat \ {0} /\ MAX_FEE_BPS \in 0 .. BPS
  /\ Funds \in Nat /\ MaxTime \in Nat
  /\ DealIds \subseteq Nat \ {0} /\ BidIds \subseteq Nat \ {0}
  /\ Listers \subseteq Accounts
  /\ MaxDeals \in DealIds /\ 1 .. MaxDeals \subseteq DealIds
  /\ MaxBids \in BidIds /\ 1 .. MaxBids \subseteq BidIds

Collateral ==
  {c \in [kind : {"ERC20"}, token : Tokens, amount : Amounts]
         \cup [kind : {"POSITION"}, token : Positions, amount : {1}] : c.kind \in Kinds}

NoDeal ==
  [borrower |-> NoAccount, state |-> "NONE", c |-> NoAccount, term |-> 0, listingExpiry |-> 0,
   cap |-> 0, minPrice |-> 0, lender |-> NoAccount, price |-> 0, fee |-> 0, fundedAt |-> 0, expiry |-> 0]

\* payer is not a field of the code's Bid: the properties need to know it.
NoBid ==
  [dealId |-> 0, lender |-> NoAccount, price |-> 0, expiry |-> 0, state |-> "NONE", payer |-> NoAccount]

Init ==
  /\ now = 0
  /\ reg \in [paused : {FALSE}, feeBps : Fees, terms : {Terms}, open : {[t \in Tokens |-> m] : m \in Caps},
              allowed : {Tokens \cup Positions}, isRouter : {Routers}]
  /\ dealCount = 0 /\ deals = [d \in DealIds |-> NoDeal]
  /\ bidCount = 0 /\ bids = [b \in BidIds |-> NoBid]
  /\ balanceUSDG = [a \in Wallets |-> 0]
  /\ balanceERC20 = [a \in Accounts |-> [t \in Tokens |-> 0]]
  /\ owedNFT = [a \in Accounts |-> {}]
  /\ openRaw = [t \in Tokens |-> 0]
  /\ usdg = [w \in Wallets |-> IF w \in Accounts THEN Funds ELSE 0]
  /\ erc20 = [w \in Accounts \cup {Vault} |-> [t \in Tokens |-> IF w = Vault THEN 0 ELSE Max(Amounts)]]
  /\ posOwner \in [Positions -> Listers]
  /\ stopped = {}

(***************************************************************************)
(* The registry's owner.                                                   *)
(***************************************************************************)
Configure(move) ==
  /\ move \in OwnerMoves
  /\ UNCHANGED <<now, vaultVars, assetVars, stopped>>

PauseNewDeals(paused) == Configure("pause") /\ reg' = [reg EXCEPT !.paused = paused]

SetTerms(terms) == Configure("terms") /\ reg' = [reg EXCEPT !.terms = terms]

SetFee(bps) == Configure("fee") /\ reg' = [reg EXCEPT !.feeBps = bps]

SetAllowed(asset, ok) ==
  /\ Configure("allow")
  /\ reg' = [reg EXCEPT !.allowed = IF ok THEN @ \cup {asset} ELSE @ \ {asset}]

SetOpenCap(token, max) == Configure("open") /\ reg' = [reg EXCEPT !.open[token] = max]

SetRouter(router, ok) ==
  /\ Configure("router")
  /\ reg' = [reg EXCEPT !.isRouter = IF ok THEN @ \cup {router} ELSE @ \ {router}]

(***************************************************************************)
(* Assets moving in and out.                                               *)
(***************************************************************************)
CanPay(from, to, amount) == usdg[from] >= amount /\ stopped \cap {from, to} = {}

Pay(from, to, amount) == usdg' = [usdg EXCEPT ![from] = @ - amount, ![to] = @ + amount]

Credit(who, amount) == balanceUSDG' = [balanceUSDG EXCEPT ![who] = @ + amount]

\* _pullCollateral: the adapter's admission, and custody.
Admitted(c) ==
  /\ c.token \in reg.allowed
  /\ c.kind = "ERC20" => openRaw[c.token] + c.amount <= reg.open[c.token]

\* Mutant: the open amount is not counted.
PullCollateralUncounted(from, c) ==
  /\ Admitted(c)
  /\ IF c.kind = "ERC20"
     THEN /\ erc20[from][c.token] >= c.amount
          /\ erc20' = [erc20 EXCEPT ![from][c.token] = @ - c.amount, ![Vault][c.token] = @ + c.amount]
          /\ UNCHANGED <<openRaw, posOwner>>
     ELSE /\ posOwner[c.token] = from
          /\ posOwner' = [posOwner EXCEPT ![c.token] = Vault]
          /\ UNCHANGED <<openRaw, erc20>>

PullCollateral(from, c) ==
  /\ Admitted(c)
  /\ IF c.kind = "ERC20"
     THEN /\ erc20[from][c.token] >= c.amount
          /\ openRaw' = [openRaw EXCEPT ![c.token] = @ + c.amount]
          /\ erc20' = [erc20 EXCEPT ![from][c.token] = @ - c.amount, ![Vault][c.token] = @ + c.amount]
          /\ UNCHANGED posOwner
     ELSE /\ posOwner[c.token] = from
          /\ posOwner' = [posOwner EXCEPT ![c.token] = Vault]
          /\ UNCHANGED <<openRaw, erc20>>

\* _creditCollateral: a checked subtraction, so the credit needs the amount to be open.
CreditCollateral(c, to) ==
  IF c.kind = "ERC20"
  THEN /\ openRaw[c.token] >= c.amount
       /\ openRaw' = [openRaw EXCEPT ![c.token] = @ - c.amount]
       /\ balanceERC20' = [balanceERC20 EXCEPT ![to][c.token] = @ + c.amount]
       /\ UNCHANGED owedNFT
  ELSE /\ owedNFT' = [owedNFT EXCEPT ![to] = @ \cup {c.token}]
       /\ UNCHANGED <<openRaw, balanceERC20>>

(***************************************************************************)
(* Listing.                                                                *)
(***************************************************************************)
NextDeal == dealCount + 1
NextBid == bidCount + 1

OpenDeal(borrower, c, ask, term, expiry) ==
  /\ NextDeal <= MaxDeals
  /\ dealCount' = NextDeal
  /\ deals' = [deals EXCEPT ![NextDeal] =
       [NoDeal EXCEPT !.borrower = borrower, !.state = "LISTED", !.c = c, !.term = term,
                      !.listingExpiry = expiry, !.cap = ask.cap, !.minPrice = ask.minPrice]]
  /\ UNCHANGED <<now, reg, bidCount, bids, balanceUSDG, balanceERC20, owedNFT, usdg, stopped>>

List(borrower, c, ask, term, expiry) ==
  /\ ~reg.paused
  /\ ask.cap > 0 /\ ask.minPrice <= ask.cap
  /\ term \in reg.terms
  /\ expiry # 0 => expiry > now /\ expiry <= now + MAX_LISTING_EXPIRY
  /\ PullCollateral(borrower, c)
  /\ OpenDeal(borrower, c, ask, term, expiry)

\* Zap versions: a router lists a position it owns for a borrower it names.
ListPositionFor(router, c, ask, term, borrower) ==
  /\ ZapListings
  /\ ~reg.paused
  /\ router \in reg.isRouter
  /\ c.kind = "POSITION"
  /\ ask.cap > 0 /\ ask.minPrice > 0 /\ ask.minPrice <= ask.cap
  /\ term \in reg.terms
  /\ PullCollateral(router, c)
  /\ OpenDeal(borrower, c, ask, term, 0)

Cancel(d, caller) ==
  /\ deals[d].state = "LISTED"
  /\ caller = deals[d].borrower
  /\ deals' = [deals EXCEPT ![d].state = "CANCELLED"]
  /\ CreditCollateral(deals[d].c, caller)
  /\ UNCHANGED <<now, reg, dealCount, bidCount, bids, balanceUSDG, assetVars, stopped>>

(***************************************************************************)
(* Bids, funding and settlement.                                           *)
(***************************************************************************)
ListingOpen(d) ==
  /\ deals[d].state = "LISTED"
  /\ deals[d].listingExpiry # 0 => now < deals[d].listingExpiry

MayLendFor(caller, lender) == caller = lender \/ caller \in reg.isRouter

BidExpiryLimit(d) ==
  IF deals[d].listingExpiry # 0 THEN deals[d].listingExpiry ELSE now + MAX_LISTING_EXPIRY

PlaceBid(d, lender, price, expiry, state, payer) ==
  [dealId |-> d, lender |-> lender, price |-> price, expiry |-> expiry, state |-> state, payer |-> payer]

Bid(d, price, expiry, lender, caller) ==
  /\ MayLendFor(caller, lender)
  /\ ~reg.paused
  /\ ListingOpen(d)
  /\ price > 0 /\ price <= deals[d].cap /\ price >= deals[d].minPrice
  /\ expiry > now /\ expiry <= BidExpiryLimit(d)
  /\ NextBid <= MaxBids
  /\ bidCount' = NextBid
  /\ bids' = [bids EXCEPT ![NextBid] = PlaceBid(d, lender, price, expiry, "OPEN", caller)]
  /\ CanPay(caller, Vault, price)
  /\ Pay(caller, Vault, price)
  /\ UNCHANGED <<now, reg, dealCount, deals, balanceUSDG, balanceERC20, owedNFT, openRaw,
                 erc20, posOwner, stopped>>

\* Mutant: anyone withdraws the bid.
WithdrawBidOfAnyone(b, caller) ==
  /\ bids[b].state = "OPEN"
  /\ bids' = [bids EXCEPT ![b].state = "WITHDRAWN"]
  /\ Credit(caller, bids[b].price)
  /\ UNCHANGED <<now, reg, dealCount, deals, bidCount, balanceERC20, owedNFT, openRaw, assetVars, stopped>>

WithdrawBid(b, caller) ==
  /\ bids[b].state = "OPEN"
  /\ caller = bids[b].lender
  /\ bids' = [bids EXCEPT ![b].state = "WITHDRAWN"]
  /\ Credit(caller, bids[b].price)
  /\ UNCHANGED <<now, reg, dealCount, deals, bidCount, balanceERC20, owedNFT, openRaw, assetVars, stopped>>

Fee(price) == (price * (IF reg.feeBps > MAX_FEE_BPS THEN MAX_FEE_BPS ELSE reg.feeBps)) \div BPS

\* Mutant: the sink's credit is overwritten.
SettleOverwrites(d, lender, price) ==
  LET fee == Fee(price)
      borrower == deals[d].borrower
  IN  /\ deals' = [deals EXCEPT ![d] =
           [@ EXCEPT !.state = "FUNDED", !.lender = lender, !.price = price, !.fee = fee,
                     !.fundedAt = now, !.expiry = now + deals[d].term]]
      /\ balanceUSDG' = [balanceUSDG EXCEPT ![FEE_SINK] = fee, ![borrower] = @ + price - fee]

\* _settle: the deal is funded, and the price goes to the borrower less the fee.
Settle(d, lender, price) ==
  LET fee == Fee(price)
      borrower == deals[d].borrower
  IN  /\ deals' = [deals EXCEPT ![d] =
           [@ EXCEPT !.state = "FUNDED", !.lender = lender, !.price = price, !.fee = fee,
                     !.fundedAt = now, !.expiry = now + deals[d].term]]
      /\ balanceUSDG' = [balanceUSDG EXCEPT ![FEE_SINK] = @ + fee, ![borrower] = @ + price - fee]

\* Mutant: any open bid is accepted, whatever deal it was made for.
AcceptAny(d, b, caller) ==
  /\ ~reg.paused
  /\ deals[d].state = "LISTED"
  /\ caller = deals[d].borrower
  /\ bids[b].state = "OPEN" /\ now < bids[b].expiry
  /\ bids' = [bids EXCEPT ![b].state = "ACCEPTED"]
  /\ Settle(d, bids[b].lender, bids[b].price)
  /\ UNCHANGED <<now, reg, dealCount, bidCount, balanceERC20, owedNFT, openRaw, assetVars, stopped>>

Accept(d, b, caller) ==
  /\ ~reg.paused
  /\ deals[d].state = "LISTED"
  /\ caller = deals[d].borrower
  /\ bids[b].dealId = d
  /\ bids[b].state = "OPEN"
  /\ now < bids[b].expiry
  /\ bids' = [bids EXCEPT ![b].state = "ACCEPTED"]
  /\ Settle(d, bids[b].lender, bids[b].price)
  /\ UNCHANGED <<now, reg, dealCount, bidCount, balanceERC20, owedNFT, openRaw, assetVars, stopped>>

Fund(d, lender, caller) ==
  LET price == deals[d].minPrice
  IN  /\ MayLendFor(caller, lender)
      /\ ~reg.paused
      /\ ListingOpen(d)
      /\ price > 0
      /\ NextBid <= MaxBids
      /\ bidCount' = NextBid
      /\ bids' = [bids EXCEPT ![NextBid] = PlaceBid(d, lender, price, now, "ACCEPTED", caller)]
      /\ CanPay(caller, Vault, price)
      /\ Pay(caller, Vault, price)
      /\ Settle(d, lender, price)
      /\ UNCHANGED <<now, reg, dealCount, balanceERC20, owedNFT, openRaw, erc20, posOwner, stopped>>

Reclaim(d, caller) ==
  /\ deals[d].state = "FUNDED"
  /\ caller = deals[d].borrower
  /\ deals' = [deals EXCEPT ![d].state = "RECLAIMED"]
  /\ Credit(deals[d].lender, deals[d].cap)
  /\ CreditCollateral(deals[d].c, caller)
  /\ CanPay(caller, Vault, deals[d].cap)
  /\ Pay(caller, Vault, deals[d].cap)
  /\ UNCHANGED <<now, reg, dealCount, bidCount, bids, erc20, posOwner, stopped>>

ClaimableAt(d) == deals[d].expiry + GRACE

Claim(d, caller) ==
  /\ deals[d].state = "FUNDED"
  /\ caller = deals[d].lender
  /\ now >= ClaimableAt(d)
  /\ deals' = [deals EXCEPT ![d].state = "CLAIMED"]
  /\ CreditCollateral(deals[d].c, caller)
  /\ UNCHANGED <<now, reg, dealCount, bidCount, bids, balanceUSDG, assetVars, stopped>>

(***************************************************************************)
(* Withdrawals.                                                            *)
(***************************************************************************)
WithdrawUSDG(a) ==
  /\ balanceUSDG[a] > 0
  /\ CanPay(Vault, a, balanceUSDG[a])
  /\ Pay(Vault, a, balanceUSDG[a])
  /\ balanceUSDG' = [balanceUSDG EXCEPT ![a] = 0]
  /\ UNCHANGED <<now, reg, dealVars, balanceERC20, owedNFT, openRaw, erc20, posOwner, stopped>>

\* withdrawERC20, and withdrawCollateral of an ERC-20 deal.
WithdrawERC20(a, token) ==
  LET amount == balanceERC20[a][token]
  IN  /\ amount > 0
      /\ erc20[Vault][token] >= amount
      /\ erc20' = [erc20 EXCEPT ![Vault][token] = @ - amount, ![a][token] = @ + amount]
      /\ balanceERC20' = [balanceERC20 EXCEPT ![a][token] = 0]
      /\ UNCHANGED <<now, reg, dealVars, balanceUSDG, owedNFT, openRaw, usdg, posOwner, stopped>>

\* Mutant: the credit is not cleared.
WithdrawPositionKept(a, p, to) ==
  /\ to = a \/ ZapListings
  /\ to \notin CannotReceive
  /\ p \in owedNFT[a]
  /\ posOwner[p] = Vault
  /\ posOwner' = [posOwner EXCEPT ![p] = to]
  /\ UNCHANGED <<now, reg, dealVars, balanceUSDG, balanceERC20, owedNFT, openRaw, usdg, erc20, stopped>>

\* withdrawPosition, and withdrawCollateral of a position deal: to is the owner,
\* or in the zap versions any recipient the owner names.
WithdrawPosition(a, p, to) ==
  /\ to = a \/ ZapListings
  /\ to \notin CannotReceive
  /\ p \in owedNFT[a]
  /\ posOwner[p] = Vault
  /\ owedNFT' = [owedNFT EXCEPT ![a] = @ \ {p}]
  /\ posOwner' = [posOwner EXCEPT ![p] = to]
  /\ UNCHANGED <<now, reg, dealVars, balanceUSDG, balanceERC20, openRaw, usdg, erc20, stopped>>

(***************************************************************************)
(* Outside the vault.                                                      *)
(***************************************************************************)
\* Positions change hands only in instances that take them.
TransferPosition(p, to) ==
  /\ "POSITION" \in Kinds
  /\ posOwner[p] \in Accounts
  /\ posOwner' = [posOwner EXCEPT ![p] = to]
  /\ UNCHANGED <<now, reg, vaultVars, usdg, erc20, stopped>>

Stop(a) ==
  /\ stopped' = IF a \in stopped THEN stopped \ {a} ELSE stopped \cup {a}
  /\ UNCHANGED <<now, reg, vaultVars, assetVars>>

Tick ==
  /\ now < MaxTime
  /\ now' = now + 1
  /\ UNCHANGED <<reg, vaultVars, assetVars, stopped>>

RegistryNext ==
  \/ \E paused \in BOOLEAN : PauseNewDeals(paused)
  \/ \E terms \in SUBSET Terms \ {{}} : SetTerms(terms)
  \/ \E bps \in Fees : SetFee(bps)
  \/ \E asset \in Tokens \cup Positions, ok \in BOOLEAN : SetAllowed(asset, ok)
  \/ \E token \in Tokens, max \in Caps : SetOpenCap(token, max)
  \/ \E router \in Routers, ok \in BOOLEAN : SetRouter(router, ok)

Deadlines == {0} \cup {now + life : life \in Lives}

DealNext(a) ==
  \/ \E c \in Collateral, ask \in Asks, term \in Terms, expiry \in Deadlines :
       a \in Listers /\ List(a, c, ask, term, expiry)
  \/ \E c \in Collateral, ask \in Asks, term \in Terms, borrower \in Listers :
       ListPositionFor(a, c, ask, term, borrower)
  \/ \E d \in DealIds :
       \/ Cancel(d, a)
       \/ \E lender \in Accounts, price \in Prices, expiry \in Deadlines : Bid(d, price, expiry, lender, a)
       \/ \E b \in BidIds : Accept(d, b, a)
       \/ \E lender \in Accounts : Fund(d, lender, a)
       \/ Reclaim(d, a)
       \/ Claim(d, a)
  \/ \E b \in BidIds : WithdrawBid(b, a)

Next ==
  \/ RegistryNext
  \/ \E a \in Accounts :
       \/ DealNext(a)
       \/ WithdrawUSDG(a)
       \/ \E token \in Tokens : WithdrawERC20(a, token)
       \/ \E p \in Positions, to \in Accounts : WithdrawPosition(a, p, to)
  \/ \E p \in Positions, to \in Accounts : TransferPosition(p, to)
  \/ \E a \in Accounts : "stop" \in OwnerMoves /\ Stop(a)
  \/ Tick

Spec == Init /\ [][Next]_vars

(***************************************************************************)
(* Properties.                                                             *)
(***************************************************************************)
Live == {"LISTED", "FUNDED"}
Funded == {"FUNDED", "RECLAIMED", "CLAIMED"}
DealStates == Live \cup Funded \cup {"NONE", "CANCELLED"}

LiveDeals == {d \in DealIds : deals[d].state \in Live}

\* A deal beyond listing has exactly one accepted bid, its own, with the lender
\* and price the deal records; no other deal ever has one.
OneBidWins ==
  \A d \in DealIds :
    LET won == {b \in BidIds : bids[b].dealId = d /\ bids[b].state = "ACCEPTED"}
    IN  IF deals[d].state \in Funded
        THEN \E b \in BidIds :
               won = {b} /\ bids[b].lender = deals[d].lender /\ bids[b].price = deals[d].price
        ELSE won = {}

\* What a bid holds in the vault, and what it has brought account a so far.
OpenPrice(bid) == IF bid.state = "OPEN" THEN bid.price ELSE 0
BidResult(bid, a) ==
  (IF bid.state = "WITHDRAWN" /\ bid.lender = a THEN bid.price ELSE 0)
  - (IF bid.payer = a THEN bid.price ELSE 0)

\* What a deal has brought account a, cost the two parties in fees, and holds of token t.
DealResult(deal, a) ==
  (IF deal.state \in Funded /\ deal.borrower = a THEN deal.price - deal.fee ELSE 0)
  + (IF deal.state = "RECLAIMED" /\ deal.lender = a THEN deal.cap ELSE 0)
  - (IF deal.state = "RECLAIMED" /\ deal.borrower = a THEN deal.cap ELSE 0)
FeeCharged(deal) == IF deal.state \in Funded THEN deal.fee ELSE 0
OpenAmount(deal, t) == IF deal.state \in Live /\ deal.c.token = t THEN deal.c.amount ELSE 0

\* The vault's USDG is exactly its credits and its open bids, so the last to
\* withdraw is paid; and per account, what it holds and what the vault credits
\* it is what it started with and what its own deals and bids came to: nobody
\* gains or loses by what happens between others, and an outcome is paid once.
EveryoneIsSquare ==
  /\ usdg[Vault] = SumFunction(balanceUSDG) + SumFunction([b \in BidIds |-> OpenPrice(bids[b])])
  /\ \A a \in Accounts :
       usdg[a] + balanceUSDG[a] =
         Funds + SumFunction([b \in BidIds |-> BidResult(bids[b], a)])
               + SumFunction([d \in DealIds |-> DealResult(deals[d], a)])

\* The open amount the registry's cap is checked against is that of the live
\* deals, and the vault holds it beside what it owes.
TokensFollowOutcomes ==
  \A t \in Tokens :
    /\ openRaw[t] = SumFunction([d \in DealIds |-> OpenAmount(deals[d], t)])
    /\ erc20[Vault][t] = openRaw[t] + SumFunction([a \in Accounts |-> balanceERC20[a][t]])

\* A position is in custody exactly while a live deal holds it or one account
\* is owed it, and it is owed to whom the last deal over it ended for.
PositionsFollowOutcomes ==
  \A p \in Positions :
    LET over == {d \in DealIds : deals[d].state # "NONE" /\ deals[d].c.token = p}
        live == over \cap LiveDeals
        owed == {a \in Accounts : p \in owedNFT[a]}
        last == deals[Max(over)]
    IN  /\ Cardinality(live) + Cardinality(owed) = (IF posOwner[p] = Vault THEN 1 ELSE 0)
        /\ live # {} => live = {Max(over)}
        /\ \A a \in owed : a = IF last.state = "CLAIMED" THEN last.lender ELSE last.borrower

\* Collateral goes where the outcomes of the deals over it say, in whatever
\* order deals are listed, ended and listed again.
CollateralFollowsOutcomes == TokensFollowOutcomes /\ PositionsFollowOutcomes

\* "Nothing can move collateral or USDG that belongs to a user, delay a reclaim,
\* or accelerate a claim" (the header of DealVault.sol): whatever the registry's
\* owner sets and whoever USDG stops, a party that is not stopped itself can use
\* its right, and no checked subtraction on the way reverts.  One right is smaller
\* than the header says: DealVault and its LP-only versions hand a position to
\* msg.sender alone, so an account that reverts on an NFT keeps its credit and
\* never the position; only the zap versions let it name a recipient.
RightsStayOpen ==
  /\ \A d \in DealIds :
       LET deal == deals[d]
       IN  /\ deal.state = "LISTED" => ENABLED Cancel(d, deal.borrower)
           /\ deal.state = "FUNDED" /\ usdg[deal.borrower] >= deal.cap /\ deal.borrower \notin stopped =>
                ENABLED Reclaim(d, deal.borrower)
           /\ deal.state = "FUNDED" /\ now >= deal.fundedAt + deal.term + GRACE => ENABLED Claim(d, deal.lender)
  /\ \A b \in BidIds : bids[b].state = "OPEN" => ENABLED WithdrawBid(b, bids[b].lender)
  /\ \A a \in Accounts :
       /\ balanceUSDG[a] > 0 /\ a \notin stopped => ENABLED WithdrawUSDG(a)
       /\ \A t \in Tokens : balanceERC20[a][t] > 0 => ENABLED WithdrawERC20(a, t)
       /\ ZapListings \/ a \notin CannotReceive =>
            \A p \in owedNFT[a] : \E to \in Accounts : ENABLED WithdrawPosition(a, p, to)
=============================================================================
