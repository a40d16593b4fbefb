----------------------------- MODULE GageV2Vault -----------------------------
(***************************************************************************)
(* The V2 loan engine (GageV2Vault.sol) together with the contracts it     *)
(* calls: the registry it reads, the collateral account of each loan, and  *)
(* the reward ledger.  Every entry point is nonReentrant and runs as one   *)
(* transaction, so each is one action; a revert is an action not taken.    *)
(*                                                                         *)
(* Cash is pulled from callers and pushed to recipients: their balances    *)
(* are outside the vault, so only what the vault owes is state.  Callers   *)
(* that only pay, and the slippage limits a caller chooses for itself, are *)
(* not represented: they select whether a step happens, not what it does.  *)
(***************************************************************************)
EXTENDS Quarters, FiniteSets, Functions

CONSTANTS
  Accounts, NoAccount, FeeRecipient,
  LoanIds,      \* 1 .. n: identifiers the vault can issue
  Borrowers,    \* accounts that list
  Buyers,       \* accounts that fund units and buy rights or units
  Strategies,   \* the Earn strategies a keeper with Earn enabled serves
  UnitCounts,   \* how many units one funding call may take
  GRACE,        \* ticks after maturity before a default can be finalized
  Listings,     \* terms a borrower can post: see ListingType
  Recoveries,   \* what unwinding a position can return, per asset
  Prices,       \* prices a right is offered at
  UnitPrices,   \* prices lender units are offered at
  AskLives,     \* how far ahead of now a sale deadline is set
  Bundles,      \* sets of units a lender can offer
  Drift,        \* liquidity outsiders can add to a position in custody
  MaxLoans,     \* bound: no listing beyond this many
  MaxCash,      \* bound: nobody funds a unit once the vault owes this much
  MaxNonce,     \* bound: sellers stop posting asks at this nonce
  Keys, Terms, BPS, Pauses, FeeBps, TradeFeeBps, RewardRates, LenderShare, Limits,
  Donations, MaxBudget, MaxTime

VARIABLES
  registry,
  now, allocations, earnedBorrower, earnedLender, lenderAccounted, claimed, free, reserved,
  nextId,           \* _nextId
  loans,            \* _loans
  lenders,          \* _lenders
  right,            \* ownerOf the ERC-721 reclaim right, NoAccount when it does not exist
  account,          \* the collateral account of each loan
  asks, nonces,     \* _asks, _nonces
  lenderAsks, lenderNonces,
  cashCredit,       \* _cashCredit
  accountedCash,    \* _accountedCash
  openExposure,     \* _openExposure
  recoveryClaimed   \* _recoveryClaimed

Assets == 0 .. 1

Registry == INSTANCE GageV2Registry
Rewards == INSTANCE GageV2Rewards

ASSUME VaultAssumption ==
  /\ FeeRecipient \in Accounts
  /\ NoAccount \notin Accounts
  /\ IsFiniteSet(Accounts)
  /\ LoanIds \subseteq Nat \ {0}
  /\ IsFiniteSet(LoanIds)
  /\ Borrowers \subseteq Accounts
  /\ Buyers \subseteq Accounts
  /\ Strategies \subseteq Accounts
  /\ UnitCounts \subseteq 1 .. UNITS
  /\ GRACE \in Nat
  /\ Terms \subseteq Nat \ {0}
  /\ Listings \subseteq
       [principal : Nat, cap : Nat, term : Terms, window : Nat \ {0},
        kind : {"ERC20", "LP"}, key : Keys, raw : Nat, withRewards : BOOLEAN]
  /\ \A x \in Listings : x.principal >= UNITS /\ x.cap >= x.principal
  /\ Recoveries \subseteq [Assets -> Nat]
  /\ Prices \subseteq Nat \ {0}
  /\ UnitPrices \subseteq Nat \ {0}
  /\ AskLives \subseteq Nat \ {0}
  /\ Bundles \subseteq SUBSET Slots
  /\ Drift \subseteq Nat
  /\ Donations \subseteq Nat
  /\ MaxCash \in Nat
  /\ MaxNonce \in Nat
  /\ BPS \in Nat \ {0}
  /\ Pauses \subseteq BOOLEAN
  /\ FeeBps \subseteq 0 .. BPS
  /\ TradeFeeBps \subseteq 0 .. BPS
  /\ RewardRates \subseteq Nat
  /\ LenderShare \in 0 .. BPS
  /\ Limits \subseteq [allowed : BOOLEAN, minimum : Nat, perDeal : Nat, aggregate : Nat]
  /\ \A x \in Limits : x.allowed => x.minimum > 0 /\ x.minimum <= x.perDeal /\ x.perDeal <= x.aggregate

loanVars == <<nextId, loans, lenders>>
marketVars == <<asks, nonces, lenderAsks, lenderNonces>>
cashVars == <<cashCredit, accountedCash>>
vaultVars == <<loanVars, right, account, marketVars, cashVars, openExposure, recoveryClaimed>>
rewardVars == <<now, allocations, earnedBorrower, earnedLender, lenderAccounted, claimed, free, reserved>>
vars == <<registry, rewardVars, vaultVars>>

(***************************************************************************)
(* One isolated account per loan holds its collateral                      *)
(* (GageV2CollateralAccount.sol).  The vault may release the original      *)
(* collateral whole, or unwind it once into at most two assets and pay     *)
(* those out; never both.  An account is a record: what these operators    *)
(* return is the account after the call, and each Can... is the condition  *)
(* under which the call does not revert.                                   *)
(***************************************************************************)
\* kind "ERC20" is a token amount, "LP" a v3 or v4 position; raw is the amount or liquidity.
Initialized(kind, raw) ==
  [kind |-> kind, raw |-> raw, released |-> FALSE, recovered |-> FALSE,
   amounts |-> [x \in Assets |-> 0], balance |-> [x \in Assets |-> 0]]

NoCollateral == Initialized("none", 0)

InCustody(c) == c.kind # "none" /\ ~c.released /\ ~c.recovered

CanRelease(c) == InCustody(c)
Released(c) == [c EXCEPT !.released = TRUE]

\* The recorded amounts are what the account received, and it holds them until they are paid.
CanRecover(c) == InCustody(c)
Recovered(c, amounts) ==
  [c EXCEPT !.recovered = TRUE, !.amounts = amounts, !.balance = amounts]

\* A transfer the account cannot cover reverts.
CanPayRecovery(c, asset, amount) == c.recovered /\ amount <= c.balance[asset]
PaidRecovery(c, asset, amount) == [c EXCEPT !.balance[asset] = @ - amount]

NoLoan ==
  [state |-> "NONE", originator |-> NoAccount, collateralBeneficiary |-> NoAccount,
   filled |-> 0, term |-> 0, fundingDeadline |-> 0, fundedAt |-> 0, closedAt |-> 0,
   principal |-> 0, cap |-> 0, originationFee |-> 0,
   borrowerReward |-> 0, lenderReward |-> 0, exposureKey |-> NoAccount, exposureAmount |-> 0]

NoAsk == [price |-> 0, deadline |-> 0, feeBps |-> 0, nonce |-> 0, poster |-> NoAccount]
NoLenderAsk == [slots |-> {}, price |-> 0, deadline |-> 0, feeBps |-> 0, nonce |-> 0]

Init ==
  /\ Registry!Init
  /\ Rewards!Init
  /\ nextId = 1
  /\ loans = [id \in LoanIds |-> NoLoan]
  /\ lenders = [id \in LoanIds |-> [i \in Slots |-> NoAccount]]
  /\ right = [id \in LoanIds |-> NoAccount]
  /\ account = [id \in LoanIds |-> NoCollateral]
  /\ asks = [id \in LoanIds |-> NoAsk]
  /\ nonces = [id \in LoanIds |-> 0]
  /\ lenderAsks = [id \in LoanIds |-> [a \in Accounts |-> NoLenderAsk]]
  /\ lenderNonces = [id \in LoanIds |-> [a \in Accounts |-> 0]]
  /\ cashCredit = [a \in Accounts |-> 0]
  /\ accountedCash = 0
  /\ openExposure = [k \in Keys |-> 0]
  /\ recoveryClaimed = [id \in LoanIds |-> [x \in Assets |-> [a \in Accounts |-> FALSE]]]

(***************************************************************************)
(* Cash.  A credit is withdrawable; what lenders commit to a loan that is  *)
(* still funding is accounted for but credited to nobody.                  *)
(***************************************************************************)
Credit(credits, a, amount) == [credits EXCEPT ![a] = @ + amount]

\* Every account is credited with its units' slices of total.
CreditUnits(credits, slots, total) ==
  [a \in Accounts |-> credits[a] + Share(total, Held(slots, a))]

ReceiveCash(amount) == accountedCash' = accountedCash + amount

\* A sale: the buyer pays price, the seller gets it less the fee its ask recorded.
SettleSale(seller, ask) ==
  LET fee == Registry!Fee(ask.price, ask.feeBps)
  IN  /\ ReceiveCash(ask.price)
      /\ cashCredit' = Credit(Credit(cashCredit, seller, ask.price - fee), FeeRecipient, fee)

(***************************************************************************)
(* Listing and funding.                                                    *)
(***************************************************************************)
\* Mutant: the bucket is overwritten.
AddExposureOverwriting(key, raw) == openExposure' = [openExposure EXCEPT ![key] = raw]

AddExposure(key, raw) == openExposure' = [openExposure EXCEPT ![key] = @ + raw]

\* Mutant: exposure is only released while the market would still admit the collateral.
ReleaseExposureWhileAdmitted(l) ==
  /\ Registry!Admitted(l.exposureKey, l.exposureAmount)
  /\ l.exposureAmount <= openExposure[l.exposureKey]
  /\ openExposure' = [openExposure EXCEPT ![l.exposureKey] = @ - l.exposureAmount]

\* _close and cancelFunding both end the loan's exposure, in checked arithmetic.
ReleaseExposure(l) ==
  /\ l.exposureAmount <= openExposure[l.exposureKey]
  /\ openExposure' = [openExposure EXCEPT ![l.exposureKey] = @ - l.exposureAmount]

Burn(id) == right' = [right EXCEPT ![id] = NoAccount]

\* The loan record of a new listing; its rewards are quoted from its fee.
Listed(borrower, x) ==
  LET fee == Registry!Fee(x.principal, registry.feeBps)
  IN  [state |-> "FUNDING", originator |-> borrower, collateralBeneficiary |-> NoAccount,
       filled |-> 0, term |-> x.term, fundingDeadline |-> now + x.window, fundedAt |-> 0, closedAt |-> 0,
       principal |-> x.principal, cap |-> x.cap, originationFee |-> fee,
       borrowerReward |-> IF x.withRewards THEN Registry!QuoteBorrower(fee) ELSE 0,
       lenderReward |-> IF x.withRewards THEN Registry!QuoteLender(fee) ELSE 0,
       exposureKey |-> x.key, exposureAmount |-> x.raw]

\* list and listFor: the borrower is the caller, or the user a router names.
List(borrower, x) ==
  LET id == nextId
  IN  /\ id \in LoanIds
      /\ ~registry.newDealsPaused
      /\ x.term \in registry.terms
      /\ Registry!Admitted(x.key, x.raw)
      /\ openExposure[x.key] + x.raw <= registry.limits[x.key].aggregate
      /\ AddExposure(x.key, x.raw)
      /\ nextId' = nextId + 1
      /\ loans' = [loans EXCEPT ![id] = Listed(borrower, x)]
      /\ account' = [account EXCEPT ![id] = Initialized(x.kind, x.raw)]
      /\ right' = [right EXCEPT ![id] = borrower]
      /\ UNCHANGED <<registry, rewardVars, lenders, marketVars, cashVars, recoveryClaimed>>

Empty(id) == Held(lenders[id], NoAccount)

\* Mutant: a later lender takes the first units, occupied or not.
NextSlotsOccupied(id, units) == {i \in Slots : i < units}

\* The first units empty slots of a loan.
NextSlots(id, units) == {i \in Empty(id) : Units({j \in Empty(id) : j < i}) < units}

\* fund and fundFor, up to the fourth unit.
Commit(id, units, lender) ==
  LET l == loans[id]
      taken == NextSlots(id, units)
  IN  /\ ~registry.newDealsPaused
      /\ l.state = "FUNDING"
      /\ now < l.fundingDeadline
      /\ units \in 1 .. UNITS - l.filled
      /\ lenders' = [lenders EXCEPT ![id] = [i \in Slots |-> IF i \in taken THEN lender ELSE @[i]]]
      /\ ReceiveCash(Share(l.principal, taken))

FundPart(id, units, lender) ==
  /\ Commit(id, units, lender)
  /\ loans[id].filled + units < UNITS
  /\ loans' = [loans EXCEPT ![id].filled = @ + units]
  /\ UNCHANGED <<registry, rewardVars, nextId, right, account, marketVars,
                 cashCredit, openExposure, recoveryClaimed>>

\* The origination fee comes out of the principal the lenders paid in.
ActivationCredits(l) ==
  cashCredit' = Credit(Credit(cashCredit, FeeRecipient, l.originationFee),
                       l.originator, l.principal - l.originationFee)

\* _activate: the collateral in custody is validated again against today's limits.
StillAdmitted(id) ==
  LET l == loans[id]
  IN  /\ l.term \in registry.terms
      /\ Registry!Admitted(l.exposureKey, account[id].raw)
      /\ account[id].raw = l.exposureAmount
      /\ openExposure[l.exposureKey] <= registry.limits[l.exposureKey].aggregate

FundLast(id, units, lender) ==
  LET l == loans[id]
  IN  /\ Commit(id, units, lender)
      /\ l.filled + units = UNITS
      /\ StillAdmitted(id)
      /\ Rewards!Activate(id, l.originator, lenders'[id], l.term, l.borrowerReward, l.lenderReward)
      /\ loans' = [loans EXCEPT ![id] =
           [l EXCEPT !.filled = UNITS, !.state = "ACTIVE", !.fundedAt = now]]
      /\ ActivationCredits(l)
      /\ UNCHANGED <<registry, nextId, right, account, marketVars, openExposure, recoveryClaimed>>

\* Mutant: every occupied unit is counted, not only the caller's.
VacatedAll(id, mine) == [loans[id] EXCEPT !.filled = @ - Units(Slots \ Empty(id))]

Vacated(id, mine) == [loans[id] EXCEPT !.filled = @ - Units(mine)]

WithdrawCommitment(id, lender) ==
  LET l == loans[id]
      mine == Held(lenders[id], lender)
  IN  /\ l.state = "FUNDING"
      /\ mine # {}
      /\ lenders' = [lenders EXCEPT ![id] = [i \in Slots |-> IF i \in mine THEN NoAccount ELSE @[i]]]
      /\ loans' = [loans EXCEPT ![id] = Vacated(id, mine)]
      /\ cashCredit' = Credit(cashCredit, lender, Share(l.principal, mine))
      /\ UNCHANGED <<registry, rewardVars, nextId, right, account, marketVars,
                     accountedCash, openExposure, recoveryClaimed>>

MayCancel(l, caller) == caller = l.originator \/ now >= l.fundingDeadline

CancelFunding(id, caller) ==
  LET l == loans[id]
  IN  /\ l.state = "FUNDING"
      /\ MayCancel(l, caller)
      /\ cashCredit' = CreditUnits(cashCredit, lenders[id], l.principal)
      /\ lenders' = [lenders EXCEPT ![id] = [i \in Slots |-> NoAccount]]
      /\ loans' = [loans EXCEPT ![id] =
           [l EXCEPT !.filled = 0, !.state = "CANCELLED", !.closedAt = now,
                     !.collateralBeneficiary = l.originator]]
      /\ ReleaseExposure(l)
      /\ Burn(id)
      /\ UNCHANGED <<registry, rewardVars, nextId, account, marketVars, accountedCash, recoveryClaimed>>

(***************************************************************************)
(* Closing: repayment or default.                                          *)
(***************************************************************************)
GraceEnd(l) == l.fundedAt + l.term + GRACE

ClearAsk(id) ==
  /\ asks' = [asks EXCEPT ![id] = NoAsk]
  /\ nonces' = [nonces EXCEPT ![id] = @ + 1]

Close(id, l) ==
  /\ Rewards!Close(id)
  /\ loans' = [loans EXCEPT ![id] = [l EXCEPT !.closedAt = now]]
  /\ ClearAsk(id)
  /\ ReleaseExposure(l)
  /\ Burn(id)
  /\ UNCHANGED <<registry, nextId, lenders, account, lenderAsks, lenderNonces, recoveryClaimed>>

\* The holder of the right, or an address it approved, pays the cap for recipient.
Reclaim(id, recipient) ==
  LET l == loans[id]
  IN  /\ l.state = "ACTIVE"
      /\ ReceiveCash(l.cap)
      /\ Close(id, [l EXCEPT !.state = "REPAID", !.collateralBeneficiary = recipient])
      /\ cashCredit' = CreditUnits(cashCredit, lenders[id], l.cap)

\* Mutant: no default is finalized while new deals are paused.
DueUnpaused(l) == now >= GraceEnd(l) /\ ~registry.newDealsPaused

Due(l) == now >= GraceEnd(l)

FinalizeDefault(id) ==
  LET l == loans[id]
  IN  /\ l.state = "ACTIVE"
      /\ Due(l)
      /\ Close(id, [l EXCEPT !.state = "DEFAULTED"])
      /\ UNCHANGED cashVars

(***************************************************************************)
(* Collateral.                                                             *)
(***************************************************************************)
custodyFrame == <<registry, rewardVars, loanVars, right, marketVars, cashVars, openExposure>>

WithdrawCollateral(id) ==
  /\ loans[id].state \in {"REPAID", "CANCELLED"}
  /\ CanRelease(account[id])
  /\ account' = [account EXCEPT ![id] = Released(@)]
  /\ UNCHANGED <<custodyFrame, recoveryClaimed>>

\* What an unwind returns: the token amount itself, or what the pool pays for a position.
Unwound(id) ==
  IF account[id].kind = "ERC20"
  THEN {[x \in Assets |-> IF x = 0 THEN account[id].raw ELSE 0]}
  ELSE Recoveries

WithdrawRepaidUnderlying(id, amounts) ==
  LET unwound == Recovered(account[id], amounts)
      half == PaidRecovery(unwound, 0, amounts[0])
  IN  /\ loans[id].state = "REPAID"
      /\ CanRecover(account[id])
      /\ CanPayRecovery(unwound, 0, amounts[0])
      /\ CanPayRecovery(half, 1, amounts[1])
      /\ account' = [account EXCEPT ![id] = PaidRecovery(half, 1, amounts[1])]
      /\ UNCHANGED <<custodyFrame, recoveryClaimed>>

RecoverDefault(id, caller, amounts) ==
  /\ loans[id].state = "DEFAULTED"
  /\ Held(lenders[id], caller) # {}
  /\ CanRecover(account[id])
  /\ account' = [account EXCEPT ![id] = Recovered(@, amounts)]
  /\ UNCHANGED <<custodyFrame, recoveryClaimed>>

\* Mutant: one flag serves both assets.
MarkClaimedFirst(id, asset, lender) ==
  recoveryClaimed' = [recoveryClaimed EXCEPT ![id][0][lender] = TRUE]

MarkClaimed(id, asset, lender) ==
  recoveryClaimed' = [recoveryClaimed EXCEPT ![id][asset][lender] = TRUE]

WithdrawRecovery(id, asset, lender) ==
  LET amount == Share(account[id].amounts[asset], Held(lenders[id], lender))
  IN  /\ loans[id].state = "DEFAULTED"
      /\ ~recoveryClaimed[id][asset][lender]
      /\ account[id].recovered
      /\ amount # 0
      /\ CanPayRecovery(account[id], asset, amount)
      /\ MarkClaimed(id, asset, lender)
      /\ account' = [account EXCEPT ![id] = PaidRecovery(@, asset, amount)]
      /\ UNCHANGED custodyFrame

\* Anyone may add liquidity to a position, also while the account holds it.
AddLiquidity(id, amount) ==
  /\ InCustody(account[id])
  /\ account[id].kind = "LP"
  /\ account[id].raw = loans[id].exposureAmount  \* bound: once per loan
  /\ account' = [account EXCEPT ![id].raw = @ + amount]
  /\ UNCHANGED <<custodyFrame, recoveryClaimed>>

(***************************************************************************)
(* The two marketplaces.                                                   *)
(***************************************************************************)
Saleable(l) == l.state = "ACTIVE" /\ now < GraceEnd(l)

\* setAsk and setAskWithMaxFee.  The poster is history: the code reads the owner.
SetAsk(id, price, deadline) ==
  /\ Saleable(loans[id])
  /\ price # 0
  /\ deadline > now /\ deadline <= GraceEnd(loans[id])
  /\ nonces' = [nonces EXCEPT ![id] = @ + 1]
  /\ asks' = [asks EXCEPT ![id] =
       [price |-> price, deadline |-> deadline, feeBps |-> registry.tradeFeeBps,
        nonce |-> nonces[id] + 1, poster |-> right[id]]]
  /\ UNCHANGED <<registry, rewardVars, loanVars, right, account, lenderAsks, lenderNonces,
                 cashVars, openExposure, recoveryClaimed>>

\* cancelAsk has no state check: the right exists from listing to closing.
CancelAsk(id) ==
  /\ right[id] # NoAccount
  /\ ClearAsk(id)
  /\ UNCHANGED <<registry, rewardVars, loanVars, right, account, lenderAsks, lenderNonces,
                 cashVars, openExposure, recoveryClaimed>>

\* A buyer names the ask it saw: seller is the owner, nonce and price are the ask's.
Buy(id, recipient) ==
  LET ask == asks[id]
  IN  /\ Saleable(loans[id])
      /\ ask.price # 0
      /\ now < ask.deadline
      /\ Rewards!TransferRight(id, recipient)
      /\ ClearAsk(id)
      /\ SettleSale(right[id], ask)
      /\ right' = [right EXCEPT ![id] = recipient]
      /\ UNCHANGED <<registry, loanVars, account, lenderAsks, lenderNonces, openExposure, recoveryClaimed>>

SetLenderAsk(id, seller, slots, price, deadline) ==
  /\ loans[id].state = "ACTIVE"
  /\ slots # {} /\ slots \subseteq Held(lenders[id], seller)
  /\ price # 0
  /\ deadline > now
  /\ lenderNonces' = [lenderNonces EXCEPT ![id][seller] = @ + 1]
  /\ lenderAsks' = [lenderAsks EXCEPT ![id][seller] =
       [slots |-> slots, price |-> price, deadline |-> deadline,
        feeBps |-> registry.tradeFeeBps, nonce |-> lenderNonces[id][seller] + 1]]
  /\ UNCHANGED <<registry, rewardVars, loanVars, right, account, asks, nonces,
                 cashVars, openExposure, recoveryClaimed>>

\* Mutant: the nonce moves but the ask survives.
ClearLenderAskKept(id, seller) ==
  /\ lenderNonces' = [lenderNonces EXCEPT ![id][seller] = @ + 1]
  /\ UNCHANGED lenderAsks

ClearLenderAsk(id, seller) ==
  /\ lenderNonces' = [lenderNonces EXCEPT ![id][seller] = @ + 1]
  /\ lenderAsks' = [lenderAsks EXCEPT ![id][seller] = NoLenderAsk]

CancelLenderAsk(id, seller) ==
  /\ lenderAsks[id][seller].price # 0
  /\ ClearLenderAsk(id, seller)
  /\ UNCHANGED <<registry, rewardVars, loanVars, right, account, asks, nonces,
                 cashVars, openExposure, recoveryClaimed>>

BuyLender(id, seller, recipient) ==
  LET ask == lenderAsks[id][seller]
  IN  /\ loans[id].state = "ACTIVE"
      /\ recipient # seller
      /\ ask.price # 0
      /\ now < ask.deadline
      /\ ask.slots # {} /\ ask.slots \subseteq Held(lenders[id], seller)
      /\ Rewards!TransferLender(id, seller, recipient, ask.slots)
      /\ ClearLenderAsk(id, seller)
      /\ lenders' = [lenders EXCEPT ![id] = [i \in Slots |-> IF i \in ask.slots THEN recipient ELSE @[i]]]
      /\ SettleSale(seller, ask)
      /\ UNCHANGED <<registry, nextId, loans, right, account, asks, nonces, openExposure, recoveryClaimed>>

\* withdrawUSDG and withdrawUSDGFor.
WithdrawUSDG(a) ==
  /\ cashCredit[a] # 0
  /\ cashCredit[a] <= accountedCash
  /\ cashCredit' = [cashCredit EXCEPT ![a] = 0]
  /\ accountedCash' = accountedCash - cashCredit[a]
  /\ UNCHANGED <<registry, rewardVars, loanVars, right, account, marketVars, openExposure, recoveryClaimed>>

(***************************************************************************)
(* Steps of the parts: the registry owner, reward funders and claimants,   *)
(* and the clock.                                                          *)
(***************************************************************************)
RegistryStep == Registry!Next /\ UNCHANGED <<rewardVars, vaultVars>>
FundRewards == Rewards!DoFund /\ UNCHANGED <<registry, vaultVars>>
ClaimReward(id, a) == Rewards!Claim(id, a) /\ UNCHANGED <<registry, vaultVars>>
Tick == Rewards!Tick /\ UNCHANGED <<registry, vaultVars>>

\* Bound: a loan is listed only if its whole life fits before MaxTime.
DoList ==
  \E b \in Borrowers, x \in Listings :
    /\ nextId <= MaxLoans
    /\ now + x.window - 1 + x.term + GRACE <= MaxTime
    /\ List(b, x)
DoFundPart == \E id \in LoanIds, n \in UnitCounts, a \in Buyers :
  accountedCash < MaxCash /\ FundPart(id, n, a)
DoFundLast == \E id \in LoanIds, n \in UnitCounts, a \in Buyers :
  accountedCash < MaxCash /\ FundLast(id, n, a)
DoWithdrawCommitment == \E id \in LoanIds, a \in Accounts : WithdrawCommitment(id, a)
DoCancelFunding == \E id \in LoanIds, a \in Accounts : CancelFunding(id, a)
DoReclaim == \E id \in LoanIds, a \in Borrowers : Reclaim(id, a)
DoFinalizeDefault == \E id \in LoanIds : FinalizeDefault(id)
DoWithdrawCollateral == \E id \in LoanIds : WithdrawCollateral(id)
DoWithdrawRepaidUnderlying == \E id \in LoanIds : \E amounts \in Unwound(id) : WithdrawRepaidUnderlying(id, amounts)
DoRecoverDefault ==
  \E id \in LoanIds, a \in Accounts : \E amounts \in Unwound(id) : RecoverDefault(id, a, amounts)
DoWithdrawRecovery == \E id \in LoanIds, x \in Assets, a \in Accounts : WithdrawRecovery(id, x, a)
DoAddLiquidity == \E id \in LoanIds, amount \in Drift : AddLiquidity(id, amount)
DoSetAsk ==
  \E id \in LoanIds, price \in Prices, life \in AskLives :
    nonces[id] < MaxNonce /\ SetAsk(id, price, now + life)
DoCancelAsk == \E id \in LoanIds : nonces[id] < MaxNonce /\ CancelAsk(id)
DoBuy == \E id \in LoanIds, a \in Buyers : Buy(id, a)
DoSetLenderAsk ==
  \E id \in LoanIds, seller \in Accounts, slots \in Bundles, price \in UnitPrices, life \in AskLives :
    lenderNonces[id][seller] < MaxNonce /\ SetLenderAsk(id, seller, slots, price, now + life)
DoCancelLenderAsk == \E id \in LoanIds, seller \in Accounts : CancelLenderAsk(id, seller)
DoBuyLender == \E id \in LoanIds, seller \in Accounts, a \in Buyers : BuyLender(id, seller, a)
DoWithdrawUSDG == \E a \in Accounts : WithdrawUSDG(a)
DoClaimReward == \E id \in LoanIds, a \in Accounts : ClaimReward(id, a)

Next ==
  \/ DoList \/ DoFundPart \/ DoFundLast \/ DoWithdrawCommitment \/ DoCancelFunding
  \/ DoReclaim \/ DoFinalizeDefault
  \/ DoWithdrawCollateral \/ DoWithdrawRepaidUnderlying
  \/ DoRecoverDefault \/ DoWithdrawRecovery \/ DoAddLiquidity
  \/ DoSetAsk \/ DoCancelAsk \/ DoBuy
  \/ DoSetLenderAsk \/ DoCancelLenderAsk \/ DoBuyLender
  \/ DoWithdrawUSDG \/ DoClaimReward
  \/ RegistryStep \/ FundRewards \/ Tick

Spec == Init /\ [][Next]_vars

(***************************************************************************)
(* Scheduling.  Time goes on.  A keeper with Earn enabled (jobs/earn.ts,   *)
(* steps 0 and 1) works through the book of each strategy: it releases a   *)
(* listing whose funding window has closed and has a loan that can be      *)
(* finalized settled.  Nobody is bound to do either for a loan no strategy *)
(* lends to, and nothing is assumed of borrowers.                          *)
(***************************************************************************)
InBook(id) == \E s \in Strategies : Held(lenders[id], s) # {}

ReleaseExpired(id) ==
  InBook(id) /\ now >= loans[id].fundingDeadline /\ \E a \in Accounts \ Borrowers : CancelFunding(id, a)
SettleDefault(id) == InBook(id) /\ FinalizeDefault(id)

Fairness ==
  /\ WF_vars(Tick)
  /\ \A id \in LoanIds : WF_vars(ReleaseExpired(id)) /\ WF_vars(SettleDefault(id))

FairSpec == Spec /\ Fairness

(***************************************************************************)
(* Properties.                                                             *)
(***************************************************************************)
OpenStates == {"FUNDING", "ACTIVE"}
States == OpenStates \cup {"NONE", "REPAID", "DEFAULTED", "CANCELLED"}

LoanType ==
  [state : States, originator : Accounts \cup {NoAccount},
   collateralBeneficiary : Accounts \cup {NoAccount},
   filled : 0 .. UNITS, term : Nat, fundingDeadline : Nat, fundedAt : Nat, closedAt : Nat,
   principal : Nat, cap : Nat, originationFee : Nat, borrowerReward : Nat, lenderReward : Nat,
   exposureKey : Keys \cup {NoAccount}, exposureAmount : Nat]

AskType ==
  [price : Nat, deadline : Nat, feeBps : 0 .. BPS, nonce : Nat, poster : Accounts \cup {NoAccount}]

LenderAskType ==
  [slots : SUBSET Slots, price : Nat, deadline : Nat, feeBps : 0 .. BPS, nonce : Nat]

AccountType ==
  [kind : {"none", "ERC20", "LP"}, raw : Nat, released : BOOLEAN, recovered : BOOLEAN,
   amounts : [Assets -> Nat], balance : [Assets -> Nat]]

\* The type invariant; every quantity stays a natural number.
TypeOK ==
  /\ registry \in Registry!RegistryType
  /\ now \in Nat
  /\ nextId \in Nat
  /\ loans \in [LoanIds -> LoanType]
  /\ lenders \in [LoanIds -> [Slots -> Accounts \cup {NoAccount}]]
  /\ right \in [LoanIds -> Accounts \cup {NoAccount}]
  /\ account \in [LoanIds -> AccountType]
  /\ asks \in [LoanIds -> AskType]
  /\ nonces \in [LoanIds -> Nat]
  /\ lenderAsks \in [LoanIds -> [Accounts -> LenderAskType]]
  /\ lenderNonces \in [LoanIds -> [Accounts -> Nat]]
  /\ cashCredit \in [Accounts -> Nat]
  /\ accountedCash \in Nat
  /\ openExposure \in [Keys -> Nat]
  /\ recoveryClaimed \in [LoanIds -> [Assets -> [Accounts -> BOOLEAN]]]

\* What lenders have committed to a loan that has not activated.
Committed(id) ==
  IF loans[id].state = "FUNDING"
  THEN Share(loans[id].principal, Slots \ Empty(id))
  ELSE 0

\* accountedCash is exactly the withdrawable credits plus the commitments of
\* loans still funding: no close, cancellation, sale or rounding of quarters
\* creates a credit without cash or strands cash without a creditor.
CashSolvent ==
  accountedCash = SumFunction(cashCredit) + SumFunction([id \in LoanIds |-> Committed(id)])

\* filled counts the occupied units, and a loan is never active, repaid or
\* defaulted with a unit nobody holds, nor cancelled with one somebody holds.
UnitsMatchState ==
  \A id \in LoanIds :
    /\ loans[id].filled = UNITS - Units(Empty(id))
    /\ loans[id].state \in {"NONE", "CANCELLED"} => loans[id].filled = 0
    /\ loans[id].state = "FUNDING" => loans[id].filled < UNITS
    /\ loans[id].state \in {"ACTIVE", "REPAID", "DEFAULTED"} => loans[id].filled = UNITS

\* The reclaim right exists exactly while its loan is open, and until the loan
\* is active it is its originator's, who alone may cancel early.
RightMatchesState ==
  \A id \in LoanIds :
    /\ right[id] # NoAccount <=> loans[id].state \in OpenStates
    /\ loans[id].state = "FUNDING" => right[id] = loans[id].originator

\* What each loan adds to the exposure of bucket k while it is open.
ExposureOf(k) ==
  [id \in LoanIds |->
     IF loans[id].state \in OpenStates /\ loans[id].exposureKey = k THEN loans[id].exposureAmount ELSE 0]

\* The exposure of a bucket is the sum of its open loans' recorded exposures:
\* later changes of the collateral or of the limits never leak capacity.
ExposureMatchesOpenLoans == \A k \in Keys : openExposure[k] = SumFunction(ExposureOf(k))

\* An ask that buy() could execute was posted by the present owner of the right.
AskBelongsToOwner ==
  \A id \in LoanIds : asks[id].price # 0 => asks[id].poster = right[id] /\ loans[id].state = "ACTIVE"

\* A lender ask on an active loan names only units its seller still holds:
\* no sequence of resales leaves an ask whose units moved on.
LenderAskCoversHeldUnits ==
  \A id \in LoanIds, a \in Accounts :
    lenderAsks[id][a].price # 0 => lenderAsks[id][a].slots \subseteq Held(lenders[id], a)

\* The reward ledger and the vault never disagree on who accrues: the
\* borrower side follows the reclaim right, each quarter follows its unit.
RewardsFollowRights ==
  \A id \in LoanIds :
    /\ loans[id].state = "ACTIVE" <=> Rewards!Live(allocations[id])
    /\ loans[id].state = "ACTIVE" => allocations[id].borrower = right[id]
    /\ loans[id].state \in {"ACTIVE", "REPAID", "DEFAULTED"} => allocations[id].lenders = lenders[id]

\* The units of a loan whose holders have not withdrawn their part of asset.
Unpaid(id, asset) ==
  {i \in Slots : lenders[id][i] = NoAccount \/ ~recoveryClaimed[id][asset][lenders[id][i]]}

\* After a default is unwound the account holds exactly the slices of the
\* units not yet paid: each lender can withdraw in any order, none is short,
\* and nothing is left when the last one has.
RecoveryBacked ==
  \A id \in LoanIds : loans[id].state = "DEFAULTED" /\ account[id].recovered =>
    \A asset \in Assets :
      account[id].balance[asset] = Share(account[id].amounts[asset], Unpaid(id, asset))

\* Collateral leaves custody only after its loan ended, and goes one way:
\* whole to the borrower side, or unwound for the side the outcome entitles.
CollateralMatchesState ==
  \A id \in LoanIds :
    /\ loans[id].state = "NONE" <=> account[id].kind = "none"
    /\ loans[id].state \in OpenStates => InCustody(account[id])
    /\ account[id].released => loans[id].state \in {"REPAID", "CANCELLED"} /\ ~account[id].recovered
    /\ account[id].recovered => loans[id].state \in {"REPAID", "DEFAULTED"}
    /\ account[id].recovered /\ loans[id].state = "REPAID" =>
         \A asset \in Assets : account[id].balance[asset] = 0

\* The state of a loan says who holds its units, its right and its collateral.
RecordsMatchState == UnitsMatchState /\ RightMatchesState /\ CollateralMatchesState

\* Nobody can buy by an ask what its poster no longer owns.
AsksStand == AskBelongsToOwner /\ LenderAskCoversHeldUnits

\* The reward ledger can pay what it owes, after any sales and closes.
RewardsAreReserved == Rewards!ReserveMatchesLiability

\* The three running totals are the sums they stand for: cash, exposure and the
\* reward reserve, after any order of fills, sales, closes and defaults.
BooksBalance == CashSolvent /\ ExposureMatchesOpenLoans /\ RewardsAreReserved

\* A sale moves future rewards only.
SalesMoveOnlyTheFuture == Rewards!SaleMovesOnlyTheFuture

\* "Registry changes only gate new listings/funding, never repayment or
\* recovery": whatever the configuration, a lender can leave a funding loan, an
\* active loan can be repaid (and defaulted once due), the collateral can be
\* taken out or unwound by the side the outcome entitles, every lender's part of
\* it paid in any order, and credit withdrawn; no checked subtraction reverts.
ExitsStayOpen ==
  /\ \A id \in LoanIds :
       /\ loans[id].state = "ACTIVE" => ENABLED Reclaim(id, right[id])
       /\ loans[id].state = "ACTIVE" /\ now >= GraceEnd(loans[id]) => ENABLED FinalizeDefault(id)
       /\ loans[id].state = "FUNDING" => ENABLED CancelFunding(id, loans[id].originator)
       /\ loans[id].state \in {"REPAID", "CANCELLED"} /\ ~account[id].released /\ ~account[id].recovered =>
            ENABLED WithdrawCollateral(id)
       /\ \A a \in Accounts :
            LET mine == Held(lenders[id], a)
            IN  /\ loans[id].state = "FUNDING" /\ mine # {} => ENABLED WithdrawCommitment(id, a)
                /\ loans[id].state = "DEFAULTED" /\ mine # {} /\ ~account[id].recovered =>
                     \A amounts \in Unwound(id) : ENABLED RecoverDefault(id, a, amounts)
                /\ loans[id].state = "DEFAULTED" =>
                     \A x \in Assets : Share(account[id].amounts[x], mine) > 0 =>
                       recoveryClaimed[id][x][a] \/ ENABLED WithdrawRecovery(id, x, a)
                /\ Rewards!Claimable(id, a) > 0 => ENABLED ClaimReward(id, a)
  /\ \A a \in Accounts : cashCredit[a] > 0 => ENABLED WithdrawUSDG(a)

\* A listing an Earn strategy has committed to does not stay in FUNDING while the
\* commitment is there, whoever disappears: its borrower, its other lenders, the
\* registry's owner.
FundingEnds ==
  \A id \in LoanIds :
    loans[id].state = "FUNDING" /\ InBook(id) ~> loans[id].state # "FUNDING" \/ ~InBook(id)

\* An activated loan a strategy lends to ends repaid or defaulted, whatever the
\* registry's owner does, unless the strategy's units have passed to others.
LoansSettle ==
  \A id \in LoanIds :
    loans[id].state = "ACTIVE" /\ InBook(id) ~> loans[id].state \in {"REPAID", "DEFAULTED"} \/ ~InBook(id)

\* No loan keeps the money of the strategy that lends to it for ever.
LoansEnd == FundingEnds /\ LoansSettle
=============================================================================
