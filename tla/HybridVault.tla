----------------------------- MODULE HybridVault -----------------------------
(***************************************************************************)
(* An Earn strategy (HybridVault.sol): one share class over idle cash, an  *)
(* ERC-4626 reserve and loans of the V2 engine carried at principal.       *)
(*                                                                         *)
(* Almost every entry point first brings all open loans current, one after *)
(* the other, so the storage of the strategy (v), what the loan engine     *)
(* holds for it (core) and its token balances (held) travel together as    *)
(* one record, a world; the operators below take a world to the world      *)
(* after an internal call.  An entry point is one transaction, hence one   *)
(* action; a revert is an action not taken.                                *)
(*                                                                         *)
(* The loan engine is the abstract one its own module justifies: a listing *)
(* fills or is cancelled, an active loan is repaid or defaults after grace *)
(* and each end credits the strategy's units.                              *)
(***************************************************************************)
EXTENDS Quarters, SequencesExt

CONSTANTS
  Holders, NoHolder,
  Deals,            \* listings the curator may look at
  Terms,            \* [Deals -> record]: see DealTerms
  Listed,           \* the listings that are really there
  Lanes, Tokens,    \* Tokens holds "USDG" and "SGAGE"
  VIRTUAL_SHARES, PRICE_PRECISION, REWARD_PRECISION, BPS,
  PROFIT_UNLOCK, GRACE, MAX_APPROVAL_TTL, MAX_OPEN_LOANS,
  MinDeposit, MaxLoanTerm, MinReturnBps, MaxGageExposureBps,
  InitialWeights,   \* [Lanes -> 0 .. BPS] given at creation
  Weights,          \* lane weights the curator may set
  Caps,             \* deposit caps the curator may set
  FeeRates,         \* fee rates the curator may set
  Pauses,           \* pause switches the curator may use
  UnitChoices,      \* how many units one approval may buy
  Amounts,          \* assets one deposit or withdrawal may name
  Investments,      \* assets moved into the reserve, shares moved out of it, at once
  Redemptions,      \* shares one redemption may name
  RequestSizes,     \* shares one request may name
  Rates,            \* reserve assets per reserve share
  Limits,           \* withdrawal limits the reserve may report, 0 for none
  Outages,          \* what may revert together: transfers of a token, or "RESERVE"
  Gifts,            \* [token, amount] anyone may send to the strategy
  RewardSteps,      \* lender rewards one loan may accrue at once
  Budgets,          \* asset budgets of one serveRequests call
  PROTOCOL_SHARE,   \* the protocol's part of a claimed fee, in BPS
  MaxDeposits, MaxRequests, MaxEpochs, MaxGifts, MaxRewards, MaxTime  \* bounds

ASSUME HybridAssumption ==
  /\ NoHolder \notin Holders
  /\ {"USDG", "SGAGE"} \subseteq Tokens
  /\ VIRTUAL_SHARES \in Nat \ {0} /\ PRICE_PRECISION \in Nat \ {0}
  /\ REWARD_PRECISION \in Nat \ {0} /\ BPS \in Nat \ {0}
  /\ PROFIT_UNLOCK \in Nat \ {0} /\ GRACE \in Nat
  /\ InitialWeights \in [Lanes -> 0 .. BPS]
  /\ UnitChoices \subseteq 1 .. UNITS
  /\ FeeRates \subseteq 0 .. BPS
  /\ \A x \in Rates : x \in Nat \ {0}
  /\ Listed \subseteq Deals
  /\ \A d \in Deals :
       /\ Terms[d].cap >= Terms[d].principal
       /\ Terms[d].taken \in SUBSET Slots

\* Amounts, prices and times are unsigned integers; a listing is what its terms say.
ASSUME HybridInputs ==
  /\ IsFiniteSet(Holders) /\ IsFiniteSet(Deals)
  /\ MAX_APPROVAL_TTL \in Nat /\ MaxRequests \in Nat /\ Limits \subseteq Nat
  /\ Weights \subseteq 0 .. BPS /\ Pauses \subseteq BOOLEAN
  /\ \A S \in {Caps, Amounts, Investments, Redemptions, RequestSizes, RewardSteps, Budgets} : S \subseteq Nat
  /\ Gifts \subseteq [token : Tokens, amount : Nat]
  /\ \A d \in Deals :
       /\ Terms[d].principal \in Nat /\ Terms[d].cap \in Nat /\ Terms[d].term \in Nat \ {0}
       /\ Terms[d].lane \in Lanes
       /\ \A x \in 0 .. 1 : Terms[d].recovery[x].token \in Tokens /\ Terms[d].recovery[x].amount \in Nat

VARIABLES
  v,        \* storage of the strategy
  core,     \* what the V2 engine records for the strategy
  held,     \* token balances of the strategy
  now,
  reserve,  \* [rate, limit] of the ERC-4626 reserve
  stopped,  \* tokens, or the reserve, whose calls revert at the moment
  fees,     \* the fee companion: its balance and the two accrued shares
  used      \* how often a bounded outside step was taken

vars == <<v, core, held, now, reserve, stopped, fees, used>>

World == [v |-> v, core |-> core, held |-> held]

\* One internal call after another; the bound x keeps TLC from evaluating w at each use.
Then(w, Call(_)) == CHOOSE y \in {Call(x) : x \in {w}} : TRUE

Become(w) == v' = w.v /\ core' = w.core /\ held' = w.held

NoApproval == [validUntil |-> 0, principal |-> 0, epoch |-> 0, units |-> 0]

Init ==
  /\ \E cap \in Caps : v =
         [paused |-> FALSE, feeBps |-> 0, weight |-> InitialWeights, cap |-> cap,
          epoch |-> 0, approvedPrincipal |-> 0, approvals |-> [d \in Deals |-> NoApproval],
          cash |-> 0, reserveShares |-> 0, performing |-> 0, overduePrincipal |-> 0,
          lockedProfit |-> 0, unlockStart |-> 0, unlockEnd |-> 0,
          harvested |-> 0, assigned |-> 0, feeAccrued |-> 0,
          highWater |-> PRICE_PRECISION \div VIRTUAL_SHARES,
          supply |-> 0, balance |-> [h \in Holders |-> 0], lockedShares |-> [h \in Holders |-> 0],
          requests |-> <<>>, head |-> 1, pendingShares |-> 0,
          claimable |-> [h \in Holders |-> 0], claimableTotal |-> 0,
          snapshots |-> [h \in Holders |-> <<>>], snapshotCount |-> 0,
          loanSnapshot |-> [d \in Deals |-> 0], loanSnapshotSupply |-> [d \in Deals |-> 0],
          pockets |-> <<>>, pocketClaimed |-> {}, pocketLiability |-> [t \in Tokens |-> 0],
          accPerShare |-> 0, orphan |-> 0, accounted |-> 0, liability |-> 0,
          observed |-> [d \in Deals |-> 0],
          index |-> [h \in Holders |-> 0], owed |-> [h \in Holders |-> 0],
          funded |-> {}, terminal |-> {}, withdrawn |-> {}, overdue |-> {}, openLoans |-> <<>>,
          slots |-> [d \in Deals |-> {}], position |-> [d \in Deals |-> 0],
          loanFee |-> [d \in Deals |-> 0],
          lanePrincipal |-> [l \in Lanes |-> 0],
          borrowerPrincipal |-> [b \in {Terms[d].borrower : d \in Deals} |-> 0]]
  /\ core = [deal |-> [d \in Deals |-> [state |-> "FUNDING", fundedAt |-> 0, closedAt |-> 0,
                                        mine |-> {}, others |-> Terms[d].taken]],
             credit |-> 0, reward |-> [d \in Deals |-> 0], recovered |-> {}, paid |-> {}]
  /\ held = [t \in Tokens |-> 0]
  /\ now = 1
  /\ reserve \in [rate : Rates, limit : Limits]
  /\ stopped = {}
  /\ fees = [balance |-> 0, curator |-> 0, protocol |-> 0]
  /\ used = [deposits |-> 0, gifts |-> 0, rewards |-> 0]

(***************************************************************************)
(* What shares are worth.  Every conversion rounds against the mover.      *)
(***************************************************************************)
Ceil(a, b) == (a + b - 1) \div b
Atmost(a, b) == IF a <= b THEN a ELSE b
Over(a, b) == IF a > b THEN a - b ELSE 0

\* The conversion the reserve quotes for the strategy's shares in it.
ReserveValue(w) == w.v.reserveShares * reserve.rate

Impaired(l) ==
  \/ l.state = "DEFAULTED"
  \/ l.state = "REPAID" /\ l.fundedAt # 0 /\ l.closedAt >= l.fundedAt + l.term
  \/ l.state = "ACTIVE" /\ now >= l.fundedAt + l.term

Loan(w, d) ==
  LET deal == w.core.deal[d]
  IN  [term |-> Terms[d].term, state |-> deal.state, fundedAt |-> deal.fundedAt, closedAt |-> deal.closedAt]

Undecided(w) == ToSet(w.v.openLoans) \ (w.v.terminal \cup w.v.overdue)

SumOver(S, f) == SumFunctionOnSet(f, S)

\* Mutant: loans that are late but not written down yet still count in full.
PendingLossIgnored(w) == 0

\* Principal of loans that are impaired and that no checkpoint has written down.
PendingLoss(w) == SumOver({d \in Undecided(w) : Impaired(Loan(w, d))}, w.v.position)

FullAssets(w) == w.v.cash + ReserveValue(w) + w.v.performing - PendingLoss(w)

\* _lockedProfitNow: linear release until unlockEnd.
LockedProfit(w) ==
  IF now >= w.v.unlockEnd THEN 0
  ELSE (w.v.lockedProfit * (w.v.unlockEnd - now)) \div (w.v.unlockEnd - w.v.unlockStart)

LockedAfterLoss(w) == Over(LockedProfit(w), PendingLoss(w))

TotalAssets(w) == Over(FullAssets(w), LockedAfterLoss(w))

\* Mutant: deposits are priced on the released assets only.
ToSharesReleased(w, assets) == (assets * (w.v.supply + VIRTUAL_SHARES)) \div (TotalAssets(w) + 1)

ToShares(w, assets) == (assets * (w.v.supply + VIRTUAL_SHARES)) \div (FullAssets(w) + 1)
ToAssets(w, shares) == (shares * (TotalAssets(w) + 1)) \div (w.v.supply + VIRTUAL_SHARES)
PreviewWithdraw(w, assets) == Ceil(assets * (w.v.supply + VIRTUAL_SHARES), TotalAssets(w) + 1)

\* Mutant: the reserve is taken to pay what its conversion promises.
FreeLiquidityUnlimited(w) == w.v.cash + ReserveValue(w)

\* A reported limit caps the reserve; a zero limit is a reserve that reports none.
FreeLiquidity(w) ==
  w.v.cash + (IF reserve.limit = 0 THEN ReserveValue(w) ELSE Atmost(ReserveValue(w), reserve.limit))

PendingRequestAssets(w) == ToAssets(w, w.v.pendingShares)

Free(w, h) == w.v.balance[h] - w.v.lockedShares[h]

\* What the vault quotes a holder for leaving at once.
MaxRedeem(w, h) ==
  LET value == ToAssets(w, Free(w, h))
  IN  IF value <= FreeLiquidity(w) THEN Free(w, h) ELSE (Free(w, h) * FreeLiquidity(w)) \div value
MaxWithdraw(w, h) == Atmost(ToAssets(w, Free(w, h)), FreeLiquidity(w))

(***************************************************************************)
(* Paying out, minting and burning.                                        *)
(***************************************************************************)
\* Cash first; the reserve burns shares, rounded up, for the shortfall.
ReserveOpen == stopped \cap {"USDG", "RESERVE"} = {}
FromReserve(w, assets) == Over(assets, w.v.cash)
Burned(w, assets) == Ceil(FromReserve(w, assets), reserve.rate)
CanPayOut(w, assets) ==
  LET need == FromReserve(w, assets)
  IN  need # 0 => /\ need <= ReserveValue(w)
                  /\ reserve.limit # 0 => need <= reserve.limit
                  /\ ReserveOpen
PayOut(w, assets) ==
  [w EXCEPT !.v = [w.v EXCEPT !.cash = Over(@, assets), !.reserveShares = @ - Burned(w, assets)],
            !.held = [w.held EXCEPT !["USDG"] = @ + FromReserve(w, assets)]]

Accruing(w, h) == (w.v.balance[h] * (w.v.accPerShare - w.v.index[h])) \div REWARD_PRECISION

SettleRewards(w, h) ==
  [w EXCEPT !.v = [w.v EXCEPT !.owed[h] = @ + Accruing(w, h), !.index[h] = w.v.accPerShare,
                              !.liability = @ + Accruing(w, h)]]

\* The balance of record of the latest write-down is kept before the balance moves.
BeforeBalanceChange(w, h) ==
  LET s == w.v.snapshots[h]
      stale == w.v.snapshotCount # 0 /\ (s = <<>> \/ Last(s).id < w.v.snapshotCount)
      entry == [id |-> w.v.snapshotCount, balance |-> w.v.balance[h]]
  IN  Then(IF stale THEN [w EXCEPT !.v.snapshots[h] = Append(s, entry)] ELSE w,
           LAMBDA x : SettleRewards(x, h))

\* Mutant: a burn does not record the balance of the open write-downs.
BurnUnrecorded(w, h, shares) == [w EXCEPT !.v.balance[h] = @ - shares, !.v.supply = @ - shares]

Mint(w, h, shares) ==
  Then(BeforeBalanceChange(w, h),
       LAMBDA x : [x EXCEPT !.v = [x.v EXCEPT !.balance[h] = @ + shares, !.supply = @ + shares]])

\* Reward dust nobody can claim any more is set aside with the last share.
Dust(w, shares) == IF shares = w.v.supply THEN w.v.accounted - w.v.liability ELSE 0

Burn(w, h, shares) ==
  Then(BeforeBalanceChange(w, h),
       LAMBDA x : [x EXCEPT !.v = [x.v EXCEPT !.balance[h] = @ - shares, !.supply = @ - shares,
                                              !.accounted = @ - Dust(x, shares),
                                              !.orphan = @ + Dust(x, shares)]])

BalanceAt(w, h, snapshot) ==
  LET later == {i \in DOMAIN w.v.snapshots[h] : w.v.snapshots[h][i].id >= snapshot}
  IN  IF snapshot = 0 \/ later = {} THEN w.v.balance[h]
      ELSE w.v.snapshots[h][Min(later)].balance

PocketShare(w, p, h) ==
  LET pocket == w.v.pockets[p]
  IN  (pocket.amount * BalanceAt(w, h, pocket.snapshot)) \div pocket.supply

(***************************************************************************)
(* Cash and rewards that arrive.                                           *)
(***************************************************************************)
\* What the strategy knows it holds; whatever lies above came unannounced.
Accounted(w) ==
  w.v.cash + w.v.feeAccrued + w.v.claimableTotal + w.v.pocketLiability["USDG"]
  + w.v.harvested - w.v.assigned

ReconcileCash(w) == [w EXCEPT !.v.harvested = @ + Over(w.held["USDG"], Accounted(w))]

\* _harvestCash: a stopped USDG leaves the credit with the loan engine.
HarvestCash(w) ==
  Then(ReconcileCash(w), LAMBDA x :
    IF "USDG" \in stopped THEN x
    ELSE [x EXCEPT !.v = [x.v EXCEPT !.harvested = @ + x.core.credit],
                   !.core = [x.core EXCEPT !.credit = 0],
                   !.held = [x.held EXCEPT !["USDG"] = @ + x.core.credit]])

Distribute(w, amount) ==
  IF amount = 0 THEN w
  ELSE IF w.v.supply = 0 THEN [w EXCEPT !.v.orphan = @ + amount]
  ELSE [w EXCEPT !.v = [w.v EXCEPT !.accounted = @ + amount,
                                   !.accPerShare = @ + (amount * REWARD_PRECISION) \div w.v.supply]]

\* Rewards count when they are seen to be due, once, and are claimed when that works.
AccrueReward(w, d) ==
  LET due == w.core.reward[d]
      told == Distribute(w, Over(due, w.v.observed[d]))
  IN  IF "SGAGE" \in stopped THEN [told EXCEPT !.v.observed[d] = due]
      ELSE [told EXCEPT !.v = [told.v EXCEPT !.observed[d] = 0],
                        !.core = [told.core EXCEPT !.reward[d] = 0],
                        !.held = [told.held EXCEPT !["SGAGE"] = @ + due]]

ReconcileRewards(w) ==
  Distribute(w, Over(Over(w.held["SGAGE"], w.v.pocketLiability["SGAGE"]), w.v.accounted + w.v.orphan))

(***************************************************************************)
(* Profit, loss and side pockets.                                          *)
(***************************************************************************)
Price(full, supply) == (full * PRICE_PRECISION) \div supply

ReportProfit(w, d, profit) ==
  LET full == FullAssets(w)
      supply == w.v.supply
      high == supply # 0 /\ Price(full, supply) > w.v.highWater
      excess == Atmost(profit, ((Price(full, supply) - w.v.highWater) * supply) \div PRICE_PRECISION)
      fee == IF high THEN (excess * w.v.loanFee[d]) \div BPS ELSE 0
  IN  [w EXCEPT !.v =
         [w.v EXCEPT !.cash = @ - fee, !.feeAccrued = @ + fee,
                     !.highWater = IF high THEN Price(full - fee, supply) ELSE @,
                     !.lockedProfit = LockedProfit(w) + profit - fee,
                     !.unlockStart = now, !.unlockEnd = now + PROFIT_UNLOCK]]

\* A loss consumes profit still unlocking before it reaches the share price.
ReportLoss(w, loss) ==
  [w EXCEPT !.v = [w.v EXCEPT !.lockedProfit = Over(LockedProfit(w), loss),
                              !.unlockStart = now, !.unlockEnd = IF @ < now THEN now ELSE @]]

\* Mutant: a pocket is shared out over the shares of its settlement.
OpenPocketCurrentSupply(w, d, token, amount) ==
  [w EXCEPT !.v =
     [w.v EXCEPT !.pocketLiability[token] = @ + amount,
                 !.pockets = Append(@, [deal |-> d, token |-> token, amount |-> amount, claimed |-> 0,
                                        supply |-> w.v.supply, snapshot |-> w.v.loanSnapshot[d]])]]

OpenPocket(w, d, token, amount) ==
  [w EXCEPT !.v =
     [w.v EXCEPT !.pocketLiability[token] = @ + amount,
                 !.pockets = Append(@, [deal |-> d, token |-> token, amount |-> amount, claimed |-> 0,
                                        supply |-> w.v.loanSnapshotSupply[d],
                                        snapshot |-> w.v.loanSnapshot[d]])]]

\* _writeDown: principal leaves the share price, and the holders of this moment are recorded.
WriteDown(w, d) ==
  LET principal == w.v.position[d]
  IN  ReportLoss([w EXCEPT !.v =
                    [w.v EXCEPT !.loanSnapshot[d] = w.v.snapshotCount + 1,
                                !.loanSnapshotSupply[d] = w.v.supply,
                                !.snapshotCount = @ + 1,
                                !.overdue = @ \cup {d}, !.performing = @ - principal,
                                !.overduePrincipal = @ + principal]], principal)

(***************************************************************************)
(* The loan engine, as far as it concerns this strategy.                   *)
(***************************************************************************)
GraceOver(l) == now >= l.fundedAt + l.term + GRACE

\* finalizeDefault, by anyone.
Finalized(w, d) ==
  [w EXCEPT !.core.deal[d] = [w.core.deal[d] EXCEPT !.state = "DEFAULTED", !.closedAt = now]]

\* The strategy's part of one recovered asset that it has not withdrawn.
Recoverable(w, d, x) ==
  IF <<d, x>> \in w.core.paid THEN 0 ELSE Share(Terms[d].recovery[x].amount, w.core.deal[d].mine)

Assets == 0 .. 1

\* One asset of recoverLoanCollateral's loop.
RecoverAsset(w, d, x) ==
  LET amount == Recoverable(w, d, x)
      token == Terms[d].recovery[x].token
  IN  IF amount = 0 THEN w
      ELSE OpenPocket([w EXCEPT !.core = [w.core EXCEPT !.paid = @ \cup {<<d, x>>}],
                                !.held = [w.held EXCEPT ![token] = @ + amount]], d, token, amount)

\* recoverLoanCollateral is all or nothing: a stopped token rolls it back.
CanRecoverLoan(w, d) == \A x \in Assets : Recoverable(w, d, x) # 0 => Terms[d].recovery[x].token \notin stopped
RecoverLoan(w, d) ==
  Then(RecoverAsset([w EXCEPT !.core.recovered = @ \cup {d}], d, 0), LAMBDA x : RecoverAsset(x, d, 1))

(***************************************************************************)
(* Checkpoint.                                                             *)
(***************************************************************************)
\* Mutant: a payout is taken although the cash for it has not arrived.
ArrivedUnchecked(w, payout) == TRUE

\* Mutant: the last unit of cash never settles anything.
ArrivedStrict(w, payout) == w.v.assigned + payout < w.v.harvested

\* Has the cash of this payout arrived, beyond what earlier settlements took?
Arrived(w, payout) == w.v.assigned + payout <= w.v.harvested

\* What the share price still holds for a loan.
Carried(w, d) == IF d \in w.v.overdue THEN 0 ELSE w.v.position[d]

\* The bookkeeping of a settlement, once its payout (0 after a default) is there.
Retire(w, d, payout) ==
  LET principal == w.v.position[d]
      late == d \in w.v.overdue
      carried == Carried(w, d)
      x == [w EXCEPT !.v =
              [w.v EXCEPT !.borrowerPrincipal[Terms[d].borrower] = @ - principal,
                          !.lanePrincipal[Terms[d].lane] = @ - principal,
                          !.overduePrincipal = @ - (principal - carried),
                          !.performing = @ - carried,
                          !.assigned = @ + payout,
                          !.terminal = @ \cup {d}]]
      credited == [x EXCEPT !.v.cash = @ + payout]
  IN  IF late THEN (IF payout # 0 THEN OpenPocket(x, d, "USDG", payout) ELSE x)
      ELSE IF payout > carried THEN Then(credited, LAMBDA y : ReportProfit(y, d, payout - carried))
      ELSE IF payout < carried THEN Then(credited, LAMBDA y : ReportLoss(y, carried - payout))
      ELSE credited

SettleLoan(w, d) ==
  LET state == w.core.deal[d].state
      refund == d \in w.v.withdrawn \/ state = "CANCELLED"
      payout == IF refund THEN w.v.position[d] ELSE Share(Terms[d].cap, w.v.slots[d])
  IN  IF refund \/ state = "REPAID"
      THEN (IF Arrived(w, payout) THEN Retire(w, d, payout) ELSE w)
      ELSE IF state = "DEFAULTED" /\ CanRecoverLoan(w, d) THEN Then(RecoverLoan(w, d), LAMBDA x : Retire(x, d, 0))
      ELSE w

WriteDownIfDue(w, d) == IF d \notin w.v.overdue /\ Impaired(Loan(w, d)) THEN WriteDown(w, d) ELSE w
FinalizeIfDue(w, d) == IF w.core.deal[d].state = "ACTIVE" /\ GraceOver(Loan(w, d)) THEN Finalized(w, d) ELSE w

\* One round of _checkpoint's loop.
BringCurrent(w, d) ==
  Then(Then(Then(Then(w, LAMBDA x : WriteDownIfDue(x, d)), LAMBDA x : FinalizeIfDue(x, d)),
            LAMBDA x : SettleLoan(x, d)),
       LAMBDA x : AccrueReward(x, d))

\* The list is compacted in its order.
DropTerminal(w) ==
  LET keep(open, d) == IF d \in w.v.terminal THEN open ELSE Append(open, d)
  IN  [w EXCEPT !.v.openLoans = FoldLeft(keep, <<>>, w.v.openLoans)]

Checkpoint(w) ==
  Then(Then(Then(Then(w, HarvestCash), LAMBDA x : FoldLeft(BringCurrent, x, x.v.openLoans)),
            ReconcileRewards),
       DropTerminal)

\* A repayment whose cash is missing keeps the share price of deposits uncertain.
SettlementPending(w) == \E d \in Undecided(w) : w.core.deal[d].state = "REPAID"

(***************************************************************************)
(* Depositors.                                                             *)
(***************************************************************************)
world == <<v, core, held>>
around == <<now, reserve, stopped, fees, used>>
Usdg == "USDG" \notin stopped

Receive(w, amount) == [w EXCEPT !.v = [w.v EXCEPT !.cash = @ + amount],
                                !.held = [w.held EXCEPT !["USDG"] = @ + amount]]
Send(w, token, amount) == [w EXCEPT !.held[token] = @ - amount]

Deposit(h, assets) ==
  /\ ~v.paused
  /\ Usdg
  /\ assets >= MinDeposit
  /\ \E w \in {Checkpoint(World)} : \E shares \in {ToShares(w, assets)} :
       /\ ~SettlementPending(w)
       /\ FullAssets(w) + assets <= v.cap
       /\ shares # 0
       /\ Become(Mint(Receive(w, assets), h, shares))
  /\ used' = [used EXCEPT !.deposits = @ + 1]
  /\ UNCHANGED <<now, reserve, stopped, fees>>

\* redeem and withdraw, once the price has fixed what is paid for what.
Exit(w, h, shares, assets) ==
  /\ Usdg
  /\ shares <= Free(w, h)
  /\ CanPayOut(w, assets)
  /\ Become(Send(Burn(PayOut(w, assets), h, shares), "USDG", assets))
  /\ UNCHANGED around

Redeem(h, shares) ==
  shares # 0 /\ \E w \in {Checkpoint(World)} : Exit(w, h, shares, ToAssets(w, shares))

Withdraw(h, assets) ==
  assets # 0 /\ \E w \in {Checkpoint(World)} : Exit(w, h, PreviewWithdraw(w, assets), assets)

RequestRedeem(h, shares) ==
  /\ shares # 0 /\ shares <= Free(World, h)
  /\ v' = [v EXCEPT !.lockedShares[h] = @ + shares, !.pendingShares = @ + shares,
                    !.requests = Append(@, [owner |-> h, shares |-> shares])]
  /\ UNCHANGED <<core, held, around>>

\* What is left of request id once shares of it are gone, served or handed back.
Unlock(w, id, shares) ==
  LET h == w.v.requests[id].owner
  IN  [w EXCEPT !.v = [w.v EXCEPT !.requests[id].shares = @ - shares, !.lockedShares[h] = @ - shares,
                                  !.pendingShares = @ - shares]]

CancelRequest(id) ==
  /\ v.requests[id].shares # 0
  /\ Become(Unlock(World, id, v.requests[id].shares))
  /\ UNCHANGED around

\* The shares of a request the budget can buy, all of them if it covers their worth.
Affordable(q, shares, worth) == IF worth > q.budget THEN (shares * q.budget) \div worth ELSE shares

Credited(w, h, assets) ==
  [w EXCEPT !.v = [w.v EXCEPT !.claimable[h] = @ + assets, !.claimableTotal = @ + assets]]

\* shares of request id are bought: paid out of the vault, burned, unlocked and credited to its owner.
Bought(w, id, shares, assets) ==
  LET h == w.v.requests[id].owner
  IN  Then(Then(Then(PayOut(w, assets), LAMBDA x : Burn(x, h, shares)), LAMBDA x : Unlock(x, id, shares)),
           LAMBDA x : Credited(x, h, assets))

\* q.ok is FALSE once a payout reverts.
ServeShares(q, id, shares, assets) ==
  [q EXCEPT !.w = Bought(q.w, id, shares, assets), !.budget = q.budget - assets,
            !.ok = q.ok /\ CanPayOut(q.w, assets)]

\* Mutant: the queue moves on past a request served in part.
NextHeadAlways(q, id, all, shares) == [q EXCEPT !.head = id + 1]

\* A request served in part stays at the head and ends the call.
NextHead(q, id, all, shares) ==
  IF shares = all THEN [q EXCEPT !.head = id + 1] ELSE [q EXCEPT !.stop = TRUE]

\* A request worth nothing is handed back, so that it cannot stall the queue.
HandBack(q, id, all) == [q EXCEPT !.head = id + 1, !.w = Unlock(q.w, id, all)]

ServeHead(q, id) ==
  LET all == q.w.v.requests[id].shares
      worth == ToAssets(q.w, all)
      shares == Affordable(q, all, worth)
      assets == ToAssets(q.w, shares)
  IN  IF q.stop THEN q
      ELSE IF all = 0 THEN [q EXCEPT !.head = id + 1]
      ELSE IF worth = 0 THEN HandBack(q, id, all)
      ELSE IF shares = 0 \/ assets = 0 THEN [q EXCEPT !.stop = TRUE]
      ELSE Then(ServeShares(q, id, shares, assets), LAMBDA r : NextHead(r, id, all, shares))

\* One request of serveRequests' loop; q.stop leaves the loop.
ServeOne(q, id) == Then(q, LAMBDA r : ServeHead(r, id))

\* What the loop leaves of the queue as the checkpoint found it.
Served(w, count, maxAssets) ==
  LET ids == [i \in 1 .. Atmost(count, Len(w.v.requests) - w.v.head + 1) |-> w.v.head + i - 1]
  IN  FoldLeft(ServeOne,
               [w |-> w, budget |-> Atmost(maxAssets, FreeLiquidity(w)), stop |-> FALSE,
                head |-> w.v.head, ok |-> TRUE], ids)

ServeRequests(count, maxAssets) ==
  /\ \E w \in {Checkpoint(World)} : \E q \in {Served(w, count, maxAssets)} :
       /\ q.ok
       /\ Become([q.w EXCEPT !.v.head = q.head])
  /\ UNCHANGED around

Claim(h) ==
  /\ v.claimable[h] # 0
  /\ Usdg
  /\ Become(Send([World EXCEPT !.v = [v EXCEPT !.claimable[h] = 0, !.claimableTotal = @ - v.claimable[h]]],
                 "USDG", v.claimable[h]))
  /\ UNCHANGED around

ClaimPocket(p, h) ==
  LET pocket == v.pockets[p]
      amount == PocketShare(World, p, h)
  IN  /\ pocket.supply # 0
      /\ <<p, h>> \notin v.pocketClaimed
      /\ amount # 0
      /\ pocket.token \notin stopped
      /\ Become(Send([World EXCEPT !.v = [v EXCEPT !.pockets[p].claimed = @ + amount,
                                                   !.pocketLiability[pocket.token] = @ - amount,
                                                   !.pocketClaimed = @ \cup {<<p, h>>}]],
                     pocket.token, amount))
      /\ UNCHANGED around

RewardsAvailable(w) == Over(w.held["SGAGE"], w.v.pocketLiability["SGAGE"] + w.v.orphan)

ClaimRewards(h) ==
  /\ "SGAGE" \notin stopped
  /\ \E x \in {SettleRewards(Checkpoint(World), h)} : \E amount \in {Atmost(x.v.owed[h], RewardsAvailable(x))} :
       /\ amount # 0
       /\ Become(Send([x EXCEPT !.v = [x.v EXCEPT !.owed[h] = @ - amount, !.accounted = @ - amount,
                                                  !.liability = @ - amount]], "SGAGE", amount))
  /\ UNCHANGED around

(***************************************************************************)
(* Reserve.                                                                *)
(***************************************************************************)
InvestReserve(assets) ==
  LET shares == assets \div reserve.rate
  IN  /\ ~v.paused
      /\ ReserveOpen
      /\ assets # 0 /\ assets <= v.cash
      /\ shares # 0
      /\ Become(Send([World EXCEPT !.v = [v EXCEPT !.cash = @ - assets, !.reserveShares = @ + shares]],
                     "USDG", assets))
      /\ UNCHANGED around

DivestReserve(shares) ==
  LET assets == shares * reserve.rate
  IN  /\ ReserveOpen
      /\ shares # 0 /\ shares <= v.reserveShares
      /\ reserve.limit # 0 => assets <= reserve.limit
      /\ Become(Receive([World EXCEPT !.v.reserveShares = @ - shares], assets))
      /\ UNCHANGED around

(***************************************************************************)
(* Loans.                                                                  *)
(***************************************************************************)
Empty(w, d) == Slots \ (w.core.deal[d].mine \cup w.core.deal[d].others)

Exposure(w) == w.v.performing + w.v.overduePrincipal

\* _checkDeal, of units units at principal.
Eligible(w, d, units, principal) ==
  LET t == Terms[d]
  IN  /\ d \notin w.v.funded
      /\ w.core.deal[d].state = "FUNDING"
      /\ now < t.deadline
      /\ units \in 1 .. Units(Empty(w, d))
      /\ principal # 0
      /\ t.term <= MaxLoanTerm
      /\ t.cap >= t.principal + Ceil(t.principal * MinReturnBps, BPS)
      /\ w.v.lanePrincipal[t.lane] + principal <= (w.v.weight[t.lane] * FullAssets(w)) \div BPS
      /\ Exposure(w) + principal <= (MaxGageExposureBps * FullAssets(w)) \div BPS

\* Mutant: an approval of an earlier epoch is subtracted from a total it is not in.
RevokeAnyEpoch(w, d) ==
  [w EXCEPT !.v.approvedPrincipal = @ - w.v.approvals[d].principal, !.v.approvals[d] = NoApproval]

\* _revoke: a pause already dropped the approvals of earlier epochs from the total.
Revoke(w, d) ==
  LET old == w.v.approvals[d]
  IN  [w EXCEPT !.v =
         [w.v EXCEPT !.approvals[d] = NoApproval,
                     !.approvedPrincipal = IF old.epoch = w.v.epoch THEN @ - old.principal ELSE @]]

ApproveLoan(d, validUntil, units) ==
  LET principal == units * Ceil(Terms[d].principal, UNITS)
      w == Revoke(World, d)
  IN  /\ ~v.paused
      /\ validUntil > now /\ validUntil <= now + MAX_APPROVAL_TTL
      /\ Eligible(World, d, units, principal)
      /\ w.v.approvedPrincipal + Exposure(w) + principal <= v.cap
      /\ Become([w EXCEPT !.v =
                   [w.v EXCEPT !.approvals[d] = [validUntil |-> validUntil, principal |-> principal,
                                                 epoch |-> v.epoch, units |-> units],
                               !.approvedPrincipal = @ + principal]])
      /\ UNCHANGED around

\* The curator at any time; anybody once the approval has expired.
RevokeLoan(d) ==
  /\ Become(Revoke(World, d))
  /\ UNCHANGED around

\* The first units empty slots, as the loan engine fills them.
SelectSlots(w, d, units) == {i \in Empty(w, d) : Units({j \in Empty(w, d) : j < i}) < units}

LeavesRequestsCovered(w, principal) ==
  w.v.cash + ReserveValue(w) - principal >= PendingRequestAssets(w)

\* The engine activates the loan when these units are its last.
Filled(w, d, taken) ==
  LET full == Empty(w, d) = taken
  IN  [w EXCEPT !.core.deal[d] =
         [w.core.deal[d] EXCEPT !.mine = taken, !.state = IF full THEN "ACTIVE" ELSE @,
                                !.fundedAt = IF full THEN now ELSE @]]

\* The books of a purchase, once it is paid for.
Booked(w, d, taken, principal) ==
  [w EXCEPT !.v =
     [w.v EXCEPT !.funded = @ \cup {d}, !.openLoans = Append(@, d),
                 !.loanFee[d] = v.feeBps, !.slots[d] = taken, !.position[d] = principal,
                 !.performing = @ + principal,
                 !.borrowerPrincipal[Terms[d].borrower] = @ + principal,
                 !.lanePrincipal[Terms[d].lane] = @ + principal]]

\* fund, after its checkpoint.
Buy(w, d) ==
  LET approval == w.v.approvals[d]
      taken == SelectSlots(w, d, approval.units)
      principal == Share(Terms[d].principal, taken)
  IN  /\ Len(w.v.openLoans) < MAX_OPEN_LOANS
      /\ approval.principal # 0 /\ approval.epoch = v.epoch /\ now <= approval.validUntil
      /\ Eligible(w, d, approval.units, principal)
      /\ principal <= approval.principal
      /\ principal <= w.v.cash + ReserveValue(w)
      /\ LeavesRequestsCovered(w, principal)
      /\ CanPayOut(w, principal)
      /\ Become(Send(Filled(Booked(Revoke(PayOut(w, principal), d), d, taken, principal), d, taken),
                     "USDG", principal))

Fund(d) ==
  /\ ~v.paused
  /\ Usdg
  /\ \E w \in {Checkpoint(World)} : Buy(w, d)
  /\ UNCHANGED around

\* Curator only: the units leave a listing that has not activated.
WithdrawCommitment(d) ==
  /\ d \in v.funded \ (v.withdrawn \cup v.terminal)
  /\ core.deal[d].state = "FUNDING"
  /\ v' = [v EXCEPT !.withdrawn = @ \cup {d}]
  /\ core' = [core EXCEPT !.deal[d] = [core.deal[d] EXCEPT !.mine = {}],
                          !.credit = @ + Share(Terms[d].principal, core.deal[d].mine)]
  /\ UNCHANGED <<held, around>>

MarkOverdue(d) ==
  /\ d \in v.funded \ (v.terminal \cup v.overdue)
  /\ core.deal[d].state # "REPAID"
  /\ Impaired(Loan(World, d))
  /\ Become(WriteDown(World, d))
  /\ UNCHANGED around

\* settle: its ids are only validated.
Settle ==
  /\ v.funded # {}
  /\ \E w \in {Checkpoint(World)} : Become(w)
  /\ UNCHANGED around

Harvest ==
  /\ Become(HarvestCash(World))
  /\ UNCHANGED around

HarvestRewards(d) ==
  /\ d \in v.funded
  /\ Become(ReconcileRewards(AccrueReward(World, d)))
  /\ UNCHANGED around

(***************************************************************************)
(* The curator's settings, and the fee companion.                          *)
(***************************************************************************)
Set(w) == Become(w) /\ UNCHANGED around

SetLaneWeight(lane, bps) ==
  /\ SumOver(Lanes, [v.weight EXCEPT ![lane] = bps]) <= BPS
  /\ Set([World EXCEPT !.v.weight[lane] = bps])

SetMaxTotalDeposits(cap) == Set([World EXCEPT !.v.cap = cap])
SetFee(bps) == Set([World EXCEPT !.v.feeBps = bps])

\* Either way every approval given so far is void.
SetPaused(enabled) ==
  Set([World EXCEPT !.v = [v EXCEPT !.paused = enabled, !.epoch = @ + 1, !.approvedPrincipal = 0]])

DistributeFees(amount) ==
  LET protocolShare == (amount * PROTOCOL_SHARE) \div BPS
  IN  fees' = [fees EXCEPT !.balance = @ + amount, !.protocol = @ + protocolShare,
                           !.curator = @ + amount - protocolShare]

ClaimFees ==
  /\ v.feeAccrued # 0
  /\ Usdg
  /\ Become(Send([World EXCEPT !.v.feeAccrued = 0], "USDG", v.feeAccrued))
  /\ DistributeFees(v.feeAccrued)
  /\ UNCHANGED <<now, reserve, stopped, used>>

ClaimCurator ==
  /\ fees.curator # 0 /\ Usdg
  /\ fees' = [fees EXCEPT !.balance = @ - fees.curator, !.curator = 0]
  /\ UNCHANGED <<world, now, reserve, stopped, used>>

ClaimProtocol ==
  /\ fees.protocol # 0 /\ Usdg
  /\ fees' = [fees EXCEPT !.balance = @ - fees.protocol, !.protocol = 0]
  /\ UNCHANGED <<world, now, reserve, stopped, used>>

(***************************************************************************)
(* Outside: other users of the loan engine, the reserve, tokens, time.     *)
(***************************************************************************)
OthersFill(d) ==
  /\ core.deal[d].state = "FUNDING" /\ now < Terms[d].deadline
  /\ core' = [core EXCEPT !.deal[d] = [core.deal[d] EXCEPT !.others = Slots \ core.deal[d].mine,
                                                           !.state = "ACTIVE", !.fundedAt = now]]
  /\ UNCHANGED <<v, held, around>>

Ended(d, state, total) ==
  core' = [core EXCEPT !.deal[d] = [core.deal[d] EXCEPT !.state = state, !.closedAt = now],
                       !.credit = @ + Share(total, core.deal[d].mine)]

Cancel(d) ==
  /\ core.deal[d].state = "FUNDING"
  /\ Ended(d, "CANCELLED", Terms[d].principal)
  /\ UNCHANGED <<v, held, around>>

Repay(d) ==
  /\ core.deal[d].state = "ACTIVE"
  /\ Ended(d, "REPAID", Terms[d].cap)
  /\ UNCHANGED <<v, held, around>>

FinalizeDefault(d) ==
  /\ core.deal[d].state = "ACTIVE" /\ GraceOver(Loan(World, d))
  /\ Become(Finalized(World, d))
  /\ UNCHANGED around

\* withdrawUSDGFor and claimFor pay the strategy without telling it.
PushCash ==
  /\ core.credit # 0 /\ Usdg
  /\ held' = [held EXCEPT !["USDG"] = @ + core.credit]
  /\ core' = [core EXCEPT !.credit = 0]
  /\ UNCHANGED <<v, around>>

PushReward(d) ==
  /\ core.reward[d] # 0 /\ "SGAGE" \notin stopped
  /\ held' = [held EXCEPT !["SGAGE"] = @ + core.reward[d]]
  /\ core' = [core EXCEPT !.reward[d] = 0]
  /\ UNCHANGED <<v, around>>

EarnReward(d, amount) ==
  /\ core.deal[d].state = "ACTIVE" /\ core.deal[d].mine # {}
  /\ used.rewards + amount <= MaxRewards
  /\ core' = [core EXCEPT !.reward[d] = @ + amount]
  /\ used' = [used EXCEPT !.rewards = @ + amount]
  /\ UNCHANGED <<v, held, now, reserve, stopped, fees>>

Give(gift) ==
  /\ used.gifts < MaxGifts /\ gift.token \notin stopped
  /\ held' = [held EXCEPT ![gift.token] = @ + gift.amount]
  /\ used' = [used EXCEPT !.gifts = @ + 1]
  /\ UNCHANGED <<v, core, now, reserve, stopped, fees>>

MoveReserve ==
  /\ reserve' \in [rate : Rates, limit : Limits] \ {reserve}
  /\ UNCHANGED <<world, now, stopped, fees, used>>

Outage ==
  /\ stopped' \in Outages \ {stopped}
  /\ UNCHANGED <<world, now, reserve, fees, used>>

Tick ==
  /\ now < MaxTime
  /\ now' = now + 1
  /\ UNCHANGED <<world, reserve, stopped, fees, used>>

DoDeposit == \E h \in Holders, a \in Amounts : used.deposits < MaxDeposits /\ Deposit(h, a)
DoRedeem == \E h \in Holders, x \in Redemptions : Redeem(h, x)
DoWithdraw == \E h \in Holders, a \in Amounts : Withdraw(h, a)
DoRequestRedeem == \E h \in Holders, x \in RequestSizes : Len(v.requests) < MaxRequests /\ RequestRedeem(h, x)
DoCancelRequest == \E id \in DOMAIN v.requests : CancelRequest(id)
DoServeRequests == \E n \in 1 .. MaxRequests, b \in Budgets : ServeRequests(n, b)
DoClaim == \E h \in Holders : Claim(h)
DoClaimPocket == \E p \in DOMAIN v.pockets, h \in Holders : ClaimPocket(p, h)
DoClaimRewards == \E h \in Holders : ClaimRewards(h)
DoInvestReserve == \E a \in Investments : InvestReserve(a)
DoDivestReserve == \E x \in Investments : DivestReserve(x)
DoApproveLoan ==
  \E d \in Listed, units \in UnitChoices, ttl \in 1 .. MAX_APPROVAL_TTL : ApproveLoan(d, now + ttl, units)
DoRevokeLoan == \E d \in Deals : RevokeLoan(d)
DoFund == \E d \in Deals : Fund(d)
DoWithdrawCommitment == \E d \in Deals : WithdrawCommitment(d)
DoMarkOverdue == \E d \in Deals : MarkOverdue(d)
DoHarvestRewards == \E d \in Deals : HarvestRewards(d)
DoSetLaneWeight == \E lane \in Lanes, bps \in Weights : SetLaneWeight(lane, bps)
DoSetMaxTotalDeposits == \E cap \in Caps : SetMaxTotalDeposits(cap)
DoSetFee == \E bps \in FeeRates : SetFee(bps)
DoSetPaused == \E enabled \in Pauses : v.epoch < MaxEpochs /\ SetPaused(enabled)
DoOthers == \E d \in Listed : OthersFill(d) \/ Cancel(d) \/ Repay(d) \/ FinalizeDefault(d) \/ PushReward(d)
DoEarnReward == \E d \in Deals, amount \in RewardSteps : EarnReward(d, amount)
DoGive == \E gift \in Gifts : Give(gift)

Next ==
  \/ DoDeposit \/ DoRedeem \/ DoWithdraw
  \/ DoRequestRedeem \/ DoCancelRequest \/ DoServeRequests \/ DoClaim
  \/ DoClaimPocket \/ DoClaimRewards
  \/ DoInvestReserve \/ DoDivestReserve
  \/ DoApproveLoan \/ DoRevokeLoan \/ DoFund \/ DoWithdrawCommitment
  \/ DoMarkOverdue \/ Settle \/ Harvest \/ DoHarvestRewards
  \/ DoSetLaneWeight \/ DoSetMaxTotalDeposits \/ DoSetFee \/ DoSetPaused
  \/ ClaimFees \/ ClaimCurator \/ ClaimProtocol
  \/ DoOthers \/ PushCash \/ DoEarnReward \/ DoGive \/ MoveReserve \/ Outage \/ Tick

Spec == Init /\ [][Next]_vars

(***************************************************************************)
(* Properties.                                                             *)
(***************************************************************************)
StrategyType ==
  [paused : BOOLEAN, feeBps : 0 .. BPS, weight : [Lanes -> 0 .. BPS], cap : Nat,
   epoch : Nat, approvedPrincipal : Nat,
   approvals : [Deals -> [validUntil : Nat, principal : Nat, epoch : Nat, units : 0 .. UNITS]],
   cash : Nat, reserveShares : Nat, performing : Nat, overduePrincipal : Nat,
   lockedProfit : Nat, unlockStart : Nat, unlockEnd : Nat,
   harvested : Nat, assigned : Nat, feeAccrued : Nat, highWater : Nat,
   supply : Nat, balance : [Holders -> Nat], lockedShares : [Holders -> Nat],
   requests : Seq([owner : Holders, shares : Nat]), head : Nat \ {0}, pendingShares : Nat,
   claimable : [Holders -> Nat], claimableTotal : Nat,
   snapshots : [Holders -> Seq([id : Nat, balance : Nat])], snapshotCount : Nat,
   loanSnapshot : [Deals -> Nat], loanSnapshotSupply : [Deals -> Nat],
   pockets : Seq([deal : Deals, token : Tokens, amount : Nat, claimed : Nat, supply : Nat, snapshot : Nat]),
   pocketClaimed : SUBSET (Nat \X Holders), pocketLiability : [Tokens -> Nat],
   accPerShare : Nat, orphan : Nat, accounted : Nat, liability : Nat,
   observed : [Deals -> Nat], index : [Holders -> Nat], owed : [Holders -> Nat],
   funded : SUBSET Deals, terminal : SUBSET Deals, withdrawn : SUBSET Deals, overdue : SUBSET Deals,
   openLoans : Seq(Deals), slots : [Deals -> SUBSET Slots], position : [Deals -> Nat],
   loanFee : [Deals -> 0 .. BPS], lanePrincipal : [Lanes -> Nat],
   borrowerPrincipal : [{Terms[d].borrower : d \in Deals} -> Nat]]

\* The type invariant: no checked subtraction of the strategy's books ever
\* runs below zero, so none of the entry points can be bricked by one.
TypeOK ==
  /\ v \in StrategyType
  /\ held \in [Tokens -> Nat]
  /\ core.credit \in Nat

SumHolders(f) == SumOver(Holders, f)

\* The USDG the strategy holds covers every claim on it: idle cash, fees,
\* credited requests, side pockets and cash that arrived but settled no loan
\* yet.  The rewards promised, set aside or put in side pockets exist, here or
\* at the engine, and holders may claim no more than was promised.  No outage,
\* donation or push by a stranger counts a coin or a reward twice.
Backed ==
  /\ v.assigned <= v.harvested
  /\ Accounted(World) <= held["USDG"]
  /\ v.claimableTotal = SumHolders(v.claimable)
  /\ \A t \in Tokens : v.pocketLiability[t] <= held[t]
  /\ v.accounted + v.orphan + v.pocketLiability["SGAGE"]
       <= held["SGAGE"] + SumOver(Deals, core.reward)
  /\ v.liability = SumHolders(v.owed)
  /\ SumHolders([h \in Holders |-> v.owed[h] + Accruing(World, h)]) <= v.accounted

\* Shares are conserved across balances, locks and the queue; the queue serves
\* in order: nothing before its head still waits, and a lock is never left on
\* shares that are gone.
QueueKeepsShares ==
  /\ v.supply = SumHolders(v.balance)
  /\ v.pendingShares = SumHolders(v.lockedShares)
  /\ \A h \in Holders :
       /\ v.lockedShares[h] <= v.balance[h]
       /\ v.lockedShares[h] =
            SumOver({id \in DOMAIN v.requests : v.requests[id].owner = h},
                    [id \in DOMAIN v.requests |-> v.requests[id].shares])
  /\ \A id \in DOMAIN v.requests : id < v.head => v.requests[id].shares = 0

\* A quote to leave at once holds (HybridVault.sol:396, :404): unless a token is
\* stopped, the quoted shares or assets are paid out, whatever the checkpoint
\* that the exit starts with settles, writes down and releases.
ExitQuotesHold ==
  stopped = {} =>
    \A c \in {Checkpoint(World)}, h \in Holders :
       LET assets == MaxWithdraw(World, h)
       IN  /\ CanPayOut(c, ToAssets(c, MaxRedeem(World, h)))
           /\ assets # 0 => CanPayOut(c, assets) /\ PreviewWithdraw(c, assets) <= Free(c, h)

\* A holder can always take the shares that are free, in either way out.
SharesCanLeave == QueueKeepsShares /\ ExitQuotesHold

\* Profit still unlocking is part of the assets, unless the reserve lost it.
LockedIsThere(w) == LockedAfterLoss(w) <= FullAssets(w)

\* At a given time, with the reserve unmoved and no rounding in it, no step of anybody lowers what a
\* share is worth, on the full or on the released assets: entering, leaving,
\* settling, writing down, charging a fee or serving the queue never moves
\* value from the holders who did nothing.  (After a fall of the reserve that
\* leaves less than what is still locked nothing is released, and newcomers
\* share in that nothing.)
SharesKeepWorth ==
  now' = now /\ reserve' = reserve /\ reserve.rate = 1 =>
    /\ (FullAssets(World)' + 1) * (v.supply + VIRTUAL_SHARES)
         >= (FullAssets(World) + 1) * (v'.supply + VIRTUAL_SHARES)
    /\ LockedIsThere(World) =>
         (TotalAssets(World)' + 1) * (v.supply + VIRTUAL_SHARES)
           >= (TotalAssets(World) + 1) * (v'.supply + VIRTUAL_SHARES)
NobodyDilutesOthers == [][SharesKeepWorth]_vars

\* Every running total of the loan book is the sum over the loans, and the list
\* a checkpoint walks is exactly the loans it has not retired: settling out of
\* order, late, withdrawn or re-approved loans leaves no residue in a limit.
BookAddsUp ==
  LET live == v.funded \ v.terminal
      sum(S) == SumOver(S, v.position)
  IN  /\ IsInjective(v.openLoans) /\ ToSet(v.openLoans) = live
      /\ v.performing = sum(live \ v.overdue)
      /\ v.overduePrincipal = sum(live \cap v.overdue)
      /\ \A l \in Lanes : v.lanePrincipal[l] = sum({d \in live : Terms[d].lane = l})
      /\ \A b \in DOMAIN v.borrowerPrincipal :
           v.borrowerPrincipal[b] = sum({d \in live : Terms[d].borrower = b})
      /\ v.approvedPrincipal =
           SumOver({d \in Deals : v.approvals[d].epoch = v.epoch},
                   [d \in Deals |-> v.approvals[d].principal])

\* What the strategy promises it has, and its loan book is what its loans say.
BackedByTheBook == Backed /\ BookAddsUp

RecordOf(d, h) == BalanceAt(World, h, v.loanSnapshot[d])

\* Once a loan is written down, whose it was is settled: no deposit,
\* redemption or served request changes anybody's balance of record.
RecordIsFixed ==
  [][\A d \in v.overdue, h \in Holders : RecordOf(d, h)' = RecordOf(d, h)]_vars

\* A side pocket divides exactly over the balances of record of its loan:
\* whatever the order of claims, nobody is short and the liability is right.
\* No late or defaulted loan is retired through the share price: it was first
\* written down against the holders of that moment.  And nothing that happens
\* later moves a share of what is recovered.
PocketsAreFair ==
  /\ [](/\ \A p \in DOMAIN v.pockets :
             LET pocket == v.pockets[p]
             IN  /\ SumHolders([h \in Holders |-> BalanceAt(World, h, pocket.snapshot)]) = pocket.supply
                 /\ pocket.claimed =
                      SumOver({h \in Holders : <<p, h>> \in v.pocketClaimed},
                              [h \in Holders |-> PocketShare(World, p, h)])
        /\ \A t \in Tokens :
             v.pocketLiability[t] =
               SumOver({p \in DOMAIN v.pockets : v.pockets[p].token = t},
                       [p \in DOMAIN v.pockets |-> v.pockets[p].amount - v.pockets[p].claimed])
        /\ \A d \in v.terminal \ v.withdrawn :
             Impaired(Loan(World, d)) => d \in v.overdue /\ v.loanSnapshot[d] # 0)
  /\ RecordIsFixed

\* A fee is charged only on a gain that takes the share price above every
\* earlier mark: what the next checkpoint would charge leaves the price, with
\* every loss known at that moment deducted, at the mark or above.
FeesOnlyOnNewHighs ==
  LET w == Checkpoint(World)
  IN  w.v.feeAccrued > v.feeAccrued => Price(FullAssets(w), w.v.supply) >= v.highWater

\* The share price is fair to those who do nothing: no step of anybody lowers
\* it, and a fee is taken only where it stands above every earlier mark.
SharePriceIsFair == NobodyDilutesOthers /\ []FeesOnlyOnNewHighs
=============================================================================
