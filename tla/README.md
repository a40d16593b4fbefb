# Formal models of the Gage protocol

Gage is a lending protocol without liquidations.  A borrower posts collateral
and asks for USDG; lenders fund the loan; the borrower may reclaim at a fixed
price until a deadline, and afterwards the collateral is the lenders'.  Around
the loans stand an sGAGE reward schedule, liquidity rewards, a fee route that
ends in buying back GAGE, the Earn strategies that lend pooled USDG, and the
off-chain services: a keeper, an indexer and a notifier.

This directory holds TLA+ models of the code that moves value or has to survive
failure, the TLC configurations that check them, and TLAPS proofs about the
keeper's journal, the V2 loan engine with its reward ledger, the Earn strategy,
the first escrow with its fee sink, the token contracts, and the notifier.
Everything is translated from the source; `PROJECT.json` names for each
definition the lines it stands for.

Contents: [1 The system](#1-the-system), [2 Plan](#2-plan),
[3 Modules and code](#3-modules-and-code), [4 Runs](#4-runs),
[5 Fairness](#5-fairness), [6 Proofs](#6-proofs),
[7 Findings](#7-findings), [8 Not modelled](#8-not-modelled).

## 1 The system

| Part | State it keeps | Who calls it |
| --- | --- | --- |
| `DealVault` (+ `V2`/`V3` adapters, LP-only and zap versions) | deals, bids, the reclaim right, credits, custody | borrowers, lenders, routers |
| `CollateralRegistry` | allowlist, caps, fee, terms, pause | its owner; read by the escrow |
| `FeeSink`, `LPFeeForwarder` | collected fees and where they go | anyone; owner for the route |
| `GageV2Vault`, `GageV2CollateralAccount` (contracts) | loans of four units, asks, one account per loan | borrowers, lenders, buyers, Earn |
| `GageV2Registry` | admission, limits, fees | its owner; read by the vault |
| `GageV2Rewards` | budget and the quadratic accrual of each loan | the vault; anyone claims |
| `GageLegacyAdapter` | shadow deals in the first escrow, bridge ledger | the V2 vault |
| `HybridVault`, `HybridFees` | shares, queue, reserve, loan book, pockets, fees | holders, curator, keeper |
| `Emissions`, `DealRewards`, `Drip` | weekly reserve, rates, registered deals, grants | anyone, keeper, owner |
| `LPRewards` (+ hook), `LPStreamer` | weights and accrual of positions, pots | pool manager, anyone |
| `CreatorFeeSplitter`, `PonsCreatorFeeSplitter`, `FeeFloor` | ETH shares, batches, floor bands | launchpad, anyone |
| `DealFeeRouter`, `Buyback` | batched USDG, clips | the fee sink, anyone |
| reinvest, zap, entry and cash-out routers | nothing between calls | users |
| `DevSeedLock` / `PonsSeedLock`, `SeedGraduationBootstrap` | the founder's liquidity for a year | worker, dev |
| keeper: sender and journal | `keeper.tx.json`, one promise queue | every job |
| keeper: jobs | `state.json`, cursors, records of backstop deals | the scheduler's timer |
| indexer | tables of deals, bids, drips, weeks, positions; Earn rows | Ponder, from chain events |
| notifier | ledger of what was sent, settings | its poll, two HTTP writes |

They interact in four ways.  *Calls inside one transaction*: escrow → fee sink
→ fee router → splitter → floor; vault → account, reward ledger, adapter; Earn
→ vault.  *Callbacks*: pool manager → hook → `LPRewards`; `unlock` and flash
callbacks into routers.  *Polling*: the keeper and the notifier read the chain
or the indexer at one moment and act at a later one.  *Events*: the indexer
handles the events of one block while the chain is already further.

What is hard, by kind (each with its line in `PROJECT.json`, `hazards`):

- **Interleavings of owners.**  A deal, a loan or a position passes through many
  hands; every ask, bid, credit, request and record must still mean what it
  meant when it was posted (`GageV2Vault.sol:458`, `DealVault.sol:343`,
  `HybridVault.sol:1009`).
- **Configuration that moves.**  Registry owners change fees, lists, terms and
  pauses while deals are open (`DealVault.sol:375`).
- **Somebody's exit closed by somebody else.**  Stopped USDG accounts, checked
  arithmetic on shared ledgers, a queue whose head is stuck (`DealVault.sol:260`,
  `GageV2Vault.sol:602`, `HybridVault.sol:535`).
- **Late and out of order.**  Epochs are released, registered for and rolled
  over in any order; loans settle long after they ended; fee batches count
  money that others move (`Emissions.sol:120`, `HybridVault.sol:793`,
  `DealFeeRouter.sol:94`).
- **Crash, lost answer, retry.**  The keeper's journal, the seed worker, the
  notifier's send-then-record (`transaction-journal.ts:45`, `seed-worker.ts:75`,
  `poller.ts:290`).
- **Reads used later.**  Positions listed before a pass, prices sampled before a
  posting, chain reads of a handler of an old block (`checkpoint.ts:187`,
  `rates.ts:121`, `token.ts:630`).

What makes each part correct: money and collateral follow the recorded outcome;
what is owed is held; an exit once open stays open; a reward is earned by time
alone and paid once; a router keeps nothing and takes nothing of others; a
nonce never carries two live transactions and none is forgotten; a table agrees with the chain
once it has caught up; and whatever has been started ends.

## 2 Plan

The order in which the models were written, most valuable code first: the V2
engine with its ledgers and its proofs; the sender and its journal with the
refinement of `WalletLog`; Earn; the token contracts; the first escrow; the
notifier; the fee side and the routers; the keeper's jobs; the indexer.  Each
component is a module parameterised by CONSTANTS; an `MC` module per group binds
them and composes those that interact.  All of the plan is carried out.  What a
team would add next: the second stream as a theorem on the lemmas of
`TokenProofs`, a bound on what a reserve rate above one rounds away from the
holders of a strategy, and the keeper's fee jobs over the fee contracts.

## 3 Modules and code

One transaction is one action: every entry point of the contracts is
`nonReentrant` or ends in its transfers, and a revert is an action not taken.
Operators carry the names of the functions they translate; `Do…` actions only
choose inputs.  Constants that end a run early (`Max…`) are bounds of the model
and stand in guards of the steps that would grow without end.

### 3.1 The V2 loan engine

`GageV2Vault` (`contracts/src/v2/GageV2Vault.sol`) holds `loans`, `lenders`, the
reclaim `right`, the asks and the cash ledger.  It works with `GageV2Registry`
(the configuration, changed by its owner between any two calls), with one
collateral `account` per loan (`GageV2CollateralAccount.sol`: a record with the
operators `Released`, `Recovered` and `PaidRecovery`), and with `GageV2Rewards`
(budget, reserved reward, the accrual of each loan and who receives it).
`Quarters` is the arithmetic of the four units: a slice is the amount over four,
and the first slices take the remainder.  `LegacyAdapter` models
`GageLegacyAdapter` and `GageV2BridgeRewards`: opening, paying, recycling and
closing the shadow deals through which the second protocol's loans earn from the
first one's budget.

Actions: `List`, `FundPart` and `FundLast` (the call that activates the loan),
`WithdrawCommitment`, `CancelFunding`, `Reclaim`, `FinalizeDefault`, what follows
an end (`WithdrawCollateral`, `WithdrawRepaidUnderlying`, `RecoverDefault`,
`WithdrawRecovery`), the asks for the right and for units with their
cancellation and sale, the claims of cash and rewards, and every setter of the
registry.  `AddLiquidity` lets outsiders add to a position in custody.

### 3.2 Earn

`HybridVault` models `HybridVault.sol` and `HybridFees.sol`.  Most entry points
begin with a checkpoint that settles every open loan in turn, so its operators
take a *world* (storage `v`, the engine's books `core`, balances `held`) to the
next one.  `Checkpoint`, `SettleLoan`, `WriteDown`, `Arrived`, `ServeOne`, `PayOut`,
`ReportProfit` follow the code's order of assignments.  The loan engine is the
abstract one its own runs justify; the reserve is an ERC-4626 vault with a rate
and a withdrawal limit that move, whose calls or whose tokens may revert
(`stopped`).  Donated tokens, pushed cash and pushed rewards are environment
steps.

`KeeperEarn` puts the keeper's Earn job (`jobs/earn.ts`) to work on it: a tick
reads one snapshot, plans seven phases from it, and sends each call as a
transaction of its own to the strategy as it is by then; calls revert, are
refused or lose their answer, wait for a retry time, or end the tick.

`EarnIndex` models what the indexer makes of such a strategy
(`earn-sync.ts`, `earn.ts`, `earn-account-state.ts`, `earn-api.ts`): the share
ledger, snapshots of write-downs, pockets, requests, the work queue that
publishes accounts, and an API answer put together in two reads while blocks are
indexed.

### 3.3 Token contracts

`Emissions` holds the balance sheet of sGAGE, the grants and the quadratic
unlocking of `Drip`, and the reserve: the weekly table, shares, `release`, `reserve`, `rollover`, `finalize` and the T2 ceiling; `DealRewards` posts rates and registers funded deals;
`LPRewards` the accumulator per weight with checkpoints by anyone and by the
hook, lumps, collects, the seed and the floor's positions; `LPStreamer` the
second stream with pots per epoch.

### 3.4 The first escrow

`DealVault` models `DealVault.sol` with `CollateralRegistry.sol` and the zap
entry (`DealVaultV1Zap`); `DealVaultLP` adds the LP-only versions 2 and 3
(position and hook checks of `UniV4PositionAdapter`, the forwarder that shares
their fees); `FeeSink` collects, sweeps and routes.

### 3.5 Fees and routers

`V4Swapper` gives what swaps may return and cost; `CreatorFeeSplitter` and
`FeeFloor` (`PonsCreatorFeeSplitter.sol` and `FeeFloor.sol`, the one on top of the
other as in the code) the creator's ETH and the ladder of one-sided positions it pays for;
`DealFeeRouter` the deal fee's two ways (sink and `Buyback`).
`ReinvestRouter` and `PonsReinvestRouter`, with the zaps of `GageZapRouter.sol`,
are the reinvest family; `ZapRouter` the LP zap with its quoter and the ETH entry routers;
`CashoutRouter` the flash-loan exit.  `SeedLock` holds the two locks, their
bootstraps and `seed-worker.ts`, whose transactions are mined late or never.

### 3.6 Services

`TransactionJournal` is `sender.ts` with `transaction-journal.ts`: the promise
queue, `execute`, `recoverPending`, the file, and every `await` between them, with
the RPC node (lost answers, dropped transactions, lagging reads), foreign use of
the nonce and crashes as environment.  A wait for a receipt resolves also with that
of another transaction that took the nonce (`Replaced`): the journal is cleared
and the caller told "sent", since neither compares hashes.  `WalletLog` is the abstract
specification: one transaction in flight, each decided once (mined, reverted,
or void because the owner used its nonce), each outcome told to the caller;
the refinement maps the journal file to the one in flight.

`KeeperScan` models the checkpoint, swap-watch and boundary jobs over a pool that
changes under them; `KeeperEpochs` the epoch and rates jobs against a market and
an owner who posts by hand; `KeeperDeals` planning, listing, funding,
registering, reclaiming and depositing of backstop deals with the record file,
restarts, and rivals who fund a listed deal and claim its collateral after the
term and the grace.

`IndexerTables` models the Ponder handlers over a chain they read late;
`Notifier` the poll, its retries, reminders, the Earn notices and the epoch
roll, with a provider whose answer may be lost.

### 3.7 Compositions

| MC module | Modules | Scenarios |
| --- | --- | --- |
| `MCVault` | `GageV2Vault` with registry, accounts, rewards | pool, admission, units, rights, default |
| `MCHybrid` | `KeeperEarn` over `HybridVault` | queue, loans, pockets, fees, rewards; keeper |
| `MCDealVault` | `FeeSink` over `DealVault`, `DealVaultLP` | bids, rights, places, routes; lp |
| `MCTokens` | `DealRewards`, `LPRewards`, `Emissions`; `LPStreamer` | deals, whole, pair, stream, streams |
| `MCFees` | the splitters, floor, fee router, seed lock, adapter, routers | creator, pons, floor, deal, plain, growing, adapter, reinvest, zaps, zap, cashout |
| `MCKeeper` | `TransactionJournal`, `KeeperScan`, `KeeperEpochs`, `KeeperDeals` | journal, swaps, pools, boundary, market, owner, weeks, rivals, restart, stream |
| `MCReaders` | `Notifier`, `IndexerTables`, `EarnIndex` | deal, reader, news; escrow, schedule, pool; loan, queue |

A *scenario* is a choice made in the initial state: it gives the module smaller
sets of inputs, and the variables of the other modules stand still.  One run so
explores several narrow instances, each wide in the direction its questions
need, instead of one instance that is shallow in all of them.

## 4 Runs

| Run | Question | Distinct states |
| --- | --- | --- |
| `v2_vault` | `RecordsMatchState`, `AsksStand`: records mean what they meant after fills, withdrawals, resales and closes in every order. `BooksBalance`: cash, exposure and reserved reward are the sums they stand for. `RecoveryBacked`: every lender of a defaulted loan can withdraw, in any order, to the last raw unit. `ExitsStayOpen`: whatever the registry's owner sets, none of these reverts for who may call it: cancelling, withdrawing a commitment, repaying, defaulting, taking out or unwinding the collateral, each lender's part of it, rewards and cash. `RewardsFollowRights`, `SalesMoveOnlyTheFuture`: a sale moves future rewards only. | 183 889 |
| `v2_liveness` | `LoansEnd`: no listing an Earn strategy has committed to stays in FUNDING with that commitment, and no loan it lends to stays ACTIVE, for ever. | 1 814 |
| `first_escrow` | `OneBidWins`; `EveryoneIsSquare`: the escrow's USDG is its credits and open bids, and each account has what its own deals came to; `CollateralIsSafe`: tokens, positions and the LP versions' pool positions go where the outcomes say; `EveryRightIsOpen` (`RightsStayOpen` of each scenario's version): the owner and stopped USDG accounts cannot close another party's exit (header of `DealVault.sol`), but for a position owed to an account that cannot receive it (section 7); `FeesAddUp`: a fee is collected, forwarded and swept once. | 952 462 |
| `earn` | `BackedByTheBook`: claims are covered and the loan book is what the loans say; `SharesCanLeave`: free shares can be redeemed for what was quoted; `PocketsAreFair`: a write-down fixes whose a recovery is; `SharePriceIsFair`: no step of anybody, at a given time and with the reserve unmoved, lowers what the others' shares are worth, and fees are taken on new highs only. | 123 529 |
| `earn_liveness` | `EverythingEnds`: with the keeper's job and its failures, every queued redemption and every position ends. | 61 136 |
| `tokens` | `ReserveKeepsItsTable`: weeks in any order keep the table and never meet the ceiling; `BudgetsReachTheParties`; `OwedIsHeld`: drips and positions are covered where they are paid; `StreamsPayWhatTimeEarned`: in both streams no checkpoint, transfer, deposit or change of liquidity adds to what can be collected, and the second stream is covered. `BudgetsStayPayable` states the ceiling by the guards of the calls, without ENABLED, so that it can be proved. | 163 670 |
| `fees` | `FeesReachTheirEnd`: half of every creator fee goes to the floor, which only bids; `RoutersAreExact`: a router ends empty and spends its caller's money alone; `QuotesHold`: what was quoted executes, and a better split lies only inside what the cut-off search has left; `RewardsAreBacked`: the adapter can pay what its loans earned; `SeedIsKept`: the seed stays its year, whoever compounds it and whatever is mined late; what compounds it is one quote, in time, near its price, for the growth it asked. | 275 843 |
| `keeper` | `OnlyTheJournalIsLive`, `SentIsSettled` (what is reported sent was mined, or its nonce was used by the wallet's owner), `NothingLandsAfterSimulation`, `ImplementsWalletLog`: the journal; `PassesAreComplete`: a pass that ends well tried every position; `GivenAwayIsBounded`: rates run out, and a backstop costs its fee, or its collateral if a rival funds and claims it; `KeeperSettles`: whatever fails, weights catch up, excessive rates end, epochs close, backstops come to their end and calls are answered. | 330 283 |
| `readers` | `IndexFollowsChain`: indexed tables and published Earn accounts are the chain's at one block; `RetriesHaveTheirMessage`, `NothingTwiceNothingLost`, `NoticesEnd`: the notifier's ledger. | 279 533 |
| `notifier_late`, `swap_watch`, `deal_rewards_self` | each finds one of the disagreements of section 7. | |

Every property has a mutant in `PROJECT.json`: a plausible bug in a mapped
definition that the run then reports.  The interesting cases do happen: mutants
that need them, such as a resale under an open ask, a second write-down before
the first recovery, a lost answer before a crash, are found.

Bounds, and why they are enough:

- *V2.* Two loans of four units, uneven amounts (5, 6 and 7 give slices that
  differ), two lenders, one borrower, a treasury that also buys; `MaxTime`,
  `MaxCash`, `MaxNonce`, `MaxBudget`, one `Drift` per loan.  A third loan adds no
  pair of records that two do not have; the theorems of section 6 hold for any
  number.
- *Escrow.* Two accounts, of which one cannot receive positions (it lends in the LP
  scenario, where a claim is due as soon as the term is over), two deals, two
  bids, fees 0, 1 and 9 against `MAX_FEE_BPS` 2 of 4.  One position is listed
  again after its deal; the LP scenario takes six pool shapes in each of the
  three versions of the escrow.
- *Earn.* Two interchangeable holders, two loans of four and of eight against
  deposits of four and eight, reserve rates 1 and 2, limits 0 and 3, any of the three
  tokens stopped, two requests.  `EarnLiveness` has one holder and one loan, so
  that the queue's head can be in its own way and a default has to be waited for.
- *Tokens.* Two weeks of length two with a registration grace of one; two deals
  and two positions; the second protocol's stream with one position and two
  deposits, and with two positions and one.
- *Fees and routers.* Prices are one to one and budgets at most four units, so
  that every rounding case of a half or a quarter occurs; a floor of two bands;
  a quote is the last thing explored.  The quoter's bisection has 2 steps, not 18
  (`LPZapQuoter.sol:23`), so that it is exhausted on bases up to 4 and cut off on the
  larger ones up to 9, where in the run a better split is left: what 18 steps do to
  a base above 2^18 raw units.
- *Services.* Two callers with two sends, two faults and one foreign transaction
  for the journal; one crash, and a pause shorter than the lookback, for the
  jobs; one market move or one posting by hand; four to six blocks and lags of one
  or two for the indexer; two faults, one edit and one epoch roll for the
  notifier.  Two faults are enough for a failure during the recovery from a
  failure.

## 5 Fairness

Liveness is claimed only under what the code itself keeps doing.

- `v2_liveness`: time passes, and `cancelFunding` after the window and
  `finalizeDefault` after the grace are called for the loans in the book of an
  Earn strategy (`Strategies`), as a keeper with Earn enabled does
  (`jobs/earn.ts:144-157`; `settle` finalizes, `HybridVault.sol:774`).  Both calls are open
  to anyone, but nobody is bound to make them for other loans, and nothing is
  claimed of those.  No fairness for borrowers, lenders or the owner.
- `earn_liveness`: the scheduler's interval timer begins a tick whenever one is
  due, each of its finitely many calls ends, and every retry time comes.  Stated
  on states (`[]<>` of a state predicate): a tick that is not at rest can always
  go on, so this is weak fairness of the three steps.  Calls may fail
  `MaxFailures` times.  The reserve keeps releasing, USDG is not stopped, and the
  strategy is not paused in this run.
- `keeper`: the timer starts every job again (`scheduler.ts:66-81`, `:118-123`),
  RPC calls end or fail, the journal's transaction is mined or dropped; the
  number of faults and crashes is bounded.  `KeeperSettles` for the journal
  presumes that nobody else uses the keeper's nonces (`NoncesAreOwn`).
- `readers`: the notifier's poll timer starts, its steps go on, and a send is
  answered or times out after 15 s.

Nothing is assumed of users, owners, curators, markets or the order of blocks.

## 6 Proofs

TLAPS proves, for every value of the constants that satisfies the named
assumptions (`BoundsAssumption`, the `VaultAssumption` of either vault, `SinkAssumption`,
`EmissionsAssumption`, `LPAssumption`, `DealAssumption`, `HybridAssumption` and
`HybridInputs`, and the notifier's `ConstantsAssumption`):

- `TransactionJournalProofs`: `JournalTypeCorrect`, `JournalIsComplete`,
  `SentIsTrue`, `SimulationStands`, and `SenderRefinesWallet`, that every step of
  the sender with its journal is a step or a stutter of `WalletLog`.  `SentIsTrue` has the
  condition the code leaves: a call reported sent was mined, or another
  transaction of the wallet has taken its nonce.  The inductive invariant has two
  layers.  `IInv` says that only the head of the promise queue has begun, what it
  recovers is what is on disk, it prepares on an empty journal, its own
  transaction is the one on disk, and signed transactions beyond `issued` do not
  exist.  `JInv` relates that to the chain: a signed transaction the journal no
  longer names is mined or its nonce is used up (`IssuedAreDecided`), a receipt is
  awaited only of what a node has accepted (`WaitsForSent`), and only the owner takes
  the nonce of such a transaction (`TakenByOwner`); it is inductive on top of
  `IInv` (`SettledInductive`).  Without `HeldIsDisk` a caller could settle a transaction that was
  replaced; without `PreparesOnEmpty` a save could overwrite one that may still
  be mined.
- `SumTheorems`: lemmas about `SumFunctionOnSet` of the community modules over a
  finite set.  Its definition is a recursive function over the subsets of the
  set; in place of induction, which needs an operator as a parameter, a smallest
  subset that violates a claim is taken (`MinimalSubset`, from the library's
  `WFMin`) and contradicted.  `SumPick` is the recursion, the rest
  follows from it: a sum changes by what one entry changes (`SumChange`,
  `SumMoved`), adds up entry by entry (`SumPlus`) and over disjoint sets
  (`SumUnion`), is monotone and linear (`SumLeq`, `SumTimes`), ignores entries that
  are zero (`SumPad`), and covers each of its entries (`SumCovers`).
- `GageV2VaultProofs`: `TypeCorrect`, `RecordsFollowState`, `AsksAreCurrent`,
  `RecoveryIsBacked`, for any number of loans, accounts and listings.  None of
  them is inductive alone: the holders of a defaulted loan stand still because
  a sale needs an active loan; an unwound account is paid exactly because no
  claim was marked before the unwind; a listing starts clean because its
  identifier was never issued.  `Consistent` says this of one loan, `LoansOK` of
  all, and `IInv` adds types and the freshness of identifiers.  One lemma says
  that an action that touches one loan only has that loan to show
  (`OneLoanStep`); there is one lemma per action.  `SlicesSumToWhole`: the four
  slices of an amount are the amount, which recovery rests on.
  *The reward ledger.*  The quadratic curve never runs backwards and never
  passes its total; hence nobody has been credited ahead of
  the clock, and what a loan can still draw, credited or not, is never negative
  (`LedgerOK`).  `RewardsInv` adds that the reserve is the sum of that over all
  loans (`RewardsInductive`).  Every operation moves the reserve by what it moves
  the one loan's entry; a close returns exactly what the curve had not reached.
  `SalesKeepThePast`: no sale of the right or of units changes what anybody has
  earned up to it.
  *The books.*  `TheBooksBalance` (cash, exposure of every market and
  reward reserve are the sums they stand for), `LedgerFollowsRights`, and
  `NothingUnderflows`: none of the checked subtractions of cancelling, repaying,
  defaulting, selling units, claiming or withdrawing can go below zero in any
  reachable state.  That is the arithmetic half of `ExitsStayOpen`.  `Books` is
  inductive only together with `IInv` and `RewardsInv`: a cancellation gives back
  what `Committed` counts because the units not empty are those refunded, and a
  close takes from a market what the listing added because the record of the
  loan kept key and amount.
- `HybridOperatorProofs` and `HybridProofs`: the Earn strategy, for any holders,
  listings, lanes and borrowers, any amounts, prices, reserve rates and outages,
  in any order: `TypesHold`, `BackedByTheBookHolds`, `QueueHolds`, `PocketsAreFairHolds`,
  `SharesCanLeaveHolds` and `SharePriceIsFairHolds`, all that the run `earn` checks.
  Since the totals are natural numbers, `TypesHold` says that none of the code's
  checked subtractions of them can fail in a call whose own conditions hold.  The
  storage is one record of some fifty fields and each call passes through up to
  a dozen operators, so the proof has three layers.  *What is written*: for
  each operator a lemma `...Does` says which fields it writes and that the
  others stay.  *Books*: the invariant `Books` is a conjunction of books, each a
  predicate of a few fields (policy, money, pockets' promises, rewards, loans,
  share price, shares and queue, snapshots, pockets, ended loans); a frame lemma
  carries a book over an operator that writes none of its fields
  (`SoundFrame`), arithmetic on sums over the others.  *Steps*: an operator that
  keeps all books `Keeps` them, the relation is transitive, and an action is a
  chain of operators; the loops of a checkpoint and of the queue are folds, of
  which `FoldSteps` shows the turns and `TurnByTurn` carries the invariant along.
  Why the books need each other: a settlement may take principal out of the
  share price only because the position is counted in exactly one of performing
  and overdue, and out of the cash only because `harvested` less `assigned` is
  part of what the balance covers; a payout finds its money because every claim on
  the cash is one part of one sum (`Claims`).  Rewards round down once per
  deposit of rewards and once per holder, so what holders can claim is bounded
  times `REWARD_PRECISION` (`RewardCore`); while SGAGE is stopped, what was
  announced covers what has not arrived (`Announced`).  The balances of record
  at a write-down sum to the supply of that moment (`RecordOk`), because a
  balance changes only after its snapshot is pushed; `Kept` says no step of
  anybody moves one, and a pocket's slices are rounded down parts of the whole
  by that sum.
  *The share price* has two measures, over the full assets and over what profit
  has been released.  A checkpoint is `Level`: it lowers neither, raises the
  released assets by no more than the cash it brings in, and charges a fee only
  above the mark, because a loan it finds late was already deducted from both
  (`PendingLoss`) and a settled profit starts locked.  So a quote given before
  the checkpoint of an exit is payable after it (`QuotesHonoured`).  `Undiluted`
  compares the worth of a share before and after a step as a comparison of
  products, and is transitive (`FairChain`).  Shares issued or retired for
  assets keep it by the direction of the rounding (`EnteringFair`, `LeavingFair`),
  a payment out of the reserve and a purchase because they move assets inside the
  pool, a step of others at the loan engine because no step makes a loan late
  that was not late before it: a loan new in the book has its whole term ahead.
  The attempt to prove it found the property too strong as first written: after a
  fall of the reserve's rate that leaves less than the profit still locked
  nothing is released, and a newcomer's deposit lowers the released worth per
  share.  `NobodyDilutesOthers` now asks of that measure only while the locked
  profit is there (`LockedIsThere`); the full assets need no such premise.
  The proof assumes of the constants that amounts and times are natural
  numbers, terms are positive ones (a listing with term 0 is refused,
  `CollateralRegistry.sol:164`) and that holders and listings are finitely many
  (`HybridInputs`, `HybridAssumption`), which TLC evaluates on each run.
- `DealVaultProofs`: `OneBidAlwaysWins`, `EveryoneStaysSquare`,
  `FeesStayAccounted`, `CollateralAlwaysFollows`, for any wallets, tokens, deals and
  bids, any fee and cap the owner sets and any route of the sink.  `Inv` joins
  them with types and with `Custody`, a first-order form of "the last deal over
  a position decides".  None stands alone: a settlement is paid out of a bid
  that is counted, a claim credits a lender because a funded deal has one, and
  a position is credited once because no other live deal and no other credit is
  over it.  `RecordsMove` says how the sums over all records move when one deal
  and one bid do, and `MoneyKept`, `TokensKept` and the custody lemmas compare
  that with the payment; there is one lemma per operation.  `RightsAreCovered` is
  the arithmetic half of `RightsStayOpen`: each credit and open bid can be
  paid, each live deal's amount is open, each position owed is in custody.  The
  proof treats the positions and tokens in the accounts' own hands as outside.
- `NotifierProofs`: `MessagesOutliveTheirSource` and `NoticesAreExact`, for any
  notices, numbers of attempts, faults, edits and rolls.  A delivery and its row in
  the ledger are two steps with a crash possible between them, so neither is
  inductive alone.  The invariant (`PollerInductive`) adds that the notice at the
  provider is one still open, that what a poll has tried has a row, that a roll
  about to be remembered still waits for its turn or has its row, and that a
  notice was delivered at most once more than there were faults when it is
  settled or has just arrived, and at most as often otherwise.
- `TokenProofs`: the whole of `DealSpec`, which is reserve, drips, deals and
  positions together, for any table, shares, clock, positions and deals, in any
  order.  `TokensInvariant` joins four parts.
  *Reserve*: a release, a registration and a collect all have one effect on the
  books (`Released`: epoch, what is minted, what goes to the streams and to
  deals); no epoch lets out more than its entry.  The ceiling cannot bite
  (`CeilingNeverBites`) because all that was let out lies in epochs up to the
  current one, each at most its entry, and the sum of these is what the ceiling
  allows; hence `ReserveKeepsTable`.
  *Drips*: the quadratic curve is monotone and ends at the grant, so a claim pays
  out of what was granted and the contract holds the rest.
  *Positions* (`Sound`): `PRECISION` times the undistributed part and the scaled
  debts to all positions are at most `PRECISION` times `Budget`, which is what is held,
  less what was delivered ahead of time, plus what was streamed until the last
  update.  A delivery leaves the budget as it was, time adds what it streams, a
  checkpoint only rounds down, a collect takes from both sides alike.  The
  streamed part is bounded by the entries of begun epochs, which are delivered or
  still in the reserve: `OwedStaysHeld`.
  *Deals*: until an epoch's rollover what is reserved of it is the sum over the deals
  registered for it, and the parties' drips are the shares of that:
  `DealsGetTheirBudgets`.  Shares and launch change only while nothing has been
  streamed or reserved of the epochs they touch.
  *Only time earns* (`OnlyTimePays`, the action property `OnlyTimeEarns`): what a
  position can collect is a function of its record and of the two accumulators
  as of now (`RewardsAt`).  A step that updates the pool stores these, so that
  settling a record leaves the value, whatever its new weight; one that does not
  leaves them, a change of shares because an epoch to come has streamed nothing
  (`SameGlobal`).  A lump raises its own accumulator only, and a collect moves
  the value, no more and no less, into the drip and to the owner.

Only model-checked: liveness and whatever speaks of ENABLED (`ExitsStayOpen`,
`EveryRightIsOpen`, `FundedDealsRegister`, `NoticesEnd`); the LP-only escrows' pool
positions and forwarder; the second stream's part of
`StreamsPayWhatTimeEarned`, whose first part is `OnlyTimeEarns`; the routers'
best split, which quantifies over all splits; the services other than the sender
and the notifier.

## 7 Findings

Three disagreements between code and documents, each with a run that shows it:

- `notifier_late`: a reminder whose send failed is retried before the reminder
  rule runs and without a look at the time, so an early reminder may go out after
  a later one became due (`poller.ts:264` against `schedule.ts:4-6`).
- `swap_watch`: the cursor passes a range whose checkpoint was refused or failed,
  though the comment has it retried (`swap-watch.ts:53` against `:49`).  The
  hourly job catches up.
- `deal_rewards_self`: with one account on both sides and both shares above
  zero, the two drips share an id and `register` reverts (`DealRewards.sol:85`
  against `:15-16`).  The keeper's own backstop deals avoid it.

Observed while translating, without a run of their own:

- *Token contracts.* `LPRewards.sol:318` skips an earlier epoch that is released
  after a later one (`:140`); `IEmissions.sol:5` says weeks stop at 52, while
  release and rollover stay callable (`Emissions.sol:151`).  With a launch in
  the past, emissions between `launchAt` and a later `lastUpdate` are in nobody's
  account; what a streamer's last epoch accrued and nobody checkpointed before
  the end is forfeited; a deal registered after its rollover, or before rates
  are posted, earns nothing for good.
- *Adapter.* A comment allows a claim to wait for a few raw units
  (`GageLegacyAdapter.sol:226`); in the model liquid and unlocked reward always
  cover it.
- *Escrow.* `DealVault`, `DealVaultV2` and `DealVaultV3` send a position to `msg.sender` only
  (`DealVault.sol:363`, `DealVaultV3.sol:357`), so a lender or borrower that cannot receive an
  NFT keeps a credit it can never withdraw.  `withdrawPositionTo` of the zap versions
  is the way out (`ZapDealVault.sol:27`); `RightsStayOpen` leaves out exactly this case.
- *Routers.* The plain reinvest router subtracts collected ETH fees from its
  budget, which the Pons version fixes (`PonsReinvestRouter.sol:271`); the first
  entry router refunds the router's whole balance, the V2 one the call's surplus
  only; `totalGAGEAdded` also counts GAGE the floor already held.
- *Earn.* Supply can reach zero while loans are open, and a pocket opened then is
  claimable by nobody (the indexer then stops at `earn-sync.ts:269`); donated cash
  counts as harvested; rounding of the reserve can cost the others up to one
  reserve share per payment.
- *Keeper.* `sender.ts:192-200` reports "sent" for a transaction that was never mined when
  the wallet's owner replaced it during the wait (`transaction-journal.ts:34-36` takes
  the replacement's receipt); a backstop deal a rival has funded can lose its
  collateral, which the run then finds "claimed" (`backstop.ts:269`).  Requests worth nothing stay queued while the strategy holds neither
  cash nor reserve (`earn.ts:186`); their holders can cancel.  A multicall that
  fails for one position classifies it as outside the pool for good
  (`checkpoint.ts:113`); a streamer checkpoint that failed counts as complete
  (`checkpoint.ts:186`); in a falling market the oldest would-be increase throws and
  blocks the reduction of the next epoch (`rates.ts:139`); an unexpected future
  posting blocks the emergency stop (`rates.ts:59`); `state.ts:2` calls the state
  file a cache that may be deleted, but it holds the records of backstop deals,
  without which a listed one is never reclaimed; a split share posted by the
  owner between plan and register makes `register` revert until the rollover.
- *Indexer and notifier.* `grantLinks` claims not to assume an order of events
  (`ponder.schema.ts:225`) and is right only because the contracts emit `Granted`
  first; the epoch row keeps `reserved` at `RolledOver`; shares deposited before a
  vault's fees were wired are missing from the share ledger; `poller.ts:4` says a
  notice "goes out once", while a crash between send and record sends it twice.

## 8 Not modelled

The components without a module are listed with their reasons in
`PROJECT.json`: one-shot deployment and fixtures, views and formatting,
statistics, wording and channels, and the valuation service, whose only state is
a cache and whose substance is 512-bit rounding, which TLC can explore only at
widths where it means nothing.

Left out of the modules there are:

- *V2.* Ownership hand-over, router lists, meme-pair masks and position checks,
  which only decide whether a listing reverts.
- *Escrow.* The minimum and maximum of an ERC-20 per deal and the registry's row of WETH
  that the v3 adapter reads (`UniV3PositionAdapter.sol:34`), which only refuse a listing; the expectation flag of `onERC721Received`, donated
  tokens, stopping of the fee route's own wallets, and the checks of
  `LPFeeForwarder.bind`.
- *Earn.* Token ceilings, pool-key checks, one-time wiring, pockets in ETH.
- *Keeper's Earn job.* Several strategies, batches of more than one loan, preview
  tolerances, age and identity checks, paging, alerts.
- *Fees and routers.* The Pons hook takes no fee, so that the budget grossed up for it
  after graduation (`PonsReinvestRouter.sol:271-274`) is spot and cushion alone.
- *Journal.* Rotation of key or chain, reorganisations.
- *Jobs.* Positions from a URL, batches of several, `LPRewards`' own log cursor,
  token approvals as calls of their own, dry runs, the eight-step limit of
  `advance` (never reached), and the fee, price and health jobs.
- *Indexer.* Settings and statistics rows, append-only tables, reorganisations
  (Ponder undoes them), performance history, cursors of listings.
- *Notifier.* Budget notices, rendering, the 50-row limit of a retry pass.

Prices and swaps are one to one, fees and shares work with a basis of four or
five, and time advances in steps of one: the models show orderings, books and
roundings at small values, not magnitudes, and say nothing about overflow of
256-bit words, which the contracts' checked arithmetic turns into reverts.
