---------------------------- MODULE IndexerTables ----------------------------
(***************************************************************************)
(* The indexer's tables (services/indexer): handlers fold the events of    *)
(* the escrow and of the token contracts into rows, block by block.  Here  *)
(* a block is one transaction, with its events in the order the contracts  *)
(* emit them; blocks wait in a queue, so a handler that reads the chain    *)
(* reads it as it is later than its event (the RPC keeps no old state).    *)
(* Deals are listed for one unit of an ERC-20 or for the NFT of their id.  *)
(***************************************************************************)
EXTENDS Integers, Sequences, FiniteSets, FiniteSetsExt, SequencesExt, Functions

CONSTANTS
  Accounts, FeeSink,
  Deals, KindOf, Bids, PriceOf, CAP, FEE_PARTS,   \* the escrow
  Parties,                                        \* [lender, borrower] of the deals funded from the start
  WEEKS, WEEKLY, BPS, ShareChoices, Rewards,      \* the schedule
  Positions, Direct, RangeOf, Ticks,              \* liquidity; Direct is not the PositionManager's
  Parts,                                          \* of "escrow", "schedule", "pool"
  MaxBlocks, MaxLag                               \* bounds

VARIABLES
  chain,     \* what the contracts hold
  blocks,    \* the blocks not indexed yet
  db,        \* the tables
  week, height

indexVars == <<chain, blocks, db, week, height>>

Epochs == 0 .. WEEKS - 1
Buckets == {7, 21}
ZERO == "zero"
NoDeal == [state |-> "NONE", borrower |-> ZERO, lender |-> ZERO, price |-> 0, fee |-> 0,
           listed |-> 0, funded |-> 0, settled |-> 0]
NoBid == [state |-> "NONE", deal |-> 0, lender |-> ZERO]
Held(d) == [NoDeal EXCEPT !.state = "FUNDED", !.borrower = Parties[d].borrower, !.lender = Parties[d].lender]
NoDrip == [total |-> 0, claimed |-> 0, source |-> "none", of |-> 0]
Nobody == [owner |-> ZERO, liquidity |-> 0, weight |-> 0]
Shares0 == CHOOSE s \in ShareChoices : TRUE
Fee(price) == price \div FEE_PARTS
InRange(p, tick) == tick \in RangeOf[p]
DripIds == ({"deal"} \X Deals) \cup ({"lp", "stream"} \X Positions)

\* splitWeekly, and the contract's budgets.
Split(e, s) ==
  LET deal == (WEEKLY[e] * s.deal) \div BPS
      deal21 == (deal * s.term21) \div BPS
  IN  [b \in Buckets |-> IF b = 21 THEN deal21 ELSE deal - deal21]

NoEpoch == [weekly |-> 0, shares |-> Shares0, budget |-> [b \in Buckets |-> 0],
            reserved |-> [b \in Buckets |-> 0], released |-> FALSE, rolledOver |-> FALSE]
NoWeek == [listed |-> 0, bidsPlaced |-> 0, funded |-> 0, fundedUSDG |-> 0, feesUSDG |-> 0,
           RECLAIMED |-> 0, CLAIMED |-> 0, CANCELLED |-> 0, sgageGranted |-> 0]
Weeks == 0 .. 1
NoPool == [tick |-> 0, liquidity |-> 0, totalWeight |-> 0]

\* The tables before the first block.
EmptyEscrow ==
  [deals |-> [d \in Deals |-> [openBidCount |-> 0] @@ IF d \in DOMAIN Parties THEN Held(d) ELSE NoDeal],
   bids |-> [b \in Bids |-> NoBid],
   usdg |-> [a \in Accounts |-> 0], coll |-> [a \in Accounts |-> 0], nfts |-> {}, openRaw |-> 0,
   weekStats |-> [w \in Weeks |-> NoWeek]]
EmptySchedule ==
  [links |-> <<>>, registered |-> [d \in Deals |-> [epoch |-> WEEKS, total |-> 0]],
   epochs |-> [e \in Epochs |-> NoEpoch], drips |-> [k \in Accounts \X DripIds |-> NoDrip]]
EmptyPool ==
  [nftPositions |-> [p \in {} |-> 0], lpPositions |-> [p \in Positions |-> Nobody],
   lpEarned |-> [p \in Positions |-> 0], tvlPositions |-> [p \in Positions |-> 0], pool |-> NoPool]

Init ==
  /\ chain =
       [deals |-> [d \in Deals |-> IF d \in DOMAIN Parties THEN Held(d) ELSE NoDeal],
        bids |-> [b \in Bids |-> NoBid],
        usdg |-> [a \in Accounts |-> 0], coll |-> [a \in Accounts |-> 0], nfts |-> {},
        launched |-> FALSE, shares |-> [e \in Epochs |-> Shares0], released |-> {}, rolledOver |-> {},
        reserved |-> [e \in Epochs |-> [b \in Buckets |-> 0]],
        registered |-> [d \in Deals |-> [epoch |-> WEEKS, total |-> 0, week |-> 0]],
        drips |-> [k \in Accounts \X DripIds |-> NoDrip],
        positions |-> [p \in Positions |-> Nobody], minted |-> {}, tick |-> 0,
        collected |-> [p \in Positions |-> 0]]
  /\ db = EmptyEscrow @@ EmptySchedule @@ EmptyPool
  /\ blocks = <<>> /\ week = 0 /\ height = 0

-----------------------------------------------------------------------------
\* The transactions of the contracts, each with the events it emits.

Mined(c, events) ==
  /\ height < MaxBlocks /\ Len(blocks) < MaxLag
  /\ chain' = c /\ height' = height + 1
  /\ blocks' = Append(blocks, [week |-> week, tx |-> height, events |-> events])
  /\ UNCHANGED <<db, week>>
Ev(is, args) == [is |-> is] @@ args

List(d, a) ==
  /\ chain.deals[d].state = "NONE"
  /\ Mined([chain EXCEPT !.deals[d] = [NoDeal EXCEPT !.state = "LISTED", !.borrower = a, !.listed = week]],
           <<Ev("Listed", [deal |-> d, borrower |-> a])>>)

Placed(b, d, a) == Ev("BidPlaced", [bid |-> b, deal |-> d, lender |-> a])
PlaceBid(b, d, a) ==
  /\ chain.bids[b].state = "NONE" /\ chain.deals[d].state = "LISTED"
  /\ Mined([chain EXCEPT !.bids[b] = [state |-> "OPEN", deal |-> d, lender |-> a]], <<Placed(b, d, a)>>)
WithdrawBid(b) ==
  /\ chain.bids[b].state = "OPEN"
  /\ Mined([chain EXCEPT !.bids[b].state = "WITHDRAWN", !.usdg[chain.bids[b].lender] = @ + PriceOf[b]],
           <<Ev("BidWithdrawn", [bid |-> b])>>)

\* _accept: the price in the escrow splits into the fee and the borrower's credit.
Accepted(b, d, a) ==
  LET deal == chain.deals[d]
      usdg == [chain.usdg EXCEPT ![FeeSink] = @ + Fee(PriceOf[b])]
  IN  [chain EXCEPT !.bids[b] = [state |-> "ACCEPTED", deal |-> d, lender |-> a],
         !.deals[d] = [deal EXCEPT !.state = "FUNDED", !.lender = a, !.price = PriceOf[b],
                         !.fee = Fee(PriceOf[b]), !.funded = week],
         !.usdg = [usdg EXCEPT ![deal.borrower] = @ + PriceOf[b] - Fee(PriceOf[b])]]
FundedEv(b, d, a) == Ev("Funded", [bid |-> b, deal |-> d, lender |-> a, price |-> PriceOf[b], fee |-> Fee(PriceOf[b])])
Accept(b) ==
  LET d == chain.bids[b].deal
  IN  /\ chain.bids[b].state = "OPEN" /\ chain.deals[d].state = "LISTED"
      /\ Mined(Accepted(b, d, chain.bids[b].lender), <<FundedEv(b, d, chain.bids[b].lender)>>)
Fund(b, d, a) ==
  /\ chain.bids[b].state = "NONE" /\ chain.deals[d].state = "LISTED"
  /\ Mined(Accepted(b, d, a), <<Placed(b, d, a), FundedEv(b, d, a)>>)

CollateralTo(c, d, a) ==
  IF KindOf[d] = "ERC20" THEN [c EXCEPT !.coll[a] = @ + 1] ELSE [c EXCEPT !.nfts = @ \cup {<<a, d>>}]
SettleDeal(d, state) ==
  LET deal == chain.deals[d]
      closed == [chain EXCEPT !.deals[d].state = state, !.deals[d].settled = week]
      paid == IF state = "RECLAIMED" THEN [closed EXCEPT !.usdg[deal.lender] = @ + CAP] ELSE closed
  IN  /\ deal.state = IF state = "CANCELLED" THEN "LISTED" ELSE "FUNDED"
      /\ Mined(CollateralTo(paid, d, IF state = "CLAIMED" THEN deal.lender ELSE deal.borrower),
               <<Ev(state, [deal |-> d])>>)

Withdraw(a, what) ==
  LET ev(amount) == <<Ev("Withdrawn", [account |-> a, asset |-> what, amount |-> amount])>>
  IN  \/ what = "usdg" /\ chain.usdg[a] > 0 /\ Mined([chain EXCEPT !.usdg[a] = 0], ev(chain.usdg[a]))
      \/ what = "coll" /\ chain.coll[a] > 0 /\ Mined([chain EXCEPT !.coll[a] = 0], ev(chain.coll[a]))
      \/ /\ what = "nft"
         /\ \E d \in {x \in Deals : <<a, x>> \in chain.nfts} :
              Mined([chain EXCEPT !.nfts = @ \ {<<a, d>>}], ev(d))
NextWeek == week < 1 /\ week' = week + 1 /\ UNCHANGED <<chain, blocks, db, height>>

\* Emissions: shares can be set until their epoch starts, here until it is released.
Launch == ~chain.launched /\ Mined([chain EXCEPT !.launched = TRUE], <<Ev("Launched", <<>>)>>)
SetShares(e, s) ==
  /\ e \notin chain.released /\ chain.shares[e] # s
  /\ Mined([chain EXCEPT !.shares[e] = s], <<Ev("SharesSet", [epoch |-> e, shares |-> s])>>)
ReleasedEv(e) == <<Ev("Released", [epoch |-> e, budget |-> Split(e, chain.shares[e]), weekly |-> WEEKLY[e]])>>
Release(e) ==
  /\ chain.launched /\ e \notin chain.released
  /\ Mined([chain EXCEPT !.released = @ \cup {e}], ReleasedEv(e))
Rollover(e) ==
  /\ e \in chain.released \ chain.rolledOver
  /\ Mined([chain EXCEPT !.rolledOver = @ \cup {e}, !.reserved[e] = Split(e, chain.shares[e])],
           <<Ev("RolledOver", [epoch |-> e])>>)

\* DealRewards.register on several deals in one transaction; both parties get half.
RegisterOne(acc, d) ==
  LET c == acc.chain
      deal == c.deals[d]
      e == 0
      left == Split(e, c.shares[e])[7] - c.reserved[e][7]
      reward == IF e \in c.rolledOver THEN 0 ELSE Min({Rewards[d], left})
      lenderAmount == reward \div 2
      amount(a) == (IF a = deal.lender THEN lenderAmount ELSE 0)
                   + (IF a = deal.borrower THEN reward - lenderAmount ELSE 0)
      granted(a, n) == IF n = 0 THEN <<>>
                       ELSE <<Ev("Granted", [account |-> a, id |-> <<"deal", d>>, total |-> n, source |-> "deal"])>>
  IN  [chain |-> [c EXCEPT !.released = @ \cup {e}, !.reserved[e][7] = @ + reward,
                    !.registered[d] = [epoch |-> e, total |-> reward, week |-> week],
                    !.drips = [k \in DOMAIN @ |-> IF k[2] = <<"deal", d>> /\ amount(k[1]) > 0
                                 THEN [total |-> amount(k[1]), claimed |-> 0, source |-> "deal", of |-> d]
                                 ELSE @[k]]],
       events |-> acc.events
         \o (IF e \in c.released THEN <<>> ELSE ReleasedEv(e))
         \o (IF reward = 0 THEN <<>> ELSE <<Ev("Reserved", [epoch |-> e, bucket |-> 7, amount |-> reward])>>)
         \o granted(deal.lender, lenderAmount) \o granted(deal.borrower, reward - lenderAmount)
         \o <<Ev("Registered", [deal |-> d, epoch |-> e, reward |-> reward, lenderAmount |-> lenderAmount,
                                borrowerAmount |-> reward - lenderAmount])>>]
Register(ds) ==
  /\ chain.launched /\ ds # <<>>
  /\ \A i \in DOMAIN ds : /\ chain.deals[ds[i]].state \in {"FUNDED", "RECLAIMED", "CLAIMED"}
                          /\ chain.registered[ds[i]].epoch = WEEKS
  /\ LET done == FoldLeft(RegisterOne, [chain |-> chain, events |-> <<>>], ds)
     IN  Mined(done.chain, done.events)

ClaimDrip(a, id) ==
  LET left == chain.drips[<<a, id>>].total - chain.drips[<<a, id>>].claimed
  IN  /\ left > 0
      /\ Mined([chain EXCEPT !.drips[<<a, id>>].claimed = @ + 1],
               <<Ev("Claimed", [account |-> a, id |-> id, amount |-> 1])>>)

\* Positions: the PositionManager's own their pool position through their id.
Active(c) == MapThenSumSet(LAMBDA p : c.positions[p].liquidity, {p \in Positions : InRange(p, c.tick)})
TotalWeight(c) == MapThenSumSet(LAMBDA p : c.positions[p].weight, Positions)
Weigh(c, p) == [c EXCEPT !.positions[p].weight = IF InRange(p, c.tick) THEN c.positions[p].liquidity ELSE 0]
CheckpointedEv(c, p) == Ev("Checkpointed", [id |-> p, weight |-> c.positions[p].weight, totalWeight |-> TotalWeight(c)])
Resized(c, p, delta) ==
  LET sized == [c EXCEPT !.positions[p].liquidity = @ + delta]
  IN  IF p \in Direct THEN sized ELSE Weigh(sized, p)
ResizedEvs(c, p, delta) ==
  <<Ev("ModifyLiquidity", [id |-> p, delta |-> delta])>>
    \o (IF p \in Direct THEN <<>> ELSE <<CheckpointedEv(Resized(c, p, delta), p)>>)
TransferEv(p, a) == Ev("Transfer", [id |-> p, owner |-> a])

Mint(p, a, size) ==
  /\ p \notin chain.minted
  /\ LET owned == [chain EXCEPT !.minted = @ \cup {p}, !.positions[p].owner = IF p \in Direct THEN ZERO ELSE a]
     IN  Mined(Resized(owned, p, size),
               (IF p \in Direct THEN <<>> ELSE <<TransferEv(p, a)>>) \o ResizedEvs(owned, p, size))
Alive(p) == p \in chain.minted /\ (p \in Direct \/ chain.positions[p].owner # ZERO)
Resize(p, delta) ==
  /\ Alive(p) /\ chain.positions[p].liquidity + delta >= 0
  /\ Mined(Resized(chain, p, delta), ResizedEvs(chain, p, delta))
Burn(p) ==
  /\ Alive(p) /\ p \notin Direct
  /\ LET gone == -chain.positions[p].liquidity
     IN  Mined([Resized(chain, p, gone) EXCEPT !.positions[p].owner = ZERO],
               ResizedEvs(chain, p, gone) \o <<TransferEv(p, ZERO)>>)
Transfer(p, a) ==
  /\ Alive(p) /\ p \notin Direct /\ a # chain.positions[p].owner
  /\ Mined([chain EXCEPT !.positions[p].owner = a], <<TransferEv(p, a)>>)
Checkpoint(p) ==
  /\ Alive(p) /\ p \notin Direct
  /\ Mined(Weigh(chain, p), <<CheckpointedEv(Weigh(chain, p), p)>>)
Swap(t) ==
  /\ t # chain.tick
  /\ LET moved == [chain EXCEPT !.tick = t]
     IN  Mined(moved, <<Ev("Swap", [tick |-> t, liquidity |-> Active(moved)])>>)

\* LPRewards ("lp") and LPStreamer ("stream") grant first; without emissions no drip.
Collect(p, from, emissions) ==
  LET a == chain.positions[p].owner
      key == <<a, <<from, p>>>>
  IN  /\ Alive(p) /\ p \notin Direct /\ (emissions > 0 => chain.drips[key].total = 0)
      /\ emissions = 0 => from = "lp"
      /\ Mined([chain EXCEPT !.collected[p] = @ + (IF from = "lp" THEN emissions ELSE 0),
                  !.drips[key] = IF emissions = 0 THEN @
                                 ELSE [total |-> emissions, claimed |-> 0, source |-> "lp", of |-> p]],
               (IF emissions = 0 THEN <<>>
                ELSE <<Ev("Granted", [account |-> a, id |-> <<from, p>>, total |-> emissions, source |-> "lp"])>>)
               \o <<Ev("Collected", [id |-> p, owner |-> a, emissions |-> emissions, from |-> from])>>)

-----------------------------------------------------------------------------
\* The handlers: tables t, week w and transaction tx of the block, event e.

Bump(t, w, column, n) == [t EXCEPT !.weekStats[w][column] = @ + n]
Credit(t, a, n) == [t EXCEPT !.usdg[a] = @ + n]
CreditCollateral(t, d, a) ==
  IF KindOf[d] = "ERC20" THEN [t EXCEPT !.coll[a] = @ + 1, !.openRaw = @ - 1]
  ELSE [t EXCEPT !.nfts = @ \cup {<<a, d>>}]

OnListed(t, w, e) ==
  Bump([t EXCEPT !.deals[e.deal] = [openBidCount |-> 0]
                   @@ [NoDeal EXCEPT !.state = "LISTED", !.borrower = e.borrower, !.listed = w],
                 !.openRaw = IF KindOf[e.deal] = "ERC20" THEN @ + 1 ELSE @], w, "listed", 1)
OnBidPlaced(t, w, e) ==
  Bump([t EXCEPT !.bids[e.bid] = [state |-> "OPEN", deal |-> e.deal, lender |-> e.lender],
                 !.deals[e.deal].openBidCount = @ + 1], w, "bidsPlaced", 1)
OnBidWithdrawn(t, e) ==
  LET bid == t.bids[e.bid]
  IN  Credit([t EXCEPT !.bids[e.bid].state = "WITHDRAWN", !.deals[bid.deal].openBidCount = @ - 1],
             bid.lender, PriceOf[e.bid])

\* Mutant: the bid a deal was funded with stays in the count.
OnFundedKeepsBid(t, w, e) ==
  LET row == [t EXCEPT !.deals[e.deal].state = "FUNDED", !.deals[e.deal].lender = e.lender,
                !.deals[e.deal].price = e.price, !.deals[e.deal].fee = e.fee, !.deals[e.deal].funded = w,
                !.bids[e.bid].state = "ACCEPTED"]
      paid == Credit(Credit(row, FeeSink, e.fee), row.deals[e.deal].borrower, e.price - e.fee)
  IN  Bump(Bump(Bump(paid, w, "funded", 1), w, "fundedUSDG", e.price), w, "feesUSDG", e.fee)

OnFunded(t, w, e) ==
  LET row == [t EXCEPT !.deals[e.deal].state = "FUNDED", !.deals[e.deal].lender = e.lender,
                !.deals[e.deal].price = e.price, !.deals[e.deal].fee = e.fee, !.deals[e.deal].funded = w,
                !.deals[e.deal].openBidCount = @ - 1, !.bids[e.bid].state = "ACCEPTED"]
      paid == Credit(Credit(row, FeeSink, e.fee), row.deals[e.deal].borrower, e.price - e.fee)
  IN  Bump(Bump(Bump(paid, w, "funded", 1), w, "fundedUSDG", e.price), w, "feesUSDG", e.fee)

Settle(t, w, e) ==
  Bump([t EXCEPT !.deals[e.deal].state = e.is, !.deals[e.deal].settled = w], w, e.is, 1)
OnSettled(t, w, e) ==
  LET deal == t.deals[e.deal]
      paid == IF e.is = "RECLAIMED" THEN Credit(Settle(t, w, e), deal.lender, CAP) ELSE Settle(t, w, e)
  IN  CreditCollateral(paid, e.deal, IF e.is = "CLAIMED" THEN deal.lender ELSE deal.borrower)
OnWithdrawn(t, e) ==
  CASE e.asset = "usdg" -> [t EXCEPT !.usdg[e.account] = Max({@ - e.amount, 0})]
    [] e.asset = "coll" -> [t EXCEPT !.coll[e.account] = Max({@ - e.amount, 0})]
    [] OTHER -> [t EXCEPT !.nfts = @ \ {<<e.account, e.amount>>}]

\* The shares are read as the chain has them now.
OnLaunched(t) ==
  [t EXCEPT !.epochs = [n \in Epochs |->
     IF @[n].released THEN @[n]
     ELSE [@[n] EXCEPT !.weekly = WEEKLY[n], !.shares = chain.shares[n], !.budget = Split(n, chain.shares[n])]]]
OnSharesSet(t, e) ==
  IF t.epochs[e.epoch].released THEN t
  ELSE [t EXCEPT !.epochs[e.epoch].shares = e.shares,
          !.epochs[e.epoch].budget =
             IF t.epochs[e.epoch].weekly = 0 THEN [b \in Buckets |-> 0] ELSE Split(e.epoch, e.shares)]
OnReleased(t, e) ==
  [t EXCEPT !.epochs[e.epoch].weekly = e.weekly, !.epochs[e.epoch].budget = e.budget, !.epochs[e.epoch].released = TRUE]
OnReserved(t, e) == [t EXCEPT !.epochs[e.epoch].reserved[e.bucket] = @ + e.amount]
OnRolledOver(t, e) == [t EXCEPT !.epochs[e.epoch].rolledOver = TRUE]

\* Mutant: a link once made is kept.
LinkGrantOnce(t, key, side) ==
  LET link == (IF key \in DOMAIN t.links THEN t.links[key] ELSE <<>>) @@ side @@ [deal |-> 0, drip |-> <<>>]
      linked == [t EXCEPT !.links = (key :> link) @@ @]
  IN  IF link.deal # 0 /\ link.drip # <<>> THEN [linked EXCEPT !.drips[link.drip].of = link.deal] ELSE linked

\* A grant and its deal meet under the transaction, the account and the amount.
LinkGrant(t, key, side) ==
  LET link == side @@ (IF key \in DOMAIN t.links THEN t.links[key] ELSE [deal |-> 0, drip |-> <<>>])
      linked == [t EXCEPT !.links = (key :> link) @@ @]
  IN  IF link.deal # 0 /\ link.drip # <<>> THEN [linked EXCEPT !.drips[link.drip].of = link.deal] ELSE linked

OnGranted(t, tx, e) ==
  LET id == <<e.account, e.id>>
      row == [t EXCEPT !.drips[id].total = e.total, !.drips[id].claimed = 0, !.drips[id].source = e.source]
  IN  IF e.source = "deal" THEN LinkGrant(row, <<tx, e.account, e.total>>, [drip |-> id]) ELSE row
OnClaimed(t, e) == [t EXCEPT !.drips[<<e.account, e.id>>].claimed = @ + e.amount]
OnRegistered(t, w, tx, e) ==
  LET deal == t.deals[e.deal]
      row == Bump([t EXCEPT !.registered[e.deal] = [epoch |-> e.epoch, total |-> e.reward]],
                  w, "sgageGranted", e.reward)
      lent == IF e.lenderAmount = 0 THEN row
              ELSE LinkGrant(row, <<tx, deal.lender, e.lenderAmount>>, [deal |-> e.deal])
  IN  IF e.borrowerAmount = 0 THEN lent
      ELSE LinkGrant(lent, <<tx, deal.borrower, e.borrowerAmount>>, [deal |-> e.deal])

OnCheckpointed(t, e) ==
  [t EXCEPT !.lpPositions[e.id].weight = e.weight, !.pool.totalWeight = e.totalWeight]
OnCollected(t, e) ==
  LET row == IF e.from = "lp" THEN [t EXCEPT !.lpEarned[e.id] = @ + e.emissions] ELSE t
  IN  IF e.emissions = 0 THEN row
      ELSE [row EXCEPT !.drips[<<e.owner, <<e.from, e.id>>>>].of = e.id,
                       !.drips[<<e.owner, <<e.from, e.id>>>>].source = "lp"]

\* The pool of a token is read once, when it is first seen; a burned one has none.
OnTransfer(t, e) ==
  LET known == IF e.id \in DOMAIN t.nftPositions THEN t.nftPositions[e.id].ours ELSE Alive(e.id)
  IN  [t EXCEPT !.nftPositions = (e.id :> [owner |-> e.owner, ours |-> known]) @@ @,
                !.lpPositions[e.id].owner = e.owner]

\* Mutant: liquidity out of range counts as active.
OnModifyLiquidityAnywhere(t, e) ==
  LET row == [t EXCEPT !.pool.liquidity = @ + e.delta, !.tvlPositions[e.id] = @ + e.delta]
  IN  IF e.id \in Direct THEN row ELSE [row EXCEPT !.lpPositions[e.id].liquidity = @ + e.delta]

\* Only what straddles the tick is active; only the PositionManager's is a position.
OnModifyLiquidity(t, e) ==
  LET row == [t EXCEPT !.pool.liquidity = IF InRange(e.id, t.pool.tick) THEN @ + e.delta ELSE @,
                       !.tvlPositions[e.id] = @ + e.delta]
      nft == IF e.id \in DOMAIN t.nftPositions THEN t.nftPositions[e.id].owner ELSE ZERO
  IN  IF e.id \in Direct THEN row
      ELSE [row EXCEPT !.lpPositions[e.id].liquidity = @ + e.delta,
                       !.lpPositions[e.id].owner = IF @ = ZERO THEN nft ELSE @]
OnSwap(t, e) == [t EXCEPT !.pool.tick = e.tick, !.pool.liquidity = e.liquidity]

Handle(t, b, e) ==
  CASE e.is = "Listed" -> OnListed(t, b.week, e)
    [] e.is = "BidPlaced" -> OnBidPlaced(t, b.week, e)
    [] e.is = "BidWithdrawn" -> OnBidWithdrawn(t, e)
    [] e.is = "Funded" -> OnFunded(t, b.week, e)
    [] e.is \in {"RECLAIMED", "CLAIMED", "CANCELLED"} -> OnSettled(t, b.week, e)
    [] e.is = "Withdrawn" -> OnWithdrawn(t, e)
    [] e.is = "Launched" -> OnLaunched(t)
    [] e.is = "SharesSet" -> OnSharesSet(t, e)
    [] e.is = "Released" -> OnReleased(t, e)
    [] e.is = "Reserved" -> OnReserved(t, e)
    [] e.is = "RolledOver" -> OnRolledOver(t, e)
    [] e.is = "Granted" -> OnGranted(t, b.tx, e)
    [] e.is = "Claimed" -> OnClaimed(t, e)
    [] e.is = "Registered" -> OnRegistered(t, b.week, b.tx, e)
    [] e.is = "Checkpointed" -> OnCheckpointed(t, e)
    [] e.is = "Collected" -> OnCollected(t, e)
    [] e.is = "Transfer" -> OnTransfer(t, e)
    [] e.is = "ModifyLiquidity" -> OnModifyLiquidity(t, e)
    [] e.is = "Swap" -> OnSwap(t, e)

\* A block is committed as a whole.
IndexBlock ==
  /\ blocks # <<>>
  /\ db' = FoldLeft(LAMBDA t, e : Handle(t, blocks[1], e), db, blocks[1].events)
  /\ blocks' = Tail(blocks)
  /\ UNCHANGED <<chain, week, height>>

-----------------------------------------------------------------------------
Lists(length) == {ds \in UNION {[1 .. n -> Deals] : n \in 1 .. length} : IsInjective(ds)}
EscrowNext ==
  \/ NextWeek
  \/ \E d \in Deals, a \in Accounts \ {FeeSink} : List(d, a)
  \/ \E d \in Deals, a \in Accounts \ {FeeSink}, b \in Bids : PlaceBid(b, d, a) \/ Fund(b, d, a)
  \/ \E b \in Bids : WithdrawBid(b) \/ Accept(b)
  \/ \E d \in Deals, s \in {"RECLAIMED", "CLAIMED", "CANCELLED"} : SettleDeal(d, s)
  \/ \E a \in Accounts, what \in {"usdg", "coll", "nft"} : Withdraw(a, what)
ScheduleNext ==
  \/ Launch
  \/ \E e \in Epochs : Release(e) \/ Rollover(e) \/ \E s \in ShareChoices : SetShares(e, s)
  \/ \E ds \in Lists(2) : Register(ds)
  \/ \E a \in Accounts, d \in Deals : ClaimDrip(a, <<"deal", d>>)
PoolNext ==
  \/ \E p \in Positions, a \in Accounts : Mint(p, a, 2) \/ Transfer(p, a)
  \/ \E p \in Positions : Burn(p) \/ Checkpoint(p) \/ \E delta \in {-1, 1} : Resize(p, delta)
  \/ \E t \in Ticks : Swap(t)
  \/ \E p \in Positions, from \in {"lp", "stream"}, n \in {0, 2} : Collect(p, from, n)
  \/ \E a \in Accounts, p \in Positions, from \in {"lp", "stream"} : ClaimDrip(a, <<from, p>>)

Next ==
  \/ IndexBlock
  \/ "escrow" \in Parts /\ EscrowNext
  \/ "schedule" \in Parts /\ ScheduleNext
  \/ "pool" \in Parts /\ PoolNext

Spec == Init /\ [][Next]_indexVars

-----------------------------------------------------------------------------
Openly(d) == {b \in Bids : chain.bids[b].state = "OPEN" /\ chain.bids[b].deal = d}
InState(states) == {d \in Deals : chain.deals[d].state \in states}

EscrowFollows ==
  /\ \A d \in Deals : db.deals[d] = [openBidCount |-> Cardinality(Openly(d))] @@ chain.deals[d]
  /\ db.bids = chain.bids /\ db.usdg = chain.usdg /\ db.coll = chain.coll /\ db.nfts = chain.nfts
  /\ "escrow" \in Parts =>
       /\ db.openRaw = Cardinality({d \in InState({"LISTED", "FUNDED"}) : KindOf[d] = "ERC20"})
       /\ \A w \in Weeks :
            LET row == db.weekStats[w]
                funded == {d \in InState({"FUNDED", "RECLAIMED", "CLAIMED"}) : chain.deals[d].funded = w}
                settled(s) == Cardinality({d \in InState({s}) : chain.deals[d].settled = w})
            IN  /\ row.listed = Cardinality({d \in Deals \ InState({"NONE"}) : chain.deals[d].listed = w})
                /\ row.funded = Cardinality(funded)
                /\ row.fundedUSDG = MapThenSumSet(LAMBDA d : chain.deals[d].price, funded)
                /\ row.feesUSDG = MapThenSumSet(LAMBDA d : chain.deals[d].fee, funded)
                /\ \A s \in {"RECLAIMED", "CLAIMED", "CANCELLED"} : row[s] = settled(s)

ScheduleFollows ==
  /\ \A e \in Epochs :
       LET row == db.epochs[e]
       IN  /\ row.shares = chain.shares[e]
           /\ row.released = (e \in chain.released) /\ row.rolledOver = (e \in chain.rolledOver)
           /\ chain.launched => row.budget = Split(e, chain.shares[e])
           /\ ~row.rolledOver => row.reserved = chain.reserved[e]
  /\ \A d \in Deals : db.registered[d] = Restrict(chain.registered[d], {"epoch", "total"})
  /\ \A w \in Weeks :
       db.weekStats[w].sgageGranted =
         MapThenSumSet(LAMBDA d : chain.registered[d].total, {d \in Deals : chain.registered[d].week = w})

PoolFollows ==
  /\ \A p \in Positions \ Direct :
       /\ db.lpPositions[p] = chain.positions[p]
       /\ p \in chain.minted => db.nftPositions[p].owner = chain.positions[p].owner
       /\ Alive(p) => db.nftPositions[p].ours
  /\ \A p \in Positions : db.tvlPositions[p] = chain.positions[p].liquidity
  /\ db.pool = [tick |-> chain.tick, liquidity |-> Active(chain), totalWeight |-> TotalWeight(chain)]
  /\ db.lpEarned = chain.collected

(* Whenever every block is indexed the tables say what the contracts hold:   *)
(* deals, open bids, credits and weekly sums, epochs and their budgets, each *)
(* drip with its own deal or position, liquidity and owners, whatever shared *)
(* a transaction or was read late (index.ts:2, token.ts:123).                *)
IndexFollowsChain ==
  blocks = <<>> => EscrowFollows /\ ScheduleFollows /\ PoolFollows /\ db.drips = chain.drips
=============================================================================
