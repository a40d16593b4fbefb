------------------------- MODULE CreatorFeeSplitter -------------------------
(* The creator wallet that splits launch fees: half to the operations wallet, *)
(* less the caller's bounty, half bought into the floor.  The fees arrive as  *)
(* ETH from anybody or with one call to wherever they accrue.                 *)
EXTENDS V4Swapper, Sequences

(***************************************************************************)
(* The ladder of GAGE-only positions in the GAGE/sGAGE pool that the fees  *)
(* pay for: _bandFor, _addFloor, sweep and collect, which                  *)
(* CreatorFeeSplitter, PonsCreatorFeeSplitter and FeeFloor share word for  *)
(* word.  The pool's price is counted in half ticks, so that it may stand  *)
(* on a tick or past it: tick t is in force from price 2t to 2t + 1.       *)
(***************************************************************************)
CONSTANTS
  SPACING, BAND_TICKS,    \* 60 and 480 in the source
  GAGE_IS_CURRENCY0,
  LOT,                    \* GAGE one unit of liquidity takes in a band
  Prices,                 \* bound: prices of the pool, in half ticks
  MaxBands,               \* bound: positions minted
  MaxFees                 \* bound: GAGE the bands earn in fees

VARIABLES
  price,        \* of the GAGE/sGAGE pool
  bands,        \* sequence by tokenId: lower, liquidity, swept
  bandTokenId,  \* by lower tick, 0 for none
  gage,         \* GAGE the contract holds
  fees          \* GAGE the bands have earned in fees

bandVars == <<price, bands, bandTokenId, gage, fees>>

Tick == price \div 2

\* Solidity's remainder has the sign of the dividend.
Rem(t) == IF t >= 0 THEN t % SPACING ELSE -((-t) % SPACING)

CeilTo(t) ==
  LET r == Rem(t) IN IF r > 0 THEN t - r + SPACING ELSE t - r

\* Mutant: rounds towards zero like the division does.
FloorToZero(t) == t - Rem(t)

FloorTo(t) ==
  LET r == Rem(t) IN IF r >= 0 THEN t - r ELSE t - r - SPACING

\* _bandFor: strictly above the tick, or at or below it.
LowerFor(t) == IF GAGE_IS_CURRENCY0 THEN CeilTo(t + 1) ELSE FloorTo(t) - BAND_TICKS
Upper(band) == band.lower + BAND_TICKS

Clamp(x, lo, hi) == Max({lo, Min({x, hi})})

\* How much of a band is GAGE at a price, in half ticks of its width: the part
\* above the price if GAGE is currency0, the part below if it is currency1.
GagePart(band, p) ==
  LET at == Clamp(p, 2 * band.lower, 2 * Upper(band))
  IN  IF GAGE_IS_CURRENCY0 THEN 2 * Upper(band) - at ELSE at - 2 * band.lower

Lowers == {LowerFor(p \div 2) : p \in Prices}

BandsInit ==
  /\ price \in Prices
  /\ bands = <<>>
  /\ bandTokenId = [l \in Lowers |-> 0]
  /\ gage = 0 /\ fees = 0

\* _addFloor of all the GAGE given: the band of the current tick grows, or is
\* minted if there is none or it was swept; too little GAGE for any liquidity
\* stays in the contract.
AddFloor(amount) ==
  LET lower == LowerFor(Tick)
      id == bandTokenId[lower]
      liquidity == amount \div LOT
  IN  IF liquidity = 0
      THEN gage' = amount /\ UNCHANGED <<bands, bandTokenId>>
      ELSE /\ gage' = amount - liquidity * LOT
           /\ IF id = 0 \/ bands[id].swept
              THEN /\ Len(bands) < MaxBands
                   /\ bands' = Append(bands, [lower |-> lower, liquidity |-> liquidity, swept |-> FALSE])
                   /\ bandTokenId' = [bandTokenId EXCEPT ![lower] = Len(bands) + 1]
              ELSE /\ bands' = [bands EXCEPT ![id].liquidity = @ + liquidity]
                   /\ UNCHANGED bandTokenId

\* Mutant: a band counts as passed at its other edge.
ThroughLoose(band) == IF GAGE_IS_CURRENCY0 THEN Tick >= band.lower ELSE Tick < Upper(band)

Through(band) == IF GAGE_IS_CURRENCY0 THEN Tick >= Upper(band) ELSE Tick < band.lower

\* _decreaseAndBurn takes fees along, burns every sGAGE held and keeps the GAGE:
\* the principal's GAGE part, counted in whole units when it is all of the band.
KeptFees == {f \in 0 .. 1 : fees + f <= MaxFees}

DecreaseAndBurn(id, liquidity, f) ==
  /\ fees' = fees + f
  /\ gage' = gage + f + (liquidity * LOT * GagePart(bands[id], price)) \div (2 * BAND_TICKS)

Sweep(id) ==
  /\ bands[id].liquidity > 0 /\ ~bands[id].swept
  /\ Through(bands[id])
  /\ \E f \in KeptFees : DecreaseAndBurn(id, bands[id].liquidity, f)
  /\ bands' = [bands EXCEPT ![id].liquidity = 0, ![id].swept = TRUE]
  /\ UNCHANGED <<price, bandTokenId>>

CollectBand(id) ==
  /\ bands[id].liquidity > 0
  /\ \E f \in KeptFees \ {0} : DecreaseAndBurn(id, 0, f)
  /\ UNCHANGED <<price, bands, bandTokenId>>

\* Traders move the price anywhere; through a band they take its GAGE or give it back.
MarketMoves == price' \in Prices \ {price} /\ UNCHANGED <<bands, bandTokenId, gage, fees>>

\* The ladder only ever bids for sGAGE (FeeFloor.sol:31): liquidity is added
\* where it is all GAGE, so that none of it is offered for sale, and taken out
\* only where the market has taken all its GAGE, so that no bid is withdrawn.
OnlyBids ==
  \A id \in DOMAIN bands' :
     LET before == IF id \in DOMAIN bands THEN bands[id].liquidity ELSE 0
     IN  /\ bands'[id].liquidity > before => GagePart(bands'[id], price) = 2 * BAND_TICKS
         /\ bands'[id].liquidity < before => GagePart(bands[id], price) = 0

(***************************************************************************)
(* The splitter itself.                                                    *)
(***************************************************************************)

CONSTANTS
  OPS_SHARE_BPS, MAX_BOUNTY_BPS,
  Thresholds,     \* what the owner may set
  MaxEth          \* bound: ETH the fees ever amount to

VARIABLES
  eth,       \* ETH the contract holds
  accrued,   \* fees that a claim still has to bring here
  escrow,    \* fees in the launch's escrow (used by the Pons wallets)
  config,    \* threshold, bountyBps
  paid,      \* ETH that went to the floor, to operations and to callers
  received   \* fees ever earned

splitVars == <<eth, accrued, escrow, config, paid, received>>
splitterVars == <<bandVars, splitVars>>

Spot == [num |-> 1, den |-> 1, fee |-> 0]

SplitterInit ==
  /\ BandsInit
  /\ eth = 0 /\ accrued = 0 /\ escrow = 0
  /\ config \in [threshold : Thresholds, bountyBps : 0 .. MAX_BOUNTY_BPS]
  /\ paid = [floor |-> 0, ops |-> 0, callers |-> 0] /\ received = 0

\* Trading pays fees to where they accrue, or straight into the wallet.
FeesAccrue ==
  /\ received < MaxEth /\ received' = received + 1
  /\ \/ accrued' = accrued + 1 /\ UNCHANGED eth
     \/ eth' = eth + 1 /\ UNCHANGED accrued
  /\ UNCHANGED <<bandVars, escrow, config, paid>>

\* claim: one call that pays what is there.
Claim ==
  /\ accrued > 0
  /\ eth' = eth + accrued /\ accrued' = 0
  /\ UNCHANGED <<bandVars, escrow, config, paid, received>>

\* Mutant: the floor's share is the one that is rounded down.
ToFloorDown(total) == (total * (BPS - OPS_SHARE_BPS)) \div BPS

ToFloor(total) == total - (total * OPS_SHARE_BPS) \div BPS

\* Buying GAGE with ETH in the launch pool.
BuyGage(amount) == ExactIn(Spot, amount, QuoteAtSpot(Spot, amount, MAX_IMPACT_BPS))

\* split: everything the contract then holds in GAGE goes to the floor; buys is
\* what the floor's half may buy.
SplitBuying(buys) ==
  LET opsHalf == eth - ToFloor(eth)
      bounty == (opsHalf * config.bountyBps) \div BPS
  IN  /\ eth > 0 /\ eth >= config.threshold
      /\ \E bought \in buys : AddFloor(gage + bought)
      /\ eth' = 0
      /\ paid' = [floor |-> paid.floor + ToFloor(eth), ops |-> paid.ops + opsHalf - bounty,
                  callers |-> paid.callers + bounty]
      /\ UNCHANGED <<price, fees, accrued, escrow, config, received>>

Split == SplitBuying(BuyGage(ToFloor(eth)))

SetThreshold(to) == config' = [config EXCEPT !.threshold = to]
                    /\ UNCHANGED <<bandVars, eth, accrued, escrow, paid, received>>
SetBounty(bps) == bps \in 0 .. MAX_BOUNTY_BPS /\ config' = [config EXCEPT !.bountyBps = bps]
                  /\ UNCHANGED <<bandVars, eth, accrued, escrow, paid, received>>

SplitterSweep(id) == Sweep(id) /\ UNCHANGED splitVars
SplitterCollect(id) == CollectBand(id) /\ UNCHANGED splitVars

SplitterNext ==
  \/ FeesAccrue \/ Claim \/ Split
  \/ \E id \in DOMAIN bands : SplitterSweep(id) \/ SplitterCollect(id)
  \/ MarketMoves /\ UNCHANGED splitVars
  \/ \E to \in Thresholds \ {config.threshold} : SetThreshold(to)
  \/ \E bps \in 0 .. MAX_BOUNTY_BPS : bps # config.bountyBps /\ SetBounty(bps)

\* At least half of all ETH ever split buys the floor, whatever the sizes of
\* the clips, the bounty and its changes, and every fee waits where a claim
\* finds it or was split, however launch, claims and sweeps of others interleave
\* (CreatorFeeSplitter.sol:28-29).
HalfGoesToTheFloor ==
  /\ paid.floor >= paid.ops + paid.callers
  /\ received = eth + accrued + escrow + paid.floor + paid.ops + paid.callers
=============================================================================
