------------------------------ MODULE FeeFloor ------------------------------
(* The two creator wallets for a launch on Pons.  The first sweeps the curve  *)
(* or the hook itself and claims the escrow, and buys on the curve until that *)
(* graduates.  The second splits the fees in clips of a batch, which is       *)
(* opened when the whole balance is worth the threshold in USDG, without a    *)
(* bounty; GAGE that others buy joins its floor.                              *)
EXTENDS CreatorFeeSplitter

(***************************************************************************)
(* The first wallet (PonsCreatorFeeSplitter.sol).                          *)
(***************************************************************************)
VARIABLE launch   \* the launch market: graduated, pool, left, tokenFees

ponsVars == <<splitterVars, launch>>

Launch0 == [graduated |-> FALSE, pool |-> FALSE, left |-> 2, tokenFees |-> FALSE]

PonsInit == SplitterInit /\ launch = Launch0

\* The launch: the curve sells out, graduates, its pool opens, fees in the token
\* come in and are converted by the operator of Pons.
LaunchMoves ==
  /\ launch' \in {[launch EXCEPT !.graduated = TRUE], [launch EXCEPT !.pool = launch.graduated],
                  [launch EXCEPT !.tokenFees = ~@], [launch EXCEPT !.left = 1]} \ {launch}
  /\ UNCHANGED splitterVars

LaunchPoolExists == launch.pool

\* sweepFees before graduation, sweepPoolFees once the pool is there.  The hook
\* refuses while fees wait for the operator to convert: nothing moves, and only
\* this refusal is ignored.
Swept == IF ~launch.graduated \/ (LaunchPoolExists /\ ~launch.tokenFees) THEN accrued ELSE 0

\* Mutant: the escrow is paid out before the sweep, and the sweep counts as paid.
PonsClaimEarly ==
  /\ Swept + escrow > 0
  /\ eth' = eth + escrow /\ escrow' = 0
  /\ accrued' = accrued - Swept
  /\ UNCHANGED <<bandVars, config, paid, received, launch>>

\* claim: whatever was swept, the escrow is paid out.
PonsClaim ==
  /\ Swept + escrow > 0
  /\ eth' = eth + escrow + Swept /\ escrow' = 0
  /\ accrued' = accrued - Swept
  /\ UNCHANGED <<bandVars, config, paid, received, launch>>

\* Anybody may sweep the curve for the creator, into the escrow.
SweptByOthers ==
  /\ Swept > 0
  /\ escrow' = escrow + Swept /\ accrued' = accrued - Swept
  /\ UNCHANGED <<bandVars, eth, config, paid, received, launch>>

\* _swapExactIn with its minimum from _quoteAtSpot: the curve before graduation,
\* then the launch pool, which may not be there yet.
PonsBuy(amount) ==
  IF ~launch.graduated
  THEN CurveBuy([num |-> 1, den |-> 1, fee |-> 0, left |-> launch.left], amount,
                QuoteAtSpot(Spot, amount, MAX_IMPACT_BPS))
  ELSE IF launch.pool THEN BuyGage(amount) ELSE {}

PonsSplit == SplitBuying(PonsBuy(ToFloor(eth))) /\ UNCHANGED launch

PonsSweep(id) == SplitterSweep(id) /\ UNCHANGED launch
PonsCollect(id) == SplitterCollect(id) /\ UNCHANGED launch
PonsSetThreshold(to) == SetThreshold(to) /\ UNCHANGED launch
PonsSetBounty(bps) == SetBounty(bps) /\ UNCHANGED launch

PonsNext ==
  \/ LaunchMoves \/ PonsClaim \/ SweptByOthers \/ PonsSplit
  \/ FeesAccrue /\ UNCHANGED launch
  \/ \E id \in DOMAIN bands : PonsSweep(id) \/ PonsCollect(id)
  \/ MarketMoves /\ UNCHANGED <<splitVars, launch>>
  \/ \E to \in Thresholds \ {config.threshold} : PonsSetThreshold(to)
  \/ \E bps \in 0 .. MAX_BOUNTY_BPS : bps # config.bountyBps /\ PonsSetBounty(bps)

(***************************************************************************)
(* The second wallet (FeeFloor.sol).                                       *)
(***************************************************************************)
CONSTANT EthPrices   \* USDG an ETH may be worth in the ETH/USDG pool

VARIABLES ethPrice, batchRemaining

floorVars == <<ponsVars, ethPrice, batchRemaining>>

FloorInit == PonsInit /\ config.bountyBps = 0 /\ ethPrice \in EthPrices /\ batchRemaining = 0

EthValueUSDG(amount) == amount * ethPrice

\* Mutant: the clip is not taken off the batch.
BatchKept(held) ==
  IF held > 0 /\ EthValueUSDG(held) >= config.threshold THEN held ELSE batchRemaining + 1

\* A balance worth the threshold opens a batch of all of it.
Batch(held) == IF held > 0 /\ EthValueUSDG(held) >= config.threshold THEN held ELSE batchRemaining

\* _split of a clip, out of what the wallet holds.
SplitClip(held, clip) ==
  /\ clip \in 1 .. Min({Batch(held), held})
  /\ batchRemaining' = Batch(held) - clip
  /\ \E bought \in PonsBuy(ToFloor(clip)) : AddFloor(gage + bought)
  /\ eth' = held - clip
  /\ paid' = [paid EXCEPT !.floor = @ + ToFloor(clip), !.ops = @ + clip - ToFloor(clip)]
  /\ UNCHANGED <<price, fees, config, received, launch, ethPrice>>

\* split(clip), and split() of all there is.
SplitSome(clip) == SplitClip(eth, clip) /\ UNCHANGED <<accrued, escrow>>
SplitAll == SplitSome(eth)

FloorClaim == PonsClaim /\ UNCHANGED <<ethPrice, batchRemaining>>

\* claimAndSplit: the claim and the clip are one transaction.
ClaimAndSplit(clip) ==
  /\ SplitClip(eth + escrow + Swept, clip)
  /\ accrued' = accrued - Swept /\ escrow' = 0

\* depositGAGE adds to the floor what came in and what was left over.
DepositGAGE(amount) ==
  /\ AddFloor(gage + amount)
  /\ UNCHANGED <<price, fees, splitVars, launch, ethPrice, batchRemaining>>

FloorSweep(id) == PonsSweep(id) /\ UNCHANGED <<ethPrice, batchRemaining>>
FloorCollect(id) == PonsCollect(id) /\ UNCHANGED <<ethPrice, batchRemaining>>
FloorSetThreshold(to) == PonsSetThreshold(to) /\ UNCHANGED <<ethPrice, batchRemaining>>

EthPriceMoves == ethPrice' \in EthPrices \ {ethPrice} /\ UNCHANGED <<ponsVars, batchRemaining>>

FloorNext ==
  \/ (LaunchMoves \/ SweptByOthers) /\ UNCHANGED <<ethPrice, batchRemaining>>
  \/ FeesAccrue /\ UNCHANGED <<launch, ethPrice, batchRemaining>>
  \/ MarketMoves /\ UNCHANGED <<splitVars, launch, ethPrice, batchRemaining>>
  \/ FloorClaim \/ SplitAll \/ EthPriceMoves
  \/ \E id \in DOMAIN bands : FloorSweep(id) \/ FloorCollect(id)
  \/ \E clip \in 1 .. MaxEth : SplitSome(clip) \/ ClaimAndSplit(clip)
  \/ \E to \in Thresholds \ {config.threshold} : FloorSetThreshold(to)

\* Clips can only ever spend what a balance worth the threshold opened: what is
\* left of the batch is held, and fees that come later wait for the next batch,
\* however the price and the threshold move between two clips.
BatchIsHeld == batchRemaining <= eth
=============================================================================
