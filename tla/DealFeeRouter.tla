---------------------------- MODULE DealFeeRouter ----------------------------
(* The deal fee's ways to the token: the escrow credits the fee sink, which   *)
(* routes to a treasury, to Buyback (USDG to ETH to GAGE to sGAGE, burned) or *)
(* to DealFeeRouter, which pulls the credit through the sink itself, buys ETH *)
(* and then GAGE in one clip and deposits it with FeeFloor.                   *)
EXTENDS FeeFloor

CONSTANTS MaxUsdg,    \* bound: deal fees in USDG
          Bounties    \* what Buyback's owner may set as its bounty

VARIABLES
  credit,     \* of the sink in the escrow
  usdg,       \* of "sink" and of the places it routes to
  route,      \* "treasury", "buyback" or "router"
  batchUSDG,  \* DealFeeRouter.batchRemaining
  spent,      \* USDG that bought the floor, that bought back, that was a bounty
  charged,    \* deal fees ever credited
  bounty      \* Buyback.bountyBps

dealFeeVars == <<credit, usdg, route, batchUSDG, spent, charged, bounty>>
routerVars == <<floorVars, dealFeeVars>>

Routes == {"treasury", "buyback", "router"}

RouterInit ==
  /\ FloorInit
  /\ credit = 0 /\ usdg = [at \in Routes \cup {"sink"} |-> 0]
  /\ route \in Routes /\ batchUSDG = 0 /\ charged = 0 /\ bounty \in Bounties
  /\ spent = [floor |-> 0, buyback |-> 0, callers |-> 0]

\* A funded deal credits its fee to the sink.
DealFee ==
  /\ charged < MaxUsdg
  /\ charged' = charged + 1 /\ credit' = credit + 1
  /\ UNCHANGED <<floorVars, usdg, route, batchUSDG, spent, bounty>>

\* FeeSink.collect and sweep by anybody, and its owner's choice of a route.
SinkCollect ==
  /\ credit > 0 /\ credit' = 0
  /\ usdg' = [usdg EXCEPT !["sink"] = @ + credit]
  /\ UNCHANGED <<floorVars, route, batchUSDG, spent, charged, bounty>>
SinkSweep ==
  /\ usdg["sink"] > 0
  /\ usdg' = [usdg EXCEPT !["sink"] = 0, ![route] = @ + usdg["sink"]]
  /\ UNCHANGED <<floorVars, credit, route, batchUSDG, spent, charged, bounty>>
SinkRoute ==
  /\ route' \in Routes \ {route}
  /\ UNCHANGED <<floorVars, credit, usdg, batchUSDG, spent, charged, bounty>>

AvailableUSDG == usdg["router"] + usdg["sink"] + credit

BatchNow == IF AvailableUSDG >= config.threshold THEN AvailableUSDG ELSE batchUSDG

\* Mutant: what is pulled from upstream is taken to be the clip.
ProcessUncounted(clip) ==
  /\ route = "router"
  /\ BatchNow > 0 /\ clip \in 1 .. Min({BatchNow, AvailableUSDG})
  /\ batchUSDG' = BatchNow - clip
  /\ credit' = 0 /\ usdg' = [usdg EXCEPT !["sink"] = 0, !["router"] = 0]
  /\ spent' = [spent EXCEPT !.floor = @ + clip]
  /\ \E bought \in PonsBuy(clip) : AddFloor(gage + bought)
  /\ UNCHANGED <<price, fees, splitVars, launch, ethPrice, batchRemaining, route, charged, bounty>>

\* process: everything upstream is pulled, the clip buys ETH and then GAGE at
\* their bounds, and the floor takes it with what it had left over.
Process(clip) ==
  /\ route = "router"
  /\ BatchNow > 0 /\ clip \in 1 .. Min({BatchNow, AvailableUSDG})
  /\ batchUSDG' = BatchNow - clip
  /\ credit' = 0
  /\ usdg' = [usdg EXCEPT !["sink"] = 0, !["router"] = AvailableUSDG - clip]
  /\ spent' = [spent EXCEPT !.floor = @ + clip]
  /\ \E ethOut \in ExactIn(Spot, clip, QuoteAtSpot(Spot, clip, MAX_IMPACT_BPS)) :
        \E bought \in PonsBuy(ethOut) : AddFloor(gage + bought)
  /\ UNCHANGED <<price, fees, splitVars, launch, ethPrice, batchRemaining, route, charged, bounty>>

\* The three legs of Buyback: none falls below its bound, and what comes out of
\* one goes into the next.
Legs(spend) ==
  \E ethOut \in ExactIn(Spot, spend, QuoteAtSpot(Spot, spend, MAX_IMPACT_BPS)) :
     \E gageOut \in PonsBuy(ethOut) :
        ExactIn(Spot, gageOut, QuoteAtSpot(Spot, gageOut, MAX_IMPACT_BPS)) # {}

\* buyback: the caller's bounty comes out of the clip.
BuybackClip(clip) ==
  LET share == (clip * bounty) \div BPS
  IN  /\ usdg["buyback"] >= config.threshold
      /\ clip \in 1 .. usdg["buyback"]
      /\ Legs(clip - share)
      /\ usdg' = [usdg EXCEPT !["buyback"] = @ - clip]
      /\ spent' = [spent EXCEPT !.buyback = @ + clip - share, !.callers = @ + share]
      /\ UNCHANGED <<floorVars, credit, route, batchUSDG, charged, bounty>>

\* setThreshold of the router and of Buyback, which share one value here.
SetBatchThreshold(to) == FloorSetThreshold(to) /\ UNCHANGED dealFeeVars

SetBuybackBounty(bps) ==
  bounty' = bps /\ UNCHANGED <<floorVars, credit, usdg, route, batchUSDG, spent, charged>>

RouterNext ==
  \/ (\E id \in DOMAIN bands : FloorSweep(id)) /\ UNCHANGED dealFeeVars
  \/ MarketMoves /\ UNCHANGED <<splitVars, launch, ethPrice, batchRemaining, dealFeeVars>>
  \/ LaunchMoves /\ UNCHANGED <<ethPrice, batchRemaining, dealFeeVars>>
  \/ DealFee \/ SinkCollect \/ SinkSweep \/ SinkRoute
  \/ \E clip \in 1 .. MaxUsdg : Process(clip) \/ BuybackClip(clip)
  \/ \E bps \in Bounties \ {bounty} : SetBuybackBounty(bps)
  \/ \E to \in Thresholds \ {config.threshold} : SetBatchThreshold(to)

\* A deal's fee is never lost nor spent twice on its way, however collecting,
\* sweeping, re-routing and clips interleave; and what is left of a batch is in
\* one of the three places process pulls from, or was routed away.
DealFeesReachTheToken ==
  /\ charged = AvailableUSDG + usdg["treasury"] + usdg["buyback"]
               + spent.floor + spent.buyback + spent.callers
  /\ batchUSDG <= AvailableUSDG + usdg["treasury"] + usdg["buyback"]
=============================================================================
