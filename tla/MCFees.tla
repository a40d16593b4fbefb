------------------------------- MODULE MCFees -------------------------------
(* The fee side of the token layer and the routers for TLC, one component per *)
(* scenario: the creator's wallets in both currency orders, the deal fee on   *)
(* its way to the floor or to the burn, the reinvest routers, the two seed    *)
(* locks, the zap and entry routers, the cash-out router and the adapter      *)
(* through which the second protocol earns the first one's rewards.           *)
EXTENDS Integers

CONSTANTS BPS, MAX_IMPACT_BPS, SPACING, BAND_TICKS, LOT, Prices, MaxBands, MaxFees,
          OPS_SHARE_BPS, MAX_BOUNTY_BPS, Thresholds, MaxEth, EthPrices, MaxUsdg, Bounties,
          Callers, Amounts, CUSHION, Reserves, CURVE_FEE, MaxCalls,
          LOCK_LENGTH, BASE, DEVIATION, MAX_DELAY, MIN_GROWTH, SEND_DELAY, SqrtPrices, MaxClock, MaxFee,
          MAX_SWAPS, SPLIT_ITERATIONS, SLIPPAGE_BPS, CASHOUT_FEE_BPS, MAX_ROUTES, LENDER_SHARE

VARIABLES scenario,
  price, bands, bandTokenId, gage, fees,
  eth, accrued, escrow, launch, config, paid, received,
  ethPrice, batchRemaining,
  credit, usdg, route, batchUSDG, spent, charged, bounty,
  wallet, owned, curve, graduated, calls, last,
  clock, sqrtPrice, pool, nft, releaseAt, released, liquidity, earned, kept, treasury, worker, mempool,
  held, reserves, allowed, quoted, holders,
  loanState, approved, admitted,
  now, rate, budget, activeEngine, loans, pledged, recycledFree, sgage, drips, ledger

bandVars == <<price, bands, bandTokenId, gage, fees>>
creatorVars == <<bandVars, eth, accrued, escrow, launch, config, paid, received>>
floorVars == <<creatorVars, ethPrice, batchRemaining>>
dealVars == <<credit, usdg, route, batchUSDG, spent, charged, bounty>>
reinvestVars == <<wallet, owned, curve, graduated, calls, last>>
seedVars == <<clock, sqrtPrice, pool, nft, releaseAt, released, liquidity, earned, kept,
              treasury, worker, mempool>>
zapOnly == <<held, reserves, allowed, quoted, holders>>
cashoutOnly == <<loanState, approved, admitted>>
adapterVars == <<now, rate, budget, activeEngine, loans, pledged, recycledFree, sgage, drips, ledger>>
routerVars == <<zapOnly, cashoutOnly, adapterVars>>
mcVars == <<scenario, floorVars, dealVars, reinvestVars, seedVars, routerVars>>

\* Half ticks on both sides of zero, on and off the spacing.
AroundZero == {-6, -3, 0, 3}
SmallReserves == {<<1, 4>>, <<3, 5>>, <<5, 7>>}

\* GAGE above the market's sGAGE, or below it.
Creator == INSTANCE CreatorFeeSplitter WITH GAGE_IS_CURRENCY0 <- TRUE
Pons == INSTANCE FeeFloor WITH GAGE_IS_CURRENCY0 <- FALSE, MaxEth <- 3,
          Prices <- {-5, 3}
Floor == INSTANCE FeeFloor WITH GAGE_IS_CURRENCY0 <- FALSE, Prices <- {-5, 3}, MaxEth <- 3
Deal == INSTANCE DealFeeRouter WITH GAGE_IS_CURRENCY0 <- TRUE, MaxFees <- 0,
          Prices <- {-3, 5}, EthPrices <- {1}
Reinvest == INSTANCE ReinvestRouter WITH MaxCalls <- 2
Zaps == INSTANCE PonsReinvestRouter
Plain == INSTANCE SeedLock WITH Compounding <- FALSE
Growing == INSTANCE SeedLock WITH Compounding <- TRUE

\* Swaps through the collateral's pool, and through one or two other pools.
ZapStep(from, to, n) == [key |-> {from, to}, in |-> from, amountIn |-> n, minOut |-> 1]
ZapRoutes ==
  {<<>>, <<ZapStep("USDG", "MEME", 1)>>, <<ZapStep("USDG", "MEME", 2)>>, <<ZapStep("WETH", "USDG", 1)>>}
  \cup {<<ZapStep("ETH", "USDG", n), ZapStep("USDG", "MEME", 1)>> : n \in {2, 3}}
  \cup {<<ZapStep("WETH", "MEME", n), ZapStep("MEME", "USDG", 1)>> : n \in {2, 3}}
  \cup {<<ZapStep("USDG", "ETH", n), ZapStep("USDG", "MEME", 1)>> : n \in {1, 2}}
Zap == INSTANCE ZapRouter WITH Amounts <- {1, 2, 4}, Nobody <- "nobody", Routes <- ZapRoutes,
         QuoteAmounts <- {5, 8, 9}, RoutingPools <- {{"ETH", "USDG"}, {"WETH", "MEME"}, {"MEME", "ETH"}},
         Reserves <- {<<8, 8>>, <<5, 9>>, <<9, 4>>}, Principal <- 5, MaxCalls <- 2

\* Two loans; routes in the right and in the wrong order, whole and too short.
Exchange(kind, in, out) == [kind |-> kind, in |-> in, out |-> out, minOut |-> 1]
CashoutRoutes ==
  {<<>>, <<Exchange("V3", "WETH", "USDG")>>, <<Exchange("V4", "ETH", "USDG")>>,
   <<Exchange("V4", "MEME", "ETH"), Exchange("V4", "ETH", "USDG")>>,
   <<Exchange("UNWRAP_WETH", "WETH", "ETH"), Exchange("V4", "ETH", "USDG")>>,
   <<Exchange("V4", "ETH", "USDG"), Exchange("V4", "MEME", "ETH")>>}
TwoLoans(x, y) ==
  <<[owner |-> x, cap |-> 1, tokens |-> {"MEME", "ETH"}], [owner |-> y, cap |-> 2, tokens |-> {"WETH", "USDG"}]>>
AnyCaller == CHOOSE c \in Callers : TRUE
Cashout == INSTANCE CashoutRouter WITH
             Loans <- TwoLoans(AnyCaller, CHOOSE c \in Callers : c # AnyCaller), Routes <- CashoutRoutes,
             Limits <- {0, 1}, Unwound <- {0, 2, 3}, FlashFees <- {0, 1}, MaxCalls <- 3

\* Two engines behind one adapter, three collateral accounts.
Adapter == INSTANCE LegacyAdapter WITH
             Engines <- {"e1", "e2"}, NoEngine <- "none",
             BackingAccounts <- {[engine |-> "e1", name |-> 1], [engine |-> "e1", name |-> 2],
                                 [engine |-> "e2", name |-> 1]},
             Terms <- {2}, GRACE <- 1, Fees <- {2}, Rates <- {2}, Budget <- 4, MaxNow <- 4, MaxLoans <- 3

\* The components a scenario does not use stand still.
CreatorOff == /\ price = 0 /\ bands = <<>> /\ bandTokenId = <<>> /\ gage = 0 /\ fees = 0
              /\ eth = 0 /\ accrued = 0 /\ escrow = 0 /\ launch = 0 /\ config = 0 /\ paid = 0 /\ received = 0
FloorOff == ethPrice = 0 /\ batchRemaining = 0
DealOff == /\ credit = 0 /\ usdg = 0 /\ route = 0 /\ batchUSDG = 0 /\ spent = 0 /\ charged = 0 /\ bounty = 0
ReinvestOff == wallet = 0 /\ owned = 0 /\ curve = 0 /\ graduated = 0 /\ calls = 0 /\ last = 0
SeedOff == /\ clock = 0 /\ sqrtPrice = 0 /\ pool = 0 /\ nft = 0 /\ releaseAt = 0 /\ released = 0
           /\ liquidity = 0 /\ earned = 0 /\ kept = 0 /\ treasury = 0 /\ worker = 0 /\ mempool = 0
WalletsOff == wallet = 0 /\ calls = 0 /\ last = 0
ZapOff == reserves = 0 /\ allowed = 0 /\ quoted = 0 /\ holders = 0
CashoutOff == loanState = 0 /\ approved = 0 /\ admitted = 0
AdapterOff == /\ now = 0 /\ rate = 0 /\ budget = 0 /\ activeEngine = 0 /\ loans = 0 /\ pledged = 0
              /\ recycledFree = 0 /\ sgage = 0 /\ drips = 0 /\ ledger = 0
RoutersOff == held = 0 /\ ZapOff /\ CashoutOff /\ AdapterOff
FeesOff == CreatorOff /\ FloorOff /\ DealOff /\ SeedOff /\ owned = 0 /\ curve = 0 /\ graduated = 0

MCInit ==
  \/ /\ scenario = "creator" /\ Creator!SplitterInit
     /\ launch = 0 /\ FloorOff /\ DealOff /\ ReinvestOff /\ SeedOff /\ RoutersOff
  \/ /\ scenario = "pons" /\ Pons!PonsInit
     /\ FloorOff /\ DealOff /\ ReinvestOff /\ SeedOff /\ RoutersOff
  \/ /\ scenario = "floor" /\ Floor!FloorInit
     /\ DealOff /\ ReinvestOff /\ SeedOff
     /\ RoutersOff
  \/ /\ scenario = "deal" /\ Deal!RouterInit
     /\ ReinvestOff /\ SeedOff
     /\ RoutersOff
  \/ /\ scenario = "reinvest" /\ Reinvest!ReinvestInit
     /\ curve = 0 /\ graduated = 0
     /\ CreatorOff /\ FloorOff /\ DealOff /\ SeedOff
     /\ RoutersOff
  \/ /\ scenario = "zaps" /\ Zaps!PonsReinvestInit
     /\ CreatorOff /\ FloorOff /\ DealOff /\ SeedOff
     /\ RoutersOff
  \/ /\ scenario \in {"plain", "growing"} /\ Plain!SeedInit
     /\ CreatorOff /\ FloorOff /\ DealOff /\ ReinvestOff
     /\ RoutersOff
  \/ /\ scenario = "zap" /\ Zap!ZapInit /\ FeesOff /\ CashoutOff /\ AdapterOff
  \/ /\ scenario = "cashout" /\ Cashout!CashoutInit /\ FeesOff /\ ZapOff /\ AdapterOff
  \/ /\ scenario = "adapter" /\ Adapter!AdapterInit /\ FeesOff /\ WalletsOff /\ held = 0 /\ ZapOff /\ CashoutOff

FeesNext ==
  /\ \/ /\ \/ scenario = "creator" /\ Creator!SplitterNext /\ UNCHANGED launch
           \/ scenario = "pons" /\ Pons!PonsNext
        /\ UNCHANGED <<ethPrice, batchRemaining, dealVars, reinvestVars, seedVars>>
     \/ scenario = "floor" /\ Floor!FloorNext /\ UNCHANGED <<dealVars, reinvestVars, seedVars>>
     \/ scenario = "deal" /\ Deal!RouterNext /\ UNCHANGED <<reinvestVars, seedVars>>
     \/ /\ \/ scenario = "reinvest" /\ Reinvest!ReinvestNext /\ UNCHANGED <<curve, graduated>>
           \/ scenario = "zaps" /\ Zaps!GageZapNext
        /\ UNCHANGED <<floorVars, dealVars, seedVars>>
     \/ /\ \/ scenario = "plain" /\ Plain!SeedNext
           \/ scenario = "growing" /\ Growing!SeedNext
        /\ UNCHANGED <<floorVars, dealVars, reinvestVars>>
  /\ UNCHANGED routerVars

RoutersNext ==
  /\ \/ scenario = "zap" /\ Zap!ZapNext /\ UNCHANGED <<cashoutOnly, adapterVars>>
     \/ scenario = "cashout" /\ Cashout!CashoutNext
          /\ UNCHANGED <<reserves, allowed, quoted, holders, adapterVars>>
     \/ scenario = "adapter" /\ Adapter!AdapterNext
          /\ UNCHANGED <<wallet, calls, last, zapOnly, cashoutOnly>>
  /\ UNCHANGED <<floorVars, dealVars, seedVars, owned, curve, graduated>>

MCNext == (FeesNext \/ RoutersNext) /\ UNCHANGED scenario

MCSpec == MCInit /\ [][MCNext]_mcVars

\* Every fee reaches its end once, at least half of it the floor, and the floor
\* only ever bids for sGAGE with it.
FeesReachTheirEnd ==
  /\ [](/\ scenario \in {"creator", "pons", "floor"} => Floor!HalfGoesToTheFloor
        /\ scenario = "floor" => Floor!BatchIsHeld
        /\ scenario = "deal" => Deal!DealFeesReachTheToken)
  /\ [][/\ scenario \in {"creator", "deal"} => Creator!OnlyBids
        /\ scenario \in {"pons", "floor"} => Pons!OnlyBids]_bandVars

\* A call of a router works with its caller's money alone and leaves nothing.
RoutersAreExact ==
  [][/\ scenario = "reinvest" => Reinvest!EndsEmpty
     /\ scenario = "zaps" => Zaps!EndsEmpty
     /\ scenario = "zap" => Zap!CallsAreExact
     /\ scenario = "cashout" => Cashout!CashoutIsExact]_<<reinvestVars, routerVars>>

\* What was quoted can be executed: a zap at its split, which no other beats but
\* where the search was cut off, and a purchase on the curve within its budget.
QuotesHold ==
  /\ scenario = "zap" => Zap!QuotesHold
  /\ scenario = "zaps" => Zaps!BudgetBuys

\* Every reward the adapter promised is there, here or in a drip.
RewardsAreBacked == scenario = "adapter" => Adapter!RewardsAreBacked

\* The seed stays its year, whatever compounds it, and one transaction at a time.
SeedIsKept ==
  /\ [][/\ scenario = "plain" => Plain!Kept
        /\ scenario = "growing" => Growing!Kept]_seedVars
  /\ [](scenario = "growing" => Growing!OneCompoundAtATime)
=============================================================================
