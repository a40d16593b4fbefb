----------------------------- MODULE MCDealVault -----------------------------
(***************************************************************************)
(* Small instances of the first escrow with its fee sink: two accounts, a  *)
(* token, a position and two deals.  The initial state picks a scenario,   *)
(* an instance with smaller sets of inputs.                                *)
(***************************************************************************)
EXTENDS FeeSink

CONSTANTS a1, a2, vault, feeSink, treasury, buyback, t1, p1

VARIABLES scenario, version, shape, facts, admits, bound

lpOnly == <<version, shape, facts, admits, bound>>
LPOff == version = 0 /\ shape = 0 /\ facts = 0 /\ admits = 0 /\ bound = 0

ConstAccounts == {a1, a2}
ConstWallets == {a1, a2, vault, feeSink, treasury, buyback}

Narrow == [cap |-> 2, minPrice |-> 1]
Open == [cap |-> 4, minPrice |-> 0]
Full == [cap |-> 4, minPrice |-> 4]
AllAsks == {Narrow, Open, Full}

\* Two deals over a token, funded or bid on by both accounts, their own included.
Bids == INSTANCE FeeSink WITH
  Kinds <- {"ERC20"}, ZapListings <- FALSE, Asks <- {Narrow}, Prices <- {2}, Fees <- {0},
  Caps <- {2}, Routers <- {}, OwnerMoves <- {}, Listers <- {a1}, MaxTime <- 1

\* One deal while the registry's owner changes everything and USDG stops accounts.
Rights == INSTANCE FeeSink WITH
  Kinds <- {"ERC20"}, ZapListings <- FALSE, Asks <- {Open}, Prices <- {4}, Fees <- {9},
  Caps <- {0, 1}, Routers <- {}, OwnerMoves <- {"pause", "terms", "allow", "open", "stop"},
  Listers <- {a1}, MaxDeals <- 1, MaxBids <- 1, MaxTime <- 2

\* One position listed, funded, credited, sold and listed again, also by a router.
Places == INSTANCE FeeSink WITH
  Kinds <- {"POSITION"}, ZapListings <- TRUE, Asks <- {Narrow}, Prices <- {}, Fees <- {0},
  Caps <- {2}, OwnerMoves <- {"router"}, Listers <- {a1}, MaxTime <- 2

\* Fees of two deals at the asking price, collected and swept while the route and the fee change.
Routes == INSTANCE FeeSink WITH
  Kinds <- {"ERC20"}, ZapListings <- FALSE, Asks <- {Full}, Prices <- {}, Fees <- {1, 9},
  Caps <- {2}, Routers <- {}, OwnerMoves <- {"route", "fee"}, Listers <- {a1}, MaxTime <- 0

\* The LP-only escrows with the forwarder: one position in pools of every shape.
Shapes ==
  {[pair |-> {"USDG", "STOCK"}, hooks |-> {}, observes |-> FALSE],
   [pair |-> {"STOCK", "MEME"}, hooks |-> {"after"}, observes |-> TRUE],
   [pair |-> {"STOCK", "MEME"}, hooks |-> {"after"}, observes |-> FALSE],
   [pair |-> {"USDG", "MEME"}, hooks |-> {"before"}, observes |-> TRUE],
   [pair |-> {"USDG", "MEME"}, hooks |-> {"swap"}, observes |-> FALSE],
   [pair |-> {"WETH", "MEME"}, hooks |-> {}, observes |-> FALSE]}
LP == INSTANCE DealVaultLP WITH
  Kinds <- {"POSITION"}, ZapListings <- FALSE, Asks <- {Full}, Prices <- {}, Fees <- {1},
  Caps <- {0}, Routers <- {}, OwnerMoves <- {"admits"}, Listers <- {a1}, MaxDeals <- 2, GRACE <- 0,
  MaxTime <- 1, Processor <- treasury, MinLiquidity <- 1,
  USDG_ <- "USDG", WETH_ <- "WETH", Memes <- {"MEME"}, Stocks <- {"STOCK"},
  Masks <- {{"STOCK", "USDG", "ETH"}, {"USDG"}}

MCInit ==
  \/ scenario = "lp" /\ LP!LPInit /\ sink = 0
  \/ scenario = "bids" /\ Bids!SinkInit /\ LPOff
  \/ scenario = "rights" /\ Rights!SinkInit /\ LPOff
  \/ scenario = "places" /\ Places!SinkInit /\ LPOff
  \/ scenario = "routes" /\ Routes!SinkInit /\ LPOff

MCNext ==
  \/ scenario = "lp" /\ LP!LPNext /\ UNCHANGED <<scenario, sink>>
  \/ scenario = "bids" /\ Bids!SinkNext /\ UNCHANGED <<scenario, lpOnly>>
  \/ scenario = "rights" /\ Rights!SinkNext /\ UNCHANGED <<scenario, lpOnly>>
  \/ scenario = "places" /\ Places!SinkNext /\ UNCHANGED <<scenario, lpOnly>>
  \/ scenario = "routes" /\ Routes!SinkNext /\ UNCHANGED <<scenario, lpOnly>>

MCSpec == MCInit /\ [][MCNext]_<<sinkVars, scenario, lpOnly>>

PositionsUnwind == scenario = "lp" => LP!HeldPositionsUnwind

\* Every scenario's rights, with that scenario's own version, grace and inputs.
EveryRightIsOpen ==
  /\ scenario = "lp" => LP!RightsStayOpen
  /\ scenario = "bids" => Bids!RightsStayOpen
  /\ scenario = "rights" => Rights!RightsStayOpen
  /\ scenario = "places" => Places!RightsStayOpen
  /\ scenario = "routes" => Routes!RightsStayOpen

CollateralIsSafe == CollateralFollowsOutcomes /\ PositionsUnwind
FeesAddUp == IF scenario = "lp" THEN LP!ForwardedFeesAddUp ELSE FeesAreAccounted
=============================================================================
