------------------------------- MODULE MCVault -------------------------------
(***************************************************************************)
(* Small inputs for GageV2Vault.  Amounts are chosen so that quarters are  *)
(* uneven: 5 = 2+1+1+1, 6 = 2+2+1+1, 7 = 2+2+2+1.                          *)
(*                                                                         *)
(* The whole input space is out of reach, so the initial state picks a     *)
(* scenario, and a scenario restricts what may happen: each is an instance *)
(* of the vault with smaller sets of inputs over the same accounts.        *)
(***************************************************************************)
EXTENDS GageV2Vault, TLC

CONSTANTS alice, bob, carol, treasury, wood, stone

VARIABLE scenario

\* Two lenders that differ in nothing but their name.
Lenders == Permutations({bob, carol})

Listing(principal, cap, kind, key, raw) ==
  [principal |-> principal, cap |-> cap, term |-> 2, window |-> 1,
   kind |-> kind, key |-> key, raw |-> raw, withRewards |-> TRUE]

OneToken == {Listing(5, 7, "ERC20", wood, 3)}
TokenOrPosition == {Listing(5, 7, "ERC20", wood, 2), Listing(6, 6, "LP", wood, 3)}

OpenLimits == {[allowed |-> TRUE, minimum |-> 1, perDeal |-> 3, aggregate |-> 6]}
TighterLimits == OpenLimits \cup {[allowed |-> FALSE, minimum |-> 1, perDeal |-> 3, aggregate |-> 3]}

PoolPays == {[x \in Assets |-> IF x = 0 THEN 7 ELSE 0], [x \in Assets |-> IF x = 0 THEN 1 ELSE 6]}

OddBundle == {{1, 3}}

\* Two loans at once: committing, withdrawing, cancelling, repaying, defaulting.
Pool == INSTANCE GageV2Vault WITH
  UnitCounts <- {2}, Listings <- OneToken, Recoveries <- {}, Prices <- {}, UnitPrices <- {},
  Drift <- {}, MaxLoans <- 2, MaxCash <- 6, Buyers <- {treasury}, MaxNonce <- 0, Pauses <- {FALSE},
  FeeBps <- {1}, TradeFeeBps <- {1}, RewardRates <- {0}, Limits <- OpenLimits,
  Donations <- {}, MaxBudget <- 0, MaxTime <- 3

\* The owner pauses and closes the market while outsiders add to the collateral.
Admission == INSTANCE GageV2Vault WITH
  UnitCounts <- {2}, Recoveries <- {}, Prices <- {}, UnitPrices <- {},
  MaxLoans <- 1, MaxCash <- 8, MaxNonce <- 0, Buyers <- {alice, treasury},
  FeeBps <- {1}, TradeFeeBps <- {1}, RewardRates <- {2}, Donations <- {2}, MaxBudget <- 2

\* Lender units are sold, and sold again, while rewards accrue.
UnitSales == INSTANCE GageV2Vault WITH
  UnitCounts <- {4}, Listings <- OneToken, Recoveries <- {}, Drift <- {},
  MaxLoans <- 1, MaxCash <- 1, MaxNonce <- 1, Prices <- {}, Pauses <- {FALSE},
  FeeBps <- {1}, TradeFeeBps <- {3}, RewardRates <- {10}, Limits <- OpenLimits,
  Donations <- {10}, MaxBudget <- 10, MaxTime <- 3, Buyers <- {bob, carol}

\* The right is sold, and sold again.
RightSales == INSTANCE GageV2Vault WITH
  UnitCounts <- {4}, Listings <- OneToken, Recoveries <- {}, Drift <- {},
  MaxLoans <- 1, MaxCash <- 1, MaxNonce <- 3, UnitPrices <- {}, Pauses <- {FALSE},
  FeeBps <- {1}, TradeFeeBps <- {3}, RewardRates <- {10}, Limits <- OpenLimits,
  Donations <- {10}, MaxBudget <- 10, MaxTime <- 3, Buyers <- {bob, carol}

\* Defaults of both kinds of collateral, to one or two lenders in any split.
Default == INSTANCE GageV2Vault WITH
  Prices <- {}, UnitPrices <- {}, Drift <- {},
  MaxLoans <- 1, MaxCash <- 6, MaxNonce <- 0, Pauses <- {FALSE},
  FeeBps <- {1}, TradeFeeBps <- {1}, RewardRates <- {0}, Limits <- OpenLimits,
  Donations <- {}, MaxBudget <- 0, MaxTime <- 3, Buyers <- {bob, carol}

MCInit ==
  \/ scenario = "pool" /\ Pool!Init
  \/ scenario = "admission" /\ Admission!Init
  \/ scenario = "units" /\ UnitSales!Init
  \/ scenario = "rights" /\ RightSales!Init
  \/ scenario = "default" /\ Default!Init

MCNext ==
  \/ scenario = "pool" /\ Pool!Next /\ UNCHANGED scenario
  \/ scenario = "admission" /\ Admission!Next /\ UNCHANGED scenario
  \/ scenario = "units" /\ UnitSales!Next /\ UNCHANGED scenario
  \/ scenario = "rights" /\ RightSales!Next /\ UNCHANGED scenario
  \/ scenario = "default" /\ Default!Next /\ UNCHANGED scenario

\* All inputs at once, under the fairness of FairSpec.
MCFairSpec ==
  /\ scenario = "all" /\ Init
  /\ [][Next /\ UNCHANGED scenario]_<<vars, scenario>>
  /\ Fairness

MCSpec == MCInit /\ [][MCNext]_<<vars, scenario>>

=============================================================================
