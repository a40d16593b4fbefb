------------------------------- MODULE MCHybrid -------------------------------
(***************************************************************************)
(* Small instances of HybridVault: two holders and two listings whose      *)
(* principal is one or two coins a unit.  The initial state picks a        *)
(* scenario, and each scenario is an instance with smaller sets of inputs  *)
(* over the same holders and listings.                                     *)
(***************************************************************************)
EXTENDS KeeperEarn, TLC

CONSTANTS ann, ben, d1, d2

VARIABLE scenario

\* The holders differ in nothing but their name.
HolderNames == Permutations({ann, ben})

Recovered(t0, a0, t1, a1) ==
  [x \in Assets |-> IF x = 0 THEN [token |-> t0, amount |-> a0] ELSE [token |-> t1, amount |-> a1]]

Listing(principal, cap, term, deadline, lane, borrower, taken, recovery) ==
  [principal |-> principal, cap |-> cap, term |-> term, deadline |-> deadline, lane |-> lane,
   borrower |-> borrower, taken |-> taken, recovery |-> recovery]

Token == Recovered("WOOD", 3, "WOOD", 0)
Position == Recovered("SGAGE", 2, "WOOD", 3)

Listings == [d \in Deals |-> IF d = d1 THEN Listing(4, 10, 1, 2, "STOCK", "eve", {}, Token)
                             ELSE Listing(8, 16, 1, 3, "LP", "eve", {0, 1}, Position)]

Halves == [l \in Lanes |-> BPS \div 2]
Gift == {[token |-> "SGAGE", amount |-> 1]}

\* Requests and payments against a reserve that reports limits and moves.
Queue == INSTANCE HybridVault WITH
  Listed <- {}, Weights <- {}, FeeRates <- {0}, Pauses <- {}, Investments <- {3}, Amounts <- {4},
  Redemptions <- {}, RequestSizes <- {1, 3}, Limits <- {3}, Outages <- {{}}, Gifts <- {},
  RewardSteps <- {}, Budgets <- {1, 9}, MaxDeposits <- 2, MaxEpochs <- 0, MaxTime <- 0

\* Two loans of different kinds from approval to every end, with outages of USDG.
Loans == INSTANCE HybridVault WITH
  Weights <- {}, FeeRates <- {0}, Pauses <- {}, UnitChoices <- {2}, Investments <- {}, Amounts <- {8},
  Redemptions <- {}, RequestSizes <- {}, Rates <- {1}, Limits <- {0}, Outages <- {{}, {"USDG"}},
  Gifts <- {}, RewardSteps <- {}, Budgets <- {9}, MaxDeposits <- 1, MaxRequests <- 0, MaxEpochs <- 0,
  MaxTime <- 2

\* Write-downs between entries and exits, and the pockets they leave.
Pockets == INSTANCE HybridVault WITH
  Listed <- {d1}, Weights <- {}, FeeRates <- {0}, UnitChoices <- {4}, Investments <- {},
  Amounts <- {4}, Redemptions <- {}, RequestSizes <- {2}, Rates <- {1}, Limits <- {0},
  Outages <- {{}, {"WOOD"}}, Gifts <- {}, RewardSteps <- {}, Budgets <- {9},
  MaxDeposits <- 2, MaxRequests <- 1

\* A fee on the gain of one loan while the other may be lost.
Fees == INSTANCE HybridVault WITH
  Weights <- {}, FeeRates <- {2}, Pauses <- {}, UnitChoices <- {2}, Investments <- {}, Amounts <- {8},
  Redemptions <- {}, RequestSizes <- {}, Rates <- {1}, Limits <- {0}, Outages <- {{}}, Gifts <- {},
  RewardSteps <- {}, Budgets <- {9}, MaxDeposits <- 1, MaxRequests <- 0, MaxEpochs <- 0, MaxTime <- 2

\* Rewards of two holders, pushed, claimed, given and stuck.
Rewards == INSTANCE HybridVault WITH
  Listed <- {d1}, FeeRates <- {0}, Pauses <- {}, UnitChoices <- {2}, Investments <- {}, Amounts <- {4},
  Redemptions <- {4}, RequestSizes <- {}, Rates <- {1}, Limits <- {0}, Outages <- {{}, {"SGAGE"}},
  Budgets <- {9}, MaxDeposits <- 2, MaxRequests <- 0, MaxEpochs <- 0, MaxTime <- 1

keeper == <<tick, waiting, failed>>

MCInit ==
  /\ tick = Resting /\ waiting = {} /\ failed = 0
  /\ \/ scenario = "queue" /\ Queue!Init
     \/ scenario = "loans" /\ Loans!Init
     \/ scenario = "pockets" /\ Pockets!Init
     \/ scenario = "fees" /\ Fees!Init
     \/ scenario = "rewards" /\ Rewards!Init

MCNext ==
  /\ \/ scenario = "queue" /\ Queue!Next
     \/ scenario = "loans" /\ Loans!Next
     \/ scenario = "pockets" /\ Pockets!Next
     \/ scenario = "fees" /\ Fees!Next
     \/ scenario = "rewards" /\ Rewards!Next
  /\ UNCHANGED <<scenario, keeper>>

MCSpec == MCInit /\ [][MCNext]_<<keeperEarnVars, scenario>>

\* One holder and one loan that only the keeper looks after.
MCFairSpec ==
  /\ scenario = "keeper" /\ EarnInit
  /\ [][EarnNext /\ UNCHANGED scenario]_<<keeperEarnVars, scenario>>
  /\ EarnFairness
=============================================================================
