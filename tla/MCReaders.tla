------------------------------ MODULE MCReaders ------------------------------
(* What is read off the chain, for TLC: the indexer's tables and the notifier, *)
(* which reads them.  The initial state picks a scenario: the reminders of a   *)
(* deal through failures, the same while the reader edits, the notices of Earn *)
(* and the rewards; or the events of the escrow, of the schedule, of the pool; *)
(* or an Earn strategy and its API: the loan with its pockets, or the queue.   *)
EXTENDS Notifier, TLC

VARIABLES scenario, chain, blocks, db, week, height, block, txs, truth, api

tables == <<blocks, week, height>>
earn == <<block, txs, truth, api>>
mcVars == <<vars, chain, db, tables, earn, scenario>>

OneReminder == [t1 |-> 1]
OneRoll == <<"epoch2">>

Deal == INSTANCE Notifier WITH Shown <- {}, MaxRolls <- 0, MaxEdits <- 0
Reader == INSTANCE Notifier WITH Shown <- {}, MaxRolls <- 0, MaxFaults <- 1, Editors <- {"borrower"}
News == INSTANCE Notifier WITH MaxTime <- 1, MaxFaults <- 1, Editors <- {"curator", "holder"}

People == {"a", "b", "sink"}
Kinds == <<"ERC20", "NFT">>
Swapped == <<[lender |-> "a", borrower |-> "b"], [lender |-> "b", borrower |-> "a"]>>
Weekly == 0 :> 8 @@ 1 :> 8
TwoShares == {[deal |-> 2, term21 |-> 2], [deal |-> 4, term21 |-> 1]}
Ranges == <<{0}, {0, 1}, {0, 1}>>

\* Two deals, for an ERC-20 and for an NFT, and their bids.
Escrow == INSTANCE IndexerTables WITH
  Accounts <- People, FeeSink <- "sink", Deals <- {1, 2}, KindOf <- Kinds, Bids <- {1, 2},
  PriceOf <- <<4, 8>>, CAP <- 9, FEE_PARTS <- 4, Parties <- <<>>,
  WEEKS <- 2, WEEKLY <- Weekly, BPS <- 4, ShareChoices <- TwoShares, Rewards <- <<2, 2>>,
  Positions <- {}, Direct <- {}, RangeOf <- <<>>, Ticks <- {0}, Parts <- {"escrow"},
  MaxBlocks <- 4, MaxLag <- 1
\* Two funded deals with the same parties and the same reward; the indexer lags.
Schedule == INSTANCE IndexerTables WITH
  Accounts <- People, FeeSink <- "sink", Deals <- {1, 2}, KindOf <- Kinds, Bids <- {},
  PriceOf <- <<>>, CAP <- 9, FEE_PARTS <- 4, Parties <- Swapped,
  WEEKS <- 2, WEEKLY <- Weekly, BPS <- 4, ShareChoices <- TwoShares, Rewards <- <<2, 2>>,
  Positions <- {}, Direct <- {}, RangeOf <- <<>>, Ticks <- {0}, Parts <- {"schedule"},
  MaxBlocks <- 6, MaxLag <- 2
\* Two positions of the PositionManager and one that is not; the indexer lags.
Pool == INSTANCE IndexerTables WITH
  Accounts <- People, FeeSink <- "sink", Deals <- {}, KindOf <- <<>>, Bids <- {},
  PriceOf <- <<>>, CAP <- 9, FEE_PARTS <- 4, Parties <- <<>>,
  WEEKS <- 2, WEEKLY <- Weekly, BPS <- 4, ShareChoices <- TwoShares, Rewards <- <<>>,
  Positions <- {1, 2, 3}, Direct <- {3}, RangeOf <- Ranges, Ticks <- {0, 1}, Parts <- {"pool"},
  MaxBlocks <- 4, MaxLag <- 2

Amounts == <<2, 4>>
Late == <<2>>
BothHold == <<2, 1>>
OneHolds == <<2, 0>>
Loan == INSTANCE EarnIndex WITH
  Accounts <- {1, 2}, Askers <- {1}, Holdings <- BothHold, Parts <- {"shares", "loan"},
  EXPIRY <- 2, GRACE <- 1, RECOVERED <- Amounts, LATE <- Late, EARN_ACCOUNT_REFRESH_BATCH <- 1,
  MaxTxs <- 3, MaxBlocks <- 5, FirstAsk <- 5
Queue == INSTANCE EarnIndex WITH
  Accounts <- {1, 2}, Askers <- {1}, Holdings <- OneHolds, Parts <- {"queue", "rewards", "price"},
  EXPIRY <- 9, GRACE <- 1, RECOVERED <- Amounts, LATE <- Late, EARN_ACCOUNT_REFRESH_BATCH <- 1,
  MaxTxs <- 4, MaxBlocks <- 3, FirstAsk <- 2

Notices == {"deal", "reader", "news"}

NoTables == blocks = 0 /\ week = 0 /\ height = 0
NoEarn == block = 0 /\ txs = 0 /\ truth = 0 /\ api = 0
MCInit ==
  /\ Init
  /\ \/ scenario \in Notices /\ chain = 0 /\ db = 0 /\ NoTables /\ NoEarn
     \/ scenario = "escrow" /\ Escrow!Init /\ NoEarn
     \/ scenario = "schedule" /\ Schedule!Init /\ NoEarn
     \/ scenario = "pool" /\ Pool!Init /\ NoEarn
     \/ scenario = "loan" /\ Loan!Init /\ NoTables
     \/ scenario = "queue" /\ Queue!Init /\ NoTables

MCNext ==
  /\ \/ /\ \/ scenario = "deal" /\ Deal!Next
           \/ scenario = "reader" /\ Reader!Next
           \/ scenario = "news" /\ News!Next
        /\ UNCHANGED <<chain, db, tables, earn>>
     \/ /\ \/ scenario = "escrow" /\ Escrow!Next
           \/ scenario = "schedule" /\ Schedule!Next
           \/ scenario = "pool" /\ Pool!Next
        /\ UNCHANGED <<vars, earn>>
     \/ /\ \/ scenario = "loan" /\ Loan!Next
           \/ scenario = "queue" /\ Queue!Next
        /\ UNCHANGED <<vars, tables>>
  /\ UNCHANGED scenario

MCFairness ==
  /\ WF_vars(scenario \in Notices /\ PollStart)
  /\ WF_vars(scenario \in Notices /\ PollStep)
  /\ WF_vars(scenario \in Notices /\ Arrive)

MCSpec == MCInit /\ [][MCNext]_mcVars /\ MCFairness

-----------------------------------------------------------------------------
(* IndexerTables' IndexFollowsChain: whenever every block is indexed, the      *)
(* tables say what the contracts hold (index.ts:2, token.ts:123); and what is  *)
(* published and answered of an Earn strategy is the strategy at one block     *)
(* (EarnIndex: earn-account-state.ts:18-20, earn-api.ts:154-157).              *)
IndexFollowsChain ==
  /\ scenario = "escrow" => Escrow!IndexFollowsChain
  /\ scenario = "schedule" => Schedule!IndexFollowsChain
  /\ scenario = "pool" => Pool!IndexFollowsChain
  /\ scenario = "loan" => Loan!EarnFollowsChain
  /\ scenario = "queue" => Queue!EarnFollowsChain
=============================================================================
