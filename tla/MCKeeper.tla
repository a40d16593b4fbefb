----------------------------- MODULE MCKeeper -----------------------------
(* The keeper for TLC: its sender with two callers, the jobs that scan the    *)
(* pool, those of the epochs and the rates, and those of its own deals.  The  *)
(* initial state picks a scenario; what it does not use stands still.         *)
EXTENDS TransactionJournal, TLC

VARIABLES
  scenario, now, crashes, saved, rolledOver,                                 \* shared by scenarios
  blocks, weight, fresh, state, scanning, misread,                           \* KeeperScan
  released, finalized, posted, byHand, owned, market,                        \* KeeperEpochs
  seenEpoch, retryAfter, done, epochRun, ratesRun, moves, manual,
  remaining, rates, paused, deals, wallet, owed, sgage, pot, memory, run,    \* KeeperDeals
  registering, others

journalOnly == <<disk, queue, job, issued, nonceOf, sent, fate, count, foreign>>
scanOnly == <<blocks, weight, fresh, state, scanning, misread>>
epochOnly == <<released, finalized, posted, byHand, owned, market, seenEpoch, retryAfter, done,
               epochRun, ratesRun, moves, manual>>
dealOnly == <<remaining, rates, paused, deals, wallet, owed, sgage, pot, memory, run, registering, others>>
mcVars == <<scenario, now, crashes, saved, rolledOver, faults, journalOnly, scanOnly, epochOnly, dealOnly>>

\* Two positions, checkpointed by the hour and after swaps.
Swaps == INSTANCE KeeperScan WITH
  chain <- blocks, job <- scanning, Positions <- {1, 2}, OtherPools <- {}, Jobs <- {"checkpoint", "swapWatch"},
  EPOCH <- 3, LeadSeconds <- 1, WEEKS <- 2, MaxEvents <- 2, MaxFaults <- 1, MaxCrashes <- 0
\* Another pool's position and a restart.
Pools == INSTANCE KeeperScan WITH
  chain <- blocks, job <- scanning, Positions <- {1, 2}, OtherPools <- {2}, Jobs <- {"checkpoint"},
  EPOCH <- 2, LeadSeconds <- 1, WEEKS <- 2, MaxEvents <- 3, MaxFaults <- 1, MaxCrashes <- 1
\* The passes of the streamer around the end of an epoch.
Boundary == INSTANCE KeeperScan WITH
  chain <- blocks, job <- scanning, Positions <- {1}, OtherPools <- {}, Jobs <- {"checkpoint", "boundary"},
  EPOCH <- 2, LeadSeconds <- 1, WEEKS <- 2, MaxEvents <- 1, MaxFaults <- 0, MaxCrashes <- 0

\* The market moves while rates stand.
Market == INSTANCE KeeperEpochs WITH
  WEEKS <- 3, EPOCH <- 2, REGISTRATION_GRACE <- 1, EpochLookback <- 1, StartEpoch <- 0, Lead <- 1,
  LenderShare <- 0, Shares <- {0}, Prices <- {10, 13}, WeeklyRates <- {9}, TARGET_BPS <- 60,
  MAX_POST_BPS <- 62, REFRESH_BPS <- 65, STOP_BPS <- 70, MAX_SHARE_BPS <- 80, Jobs <- {"rates"},
  MaxDown <- 2, MaxMoves <- 1, MaxManual <- 0, MaxFaults <- 1
\* The owner posts rates too, or hands the contract over.
Owner == INSTANCE KeeperEpochs WITH
  WEEKS <- 4, EPOCH <- 1, REGISTRATION_GRACE <- 1, EpochLookback <- 1, StartEpoch <- 0, Lead <- 1,
  LenderShare <- 0, Shares <- {0, 1}, Prices <- {10}, WeeklyRates <- {9}, TARGET_BPS <- 60,
  MAX_POST_BPS <- 62, REFRESH_BPS <- 65, STOP_BPS <- 70, MAX_SHARE_BPS <- 80, Jobs <- {"rates"},
  MaxDown <- 2, MaxMoves <- 0, MaxManual <- 1, MaxFaults <- 1
\* Four weeks are released, rolled over and finalized.
Weeks == INSTANCE KeeperEpochs WITH
  WEEKS <- 4, EPOCH <- 2, REGISTRATION_GRACE <- 1, EpochLookback <- 2, StartEpoch <- 1, Lead <- 1,
  LenderShare <- 0, Shares <- {0}, Prices <- {10}, WeeklyRates <- {2}, TARGET_BPS <- 60,
  MAX_POST_BPS <- 62, REFRESH_BPS <- 65, STOP_BPS <- 70, MAX_SHARE_BPS <- 80, Jobs <- {"epoch"},
  MaxDown <- 1, MaxMoves <- 0, MaxManual <- 1, MaxFaults <- 1

Left(short, long) == (7 :> short) @@ (21 :> long)
WholeOrSplit == {[rate |-> 2, price |-> 1, share |-> 0], [rate |-> 2, price |-> 1, share |-> 2]}
\* Somebody else funds, registers, governs or claims in between.
Rivals == INSTANCE KeeperDeals WITH
  WEEKS <- 1, EPOCH <- 2, Window <- 1, Grace <- 1, ClaimGrace <- 1, Budgets <- {Left(2, 0)},
  RateChoices <- WholeOrSplit, UNIT <- 3, WAD <- 2, BPS <- 4, MAX_SHARE <- 3, FEE_BPS <- 1, MinSgage <- 1,
  MinDeposit <- 2, RegisterMaxPerRun <- 1, Funds <- 40, Collateral <- 2, Jobs <- {"backstop", "register"},
  Horizon <- 4, MaxDeals <- 2, MaxFaults <- 1, MaxCrashes <- 0, MaxOthers <- 1
\* Both buckets and a restart.
Restart == INSTANCE KeeperDeals WITH
  WEEKS <- 1, EPOCH <- 2, Window <- 1, Grace <- 1, ClaimGrace <- 1, Budgets <- {Left(2, 0), Left(1, 3)},
  RateChoices <- WholeOrSplit, UNIT <- 3, WAD <- 2, BPS <- 4, MAX_SHARE <- 3, FEE_BPS <- 1, MinSgage <- 1,
  MinDeposit <- 2, RegisterMaxPerRun <- 1, Funds <- 40, Collateral <- 2, Jobs <- {"backstop"},
  Horizon <- 3, MaxDeals <- 2, MaxFaults <- 1, MaxCrashes <- 1, MaxOthers <- 0
\* Two epochs, and what the deals earn goes to the streamer.
Stream == INSTANCE KeeperDeals WITH
  WEEKS <- 2, EPOCH <- 2, Window <- 1, Grace <- 1, ClaimGrace <- 1, Budgets <- {Left(2, 0)},
  RateChoices <- WholeOrSplit, UNIT <- 3, WAD <- 2, BPS <- 4, MAX_SHARE <- 3, FEE_BPS <- 1, MinSgage <- 1,
  MinDeposit <- 2, RegisterMaxPerRun <- 1, Funds <- 40, Collateral <- 2, Jobs <- {"backstop", "streamerDeposit"},
  Horizon <- 5, MaxDeals <- 2, MaxFaults <- 1, MaxCrashes <- 0, MaxOthers <- 0

-----------------------------------------------------------------------------
ScanOff == blocks = 0 /\ weight = 0 /\ fresh = 0 /\ state = 0 /\ scanning = 0 /\ misread = 0
EpochsOff ==
  /\ released = 0 /\ finalized = 0 /\ posted = 0 /\ byHand = 0 /\ owned = 0 /\ market = 0 /\ seenEpoch = 0
  /\ retryAfter = 0 /\ done = 0 /\ epochRun = 0 /\ ratesRun = 0 /\ moves = 0 /\ manual = 0
DealsOff ==
  /\ remaining = 0 /\ rates = 0 /\ paused = 0 /\ deals = 0 /\ wallet = 0 /\ owed = 0 /\ sgage = 0
  /\ pot = 0 /\ memory = 0 /\ run = 0 /\ registering = 0 /\ others = 0
JournalOff ==
  /\ disk = NoTx /\ queue = <<>> /\ job = [j \in Callers |-> Idle("none", NoTx)]
  /\ issued = 0 /\ nonceOf = [k \in Txs |-> 0] /\ sent = {} /\ fate = [k \in Txs |-> "unmined"]
  /\ count = 0 /\ foreign = {}

MCInit ==
  \/ /\ scenario = "journal" /\ Init
     /\ now = 0 /\ crashes = 0 /\ saved = 0 /\ rolledOver = 0 /\ ScanOff /\ EpochsOff /\ DealsOff
  \/ /\ \/ scenario = "swaps" /\ Swaps!Init
        \/ scenario = "pools" /\ Pools!Init
        \/ scenario = "boundary" /\ Boundary!Init
     /\ rolledOver = 0 /\ JournalOff /\ EpochsOff /\ DealsOff
  \/ /\ \/ scenario = "market" /\ Market!Init
        \/ scenario = "owner" /\ Owner!Init
        \/ scenario = "weeks" /\ Weeks!Init
     /\ crashes = 0 /\ saved = 0 /\ JournalOff /\ ScanOff /\ DealsOff
  \/ /\ \/ scenario = "rivals" /\ Rivals!Init
        \/ scenario = "restart" /\ Restart!Init
        \/ scenario = "stream" /\ Stream!Init
     /\ JournalOff /\ ScanOff /\ EpochsOff

MCNext ==
  /\ \/ scenario = "journal" /\ Next /\ UNCHANGED <<now, crashes, saved, rolledOver, scanOnly, epochOnly, dealOnly>>
     \/ /\ \/ scenario = "swaps" /\ Swaps!Next
           \/ scenario = "pools" /\ Pools!Next
           \/ scenario = "boundary" /\ Boundary!Next
        /\ UNCHANGED <<rolledOver, journalOnly, epochOnly, dealOnly>>
     \/ /\ \/ scenario = "market" /\ Market!Next
           \/ scenario = "owner" /\ Owner!Next
           \/ scenario = "weeks" /\ Weeks!Next
        /\ UNCHANGED <<crashes, saved, journalOnly, scanOnly, dealOnly>>
     \/ /\ \/ scenario = "rivals" /\ Rivals!Next
           \/ scenario = "restart" /\ Restart!Next
           \/ scenario = "stream" /\ Stream!Next
        /\ UNCHANGED <<journalOnly, scanOnly, epochOnly>>
  /\ UNCHANGED scenario

\* The fairness of each module, in the scenarios that use it.
scanVars == <<scanOnly, now, saved, faults, crashes>>
epochVars == <<epochOnly, now, rolledOver, faults>>
dealVars == <<dealOnly, now, saved, rolledOver, faults, crashes>>

ScanRuns(j) ==
  \/ scenario = "swaps" /\ j # "boundary" /\ Swaps!Run(j)
  \/ scenario = "pools" /\ j = "checkpoint" /\ Pools!Run(j)
  \/ scenario = "boundary" /\ j # "swapWatch" /\ Boundary!Run(j)
ScanBegins(j) ==
  \/ scenario = "swaps" /\ j # "boundary" /\ Swaps!Begin(j)
  \/ scenario = "pools" /\ j = "checkpoint" /\ Pools!Begin(j)
  \/ scenario = "boundary" /\ j # "swapWatch" /\ Boundary!Begin(j)
RatesRuns ==
  \/ scenario = "market" /\ Market!RatesRuns
  \/ scenario = "owner" /\ Owner!RatesRuns
DealsTick ==
  \/ scenario = "rivals" /\ Rivals!Tick
  \/ scenario = "restart" /\ Restart!Tick
  \/ scenario = "stream" /\ Stream!Tick
DealsRun ==
  \/ scenario = "rivals" /\ Rivals!Backstops
  \/ scenario = "restart" /\ Restart!Backstops
  \/ scenario = "stream" /\ Stream!Backstops
DealsRoll ==
  \/ scenario = "rivals" /\ \E e \in Rivals!Epochs : Rivals!Rollover(e)
  \/ scenario = "restart" /\ \E e \in Restart!Epochs : Restart!Rollover(e)
  \/ scenario = "stream" /\ \E e \in Stream!Epochs : Stream!Rollover(e)

MCFairness ==
  /\ WF_vars(scenario = "journal" /\ Mine)
  /\ \A j \in Callers : /\ WF_vars(scenario = "journal" /\ (Recover(j) \/ Execute(j)))
                        /\ WF_vars(scenario = "journal" /\ Request(j, "only"))
  /\ \A j \in {"checkpoint", "swapWatch", "boundary"} : WF_scanVars(ScanRuns(j)) /\ WF_scanVars(ScanBegins(j))
  /\ WF_epochVars(RatesRuns)
  /\ WF_epochVars(scenario = "weeks" /\ Weeks!EpochRuns) /\ WF_epochVars(scenario = "weeks" /\ Weeks!Tick)
  /\ WF_dealVars(DealsTick) /\ WF_dealVars(DealsRun) /\ WF_dealVars(DealsRoll)
  /\ WF_dealVars(scenario = "rivals" /\ Rivals!Registers)
  /\ WF_dealVars(scenario = "stream" /\ Stream!Claim("sent"))
  /\ WF_dealVars(scenario = "stream" /\ Stream!Deposit("sent"))

MCSpec == MCInit /\ [][MCNext]_mcVars /\ MCFairness

-----------------------------------------------------------------------------
(* KeeperScan's PassesAreComplete: a pass that ends well has tried every      *)
(* scored position (checkpoint.ts:2).                                         *)
PassesAreComplete ==
  [][/\ scenario = "swaps" => Swaps!PassIsComplete
     /\ scenario = "pools" => Pools!PassIsComplete
     /\ scenario = "boundary" => Boundary!PassIsComplete]_mcVars

(* What the keeper gives away is bounded: a positive rate of the job is       *)
(* inherited by at most one epoch, and a backstop costs its fee, or sells its *)
(* collateral to a rival lender, and nothing else, and uses up the bucket it  *)
(* was sized for (rates.ts:1, backstop.ts:7).                                 *)
GivenAwayIsBounded ==
  /\ scenario = "market" => Market!RatesRunOut
  /\ scenario = "owner" => Owner!RatesRunOut
  /\ scenario = "rivals" => Rivals!BackstopsAreExact
  /\ scenario = "restart" => Restart!BackstopsAreExact
  /\ scenario = "stream" => Stream!BackstopsAreExact

Settled ==
  /\ scenario = "swaps" => Swaps!CaughtUp
  /\ scenario = "pools" => Pools!CaughtUp
  /\ scenario = "boundary" => Boundary!CaughtUp
  /\ scenario = "market" => Market!Reasonable
  /\ scenario = "owner" => Owner!Reasonable
  /\ scenario = "weeks" => finalized
  /\ scenario = "rivals" => Rivals!Closed
  /\ scenario = "restart" => Restart!Closed
  /\ scenario = "stream" => Stream!Closed

(* Whatever fails on the way, the weights catch up with a pool at rest, an    *)
(* excessive rate ends, every epoch is closed, every backstop on record comes *)
(* to its end, and every journalled call is answered and resolved             *)
(* (checkpoint.ts:12, rates.ts:1, epoch.ts:2, backstop.ts:10, sender.ts:91).  *)
KeeperSettles == <>[]Settled /\ JournalResolves
=============================================================================
