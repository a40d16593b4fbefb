------------------------------ MODULE MCTokens ------------------------------
(***************************************************************************)
(* Small instances of the token contracts over one schedule of two         *)
(* weeks: the reserve, the liquidity rewards and their drips, the deal     *)
(* rewards and the second stream.  The initial state picks a scenario, an  *)
(* instance with smaller sets of inputs and an earlier end of the clock.   *)
(***************************************************************************)
EXTENDS DealRewards

CONSTANTS t1, t2, o1, o2, floor

VARIABLES stream, rate, held,   \* of LPStreamer
          scenario

streamVars == <<stream, rate, held>>
mcVars == <<dealAllVars, streamVars, scenario>>

TwoPositions == {t1, t2}
OwnerPair == {o1, o2}
WeeklyTable == <<8, 4>>
HalfHalf == [deal |-> 2, term21 |-> 2]
OtherShares == {[deal |-> 1, term21 |-> 2]}
DealDrips == {<<<<"deal", d>>, a>> : d \in {1, 2}, a \in {o1, o2}}
AllDrips == {<<<<"lp", t1, n>>, o1>> : n \in 1 .. 2} \cup DealDrips
Strangers == {[lender |-> o1, borrower |-> o2]}
SelfDealt == {[lender |-> o1, borrower |-> o1]}
BothShort == [d \in Deals |-> "TERM7"]
Fees == [d \in Deals |-> 3]
Lengths == [b \in Terms |-> IF b = "TERM7" THEN 1 ELSE 3]
Generous == {[rate7 |-> 3, rate21 |-> 1, price |-> 1, lenderShare |-> 2]}
Table == [e \in Epochs |-> WeeklyTable[e + 1]]

\* Two deals compete for one budget, while shares are set for coming epochs.
DealsRun == INSTANCE DealRewards WITH Minted <- {}, Lumps <- {}, LaunchTimes <- {2}, MaxTime <- 5

\* One position over the whole schedule, launched in the past.
Whole == INSTANCE LPRewards WITH Minted <- {t1}, Owners <- {o1}, Lumps <- {}, SharesChoices <- {}, LaunchTimes <- {1}, MaxTime <- 6

\* Two positions, price moves the hook does not see, and a lump.
Pair == INSTANCE LPRewards WITH Owners <- {o1}, SharesChoices <- {}, LaunchTimes <- {2}, MaxTime <- 3, MaxNonce <- 0

\* Deposits for the second week beside a position that comes, goes and collects.
Stream == INSTANCE LPStreamer WITH
  Minted <- {t1}, Owners <- {o1}, Lumps <- {}, SharesChoices <- {}, LaunchTimes <- {2},
  MaxTime <- 6, Deposits <- {3}, MaxDeposits <- 2

\* Two positions share the pot of that week.
Streams == INSTANCE LPStreamer WITH
  Owners <- {o1}, Lumps <- {}, SharesChoices <- {}, LaunchTimes <- {2}, Values <- {1}, MaxNonce <- 0,
  MaxTime <- 5, Deposits <- {3}, MaxDeposits <- 1

StreamOff == stream = 0 /\ rate = 0 /\ held = 0

MCInit ==
  /\ DealRewardsInit
  /\ \/ scenario = "deals" /\ DealsRun!LPInit /\ StreamOff
     \/ scenario = "whole" /\ Whole!LPInit /\ StreamOff
     \/ scenario = "pair" /\ Pair!LPInit /\ StreamOff
     \/ scenario = "stream" /\ Stream!StreamInit
     \/ scenario = "streams" /\ Streams!StreamInit

MCNext ==
  /\ \/ scenario = "deals" /\ DealsRun!DealRewardsNext /\ UNCHANGED streamVars
     \/ scenario = "whole" /\ Whole!LPNext /\ UNCHANGED <<dealVars, streamVars>>
     \/ scenario = "pair" /\ Pair!LPNext /\ UNCHANGED <<dealVars, streamVars>>
     \/ scenario = "stream" /\ Stream!StreamerNext /\ UNCHANGED dealVars
     \/ scenario = "streams" /\ Streams!StreamerNext /\ UNCHANGED dealVars
  /\ UNCHANGED scenario

MCSpec == MCInit /\ [][MCNext]_mcVars

\* Only time earns, in both streams: no checkpoint, transfer, deposit or change
\* of liquidity adds to what a position can collect; and the second stream never
\* pays more than was deposited (LPStreamer.sol:28).
StreamsPayWhatTimeEarned ==
  /\ OnlyTimeEarns
  /\ [][(scenario \in {"stream", "streams"}) => Stream!OnlyTimeStreams]_mcVars
  /\ [](scenario \in {"stream", "streams"} => Stream!StreamIsCovered)
=============================================================================
