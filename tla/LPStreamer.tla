------------------------------ MODULE LPStreamer ------------------------------
(***************************************************************************)
(* The second stream (LPStreamer.sol): what is deposited in one epoch is   *)
(* the pot of the next, and a position is paid the pot in proportion to    *)
(* what it accrues in LPRewards.  It reads LPRewards and is never called   *)
(* by it: collecting there first forfeits what was not checkpointed here.  *)
(* It is deployed once emissions have been launched, with its own drip.    *)
(***************************************************************************)
EXTENDS LPRewards

CONSTANTS
  Deposits,   \* amounts people deposit
  MaxDeposits \* bound: deposits made

VARIABLES
  stream,     \* pending, assignedThrough, and the count of deposits
  rate,       \* the pot rate of every epoch so far
  held        \* _positions: seen, earned, accrualSeen, nonceSeen, epochSeen

streamVars == <<stream, rate, held>>
streamAllVars == <<lpAllVars, streamVars>>

NotSeen == [seen |-> FALSE, earned |-> 0, accrualSeen |-> 0, nonceSeen |-> 0, epochSeen |-> 0]

StreamerInit ==
  /\ stream = [pending |-> 0, assignedThrough |-> CurrentEpoch, deposits |-> 0]
  /\ rate = [e \in 0 .. WEEKS |-> 0]
  /\ held = [t \in Tokens |-> NotSeen]

\* The constructor needs a launched schedule; positions may be there already.
StreamInit ==
  /\ \E at \in LaunchTimes : at <= StartTime /\ LPInitAt(at)
  /\ StreamerInit

(***************************************************************************)
(* Pots.                                                                   *)
(***************************************************************************)
RateFor(e, amount) ==
  LET budget == EmissionRate(e) * EPOCH
  IN  IF budget = 0 THEN 0 ELSE (amount * PRECISION) \div budget

\* _rateOf, which foresees the pot of the next epoch.
RateOf(e) ==
  IF e <= stream.assignedThrough THEN rate[e]
  ELSE IF e = stream.assignedThrough + 1 THEN RateFor(e, stream.pending)
  ELSE 0

\* Mutant: a deposit does not roll, and joins the pot of an epoch under way.
RolledNot == stream

\* _roll: the first epoch that started since the last roll gets what is pending,
\* those after it nothing.
Rolled ==
  IF stream.assignedThrough < CurrentEpoch
  THEN [stream EXCEPT !.assignedThrough = CurrentEpoch, !.pending = 0]
  ELSE stream
RolledRate == [e \in 0 .. WEEKS |-> IF e \in stream.assignedThrough + 1 .. CurrentEpoch THEN RateOf(e) ELSE rate[e]]

(***************************************************************************)
(* Credits.                                                                *)
(***************************************************************************)
Accrual(t) == Earned(t).emissions

\* Mutant: an interval is paid at the rate of the epoch it ends in.
LeastRateLast(from) == RateOf(CurrentEpoch)

LeastRate(from) == Min({RateOf(e) : e \in from .. CurrentEpoch})

\* _pendingCredit: what LPRewards accrued since the last checkpoint here, from
\* zero again if it was collected there meanwhile.
PendingCredit(t) ==
  LET h == held[t]
      before == IF pos[t].nonce = h.nonceSeen THEN h.accrualSeen ELSE 0
  IN  IF ~h.seen THEN 0
      ELSE (Max({0, Accrual(t) - before}) * LeastRate(h.epochSeen)) \div PRECISION

StreamEarned(t) == held[t].earned + PendingCredit(t)

Seen(t) ==
  [seen |-> TRUE, earned |-> StreamEarned(t), accrualSeen |-> Accrual(t), nonceSeen |-> pos[t].nonce,
   epochSeen |-> CurrentEpoch]

(***************************************************************************)
(* Actions.                                                                *)
(***************************************************************************)
Deposit(amount) ==
  /\ stream.deposits < MaxDeposits
  /\ Rolled.assignedThrough + 1 < WEEKS
  /\ stream' = [Rolled EXCEPT !.pending = @ + amount, !.deposits = @ + 1]
  /\ rate' = RolledRate
  /\ Settled(Paid(sgage, People, "streamer", amount))
  /\ UNCHANGED <<now, emissionVars, dripVars, lpVars, held>>

StreamCheckpoint(S) ==
  /\ stream' = Rolled /\ rate' = RolledRate
  /\ held' = [t \in Tokens |-> IF t \in S THEN Seen(t) ELSE held[t]]
  /\ UNCHANGED lpAllVars

\* Its own drip is one more Drip and is modelled by what it holds.
StreamCollect(t) ==
  LET amount == StreamEarned(t)
  IN  /\ amount > 0
      /\ stream' = Rolled /\ rate' = RolledRate
      /\ held' = [held EXCEPT ![t] = [Seen(t) EXCEPT !.earned = 0]]
      /\ Settled(Paid(sgage, "streamer", "streamDrip", amount))
      /\ UNCHANGED <<now, emissionVars, dripVars, lpVars>>

StreamNext ==
  \/ \E amount \in Deposits : Deposit(amount)
  \/ \E S \in SUBSET Minted \ {{}} : StreamCheckpoint(S)
  \/ \E t \in Minted : owner[t] \in Owners /\ StreamCollect(t)

\* Of LPRewards, what changes or reads an accrual.
StreamerNext ==
  \/ StreamNext
  \/ /\ \/ \E S \in SUBSET Minted \ {{}} : CheckpointMany(S)
        \/ \E t \in Minted :
             \/ \E v \in Values : ChangeLiquidity(t, v, TRUE)
             \/ owner[t] \in Owners /\ Collect(t)
        \/ Tick
     /\ UNCHANGED streamVars

StreamSpec == StreamInit /\ [][StreamerNext]_streamAllVars

(***************************************************************************)
(* Properties.                                                             *)
(***************************************************************************)
\* "What is paid never exceeds what was deposited": all that positions could
\* collect now, and what is still to become a pot, is held here, whichever epoch
\* boundaries the intervals span and whoever checkpoints or collects where.
StreamIsCovered ==
  Rolled.pending + SumFunction([t \in Tokens |-> StreamEarned(t)]) <= sgage["streamer"]

\* Only time earns here too: no deposit, checkpoint, transfer or change of
\* liquidity adds to what a position can collect, so one held for no time earns
\* nothing; what it has is lost only by collecting, here or in LPRewards.
OnlyTimeStreams ==
  now' > now \/
  \A t \in Tokens :
     LET before == StreamEarned(t)
         after == StreamEarned(t)'
     IN  \/ after = before
         \/ /\ after < before
            /\ \/ pos'[t].nonce > pos[t].nonce
               \/ sgage'["streamDrip"] = sgage["streamDrip"] + before
=============================================================================
