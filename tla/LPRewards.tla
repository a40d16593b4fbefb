------------------------------ MODULE LPRewards ------------------------------
(***************************************************************************)
(* Liquidity rewards (LPRewards.sol) with the reserve that feeds them and  *)
(* the drips they are paid into.  A position's weight is its value at the  *)
(* last checkpoint; the liquidity hook (LPHook.sol) checkpoints on every   *)
(* change of liquidity it can, price moves go unseen until somebody        *)
(* checkpoints.  Emissions stream by weight and time, lumps are split by   *)
(* the weights present.                                                    *)
(***************************************************************************)
EXTENDS Emissions, TLC

CONSTANTS
  Tokens,          \* position ids
  Minted,          \* bound: the positions that exist
  Owners, FLOOR,   \* NFT owners; the fee splitter, whose positions carry no weight
  Values,          \* what a position can be worth, 0 out of range
  Lumps,           \* lump amounts people pass on
  PRECISION, LP_DRIP_LENGTH,
  PeopleStart,     \* sGAGE the people start with
  MaxLumps,        \* bound: lumps passed on
  MaxNonce         \* bound: drips of one position

VARIABLES
  pool,   \* ePer, lPer (the two accumulators), totalWeight, undistributed, lastUpdate, seed, nextEpoch
  pos,    \* _positions
  owner, value,   \* POSM.ownerOf, valueInGAGE where in range
  lumps   \* how many lumps people passed on

lpVars == <<pool, pos, owner, value, lumps>>
lpAllVars == <<now, sgage, emissionVars, dripVars, lpVars>>

ASSUME LPAssumption ==
  /\ FLOOR \notin Owners /\ Minted \subseteq Tokens /\ IsFiniteSet(Tokens) /\ MaxNonce \in Nat
  /\ Values \subseteq Nat /\ Lumps \subseteq Nat \ {0}
  /\ PRECISION \in Nat \ {0} /\ LP_DRIP_LENGTH \in Nat \ {0} /\ PeopleStart \in Nat

NoSeed == "none"

NoPosition == [weight |-> 0, ePaid |-> 0, lPaid |-> 0, emissions |-> 0, lump |-> 0, nonce |-> 0]

LPInitAt(at) ==
  /\ EmissionsInit(at) /\ DripInit
  /\ sgage = [h \in Holders |-> CASE h = "emissions" -> PrefixSum(WEEKS) [] h = People -> PeopleStart [] OTHER -> 0]
  /\ pool = [ePer |-> 0, lPer |-> 0, totalWeight |-> 0, undistributed |-> 0, lastUpdate |-> now,
             seed |-> NoSeed, nextEpoch |-> 0]
  /\ pos = [t \in Tokens |-> NoPosition]
  /\ owner \in {f \in [Tokens -> Owners \cup {FLOOR}] : \A t \in Tokens : f[t] = FLOOR <=> t \notin Minted}
  /\ value = [t \in Tokens |-> 0]
  /\ lumps = 0

LPInit == LPInitAt(0)

(***************************************************************************)
(* The accumulators.                                                       *)
(***************************************************************************)
EmissionRate(e) == IF e \in Epochs THEN LiquidityBudget(e) \div EPOCH ELSE 0

\* Seconds of epoch e between from and end.
Overlap(e, from, end) == Max({0, Min({end, EpochStart(e + 1)}) - Max({from, EpochStart(e)})})

\* _globalNow: the emission rate integrated over the epochs since the last update.
GlobalNow ==
  LET from == Max({pool.lastUpdate, launchAt})
      end == Min({now, EpochStart(WEEKS)})
      amount(e) == EmissionRate(e) * Overlap(e, from, end)
  IN  IF ~Launched \/ now <= launchAt \/ now = pool.lastUpdate THEN pool
      ELSE IF pool.totalWeight > 0
      THEN [pool EXCEPT !.ePer = @ + SumFunction([e \in Epochs |-> (amount(e) * PRECISION) \div pool.totalWeight])]
      ELSE [pool EXCEPT !.undistributed = @ + SumFunction([e \in Epochs |-> amount(e)])]

\* Mutant: the time of the update is not stored.
UpdateGlobalUndated == GlobalNow

UpdateGlobal == [GlobalNow EXCEPT !.lastUpdate = now]

\* A position brought up to the accumulators of g.
Accrued(p, g) ==
  [p EXCEPT !.emissions = @ + (p.weight * (g.ePer - p.ePaid)) \div PRECISION,
            !.lump = @ + (p.weight * (g.lPer - p.lPaid)) \div PRECISION,
            !.ePaid = g.ePer, !.lPaid = g.lPer]

Earned(t) == Accrued(pos[t], GlobalNow)

\* _excluded: the seed and what the floor owns weigh nothing.
NewWeight(t, g) == IF t = g.seed \/ owner[t] = FLOOR THEN 0 ELSE value'[t]

\* Mutant: the new weight is stored before the accrual.
CheckpointLate(S, g) ==
  /\ pos' = [t \in Tokens |-> IF t \in S THEN Accrued([pos[t] EXCEPT !.weight = NewWeight(t, g)], g) ELSE pos[t]]
  /\ pool' = [g EXCEPT !.totalWeight = @ + SumFunction([t \in S |-> NewWeight(t, g) - pos[t].weight])]

\* _checkpoint of the positions in S, after _updateGlobal gave g.
Checkpoint(S, g) ==
  /\ pos' = [t \in Tokens |-> IF t \in S THEN [Accrued(pos[t], g) EXCEPT !.weight = NewWeight(t, g)] ELSE pos[t]]
  /\ pool' = [g EXCEPT !.totalWeight = @ + SumFunction([t \in S |-> NewWeight(t, g) - pos[t].weight])]

(***************************************************************************)
(* Positions.                                                              *)
(***************************************************************************)
CheckpointMany(S) ==
  /\ UNCHANGED value
  /\ Checkpoint(S, UpdateGlobal)
  /\ UNCHANGED <<now, sgage, emissionVars, dripVars, owner, lumps>>

\* A change of liquidity; the hook's callback checkpoints, or fails and is caught.
ChangeLiquidity(t, v, recorded) ==
  /\ value' = [value EXCEPT ![t] = v]
  /\ IF recorded THEN Checkpoint({t}, UpdateGlobal) ELSE UNCHANGED <<pool, pos>>
  /\ UNCHANGED <<now, sgage, emissionVars, dripVars, owner, lumps>>

TransferNFT(t, to) ==
  /\ owner' = [owner EXCEPT ![t] = to]
  /\ UNCHANGED <<now, sgage, emissionVars, dripVars, pool, pos, value, lumps>>

SetSeed(t) ==
  /\ pool.seed = NoSeed
  /\ UNCHANGED value
  /\ Checkpoint({t}, [UpdateGlobal EXCEPT !.seed = t])
  /\ UNCHANGED <<now, sgage, emissionVars, dripVars, owner, lumps>>

(***************************************************************************)
(* Inflows.                                                                *)
(***************************************************************************)
\* notifyEmissions for every epoch of a transaction.
Notified(g, epochs) == [g EXCEPT !.nextEpoch = Max({@} \cup {e + 1 : e \in epochs})]

\* sGAGE on its way from the reserve to this contract.
Delivered(balances, epochs) == Paid(balances, "emissions", "lpRewards", LiquidityOf(epochs))

Release(e) ==
  /\ ReleaseOut({e}, 0)
  /\ Settled(Delivered(sgage, {e}))
  /\ pool' = Notified(pool, {e})
  /\ UNCHANGED <<now, reserved, dripVars, pos, owner, value, lumps>>

\* notifyLump after _updateGlobal.
Lump(g, amount) ==
  IF g.totalWeight = 0 THEN [g EXCEPT !.undistributed = @ + amount]
  ELSE [g EXCEPT !.lPer = @ + (amount * PRECISION) \div g.totalWeight]

NotifyLump(amount) ==
  /\ lumps < MaxLumps
  /\ lumps' = lumps + 1
  /\ pool' = Lump(UpdateGlobal, amount)
  /\ Settled(Paid(sgage, People, "lpRewards", amount))
  /\ UNCHANGED <<now, emissionVars, dripVars, pos, owner, value>>

Rollover(e) ==
  LET amount == Remaining(e, "TERM7") + Remaining(e, "TERM21")
  IN  /\ RolloverOut(e)
      /\ pool' = IF amount > 0 THEN Lump(UpdateGlobal, amount) ELSE pool
      /\ Settled(Paid(sgage, "emissions", "lpRewards", amount))
      /\ UNCHANGED <<now, dripVars, pos, owner, value, lumps>>

(***************************************************************************)
(* Outflows.                                                               *)
(***************************************************************************)
LastStarted == IF ~Launched \/ now < launchAt THEN -1 ELSE Min({CurrentEpoch, WEEKS - 1})

\* The epochs _ensureReleased releases, and the mark it leaves.
Unreleased(g) == (g.nextEpoch .. LastStarted) \ released
Ensured(g) == [g EXCEPT !.nextEpoch = Max({@, LastStarted + 1})]

EnsureReleased(g) ==
  IF Unreleased(g) = {} THEN UNCHANGED emissionVars
  ELSE ReleaseOut(Unreleased(g), 0) /\ UNCHANGED reserved

Collect(t) ==
  LET g == UpdateGlobal
      p == Accrued(pos[t], g)
      id == <<<<"lp", t, p.nonce + 1>>, owner[t]>>
      weight == IF t = g.seed \/ owner[t] = FLOOR THEN 0 ELSE value[t]
  IN  /\ p.emissions + p.lump > 0
      /\ pool' = Ensured([g EXCEPT !.totalWeight = @ + weight - p.weight])
      /\ pos' = [pos EXCEPT ![t] = [p EXCEPT !.weight = weight, !.emissions = 0, !.lump = 0,
                                             !.nonce = IF p.emissions > 0 THEN @ + 1 ELSE @]]
      /\ EnsureReleased(g)
      /\ p.emissions > 0 => p.nonce < MaxNonce
      /\ IF p.emissions > 0 THEN GrantAll([x \in {id} |-> p.emissions], now, LP_DRIP_LENGTH) ELSE UNCHANGED dripVars
      /\ Settled(Paid(Paid(Delivered(sgage, Unreleased(g)), "lpRewards", "drip", p.emissions),
                      "lpRewards", People, p.lump))
      /\ UNCHANGED <<now, owner, value, lumps>>

BurnUndistributed ==
  LET g == UpdateGlobal
  IN  /\ g.undistributed > 0
      /\ pool' = Ensured([g EXCEPT !.undistributed = 0])
      /\ EnsureReleased(g)
      /\ Settled(Burned(Delivered(sgage, Unreleased(g)), "lpRewards", g.undistributed))
      /\ UNCHANGED <<now, dripVars, pos, owner, value, lumps>>

(***************************************************************************)
(* The system.                                                             *)
(***************************************************************************)
Tick ==
  /\ now < MaxTime
  /\ now' = now + 1
  /\ UNCHANGED <<sgage, emissionVars, dripVars, lpVars>>

OwnerNext ==
  /\ \/ \E at \in LaunchTimes : Launch(at)
     \/ \E e \in Epochs, choice \in SharesChoices : SetShares(e, choice)
  /\ UNCHANGED <<now, sgage, dripVars, lpVars>>

EmissionsNext ==
  \/ OwnerNext
  \/ \E e \in Epochs : Release(e) \/ Rollover(e)
  \/ Finalize /\ UNCHANGED <<now, dripVars, lpVars>>

PositionsNext ==
  \/ \E S \in SUBSET Minted \ {{}} : CheckpointMany(S)
  \/ \E t \in Minted :
       \/ \E v \in Values, recorded \in BOOLEAN : ChangeLiquidity(t, v, recorded)
       \/ \E to \in Owners \cup {FLOOR} : TransferNFT(t, to)
       \/ SetSeed(t)
       \/ owner[t] \in Owners /\ Collect(t)

ClaimNext ==
  /\ \E account \in Owners, ids \in SUBSET {id \in DripIds : drips[id].total > 0} \ {{}} : Claim(account, ids)
  /\ UNCHANGED <<now, emissionVars, lpVars>>

LPNext ==
  \/ EmissionsNext
  \/ PositionsNext
  \/ ClaimNext
  \/ \E amount \in Lumps : NotifyLump(amount)
  \/ BurnUndistributed
  \/ Tick

LPSpec == LPInit /\ [][LPNext]_lpAllVars

(***************************************************************************)
(* Properties.                                                             *)
(***************************************************************************)
Rewards(t) == LET p == Earned(t) IN <<p.emissions, p.lump>>
StartedUnreleased == {e \in Epochs \ released : Started(e)}

\* What left the reserve is the liquidity share of the released epochs and what
\* was reserved or rolled over of their deal budgets, and the rest is still
\* there until it is burned: no change of shares moves a budget under way.
OutIsAccounted ==
  /\ totalOut = SumFunction([e \in released |-> LiquidityBudget(e) + reserved[e]["TERM7"] + reserved[e]["TERM21"]])
  /\ sgage["emissions"] = PrefixSum(WEEKS) - totalOut
  /\ \A e \in Epochs \ released, b \in Terms : reserved[e][b] = 0

\* The ceiling of T2 is an assertion in the code and never bites: an epoch that
\* has started can be released and one whose grace is over rolled over, however
\* late and in whatever order the others were.
BudgetsStayPayable ==
  LET payable(amount) == UnderCeiling(amount) /\ amount <= sgage["emissions"]
  IN  /\ \A e \in StartedUnreleased : payable(LiquidityBudget(e))
      /\ \A e \in released \ rolledOver :
           now >= EpochStart(e + 1) + REGISTRATION_GRACE =>
             payable(Remaining(e, "TERM7") + Remaining(e, "TERM21"))

\* The reserve's table is kept by every week's release and rollover, and none of
\* them is ever refused by the ceiling (Emissions.sol:263, an assert).
ReserveKeepsItsTable == OutIsAccounted /\ BudgetsStayPayable

\* What the positions have earned up to now, with what nobody earned, is
\* covered by what is held and what the started epochs still have to deliver.
RewardsAreCovered ==
  LET g == GlobalNow
      owed(t) == LET p == Accrued(pos[t], g) IN p.emissions + p.lump
  IN  g.undistributed + SumFunction([t \in Tokens |-> owed(t)])
        <= sgage["lpRewards"] + LiquidityOf(StartedUnreleased)

\* Only time and lumps earn: whoever checkpoints, moves, sells or releases
\* whatever, the rewards of a position stay as they are until they are collected,
\* and then they are paid in full.
OnlyTimeEarns ==
  [][\/ now' > now \/ launchAt' # launchAt
     \/ UNCHANGED <<shares, pool, pos>>   \* what Rewards is computed from
     \/ \A t \in Tokens :
          LET before == Rewards(t)
              after == Rewards(t)'
          IN  \/ after = before
              \/ pool'.lPer > pool.lPer /\ after[1] = before[1]
              \/ /\ after = <<0, 0>>
                 /\ sgage'["drip"] - sgage["drip"] = before[1]
                 /\ sgage'[People] - sgage[People] = before[2]]_lpAllVars

\* Drips hold what they owe, and nothing unlocks early: half way a quarter at most.
DripsAreBacked ==
  /\ sgage["drip"] = totalLocked
  /\ totalLocked = SumFunction([id \in DripIds |-> drips[id].total - drips[id].claimed])
  /\ \A id \in DripIds :
       /\ drips[id].claimed <= Unlocked(drips[id])
       /\ 2 * (now - drips[id].start) <= drips[id].length => 4 * Unlocked(drips[id]) <= drips[id].total

\* Whatever positions and drips are owed is held, each where it will be paid from.
OwedIsHeld == RewardsAreCovered /\ DripsAreBacked
=============================================================================
