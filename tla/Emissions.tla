------------------------------ MODULE Emissions ------------------------------
(***************************************************************************)
(* What the token contracts share: the clock, the sGAGE each of them holds *)
(* and the drips (Drip.sol); and the sGAGE reserve (Emissions.sol): a      *)
(* table of weekly amounts, each split between liquidity and two deal      *)
(* budgets.  An epoch's liquidity share leaves when the epoch is released, *)
(* its deal budgets when deals reserve them or, after a registration       *)
(* grace, when the rest is rolled over to liquidity.  The calls into       *)
(* LPRewards are added by that module.  People stands for every account    *)
(* and contract outside the model.                                         *)
(***************************************************************************)
EXTENDS Integers, FiniteSets, FiniteSetsExt, Functions

CONSTANTS MaxTime   \* bound: the clock stops here

VARIABLES now, sgage

Contracts == {"emissions", "lpRewards", "drip", "streamer", "streamDrip"}
People == "people"
Holders == Contracts \cup {People}

\* One transfer after another; Settled says that none of them reverted.
Paid(balances, from, to, amount) == [balances EXCEPT ![from] = @ - amount, ![to] = @ + amount]
Burned(balances, from, amount) == [balances EXCEPT ![from] = @ - amount]
Settled(balances) == /\ \A h \in Holders : balances[h] >= 0
                     /\ sgage' = balances

(***************************************************************************)
(* Locked sGAGE that unlocks quadratically (Drip.sol).  A grantor opens a  *)
(* drip once per id; its account claims what has unlocked.                 *)
(***************************************************************************)
CONSTANTS DripIds   \* <<key, account>>: an account's drip under a key

VARIABLES drips, totalLocked

dripVars == <<drips, totalLocked>>

NoDrip == [total |-> 0, start |-> 0, length |-> 0, claimed |-> 0]

DripInit == drips = [id \in DripIds |-> NoDrip] /\ totalLocked = 0

\* The guard of one grant, and the drips after it.
Grantable(ids) == ids \subseteq DripIds /\ \A id \in ids : drips[id].total = 0

\* A transaction opens the drips of grant's domain.
GrantAll(grant, start, length) ==
  /\ Grantable(DOMAIN grant)
  /\ length > 0
  /\ drips' = [id \in DripIds |->
       IF id \in DOMAIN grant
       THEN [total |-> grant[id], start |-> start, length |-> length, claimed |-> 0]
       ELSE drips[id]]
  /\ totalLocked' = totalLocked + SumFunction(grant)

Unlocked(d) ==
  LET e == now - d.start
  IN  IF d.total = 0 \/ e <= 0 THEN 0
      ELSE IF e >= d.length THEN d.total
      ELSE (d.total * e * e) \div (d.length * d.length)

Claimable(id) == Unlocked(drips[id]) - drips[id].claimed

\* claim and claimMany: drips of one account, in one transaction.
Claim(account, ids) ==
  LET amount == SumFunction([id \in ids |-> Claimable(id)])
  IN  /\ \A id \in ids : id[2] = account /\ drips[id].total # 0
      /\ amount > 0
      /\ drips' = [id \in DripIds |->
           IF id \in ids THEN [drips[id] EXCEPT !.claimed = @ + Claimable(id)] ELSE drips[id]]
      /\ totalLocked' = totalLocked - amount
      /\ Settled(Paid(sgage, "drip", People, amount))

(***************************************************************************)
(* The reserve.                                                            *)
(***************************************************************************)
CONSTANTS
  WEEKS, EPOCH, REGISTRATION_GRACE, BPS,
  Weekly,          \* the table: Weekly[e] for every epoch e
  DefaultShares, SharesChoices,   \* [deal, term21] in BPS; the choices respect the bounds
  StartTime,       \* the clock at the start
  LaunchTimes      \* when the owner may say that epoch 0 starts

VARIABLES
  launchAt,        \* 0 before launch
  shares,          \* _shares, unset epochs holding the default
  released, rolledOver, \* sets of epochs
  reserved,        \* _reserved
  totalOut

emissionVars == <<launchAt, shares, released, rolledOver, reserved, totalOut>>

Epochs == 0 .. WEEKS - 1
Terms == {"TERM7", "TERM21"}

ASSUME EmissionsAssumption ==
  /\ IsFiniteSet(DripIds) /\ MaxTime \in Nat
  /\ WEEKS \in Nat \ {0} /\ EPOCH \in Nat \ {0} /\ BPS \in Nat \ {0}
  /\ REGISTRATION_GRACE \in 0 .. EPOCH - 1
  /\ Weekly \in [Epochs -> Nat]
  /\ SharesChoices \cup {DefaultShares} \subseteq [deal : 0 .. BPS, term21 : 0 .. BPS]
  /\ StartTime \in Nat \ {0} /\ LaunchTimes \subseteq Nat \ {0}

EmissionsInit(at) ==
  /\ now = StartTime
  /\ launchAt = at
  /\ shares = [e \in Epochs |-> DefaultShares]
  /\ released = {} /\ rolledOver = {}
  /\ reserved = [e \in Epochs |-> [b \in Terms |-> 0]]
  /\ totalOut = 0

Launched == launchAt # 0
EpochStart(e) == launchAt + e * EPOCH
EpochOf(t) == IF t < launchAt THEN 0 ELSE Min({(t - launchAt) \div EPOCH, WEEKS})
CurrentEpoch == EpochOf(now)
ScheduleOver == Launched /\ now >= EpochStart(WEEKS)
Started(e) == Launched /\ e \in Epochs /\ now >= EpochStart(e)

DealsTotal(e) == (Weekly[e] * shares[e].deal) \div BPS
LiquidityBudget(e) == Weekly[e] - DealsTotal(e)
LiquidityOf(epochs) == SumFunction([e \in epochs |-> LiquidityBudget(e)])
DealBudget(e, b) ==
  LET deals21 == (DealsTotal(e) * shares[e].term21) \div BPS
  IN  IF b = "TERM21" THEN deals21 ELSE DealsTotal(e) - deals21

Remaining(e, b) == DealBudget(e, b) - reserved[e][b]

\* Mutant: the ceiling stops at the last epoch that is over.
PrefixSumBefore(e) == SumFunctionOnSet(Weekly, 0 .. Min({e - 1, WEEKS - 1}))

\* What left the contract never exceeds the table up to the current epoch.
PrefixSum(e) == SumFunctionOnSet(Weekly, 0 .. Min({e, WEEKS - 1}))
UnderCeiling(amount) == totalOut + amount <= PrefixSum(CurrentEpoch)
TakeOut(amount) ==
  /\ UnderCeiling(amount)
  /\ totalOut' = totalOut + amount

Launch(at) ==
  /\ ~Launched
  /\ at + EPOCH >= now
  /\ launchAt' = at
  /\ UNCHANGED <<shares, released, rolledOver, reserved, totalOut>>

\* Mutant: the shares of an epoch that runs already are changed.
SetSharesAnyTime(e, choice) ==
  /\ shares' = [shares EXCEPT ![e] = choice]
  /\ UNCHANGED <<launchAt, released, rolledOver, reserved, totalOut>>

SetShares(e, choice) ==
  /\ ~Started(e)
  /\ shares' = [shares EXCEPT ![e] = choice]
  /\ UNCHANGED <<launchAt, released, rolledOver, reserved, totalOut>>

\* The part of release that belongs to this contract, for one or more epochs of
\* one transaction, together with what else leaves in it.
ReleaseOut(epochs, more) ==
  /\ \A e \in epochs : Started(e) /\ e \notin released
  /\ released' = released \cup epochs
  /\ TakeOut(LiquidityOf(epochs) + more)
  /\ UNCHANGED <<launchAt, shares, rolledOver>>

RolloverOut(e) ==
  /\ e \in released \ rolledOver
  /\ now >= EpochStart(e + 1) + REGISTRATION_GRACE
  /\ rolledOver' = rolledOver \cup {e}
  /\ reserved' = [reserved EXCEPT ![e] = [b \in Terms |-> DealBudget(e, b)]]
  /\ TakeOut(Remaining(e, "TERM7") + Remaining(e, "TERM21"))
  /\ UNCHANGED <<launchAt, shares, released>>

Finalize ==
  /\ ScheduleOver /\ now >= EpochStart(WEEKS) + REGISTRATION_GRACE
  /\ Epochs \subseteq released /\ Epochs \subseteq rolledOver
  /\ Settled(Burned(sgage, "emissions", sgage["emissions"]))
  /\ UNCHANGED emissionVars
==============================================================================
