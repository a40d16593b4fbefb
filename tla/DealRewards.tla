----------------------------- MODULE DealRewards -----------------------------
(***************************************************************************)
(* Rewards for funded deals (DealRewards.sol) on top of the reserve: each  *)
(* deal is registered once, by anyone, for the fee it paid times the rate  *)
(* of the epoch it was funded in, within that epoch's budget, and granted  *)
(* as one drip for each party.  The vault's deals are outside: they are    *)
(* funded at some time and stay funded as far as registering goes.         *)
(***************************************************************************)
EXTENDS LPRewards

CONSTANTS
  Deals,           \* deal ids of the vault
  Parties,         \* [lender, borrower] a deal can have
  TermOf, FeeOf,   \* each deal's term ("TERM7" or "TERM21") and fee
  LengthOf,        \* seconds of each term
  RateChoices,     \* [rate7, rate21, price, lenderShare] the owner posts
  MAX_REWARD_SHARE

VARIABLES
  deals,   \* d -> [fundedAt, lender, borrower], fundedAt 0 before funding
  rates,   \* _rates
  regs     \* _regs

dealVars == <<deals, rates, regs>>
dealAllVars == <<lpAllVars, dealVars>>

NoRates == [rate7 |-> 0, rate21 |-> 0, price |-> 0, lenderShare |-> 0]
NoReg == [registered |-> FALSE, epoch |-> 0, lender |-> 0, borrower |-> 0]

ASSUME DealAssumption ==
  /\ Parties \subseteq [lender : Owners, borrower : Owners]
  /\ IsFiniteSet(Deals)
  /\ {<<<<"deal", d>>, a>> : d \in Deals, a \in Owners} \subseteq DripIds
  /\ TermOf \in [Deals -> Terms] /\ FeeOf \in [Deals -> Nat] /\ LengthOf \in [Terms -> Nat]
  /\ RateChoices \subseteq [rate7 : Nat, rate21 : Nat, price : Nat \ {0}, lenderShare : 0 .. BPS]
  /\ MAX_REWARD_SHARE \in Nat

DealRewardsInit ==
  /\ deals = [d \in Deals |-> [fundedAt |-> 0, lender |-> NoSeed, borrower |-> NoSeed]]
  /\ rates = [e \in Epochs |-> NoRates]
  /\ regs = [d \in Deals |-> NoReg]

DealInit == LPInit /\ DealRewardsInit

Funded(d) == deals[d].fundedAt # 0
DealEpoch(d) == EpochOf(deals[d].fundedAt)

\* effectiveRates: an epoch without rates carries the latest earlier ones forward.
EffectiveRates(e) ==
  LET earlier == {x \in Epochs : x <= e /\ rates[x] # NoRates}
  IN  IF earlier = {} THEN NoRates ELSE rates[Max(earlier)]

\* _reward: fee times rate, capped by the value of the fee and by the budget.
Reward(d) ==
  LET e == DealEpoch(d)
      r == EffectiveRates(e)
      raw == FeeOf[d] * (IF TermOf[d] = "TERM21" THEN r.rate21 ELSE r.rate7)
      cap == (FeeOf[d] * MAX_REWARD_SHARE) \div (BPS * r.price)
  IN  IF e \notin Epochs \/ r = NoRates \/ e \in rolledOver THEN 0
      ELSE Min({raw, cap, Remaining(e, TermOf[d])})

(***************************************************************************)
(* Actions.                                                                *)
(***************************************************************************)
\* Outside: the vault funds a deal.
Fund(d, parties) ==
  /\ ~Funded(d)
  /\ deals' = [deals EXCEPT ![d] = [fundedAt |-> now, lender |-> parties.lender, borrower |-> parties.borrower]]
  /\ UNCHANGED <<lpAllVars, rates, regs>>

SetEpochRates(e, r) ==
  /\ Launched => e >= CurrentEpoch
  /\ rates' = [rates EXCEPT ![e] = r]
  /\ UNCHANGED <<lpAllVars, deals, regs>>

\* Mutant: the lender is granted everything.
GrantsOfOne(d, lenderAmount, borrowerAmount) ==
  <<<<"deal", d>>, deals[d].lender>> :> (lenderAmount + borrowerAmount)

\* The two grants; with both parties the same account they have one id, and the
\* second reverts.
Grants(d, lenderAmount, borrowerAmount) ==
  LET granted(a) == (IF a = deals[d].lender THEN lenderAmount ELSE 0)
                    + (IF a = deals[d].borrower THEN borrowerAmount ELSE 0)
      parties == {a \in {deals[d].lender, deals[d].borrower} : granted(a) > 0}
  IN  [id \in {<<<<"deal", d>>, a>> : a \in parties} |-> granted(id[2])]

SameParty(d) == deals[d].lender = deals[d].borrower

Register(d) ==
  LET e == DealEpoch(d)
      toRelease == {e} \cap (Epochs \ released)
      reward == Reward(d)
      lenderAmount == (reward * EffectiveRates(e).lenderShare) \div BPS
      borrowerAmount == reward - lenderAmount
  IN  /\ ~regs[d].registered
      /\ Funded(d)
      /\ Launched
      /\ ~(SameParty(d) /\ lenderAmount > 0 /\ borrowerAmount > 0)
      /\ regs' = [regs EXCEPT ![d] = [registered |-> TRUE, epoch |-> e,
                                      lender |-> lenderAmount, borrower |-> borrowerAmount]]
      /\ ReleaseOut(toRelease, reward)
      /\ pool' = Notified(pool, toRelease)
      /\ reserved' = IF reward > 0 THEN [reserved EXCEPT ![e][TermOf[d]] = @ + reward] ELSE reserved
      /\ IF reward > 0
         THEN GrantAll(Grants(d, lenderAmount, borrowerAmount),
                       Max({deals[d].fundedAt, launchAt}), LengthOf[TermOf[d]])
         ELSE UNCHANGED dripVars
      /\ Settled(Paid(Delivered(sgage, toRelease), "emissions", "drip", reward))
      /\ UNCHANGED <<now, pos, owner, value, lumps, deals, rates>>

DealNext ==
  \/ \E d \in Deals, parties \in Parties : Fund(d, parties)
  \/ \E e \in Epochs, r \in RateChoices : SetEpochRates(e, r)
  \/ \E d \in Deals : Register(d)

DealRewardsNext ==
  \/ DealNext
  \/ LPNext /\ UNCHANGED dealVars

DealSpec == DealInit /\ [][DealRewardsNext]_dealAllVars

(***************************************************************************)
(* Properties.                                                             *)
(***************************************************************************)
\* Until an epoch is rolled over, each of its budgets is used by exactly the
\* deals registered for it, and never by more than it holds: the order of
\* registrations and releases does not matter, nor who registers.
BudgetsAreRegistered ==
  \A e \in Epochs, b \in Terms :
    LET used == SumFunction([d \in {x \in Deals : regs[x].registered /\ regs[x].epoch = e /\ TermOf[x] = b} |->
                               regs[d].lender + regs[d].borrower])
    IN  /\ used <= DealBudget(e, b)
        /\ e \notin rolledOver => used = reserved[e][b]

\* A registered deal's parties hold drips of exactly what was reserved for them,
\* unlocking from the funding (or the launch) over the term.
PartiesHaveTheirDrips ==
  \A d \in Deals :
    LET drip(a) == drips[<<<<"deal", d>>, a>>]
        share(a) == (IF a = deals[d].lender THEN regs[d].lender ELSE 0)
                    + (IF a = deals[d].borrower THEN regs[d].borrower ELSE 0)
    IN  \A a \in Owners :
          /\ drip(a).total = IF regs[d].registered THEN share(a) ELSE 0
          /\ drip(a).total > 0 => drip(a).start = Max({deals[d].fundedAt, launchAt})

\* What leaves a budget for a deal reaches its two parties, once.
BudgetsReachTheParties == BudgetsAreRegistered /\ PartiesHaveTheirDrips

\* "Every funded deal earns sGAGE for both parties" (the header of DealRewards.sol):
\* a funded deal of a started epoch can be registered.
FundedDealsRegister ==
  \A d \in Deals : Funded(d) /\ ~regs[d].registered /\ Launched /\ now >= launchAt => ENABLED Register(d)
=============================================================================
