---------------------------- MODULE LegacyAdapter ----------------------------
(* GageLegacyAdapter with its two GageLegacyParty clones per loan and the      *)
(* reward ledger behind it (GageV2BridgeRewards).  Every loan of a V2 engine   *)
(* is shadowed by a deal of the first escrow between two clones, only to earn  *)
(* the deal rewards that escrow is granted; what the first owner of a repaid   *)
(* loan no longer earns is lent to later loans.                                *)
EXTENDS Integers, Sequences, FiniteSets, FiniteSetsExt

CONSTANTS
  Engines,            \* engines that name this adapter as their bridge
  NoEngine,
  BackingAccounts,    \* collateral accounts: [engine, name]
  Terms, GRACE,
  BPS, LENDER_SHARE,
  Fees, Rates,        \* origination fees, and sGAGE a unit of fee earns
  Budget,             \* what the legacy epoch has to give
  MaxNow, MaxLoans    \* bounds

VARIABLES
  now, rate, budget,
  activeEngine, loans, pledged, recycledFree,
  sgage,        \* sGAGE the adapter holds
  drips,        \* of each loan: what the two clones were granted, and have claimed
  ledger        \* of each engine: _reserved, and what its claimants were paid

adapterVars == <<now, rate, budget, activeEngine, loans, pledged, recycledFree, sgage, drips, ledger>>

Sides == {"borrower", "lender"}

AdapterInit ==
  /\ now = 1 /\ rate \in Rates /\ budget = Budget
  /\ activeEngine = NoEngine /\ loans = <<>> /\ pledged = {} /\ recycledFree = 0 /\ sgage = 0
  /\ drips = <<>> /\ ledger = [e \in Engines |-> 0]

Least(a, b) == IF a < b THEN a ELSE b
Both(f) == f["borrower"] + f["lender"]
Split(total) ==
  LET lender == (total * LENDER_SHARE) \div BPS
  IN  [s \in Sides |-> IF s = "lender" THEN lender ELSE total - lender]

\* setEngine: from the administrator; loans already open keep their engine.
SetEngine(engine) ==
  /\ activeEngine' = engine /\ engine # activeEngine
  /\ UNCHANGED <<now, rate, budget, loans, pledged, recycledFree, sgage, drips, ledger>>

\* What the legacy programme grants, and what quote adds to it.
Legacy(fee) == Least(fee * rate, budget)
Quote(fee) ==
  LET legacy == Legacy(fee)
  IN  Split(legacy + Least(recycledFree, fee * rate - legacy))

\* GageV2BridgeRewards: _reserve when a loan opens, _release when it closes or pays.
Reserved(engine, amount) == [ledger EXCEPT ![engine] = @ + amount]
Released(engine, amount) == [ledger EXCEPT ![engine] = @ - amount]

\* GageLegacyParty: the borrower's clone lists, the lender's funds, and the fee of
\* their deal is granted to both as a drip.
Granted(fee) == [granted |-> Split(Legacy(fee)), claimed |-> [s \in Sides |-> 0]]

\* open, called by the active engine as the fourth quarter activates its loan:
\* one receipt, one deal of the first escrow, one grant; then the ledger reserves.
Open(account, term, fee) ==
  LET engine == account.engine
      selected == Quote(fee)
      liquid == Both(selected) - Legacy(fee)
  IN  /\ engine = activeEngine /\ account \notin pledged
      /\ Len(loans) < MaxLoans
      /\ pledged' = pledged \cup {account}
      /\ loans' = Append(loans, [engine |-> engine, start |-> now, closedAt |-> 0, term |-> term,
                                 reward |-> selected, liquid |-> liquid, paid |-> [s \in Sides |-> 0],
                                 receipt |-> "vault"])
      /\ recycledFree' = recycledFree - liquid
      /\ budget' = budget - Legacy(fee)
      /\ drips' = Append(drips, Granted(fee))
      /\ ledger' = Reserved(engine, Both(selected))
      /\ UNCHANGED <<now, rate, activeEngine, sgage>>

Curve(amount, elapsed, term) == (amount * elapsed * elapsed) \div (term * term)

\* _earned, of each side: the clock stops when the loan closes.
Earned(l) ==
  LET elapsed == Least((IF l.closedAt = 0 THEN now ELSE l.closedAt) - l.start, l.term)
  IN  [s \in Sides |-> Curve(l.reward[s], elapsed, l.term)]

\* What the first drip has unlocked: it runs on after the loan is closed.
Unlocked(id) ==
  LET elapsed == Least(now - loans[id].start, loans[id].term)
  IN  [s \in Sides |-> Curve(drips[id].granted[s], elapsed, loans[id].term)]
DripClaimable(id) == Both(Unlocked(id)) - Both(drips[id].claimed)

Harvested(id) == [drips EXCEPT ![id].claimed = Unlocked(id)]

\* claim and claimFor of the ledger: _prepareClaim is the adapter's pay.
Claim(id, side) ==
  LET l == loans[id]
      requested == Earned(l)[side] - l.paid[side]
      amount == Least(requested, l.liquid + DripClaimable(id))
  IN  /\ requested > 0 /\ amount > 0
      /\ requested <= Both(Earned(l)) - Both(l.paid)
      /\ drips' = Harvested(id)
      /\ loans' = [loans EXCEPT ![id].paid[side] = @ + amount,
                                ![id].liquid = @ + DripClaimable(id) - amount]
      /\ sgage' = sgage + DripClaimable(id) - amount
      /\ ledger' = Released(l.engine, amount)
      /\ UNCHANGED <<now, rate, budget, activeEngine, pledged, recycledFree>>

\* Mutant: what has not been claimed by the time of closing counts as surplus.
OwedNothing(l) == 0

\* What a closed loan still owes its parties.
Owed(l) == Both(Earned(l)) - Both(l.paid)

\* recycle: only what a closed loan has beyond that.
Recycle(id) ==
  LET l == loans[id]
      liquid == l.liquid + DripClaimable(id)
  IN  /\ l.closedAt # 0
      /\ drips' = Harvested(id)
      /\ loans' = [loans EXCEPT ![id].liquid = Least(liquid, Owed(l))]
      /\ recycledFree' = recycledFree + liquid - Least(liquid, Owed(l))
      /\ sgage' = sgage + DripClaimable(id)
      /\ UNCHANGED <<now, rate, budget, activeEngine, pledged, ledger>>

\* Both ends: the clones settle the deal of the first escrow, the receipt is
\* burned, and the ledger lets go of what will not be earned (_release).
Closed(id) ==
  LET l == loans[id]
      closed == [l EXCEPT !.closedAt = now, !.receipt = "burned"]
  IN  /\ l.closedAt = 0
      /\ loans' = [loans EXCEPT ![id] = closed]
      /\ ledger' = Released(l.engine, Both(l.reward) - Both(Earned(closed)))
      /\ UNCHANGED <<now, rate, budget, activeEngine, pledged, recycledFree, sgage, drips>>

\* repay, and finalizeDefault when term and grace are over.
Repay(id) == now < loans[id].start + loans[id].term + GRACE /\ Closed(id)
FinalizeDefault(id) == now >= loans[id].start + loans[id].term + GRACE /\ Closed(id)

\* Time passes; a new epoch brings a new rate.
Tick == /\ now < MaxNow /\ now' = now + 1 /\ rate' \in Rates
        /\ UNCHANGED <<budget, activeEngine, loans, pledged, recycledFree, sgage, drips, ledger>>

AdapterNext ==
  \/ \E e \in Engines \cup {NoEngine} : SetEngine(e)
  \/ \E account \in BackingAccounts, term \in Terms, fee \in Fees : Open(account, term, fee)
  \/ \E id \in DOMAIN loans :
       \/ \E side \in Sides : Claim(id, side)
       \/ Recycle(id) \/ Repay(id) \/ FinalizeDefault(id)
  \/ Tick

--------------------------------------------------------------------------------
\* The adapter's sGAGE is what may be reused and what its loans have at hand;
\* whatever a loan's parties have earned and not been paid is at hand or unlocked,
\* whoever claimed, recycled and opened loans meanwhile, and the ledger has it
\* reserved (GageLegacyAdapter.sol:225, GageV2BridgeRewards.sol:8).
Total(Of(_), S) == FoldSet(LAMBDA id, sum : sum + Of(id), 0, S)
RewardsAreBacked ==
  /\ recycledFree >= 0
  /\ sgage = recycledFree + Total(LAMBDA id : loans[id].liquid, DOMAIN loans)
  /\ \A id \in DOMAIN loans : Both(Earned(loans[id])) - Both(loans[id].paid) <= loans[id].liquid + DripClaimable(id)
  /\ \A e \in Engines :
       ledger[e] = Total(LAMBDA id : (IF loans[id].closedAt = 0 THEN Both(loans[id].reward) ELSE Both(Earned(loans[id])))
                                     - Both(loans[id].paid), {id \in DOMAIN loans : loans[id].engine = e})
=============================================================================
