---------------------------- MODULE GageV2Rewards ----------------------------
(***************************************************************************)
(* The reward ledger of the V2 loan engine (GageV2Rewards.sol).  Donated   *)
(* sGAGE is free until a loan activates; activation reserves the borrower  *)
(* and lender allocations of that loan, which accrue along a quadratic     *)
(* clock.  Selling the reclaim right or lender units moves only future     *)
(* accrual; closing the loan stops the clock and recycles what was not     *)
(* earned.  Only the vault calls Activate, TransferRight, TransferLender   *)
(* and Close: GageV2Vault takes them as parts of its own steps.            *)
(***************************************************************************)
EXTENDS Quarters, Functions

CONSTANTS
  Accounts,     \* every address that can hold a right, a unit or a claim
  NoAccount,    \* address(0)
  LoanIds,      \* loan identifiers
  Donations,    \* amounts funders add
  MaxBudget,    \* bound: donations stop when this much sGAGE has been added
  MaxTime       \* bound: the clock stops here

VARIABLES
  now,              \* block.timestamp
  allocations,      \* _allocations
  earnedBorrower,   \* _earnedBorrower: checkpointed for former and final right holders
  earnedLender,     \* _earnedLender: checkpointed for sellers of lender units
  lenderAccounted,  \* _lenderAccounted: the part of each unit's slice already checkpointed
  claimed,          \* _claimed
  free,             \* _free
  reserved          \* _reserved

rewardLedger == <<allocations, earnedBorrower, earnedLender, lenderAccounted,
                  claimed, free, reserved>>
rewardVars == <<now, rewardLedger>>

NoAllocation ==
  [borrower |-> NoAccount, start |-> 0, end |-> 0, term |-> 0,
   borrowerTotal |-> 0, lenderTotal |-> 0, borrowerAccounted |-> 0,
   lenders |-> [i \in Slots |-> NoAccount]]

Init ==
  /\ now = 1
  /\ allocations = [id \in LoanIds |-> NoAllocation]
  /\ earnedBorrower = [id \in LoanIds |-> [a \in Accounts |-> 0]]
  /\ earnedLender = [id \in LoanIds |-> [a \in Accounts |-> 0]]
  /\ lenderAccounted = [id \in LoanIds |-> [i \in Slots |-> 0]]
  /\ claimed = [id \in LoanIds |-> [a \in Accounts |-> 0]]
  /\ free = 0
  /\ reserved = 0

(***************************************************************************)
(* The accrual clock.                                                      *)
(***************************************************************************)
Least(x, y) == IF x <= y THEN x ELSE y

Elapsed(a) == Least((IF a.end = 0 THEN now ELSE a.end) - a.start, a.term)

Curve(amount, a) == (amount * Elapsed(a) * Elapsed(a)) \div (a.term * a.term)

Live(a) == a.start # 0 /\ a.end = 0

\* What the current borrower has earned since the last checkpoint.
BorrowerAccrual(a) == Curve(a.borrowerTotal, a) - a.borrowerAccounted

\* What units S have earned and no seller has been credited with.
LenderAccrual(id, S) ==
  LET a == allocations[id]
  IN  SumSlots([i \in Slots |->
        IF i \in S THEN Slice(Curve(a.lenderTotal, a), i) - lenderAccounted[id][i] ELSE 0])

Claimable(id, account) ==
  LET a == allocations[id]
  IN  IF a.start = 0 THEN 0
      ELSE earnedBorrower[id][account] + earnedLender[id][account]
           + (IF a.end = 0 /\ a.borrower = account THEN BorrowerAccrual(a) ELSE 0)
           + LenderAccrual(id, Held(a.lenders, account))
           - claimed[id][account]

RemainingLenderReward(id, slots) ==
  LET a == allocations[id]
  IN  IF Live(a)
      THEN Share(a.lenderTotal, slots) - Share(Curve(a.lenderTotal, a), slots)
      ELSE 0

(***************************************************************************)
(* Operations.  Arithmetic is checked: a subtraction that would go below   *)
(* zero reverts the call, so it is a guard of the action.                  *)
(***************************************************************************)
Fund(amount) ==
  /\ amount # 0
  /\ free' = free + amount
  /\ UNCHANGED <<now, allocations, earnedBorrower, earnedLender, lenderAccounted, claimed, reserved>>

Activate(id, borrower, lenders, term, borrowerReward, lenderReward) ==
  /\ allocations[id].start = 0
  /\ borrower # NoAccount
  /\ term # 0
  /\ borrowerReward + lenderReward <= free
  /\ free' = free - (borrowerReward + lenderReward)
  /\ reserved' = reserved + borrowerReward + lenderReward
  /\ allocations' = [allocations EXCEPT ![id] =
       [borrower |-> borrower, start |-> now, end |-> 0, term |-> term,
        borrowerTotal |-> borrowerReward, lenderTotal |-> lenderReward,
        borrowerAccounted |-> 0, lenders |-> lenders]]
  /\ UNCHANGED <<now, earnedBorrower, earnedLender, lenderAccounted, claimed>>

\* _checkpoint: credit the current borrower with everything accrued on a's clock.
Checkpoint(id, a) ==
  /\ BorrowerAccrual(a) >= 0
  /\ earnedBorrower' = [earnedBorrower EXCEPT ![id][a.borrower] = @ + BorrowerAccrual(a)]

\* Mutant: the buyer takes over what the seller has earned but not claimed.
TransferRightUncheckpointed(id, buyer) ==
  /\ Live(allocations[id])
  /\ buyer # NoAccount
  /\ allocations' = [allocations EXCEPT ![id].borrower = buyer]
  /\ UNCHANGED <<now, earnedBorrower, earnedLender, lenderAccounted, claimed, free, reserved>>

\* Mutant: the ledger keeps crediting the seller after the sale.
TransferRightIgnored(id, buyer) ==
  /\ Live(allocations[id])
  /\ buyer # NoAccount
  /\ Checkpoint(id, allocations[id])
  /\ allocations' = [allocations EXCEPT ![id].borrowerAccounted =
       Curve(allocations[id].borrowerTotal, allocations[id])]
  /\ UNCHANGED <<now, earnedLender, lenderAccounted, claimed, free, reserved>>

TransferRight(id, buyer) ==
  LET a == allocations[id]
  IN  /\ Live(a)
      /\ buyer # NoAccount
      /\ Checkpoint(id, a)
      /\ allocations' = [allocations EXCEPT ![id] =
           [a EXCEPT !.borrower = buyer, !.borrowerAccounted = Curve(a.borrowerTotal, a)]]
      /\ UNCHANGED <<now, earnedLender, lenderAccounted, claimed, free, reserved>>

TransferLender(id, seller, buyer, slots) ==
  LET a == allocations[id]
      earned == Curve(a.lenderTotal, a)
  IN  /\ Live(a)
      /\ buyer # NoAccount
      /\ slots # {}
      /\ slots \subseteq Held(a.lenders, seller)
      /\ \A i \in slots : Slice(earned, i) >= lenderAccounted[id][i]
      /\ earnedLender' = [earnedLender EXCEPT ![id][seller] = @ + LenderAccrual(id, slots)]
      /\ lenderAccounted' = [lenderAccounted EXCEPT ![id] =
           [i \in Slots |-> IF i \in slots THEN Slice(earned, i) ELSE @[i]]]
      /\ allocations' = [allocations EXCEPT ![id].lenders =
           [i \in Slots |-> IF i \in slots THEN buyer ELSE @[i]]]
      /\ UNCHANGED <<now, earnedBorrower, claimed, free, reserved>>

Close(id) ==
  LET a == [allocations[id] EXCEPT !.end = now]
      recycled == a.borrowerTotal + a.lenderTotal
                  - Curve(a.borrowerTotal, a) - Curve(a.lenderTotal, a)
  IN  /\ Live(allocations[id])
      /\ Checkpoint(id, a)
      /\ recycled <= reserved
      /\ allocations' = [allocations EXCEPT ![id] =
           [a EXCEPT !.borrowerAccounted = Curve(a.borrowerTotal, a)]]
      /\ reserved' = reserved - recycled
      /\ free' = free + recycled
      /\ UNCHANGED <<now, earnedLender, lenderAccounted, claimed>>

\* claim and claimFor: the amount always goes to account, or where account sends it.
Claim(id, account) ==
  LET amount == Claimable(id, account)
  IN  /\ amount > 0
      /\ amount <= reserved
      /\ claimed' = [claimed EXCEPT ![id][account] = @ + amount]
      /\ reserved' = reserved - amount
      /\ UNCHANGED <<now, allocations, earnedBorrower, earnedLender, lenderAccounted, free>>

Tick ==
  /\ now < MaxTime
  /\ now' = now + 1
  /\ UNCHANGED rewardLedger

(***************************************************************************)
(* Budget reads: free and reserved sGAGE, and what the contract owes.      *)
(***************************************************************************)
\* What each account was credited with on a loan and has not claimed.
Credited(id) == [x \in Accounts |-> earnedBorrower[id][x] + earnedLender[id][x] - claimed[id][x]]

\* What a loan can still draw from the reserve: credited or accruing, and not claimed.
Outstanding(id) ==
  LET a == allocations[id]
      lenderLeft == IF a.end = 0 THEN a.lenderTotal ELSE Curve(a.lenderTotal, a)
      borrowerLeft == IF a.end = 0 THEN a.borrowerTotal ELSE a.borrowerAccounted
  IN  IF a.start = 0 THEN 0
      ELSE SumFunction(Credited(id))
           + borrowerLeft - a.borrowerAccounted
           + lenderLeft - SumSlots(lenderAccounted[id])

Donated == free + reserved + SumFunction([id \in LoanIds |-> SumFunction(claimed[id])])

DoFund == \E amount \in Donations : Donated + amount <= MaxBudget /\ Fund(amount)

(***************************************************************************)
(* Properties.                                                             *)
(***************************************************************************)
\* The reserve is exactly what the loans can still draw and no account was paid
\* more than it earned: however the right and the units were resold and the
\* quarters rounded, no claim is unbacked, none underflows, nothing is stranded.
ReserveMatchesLiability ==
  /\ reserved = SumFunction([id \in LoanIds |-> Outstanding(id)])
  /\ \A id \in LoanIds, x \in Accounts : Claimable(id, x) >= 0

\* An account's total earned on a loan, whether claimed already or not.
Earned(id, x) == Claimable(id, x) + claimed[id][x]

\* A sale moves future accrual only: at the instant of a step that does not
\* advance the clock nobody's earned total changes, buyer and seller included.
SaleMovesOnlyTheFuture ==
  [][now' = now /\ rewardLedger' # rewardLedger =>
       \A id \in LoanIds, x \in Accounts : Earned(id, x)' = Earned(id, x)]_rewardVars
=============================================================================
