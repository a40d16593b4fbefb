------------------------------ MODULE Quarters ------------------------------
(***************************************************************************)
(* Every V2 loan is funded in exactly four lender units.  An amount that   *)
(* belongs to the four units together is split by _slice: each unit gets a *)
(* quarter, rounded down, and the first units take the remainder, one raw  *)
(* unit each.  The vault splits principal, cap and recovered collateral    *)
(* this way, and the reward ledger splits the lender reward.               *)
(***************************************************************************)
EXTENDS Integers

UNITS == 4
Slots == 0 .. 3

Slice(total, i) == (total \div UNITS) + (IF i < total % UNITS THEN 1 ELSE 0)

SumSlots(f) == f[0] + f[1] + f[2] + f[3]

\* What the units in S receive out of total.
Share(total, S) == SumSlots([i \in Slots |-> IF i \in S THEN Slice(total, i) ELSE 0])

\* The number of units in S, written without Cardinality.
Units(S) == SumSlots([i \in Slots |-> IF i \in S THEN 1 ELSE 0])

\* The units that account holds in a slot table.
Held(slots, account) == {i \in Slots : slots[i] = account}
=============================================================================
