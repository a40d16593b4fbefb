---------------------------- MODULE HybridProofs ----------------------------
(***************************************************************************)
(* What holds of an Earn strategy after any order of deposits, exits,      *)
(* requests, loans, losses, rewards and outages: the entry points and the  *)
(* steps of others as chains of the operators of HybridOperatorProofs, and *)
(* the theorems of the specification.                                      *)
(***************************************************************************)
EXTENDS HybridOperatorProofs

(***************************************************************************)
(* The steps of the entry points that no internal operation names, and     *)
(* those of others at the loan engine and of donors.                       *)
(***************************************************************************)
HeadAt(w, n) == [w EXCEPT !.v.head = n]
Requested(w, h, shares) ==
  [w EXCEPT !.v = [w.v EXCEPT !.lockedShares[h] = @ + shares, !.pendingShares = @ + shares,
                              !.requests = Append(@, [owner |-> h, shares |-> shares])]]
Emptied(w, h) == [w EXCEPT !.v = [w.v EXCEPT !.claimable[h] = 0, !.claimableTotal = @ - w.v.claimable[h]]]
SlicePaid(w, p, h, token, amount) ==
  [w EXCEPT !.v = [w.v EXCEPT !.pockets[p].claimed = @ + amount, !.pocketLiability[token] = @ - amount,
                              !.pocketClaimed = @ \cup {<<p, h>>}],
            !.held = [w.held EXCEPT ![token] = @ - amount]]
RewardPaid(x, h, amount) ==
  [x EXCEPT !.v = [x.v EXCEPT !.owed[h] = @ - amount, !.accounted = @ - amount, !.liability = @ - amount],
            !.held = [x.held EXCEPT !["SGAGE"] = @ - amount]]
Invested(w, assets, shares) ==
  [w EXCEPT !.v = [w.v EXCEPT !.cash = @ - assets, !.reserveShares = @ + shares]]
Divested(w, shares) == [w EXCEPT !.v.reserveShares = @ - shares]
TakenBack(w, d) ==
  [w EXCEPT !.v = [w.v EXCEPT !.withdrawn = @ \cup {d}],
            !.core = [w.core EXCEPT !.deal[d] = [w.core.deal[d] EXCEPT !.mine = {}],
                                    !.credit = @ + Share(Terms[d].principal, w.core.deal[d].mine)]]
Weighed(w, lane, bps) == [w EXCEPT !.v.weight[lane] = bps]
Capped(w, cap) == [w EXCEPT !.v.cap = cap]
Charged(w, bps) == [w EXCEPT !.v.feeBps = bps]
Halted(w, enabled) == [w EXCEPT !.v = [w.v EXCEPT !.paused = enabled, !.epoch = @ + 1, !.approvedPrincipal = 0]]
FeesTaken(w) == [w EXCEPT !.v.feeAccrued = 0]
FilledUp(w, d) ==
  [w EXCEPT !.core = [w.core EXCEPT !.deal[d] = [w.core.deal[d] EXCEPT !.others = Slots \ w.core.deal[d].mine,
                                                                       !.state = "ACTIVE", !.fundedAt = now]]]
EndedAs(w, d, state, total) ==
  [w EXCEPT !.core = [w.core EXCEPT !.deal[d] = [w.core.deal[d] EXCEPT !.state = state, !.closedAt = now],
                                    !.credit = @ + Share(total, w.core.deal[d].mine)]]
CashPushed(w) ==
  [w EXCEPT !.core = [w.core EXCEPT !.credit = 0],
            !.held = [w.held EXCEPT !["USDG"] = @ + w.core.credit]]
RewardPushed(w, d) ==
  [w EXCEPT !.core = [w.core EXCEPT !.reward[d] = 0],
            !.held = [w.held EXCEPT !["SGAGE"] = @ + w.core.reward[d]]]
RewardEarned(w, d, amount) == [w EXCEPT !.core = [w.core EXCEPT !.reward[d] = @ + amount]]
Given(w, token, amount) == [w EXCEPT !.held = [w.held EXCEPT ![token] = @ + amount]]

\* What HeadAt writes.
HeadAtWrote(y, w, n) ==
  /\ Shape(y)
  /\ y.core = w.core
  /\ y.held = w.held
  /\ y.v.head = n
  /\ Same(y.v, w.v, Fields \ {"head"})

\* It writes that, and every other field stays.
LEMMA HeadAtDoes ==
  ASSUME NEW w, Shape(w), NEW n
  PROVE  HeadAtWrote(HeadAt(w, n), w, n)
<1> DEFINE a1 == n
           E == [w.v EXCEPT !.head = a1]
           y == HeadAt(w, n)
<1>1. y = [w EXCEPT !.v = E]
  BY DEF HeadAt
<1>2. DOMAIN w.v = Fields /\ DOMAIN w = {"v", "core", "held"}
  BY DEF Shape
<1> HIDE DEF a1
<1>3. "head" \in Fields
  BY DEF Fields
<1>4. E.head = a1
  BY <1>2, <1>3
<1>5. DOMAIN E = Fields /\ Same(E, w.v, Fields \ {"head"})
  BY <1>2 DEF Same
<1>6. E = [f \in Fields |-> E[f]]
  BY <1>2, Zenon
<1> HIDE DEF y, E
<1>7. DOMAIN y = DOMAIN w /\ y.v = E /\ y.core = w.core /\ y.held = w.held
  BY <1>1, <1>2
<1> QED
  BY <1>2, <1>4, <1>5, <1>7, <1>6 DEF Shape, y, HeadAtWrote, a1

\* What Requested writes.
RequestedWrote(y, w, h, shares) ==
  /\ Shape(y)
  /\ y.core = w.core
  /\ y.held = w.held
  /\ y.v.lockedShares = [w.v.lockedShares EXCEPT ![h] = w.v.lockedShares[h] + shares]
  /\ y.v.pendingShares = w.v.pendingShares + shares
  /\ y.v.requests = Append(w.v.requests, [owner |-> h, shares |-> shares])
  /\ Same(y.v, w.v, Fields \ {"lockedShares", "pendingShares", "requests"})

\* It writes that, and every other field stays.
LEMMA RequestedDoes ==
  ASSUME NEW w, Shape(w), NEW h, NEW shares
  PROVE  RequestedWrote(Requested(w, h, shares), w, h, shares)
<1> DEFINE a1 == [w.v.lockedShares EXCEPT ![h] = w.v.lockedShares[h] + shares]
           a2 == w.v.pendingShares + shares
           a3 == Append(w.v.requests, [owner |-> h, shares |-> shares])
           E == [w.v EXCEPT !.lockedShares = a1, !.pendingShares = a2, !.requests = a3]
           y == Requested(w, h, shares)
<1>1. y = [w EXCEPT !.v = E]
  BY DEF Requested
<1>2. DOMAIN w.v = Fields /\ DOMAIN w = {"v", "core", "held"}
  BY DEF Shape
<1> HIDE DEF a1, a2, a3
<1>3. "lockedShares" \in Fields /\ "pendingShares" \in Fields /\ "requests" \in Fields
  BY DEF Fields
<1>4. E.lockedShares = a1 /\ E.pendingShares = a2 /\ E.requests = a3
  BY <1>2, <1>3
<1>5. DOMAIN E = Fields /\ Same(E, w.v, Fields \ {"lockedShares", "pendingShares", "requests"})
  BY <1>2 DEF Same
<1>6. E = [f \in Fields |-> E[f]]
  BY <1>2, Zenon
<1> HIDE DEF y, E
<1>7. DOMAIN y = DOMAIN w /\ y.v = E /\ y.core = w.core /\ y.held = w.held
  BY <1>1, <1>2
<1> QED
  BY <1>2, <1>4, <1>5, <1>7, <1>6 DEF Shape, y, RequestedWrote, a1, a2, a3

\* What Emptied writes.
EmptiedWrote(y, w, h) ==
  /\ Shape(y)
  /\ y.core = w.core
  /\ y.held = w.held
  /\ y.v.claimable = [w.v.claimable EXCEPT ![h] = 0]
  /\ y.v.claimableTotal = w.v.claimableTotal - w.v.claimable[h]
  /\ Same(y.v, w.v, Fields \ {"claimable", "claimableTotal"})

\* It writes that, and every other field stays.
LEMMA EmptiedDoes ==
  ASSUME NEW w, Shape(w), NEW h
  PROVE  EmptiedWrote(Emptied(w, h), w, h)
<1> DEFINE a1 == [w.v.claimable EXCEPT ![h] = 0]
           a2 == w.v.claimableTotal - w.v.claimable[h]
           E == [w.v EXCEPT !.claimable = a1, !.claimableTotal = a2]
           y == Emptied(w, h)
<1>1. y = [w EXCEPT !.v = E]
  BY DEF Emptied
<1>2. DOMAIN w.v = Fields /\ DOMAIN w = {"v", "core", "held"}
  BY DEF Shape
<1> HIDE DEF a1, a2
<1>3. "claimable" \in Fields /\ "claimableTotal" \in Fields
  BY DEF Fields
<1>4. E.claimable = a1 /\ E.claimableTotal = a2
  BY <1>2, <1>3
<1>5. DOMAIN E = Fields /\ Same(E, w.v, Fields \ {"claimable", "claimableTotal"})
  BY <1>2 DEF Same
<1>6. E = [f \in Fields |-> E[f]]
  BY <1>2, Zenon
<1> HIDE DEF y, E
<1>7. DOMAIN y = DOMAIN w /\ y.v = E /\ y.core = w.core /\ y.held = w.held
  BY <1>1, <1>2
<1> QED
  BY <1>2, <1>4, <1>5, <1>7, <1>6 DEF Shape, y, EmptiedWrote, a1, a2

\* What SlicePaid writes.
SlicePaidWrote(y, w, p, h, token, amount) ==
  /\ Shape(y)
  /\ y.core = w.core
  /\ y.held = [w.held EXCEPT ![token] = w.held[token] - amount]
  /\ y.v.pockets = [w.v.pockets EXCEPT ![p] = [w.v.pockets[p] EXCEPT !.claimed = w.v.pockets[p].claimed
          + amount]]
  /\ y.v.pocketLiability = [w.v.pocketLiability EXCEPT ![token] = w.v.pocketLiability[token] - amount]
  /\ y.v.pocketClaimed = w.v.pocketClaimed \cup {<<p, h>>}
  /\ Same(y.v, w.v, Fields \ {"pockets", "pocketLiability", "pocketClaimed"})

\* It writes that, and every other field stays.
LEMMA SlicePaidDoes ==
  ASSUME NEW w, Shape(w), NEW p, NEW h, NEW token, NEW amount
  PROVE  SlicePaidWrote(SlicePaid(w, p, h, token, amount), w, p, h, token, amount)
<1> DEFINE a1 == [w.v.pockets EXCEPT ![p] = [w.v.pockets[p] EXCEPT !.claimed = w.v.pockets[p].claimed
        + amount]]
           a2 == [w.v.pocketLiability EXCEPT ![token] = w.v.pocketLiability[token] - amount]
           a3 == w.v.pocketClaimed \cup {<<p, h>>}
           E == [w.v EXCEPT !.pockets = a1, !.pocketLiability = a2, !.pocketClaimed = a3]
           H == [w.held EXCEPT ![token] = w.held[token] - amount]
           y == SlicePaid(w, p, h, token, amount)
<1>1. y = [w EXCEPT !.v = E, !.held = H]
  BY DEF SlicePaid
<1>2. DOMAIN w.v = Fields /\ DOMAIN w = {"v", "core", "held"}
  BY DEF Shape
<1> HIDE DEF a1, a2, a3, H
<1>3. "pockets" \in Fields /\ "pocketLiability" \in Fields /\ "pocketClaimed" \in Fields
  BY DEF Fields
<1>4. E.pockets = a1 /\ E.pocketLiability = a2 /\ E.pocketClaimed = a3
  BY <1>2, <1>3
<1>5. DOMAIN E = Fields /\ Same(E, w.v, Fields \ {"pockets", "pocketLiability", "pocketClaimed"})
  BY <1>2 DEF Same
<1>6. E = [f \in Fields |-> E[f]]
  BY <1>2, Zenon
<1> HIDE DEF y, E
<1>7. DOMAIN y = DOMAIN w /\ y.v = E /\ y.core = w.core /\ y.held = H
  BY <1>1, <1>2
<1> QED
  BY <1>2, <1>4, <1>5, <1>7, <1>6 DEF Shape, y, SlicePaidWrote, a1, a2, a3, H

\* What RewardPaid writes.
RewardPaidWrote(y, w, h, amount) ==
  /\ Shape(y)
  /\ y.core = w.core
  /\ y.held = [w.held EXCEPT !["SGAGE"] = w.held["SGAGE"] - amount]
  /\ y.v.owed = [w.v.owed EXCEPT ![h] = w.v.owed[h] - amount]
  /\ y.v.accounted = w.v.accounted - amount
  /\ y.v.liability = w.v.liability - amount
  /\ Same(y.v, w.v, Fields \ {"owed", "accounted", "liability"})

\* It writes that, and every other field stays.
LEMMA RewardPaidDoes ==
  ASSUME NEW w, Shape(w), NEW h, NEW amount
  PROVE  RewardPaidWrote(RewardPaid(w, h, amount), w, h, amount)
<1> DEFINE a1 == [w.v.owed EXCEPT ![h] = w.v.owed[h] - amount]
           a2 == w.v.accounted - amount
           a3 == w.v.liability - amount
           E == [w.v EXCEPT !.owed = a1, !.accounted = a2, !.liability = a3]
           H == [w.held EXCEPT !["SGAGE"] = w.held["SGAGE"] - amount]
           y == RewardPaid(w, h, amount)
<1>1. y = [w EXCEPT !.v = E, !.held = H]
  BY DEF RewardPaid
<1>2. DOMAIN w.v = Fields /\ DOMAIN w = {"v", "core", "held"}
  BY DEF Shape
<1> HIDE DEF a1, a2, a3, H
<1>3. "owed" \in Fields /\ "accounted" \in Fields /\ "liability" \in Fields
  BY DEF Fields
<1>4. E.owed = a1 /\ E.accounted = a2 /\ E.liability = a3
  BY <1>2, <1>3
<1>5. DOMAIN E = Fields /\ Same(E, w.v, Fields \ {"owed", "accounted", "liability"})
  BY <1>2 DEF Same
<1>6. E = [f \in Fields |-> E[f]]
  BY <1>2, Zenon
<1> HIDE DEF y, E
<1>7. DOMAIN y = DOMAIN w /\ y.v = E /\ y.core = w.core /\ y.held = H
  BY <1>1, <1>2
<1> QED
  BY <1>2, <1>4, <1>5, <1>7, <1>6 DEF Shape, y, RewardPaidWrote, a1, a2, a3, H

\* What Invested writes.
InvestedWrote(y, w, assets, shares) ==
  /\ Shape(y)
  /\ y.core = w.core
  /\ y.held = w.held
  /\ y.v.cash = w.v.cash - assets
  /\ y.v.reserveShares = w.v.reserveShares + shares
  /\ Same(y.v, w.v, Fields \ {"cash", "reserveShares"})

\* It writes that, and every other field stays.
LEMMA InvestedDoes ==
  ASSUME NEW w, Shape(w), NEW assets, NEW shares
  PROVE  InvestedWrote(Invested(w, assets, shares), w, assets, shares)
<1> DEFINE a1 == w.v.cash - assets
           a2 == w.v.reserveShares + shares
           E == [w.v EXCEPT !.cash = a1, !.reserveShares = a2]
           y == Invested(w, assets, shares)
<1>1. y = [w EXCEPT !.v = E]
  BY DEF Invested
<1>2. DOMAIN w.v = Fields /\ DOMAIN w = {"v", "core", "held"}
  BY DEF Shape
<1> HIDE DEF a1, a2
<1>3. "cash" \in Fields /\ "reserveShares" \in Fields
  BY DEF Fields
<1>4. E.cash = a1 /\ E.reserveShares = a2
  BY <1>2, <1>3
<1>5. DOMAIN E = Fields /\ Same(E, w.v, Fields \ {"cash", "reserveShares"})
  BY <1>2 DEF Same
<1>6. E = [f \in Fields |-> E[f]]
  BY <1>2, Zenon
<1> HIDE DEF y, E
<1>7. DOMAIN y = DOMAIN w /\ y.v = E /\ y.core = w.core /\ y.held = w.held
  BY <1>1, <1>2
<1> QED
  BY <1>2, <1>4, <1>5, <1>7, <1>6 DEF Shape, y, InvestedWrote, a1, a2

\* What Divested writes.
DivestedWrote(y, w, shares) ==
  /\ Shape(y)
  /\ y.core = w.core
  /\ y.held = w.held
  /\ y.v.reserveShares = w.v.reserveShares - shares
  /\ Same(y.v, w.v, Fields \ {"reserveShares"})

\* It writes that, and every other field stays.
LEMMA DivestedDoes ==
  ASSUME NEW w, Shape(w), NEW shares
  PROVE  DivestedWrote(Divested(w, shares), w, shares)
<1> DEFINE a1 == w.v.reserveShares - shares
           E == [w.v EXCEPT !.reserveShares = a1]
           y == Divested(w, shares)
<1>1. y = [w EXCEPT !.v = E]
  BY DEF Divested
<1>2. DOMAIN w.v = Fields /\ DOMAIN w = {"v", "core", "held"}
  BY DEF Shape
<1> HIDE DEF a1
<1>3. "reserveShares" \in Fields
  BY DEF Fields
<1>4. E.reserveShares = a1
  BY <1>2, <1>3
<1>5. DOMAIN E = Fields /\ Same(E, w.v, Fields \ {"reserveShares"})
  BY <1>2 DEF Same
<1>6. E = [f \in Fields |-> E[f]]
  BY <1>2, Zenon
<1> HIDE DEF y, E
<1>7. DOMAIN y = DOMAIN w /\ y.v = E /\ y.core = w.core /\ y.held = w.held
  BY <1>1, <1>2
<1> QED
  BY <1>2, <1>4, <1>5, <1>7, <1>6 DEF Shape, y, DivestedWrote, a1

\* What TakenBack writes.
TakenBackWrote(y, w, d) ==
  /\ Shape(y)
  /\ y.core = [w.core EXCEPT !.deal = [w.core.deal EXCEPT ![d] = [w.core.deal[d] EXCEPT !.mine = {}]],
          !.credit = w.core.credit + Share(Terms[d].principal, w.core.deal[d].mine)]
  /\ y.held = w.held
  /\ y.v.withdrawn = w.v.withdrawn \cup {d}
  /\ Same(y.v, w.v, Fields \ {"withdrawn"})

\* It writes that, and every other field stays.
LEMMA TakenBackDoes ==
  ASSUME NEW w, Shape(w), NEW d
  PROVE  TakenBackWrote(TakenBack(w, d), w, d)
<1> DEFINE a1 == w.v.withdrawn \cup {d}
           E == [w.v EXCEPT !.withdrawn = a1]
           C == [w.core EXCEPT !.deal = [w.core.deal EXCEPT ![d] = [w.core.deal[d] EXCEPT !.mine = {}]],
                   !.credit = w.core.credit + Share(Terms[d].principal, w.core.deal[d].mine)]
           y == TakenBack(w, d)
<1>1. y = [w EXCEPT !.v = E, !.core = C]
  BY DEF TakenBack
<1>2. DOMAIN w.v = Fields /\ DOMAIN w = {"v", "core", "held"}
  BY DEF Shape
<1> HIDE DEF a1, C
<1>3. "withdrawn" \in Fields
  BY DEF Fields
<1>4. E.withdrawn = a1
  BY <1>2, <1>3
<1>5. DOMAIN E = Fields /\ Same(E, w.v, Fields \ {"withdrawn"})
  BY <1>2 DEF Same
<1>6. E = [f \in Fields |-> E[f]]
  BY <1>2, Zenon
<1> HIDE DEF y, E
<1>7. DOMAIN y = DOMAIN w /\ y.v = E /\ y.core = C /\ y.held = w.held
  BY <1>1, <1>2
<1>8. DOMAIN y.core = DOMAIN w.core
  BY <1>7 DEF C, Shape
<1> QED
  BY <1>2, <1>4, <1>5, <1>7, <1>6, <1>8 DEF Shape, y, TakenBackWrote, a1, C

\* What Weighed writes.
WeighedWrote(y, w, lane, bps) ==
  /\ Shape(y)
  /\ y.core = w.core
  /\ y.held = w.held
  /\ y.v.weight = [w.v.weight EXCEPT ![lane] = bps]
  /\ Same(y.v, w.v, Fields \ {"weight"})

\* It writes that, and every other field stays.
LEMMA WeighedDoes ==
  ASSUME NEW w, Shape(w), NEW lane, NEW bps
  PROVE  WeighedWrote(Weighed(w, lane, bps), w, lane, bps)
<1> DEFINE a1 == [w.v.weight EXCEPT ![lane] = bps]
           E == [w.v EXCEPT !.weight = a1]
           y == Weighed(w, lane, bps)
<1>1. y = [w EXCEPT !.v = E]
  BY DEF Weighed
<1>2. DOMAIN w.v = Fields /\ DOMAIN w = {"v", "core", "held"}
  BY DEF Shape
<1> HIDE DEF a1
<1>3. "weight" \in Fields
  BY DEF Fields
<1>4. E.weight = a1
  BY <1>2, <1>3
<1>5. DOMAIN E = Fields /\ Same(E, w.v, Fields \ {"weight"})
  BY <1>2 DEF Same
<1>6. E = [f \in Fields |-> E[f]]
  BY <1>2, Zenon
<1> HIDE DEF y, E
<1>7. DOMAIN y = DOMAIN w /\ y.v = E /\ y.core = w.core /\ y.held = w.held
  BY <1>1, <1>2
<1> QED
  BY <1>2, <1>4, <1>5, <1>7, <1>6 DEF Shape, y, WeighedWrote, a1

\* What Capped writes.
CappedWrote(y, w, cap) ==
  /\ Shape(y)
  /\ y.core = w.core
  /\ y.held = w.held
  /\ y.v.cap = cap
  /\ Same(y.v, w.v, Fields \ {"cap"})

\* It writes that, and every other field stays.
LEMMA CappedDoes ==
  ASSUME NEW w, Shape(w), NEW cap
  PROVE  CappedWrote(Capped(w, cap), w, cap)
<1> DEFINE a1 == cap
           E == [w.v EXCEPT !.cap = a1]
           y == Capped(w, cap)
<1>1. y = [w EXCEPT !.v = E]
  BY DEF Capped
<1>2. DOMAIN w.v = Fields /\ DOMAIN w = {"v", "core", "held"}
  BY DEF Shape
<1> HIDE DEF a1
<1>3. "cap" \in Fields
  BY DEF Fields
<1>4. E.cap = a1
  BY <1>2, <1>3
<1>5. DOMAIN E = Fields /\ Same(E, w.v, Fields \ {"cap"})
  BY <1>2 DEF Same
<1>6. E = [f \in Fields |-> E[f]]
  BY <1>2, Zenon
<1> HIDE DEF y, E
<1>7. DOMAIN y = DOMAIN w /\ y.v = E /\ y.core = w.core /\ y.held = w.held
  BY <1>1, <1>2
<1> QED
  BY <1>2, <1>4, <1>5, <1>7, <1>6 DEF Shape, y, CappedWrote, a1

\* What Charged writes.
ChargedWrote(y, w, bps) ==
  /\ Shape(y)
  /\ y.core = w.core
  /\ y.held = w.held
  /\ y.v.feeBps = bps
  /\ Same(y.v, w.v, Fields \ {"feeBps"})

\* It writes that, and every other field stays.
LEMMA ChargedDoes ==
  ASSUME NEW w, Shape(w), NEW bps
  PROVE  ChargedWrote(Charged(w, bps), w, bps)
<1> DEFINE a1 == bps
           E == [w.v EXCEPT !.feeBps = a1]
           y == Charged(w, bps)
<1>1. y = [w EXCEPT !.v = E]
  BY DEF Charged
<1>2. DOMAIN w.v = Fields /\ DOMAIN w = {"v", "core", "held"}
  BY DEF Shape
<1> HIDE DEF a1
<1>3. "feeBps" \in Fields
  BY DEF Fields
<1>4. E.feeBps = a1
  BY <1>2, <1>3
<1>5. DOMAIN E = Fields /\ Same(E, w.v, Fields \ {"feeBps"})
  BY <1>2 DEF Same
<1>6. E = [f \in Fields |-> E[f]]
  BY <1>2, Zenon
<1> HIDE DEF y, E
<1>7. DOMAIN y = DOMAIN w /\ y.v = E /\ y.core = w.core /\ y.held = w.held
  BY <1>1, <1>2
<1> QED
  BY <1>2, <1>4, <1>5, <1>7, <1>6 DEF Shape, y, ChargedWrote, a1

\* What Halted writes.
HaltedWrote(y, w, enabled) ==
  /\ Shape(y)
  /\ y.core = w.core
  /\ y.held = w.held
  /\ y.v.paused = enabled
  /\ y.v.epoch = w.v.epoch + 1
  /\ y.v.approvedPrincipal = 0
  /\ Same(y.v, w.v, Fields \ {"paused", "epoch", "approvedPrincipal"})

\* It writes that, and every other field stays.
LEMMA HaltedDoes ==
  ASSUME NEW w, Shape(w), NEW enabled
  PROVE  HaltedWrote(Halted(w, enabled), w, enabled)
<1> DEFINE a1 == enabled
           a2 == w.v.epoch + 1
           a3 == 0
           E == [w.v EXCEPT !.paused = a1, !.epoch = a2, !.approvedPrincipal = a3]
           y == Halted(w, enabled)
<1>1. y = [w EXCEPT !.v = E]
  BY DEF Halted
<1>2. DOMAIN w.v = Fields /\ DOMAIN w = {"v", "core", "held"}
  BY DEF Shape
<1> HIDE DEF a1, a2, a3
<1>3. "paused" \in Fields /\ "epoch" \in Fields /\ "approvedPrincipal" \in Fields
  BY DEF Fields
<1>4. E.paused = a1 /\ E.epoch = a2 /\ E.approvedPrincipal = a3
  BY <1>2, <1>3
<1>5. DOMAIN E = Fields /\ Same(E, w.v, Fields \ {"paused", "epoch", "approvedPrincipal"})
  BY <1>2 DEF Same
<1>6. E = [f \in Fields |-> E[f]]
  BY <1>2, Zenon
<1> HIDE DEF y, E
<1>7. DOMAIN y = DOMAIN w /\ y.v = E /\ y.core = w.core /\ y.held = w.held
  BY <1>1, <1>2
<1> QED
  BY <1>2, <1>4, <1>5, <1>7, <1>6 DEF Shape, y, HaltedWrote, a1, a2, a3

\* What FeesTaken writes.
FeesTakenWrote(y, w) ==
  /\ Shape(y)
  /\ y.core = w.core
  /\ y.held = w.held
  /\ y.v.feeAccrued = 0
  /\ Same(y.v, w.v, Fields \ {"feeAccrued"})

\* It writes that, and every other field stays.
LEMMA FeesTakenDoes ==
  ASSUME NEW w, Shape(w)
  PROVE  FeesTakenWrote(FeesTaken(w), w)
<1> DEFINE a1 == 0
           E == [w.v EXCEPT !.feeAccrued = a1]
           y == FeesTaken(w)
<1>1. y = [w EXCEPT !.v = E]
  BY DEF FeesTaken
<1>2. DOMAIN w.v = Fields /\ DOMAIN w = {"v", "core", "held"}
  BY DEF Shape
<1> HIDE DEF a1
<1>3. "feeAccrued" \in Fields
  BY DEF Fields
<1>4. E.feeAccrued = a1
  BY <1>2, <1>3
<1>5. DOMAIN E = Fields /\ Same(E, w.v, Fields \ {"feeAccrued"})
  BY <1>2 DEF Same
<1>6. E = [f \in Fields |-> E[f]]
  BY <1>2, Zenon
<1> HIDE DEF y, E
<1>7. DOMAIN y = DOMAIN w /\ y.v = E /\ y.core = w.core /\ y.held = w.held
  BY <1>1, <1>2
<1> QED
  BY <1>2, <1>4, <1>5, <1>7, <1>6 DEF Shape, y, FeesTakenWrote, a1

\* What FilledUp writes.
FilledUpWrote(y, w, d) ==
  /\ Shape(y)
  /\ y.core = [w.core EXCEPT !.deal = [w.core.deal EXCEPT ![d] = [w.core.deal[d]
          EXCEPT !.others = Slots \ w.core.deal[d].mine, !.state = "ACTIVE", !.fundedAt = now]]]
  /\ y.held = w.held
  /\ y.v = w.v

\* It writes that, and every other field stays.
LEMMA FilledUpDoes ==
  ASSUME NEW w, Shape(w), NEW d
  PROVE  FilledUpWrote(FilledUp(w, d), w, d)
<1> DEFINE C == [w.core EXCEPT !.deal = [w.core.deal EXCEPT ![d] = [w.core.deal[d]
        EXCEPT !.others = Slots \ w.core.deal[d].mine, !.state = "ACTIVE", !.fundedAt = now]]]
           y == FilledUp(w, d)
<1>1. y = [w EXCEPT !.core = C]
  BY DEF FilledUp
<1>2. DOMAIN w.v = Fields /\ DOMAIN w = {"v", "core", "held"}
  BY DEF Shape
<1> HIDE DEF C
<1> HIDE DEF y
<1>3. DOMAIN y = DOMAIN w /\ y.v = w.v /\ y.core = C /\ y.held = w.held
  BY <1>1, <1>2
<1>4. DOMAIN y.core = DOMAIN w.core
  BY <1>3 DEF C, Shape
<1> QED
  BY <1>2, <1>3, <1>4 DEF Shape, y, FilledUpWrote, C

\* What EndedAs writes.
EndedAsWrote(y, w, d, state, total) ==
  /\ Shape(y)
  /\ y.core = [w.core EXCEPT !.deal = [w.core.deal EXCEPT ![d] = [w.core.deal[d] EXCEPT !.state = state,
          !.closedAt = now]], !.credit = w.core.credit + Share(total, w.core.deal[d].mine)]
  /\ y.held = w.held
  /\ y.v = w.v

\* It writes that, and every other field stays.
LEMMA EndedAsDoes ==
  ASSUME NEW w, Shape(w), NEW d, NEW state, NEW total
  PROVE  EndedAsWrote(EndedAs(w, d, state, total), w, d, state, total)
<1> DEFINE C == [w.core EXCEPT !.deal = [w.core.deal EXCEPT ![d] = [w.core.deal[d]
        EXCEPT !.state = state, !.closedAt = now]], !.credit = w.core.credit + Share(total,
        w.core.deal[d].mine)]
           y == EndedAs(w, d, state, total)
<1>1. y = [w EXCEPT !.core = C]
  BY DEF EndedAs
<1>2. DOMAIN w.v = Fields /\ DOMAIN w = {"v", "core", "held"}
  BY DEF Shape
<1> HIDE DEF C
<1> HIDE DEF y
<1>3. DOMAIN y = DOMAIN w /\ y.v = w.v /\ y.core = C /\ y.held = w.held
  BY <1>1, <1>2
<1>4. DOMAIN y.core = DOMAIN w.core
  BY <1>3 DEF C, Shape
<1> QED
  BY <1>2, <1>3, <1>4 DEF Shape, y, EndedAsWrote, C

\* What CashPushed writes.
CashPushedWrote(y, w) ==
  /\ Shape(y)
  /\ y.core = [w.core EXCEPT !.credit = 0]
  /\ y.held = [w.held EXCEPT !["USDG"] = w.held["USDG"] + w.core.credit]
  /\ y.v = w.v

\* It writes that, and every other field stays.
LEMMA CashPushedDoes ==
  ASSUME NEW w, Shape(w)
  PROVE  CashPushedWrote(CashPushed(w), w)
<1> DEFINE C == [w.core EXCEPT !.credit = 0]
           H == [w.held EXCEPT !["USDG"] = w.held["USDG"] + w.core.credit]
           y == CashPushed(w)
<1>1. y = [w EXCEPT !.core = C, !.held = H]
  BY DEF CashPushed
<1>2. DOMAIN w.v = Fields /\ DOMAIN w = {"v", "core", "held"}
  BY DEF Shape
<1> HIDE DEF C, H
<1> HIDE DEF y
<1>3. DOMAIN y = DOMAIN w /\ y.v = w.v /\ y.core = C /\ y.held = H
  BY <1>1, <1>2
<1>4. DOMAIN y.core = DOMAIN w.core
  BY <1>3 DEF C, Shape
<1> QED
  BY <1>2, <1>3, <1>4 DEF Shape, y, CashPushedWrote, C, H

\* What RewardPushed writes.
RewardPushedWrote(y, w, d) ==
  /\ Shape(y)
  /\ y.core = [w.core EXCEPT !.reward = [w.core.reward EXCEPT ![d] = 0]]
  /\ y.held = [w.held EXCEPT !["SGAGE"] = w.held["SGAGE"] + w.core.reward[d]]
  /\ y.v = w.v

\* It writes that, and every other field stays.
LEMMA RewardPushedDoes ==
  ASSUME NEW w, Shape(w), NEW d
  PROVE  RewardPushedWrote(RewardPushed(w, d), w, d)
<1> DEFINE C == [w.core EXCEPT !.reward = [w.core.reward EXCEPT ![d] = 0]]
           H == [w.held EXCEPT !["SGAGE"] = w.held["SGAGE"] + w.core.reward[d]]
           y == RewardPushed(w, d)
<1>1. y = [w EXCEPT !.core = C, !.held = H]
  BY DEF RewardPushed
<1>2. DOMAIN w.v = Fields /\ DOMAIN w = {"v", "core", "held"}
  BY DEF Shape
<1> HIDE DEF C, H
<1> HIDE DEF y
<1>3. DOMAIN y = DOMAIN w /\ y.v = w.v /\ y.core = C /\ y.held = H
  BY <1>1, <1>2
<1>4. DOMAIN y.core = DOMAIN w.core
  BY <1>3 DEF C, Shape
<1> QED
  BY <1>2, <1>3, <1>4 DEF Shape, y, RewardPushedWrote, C, H

\* What RewardEarned writes.
RewardEarnedWrote(y, w, d, amount) ==
  /\ Shape(y)
  /\ y.core = [w.core EXCEPT !.reward = [w.core.reward EXCEPT ![d] = w.core.reward[d] + amount]]
  /\ y.held = w.held
  /\ y.v = w.v

\* It writes that, and every other field stays.
LEMMA RewardEarnedDoes ==
  ASSUME NEW w, Shape(w), NEW d, NEW amount
  PROVE  RewardEarnedWrote(RewardEarned(w, d, amount), w, d, amount)
<1> DEFINE C == [w.core EXCEPT !.reward = [w.core.reward EXCEPT ![d] = w.core.reward[d] + amount]]
           y == RewardEarned(w, d, amount)
<1>1. y = [w EXCEPT !.core = C]
  BY DEF RewardEarned
<1>2. DOMAIN w.v = Fields /\ DOMAIN w = {"v", "core", "held"}
  BY DEF Shape
<1> HIDE DEF C
<1> HIDE DEF y
<1>3. DOMAIN y = DOMAIN w /\ y.v = w.v /\ y.core = C /\ y.held = w.held
  BY <1>1, <1>2
<1>4. DOMAIN y.core = DOMAIN w.core
  BY <1>3 DEF C, Shape
<1> QED
  BY <1>2, <1>3, <1>4 DEF Shape, y, RewardEarnedWrote, C

\* What Given writes.
GivenWrote(y, w, token, amount) ==
  /\ Shape(y)
  /\ y.core = w.core
  /\ y.held = [w.held EXCEPT ![token] = w.held[token] + amount]
  /\ y.v = w.v

\* It writes that, and every other field stays.
LEMMA GivenDoes ==
  ASSUME NEW w, Shape(w), NEW token, NEW amount
  PROVE  GivenWrote(Given(w, token, amount), w, token, amount)
<1> DEFINE H == [w.held EXCEPT ![token] = w.held[token] + amount]
           y == Given(w, token, amount)
<1>1. y = [w EXCEPT !.held = H]
  BY DEF Given
<1>2. DOMAIN w.v = Fields /\ DOMAIN w = {"v", "core", "held"}
  BY DEF Shape
<1> HIDE DEF H
<1> HIDE DEF y
<1>3. DOMAIN y = DOMAIN w /\ y.v = w.v /\ y.core = w.core /\ y.held = H
  BY <1>1, <1>2
<1> QED
  BY <1>2, <1>3 DEF Shape, y, GivenWrote, H

\* The requests the loop visits, in their order from the head.
Visits(w, count, n) ==
  /\ n \in Nat /\ n = Atmost(count, Len(w.v.requests) - w.v.head + 1)
  /\ \A k \in 1 .. n : Turns(w, count)[k] = w.v.head + k - 1 /\ Turns(w, count)[k] \in DOMAIN w.v.requests
LEMMA TurnsVisit ==
  ASSUME NEW w, Good(w), NEW count \in Nat
  PROVE  Visits(w, count, Atmost(count, Len(w.v.requests) - w.v.head + 1))
<1> DEFINE rest == Len(w.v.requests) - w.v.head + 1
           n == Atmost(count, rest)
           s == Turns(w, count)
<1>1. StockOk(w.v) /\ Passed(w.v, w.v.head) /\ w.v.head \in Nat
  <2>1. StockOk(w.v) /\ Passed(w.v, w.v.head)
    BY DEF Good, Sound
  <2> QED BY ONLY <2>1 DEF StockOk
<1>2. /\ n \in Nat /\ n <= rest /\ Len(w.v.requests) \in Nat
      /\ DOMAIN w.v.requests = 1 .. Len(w.v.requests)
  <2>1. Len(w.v.requests) \in Nat /\ w.v.head \in 1 .. Len(w.v.requests) + 1
    BY <1>1, RequestsFinite DEF Passed
  <2>2. rest \in Nat
    BY <2>1
  <2> HIDE DEF rest
  <2> QED BY <1>1, <2>1, <2>2, RequestsFinite DEF Atmost
<1>3. \A k \in 1 .. n : s[k] = w.v.head + k - 1 /\ s[k] \in DOMAIN w.v.requests
  <2>1. \A k \in 1 .. n : s[k] = w.v.head + k - 1
    BY DEF Turns
  <2>2. w.v.head >= 1
    BY <1>1 DEF Passed
  <2> DEFINE L == Len(w.v.requests)
             h0 == w.v.head
  <2>3. h0 \in Nat /\ h0 >= 1 /\ L \in Nat /\ n \in Nat /\ n <= L - h0 + 1 /\ DOMAIN w.v.requests = 1 .. L
    BY <1>1, <1>2, <2>2
  <2>4. \A k \in 1 .. n : s[k] = h0 + k - 1
    BY <2>1
  <2> HIDE DEF s, n, L, h0
  <2>5. \A k \in 1 .. n : h0 + k - 1 \in 1 .. L
    BY <2>3
  <2> QED BY <2>3, <2>4, <2>5 DEF h0
<1> QED BY <1>2, <1>3 DEF Visits

\* The loop starts from the queue as the checkpoint left it.
LEMMA QueueStarts ==
  ASSUME NEW w, Good(w), EnvOk, NEW maxAssets \in Nat
  PROVE  Serving(Queue(w, maxAssets), w, 0)
<1> DEFINE q0 == Queue(w, maxAssets)
<1>1. Sound(w) /\ LocksFit(w.v) /\ Passed(w.v, w.v.head) /\ w.v.head \in Nat
  BY DEF Good, Sound, StockOk
<1>2. /\ DOMAIN q0 = QueueParts /\ q0.ok /\ ~q0.stop /\ q0.w = w /\ q0.head = w.v.head
      /\ q0.budget = Atmost(maxAssets, FreeLiquidity(w))
  BY DEF Queue, QueueParts
<1>3. FreeLiquidity(w) \in Nat
  <2>1. w.v.cash \in Nat /\ w.v.reserveShares \in Nat /\ reserve.rate \in Nat /\ reserve.limit \in Nat
    BY <1>1 DEF Sound, MoneyOk, PriceOk, EnvOk
  <2>2. ReserveValue(w) \in Nat
    BY <2>1, ProductNat DEF ReserveValue
  <2> QED BY <2>1, <2>2 DEF FreeLiquidity, Atmost
<1>4. q0.budget \in Nat
  BY <1>2, <1>3 DEF Atmost
<1>5. Keeps(w, w) /\ Same(w.v, w.v, Fields \ ServeFields)
  BY <1>1, KeepsSelf DEF Same
<1> HIDE DEF q0
<1>6. Serving(q0, w, 0)
  BY <1>1, <1>2, <1>4, <1>5 DEF Serving
<1> QED BY <1>6 DEF q0

\* What serveRequests' loop leaves: the books, and a queue passed up to its new head.
LEMMA ServedKeeps ==
  ASSUME NEW w, Good(w), EnvOk, NEW count \in Nat, NEW maxAssets \in Nat
  PROVE  LET q == Served(w, count, maxAssets)
         IN  q.ok => Keeps(q.w, w) /\ LocksFit(q.w.v) /\ Same(q.w.v, w.v, Fields \ ServeFields) /\ Passed(q.w.v, q.head)
<1> DEFINE n == Atmost(count, Len(w.v.requests) - w.v.head + 1)
           q0 == Queue(w, maxAssets)
           s == Turns(w, count)
<1>1. n \in Nat /\ \A k \in 1 .. n : s[k] = w.v.head + k - 1 /\ s[k] \in DOMAIN w.v.requests
  <2>1. Visits(w, count, n)
    BY TurnsVisit
  <2> HIDE DEF n
  <2> QED BY <2>1 DEF Visits
<1>2. PICK f : Steps(f, "queue", {}, q0, s, n) /\ Served(w, count, maxAssets) = f[n]
  <2>1. n = Atmost(count, Len(w.v.requests) - w.v.head + 1)
    OBVIOUS
  <2> HIDE DEF n
  <2> QED BY ONLY <1>1, <2>1, ServedSteps
<1> HIDE DEF n, s
<1> DEFINE A == {k \in 0 .. n : Serving(f[k], w, k)}
<1>3. 0 \in A
  <2>1. f[0] = q0
    BY <1>2 DEF Steps
  <2> QED BY <1>1, <2>1, QueueStarts
<1>4. ASSUME NEW k \in 1 .. n, k - 1 \in A PROVE k \in A
  <2>1. f[k] = ServeOne(f[k - 1], s[k])
    BY <1>2 DEF Steps, Turn
  <2>2. Serving(f[k - 1], w, k - 1) /\ k \in Nat \ {0} /\ s[k] \in DOMAIN w.v.requests /\ s[k] = w.v.head + k - 1
    BY <1>1, <1>4
  <2>3. Serving(ServeOne(f[k - 1], s[k]), w, k)
    BY <2>2, TurnKeeps
  <2> QED BY <2>1, <2>3
<1>5. n \in A
  <2> HIDE DEF A
  <2>1. A \in SUBSET (0 .. n)
    BY DEF A
  <2> QED BY <1>1, <1>3, <1>4, <2>1, TurnByTurn
<1> QED BY <1>2, <1>5 DEF Serving

\* The head of the queue moves on to a request before which nothing waits.
LEMMA HeadAtKeeps ==
  ASSUME NEW w, Sound(w), NEW n, Passed(w.v, n)
  PROVE  LET y == HeadAt(w, n)
         IN  Keeps(y, w) /\ y.v.head = n /\ Passed(y.v, n) /\ Same(y.v, w.v, Fields \ {"head"})
<1> DEFINE y == HeadAt(w, n)
           K == {"head"}
<1>1. HeadAtWrote(y, w, n)
  BY SoundShape, HeadAtDoes
<1> HIDE DEF y
<1>2. Shape(y) /\ y.core = w.core /\ y.held = w.held /\ y.v.head = n /\ Same(y.v, w.v, Fields \ K)
  BY <1>1 DEF HeadAtWrote
<1>3. StockOk(y.v) /\ Passed(y.v, n)
  <2>1. /\ y.v.supply = w.v.supply /\ y.v.balance = w.v.balance /\ y.v.lockedShares = w.v.lockedShares
        /\ y.v.requests = w.v.requests /\ y.v.pendingShares = w.v.pendingShares
    BY <1>2 DEF Same, Fields
  <2>2. n \in Nat \ {0}
    <3>1. Len(w.v.requests) \in Nat
      BY RequestsFinite DEF Sound
    <3> QED BY <3>1 DEF Passed
  <2>3. StockOk(w.v)
    BY DEF Sound
  <2>4. \A h \in Holders : Asked(y.v, h) = Asked(w.v, h)
    BY <2>1 DEF Asked
  <2> QED BY <1>2, <2>1, <2>2, <2>3, <2>4 DEF StockOk, Passed
<1>4. /\ PolicyFields \cap K = {} /\ MoneyFields \cap K = {}
      /\ PromiseFields \cap K = {} /\ RewardFields \cap K = {}
      /\ PriceFields \cap K = {} /\ LoanFields \cap K = {}
      /\ RecordFields \cap K = {} /\ PocketFields \cap K = {} /\ EndFields \cap K = {}
  BY DEF PolicyFields, MoneyFields, PromiseFields, RewardFields, PriceFields, LoanFields, RecordFields,
         PocketFields, EndFields
<1> HIDE DEF K
<1>5. /\ PolicyOk(y.v) /\ MoneyOk(y.v, y.held) /\ PromiseOk(y.v, y.held) /\ RewardOk(y.v, y.core, y.held)
      /\ PriceOk(y.v) /\ LoanOk(y.v) /\ RecordOk(y.v) /\ PocketOk(y.v) /\ EndOk(y.v, y.core) /\ CoreOk(y.core)
      /\ Kept(y.v, w.v)
  BY <1>2, <1>4, SoundFrame
<1>6. Keeps(y, w)
  BY <1>2, <1>3, <1>5 DEF Sound, Keeps
<1> QED BY <1>2, <1>3, <1>6 DEF y, K

(***************************************************************************)
(* What the holders do.                                                    *)
(***************************************************************************)
\* When one holder's number moves, the sum moves by as much.
LEMMA HoldersMoved ==
  ASSUME NEW f, NEW g, NEW h \in Holders, NEW n \in Int, \A x \in Holders : f[x] \in Int /\ g[x] \in Int,
         \A x \in Holders \ {h} : g[x] = f[x], g[h] = f[h] + n
  PROVE  SumHolders(g) = SumHolders(f) + n /\ SumHolders(f) \in Int
BY Parameters, SumMoved, SumType DEF SumHolders, SumOver

\* A holder may leave with the shares that are free.
FreeAt(w, h, shares) == shares \in Nat /\ shares <= w.v.balance[h] - w.v.lockedShares[h]

\* A request locks the shares it asks for and waits behind the others.
LEMMA RequestedKeeps ==
  ASSUME NEW w, Sound(w), LocksFit(w.v), Passed(w.v, w.v.head), NEW h \in Holders, NEW shares, FreeAt(w, h, shares)
  PROVE  LET y == Requested(w, h, shares)
         IN  Keeps(y, w) /\ LocksFit(y.v) /\ Passed(y.v, y.v.head) /\ Same(y.v, w.v, Fields \ QueueFields)
<1> DEFINE y == Requested(w, h, shares)
           V == w.v
           X == y.v
           e == [owner |-> h, shares |-> shares]
           R == [owner : Holders, shares : Nat]
<1>1. RequestedWrote(y, w, h, shares)
  BY SoundShape, RequestedDoes
<1> HIDE DEF y
<1>2. /\ Shape(y) /\ y.core = w.core /\ y.held = w.held
      /\ X.requests = Append(V.requests, e)
      /\ X.lockedShares = [V.lockedShares EXCEPT ![h] = V.lockedShares[h] + shares]
      /\ X.pendingShares = V.pendingShares + shares
      /\ Same(X, V, Fields \ QueueFields)
  BY <1>1 DEF RequestedWrote, QueueFields
<1>3. StockOk(V) /\ LocksFit(V) /\ Passed(V, V.head) /\ shares \in Nat /\ shares <= V.balance[h] - V.lockedShares[h]
  BY DEF Sound, FreeAt
<1>4. X.supply = V.supply /\ X.balance = V.balance /\ X.head = V.head
  BY <1>2 DEF Same, Fields, QueueFields
<1>5. w.v = V /\ y.v = X
  OBVIOUS
<1> HIDE DEF V, X
<1> DEFINE q == V.requests
           r == Append(q, e)
           n == Len(q)
<1>6. /\ n \in Nat /\ DOMAIN q = 1 .. n /\ (\A i \in 1 .. n : q[i] \in R) /\ e \in R
      /\ r \in Seq(R) /\ DOMAIN r = 1 .. n + 1 /\ Len(r) = n + 1 /\ r[n + 1] = e /\ \A i \in 1 .. n : r[i] = q[i]
  <2>1. q \in Seq(R) /\ e \in R
    BY <1>3 DEF StockOk
  <2> HIDE DEF q, e, R
  <2> QED BY <2>1, SeqAt, AppendAt
<1>7. X.requests = r /\ e.owner = h /\ e.shares = shares
  BY <1>2
<1> HIDE DEF r, n, e
<1>8. /\ X.lockedShares \in [Holders -> Nat] /\ X.lockedShares[h] = V.lockedShares[h] + shares
      /\ \A x \in Holders \ {h} : X.lockedShares[x] = V.lockedShares[x]
      /\ V.lockedShares \in [Holders -> Nat] /\ V.balance \in [Holders -> Nat]
  <2>1. V.lockedShares \in [Holders -> Nat] /\ V.balance \in [Holders -> Nat]
    BY <1>3 DEF StockOk
  <2> QED BY <1>2, <1>3, <2>1
<1>9. X.pendingShares = SumHolders(X.lockedShares)
  <2> DEFINE f == V.lockedShares
             g == X.lockedShares
  <2>1. /\ h \in Holders /\ shares \in Int /\ (\A x \in Holders : f[x] \in Int /\ g[x] \in Int)
        /\ (\A x \in Holders \ {h} : g[x] = f[x]) /\ g[h] = f[h] + shares
    BY <1>3, <1>8
  <2> HIDE DEF f, g
  <2>2. SumHolders(g) = SumHolders(f) + shares
    BY <2>1, HoldersMoved
  <2> QED BY <1>2, <1>3, <2>2 DEF StockOk, f, g
<1>10. ASSUME NEW x \in Holders PROVE X.lockedShares[x] = Asked(X, x)
  <2> DEFINE S == {i \in DOMAIN q : q[i].owner = x}
             T == {i \in DOMAIN r : r[i].owner = x}
             f == [i \in DOMAIN q |-> q[i].shares]
             g == [i \in DOMAIN r |-> r[i].shares]
             m == n + 1
  <2>1. Asked(X, x) = SumOver(T, g) /\ Asked(V, x) = SumOver(S, f) /\ V.lockedShares[x] = Asked(V, x)
    BY <1>3, <1>7 DEF Asked, StockOk
  <2>2. /\ \A i \in 1 .. n : f[i] = g[i] /\ f[i] \in Int /\ g[i] \in Int
        /\ g[m] = shares /\ m \in 1 .. m /\ m \notin 1 .. n
    BY <1>3, <1>6, <1>7
  <2>3. IsFiniteSet(S) /\ IsFiniteSet(T) /\ S \subseteq 1 .. n
    <3>1. S \in SUBSET (1 .. n) /\ T \in SUBSET (1 .. m)
      BY <1>6
    <3>2. IsFiniteSet(1 .. n) /\ IsFiniteSet(1 .. m)
      BY <1>6, FS_Interval
    <3> QED BY <3>1, <3>2, FS_Subset
  <2>4. IF x = h THEN m \in T /\ T \ {m} = S ELSE T = S
    <3>1. 1 .. m = (1 .. n) \cup {m}
      BY <1>6
    <3> QED BY <1>6, <1>7, <2>2, <3>1
  <2>5. (\A i \in S : f[i] = g[i] /\ f[i] \in Int) /\ \A i \in T : g[i] \in Int
    <3>1. \A i \in T : i \in 1 .. n \/ i = m
      BY <1>6
    <3> HIDE DEF f, g
    <3> QED BY <1>3, <2>2, <2>3, <3>1
  <2> HIDE DEF S, T, f, g, m
  <2>6. SumOver(S, g) = SumOver(S, f) /\ SumOver(S, f) \in Int
    BY <2>3, <2>5, SumSame, SumType DEF SumOver
  <2>7. x = h => SumOver(T, g) = g[m] + SumOver(S, g)
    BY <2>3, <2>4, <2>5, SumInsert
  <2> QED BY <1>3, <1>8, <2>1, <2>2, <2>4, <2>6, <2>7
<1>11. StockOk(X)
  <2>1. V.supply \in Nat /\ V.head \in Nat \ {0} /\ V.supply = SumHolders(V.balance)
    BY <1>3 DEF StockOk
  <2> QED BY <1>4, <1>6, <1>7, <1>8, <1>9, <1>10, <2>1 DEF StockOk
<1>12. LocksFit(X)
  BY <1>3, <1>4, <1>8 DEF LocksFit
<1>13. Passed(X, X.head)
  <2>1. V.head \in 1 .. n + 1 /\ \A i \in 1 .. n : i < V.head => q[i].shares = 0
    BY <1>3, <1>6 DEF Passed, n
  <2>2. X.head \in 1 .. Len(X.requests) + 1
    BY <1>4, <1>6, <1>7, <2>1
  <2>3. \A i \in 1 .. n + 1 : i < V.head => i \in 1 .. n
    BY <1>6, <2>1
  <2> QED BY <1>4, <1>6, <1>7, <2>1, <2>2, <2>3 DEF Passed
<1>14. Keeps(y, w)
  BY <1>5, <1>2, <1>11, QueueFrame
<1> QED BY <1>5, <1>2, <1>12, <1>13, <1>14 DEF y

\* What a holder was credited leaves the total with them.
LEMMA EmptiedKeeps ==
  ASSUME NEW w, Sound(w), NEW h \in Holders
  PROVE  LET y == Emptied(w, h)
         IN  /\ Keeps(y, w) /\ Claims(y.v) + w.v.claimable[h] <= y.held["USDG"]
             /\ w.v.claimable[h] \in Nat
             /\ Same(y.v, w.v, Fields \ {"claimable", "claimableTotal"})
<1> DEFINE y == Emptied(w, h)
           V == w.v
           X == y.v
           a == V.claimable[h]
           zero == 0
<1>1. EmptiedWrote(y, w, h)
  BY SoundShape, EmptiedDoes
<1> HIDE DEF y
<1>2. /\ Shape(y) /\ y.core = w.core /\ y.held = w.held
      /\ X.claimable = [V.claimable EXCEPT ![h] = 0]
      /\ X.claimableTotal = V.claimableTotal - a
      /\ Same(X, V, Fields \ {"claimable", "claimableTotal"})
  BY <1>1 DEF EmptiedWrote
<1>3. MoneyOk(V, w.held) /\ PromiseOk(V, w.held) /\ w.held \in [Tokens -> Nat] /\ PriceOk(V) /\ CoreOk(w.core)
  BY DEF Sound, PromiseOk
<1>4. /\ V.cash \in Nat /\ V.feeAccrued \in Nat /\ V.harvested \in Nat /\ V.assigned \in Nat
      /\ V.claimableTotal \in Nat /\ V.pocketLiability["USDG"] \in Nat
      /\ V.claimable \in [Holders -> Nat] /\ a \in Nat /\ Claims(V) <= w.held["USDG"]
      /\ V.claimableTotal = SumHolders(V.claimable)
  <2>1. V.claimable \in [Holders -> Nat] /\ Claims(V) <= w.held["USDG"] /\ V.claimableTotal = SumHolders(V.claimable)
    BY <1>3 DEF MoneyOk
  <2> QED BY <1>3, <2>1, ClaimsCover
<1>5. /\ X.feeAccrued = V.feeAccrued /\ X.harvested = V.harvested /\ X.assigned = V.assigned
      /\ X.cash = V.cash /\ X.pocketLiability = V.pocketLiability /\ X.lockedProfit = V.lockedProfit
      /\ X.unlockStart = V.unlockStart /\ X.unlockEnd = V.unlockEnd /\ X.highWater = V.highWater
      /\ X.reserveShares = V.reserveShares
  BY <1>2 DEF Same, Fields
<1>6. w.held["USDG"] \in Nat
  BY <1>3, Parameters
<1>7. Claims(X) + a <= w.held["USDG"] /\ Claims(X) <= w.held["USDG"]
  <2>1. Claims(X) = Claims(V) - a /\ Claims(V) \in Int
    BY <1>2, <1>4, <1>5 DEF Claims
  <2> QED BY <1>4, <1>6, <2>1
<1>8. X.claimable \in [Holders -> Nat] /\ X.claimableTotal = SumHolders(X.claimable)
  <2> DEFINE f == V.claimable
             g == X.claimable
             n == 0 - a
  <2>1. g \in [Holders -> Nat] /\ (\A x \in Holders \ {h} : g[x] = f[x]) /\ g[h] = f[h] + n /\ n \in Int
    BY <1>2, <1>4
  <2>2. \A x \in Holders : f[x] \in Int /\ g[x] \in Int
    BY <1>4, <2>1
  <2> HIDE DEF f, g, n
  <2>3. SumHolders(g) = SumHolders(f) + n
    BY <2>1, <2>2, HoldersMoved
  <2> QED BY <1>2, <1>4, <2>1, <2>3 DEF f, g, n
<1>9. MoneyOk(X, y.held) /\ PriceOk(X)
  BY <1>2, <1>3, <1>4, <1>5, <1>7, <1>8 DEF MoneyOk, PriceOk
<1>10. Same(X, V, Fields \ CashFields)
  BY <1>2 DEF Same, CashFields
<1>11. Keeps(y, w)
  BY <1>2, <1>3, <1>9, <1>10, CashFrame DEF CoreOk
<1> QED BY <1>2, <1>4, <1>7, <1>11 DEF y

\* A balance of record is an amount.
LEMMA BalAtNat ==
  ASSUME NEW V, RecordTypes(V), V.balance \in [Holders -> Nat], NEW h \in Holders, NEW s
  PROVE  BalAt(V, h, s) \in Nat
<1> DEFINE q == V.snapshots[h]
           later == {i \in DOMAIN q : q[i].id >= s}
           n == Len(q)
<1>1. n \in Nat /\ DOMAIN q = 1 .. n /\ \A i \in 1 .. n : q[i] \in [id : Nat, balance : Nat]
  <2>1. q \in Seq([id : Nat, balance : Nat])
    BY DEF RecordTypes
  <2> HIDE DEF q
  <2> QED BY <2>1, SeqAt
<1>2. BalAt(V, h, s) = IF s = 0 \/ later = {} THEN V.balance[h] ELSE q[Min(later)].balance
  BY DEF BalAt
<1>3. later # {} => Min(later) \in 1 .. n
  <2>1. later \in SUBSET (1 .. n) /\ IsFiniteSet(1 .. n)
    BY <1>1, FS_Interval
  <2>2. later \in SUBSET Int /\ IsFiniteSet(later)
    BY <2>1, FS_Subset
  <2> HIDE DEF later
  <2> QED BY <2>1, <2>2, MinIn
<1> HIDE DEF q, later
<1>4. later # {} => q[Min(later)].balance \in Nat
  BY <1>1, <1>3
<1> QED BY <1>2, <1>4

\* The slices of a pocket are together no more than it holds.
LEMMA SlicesFit ==
  ASSUME NEW V, RecordTypes(V), PocketOk(V), V.balance \in [Holders -> Nat], NEW p \in DOMAIN V.pockets,
         V.pockets[p].supply # 0
  PROVE  LET f == [h \in Holders |-> Slice0(V, p, h)]
         IN  (\A h \in Holders : f[h] \in Nat) /\ SumHolders(f) <= V.pockets[p].amount
<1> DEFINE f == [h \in Holders |-> Slice0(V, p, h)]
           s == V.pockets[p].snapshot
           g == [h \in Holders |-> BalAt(V, h, s)]
           A == V.pockets[p].amount
           S == V.pockets[p].supply
<1>1. A \in Nat /\ S \in Nat \ {0} /\ SumHolders(g) = S
  <2> DEFINE q == V.pockets
  <2>1. q \in Seq(PocketType)
    BY DEF PocketOk
  <2>2. p \in DOMAIN q
    OBVIOUS
  <2> HIDE DEF q
  <2>3. q[p] \in PocketType
    BY <2>1, <2>2, SeqAt
  <2>4. V.pockets[p] \in PocketType
    BY <2>3 DEF q
  <2>5. OfRecord(V, s) = S
    BY DEF PocketOk
  <2> QED BY <2>4, <2>5 DEF PocketType, OfRecord
<1>2. \A h \in Holders : g[h] \in Nat
  BY BalAtNat
<1>3. \A h \in Holders : f[h] = (A * g[h]) \div S
  BY DEF Slice0
<1> HIDE DEF f, g, A, S, s
<1>4. ASSUME NEW h \in Holders PROVE f[h] \in Nat /\ S * f[h] <= A * g[h] /\ A * g[h] \in Nat /\ S * f[h] \in Nat
  <2> DEFINE x == A * g[h]
             y == f[h]
  <2>1. x \in Nat /\ y = x \div S
    BY <1>1, <1>2, <1>3, ProductNat
  <2> HIDE DEF x
  <2>2. y \in Nat /\ y * S <= x
    BY <1>1, <2>1, QuotientNat
  <2> HIDE DEF y
  <2>3. S * y <= x /\ S * y \in Nat
    BY <1>1, <2>2
  <2> QED BY <2>1, <2>2, <2>3 DEF x, y
<1> DEFINE l == [h \in Holders |-> S * f[h]]
           r == [h \in Holders |-> A * g[h]]
<1>5. /\ \A h \in Holders : f[h] \in Int /\ l[h] = S * f[h]
      /\ \A h \in Holders : g[h] \in Int /\ r[h] = A * g[h]
      /\ \A h \in Holders : l[h] \in Int /\ r[h] \in Int /\ l[h] <= r[h]
      /\ IsFiniteSet(Holders) /\ S \in Int /\ A \in Int
  BY <1>1, <1>2, <1>4, Parameters
<1> HIDE DEF l, r
<1>6. SumHolders(l) = S * SumHolders(f)
  BY <1>5, SumTimes DEF SumHolders, SumOver
<1>7. SumHolders(r) = A * SumHolders(g)
  BY <1>5, SumTimes DEF SumHolders, SumOver
<1>8. SumHolders(l) <= SumHolders(r)
  BY <1>5, SumLeq DEF SumHolders, SumOver
<1>9. SumHolders(f) \in Nat
  BY <1>4, HoldersNat
<1>10. SumHolders(f) <= A
  <2> DEFINE x == SumHolders(f)
  <2>1. S * x <= A * S /\ x \in Nat
    BY <1>1, <1>6, <1>7, <1>8, <1>9
  <2> HIDE DEF x
  <2>2. x <= A
    BY <1>1, <2>1
  <2> QED BY <2>2 DEF x
<1> QED BY <1>4, <1>10 DEF f, A

\* A sum over fewer members is no larger.
LEMMA FewerSum ==
  ASSUME NEW f, NEW T, IsFiniteSet(T), NEW S \in SUBSET T, \A x \in T : f[x] \in Nat
  PROVE  SumOver(S, f) \in Nat /\ SumOver(T, f) \in Nat /\ SumOver(S, f) <= SumOver(T, f)
<1> DEFINE R == T \ S
<1>1. IsFiniteSet(S) /\ IsFiniteSet(R)
  BY FS_Subset
<1>2. S \cap R = {} /\ S \cup R = T /\ \A x \in S \cup R : f[x] \in Int
  OBVIOUS
<1> HIDE DEF R
<1>3. /\ SumFunctionOnSet(f, S) \in Int /\ SumFunctionOnSet(f, S) >= 0
      /\ SumFunctionOnSet(f, R) \in Int /\ SumFunctionOnSet(f, R) >= 0
  <2>1. (\A x \in S : f[x] \in Int /\ f[x] >= 0) /\ (\A x \in R : f[x] \in Int /\ f[x] >= 0)
    BY <1>2
  <2> QED BY <1>1, <2>1, SumType
<1>4. SumFunctionOnSet(f, S \cup R) = SumFunctionOnSet(f, S) + SumFunctionOnSet(f, R)
  BY <1>1, <1>2, SumUnion
<1>5. SumFunctionOnSet(f, S \cup R) = SumOver(T, f)
  BY <1>2 DEF SumOver
<1> DEFINE a == SumFunctionOnSet(f, S)
           b == SumFunctionOnSet(f, R)
           c == SumOver(T, f)
<1>6. SumOver(S, f) = a /\ c = a + b /\ a \in Int /\ a >= 0 /\ b \in Int /\ b >= 0
  BY <1>3, <1>4, <1>5 DEF SumOver
<1> HIDE DEF a, b, c
<1>7. a \in Nat /\ c \in Nat /\ a <= c
  BY <1>6
<1> QED BY <1>6, <1>7 DEF c

\* One more holder's slice is paid out of a pocket.
SliceOut(X, V, p, h, token, amount) ==
  /\ X.pockets = [V.pockets EXCEPT ![p] = [V.pockets[p] EXCEPT !.claimed = V.pockets[p].claimed + amount]]
  /\ X.pocketLiability = [V.pocketLiability EXCEPT ![token] = V.pocketLiability[token] - amount]
  /\ X.pocketClaimed = V.pocketClaimed \cup {<<p, h>>}
  /\ X.snapshots = V.snapshots /\ X.balance = V.balance /\ X.snapshotCount = V.snapshotCount

\* A slice paid once is covered by what its pocket still owes.
LEMMA SliceOutKeeps ==
  ASSUME NEW V, NEW X, PocketOk(V), RecordTypes(V), V.balance \in [Holders -> Nat],
         V.pocketLiability \in [Tokens -> Nat],
         NEW p \in DOMAIN V.pockets, NEW h \in Holders, V.pockets[p].supply # 0, <<p, h>> \notin V.pocketClaimed,
         NEW token, token = V.pockets[p].token, NEW amount, amount = Slice0(V, p, h),
         SliceOut(X, V, p, h, token, amount)
  PROVE  /\ PocketOk(X) /\ token \in Tokens /\ amount \in Nat /\ amount <= V.pocketLiability[token]
         /\ X.pocketLiability \in [Tokens -> Nat]
<1> DEFINE q == V.pockets
           n == Len(q)
           e == [q[p] EXCEPT !.claimed = q[p].claimed + amount]
           r == X.pockets
           C(i) == {x \in Holders : <<i, x>> \in V.pocketClaimed}
           D(i) == {x \in Holders : <<i, x>> \in X.pocketClaimed}
           f(i) == [x \in Holders |-> Slice0(V, i, x)]
<1>1. /\ n \in Nat /\ DOMAIN q = 1 .. n /\ (\A i \in 1 .. n : q[i] \in PocketType) /\ q \in Seq(PocketType)
      /\ V.pocketClaimed \subseteq (1 .. n) \X Holders
  <2>1. q \in Seq(PocketType)
    BY DEF PocketOk
  <2>2. V.pocketClaimed \subseteq (DOMAIN q) \X Holders
    BY DEF PocketOk
  <2> HIDE DEF q
  <2> QED BY <2>1, <2>2, SeqAt
<1>2. /\ \A x \in Holders : f(p)[x] \in Nat
      /\ SumHolders(f(p)) <= q[p].amount
  BY SlicesFit
<1>3. amount = f(p)[h] /\ amount \in Nat
  BY <1>2
<1>4. q[p] \in PocketType /\ q[p].claimed = SumOver(C(p), f(p)) /\ p \in 1 .. n
  BY <1>1 DEF PocketOk, PaidOut
<1> DEFINE k == q[p]
           z == k.claimed + amount
<1>5. k \in PocketType /\ z \in Nat /\ e = [k EXCEPT !.claimed = z]
  BY <1>3, <1>4 DEF PocketType
<1> HIDE DEF e, k, z
<1>6. /\ e \in PocketType /\ e.claimed = z /\ e.deal = k.deal /\ e.token = k.token
       /\ e.amount = k.amount /\ e.supply = k.supply /\ e.snapshot = k.snapshot
  BY <1>5 DEF PocketType
<1>7. /\ e \in PocketType /\ e.claimed = q[p].claimed + amount /\ e.deal = q[p].deal /\ e.token = q[p].token
      /\ e.amount = q[p].amount /\ e.supply = q[p].supply /\ e.snapshot = q[p].snapshot
  BY <1>6 DEF k, z
<1>8. r = [q EXCEPT ![p] = e] /\ X.pocketClaimed = V.pocketClaimed \cup {<<p, h>>}
  BY DEF SliceOut, e
<1> HIDE DEF r, q, n
<1>9. r \in Seq(PocketType) /\ DOMAIN r = 1 .. n /\ r[p] = e /\ \A i \in 1 .. n \ {p} : r[i] = q[i]
  <2>1. r \in Seq(PocketType)
    BY <1>1, <1>4, <1>7, <1>8
  <2> QED BY <1>1, <1>4, <1>8, <2>1
<1>10. \A i \in 1 .. n : /\ r[i].amount = q[i].amount /\ r[i].supply = q[i].supply /\ r[i].snapshot = q[i].snapshot
                        /\ r[i].token = q[i].token
  BY <1>7, <1>9
<1>11. /\ \A x \in Holders : \A s : BalAt(X, x, s) = BalAt(V, x, s)
      /\ \A s : OfRecord(X, s) = OfRecord(V, s)
  <2>1. X.snapshots = V.snapshots /\ X.balance = V.balance /\ X.snapshotCount = V.snapshotCount
    BY DEF SliceOut
  <2> QED BY <2>1, BalAtFrame, OfRecordFrame
<1>12. ASSUME NEW i \in 1 .. n PROVE PaidOut(X, i) = SumOver(D(i), f(i)) /\ PaidOut(V, i) = SumOver(C(i), f(i))
  <2>1. [x \in Holders |-> Slice0(X, i, x)] = [x \in Holders |-> Slice0(V, i, x)]
    BY <1>10, <1>11 DEF Slice0, r, q
  <2> QED BY <2>1 DEF PaidOut
<1>13. \A i \in 1 .. n \ {p} : D(i) = C(i)
  BY <1>8
<1>14. D(p) = C(p) \cup {h} /\ h \notin C(p)
  BY <1>8
<1> HIDE DEF C, D
<1>15. SumOver(D(p), f(p)) = q[p].claimed + amount /\ q[p].claimed + amount <= q[p].amount
  <2> DEFINE F == f(p)
             T == D(p)
             S == C(p)
  <2>1. T \subseteq Holders /\ IsFiniteSet(T) /\ h \in T /\ T \ {h} = S
    <3>1. T \subseteq Holders
      BY DEF D
    <3> QED BY <1>14, <3>1, Parameters, FS_Subset
  <2>2. (\A x \in Holders : F[x] \in Nat) /\ F[h] = amount /\ SumHolders(F) <= q[p].amount
        /\ q[p].claimed = SumOver(S, F) /\ q[p].claimed \in Nat /\ q[p].amount \in Nat
    BY <1>2, <1>3, <1>4 DEF PocketType
  <2> HIDE DEF F, T, S
  <2>3. SumOver(T, F) = F[h] + SumOver(S, F)
    <3>1. \A x \in T : F[x] \in Int
      BY <2>1, <2>2
    <3> QED BY <2>1, <3>1, SumInsert
  <2>4. SumOver(T, F) <= SumHolders(F) /\ SumHolders(F) \in Nat
    BY <2>1, <2>2, FewerSum, Parameters DEF SumHolders
  <2> QED BY <1>3, <2>2, <2>3, <2>4 DEF F, T, S
<1>16. ASSUME NEW i \in DOMAIN r
       PROVE  /\ r[i].snapshot \in 1 .. X.snapshotCount
              /\ OfRecord(X, r[i].snapshot) = r[i].supply
              /\ r[i].claimed = PaidOut(X, i) /\ r[i].claimed <= r[i].amount
  <2>1. i \in 1 .. n /\ X.snapshotCount = V.snapshotCount
    BY <1>9 DEF SliceOut
  <2>2. /\ q[i].snapshot \in 1 .. V.snapshotCount /\ OfRecord(V, q[i].snapshot) = q[i].supply
        /\ q[i].claimed = PaidOut(V, i) /\ q[i].claimed <= q[i].amount
    BY <1>1, <2>1 DEF PocketOk, q
  <2>3. CASE i = p
    BY <1>7, <1>9, <1>10, <1>11, <1>12, <1>15, <2>1, <2>2, <2>3
  <2>4. CASE i # p
    <3>1. r[i] = q[i] /\ D(i) = C(i)
      BY <1>9, <1>13, <2>1, <2>4
    <3>2. PaidOut(X, i) = PaidOut(V, i)
      BY <1>12, <2>1, <3>1
    <3> QED BY <1>11, <2>1, <2>2, <3>1, <3>2
  <2> QED BY <2>3, <2>4
<1> DEFINE S(t) == {i \in 1 .. n : q[i].token = t}
           u == [i \in 1 .. n |-> q[i].amount - q[i].claimed]
           w == [i \in 1 .. n |-> r[i].amount - r[i].claimed]
<1>17. \A t \in Tokens : /\ Unpaid(V, t) = SumOver(S(t), u) /\ Unpaid(X, t) = SumOver(S(t), w)
                         /\ V.pocketLiability[t] = SumOver(S(t), u)
  <2>1. ASSUME NEW t \in Tokens PROVE Unpaid(V, t) = SumOver(S(t), u)
    BY <1>1 DEF Unpaid, q
  <2>2. ASSUME NEW t \in Tokens PROVE Unpaid(X, t) = SumOver(S(t), w)
    <3>1. {i \in DOMAIN r : r[i].token = t} = S(t)
      BY <1>9, <1>10
    <3> HIDE DEF S
    <3> QED BY <1>9, <3>1 DEF Unpaid, r
  <2> HIDE DEF S, u, w
  <2> QED BY <2>1, <2>2 DEF PocketOk
<1>18. /\ \A i \in 1 .. n : u[i] \in Nat /\ w[i] \in Int
       /\ \A i \in 1 .. n \ {p} : w[i] = u[i]
       /\ w[p] = u[p] - amount /\ amount <= u[p]
  <2>1. \A i \in 1 .. n : q[i].amount \in Nat /\ q[i].claimed \in Nat /\ q[i].claimed <= q[i].amount
    BY <1>1 DEF PocketType, PocketOk, q
  <2>2. \A i \in 1 .. n : r[i].amount \in Nat /\ r[i].claimed \in Nat
    <3>1. \A i \in 1 .. n : r[i] \in PocketType
      BY <1>9, SeqAt
    <3> QED BY <3>1 DEF PocketType
  <2>3. /\ \A i \in 1 .. n : u[i] = q[i].amount - q[i].claimed /\ w[i] = r[i].amount - r[i].claimed
    OBVIOUS
  <2> HIDE DEF u, w
  <2>4. \A i \in 1 .. n : u[i] \in Nat /\ w[i] \in Int
    BY <2>1, <2>2, <2>3
  <2>5. \A i \in 1 .. n \ {p} : w[i] = u[i]
    BY <1>9, <2>3
  <2>6. w[p] = u[p] - amount /\ amount <= u[p]
    <3>1. r[p].amount = q[p].amount /\ r[p].claimed = q[p].claimed + amount
      BY <1>7, <1>9
    <3> QED BY <1>3, <1>4, <1>15, <2>1, <2>3, <3>1
  <2> QED BY <2>4, <2>5, <2>6
<1>19. token \in Tokens /\ p \in S(token)
  BY <1>4 DEF PocketType, q
<1>20. \A t \in Tokens : IsFiniteSet(S(t)) /\ S(t) \subseteq 1 .. n
  <2>1. IsFiniteSet(1 .. n)
    BY <1>1, FS_Interval
  <2> QED BY <2>1, FS_Subset
<1>21. \A t \in Tokens \ {token} : p \notin S(t)
  BY DEF q
<1> HIDE DEF S, u, w
<1>22. amount <= V.pocketLiability[token]
  <2> DEFINE T == S(token)
  <2>1. IsFiniteSet(T) /\ p \in T /\ \A i \in T : u[i] \in Nat
    BY <1>18, <1>19, <1>20
  <2> HIDE DEF T
  <2>2. u[p] <= SumOver(T, u) /\ SumOver(T, u) \in Nat
    BY <2>1, SumCovers DEF SumOver
  <2> QED BY <1>3, <1>4, <1>17, <1>18, <1>19, <2>2 DEF T
<1>23. /\ X.pocketLiability \in [Tokens -> Nat] /\ X.pocketLiability[token] = V.pocketLiability[token] - amount
       /\ \A t \in Tokens \ {token} : X.pocketLiability[t] = V.pocketLiability[t]
  <2>1. X.pocketLiability = [V.pocketLiability EXCEPT ![token] = V.pocketLiability[token] - amount]
    BY DEF SliceOut
  <2>2. V.pocketLiability[token] - amount \in Nat
    BY <1>3, <1>19, <1>22
  <2> QED BY <1>19, <2>1, <2>2
<1>24. ASSUME NEW t \in Tokens PROVE X.pocketLiability[t] = Unpaid(X, t)
  <2> DEFINE T == S(t)
  <2>1. IsFiniteSet(T) /\ (\A i \in T : u[i] \in Int /\ w[i] \in Int) /\ T \subseteq 1 .. n
    BY <1>18, <1>20
  <2>2. V.pocketLiability[t] = SumOver(T, u) /\ Unpaid(X, t) = SumOver(T, w)
    BY <1>17
  <2>3. CASE t = token
    <3> DEFINE m == 0 - amount
    <3>1. /\ p \in T /\ m \in Int /\ w[p] = u[p] + m /\ \A i \in T \ {p} : w[i] = u[i]
      BY <1>3, <1>4, <1>18, <1>19, <2>1, <2>3
    <3> HIDE DEF T, m
    <3>2. SumOver(T, w) = SumOver(T, u) + m
      <4>1. /\ IsFiniteSet(T) /\ p \in T /\ m \in Int /\ (\A i \in T : u[i] \in Int /\ w[i] \in Int)
            /\ (\A i \in T \ {p} : w[i] = u[i]) /\ w[p] = u[p] + m
        BY <2>1, <3>1
      <4> QED BY ONLY <4>1, SumMoved DEF SumOver
    <3>3. V.pocketLiability[t] \in Nat
      OBVIOUS
    <3> QED BY <1>3, <1>23, <2>2, <2>3, <3>2, <3>3 DEF m
  <2>4. CASE t # token
    <3>1. \A i \in T : w[i] = u[i]
      BY <1>18, <1>21, <2>1, <2>4
    <3> HIDE DEF T
    <3>2. SumOver(T, w) = SumOver(T, u)
      BY <2>1, <3>1, SumSame DEF SumOver
    <3> QED BY <1>23, <2>2, <2>4, <3>2
  <2> QED BY <2>3, <2>4
<1>25. X.pocketClaimed \subseteq (DOMAIN r) \X Holders
  BY <1>1, <1>4, <1>8, <1>9
<1> QED BY <1>3, <1>9, <1>16, <1>19, <1>22, <1>23, <1>24, <1>25 DEF PocketOk, r

\* What was announced of rewards at the engine is an amount.
LEMMA AnnouncedNat == ASSUME NEW w, Sound(w) PROVE Announced(w.v, w.core) \in Nat
<1> DEFINE f == [d \in Deals |-> Atmost(w.v.observed[d], w.core.reward[d])]
<1>1. w.core.reward \in [Deals -> Nat] /\ w.v.observed \in [Deals -> Nat]
  BY DEF Sound, CoreOk, RewardOk, RewardCore, RewardTypes
<1>2. \A d \in Deals : f[d] \in Nat
  BY <1>1 DEF Atmost
<1>3. Announced(w.v, w.core) = SumOver(Deals, f)
  BY DEF Announced
<1> HIDE DEF f
<1> QED BY <1>2, <1>3, DealsNat

\* A slice leaves with its token; nothing else moves.
LEMMA SlicePaidKeeps ==
  ASSUME NEW w, Sound(w), NEW p \in DOMAIN w.v.pockets, NEW h \in Holders,
         w.v.pockets[p].supply # 0, <<p, h>> \notin w.v.pocketClaimed,
         NEW token, token = w.v.pockets[p].token, NEW amount, amount = Slice0(w.v, p, h)
  PROVE  LET y == SlicePaid(w, p, h, token, amount)
         IN  Keeps(y, w) /\ Same(y.v, w.v, Fields \ {"pockets", "pocketLiability", "pocketClaimed"})
<1> DEFINE y == SlicePaid(w, p, h, token, amount)
           V == w.v
           X == y.v
           H == w.held
           G == y.held
           K == {"pockets", "pocketLiability", "pocketClaimed"}
<1>1. SlicePaidWrote(y, w, p, h, token, amount)
  BY SoundShape, SlicePaidDoes
<1> HIDE DEF y
<1>2. /\ Shape(y) /\ y.core = w.core /\ G = [H EXCEPT ![token] = H[token] - amount]
      /\ Same(X, V, Fields \ K)
  BY <1>1 DEF SlicePaidWrote
<1>3. SliceOut(X, V, p, h, token, amount)
  <2>1. X.snapshots = V.snapshots /\ X.balance = V.balance /\ X.snapshotCount = V.snapshotCount
    BY <1>2 DEF Same, Fields
  <2> QED BY <1>1, <2>1 DEF SlicePaidWrote, SliceOut
<1>4. /\ PocketOk(V) /\ RecordTypes(V) /\ V.balance \in [Holders -> Nat] /\ V.pocketLiability \in [Tokens -> Nat]
      /\ H \in [Tokens -> Nat] /\ \A t \in Tokens : V.pocketLiability[t] <= H[t]
  BY DEF Sound, RecordOk, StockOk, PromiseOk
<1>5. w.v = V /\ y.v = X /\ w.held = H /\ y.held = G
  OBVIOUS
<1>6. p \in DOMAIN V.pockets /\ V.pockets[p].supply # 0 /\ <<p, h>> \notin V.pocketClaimed
      /\ token = V.pockets[p].token /\ amount = Slice0(V, p, h)
  OBVIOUS
<1>7. MoneyOk(V, H) /\ PromiseOk(V, H) /\ RewardOk(V, w.core, H)
  BY DEF Sound
<1> HIDE DEF V, X, H, G
<1>8. /\ PocketOk(X) /\ token \in Tokens /\ amount \in Nat /\ amount <= V.pocketLiability[token]
      /\ X.pocketLiability \in [Tokens -> Nat]
  BY <1>3, <1>4, <1>6, SliceOutKeeps
<1>9. X.pocketLiability = [V.pocketLiability EXCEPT ![token] = V.pocketLiability[token] - amount]
  BY <1>3 DEF SliceOut
<1> DEFINE L == V.pocketLiability
           M == X.pocketLiability
<1>10. /\ G \in [Tokens -> Nat]
      /\ \A t \in Tokens : M[t] - L[t] = G[t] - H[t] /\ M[t] <= G[t] /\ L[t] \in Nat /\ M[t] \in Nat /\ H[t] \in Nat
  <2>1. L[token] \in Nat /\ H[token] \in Nat /\ L[token] <= H[token] /\ L[token] - amount \in Nat /\ H[token] - amount \in Nat
    BY <1>4, <1>8
  <2>2. G \in [Tokens -> Nat] /\ G[token] = H[token] - amount /\ \A t \in Tokens \ {token} : G[t] = H[t]
    <3>1. H \in [Tokens -> Nat] /\ token \in Tokens /\ H[token] - amount \in Nat
          /\ G = [H EXCEPT ![token] = H[token] - amount]
      BY <1>2, <1>4, <1>8, <2>1
    <3> QED BY ONLY <3>1
  <2>3. M[token] = L[token] - amount /\ \A t \in Tokens \ {token} : M[t] = L[t]
    <3>1. L \in [Tokens -> Nat] /\ token \in Tokens /\ M = [L EXCEPT ![token] = L[token] - amount]
      BY <1>4, <1>8, <1>9
    <3> HIDE DEF L, M
    <3> QED BY ONLY <3>1
  <2>4. ASSUME NEW t \in Tokens PROVE M[t] - L[t] = G[t] - H[t] /\ M[t] <= G[t] /\ L[t] \in Nat /\ M[t] \in Nat /\ H[t] \in Nat
    <3>1. L[t] \in Nat /\ H[t] \in Nat /\ L[t] <= H[t] /\ M[t] \in Nat
      BY <1>4, <1>8
    <3> HIDE DEF L, M
    <3>2. CASE t = token
      <4>1. amount \in Nat /\ G[t] = H[t] - amount /\ M[t] = L[t] - amount
        BY <1>8, <2>2, <2>3, <3>2
      <4> QED BY ONLY <3>1, <4>1
    <3>3. CASE t # token
      <4>1. G[t] = H[t] /\ M[t] = L[t]
        BY <2>2, <2>3, <3>3
      <4> QED BY ONLY <3>1, <4>1
    <3> QED BY <3>2, <3>3
  <2> QED BY <2>2, <2>4
<1> HIDE DEF L, M
<1>11. /\ X.cash = V.cash /\ X.feeAccrued = V.feeAccrued /\ X.harvested = V.harvested /\ X.assigned = V.assigned
       /\ X.claimable = V.claimable /\ X.claimableTotal = V.claimableTotal
       /\ X.accPerShare = V.accPerShare /\ X.orphan = V.orphan /\ X.accounted = V.accounted
       /\ X.liability = V.liability /\ X.observed = V.observed /\ X.index = V.index /\ X.owed = V.owed
       /\ X.balance = V.balance
  BY <1>2 DEF Same, Fields, K
<1>12. MoneyOk(X, G)
  <2>1. /\ V.cash \in Nat /\ V.feeAccrued \in Nat /\ V.harvested \in Nat /\ V.assigned \in Nat
        /\ V.claimableTotal \in Nat /\ Claims(V) <= H["USDG"]
    BY <1>7, ClaimsCover
  <2>2. M["USDG"] - L["USDG"] = G["USDG"] - H["USDG"] /\ L["USDG"] \in Nat /\ M["USDG"] \in Nat
        /\ H["USDG"] \in Nat /\ G["USDG"] \in Nat
    BY <1>10, Parameters
  <2> DEFINE o == V.cash + V.feeAccrued + V.claimableTotal
             r == V.harvested - V.assigned
  <2>3. Claims(V) = o + L["USDG"] + V.harvested - V.assigned /\ Claims(X) = o + M["USDG"] + V.harvested - V.assigned
        /\ o \in Nat
    BY <1>11, <2>1, <2>2 DEF Claims, L, M
  <2> HIDE DEF o
  <2>4. Claims(X) <= G["USDG"]
    BY <2>1, <2>2, <2>3
  <2> QED BY <1>7, <1>11, <2>4 DEF MoneyOk
<1>13. PromiseOk(X, G)
  BY <1>8, <1>10 DEF PromiseOk, M
<1>14. RewardOk(X, y.core, G)
  <2>1. Unsettled(X) = Unsettled(V) /\ Announced(X, w.core) = Announced(V, w.core)
    BY <1>11 DEF Unsettled, Announced
  <2>2. RewardCore(X)
    BY <1>7, <1>11, <2>1 DEF RewardOk, RewardCore, RewardTypes
  <2>3. M["SGAGE"] - L["SGAGE"] = G["SGAGE"] - H["SGAGE"] /\ L["SGAGE"] \in Nat /\ M["SGAGE"] \in Nat
        /\ H["SGAGE"] \in Nat /\ G["SGAGE"] \in Nat
    BY <1>10, Parameters
  <2> DEFINE a == Announced(V, w.core)
             o == V.accounted + V.orphan
  <2>4. a \in Nat
    BY <1>5, AnnouncedNat DEF a
  <2>5. o + L["SGAGE"] <= H["SGAGE"] + a /\ o \in Nat
    BY <1>7 DEF RewardOk, RewardCore, RewardTypes, L
  <2> HIDE DEF a, o
  <2>6. o + M["SGAGE"] <= G["SGAGE"] + a
    BY <2>3, <2>4, <2>5
  <2>7. X.accounted + X.orphan + X.pocketLiability["SGAGE"] <= G["SGAGE"] + Announced(X, y.core)
    BY <1>2, <1>11, <2>1, <2>6 DEF a, o, M
  <2> QED BY <2>2, <2>7 DEF RewardOk
<1>15. /\ PolicyFields \cap K = {} /\ PriceFields \cap K = {} /\ LoanFields \cap K = {}
       /\ StockFields \cap K = {} /\ RecordFields \cap K = {} /\ EndFields \cap K = {}
  BY DEF PolicyFields, PriceFields, LoanFields, StockFields, RecordFields, EndFields
<1> HIDE DEF K
<1>16. /\ PolicyOk(y.v) /\ PriceOk(y.v) /\ LoanOk(y.v) /\ StockOk(y.v) /\ RecordOk(y.v) /\ EndOk(y.v, y.core)
       /\ CoreOk(y.core) /\ Kept(y.v, w.v)
  BY <1>5, <1>2, <1>15, SoundFrame
<1>17. Keeps(y, w)
  BY <1>5, <1>2, <1>8, <1>12, <1>13, <1>14, <1>16 DEF Sound, Keeps
<1> QED BY <1>5, <1>2, <1>17 DEF y, K

\* Rewards are paid to their holder, never more than is there and promised to no pocket.
LEMMA RewardPaidKeeps ==
  ASSUME NEW w, Sound(w), NEW h \in Holders, NEW amount \in Nat,
         amount <= w.v.owed[h], amount <= RewardsAvailable(w)
  PROVE  LET y == RewardPaid(w, h, amount)
         IN  Keeps(y, w) /\ Same(y.v, w.v, Fields \ {"owed", "accounted", "liability"})
<1> DEFINE y == RewardPaid(w, h, amount)
           V == w.v
           X == y.v
           H == w.held
           G == y.held
           K == {"owed", "accounted", "liability"}
<1>1. RewardPaidWrote(y, w, h, amount)
  BY SoundShape, RewardPaidDoes
<1> HIDE DEF y
<1>2. /\ Shape(y) /\ y.core = w.core /\ G = [H EXCEPT !["SGAGE"] = H["SGAGE"] - amount]
      /\ X.owed = [V.owed EXCEPT ![h] = V.owed[h] - amount]
      /\ X.accounted = V.accounted - amount /\ X.liability = V.liability - amount
      /\ Same(X, V, Fields \ K)
  BY <1>1 DEF RewardPaidWrote
<1>3. /\ RewardOk(V, w.core, H) /\ PromiseOk(V, H) /\ StockOk(V) /\ CoreOk(w.core)
      /\ V.liability <= V.accounted /\ Unsettled(V) \in Nat /\ V.liability \in Nat /\ V.accounted \in Nat
  BY LiabilityCovered DEF Sound
<1>4. /\ amount <= V.owed[h] /\ amount <= Over(H["SGAGE"], V.pocketLiability["SGAGE"] + V.orphan)
  BY DEF RewardsAvailable
<1>5. w.v = V /\ y.v = X /\ w.held = H /\ y.held = G
  OBVIOUS
<1> HIDE DEF V, X, H, G
<1>6. /\ X.accPerShare = V.accPerShare /\ X.orphan = V.orphan /\ X.observed = V.observed
      /\ X.index = V.index /\ X.balance = V.balance /\ X.supply = V.supply
      /\ X.pocketLiability = V.pocketLiability
  BY <1>2 DEF Same, Fields, K
<1>7. /\ V.owed \in [Holders -> Nat] /\ V.liability = SumHolders(V.owed) /\ RewardTypes(V)
      /\ V.orphan \in Nat /\ V.pocketLiability \in [Tokens -> Nat] /\ H \in [Tokens -> Nat]
      /\ \A t \in Tokens : V.pocketLiability[t] <= H[t]
  BY <1>3 DEF RewardOk, RewardCore, RewardTypes, PromiseOk
<1>8. V.owed[h] <= V.liability /\ amount <= V.liability /\ amount <= V.accounted
  <2>1. V.owed[h] \in Nat /\ V.owed[h] <= SumHolders(V.owed)
    BY <1>7, Parameters, SumCovers DEF SumHolders, SumOver
  <2> QED BY <1>3, <1>4, <1>7, <2>1
<1>9. /\ V.pocketLiability["SGAGE"] \in Nat /\ H["SGAGE"] \in Nat
      /\ V.pocketLiability["SGAGE"] <= H["SGAGE"] - amount /\ H["SGAGE"] - amount \in Nat
  <2>1. V.pocketLiability["SGAGE"] \in Nat /\ H["SGAGE"] \in Nat /\ V.pocketLiability["SGAGE"] <= H["SGAGE"]
    BY <1>7, Parameters
  <2> QED BY <1>4, <1>7, <2>1 DEF Over
<1>10. /\ G \in [Tokens -> Nat] /\ G["SGAGE"] = H["SGAGE"] - amount /\ \A t \in Tokens \ {"SGAGE"} : G[t] = H[t]
  <2> DEFINE s == "SGAGE"
  <2>1. s \in Tokens /\ H[s] - amount \in Nat /\ H \in [Tokens -> Nat] /\ G = [H EXCEPT ![s] = H[s] - amount]
    BY <1>2, <1>7, <1>9, Parameters
  <2> HIDE DEF s
  <2>2. /\ G \in [Tokens -> Nat] /\ G[s] = H[s] - amount /\ \A t \in Tokens \ {s} : G[t] = H[t]
    BY ONLY <2>1
  <2> QED BY <2>2 DEF s
<1>11. PromiseOk(X, G)
  <2>1. \A t \in Tokens : V.pocketLiability[t] <= G[t]
    BY <1>7, <1>9, <1>10
  <2> QED BY <1>6, <1>7, <1>10, <2>1 DEF PromiseOk
<1>12. X.owed \in [Holders -> Nat] /\ X.liability = SumHolders(X.owed)
  <2> DEFINE f == V.owed
             g == X.owed
             n == 0 - amount
  <2>1. V.owed[h] \in Nat /\ V.owed[h] - amount \in Nat
    BY <1>4, <1>7
  <2>2. g \in [Holders -> Nat] /\ (\A x \in Holders \ {h} : g[x] = f[x]) /\ g[h] = f[h] + n /\ n \in Int
    BY <1>2, <1>7, <2>1
  <2>3. \A x \in Holders : f[x] \in Int /\ g[x] \in Int
    BY <1>7, <2>2
  <2> HIDE DEF f, g, n
  <2>4. SumHolders(g) = SumHolders(f) + n
    BY <2>2, <2>3, HoldersMoved
  <2> QED BY <1>2, <1>3, <1>7, <2>2, <2>4 DEF f, g, n
<1>13. RewardCore(X)
  <2>1. Unsettled(X) = Unsettled(V)
    BY <1>6 DEF Unsettled
  <2>2. X.accounted \in Nat /\ X.liability \in Nat
    BY <1>2, <1>3, <1>8
  <2>3. RewardTypes(X)
    BY <1>6, <1>7, <1>12, <2>2 DEF RewardTypes
  <2> DEFINE P == REWARD_PRECISION
             l == V.liability
             a == V.accounted
             u == Unsettled(V)
  <2>4. P \in Nat /\ l \in Nat /\ a \in Nat /\ u \in Nat /\ P * l + u <= P * a
    BY <1>3, Parameters DEF RewardOk, RewardCore
  <2> HIDE DEF P, l, a, u
  <2>5. P * (l - amount) = P * l - P * amount /\ P * (a - amount) = P * a - P * amount
        /\ P * l \in Nat /\ P * a \in Nat /\ P * amount \in Nat
    BY <2>4
  <2>6. P * (l - amount) + u <= P * (a - amount)
    BY <2>4, <2>5
  <2>7. REWARD_PRECISION * X.liability + Unsettled(X) <= REWARD_PRECISION * X.accounted
    BY <1>2, <2>1, <2>6 DEF P, l, a, u
  <2> QED BY <1>12, <2>3, <2>7 DEF RewardCore
<1>14. RewardOk(X, y.core, G)
  <2>1. Announced(X, w.core) = Announced(V, w.core) /\ Announced(V, w.core) \in Nat
    <3>1. Announced(X, w.core) = Announced(V, w.core)
      BY <1>6 DEF Announced
    <3>2. Announced(V, w.core) \in Nat
      BY <1>5, AnnouncedNat
    <3> QED BY <3>1, <3>2
  <2>2. V.accounted + V.orphan + V.pocketLiability["SGAGE"] <= H["SGAGE"] + Announced(V, w.core)
    BY <1>3 DEF RewardOk
  <2>3. X.accounted + X.orphan + X.pocketLiability["SGAGE"] <= G["SGAGE"] + Announced(V, w.core)
    BY <1>2, <1>3, <1>6, <1>7, <1>9, <1>10, <2>1, <2>2
  <2> QED BY <1>2, <1>13, <2>1, <2>3 DEF RewardOk
<1>15. /\ PolicyFields \cap K = {} /\ MoneyFields \cap K = {} /\ PriceFields \cap K = {} /\ LoanFields \cap K = {}
       /\ StockFields \cap K = {} /\ RecordFields \cap K = {} /\ PocketFields \cap K = {} /\ EndFields \cap K = {}
  BY DEF PolicyFields, MoneyFields, PriceFields, LoanFields, StockFields, RecordFields, PocketFields, EndFields
<1> HIDE DEF K
<1>16. y.held["USDG"] = w.held["USDG"]
  <2>1. "USDG" \in Tokens \ {"SGAGE"}
    BY Parameters
  <2> QED BY <1>5, <1>10, <2>1
<1>17. /\ PolicyOk(y.v) /\ MoneyOk(y.v, y.held) /\ PriceOk(y.v) /\ LoanOk(y.v) /\ StockOk(y.v) /\ RecordOk(y.v)
       /\ PocketOk(y.v) /\ EndOk(y.v, y.core) /\ CoreOk(y.core) /\ Kept(y.v, w.v)
  <2>1. Sound(w) /\ Same(y.v, w.v, Fields \ K) /\ y.core = w.core /\ y.core.deal = w.core.deal
    BY <1>5, <1>2
  <2> QED BY ONLY <2>1, <1>15, <1>16, SoundFrame
<1>18. Keeps(y, w)
  BY <1>5, <1>2, <1>11, <1>14, <1>17 DEF Sound, Keeps
<1> QED BY <1>5, <1>2, <1>18 DEF y, K

(***************************************************************************)
(* The reserve, the fees and the settings.                                 *)
(***************************************************************************)
\* Cash on its way into the reserve is claimed by nobody.
LEMMA InvestedKeeps ==
  ASSUME NEW w, Sound(w), NEW assets \in Nat, assets <= w.v.cash, NEW shares \in Nat
  PROVE  LET y == Invested(w, assets, shares)
         IN  /\ Keeps(y, w)
             /\ y.core = w.core
             /\ y.held = w.held
             /\ Claims(y.v) + assets <= y.held["USDG"]
             /\ assets \in Nat
             /\ Same(y.v, w.v, Fields \ {"cash", "reserveShares"})
<1> DEFINE y == Invested(w, assets, shares)
           V == w.v
           X == y.v
<1>1. InvestedWrote(y, w, assets, shares)
  BY SoundShape, InvestedDoes
<1> HIDE DEF y
<1>2. /\ Shape(y) /\ y.core = w.core /\ y.held = w.held
      /\ X.cash = V.cash - assets
      /\ X.reserveShares = V.reserveShares + shares
      /\ Same(X, V, Fields \ {"cash", "reserveShares"})
  BY <1>1 DEF InvestedWrote
<1>3. MoneyOk(V, w.held) /\ PromiseOk(V, w.held) /\ w.held \in [Tokens -> Nat] /\ PriceOk(V) /\ CoreOk(w.core)
  BY DEF Sound, PromiseOk
<1>4. /\ V.cash \in Nat /\ V.feeAccrued \in Nat /\ V.harvested \in Nat /\ V.assigned \in Nat
      /\ V.claimableTotal \in Nat /\ V.pocketLiability["USDG"] \in Nat /\ Claims(V) <= w.held["USDG"]
      /\ w.held["USDG"] \in Nat /\ V.reserveShares \in Nat
  BY <1>3, ClaimsCover DEF PriceOk
<1>5. /\ X.feeAccrued = V.feeAccrued /\ X.harvested = V.harvested /\ X.assigned = V.assigned
      /\ X.claimable = V.claimable /\ X.claimableTotal = V.claimableTotal /\ X.pocketLiability = V.pocketLiability
      /\ X.lockedProfit = V.lockedProfit /\ X.unlockStart = V.unlockStart /\ X.unlockEnd = V.unlockEnd
      /\ X.highWater = V.highWater
  BY <1>2 DEF Same, Fields
<1>6. Claims(X) + assets <= w.held["USDG"] /\ Claims(X) <= w.held["USDG"] /\ assets \in Nat
  <2>1. Claims(X) = Claims(V) - assets /\ Claims(V) \in Int /\ assets \in Nat
    BY <1>2, <1>4, <1>5 DEF Claims
  <2> QED BY <1>4, <2>1
<1>7. MoneyOk(X, y.held) /\ PriceOk(X)
  BY <1>2, <1>3, <1>4, <1>5, <1>6 DEF MoneyOk, PriceOk
<1>8. Same(X, V, Fields \ CashFields)
  BY <1>2 DEF Same, CashFields
<1>9. Keeps(y, w)
  BY <1>2, <1>3, <1>7, <1>8, CashFrame DEF CoreOk
<1> QED BY <1>2, <1>6, <1>9 DEF y

\* Shares of the reserve are given back.
LEMMA DivestedKeeps ==
  ASSUME NEW w, Sound(w), NEW shares \in Nat, shares <= w.v.reserveShares
  PROVE  LET y == Divested(w, shares)
         IN  /\ Keeps(y, w)
             /\ y.core = w.core
             /\ y.held = w.held
             /\ Same(y.v, w.v, Fields \ {"reserveShares"})
<1> DEFINE y == Divested(w, shares)
           V == w.v
           X == y.v
<1>1. DivestedWrote(y, w, shares)
  BY SoundShape, DivestedDoes
<1> HIDE DEF y
<1>2. /\ Shape(y) /\ y.core = w.core /\ y.held = w.held
      /\ X.reserveShares = V.reserveShares - shares
      /\ Same(X, V, Fields \ {"reserveShares"})
  BY <1>1 DEF DivestedWrote
<1>3. MoneyOk(V, w.held) /\ PromiseOk(V, w.held) /\ w.held \in [Tokens -> Nat] /\ PriceOk(V) /\ CoreOk(w.core)
  BY DEF Sound, PromiseOk
<1>4. /\ V.cash \in Nat /\ V.feeAccrued \in Nat /\ V.harvested \in Nat /\ V.assigned \in Nat
      /\ V.claimableTotal \in Nat /\ V.pocketLiability["USDG"] \in Nat /\ Claims(V) <= w.held["USDG"]
      /\ w.held["USDG"] \in Nat /\ V.reserveShares \in Nat
  BY <1>3, ClaimsCover DEF PriceOk
<1>5. /\ X.feeAccrued = V.feeAccrued /\ X.harvested = V.harvested /\ X.assigned = V.assigned
      /\ X.claimable = V.claimable /\ X.claimableTotal = V.claimableTotal /\ X.pocketLiability = V.pocketLiability
      /\ X.cash = V.cash /\ X.lockedProfit = V.lockedProfit /\ X.unlockStart = V.unlockStart
      /\ X.unlockEnd = V.unlockEnd /\ X.highWater = V.highWater
  BY <1>2 DEF Same, Fields
<1>6. Claims(X) <= w.held["USDG"]
  BY <1>4, <1>5 DEF Claims
<1>7. MoneyOk(X, y.held) /\ PriceOk(X)
  BY <1>2, <1>3, <1>4, <1>5, <1>6 DEF MoneyOk, PriceOk
<1>8. Same(X, V, Fields \ CashFields)
  BY <1>2 DEF Same, CashFields
<1>9. Keeps(y, w)
  BY <1>2, <1>3, <1>7, <1>8, CashFrame DEF CoreOk
<1> QED BY <1>2, <1>6, <1>9 DEF y

\* Fees on their way to the companion are claimed by nobody else.
LEMMA FeesTakenKeeps ==
  ASSUME NEW w, Sound(w)
  PROVE  LET y == FeesTaken(w)
         IN  /\ Keeps(y, w)
             /\ y.core = w.core
             /\ y.held = w.held
             /\ Claims(y.v) + w.v.feeAccrued <= y.held["USDG"]
             /\ w.v.feeAccrued \in Nat
             /\ Same(y.v, w.v, Fields \ {"feeAccrued"})
<1> DEFINE y == FeesTaken(w)
           V == w.v
           X == y.v
<1>1. FeesTakenWrote(y, w)
  BY SoundShape, FeesTakenDoes
<1> HIDE DEF y
<1>2. /\ Shape(y) /\ y.core = w.core /\ y.held = w.held
      /\ X.feeAccrued = 0
      /\ Same(X, V, Fields \ {"feeAccrued"})
  BY <1>1 DEF FeesTakenWrote
<1>3. MoneyOk(V, w.held) /\ PromiseOk(V, w.held) /\ w.held \in [Tokens -> Nat] /\ PriceOk(V) /\ CoreOk(w.core)
  BY DEF Sound, PromiseOk
<1>4. /\ V.cash \in Nat /\ V.feeAccrued \in Nat /\ V.harvested \in Nat /\ V.assigned \in Nat
      /\ V.claimableTotal \in Nat /\ V.pocketLiability["USDG"] \in Nat /\ Claims(V) <= w.held["USDG"]
      /\ w.held["USDG"] \in Nat /\ V.reserveShares \in Nat
  BY <1>3, ClaimsCover DEF PriceOk
<1>5. /\ X.harvested = V.harvested /\ X.assigned = V.assigned /\ X.claimable = V.claimable
      /\ X.claimableTotal = V.claimableTotal /\ X.pocketLiability = V.pocketLiability /\ X.cash = V.cash
      /\ X.lockedProfit = V.lockedProfit /\ X.unlockStart = V.unlockStart /\ X.unlockEnd = V.unlockEnd
      /\ X.highWater = V.highWater /\ X.reserveShares = V.reserveShares
  BY <1>2 DEF Same, Fields
<1>6. Claims(X) + w.v.feeAccrued <= w.held["USDG"] /\ Claims(X) <= w.held["USDG"] /\ w.v.feeAccrued \in Nat
  <2>1. Claims(X) = Claims(V) - w.v.feeAccrued /\ Claims(V) \in Int /\ w.v.feeAccrued \in Nat
    BY <1>2, <1>4, <1>5 DEF Claims
  <2> QED BY <1>4, <2>1
<1>7. MoneyOk(X, y.held) /\ PriceOk(X)
  BY <1>2, <1>3, <1>4, <1>5, <1>6 DEF MoneyOk, PriceOk
<1>8. Same(X, V, Fields \ CashFields)
  BY <1>2 DEF Same, CashFields
<1>9. Keeps(y, w)
  BY <1>2, <1>3, <1>7, <1>8, CashFrame DEF CoreOk
<1> QED BY <1>2, <1>6, <1>9 DEF y

\* A step that writes the curator's settings and approvals only.
LEMMA PolicyOnly ==
  ASSUME NEW w, Sound(w), NEW y, Shape(y), y.core = w.core, y.held = w.held,
         Same(y.v, w.v, Fields \ PolicyFields), PolicyOk(y.v)
  PROVE  Keeps(y, w)
<1> DEFINE K == PolicyFields
<1>1. /\ MoneyFields \cap K = {} /\ PromiseFields \cap K = {} /\ RewardFields \cap K = {}
      /\ PriceFields \cap K = {} /\ LoanFields \cap K = {} /\ StockFields \cap K = {}
      /\ RecordFields \cap K = {} /\ PocketFields \cap K = {} /\ EndFields \cap K = {}
  BY DEF PolicyFields, MoneyFields, PromiseFields, RewardFields, PriceFields, LoanFields, StockFields,
         RecordFields, PocketFields, EndFields
<1>2. Same(y.v, w.v, Fields \ K) /\ y.held["USDG"] = w.held["USDG"] /\ y.held["SGAGE"] = w.held["SGAGE"]
      /\ y.core.deal = w.core.deal /\ y.core.reward = w.core.reward /\ y.core = w.core /\ y.held = w.held
  OBVIOUS
<1> HIDE DEF K
<1>3. /\ MoneyOk(y.v, y.held) /\ PromiseOk(y.v, y.held) /\ RewardOk(y.v, y.core, y.held)
      /\ PriceOk(y.v) /\ LoanOk(y.v) /\ StockOk(y.v) /\ RecordOk(y.v) /\ PocketOk(y.v)
      /\ EndOk(y.v, y.core) /\ CoreOk(y.core) /\ Kept(y.v, w.v)
  BY <1>1, <1>2, SoundFrame
<1> QED BY <1>3 DEF Sound, Keeps

\* What an approval counts for in the total: its principal, in the epoch it was given in.
ApprovalType == [validUntil : Nat, principal : Nat, epoch : Nat, units : 0 .. UNITS]
InForce(V) == [d \in Deals |-> IF V.approvals[d].epoch = V.epoch THEN V.approvals[d].principal ELSE 0]

\* The approvals of the epoch add up to what the approvals in force count for.
LEMMA InForceSum ==
  ASSUME NEW V, V.approvals \in [Deals -> ApprovalType]
  PROVE  /\ SumOver({d \in Deals : V.approvals[d].epoch = V.epoch}, [d \in Deals |-> V.approvals[d].principal])
              = SumOver(Deals, InForce(V))
         /\ \A d \in Deals : InForce(V)[d] \in Nat
<1> DEFINE T == {d \in Deals : V.approvals[d].epoch = V.epoch}
           f == [d \in Deals |-> V.approvals[d].principal]
           g == InForce(V)
<1>1. \A d \in Deals : f[d] \in Nat /\ g[d] \in Nat
  <2>1. \A d \in Deals : V.approvals[d].principal \in Nat
    BY DEF ApprovalType
  <2> QED BY <2>1 DEF InForce
<1>2. (\A d \in T : f[d] = g[d]) /\ (\A d \in Deals \ T : g[d] = 0)
  BY DEF InForce
<1>3. IsFiniteSet(Deals) /\ T \in SUBSET Deals
  BY Parameters
<1> HIDE DEF T, f, g
<1>4. IsFiniteSet(T)
  BY <1>3, FS_Subset
<1>5. SumFunctionOnSet(f, T) = SumFunctionOnSet(g, T)
  BY <1>2, <1>4, SumSame
<1>6. \A d \in Deals : g[d] \in Int
  BY <1>1
<1>7. SumFunctionOnSet(g, Deals) = SumFunctionOnSet(g, T)
  BY <1>2, <1>3, <1>6, SumPad
<1>8. SumOver(T, f) = SumOver(Deals, g)
  BY <1>5, <1>7 DEF SumOver
<1> QED BY <1>1, <1>8 DEF T, f, g

\* When one listing's part of the total moves, the total moves by as much.
LEMMA InForceMoved ==
  ASSUME NEW V, NEW X, V.approvals \in [Deals -> ApprovalType], X.approvals \in [Deals -> ApprovalType],
         NEW d \in Deals, NEW n \in Int, \A e \in Deals \ {d} : InForce(X)[e] = InForce(V)[e],
         InForce(X)[d] = InForce(V)[d] + n
  PROVE  SumOver(Deals, InForce(X)) = SumOver(Deals, InForce(V)) + n
<1> DEFINE f == InForce(V)
           g == InForce(X)
<1>1. /\ IsFiniteSet(Deals) /\ (\A e \in Deals : f[e] \in Int /\ g[e] \in Int)
      /\ (\A e \in Deals \ {d} : g[e] = f[e]) /\ g[d] = f[d] + n
  <2>1. (\A e \in Deals : f[e] \in Nat) /\ (\A e \in Deals : g[e] \in Nat)
    BY InForceSum
  <2>2. IsFiniteSet(Deals)
    BY Parameters
  <2>3. (\A e \in Deals \ {d} : g[e] = f[e]) /\ g[d] = f[d] + n
    OBVIOUS
  <2> HIDE DEF f, g
  <2> QED BY <2>1, <2>2, <2>3
<1> HIDE DEF f, g
<1>2. SumOver(Deals, g) = SumOver(Deals, f) + n
  BY ONLY <1>1, n \in Int, d \in Deals, SumMoved DEF SumOver
<1> QED BY <1>2 DEF f, g

\* The curator weighs a lane.
LEMMA WeighedKeeps ==
  ASSUME NEW w, Sound(w), NEW lane \in Lanes, NEW bps \in 0 .. BPS
  PROVE  Keeps(Weighed(w, lane, bps), w) /\ Same(Weighed(w, lane, bps).v, w.v, Fields \ {"weight"})
<1> DEFINE y == Weighed(w, lane, bps)
           V == w.v
           X == y.v
<1>1. WeighedWrote(y, w, lane, bps)
  BY SoundShape, WeighedDoes
<1> HIDE DEF y
<1>2. /\ Shape(y) /\ y.core = w.core /\ y.held = w.held
      /\ X.weight = [V.weight EXCEPT ![lane] = bps]
      /\ Same(X, V, Fields \ {"weight"})
  BY <1>1 DEF WeighedWrote
<1>3. PolicyOk(V)
  BY DEF Sound
<1>4. /\ X.paused = V.paused /\ X.feeBps = V.feeBps /\ X.cap = V.cap
      /\ X.epoch = V.epoch /\ X.approvedPrincipal = V.approvedPrincipal /\ X.approvals = V.approvals
  BY <1>2 DEF Same, Fields
<1>5. X.weight \in [Lanes -> 0 .. BPS]
  BY <1>2, <1>3 DEF PolicyOk
<1>6. PolicyOk(X)
  BY <1>3, <1>4, <1>5 DEF PolicyOk
<1>7. Same(X, V, Fields \ PolicyFields)
  BY <1>2 DEF Same, PolicyFields
<1>8. Keeps(y, w)
  BY <1>2, <1>6, <1>7, PolicyOnly
<1> QED BY <1>2, <1>8 DEF y

\* The curator caps the deposits.
LEMMA CappedKeeps ==
  ASSUME NEW w, Sound(w), NEW cap \in Nat
  PROVE  Keeps(Capped(w, cap), w) /\ Same(Capped(w, cap).v, w.v, Fields \ {"cap"})
<1> DEFINE y == Capped(w, cap)
           V == w.v
           X == y.v
<1>1. CappedWrote(y, w, cap)
  BY SoundShape, CappedDoes
<1> HIDE DEF y
<1>2. /\ Shape(y) /\ y.core = w.core /\ y.held = w.held
      /\ X.cap = cap
      /\ Same(X, V, Fields \ {"cap"})
  BY <1>1 DEF CappedWrote
<1>3. PolicyOk(V)
  BY DEF Sound
<1>4. /\ X.paused = V.paused /\ X.feeBps = V.feeBps /\ X.weight = V.weight
      /\ X.epoch = V.epoch /\ X.approvedPrincipal = V.approvedPrincipal /\ X.approvals = V.approvals
  BY <1>2 DEF Same, Fields
<1>5. PolicyOk(X)
  BY <1>2, <1>3, <1>4 DEF PolicyOk
<1>6. Same(X, V, Fields \ PolicyFields)
  BY <1>2 DEF Same, PolicyFields
<1>7. Keeps(y, w)
  BY <1>2, <1>5, <1>6, PolicyOnly
<1> QED BY <1>2, <1>7 DEF y

\* The curator sets the fee of the loans to come.
LEMMA ChargedKeeps ==
  ASSUME NEW w, Sound(w), NEW bps \in 0 .. BPS
  PROVE  Keeps(Charged(w, bps), w) /\ Same(Charged(w, bps).v, w.v, Fields \ {"feeBps"})
<1> DEFINE y == Charged(w, bps)
           V == w.v
           X == y.v
<1>1. ChargedWrote(y, w, bps)
  BY SoundShape, ChargedDoes
<1> HIDE DEF y
<1>2. /\ Shape(y) /\ y.core = w.core /\ y.held = w.held
      /\ X.feeBps = bps
      /\ Same(X, V, Fields \ {"feeBps"})
  BY <1>1 DEF ChargedWrote
<1>3. PolicyOk(V)
  BY DEF Sound
<1>4. /\ X.paused = V.paused /\ X.weight = V.weight /\ X.cap = V.cap
      /\ X.epoch = V.epoch /\ X.approvedPrincipal = V.approvedPrincipal /\ X.approvals = V.approvals
  BY <1>2 DEF Same, Fields
<1>5. PolicyOk(X)
  BY <1>2, <1>3, <1>4 DEF PolicyOk
<1>6. Same(X, V, Fields \ PolicyFields)
  BY <1>2 DEF Same, PolicyFields
<1>7. Keeps(y, w)
  BY <1>2, <1>5, <1>6, PolicyOnly
<1> QED BY <1>2, <1>7 DEF y

\* A pause, and its end, leave no approval in force.
LEMMA HaltedKeeps ==
  ASSUME NEW w, Sound(w), NEW enabled \in BOOLEAN
  PROVE  Keeps(Halted(w, enabled), w) /\ Same(Halted(w, enabled).v, w.v, Fields \ {"paused", "epoch", "approvedPrincipal"})
<1> DEFINE y == Halted(w, enabled)
           V == w.v
           X == y.v
<1>1. HaltedWrote(y, w, enabled)
  BY SoundShape, HaltedDoes
<1> HIDE DEF y
<1>2. /\ Shape(y) /\ y.core = w.core /\ y.held = w.held
      /\ X.paused = enabled
      /\ X.epoch = V.epoch + 1
      /\ X.approvedPrincipal = 0
      /\ Same(X, V, Fields \ {"paused", "epoch", "approvedPrincipal"})
  BY <1>1 DEF HaltedWrote
<1>3. PolicyOk(V)
  BY DEF Sound
<1>4. X.feeBps = V.feeBps /\ X.weight = V.weight /\ X.cap = V.cap /\ X.approvals = V.approvals
  BY <1>2 DEF Same, Fields
<1>5. V.epoch \in Nat /\ V.approvals \in [Deals -> ApprovalType] /\ \A d \in Deals : V.approvals[d].epoch <= V.epoch
  BY <1>3 DEF PolicyOk, ApprovalType
<1>6. ASSUME NEW d \in Deals PROVE X.approvals[d].epoch < X.epoch /\ X.approvals[d].epoch \in Nat /\ X.epoch \in Nat
  <2>1. V.approvals[d].epoch \in Nat /\ V.approvals[d].epoch <= V.epoch
    BY <1>5 DEF ApprovalType
  <2> QED BY <1>2, <1>4, <1>5, <2>1
<1>7. {d \in Deals : X.approvals[d].epoch = X.epoch} = {}
  BY <1>6
<1>8. 0 = SumOver({d \in Deals : X.approvals[d].epoch = X.epoch}, [d \in Deals |-> X.approvals[d].principal])
  <2> DEFINE f == [d \in Deals |-> X.approvals[d].principal]
  <2>1. SumOver({}, f) = 0
    BY SumEmpty DEF SumOver
  <2> QED BY <1>7, <2>1
<1>9. \A d \in Deals : X.approvals[d].epoch <= X.epoch
  BY <1>6
<1>10. PolicyOk(X)
  BY <1>2, <1>3, <1>4, <1>5, <1>8, <1>9 DEF PolicyOk
<1>11. Same(X, V, Fields \ PolicyFields)
  BY <1>2 DEF Same, PolicyFields
<1>12. Keeps(y, w)
  BY <1>2, <1>10, <1>11, PolicyOnly
<1> QED BY <1>2, <1>12 DEF y

\* An approval that is taken back leaves the total if it was in it.
LEMMA RevokeKeeps ==
  ASSUME NEW w, Sound(w), NEW d \in Deals
  PROVE  Keeps(Revoke(w, d), w) /\ Same(Revoke(w, d).v, w.v, Fields \ {"approvals", "approvedPrincipal"})
<1> DEFINE y == Revoke(w, d)
           V == w.v
           X == y.v
<1>1. RevokeWrote(y, w, d)
  BY SoundShape, RevokeDoes
<1> HIDE DEF y
<1>2. /\ Shape(y) /\ y.core = w.core /\ y.held = w.held
      /\ X.approvals = [V.approvals EXCEPT ![d] = NoApproval]
      /\ X.approvedPrincipal = IF V.approvals[d].epoch = V.epoch THEN V.approvedPrincipal - V.approvals[d].principal
           ELSE V.approvedPrincipal
      /\ Same(X, V, Fields \ {"approvals", "approvedPrincipal"})
  BY <1>1 DEF RevokeWrote
<1>3. PolicyOk(V)
  BY DEF Sound
<1>4. /\ X.paused = V.paused /\ X.feeBps = V.feeBps /\ X.weight = V.weight /\ X.cap = V.cap /\ X.epoch = V.epoch
  BY <1>2 DEF Same, Fields
<1>5. /\ V.epoch \in Nat /\ V.approvals \in [Deals -> ApprovalType] /\ \A e \in Deals : V.approvals[e].epoch <= V.epoch
       /\ V.approvedPrincipal = SumOver(Deals, InForce(V))
  BY <1>3, InForceSum DEF PolicyOk, ApprovalType
<1>6. NoApproval \in ApprovalType /\ NoApproval.principal = 0 /\ NoApproval.epoch = 0
  BY DEF NoApproval, ApprovalType, UNITS
<1>7. w.v = V /\ y.v = X
  OBVIOUS
<1> HIDE DEF V, X
<1>8. /\ X.approvals \in [Deals -> ApprovalType] /\ X.approvals[d] = NoApproval
       /\ \A e \in Deals \ {d} : X.approvals[e] = V.approvals[e]
  BY <1>2, <1>5, <1>6
<1> DEFINE n == 0 - InForce(V)[d]
<1>9. /\ InForce(V)[d] = (IF V.approvals[d].epoch = V.epoch THEN V.approvals[d].principal ELSE 0)
       /\ InForce(V)[d] \in Nat
       /\ InForce(X)[d] = 0 /\ \A e \in Deals \ {d} : InForce(X)[e] = InForce(V)[e]
  <2>1. InForce(V)[d] = (IF V.approvals[d].epoch = V.epoch THEN V.approvals[d].principal ELSE 0)
    BY DEF InForce
  <2>2. InForce(V)[d] \in Nat
    BY <1>5, InForceSum
  <2>3. InForce(X)[d] = 0
    BY <1>6, <1>8 DEF InForce
  <2>4. \A e \in Deals \ {d} : InForce(X)[e] = InForce(V)[e]
    BY <1>4, <1>8 DEF InForce
  <2> QED BY <2>1, <2>2, <2>3, <2>4
<1>10. n \in Int /\ InForce(X)[d] = InForce(V)[d] + n
  BY <1>9
<1>11. SumOver(Deals, InForce(X)) = SumOver(Deals, InForce(V)) + n
  <2> HIDE DEF n
  <2> QED BY <1>5, <1>8, <1>9, <1>10, InForceMoved
<1>12. X.approvedPrincipal = SumOver(Deals, InForce(X))
  <2>1. SumOver(Deals, InForce(V)) \in Nat
    BY <1>5, InForceSum, DealsNat
  <2> QED BY <1>2, <1>5, <1>9, <1>11, <2>1
<1>13. \A e \in Deals : X.approvals[e].epoch <= X.epoch
  BY <1>4, <1>5, <1>6, <1>8
<1>14. PolicyOk(X)
  BY <1>3, <1>4, <1>8, <1>12, <1>13, InForceSum DEF PolicyOk, ApprovalType
<1>15. Same(X, V, Fields \ PolicyFields)
  BY <1>2 DEF Same, PolicyFields
<1>16. Keeps(y, w)
  BY <1>7, <1>2, <1>14, <1>15, PolicyOnly
<1> QED BY <1>7, <1>2, <1>16 DEF y

\* An approval of this epoch enters the total, where none of its listing was.
LEMMA ApprovedKeeps ==
  ASSUME NEW w, Sound(w), NEW d \in Deals, w.v.approvals[d] = NoApproval,
         NEW principal, NEW approval \in ApprovalType, approval.epoch = w.v.epoch, approval.principal = principal
  PROVE  Keeps(Approved(w, d, principal, approval), w)
<1> DEFINE y == Approved(w, d, principal, approval)
           V == w.v
           X == y.v
<1>1. ApprovedWrote(y, w, d, principal, approval)
  BY SoundShape, ApprovedDoes
<1> HIDE DEF y
<1>2. /\ Shape(y) /\ y.core = w.core /\ y.held = w.held
      /\ X.approvals = [V.approvals EXCEPT ![d] = approval]
      /\ X.approvedPrincipal = V.approvedPrincipal + principal
      /\ Same(X, V, Fields \ {"approvals", "approvedPrincipal"})
  BY <1>1 DEF ApprovedWrote
<1>3. PolicyOk(V)
  BY DEF Sound
<1>4. /\ X.paused = V.paused /\ X.feeBps = V.feeBps /\ X.weight = V.weight /\ X.cap = V.cap /\ X.epoch = V.epoch
  BY <1>2 DEF Same, Fields
<1>5. /\ V.epoch \in Nat /\ V.approvals \in [Deals -> ApprovalType] /\ \A e \in Deals : V.approvals[e].epoch <= V.epoch
       /\ V.approvedPrincipal = SumOver(Deals, InForce(V))
  BY <1>3, InForceSum DEF PolicyOk, ApprovalType
<1>6. /\ NoApproval.principal = 0 /\ V.approvals[d] = NoApproval /\ approval.epoch = V.epoch
       /\ approval.principal = principal /\ principal \in Nat
  BY DEF NoApproval, ApprovalType
<1>7. w.v = V /\ y.v = X
  OBVIOUS
<1> HIDE DEF V, X
<1>8. /\ X.approvals \in [Deals -> ApprovalType] /\ X.approvals[d] = approval
       /\ \A e \in Deals \ {d} : X.approvals[e] = V.approvals[e]
  BY <1>2, <1>5
<1>9. /\ InForce(V)[d] = 0 /\ InForce(X)[d] = principal /\ \A e \in Deals \ {d} : InForce(X)[e] = InForce(V)[e]
  <2>1. InForce(V)[d] = 0
    BY <1>6 DEF InForce
  <2>2. InForce(X)[d] = principal
    BY <1>4, <1>6, <1>8 DEF InForce
  <2>3. \A e \in Deals \ {d} : InForce(X)[e] = InForce(V)[e]
    BY <1>4, <1>8 DEF InForce
  <2> QED BY <2>1, <2>2, <2>3
<1>10. principal \in Int /\ InForce(X)[d] = InForce(V)[d] + principal
  BY <1>6, <1>9
<1>11. SumOver(Deals, InForce(X)) = SumOver(Deals, InForce(V)) + principal
  BY <1>5, <1>8, <1>9, <1>10, InForceMoved
<1>12. \A e \in Deals : X.approvals[e].epoch <= X.epoch
  BY <1>4, <1>5, <1>6, <1>8
<1>13. PolicyOk(X)
  BY <1>2, <1>3, <1>4, <1>5, <1>8, <1>11, <1>12, InForceSum DEF PolicyOk, ApprovalType
<1>14. Same(X, V, Fields \ PolicyFields)
  BY <1>2 DEF Same, PolicyFields
<1>15. Keeps(y, w)
  BY <1>7, <1>2, <1>13, <1>14, PolicyOnly
<1> QED BY <1>15 DEF y

(***************************************************************************)
(* What others do at the loan engine, and what donors give.                *)
(***************************************************************************)
\* The engine records something new of a listing that the strategy has not retired.
DealWritten(y, w, d, new) ==
  /\ Shape(y) /\ y.v = w.v /\ y.held = w.held
  /\ y.core.deal = [w.core.deal EXCEPT ![d] = new]
  /\ y.core.reward = w.core.reward /\ y.core.credit \in Nat

\* What the engine records of a listing not retired leaves the books in order.
LEMMA DealFrame ==
  ASSUME NEW w, Sound(w), NEW d \in Deals, d \notin w.v.terminal \ w.v.withdrawn, NEW new \in DealType,
         NEW y, DealWritten(y, w, d, new)
  PROVE  Keeps(y, w)
<1>1. /\ Shape(y) /\ y.v = w.v /\ y.held = w.held /\ y.core.deal = [w.core.deal EXCEPT ![d] = new]
      /\ y.core.reward = w.core.reward /\ y.core.credit \in Nat
  BY DEF DealWritten
<1>2. CoreOk(w.core) /\ EndOk(w.v, w.core) /\ w.core.deal \in [Deals -> DealType] /\ w.v.terminal \subseteq Deals
  BY DEF Sound, CoreOk, LoanOk, LoanTypes
<1>3. y.core.deal \in [Deals -> DealType] /\ \A e \in Deals \ {d} : y.core.deal[e] = w.core.deal[e]
  BY <1>1, <1>2
<1>4. CoreOk(y.core)
  BY <1>1, <1>2, <1>3 DEF CoreOk
<1>5. EndOk(y.v, y.core)
  <2>1. ASSUME NEW e \in y.v.terminal \ y.v.withdrawn
        PROVE  y.core.deal[e].state \in Final /\ (Late(y.core, e) => e \in y.v.overdue)
    <3>1. e \in Deals \ {d} /\ e \in w.v.terminal \ w.v.withdrawn
      BY <1>1, <1>2
    <3>2. y.core.deal[e] = w.core.deal[e]
      BY <1>3, <3>1
    <3> QED BY <1>1, <1>2, <3>1, <3>2 DEF EndOk, Late
  <2> QED BY <2>1 DEF EndOk
<1>6. RewardOk(y.v, y.core, y.held)
  <2>1. Announced(y.v, y.core) = Announced(w.v, w.core)
    BY <1>1 DEF Announced
  <2> QED BY <1>1, <2>1 DEF Sound, RewardOk
<1>7. Kept(y.v, w.v)
  BY <1>1, KeepsSelf DEF Keeps
<1> QED BY <1>1, <1>4, <1>5, <1>6, <1>7 DEF Sound, Keeps

\* A listing that still runs has not been retired, unless it was taken back.
LEMMA RunsOn ==
  ASSUME NEW w, Sound(w), NEW d \in Deals, w.core.deal[d].state \in {"FUNDING", "ACTIVE"}
  PROVE  /\ d \notin w.v.terminal \ w.v.withdrawn
         /\ w.core.deal \in [Deals -> DealType] /\ w.core.deal[d] \in DealType /\ DOMAIN w.core.deal = Deals
         /\ w.core.credit \in Nat /\ "deal" \in DOMAIN w.core /\ "credit" \in DOMAIN w.core
<1>1. EndOk(w.v, w.core) /\ CoreOk(w.core) /\ Shape(w)
  BY DEF Sound
<1>2. d \notin w.v.terminal \ w.v.withdrawn
  BY <1>1 DEF EndOk, Final
<1> QED BY <1>1, <1>2 DEF CoreOk, Shape

\* Others take the units that are left.
LEMMA FilledUpKeeps ==
  ASSUME NEW w, Sound(w), EnvOk, NEW d \in Deals, w.core.deal[d].state = "FUNDING"
  PROVE  LET y == FilledUp(w, d) IN Keeps(y, w) /\ y.v = w.v
<1> DEFINE y == FilledUp(w, d)
           old == w.core.deal[d]
           rest == Slots \ old.mine
           stage == "ACTIVE"
           new == [old EXCEPT !.others = rest, !.state = stage, !.fundedAt = now]
<1>1. FilledUpWrote(y, w, d)
  BY SoundShape, FilledUpDoes
<1> HIDE DEF y
<1>2. /\ Shape(y) /\ y.core = [w.core EXCEPT !.deal = [w.core.deal EXCEPT ![d] = new]]
      /\ y.held = w.held /\ y.v = w.v
  BY <1>1 DEF FilledUpWrote
<1>3. /\ d \notin w.v.terminal \ w.v.withdrawn /\ old \in DealType /\ "deal" \in DOMAIN w.core
      /\ w.core.credit \in Nat
  BY RunsOn
<1>4. stage \in Stages /\ now \in Nat /\ rest \subseteq Slots
  BY StageNamed DEF EnvOk
<1> HIDE DEF stage, rest, old
<1>5. new \in DealType
  BY <1>3, <1>4 DEF DealType
<1> HIDE DEF new
<1>6. DealWritten(y, w, d, new)
  BY <1>2, <1>3 DEF DealWritten
<1>7. Keeps(y, w)
  BY <1>3, <1>5, <1>6, DealFrame
<1> QED BY <1>2, <1>7 DEF y

\* A listing is cancelled, or a loan repaid, and the strategy's units are credited.
LEMMA EndedAsKeeps ==
  ASSUME NEW w, Sound(w), EnvOk, NEW d \in Deals, w.core.deal[d].state \in {"FUNDING", "ACTIVE"},
         NEW state \in Stages, NEW total \in Nat
  PROVE  LET y == EndedAs(w, d, state, total) IN Keeps(y, w) /\ y.v = w.v
<1> DEFINE y == EndedAs(w, d, state, total)
           old == w.core.deal[d]
           new == [old EXCEPT !.state = state, !.closedAt = now]
           m == w.core.credit + Share(total, old.mine)
<1>1. EndedAsWrote(y, w, d, state, total)
  BY SoundShape, EndedAsDoes
<1> HIDE DEF y
<1>2. /\ Shape(y) /\ y.core = [w.core EXCEPT !.deal = [w.core.deal EXCEPT ![d] = new], !.credit = m]
      /\ y.held = w.held /\ y.v = w.v
  BY <1>1 DEF EndedAsWrote
<1>3. /\ d \notin w.v.terminal \ w.v.withdrawn /\ old \in DealType /\ "deal" \in DOMAIN w.core
      /\ "credit" \in DOMAIN w.core /\ w.core.credit \in Nat
  BY RunsOn
<1>4. m \in Nat
  BY <1>3, ShareNat
<1>5. new \in DealType
  <2>1. Stopped(new, old, state, now) /\ now \in Nat
    BY DEF Stopped, EnvOk
  <2> HIDE DEF new, old
  <2> QED BY <1>3, <2>1, DealMoves
<1> HIDE DEF new, m
<1>6. DealWritten(y, w, d, new)
  BY <1>2, <1>3, <1>4 DEF DealWritten
<1>7. Keeps(y, w)
  BY <1>3, <1>5, <1>6, DealFrame
<1> QED BY <1>2, <1>7 DEF y

\* The strategy's units are recorded; the loan runs once all its units are taken.
LEMMA FilledKeeps ==
  ASSUME NEW w, Sound(w), EnvOk, NEW d \in Deals, d \notin w.v.terminal, w.core.deal[d].state = "FUNDING",
         NEW taken \in SUBSET Slots
  PROVE  LET y == Filled(w, d, taken) IN Keeps(y, w) /\ y.v = w.v /\ y.held = w.held
<1> DEFINE y == Filled(w, d, taken)
           old == w.core.deal[d]
           s == IF Empty(w, d) = taken THEN "ACTIVE" ELSE old.state
           t == IF Empty(w, d) = taken THEN now ELSE old.fundedAt
           new == [old EXCEPT !.mine = taken, !.state = s, !.fundedAt = t]
<1>1. FilledWrote(y, w, d, taken)
  BY SoundShape, FilledDoes
<1> HIDE DEF y
<1>2. /\ Shape(y) /\ y.core = [w.core EXCEPT !.deal = [w.core.deal EXCEPT ![d] = new]]
      /\ y.held = w.held /\ y.v = w.v
  BY <1>1 DEF FilledWrote
<1>3. /\ d \notin w.v.terminal \ w.v.withdrawn /\ old \in DealType /\ "deal" \in DOMAIN w.core
      /\ w.core.credit \in Nat
  BY RunsOn
<1>4. s \in Stages /\ t \in Nat
  <2>1. now \in Nat /\ old.state \in Stages /\ old.fundedAt \in Nat
    BY <1>3 DEF EnvOk, DealType
  <2> QED BY <2>1, StageNamed
<1> HIDE DEF s, t, old
<1>5. new \in DealType
  BY <1>3, <1>4 DEF DealType
<1> HIDE DEF new
<1>6. DealWritten(y, w, d, new)
  BY <1>2, <1>3 DEF DealWritten
<1>7. Keeps(y, w)
  BY <1>3, <1>5, <1>6, DealFrame
<1> QED BY <1>2, <1>7 DEF y

\* Credited cash, or a donation, may arrive unannounced.
LEMMA CashPushedKeeps ==
  ASSUME NEW w, Sound(w) PROVE LET y == CashPushed(w) IN Keeps(y, w) /\ y.v = w.v
<1> DEFINE y == CashPushed(w)
<1>1. CashPushedWrote(y, w)
  BY SoundShape, CashPushedDoes
<1> HIDE DEF y
<1>2. /\ Shape(y) /\ y.core = [w.core EXCEPT !.credit = 0] /\ y.v = w.v
      /\ y.held = [w.held EXCEPT !["USDG"] = w.held["USDG"] + w.core.credit]
  BY <1>1 DEF CashPushedWrote
<1>3. CoreOk(w.core) /\ Shape(w)
  BY DEF Sound
<1>4. y.core.deal = w.core.deal /\ y.core.reward = w.core.reward /\ y.core.credit = 0 /\ w.core.credit \in Nat
  BY <1>2, <1>3 DEF Shape, CoreOk
<1>5. CoreOk(y.core)
  BY <1>3, <1>4 DEF CoreOk
<1>6. Keeps(y, w)
  <2> DEFINE t == "USDG"
             n == w.core.credit
  <2>1. /\ t \in Tokens /\ n \in Nat /\ Shape(y) /\ y.v = w.v /\ y.core.deal = w.core.deal
        /\ y.core.reward = w.core.reward /\ y.held = [w.held EXCEPT ![t] = w.held[t] + n]
    BY <1>2, <1>4, Parameters
  <2> HIDE DEF t, n
  <2> QED BY <1>5, <2>1, HeldGrows
<1> QED BY <1>2, <1>6 DEF y

\* A gift leaves the books in order.
LEMMA GivenKeeps ==
  ASSUME NEW w, Sound(w), NEW token \in Tokens, NEW amount \in Nat
  PROVE  LET y == Given(w, token, amount) IN Keeps(y, w) /\ y.v = w.v
<1> DEFINE y == Given(w, token, amount)
<1>1. GivenWrote(y, w, token, amount)
  BY SoundShape, GivenDoes
<1> HIDE DEF y
<1>2. /\ Shape(y) /\ y.core = w.core /\ y.v = w.v
      /\ y.held = [w.held EXCEPT ![token] = w.held[token] + amount]
  BY <1>1 DEF GivenWrote
<1>3. CoreOk(y.core)
  BY <1>2 DEF Sound
<1>4. Keeps(y, w)
  BY <1>2, <1>3, HeldGrows
<1> QED BY <1>2, <1>4 DEF y

\* D and C differ in the reward of d alone, which counts n in D and m in C.
OneReward(V, C, D, d, n, m) ==
  /\ V.observed \in [Deals -> Nat] /\ C.reward \in [Deals -> Nat] /\ D.reward \in [Deals -> Nat]
  /\ \A e \in Deals \ {d} : D.reward[e] = C.reward[e]
  /\ n = Atmost(V.observed[d], D.reward[d]) /\ m = Atmost(V.observed[d], C.reward[d])

RewardShift(V, C, D, n, m) ==
  Announced(V, C) \in Nat /\ Announced(V, D) \in Nat /\ Announced(V, D) = Announced(V, C) + (n - m)

\* What was announced moves by what that one loan adds.
LEMMA RewardMoves ==
  ASSUME NEW V, NEW C, NEW D, NEW d \in Deals, NEW n, NEW m, OneReward(V, C, D, d, n, m)
  PROVE  RewardShift(V, C, D, n, m)
<1> DEFINE f == [e \in Deals |-> Atmost(V.observed[e], C.reward[e])]
           g == [e \in Deals |-> Atmost(V.observed[e], D.reward[e])]
<1>1. \A e \in Deals : f[e] \in Nat /\ g[e] \in Nat
  BY DEF Atmost, OneReward
<1>2. \A e \in Deals \ {d} : g[e] = f[e]
  BY DEF OneReward
<1>3. n \in Nat /\ m \in Nat /\ g[d] = n /\ f[d] = m
  BY <1>1 DEF OneReward
<1>4. Announced(V, C) = SumOver(Deals, f) /\ Announced(V, D) = SumOver(Deals, g)
  BY DEF Announced
<1> HIDE DEF f, g
<1> DEFINE k == n - m
<1>5. k \in Int /\ g[d] = f[d] + k
  BY <1>3
<1> HIDE DEF k
<1>6. SumFunctionOnSet(g, Deals) = SumFunctionOnSet(f, Deals) + k
  BY <1>1, <1>2, <1>5, SumMoved, Parameters
<1>7. SumOver(Deals, f) \in Nat /\ SumOver(Deals, g) \in Nat
  BY <1>1, DealsNat
<1> QED BY <1>4, <1>6, <1>7 DEF SumOver, RewardShift, k

\* Rewards that a stranger claims for the strategy arrive unannounced.
LEMMA RewardPushedKeeps ==
  ASSUME NEW w, Sound(w), NEW d \in Deals
  PROVE  LET y == RewardPushed(w, d) IN Keeps(y, w) /\ y.v = w.v
<1> DEFINE y == RewardPushed(w, d)
           C == w.core
           D == y.core
           H == w.held
           G == y.held
           n == C.reward[d]
<1>1. RewardPushedWrote(y, w, d)
  BY SoundShape, RewardPushedDoes
<1> HIDE DEF y
<1>2. /\ Shape(y) /\ D = [C EXCEPT !.reward = [C.reward EXCEPT ![d] = 0]] /\ y.v = w.v
      /\ G = [H EXCEPT !["SGAGE"] = H["SGAGE"] + n]
  BY <1>1 DEF RewardPushedWrote
<1>3. /\ CoreOk(C) /\ "reward" \in DOMAIN C /\ H \in [Tokens -> Nat] /\ RewardOk(w.v, C, H)
      /\ PromiseOk(w.v, H) /\ w.v.observed \in [Deals -> Nat] /\ C.reward \in [Deals -> Nat]
  BY DEF Sound, Shape, PromiseOk, RewardOk, RewardCore, RewardTypes, CoreOk
<1>4. w.core = C /\ y.core = D /\ w.held = H /\ y.held = G
  OBVIOUS
<1> HIDE DEF C, D, H, G
<1>5. D.deal = C.deal /\ D.credit = C.credit /\ D.reward = [C.reward EXCEPT ![d] = 0] /\ n \in Nat
  BY <1>2, <1>3
<1>6. D.reward \in [Deals -> Nat] /\ D.reward[d] = 0 /\ \A e \in Deals \ {d} : D.reward[e] = C.reward[e]
  BY <1>3, <1>5
<1> HIDE DEF n
<1>7. CoreOk(D)
  BY <1>3, <1>5, <1>6 DEF CoreOk
<1>8. /\ G \in [Tokens -> Nat] /\ G["SGAGE"] = H["SGAGE"] + n /\ H["SGAGE"] \in Nat
      /\ \A t \in Tokens \ {"SGAGE"} : G[t] = H[t]
  <2> DEFINE s == "SGAGE"
  <2>1. s \in Tokens /\ n \in Nat /\ H \in [Tokens -> Nat] /\ G = [H EXCEPT ![s] = H[s] + n]
    BY <1>2, <1>3, <1>5, Parameters
  <2> HIDE DEF s
  <2>2. /\ G \in [Tokens -> Nat] /\ G[s] = H[s] + n /\ H[s] \in Nat /\ \A t \in Tokens \ {s} : G[t] = H[t]
    BY ONLY <2>1
  <2> QED BY <2>2 DEF s
<1>9. Announced(w.v, D) \in Nat /\ Announced(w.v, C) \in Nat /\ Announced(w.v, C) <= Announced(w.v, D) + n
  <2> DEFINE V == w.v
             a == Atmost(V.observed[d], D.reward[d])
             b == Atmost(V.observed[d], C.reward[d])
  <2>1. OneReward(V, C, D, d, a, b)
    BY <1>3, <1>6 DEF OneReward
  <2>2. V.observed[d] \in Nat /\ C.reward[d] = n
    BY <1>3 DEF n
  <2> HIDE DEF V
  <2>3. a = 0 /\ b \in Nat /\ b <= n
    BY <1>5, <1>6, <2>2 DEF Atmost
  <2> HIDE DEF a, b
  <2>6. RewardShift(V, C, D, a, b)
    BY ONLY <2>1, d \in Deals, RewardMoves
  <2>4. /\ Announced(V, C) \in Nat /\ Announced(V, D) \in Nat
        /\ Announced(V, D) = Announced(V, C) + (a - b)
    BY <2>6 DEF RewardShift
  <2>5. Announced(V, C) <= Announced(V, D) + n
    BY <1>5, <2>3, <2>4
  <2> QED BY <2>4, <2>5 DEF V
<1>10. RewardOk(w.v, D, G)
  <2>1. w.v.accounted + w.v.orphan + w.v.pocketLiability["SGAGE"] <= H["SGAGE"] + Announced(w.v, C)
    BY <1>3 DEF RewardOk
  <2>2. w.v.accounted \in Nat /\ w.v.orphan \in Nat /\ w.v.pocketLiability["SGAGE"] \in Nat /\ RewardCore(w.v)
    BY <1>3, Parameters DEF RewardOk, RewardCore, RewardTypes, PromiseOk
  <2>3. w.v.accounted + w.v.orphan + w.v.pocketLiability["SGAGE"] <= G["SGAGE"] + Announced(w.v, D)
    BY <1>5, <1>8, <1>9, <2>1, <2>2
  <2> QED BY <2>2, <2>3 DEF RewardOk
<1>11. PromiseOk(y.v, y.held) /\ MoneyOk(y.v, y.held)
  <2>1. G["USDG"] = H["USDG"] /\ \A t \in Tokens : H[t] <= G[t] /\ H[t] \in Nat /\ G[t] \in Nat
    BY <1>3, <1>5, <1>8, Parameters
  <2>2. \A t \in Tokens : w.v.pocketLiability[t] \in Nat /\ w.v.pocketLiability[t] <= H[t]
    BY <1>3 DEF PromiseOk
  <2>3. \A t \in Tokens : w.v.pocketLiability[t] <= G[t]
    BY <2>1, <2>2
  <2>4. MoneyOk(w.v, H)
    BY <1>4 DEF Sound
  <2> QED BY <1>4, <1>2, <1>3, <1>8, <2>1, <2>3, <2>4 DEF PromiseOk, MoneyOk
<1>12. EndOk(y.v, y.core)
  BY <1>4, <1>2, <1>5 DEF Sound, EndOk, Late
<1>13. Kept(y.v, w.v)
  BY <1>2, KeepsSelf DEF Keeps
<1>14. Keeps(y, w)
  BY <1>4, <1>2, <1>7, <1>10, <1>11, <1>12, <1>13 DEF Sound, Keeps
<1> QED BY <1>2, <1>14 DEF y

\* A loan earns the strategy a reward.
LEMMA RewardEarnedKeeps ==
  ASSUME NEW w, Sound(w), NEW d \in Deals, NEW amount \in Nat
  PROVE  LET y == RewardEarned(w, d, amount) IN Keeps(y, w) /\ y.v = w.v
<1> DEFINE y == RewardEarned(w, d, amount)
           C == w.core
           D == y.core
           H == w.held
<1>1. RewardEarnedWrote(y, w, d, amount)
  BY SoundShape, RewardEarnedDoes
<1> HIDE DEF y
<1>2. /\ Shape(y) /\ D = [C EXCEPT !.reward = [C.reward EXCEPT ![d] = C.reward[d] + amount]] /\ y.v = w.v
      /\ y.held = H
  BY <1>1 DEF RewardEarnedWrote
<1>3. /\ CoreOk(C) /\ "reward" \in DOMAIN C /\ RewardOk(w.v, C, H)
      /\ w.v.observed \in [Deals -> Nat] /\ C.reward \in [Deals -> Nat]
      /\ H["SGAGE"] \in Nat /\ w.v.pocketLiability["SGAGE"] \in Nat
  BY Parameters DEF Sound, Shape, PromiseOk, RewardOk, RewardCore, RewardTypes, CoreOk
<1>4. w.core = C /\ y.core = D /\ w.held = H
  OBVIOUS
<1> HIDE DEF C, D, H
<1>5. D.deal = C.deal /\ D.credit = C.credit /\ D.reward = [C.reward EXCEPT ![d] = C.reward[d] + amount]
  BY <1>2, <1>3
<1>6. /\ D.reward \in [Deals -> Nat] /\ D.reward[d] = C.reward[d] + amount
      /\ \A e \in Deals \ {d} : D.reward[e] = C.reward[e]
  BY <1>3, <1>5
<1>7. CoreOk(D)
  BY <1>3, <1>5, <1>6 DEF CoreOk
<1>8. Announced(w.v, D) \in Nat /\ Announced(w.v, C) \in Nat /\ Announced(w.v, C) <= Announced(w.v, D)
  <2> DEFINE V == w.v
             a == Atmost(V.observed[d], D.reward[d])
             b == Atmost(V.observed[d], C.reward[d])
  <2>1. OneReward(V, C, D, d, a, b)
    BY <1>3, <1>6 DEF OneReward
  <2>2. V.observed[d] \in Nat /\ C.reward[d] \in Nat /\ D.reward[d] = C.reward[d] + amount
    BY <1>3, <1>6
  <2> HIDE DEF V
  <2>3. a \in Nat /\ b \in Nat /\ b <= a
    BY <2>2 DEF Atmost
  <2> HIDE DEF a, b
  <2>6. RewardShift(V, C, D, a, b)
    BY ONLY <2>1, d \in Deals, RewardMoves
  <2>4. /\ Announced(V, C) \in Nat /\ Announced(V, D) \in Nat
        /\ Announced(V, D) = Announced(V, C) + (a - b)
    BY <2>6 DEF RewardShift
  <2>5. Announced(V, C) <= Announced(V, D)
    BY <2>3, <2>4
  <2> QED BY <2>4, <2>5 DEF V
<1>9. RewardOk(w.v, D, H)
  <2>1. w.v.accounted + w.v.orphan + w.v.pocketLiability["SGAGE"] <= H["SGAGE"] + Announced(w.v, C)
    BY <1>3 DEF RewardOk
  <2>2. w.v.accounted \in Nat /\ w.v.orphan \in Nat /\ RewardCore(w.v)
    BY <1>3 DEF RewardOk, RewardCore, RewardTypes
  <2>3. w.v.accounted + w.v.orphan + w.v.pocketLiability["SGAGE"] <= H["SGAGE"] + Announced(w.v, D)
    BY <1>3, <1>8, <2>1, <2>2
  <2> QED BY <2>2, <2>3 DEF RewardOk
<1>10. EndOk(y.v, y.core)
  BY <1>4, <1>2, <1>5 DEF Sound, EndOk, Late
<1>11. Kept(y.v, w.v)
  BY <1>2, KeepsSelf DEF Keeps
<1>12. Keeps(y, w)
  BY <1>4, <1>2, <1>7, <1>9, <1>10, <1>11 DEF Sound, Keeps
<1> QED BY <1>2, <1>12 DEF y

\* The curator takes a commitment back before the loan runs.
LEMMA TakenBackKeeps ==
  ASSUME NEW w, Sound(w), NEW d \in Deals, d \notin w.v.terminal
  PROVE  LET y == TakenBack(w, d) IN Keeps(y, w) /\ Same(y.v, w.v, Fields \ {"withdrawn"})
<1> DEFINE y == TakenBack(w, d)
           C == w.core
           D == y.core
           old == C.deal[d]
           new == [old EXCEPT !.mine = {}]
           m == C.credit + Share(Terms[d].principal, old.mine)
           K == {"withdrawn"}
<1>1. TakenBackWrote(y, w, d)
  BY SoundShape, TakenBackDoes
<1> HIDE DEF y
<1>2. /\ Shape(y) /\ D = [C EXCEPT !.deal = [C.deal EXCEPT ![d] = new], !.credit = m] /\ y.held = w.held
      /\ y.v.withdrawn = w.v.withdrawn \cup {d} /\ Same(y.v, w.v, Fields \ K)
  BY <1>1 DEF TakenBackWrote
<1>3. CoreOk(C) /\ "deal" \in DOMAIN C /\ "credit" \in DOMAIN C /\ EndOk(w.v, C) /\ LoanOk(w.v) /\ RewardOk(w.v, C, w.held)
  BY DEF Sound, Shape
<1>4. w.core = C /\ y.core = D
  OBVIOUS
<1>5. C.deal \in [Deals -> DealType] /\ C.credit \in Nat /\ old \in DealType
  BY <1>3 DEF CoreOk
<1>6. m \in Nat
  <2>1. Terms[d].principal \in Nat
    BY Parameters
  <2> HIDE DEF C
  <2> QED BY <1>5, <2>1, ShareNat
<1>7. new \in DealType
  <2> HIDE DEF old
  <2> QED BY <1>5 DEF DealType
<1> HIDE DEF C, D, new, m
<1>8. D.deal = [C.deal EXCEPT ![d] = new] /\ D.credit = m /\ D.reward = C.reward
  BY <1>2, <1>3
<1>9. D.deal \in [Deals -> DealType] /\ \A e \in Deals \ {d} : D.deal[e] = C.deal[e]
  BY <1>5, <1>7, <1>8
<1>10. CoreOk(D)
  BY <1>3, <1>6, <1>8, <1>9 DEF CoreOk
<1>11. /\ y.v.performing = w.v.performing /\ y.v.overduePrincipal = w.v.overduePrincipal
       /\ y.v.funded = w.v.funded /\ y.v.terminal = w.v.terminal /\ y.v.openLoans = w.v.openLoans
       /\ y.v.overdue = w.v.overdue /\ y.v.slots = w.v.slots
       /\ y.v.position = w.v.position /\ y.v.loanFee = w.v.loanFee
       /\ y.v.lanePrincipal = w.v.lanePrincipal /\ y.v.borrowerPrincipal = w.v.borrowerPrincipal
  BY <1>2 DEF Same, Fields, K
<1>12. LoanOk(y.v)
  <2>1. Live(y.v) = Live(w.v)
    BY <1>11 DEF Live
  <2>2. LoanTypes(y.v)
    BY <1>2, <1>3, <1>11 DEF LoanOk, LoanTypes
  <2>3. AtPrincipal(y.v)
    BY <1>3, <1>11 DEF LoanOk, AtPrincipal
  <2> QED BY <1>3, <1>11, <2>1, <2>2, <2>3 DEF LoanOk
<1>13. EndOk(y.v, D)
  <2>1. ASSUME NEW e \in y.v.terminal \ y.v.withdrawn
        PROVE  D.deal[e].state \in Final /\ (Late(D, e) => e \in y.v.overdue)
    <3>1. e \in Deals \ {d} /\ e \in w.v.terminal \ w.v.withdrawn
      BY <1>2, <1>3, <1>11, <2>1 DEF LoanOk, LoanTypes
    <3>2. D.deal[e] = C.deal[e]
      BY <1>9, <3>1
    <3> QED BY <1>3, <1>11, <3>1, <3>2 DEF EndOk, Late
  <2> QED BY <2>1 DEF EndOk
<1>14. /\ PolicyFields \cap K = {} /\ MoneyFields \cap K = {} /\ PromiseFields \cap K = {}
       /\ RewardFields \cap K = {} /\ PriceFields \cap K = {} /\ StockFields \cap K = {}
       /\ RecordFields \cap K = {} /\ PocketFields \cap K = {}
  BY DEF PolicyFields, MoneyFields, PromiseFields, RewardFields, PriceFields, StockFields, RecordFields, PocketFields
<1> HIDE DEF K
<1>15. /\ PolicyOk(y.v) /\ MoneyOk(y.v, y.held) /\ PromiseOk(y.v, y.held) /\ RewardOk(y.v, y.core, y.held)
       /\ PriceOk(y.v) /\ StockOk(y.v) /\ RecordOk(y.v) /\ PocketOk(y.v) /\ Kept(y.v, w.v)
  <2>1. /\ Same(y.v, w.v, Fields \ K) /\ y.held = w.held /\ y.held["USDG"] = w.held["USDG"]
        /\ y.held["SGAGE"] = w.held["SGAGE"] /\ y.core.reward = w.core.reward
    BY <1>4, <1>2, <1>8
  <2> QED BY ONLY <1>14, <2>1, Sound(w), SoundFrame
<1>16. Keeps(y, w)
  BY <1>4, <1>2, <1>10, <1>12, <1>13, <1>15 DEF Sound, Keeps
<1> QED BY <1>2, <1>16 DEF y, K

(***************************************************************************)
(* A purchase.                                                             *)
(***************************************************************************)
BookFields ==
  {"funded", "openLoans", "loanFee", "slots", "position", "performing", "borrowerPrincipal", "lanePrincipal"}

\* A part of the loan book in which a new loan of n may appear.
Entered(P, Q, d, belongs) == P \in SUBSET Deals /\ d \notin P /\ Q = IF belongs THEN P \cup {d} ELSE P

\* When a new loan appears at g[d], a part of the book grows by it if it belongs there.
LEMMA BookEntry ==
  ASSUME NEW f, NEW g, f \in [Deals -> Nat], g \in [Deals -> Nat], NEW d \in Deals,
         \A e \in Deals \ {d} : g[e] = f[e], NEW P, NEW Q, NEW belongs \in BOOLEAN, Entered(P, Q, d, belongs)
  PROVE  SumOver(P, f) \in Nat /\ SumOver(Q, g) = SumOver(P, f) + (IF belongs THEN g[d] ELSE 0)
<1>1. P \in SUBSET Deals /\ d \notin P /\ IsFiniteSet(P) /\ \A e \in P : f[e] \in Nat /\ g[e] \in Nat /\ g[e] = f[e]
  BY Parameters, FS_Subset DEF Entered
<1>2. SumOver(P, f) = SumOver(P, g) /\ SumOver(P, f) \in Nat
  BY <1>1, SumSame, DealsNat DEF SumOver
<1>3. CASE belongs
  <2>1. Q = P \cup {d} /\ d \in Deals \ P /\ \A e \in P \cup {d} : g[e] \in Nat
    BY <1>1, <1>3 DEF Entered
  <2>2. SumOver(P \cup {d}, g) = SumOver(P, g) + g[d]
    BY <1>1, <2>1, BookMore
  <2> QED BY <1>2, <1>3, <2>1, <2>2
<1>4. CASE ~belongs
  BY <1>2, <1>4 DEF Entered
<1> QED BY <1>2, <1>3, <1>4

\* What is paid for the units taken of a listing.
PriceOf(d, taken, principal) == principal = Share(Terms[d].principal, taken)

\* The books of a purchase: the loan enters the list and every running total it belongs to.
LEMMA BookedKeeps ==
  ASSUME NEW w, Sound(w), v.feeBps \in 0 .. BPS, NEW d \in Deals, d \notin w.v.funded,
         NEW taken \in SUBSET Slots, NEW principal \in Nat, PriceOf(d, taken, principal)
  PROVE  LET y == Booked(w, d, taken, principal)
         IN  /\ Keeps(y, w) /\ y.core = w.core /\ y.held = w.held /\ Same(y.v, w.v, Fields \ BookFields)
             /\ ListOk(w.v) => ListOk(y.v)
<1> DEFINE y == Booked(w, d, taken, principal)
           V == w.v
           X == y.v
           b == Terms[d].borrower
           l == Terms[d].lane
<1>1. BookedWrote(y, w, d, taken, principal)
  BY SoundShape, BookedDoes
<1> HIDE DEF y
<1>2. /\ Shape(y) /\ y.core = w.core /\ y.held = w.held
      /\ X.funded = V.funded \cup {d} /\ X.openLoans = Append(V.openLoans, d)
      /\ X.loanFee = [V.loanFee EXCEPT ![d] = v.feeBps] /\ X.slots = [V.slots EXCEPT ![d] = taken]
      /\ X.position = [V.position EXCEPT ![d] = principal] /\ X.performing = V.performing + principal
      /\ X.borrowerPrincipal = [V.borrowerPrincipal EXCEPT ![b] = V.borrowerPrincipal[b] + principal]
      /\ X.lanePrincipal = [V.lanePrincipal EXCEPT ![l] = V.lanePrincipal[l] + principal]
      /\ Same(X, V, Fields \ BookFields)
  BY <1>1 DEF BookedWrote, BookFields
<1>3. LoanOk(V) /\ LoanTypes(V) /\ b \in Borrowers /\ l \in Lanes
  BY Parameters DEF Sound, LoanOk
<1>4. /\ X.terminal = V.terminal /\ X.withdrawn = V.withdrawn /\ X.overdue = V.overdue
      /\ X.overduePrincipal = V.overduePrincipal
  BY <1>2 DEF Same, Fields, BookFields
<1>5. w.v = V /\ y.v = X
  OBVIOUS
<1> HIDE DEF V, X, b, l
<1>6. d \notin V.funded /\ d \notin V.terminal /\ d \notin V.overdue
  BY <1>5, <1>3 DEF LoanTypes
<1>7. Live(X) = Live(V) \cup {d} /\ d \notin Live(V) /\ Live(V) \in SUBSET Deals
  BY <1>2, <1>3, <1>4, <1>6 DEF Live, LoanTypes
<1> DEFINE f == V.position
           g == X.position
<1>8. f \in [Deals -> Nat] /\ g \in [Deals -> Nat] /\ g[d] = principal /\ \A e \in Deals \ {d} : g[e] = f[e]
  BY <1>2, <1>3 DEF LoanTypes
<1> HIDE DEF f, g
<1>9. ASSUME NEW P, NEW Q, NEW belongs \in BOOLEAN, Entered(P, Q, d, belongs)
      PROVE  SumOver(P, f) \in Nat /\ SumOver(Q, g) = SumOver(P, f) + (IF belongs THEN principal ELSE 0)
  BY <1>8, <1>9, BookEntry
<1>10. X.performing = SumOver(Live(X) \ X.overdue, g) /\ X.performing \in Nat
  <2> DEFINE P == Live(V) \ V.overdue
             Q == Live(X) \ X.overdue
             s == TRUE
  <2>1. Entered(P, Q, d, s) /\ s \in BOOLEAN /\ s
    BY <1>4, <1>6, <1>7 DEF Entered
  <2>2. V.performing = SumOver(P, f)
    BY <1>3 DEF LoanOk, f
  <2> HIDE DEF P, Q, s
  <2>3. SumOver(P, f) \in Nat /\ SumOver(Q, g) = SumOver(P, f) + (IF s THEN principal ELSE 0)
    BY <1>9, <2>1
  <2> QED BY <1>2, <2>1, <2>2, <2>3 DEF Q
<1>11. X.overduePrincipal = SumOver(Live(X) \cap X.overdue, g)
  <2> DEFINE P == Live(V) \cap V.overdue
             Q == Live(X) \cap X.overdue
             s == FALSE
  <2>1. Entered(P, Q, d, s) /\ s \in BOOLEAN /\ ~s
    BY <1>4, <1>6, <1>7 DEF Entered
  <2>2. V.overduePrincipal = SumOver(P, f)
    BY <1>3 DEF LoanOk, f
  <2> HIDE DEF P, Q, s
  <2>3. SumOver(P, f) \in Nat /\ SumOver(Q, g) = SumOver(P, f) + (IF s THEN principal ELSE 0)
    BY <1>9, <2>1
  <2> QED BY <1>4, <2>1, <2>2, <2>3 DEF Q
<1>12. ASSUME NEW k \in Lanes
       PROVE  X.lanePrincipal[k] = SumOver({e \in Live(X) : Terms[e].lane = k}, g) /\ X.lanePrincipal[k] \in Nat
  <2> DEFINE P == {e \in Live(V) : Terms[e].lane = k}
             Q == {e \in Live(X) : Terms[e].lane = k}
             s == (k = l)
  <2>1. Entered(P, Q, d, s) /\ s \in BOOLEAN
    BY <1>7 DEF Entered, l
  <2>2. V.lanePrincipal[k] = SumOver(P, f) /\ V.lanePrincipal \in [Lanes -> Nat]
    BY <1>3 DEF LoanOk, LoanTypes, f
  <2>3. X.lanePrincipal[k] = V.lanePrincipal[k] + (IF s THEN principal ELSE 0)
    BY <1>2, <1>3, <2>2
  <2> HIDE DEF P, Q, s
  <2>4. SumOver(P, f) \in Nat /\ SumOver(Q, g) = SumOver(P, f) + (IF s THEN principal ELSE 0)
    BY <1>9, <2>1
  <2>5. X.lanePrincipal[k] = SumOver(Q, g) /\ X.lanePrincipal[k] \in Nat
    BY <2>2, <2>3, <2>4
  <2> QED BY <2>5 DEF Q
<1>13. ASSUME NEW k \in Borrowers
       PROVE  /\ X.borrowerPrincipal[k] = SumOver({e \in Live(X) : Terms[e].borrower = k}, g)
              /\ X.borrowerPrincipal[k] \in Nat
  <2> DEFINE P == {e \in Live(V) : Terms[e].borrower = k}
             Q == {e \in Live(X) : Terms[e].borrower = k}
             s == (k = b)
  <2>1. Entered(P, Q, d, s) /\ s \in BOOLEAN
    BY <1>7 DEF Entered, b
  <2>2. V.borrowerPrincipal[k] = SumOver(P, f) /\ V.borrowerPrincipal \in [Borrowers -> Nat]
    BY <1>3 DEF LoanOk, LoanTypes, f
  <2>3. X.borrowerPrincipal[k] = V.borrowerPrincipal[k] + (IF s THEN principal ELSE 0)
    BY <1>2, <1>3, <2>2
  <2> HIDE DEF P, Q, s
  <2>4. SumOver(P, f) \in Nat /\ SumOver(Q, g) = SumOver(P, f) + (IF s THEN principal ELSE 0)
    BY <1>9, <2>1
  <2>5. X.borrowerPrincipal[k] = SumOver(Q, g) /\ X.borrowerPrincipal[k] \in Nat
    BY <2>2, <2>3, <2>4
  <2> QED BY <2>5 DEF Q
<1>14. DOMAIN X.lanePrincipal = Lanes /\ DOMAIN X.borrowerPrincipal = Borrowers
  BY <1>2, <1>3 DEF LoanTypes
<1> DEFINE q == V.openLoans
           r == X.openLoans
           n == Len(q)
<1>15. /\ n \in Nat /\ DOMAIN q = 1 .. n /\ (\A i \in 1 .. n : q[i] \in Deals)
       /\ r \in Seq(Deals) /\ DOMAIN r = 1 .. n + 1 /\ r[n + 1] = d /\ \A i \in 1 .. n : r[i] = q[i]
  <2>1. q \in Seq(Deals) /\ r = Append(q, d)
    BY <1>2, <1>3 DEF LoanTypes
  <2> HIDE DEF q, r
  <2> QED BY <2>1, SeqAt, AppendAt
<1>16. ToSet(r) = ToSet(q) \cup {d}
  <2>1. ToSet(r) = {r[i] : i \in 1 .. n + 1} /\ ToSet(q) = {q[i] : i \in 1 .. n}
    BY <1>15 DEF ToSet
  <2>2. 1 .. n + 1 = (1 .. n) \cup {n + 1}
    BY <1>15
  <2> HIDE DEF q, r, n
  <2> QED BY <1>15, <2>1, <2>2
<1>17. LoanTypes(X)
  <2>1. X.lanePrincipal \in [Lanes -> Nat]
    <3>1. X.lanePrincipal = [k \in Lanes |-> X.lanePrincipal[k]]
      BY <1>2, <1>3 DEF LoanTypes
    <3> QED BY <1>12, <3>1
  <2>2. X.borrowerPrincipal \in [Borrowers -> Nat]
    <3>1. X.borrowerPrincipal = [k \in Borrowers |-> X.borrowerPrincipal[k]]
      BY <1>2, <1>3 DEF LoanTypes
    <3> QED BY <1>13, <3>1
  <2>3. X.loanFee \in [Deals -> 0 .. BPS] /\ X.slots \in [Deals -> SUBSET Slots]
    BY <1>2, <1>3 DEF LoanTypes
  <2>4. ToSet(X.openLoans) \subseteq X.funded
    BY <1>2, <1>3, <1>16 DEF LoanTypes
  <2> QED BY <1>2, <1>3, <1>4, <1>8, <1>15, <2>1, <2>2, <2>3, <2>4 DEF LoanTypes, g
<1>18. LoanOk(X)
  <2>1. AtPrincipal(V) /\ V.funded \subseteq Deals
    BY <1>3 DEF LoanOk, LoanTypes
  <2>2. X.slots[d] = taken /\ \A e \in Deals \ {d} : X.slots[e] = V.slots[e]
    BY <1>2, <1>3 DEF LoanTypes
  <2>3. ASSUME NEW e \in X.funded PROVE X.position[e] = Share(Terms[e].principal, X.slots[e])
    <3>1. CASE e = d
      BY <1>8, <2>2, <3>1 DEF g, PriceOf
    <3>2. CASE e # d
      <4>1. e \in V.funded /\ e \in Deals \ {d}
        BY <1>2, <2>1, <3>2
      <4>2. X.position[e] = V.position[e] /\ X.slots[e] = V.slots[e]
        BY <1>8, <2>2, <4>1 DEF f, g
      <4> QED BY <2>1, <4>1, <4>2 DEF AtPrincipal
    <3> QED BY <3>1, <3>2
  <2>4. AtPrincipal(X)
    BY <2>3 DEF AtPrincipal
  <2> QED BY <1>10, <1>11, <1>12, <1>13, <1>17, <2>4 DEF LoanOk, g
<1>19. ListOk(V) => ListOk(X)
  <2>1. SUFFICES ASSUME IsInjective(q), ToSet(q) = Live(V)
                 PROVE  IsInjective(r) /\ ToSet(r) = Live(X)
    BY DEF ListOk
  <2>2. ToSet(r) = Live(X)
    BY <1>7, <1>16, <2>1
  <2>3. \A i \in 1 .. n : q[i] # d
    <3>1. \A i \in 1 .. n : q[i] \in ToSet(q)
      BY <1>15 DEF ToSet
    <3> QED BY <1>7, <2>1, <3>1
  <2>4. \A i, j \in 1 .. n : q[i] = q[j] => i = j
    BY <1>15, <2>1 DEF IsInjective
  <2>5. ASSUME NEW i \in DOMAIN r, NEW j \in DOMAIN r, r[i] = r[j] PROVE i = j
    <3>1. (i \in 1 .. n \/ i = n + 1) /\ (j \in 1 .. n \/ j = n + 1)
      BY <1>15
    <3> HIDE DEF q, r, n
    <3> QED BY <1>15, <2>3, <2>4, <2>5, <3>1
  <2> QED BY <2>2, <2>5 DEF IsInjective
<1>20. /\ PolicyFields \cap BookFields = {} /\ MoneyFields \cap BookFields = {} /\ PromiseFields \cap BookFields = {}
       /\ RewardFields \cap BookFields = {} /\ PriceFields \cap BookFields = {} /\ StockFields \cap BookFields = {}
       /\ RecordFields \cap BookFields = {} /\ PocketFields \cap BookFields = {} /\ EndFields \cap BookFields = {}
  BY DEF PolicyFields, MoneyFields, PromiseFields, RewardFields, PriceFields, StockFields, RecordFields,
         PocketFields, EndFields, BookFields
<1>21. /\ PolicyOk(y.v) /\ MoneyOk(y.v, y.held) /\ PromiseOk(y.v, y.held) /\ RewardOk(y.v, y.core, y.held)
       /\ PriceOk(y.v) /\ StockOk(y.v) /\ RecordOk(y.v) /\ PocketOk(y.v) /\ EndOk(y.v, y.core)
       /\ Kept(y.v, w.v) /\ CoreOk(y.core)
  <2>1. /\ Same(y.v, w.v, Fields \ BookFields) /\ y.held = w.held /\ y.held["USDG"] = w.held["USDG"]
        /\ y.held["SGAGE"] = w.held["SGAGE"] /\ y.core = w.core /\ y.core.reward = w.core.reward
        /\ y.core.deal = w.core.deal
    BY <1>5, <1>2
  <2> QED BY ONLY <1>20, <2>1, Sound(w), SoundFrame
<1>22. Keeps(y, w)
  BY <1>5, <1>2, <1>18, <1>21 DEF Sound, Keeps
<1> QED BY <1>5, <1>2, <1>19, <1>22 DEF y

(***************************************************************************)
(* Whole transactions.                                                     *)
(***************************************************************************)
\* What ListOk, LocksFit and Passed read.
TurnFields == {"openLoans", "funded", "terminal", "requests", "head", "lockedShares", "balance"}

\* A transaction that writes neither the loan list nor the queue leaves both in order.
LEMMA StaysGood ==
  ASSUME NEW w, Good(w), NEW y, Keeps(y, w), NEW K, Same(y.v, w.v, Fields \ K), K \cap TurnFields = {}
  PROVE  Good(y)
<1>1. /\ y.v.openLoans = w.v.openLoans /\ y.v.funded = w.v.funded /\ y.v.terminal = w.v.terminal
      /\ y.v.requests = w.v.requests /\ y.v.head = w.v.head /\ y.v.lockedShares = w.v.lockedShares
      /\ y.v.balance = w.v.balance
  <2>1. TurnFields \subseteq Fields
    BY DEF TurnFields, Fields
  <2>2. \A f \in TurnFields : y.v[f] = w.v[f]
    BY <2>1 DEF Same
  <2> QED BY <2>2 DEF TurnFields
<1> QED BY <1>1 DEF Good, Keeps, ListOk, Live, LocksFit, Passed

\* The same, where the balances moved and still cover the locks.
LEMMA StaysOpen ==
  ASSUME NEW w, Good(w), NEW y, Keeps(y, w), LocksFit(y.v), Same(y.v, w.v, TurnFields \ {"lockedShares", "balance"})
  PROVE  Good(y)
<1>1. /\ y.v.openLoans = w.v.openLoans /\ y.v.funded = w.v.funded /\ y.v.terminal = w.v.terminal
      /\ y.v.requests = w.v.requests /\ y.v.head = w.v.head
  BY DEF Same, TurnFields
<1> QED BY <1>1 DEF Good, Keeps, ListOk, Live, Passed

\* A deposit.
LEMMA DepositGood ==
  ASSUME NEW w, Good(w), NEW h \in Holders, NEW assets \in Nat, NEW shares \in Nat
  PROVE  LET y == Mint(Receive(w, assets), h, shares) IN Good(y) /\ Keeps(y, w)
<1> DEFINE x == Receive(w, assets)
           y == Mint(x, h, shares)
<1>1. SUFFICES Good(y) /\ Keeps(y, w)
  OBVIOUS
<1>2. Sound(w) /\ LocksFit(w.v) /\ w.v.balance \in [Holders -> Nat] /\ w.v.lockedShares \in [Holders -> Nat]
  BY DEF Good, Sound, StockOk
<1>3. Keeps(x, w) /\ Same(x.v, w.v, Fields \ {"cash"})
  BY <1>2, ReceiveKeeps
<1> HIDE DEF x
<1>4. Sound(x)
  BY <1>3 DEF Keeps
<1>5. /\ Sound(y) /\ Kept(y.v, x.v) /\ Same(y.v, x.v, Fields \ BalanceFields)
      /\ MoreAt(y.v.balance, x.v.balance, h, shares)
  BY <1>4, MintKeeps
<1> HIDE DEF y
<1>6. Keeps(y, w)
  BY <1>2, <1>3, <1>5, KeepsChain DEF Keeps
<1>7. Same(y.v, w.v, TurnFields \ {"balance"}) /\ x.v.balance = w.v.balance
  BY <1>3, <1>5 DEF Same, Fields, TurnFields, BalanceFields
<1>8. LocksFit(y.v)
  <2>1. y.v.lockedShares = w.v.lockedShares
    BY <1>7 DEF Same, TurnFields
  <2> QED BY <1>2, <1>5, <1>7, <2>1 DEF LocksFit, MoreAt
<1>9. Same(y.v, w.v, TurnFields \ {"lockedShares", "balance"})
  BY <1>7 DEF Same
<1> QED BY <1>6, <1>8, <1>9, StaysOpen

\* Leaving with free shares.
LEMMA ExitGood ==
  ASSUME NEW w, Good(w), EnvOk, NEW h \in Holders, NEW shares, FreeAt(w, h, shares),
         NEW assets \in Nat, CanPayOut(w, assets)
  PROVE  LET y == Send(Burn(PayOut(w, assets), h, shares), "USDG", assets) IN Good(y) /\ Keeps(y, w)
<1> DEFINE a == PayOut(w, assets)
           b == Burn(a, h, shares)
           y == Send(b, "USDG", assets)
<1>1. SUFFICES Good(y) /\ Keeps(y, w)
  OBVIOUS
<1>2. /\ Sound(w) /\ LocksFit(w.v) /\ w.v.balance \in [Holders -> Nat] /\ w.v.lockedShares \in [Holders -> Nat]
      /\ shares \in Nat /\ shares <= w.v.balance[h] - w.v.lockedShares[h] /\ shares <= w.v.balance[h]
  <2>1. Sound(w) /\ LocksFit(w.v) /\ w.v.balance \in [Holders -> Nat] /\ w.v.lockedShares \in [Holders -> Nat]
    BY DEF Good, Sound, StockOk
  <2> QED BY <2>1 DEF FreeAt
<1>3. Keeps(a, w) /\ Same(a.v, w.v, Fields \ {"cash", "reserveShares"}) /\ Claims(a.v) + assets <= a.held["USDG"]
  BY <1>2, PayOutKeeps
<1> HIDE DEF a
<1>4. Sound(a) /\ a.v.balance = w.v.balance
  BY <1>3 DEF Keeps, Same, Fields
<1>5. /\ Sound(b) /\ Kept(b.v, a.v) /\ Same(b.v, a.v, Fields \ BalanceFields) /\ b.held = a.held
      /\ LessAt(b.v.balance, a.v.balance, h, shares)
  BY <1>2, <1>4, BurnKeeps
<1> HIDE DEF b
<1>6. Keeps(b, w)
  BY <1>2, <1>3, <1>5, KeepsChain DEF Keeps
<1>7. Claims(b.v) + assets <= b.held["USDG"]
  <2>1. MoneyFields \cap BalanceFields = {}
    BY DEF MoneyFields, BalanceFields
  <2>2. Same(b.v, a.v, MoneyFields)
    BY <1>5, <2>1, Frames
  <2>3. MoneyOk(a.v, a.held)
    BY <1>4 DEF Sound
  <2>4. Claims(b.v) = Claims(a.v)
    BY <2>2, <2>3, MoneyFrame
  <2> QED BY <1>3, <1>5, <2>4
<1>8. Keeps(y, b) /\ y.v = b.v
  BY <1>5, <1>7, SendKeeps
<1> HIDE DEF y
<1>9. Keeps(y, w)
  BY <1>2, <1>6, <1>8, KeepsChain
<1>10. Same(y.v, w.v, TurnFields \ {"balance"})
  BY <1>3, <1>5, <1>8 DEF Same, Fields, TurnFields, BalanceFields
<1>11. LocksFit(y.v)
  <2>1. y.v.lockedShares = w.v.lockedShares /\ LessAt(y.v.balance, w.v.balance, h, shares)
    BY <1>4, <1>5, <1>8, <1>10 DEF Same, TurnFields
  <2> QED BY <1>2, <2>1 DEF LocksFit, LessAt
<1>12. Same(y.v, w.v, TurnFields \ {"lockedShares", "balance"})
  BY <1>10 DEF Same
<1> QED BY <1>9, <1>11, <1>12, StaysOpen

\* A request joins the queue.
LEMMA RequestGood ==
  ASSUME NEW w, Good(w), NEW h \in Holders, NEW shares, FreeAt(w, h, shares)
  PROVE  LET y == Requested(w, h, shares) IN Good(y) /\ Keeps(y, w)
<1> DEFINE y == Requested(w, h, shares)
<1>1. Sound(w) /\ LocksFit(w.v) /\ Passed(w.v, w.v.head) /\ ListOk(w.v)
  BY DEF Good
<1>2. Keeps(y, w) /\ LocksFit(y.v) /\ Passed(y.v, y.v.head) /\ Same(y.v, w.v, Fields \ QueueFields)
  BY <1>1, RequestedKeeps
<1> HIDE DEF y
<1>3. y.v.openLoans = w.v.openLoans /\ y.v.funded = w.v.funded /\ y.v.terminal = w.v.terminal
  BY <1>2 DEF Same, Fields, QueueFields
<1>4. Good(y)
  BY <1>1, <1>2, <1>3 DEF Good, Keeps, ListOk, Live
<1> QED BY <1>2, <1>4 DEF y

\* A request is taken back.
LEMMA CancelGood ==
  ASSUME NEW w, Good(w), NEW id \in DOMAIN w.v.requests
  PROVE  LET y == Unlock(w, id, w.v.requests[id].shares) IN Good(y) /\ Keeps(y, w)
<1> DEFINE n == w.v.requests[id].shares
           y == Unlock(w, id, n)
<1>1. SUFFICES Good(y) /\ Keeps(y, w)
  OBVIOUS
<1>2. Sound(w) /\ LocksFit(w.v) /\ Passed(w.v, w.v.head) /\ ListOk(w.v) /\ StockOk(w.v)
  BY DEF Good, Sound
<1>3. n \in Nat /\ n <= w.v.requests[id].shares
  <2>1. n \in Nat
    BY <1>2, RequestsFinite
  <2> QED BY <2>1
<1>4. /\ Keeps(y, w) /\ DOMAIN y.v.requests = DOMAIN w.v.requests
      /\ y.v.requests[id].shares = w.v.requests[id].shares - n
      /\ \A i \in DOMAIN w.v.requests \ {id} : y.v.requests[i] = w.v.requests[i]
      /\ \A h \in Holders :
           y.v.lockedShares[h] = w.v.lockedShares[h] - (IF h = w.v.requests[id].owner THEN n ELSE 0)
      /\ Same(y.v, w.v, Fields \ QueueFields)
  <2> HIDE DEF n
  <2> QED BY <1>2, <1>3, UnlockKeeps
<1> HIDE DEF y
<1>5. y.v.requests[id].shares = 0
  BY <1>3, <1>4
<1>6. /\ y.v.openLoans = w.v.openLoans /\ y.v.funded = w.v.funded /\ y.v.terminal = w.v.terminal
      /\ y.v.head = w.v.head /\ y.v.balance = w.v.balance
  BY <1>4 DEF Same, Fields, QueueFields
<1> HIDE DEF n
<1>7. LocksFit(y.v)
  <2>1. w.v.lockedShares \in [Holders -> Nat] /\ w.v.balance \in [Holders -> Nat]
    BY <1>2 DEF StockOk
  <2> QED BY <1>2, <1>3, <1>4, <1>6, <2>1 DEF LocksFit
<1>8. Passed(y.v, y.v.head)
  <2>1. Len(y.v.requests) = Len(w.v.requests)
    <3>1. /\ Len(y.v.requests) \in Nat /\ DOMAIN y.v.requests = 1 .. Len(y.v.requests)
          /\ Len(w.v.requests) \in Nat /\ DOMAIN w.v.requests = 1 .. Len(w.v.requests)
      BY <1>2, <1>4, RequestsFinite DEF Keeps, Sound
    <3> DEFINE a == Len(y.v.requests)
               b == Len(w.v.requests)
    <3>2. a \in Nat /\ b \in Nat /\ 1 .. a = 1 .. b
      BY <1>4, <3>1
    <3> HIDE DEF a, b
    <3>3. a = b
      BY <3>2
    <3> QED BY <3>3 DEF a, b
  <2> QED BY <1>2, <1>4, <1>5, <1>6, <2>1 DEF Passed
<1>9. Good(y)
  BY <1>2, <1>4, <1>6, <1>7, <1>8 DEF Good, Keeps, ListOk, Live
<1> QED BY <1>4, <1>9

\* A call that serves the queue.
LEMMA ServeGood ==
  ASSUME NEW w, Good(w), EnvOk, NEW count \in Nat, NEW maxAssets \in Nat, Served(w, count, maxAssets).ok
  PROVE  LET y == HeadAt(Served(w, count, maxAssets).w, Served(w, count, maxAssets).head)
         IN  Good(y) /\ Keeps(y, w)
<1> DEFINE q == Served(w, count, maxAssets)
           n == q.head
           x == q.w
           y == HeadAt(x, n)
<1>1. SUFFICES Good(y) /\ Keeps(y, w)
  OBVIOUS
<1>2. Sound(w) /\ ListOk(w.v)
  BY DEF Good
<1>3. Keeps(x, w) /\ LocksFit(x.v) /\ Same(x.v, w.v, Fields \ ServeFields) /\ Passed(x.v, n)
  BY ServedKeeps
<1> HIDE DEF q, n, x
<1>4. Sound(x)
  BY <1>3 DEF Keeps
<1>5. Keeps(y, x) /\ y.v.head = n /\ Passed(y.v, n) /\ Same(y.v, x.v, Fields \ {"head"})
  BY <1>3, <1>4, HeadAtKeeps
<1> HIDE DEF y
<1>6. Keeps(y, w)
  BY <1>2, <1>3, <1>5, KeepsChain
<1>7. y.v.openLoans = w.v.openLoans /\ y.v.funded = w.v.funded /\ y.v.terminal = w.v.terminal
  BY <1>3, <1>5 DEF Same, Fields, ServeFields, BalanceFields, QueueFields
<1>8. LocksFit(y.v)
  <2>1. y.v.balance = x.v.balance /\ y.v.lockedShares = x.v.lockedShares
    BY <1>5 DEF Same, Fields
  <2> QED BY <1>3, <2>1 DEF LocksFit
<1> QED BY <1>2, <1>5, <1>6, <1>7, <1>8 DEF Good, Keeps, ListOk, Live

\* A purchase: paid for, its approval used up, booked, and recorded at the loan engine.
LEMMA BuyGood ==
  ASSUME NEW w, Good(w), EnvOk, v.feeBps \in 0 .. BPS, NEW d \in Deals, d \notin w.v.funded,
         w.core.deal[d].state = "FUNDING", NEW taken \in SUBSET Slots, NEW principal \in Nat, CanPayOut(w, principal),
         PriceOf(d, taken, principal)
  PROVE  LET y == Send(Filled(Booked(Revoke(PayOut(w, principal), d), d, taken, principal), d, taken),
                       "USDG", principal)
         IN  Good(y) /\ Keeps(y, w)
<1> DEFINE a == PayOut(w, principal)
           b == Revoke(a, d)
           c == Booked(b, d, taken, principal)
           e == Filled(c, d, taken)
           y == Send(e, "USDG", principal)
<1>1. SUFFICES Good(y) /\ Keeps(y, w)
  OBVIOUS
<1>2. Sound(w) /\ ListOk(w.v) /\ LocksFit(w.v) /\ Passed(w.v, w.v.head)
  BY DEF Good
<1>3. /\ Keeps(a, w) /\ Same(a.v, w.v, Fields \ {"cash", "reserveShares"}) /\ a.core = w.core
      /\ Claims(a.v) + principal <= a.held["USDG"]
  BY <1>2, PayOutKeeps
<1> HIDE DEF a
<1>4. Sound(a) /\ Shape(a)
  BY <1>3 DEF Keeps, Sound
<1>5. /\ Keeps(b, a) /\ Same(b.v, a.v, Fields \ {"approvals", "approvedPrincipal"})
      /\ b.core = a.core /\ b.held = a.held
  <2>1. Keeps(b, a) /\ Same(b.v, a.v, Fields \ {"approvals", "approvedPrincipal"})
    BY <1>4, RevokeKeeps
  <2>2. RevokeWrote(b, a, d)
    BY <1>4, RevokeDoes
  <2> HIDE DEF b
  <2> QED BY <2>1, <2>2 DEF RevokeWrote
<1> HIDE DEF b
<1>6. Sound(b) /\ ListOk(b.v) /\ b.v.funded = w.v.funded
  <2>1. b.v.openLoans = w.v.openLoans /\ b.v.funded = w.v.funded /\ b.v.terminal = w.v.terminal
    BY <1>3, <1>5 DEF Same, Fields
  <2> QED BY <1>2, <1>5, <2>1 DEF Keeps, ListOk, Live
<1>7. /\ Keeps(c, b) /\ c.core = b.core /\ c.held = b.held /\ Same(c.v, b.v, Fields \ BookFields)
      /\ ListOk(c.v)
  <2>1. Sound(b) /\ d \notin b.v.funded
    BY <1>6
  <2> QED BY <1>6, <2>1, BookedKeeps
<1> HIDE DEF c
<1>8. Sound(c) /\ c.core.deal[d].state = "FUNDING" /\ d \notin c.v.terminal
  <2>1. c.v.terminal = w.v.terminal
    BY <1>3, <1>5, <1>7 DEF Same, Fields, BookFields
  <2>2. d \notin w.v.terminal
    BY <1>2 DEF Sound, LoanOk, LoanTypes
  <2> QED BY <1>3, <1>5, <1>7, <2>1, <2>2 DEF Keeps
<1>9. Keeps(e, c) /\ e.v = c.v /\ e.held = c.held
  BY <1>8, FilledKeeps
<1> HIDE DEF e
<1>10. Sound(e) /\ Claims(e.v) + principal <= e.held["USDG"]
  <2>1. Same(e.v, a.v, Fields \ (BookFields \cup {"approvals", "approvedPrincipal"}))
    BY <1>5, <1>7, <1>9 DEF Same
  <2>2. MoneyFields \cap (BookFields \cup {"approvals", "approvedPrincipal"}) = {}
    BY DEF MoneyFields, BookFields
  <2>3. Same(e.v, a.v, MoneyFields)
    BY <2>1, <2>2, Frames
  <2>4. MoneyOk(a.v, a.held)
    BY <1>4 DEF Sound
  <2>5. Claims(e.v) = Claims(a.v)
    BY <2>3, <2>4, MoneyFrame
  <2> QED BY <1>3, <1>5, <1>7, <1>9, <2>5 DEF Keeps
<1>11. Keeps(y, e) /\ y.v = e.v
  BY <1>10, SendKeeps
<1> HIDE DEF y
<1>12. Keeps(y, w)
  <2>1. Keeps(b, w)
    BY <1>2, <1>3, <1>5, KeepsChain
  <2>2. Keeps(c, w)
    BY <1>2, <1>7, <2>1, KeepsChain
  <2>3. Keeps(e, w)
    BY <1>2, <1>9, <2>2, KeepsChain
  <2> QED BY <1>2, <1>11, <2>3, KeepsChain
<1>13. LocksFit(y.v) /\ Passed(y.v, y.v.head)
  <2>1. Same(y.v, w.v, StockFields)
    <3>1. StockFields \subseteq Fields \ (BookFields \cup {"approvals", "approvedPrincipal", "cash", "reserveShares"})
      BY DEF StockFields, Fields, BookFields
    <3> QED BY <1>3, <1>5, <1>7, <1>9, <1>11, <3>1 DEF Same
  <2> QED BY <1>2, <2>1, StockFrame
<1>14. ListOk(y.v)
  BY <1>7, <1>9, <1>11
<1> QED BY <1>12, <1>13, <1>14 DEF Good, Keeps

\* The curator approves a purchase; an earlier approval of the listing is taken back.
LEMMA ApproveGood ==
  ASSUME NEW w, Good(w), NEW d \in Deals, NEW principal, NEW approval \in ApprovalType,
         approval.epoch = w.v.epoch, approval.principal = principal
  PROVE  LET y == Approved(Revoke(w, d), d, principal, approval) IN Good(y) /\ Keeps(y, w)
<1> DEFINE b == Revoke(w, d)
           y == Approved(b, d, principal, approval)
           K == {"approvals", "approvedPrincipal"}
<1>1. SUFFICES Good(y) /\ Keeps(y, w)
  OBVIOUS
<1>2. Sound(w)
  BY DEF Good
<1>3. Keeps(b, w) /\ Same(b.v, w.v, Fields \ K)
  BY <1>2, RevokeKeeps
<1>4. b.v.approvals[d] = NoApproval
  <2>1. RevokeWrote(b, w, d)
    BY <1>2, RevokeDoes DEF Sound
  <2>2. w.v.approvals \in [Deals -> [validUntil : Nat, principal : Nat, epoch : Nat, units : 0 .. UNITS]]
    BY <1>2 DEF Sound, PolicyOk
  <2> HIDE DEF b
  <2> QED BY <2>1, <2>2 DEF RevokeWrote
<1> HIDE DEF b
<1>5. Sound(b) /\ b.v.epoch = w.v.epoch
  BY <1>3 DEF Keeps, Same, Fields
<1>6. Keeps(y, b)
  BY <1>4, <1>5, ApprovedKeeps
<1>7. Same(y.v, b.v, Fields \ K)
  <2>1. ApprovedWrote(y, b, d, principal, approval)
    BY <1>5, ApprovedDoes DEF Sound
  <2> HIDE DEF y
  <2> QED BY <2>1 DEF ApprovedWrote
<1> HIDE DEF y
<1>8. Keeps(y, w)
  BY <1>2, <1>3, <1>6, KeepsChain
<1>9. Same(y.v, w.v, Fields \ K)
  BY <1>3, <1>7 DEF Same
<1>10. K \cap TurnFields = {}
  BY DEF TurnFields
<1> HIDE DEF K
<1> QED BY <1>8, <1>9, <1>10, StaysGood

\* A payment out of what Claims set aside for it.
LEMMA SentGood ==
  ASSUME NEW w, Good(w), NEW x, Keeps(x, w), NEW K, Same(x.v, w.v, Fields \ K), K \cap TurnFields = {},
         NEW amount \in Nat, Claims(x.v) + amount <= x.held["USDG"]
  PROVE  LET y == Send(x, "USDG", amount) IN Good(y) /\ Keeps(y, w)
<1> DEFINE y == Send(x, "USDG", amount)
<1>1. SUFFICES Good(y) /\ Keeps(y, w)
  OBVIOUS
<1>2. Sound(w) /\ Sound(x)
  BY DEF Good, Keeps
<1>3. Keeps(y, x) /\ y.v = x.v
  BY <1>2, SendKeeps
<1> HIDE DEF y
<1>4. Keeps(y, w) /\ Same(y.v, w.v, Fields \ K)
  BY <1>2, <1>3, KeepsChain
<1> QED BY <1>4, StaysGood

\* A reward is paid out of what a checkpoint and a settlement of the holder credited.
LEMMA RewardGood ==
  ASSUME NEW w, Good(w), NEW h \in Holders
  PROVE  LET x == SettleRewards(w, h)
             n == Atmost(x.v.owed[h], RewardsAvailable(x))
             y == RewardPaid(x, h, n)
         IN  Good(y) /\ Keeps(y, w)
<1> DEFINE x == SettleRewards(w, h)
           n == Atmost(x.v.owed[h], RewardsAvailable(x))
           y == RewardPaid(x, h, n)
           K == {"owed", "index", "liability", "accounted"}
<1>1. SUFFICES Good(y) /\ Keeps(y, w)
  OBVIOUS
<1>2. Sound(w)
  BY DEF Good
<1>3. Sound(x) /\ Kept(x.v, w.v) /\ Same(x.v, w.v, Fields \ {"owed", "index", "liability"})
  BY <1>2, SettleRewardsKeeps
<1> HIDE DEF x
<1>4. n \in Nat /\ n <= x.v.owed[h] /\ n <= RewardsAvailable(x)
  <2> DEFINE o == x.v.owed[h]
             r == RewardsAvailable(x)
  <2>1. o \in Nat
    BY <1>3 DEF Sound, RewardOk, RewardCore, RewardTypes
  <2>2. r \in Nat
    <3>1. /\ x.held["SGAGE"] \in Nat /\ x.v.pocketLiability["SGAGE"] \in Nat /\ x.v.orphan \in Nat
      BY <1>3, Parameters DEF Sound, PromiseOk, RewardOk, RewardCore, RewardTypes
    <3> QED BY <3>1 DEF RewardsAvailable, Over
  <2> HIDE DEF o, r
  <2>3. Atmost(o, r) \in Nat /\ Atmost(o, r) <= o /\ Atmost(o, r) <= r
    BY <2>1, <2>2 DEF Atmost
  <2> QED BY <2>3 DEF o, r
<1> HIDE DEF n
<1>5. Keeps(y, x) /\ Same(y.v, x.v, Fields \ {"owed", "accounted", "liability"})
  BY <1>3, <1>4, RewardPaidKeeps
<1> HIDE DEF y
<1>6. Keeps(y, w)
  BY <1>2, <1>3, <1>5, KeepsChain DEF Keeps
<1>7. Same(y.v, w.v, Fields \ K) /\ K \cap TurnFields = {}
  BY <1>3, <1>5 DEF Same, TurnFields
<1> HIDE DEF K
<1> QED BY <1>6, <1>7, StaysGood
(***************************************************************************)
(* What a checkpoint does to the share price.                              *)
(***************************************************************************)
\* The loans the share price carries, and those of them that are late by now.
Carrying(V) == Live(V) \ V.overdue
Due(w) == {d \in Carrying(w.v) : Impaired(Loan(w, d))}
OpenListed(V) == Live(V) \subseteq ToSet(V.openLoans)

\* A quotient grows with what is divided.
LEMMA QuotientGrows == \A a, b \in Nat, c \in Nat \ {0} : a <= b => a \div c <= b \div c
<1>1. SUFFICES ASSUME NEW a \in Nat, NEW b \in Nat, NEW c \in Nat \ {0}, a <= b PROVE a \div c <= b \div c
  OBVIOUS
<1> DEFINE x == a \div c
           y == b \div c
<1>2. x \in Nat /\ y \in Nat /\ x * c <= a /\ b < (y + 1) * c
  BY QuotientNat, QuotientBelow
<1> HIDE DEF x, y
<1>3. x * c < (y + 1) * c
  <2>1. x * c \in Nat /\ (y + 1) * c \in Nat
    BY <1>2, ProductNat
  <2> QED BY <1>1, <1>2, <2>1
<1>4. ~ (y + 1 <= x)
  <2>1. SUFFICES ASSUME y + 1 <= x PROVE FALSE
    OBVIOUS
  <2>2. (y + 1) * c <= x * c /\ (y + 1) * c \in Nat /\ x * c \in Nat
    BY <1>2, <2>1, ProductGrows, ProductNat
  <2> QED BY <1>3, <2>2
<1>5. x <= y
  BY <1>2, <1>4
<1> QED BY <1>5 DEF x, y

\* A price per share grows with the assets.
LEMMA PriceGrows ==
  ASSUME NEW a \in Nat, NEW b \in Nat, a <= b, NEW S \in Nat \ {0}
  PROVE  Price(a, S) \in Nat /\ Price(a, S) <= Price(b, S)
<1>1. PRICE_PRECISION \in Nat
  BY Parameters
<1>2. a * PRICE_PRECISION \in Nat /\ b * PRICE_PRECISION \in Nat /\ a * PRICE_PRECISION <= b * PRICE_PRECISION
  BY <1>1, ProductNat, ProductGrows
<1> DEFINE x == a * PRICE_PRECISION
           y == b * PRICE_PRECISION
<1> HIDE DEF x, y
<1>3. x \in Nat /\ y \in Nat /\ x <= y
  BY <1>2 DEF x, y
<1>4. x \div S \in Nat /\ x \div S <= y \div S
  BY <1>3, QuotientNat, QuotientGrows
<1> QED BY <1>4 DEF Price, x, y

\* The parts of the share price: what is lost of the loans is part of what they are carried at.
LEMMA PriceParts ==
  ASSUME NEW w, Sound(w), EnvOk, OpenListed(w.v)
  PROVE  /\ w.v.cash \in Nat /\ w.v.performing \in Nat /\ PendingLoss(w) \in Nat /\ PendingLoss(w) <= w.v.performing
         /\ ReserveValue(w) \in Nat /\ LockedProfit(w) \in Nat
         /\ w.v.performing = SumOver(Carrying(w.v), w.v.position)
         /\ PendingLoss(w) = SumOver(Due(w), w.v.position)
         /\ Carrying(w.v) \subseteq Deals /\ \A d \in Carrying(w.v) : w.v.position[d] \in Nat
         /\ FullAssets(w) = w.v.cash + ReserveValue(w) + w.v.performing - PendingLoss(w)
         /\ TotalAssets(w) = Over(FullAssets(w), Over(LockedProfit(w), PendingLoss(w)))
<1>1. LoanOk(w.v) /\ LoanTypes(w.v) /\ w.v.cash \in Nat
  BY DEF Sound, LoanOk, MoneyOk
<1>2. Undecided(w) = Carrying(w.v)
  BY <1>1 DEF Undecided, Carrying, OpenListed, Live, LoanTypes
<1>3. PendingLoss(w) = SumOver(Due(w), w.v.position)
  BY <1>2 DEF PendingLoss, Due
<1>4. w.v.performing = SumOver(Carrying(w.v), w.v.position)
  BY <1>1 DEF LoanOk, Carrying
<1>5. Carrying(w.v) \subseteq Deals /\ \A d \in Carrying(w.v) : w.v.position[d] \in Nat
  BY <1>1 DEF Carrying, Live, LoanTypes
<1>6. Due(w) \subseteq Carrying(w.v)
  BY DEF Due
<1>7. PendingLoss(w) \in Nat /\ w.v.performing \in Nat /\ PendingLoss(w) <= w.v.performing
  BY <1>3, <1>4, <1>5, <1>6, PartSum
<1>8. ReserveValue(w) \in Nat /\ LockedProfit(w) \in Nat
  BY PriceBounds
<1> QED BY <1>1, <1>3, <1>4, <1>5, <1>7, <1>8 DEF FullAssets, TotalAssets, LockedAfterLoss

\* Between w and y the share price did not fall, on neither measure, and rose by no more than the
\* cash; fees were taken only while it stands above the mark, and the mark did not fall.
Marked(y, w) ==
  /\ w.v.highWater <= y.v.highWater
  /\ y.v.feeAccrued # w.v.feeAccrued => w.v.supply # 0 /\ w.v.highWater <= Price(FullAssets(y), w.v.supply)
Level(y, w) ==
  /\ y.v.reserveShares = w.v.reserveShares /\ y.v.supply = w.v.supply
  /\ w.v.cash <= y.v.cash
  /\ FullAssets(w) <= FullAssets(y) /\ TotalAssets(w) <= TotalAssets(y)
  /\ TotalAssets(y) - TotalAssets(w) <= y.v.cash - w.v.cash
  /\ LockedIsThere(w) => LockedIsThere(y)
  /\ Marked(y, w)

\* The numbers that Level compares.
LEMMA LevelTypes ==
  ASSUME NEW w, Sound(w), EnvOk
  PROVE  /\ w.v.cash \in Nat /\ FullAssets(w) \in Nat /\ TotalAssets(w) \in Nat /\ w.v.highWater \in Nat
         /\ w.v.supply \in Nat /\ w.v.reserveShares \in Nat
BY PriceBounds DEF Sound, MoneyOk, PriceOk, StockOk

\* Nothing happened.
LEMMA LevelSelf == ASSUME NEW w, Sound(w), EnvOk PROVE Level(w, w)
BY LevelTypes DEF Level, Marked

\* Two steps that hold the price hold it together.
LEMMA LevelChain ==
  ASSUME NEW w, Sound(w), NEW y, Sound(y), NEW z, Sound(z), EnvOk, Level(y, w), Level(z, y)
  PROVE  Level(z, w)
<1>1. /\ w.v.cash \in Nat /\ FullAssets(w) \in Nat /\ TotalAssets(w) \in Nat /\ w.v.highWater \in Nat
      /\ w.v.supply \in Nat
  BY LevelTypes
<1>2. y.v.cash \in Nat /\ FullAssets(y) \in Nat /\ TotalAssets(y) \in Nat /\ y.v.highWater \in Nat
  BY LevelTypes
<1>3. z.v.cash \in Nat /\ FullAssets(z) \in Nat /\ TotalAssets(z) \in Nat /\ z.v.highWater \in Nat
  BY LevelTypes
<1>4. /\ z.v.reserveShares = w.v.reserveShares /\ z.v.supply = w.v.supply /\ y.v.supply = w.v.supply
      /\ FullAssets(y) <= FullAssets(z)
  BY DEF Level
<1>5. /\ w.v.cash <= z.v.cash /\ FullAssets(w) <= FullAssets(z) /\ TotalAssets(w) <= TotalAssets(z)
      /\ TotalAssets(z) - TotalAssets(w) <= z.v.cash - w.v.cash
  BY <1>1, <1>2, <1>3 DEF Level
<1>6. w.v.highWater <= z.v.highWater
  BY <1>1, <1>2, <1>3 DEF Level, Marked
<1>7. ASSUME z.v.feeAccrued # w.v.feeAccrued
      PROVE  w.v.supply # 0 /\ w.v.highWater <= Price(FullAssets(z), w.v.supply)
  <2>1. CASE y.v.feeAccrued # w.v.feeAccrued
    <3>1. w.v.supply # 0 /\ w.v.highWater <= Price(FullAssets(y), w.v.supply)
      BY <2>1 DEF Level, Marked
    <3>2. /\ Price(FullAssets(y), w.v.supply) \in Nat
          /\ Price(FullAssets(y), w.v.supply) <= Price(FullAssets(z), w.v.supply)
      BY <1>1, <1>2, <1>3, <1>4, <3>1, PriceGrows
    <3>3. Price(FullAssets(z), w.v.supply) \in Nat
      BY <1>1, <1>3, <3>1, PriceGrows
    <3> QED BY <1>1, <3>1, <3>2, <3>3
  <2>2. CASE y.v.feeAccrued = w.v.feeAccrued
    <3>1. w.v.supply # 0 /\ y.v.highWater <= Price(FullAssets(z), w.v.supply)
      BY <1>4, <1>7, <2>2 DEF Level, Marked
    <3>2. w.v.highWater <= y.v.highWater
      BY DEF Level, Marked
    <3>3. Price(FullAssets(z), w.v.supply) \in Nat
      BY <1>1, <1>3, <3>1, PriceGrows
    <3> QED BY <1>1, <1>2, <3>1, <3>2, <3>3
  <2> QED BY <2>1, <2>2
<1>8. LockedIsThere(w) => LockedIsThere(z)
  BY DEF Level
<1> QED BY <1>4, <1>5, <1>6, <1>7, <1>8 DEF Level, Marked

PricedFields ==
  {"cash", "reserveShares", "performing", "lockedProfit", "unlockStart", "unlockEnd", "position", "supply",
   "highWater", "feeAccrued"}

\* The price is the same where what it reads is the same.
LEMMA PriceSame ==
  ASSUME NEW w, Sound(w), NEW y, Sound(y), EnvOk, OpenListed(w.v), OpenListed(y.v),
         Same(y.v, w.v, PricedFields), Carrying(y.v) = Carrying(w.v),
         \A d \in Carrying(w.v) : Impaired(Loan(y, d)) <=> Impaired(Loan(w, d))
  PROVE  FullAssets(y) = FullAssets(w) /\ TotalAssets(y) = TotalAssets(w) /\ Level(y, w)
<1>1. /\ y.v.cash = w.v.cash /\ y.v.reserveShares = w.v.reserveShares /\ y.v.performing = w.v.performing
      /\ y.v.lockedProfit = w.v.lockedProfit /\ y.v.unlockStart = w.v.unlockStart
      /\ y.v.unlockEnd = w.v.unlockEnd /\ y.v.position = w.v.position /\ y.v.supply = w.v.supply
      /\ y.v.highWater = w.v.highWater /\ y.v.feeAccrued = w.v.feeAccrued
  BY DEF Same, PricedFields
<1>2. Due(y) = Due(w)
  BY DEF Due
<1>3. PendingLoss(y) = PendingLoss(w)
  BY <1>1, <1>2, PriceParts
<1>4. LockedProfit(y) = LockedProfit(w) /\ ReserveValue(y) = ReserveValue(w)
  BY <1>1 DEF LockedProfit, ReserveValue
<1>5. FullAssets(y) = FullAssets(w) /\ TotalAssets(y) = TotalAssets(w)
  BY <1>1, <1>3, <1>4 DEF FullAssets, TotalAssets, LockedAfterLoss
<1>6. LockedIsThere(w) => LockedIsThere(y)
  BY <1>3, <1>4, <1>5 DEF LockedIsThere, LockedAfterLoss
<1> QED BY <1>1, <1>5, <1>6, LevelTypes DEF Level, Marked
\* A whole amount of profit divided by the time it unlocks over is that amount.
LEMMA WholeLocked == \A a \in Nat, b \in Nat \ {0} : (a * b) \div b = a
<1>1. SUFFICES ASSUME NEW a \in Nat, NEW b \in Nat \ {0} PROVE (a * b) \div b = a
  OBVIOUS
<1> DEFINE p == a * b
           q == p \div b
<1>2. p \in Nat
  BY ProductNat
<1> HIDE DEF p
<1>3. q \in Nat /\ q * b <= p /\ p < (q + 1) * b
  BY <1>2, QuotientNat, QuotientBelow
<1> HIDE DEF q
<1>4. ~ (q + 1 <= a)
  <2>1. SUFFICES ASSUME q + 1 <= a PROVE FALSE
    OBVIOUS
  <2>2. (q + 1) * b <= a * b /\ (q + 1) * b \in Nat
    BY <1>3, <2>1, ProductGrows, ProductNat
  <2> QED BY <1>2, <1>3, <2>2 DEF p
<1>5. ~ (a + 1 <= q)
  <2>1. SUFFICES ASSUME a + 1 <= q PROVE FALSE
    OBVIOUS
  <2>2. (a + 1) * b <= q * b /\ (a + 1) * b \in Nat /\ q * b \in Nat
    BY <1>3, <2>1, ProductGrows, ProductNat
  <2>3. (a + 1) * b = a * b + b
    OBVIOUS
  <2> QED BY <1>2, <1>3, <2>2, <2>3 DEF p
<1>6. q = a
  BY <1>3, <1>4, <1>5
<1> QED BY <1>6 DEF q, p

\* A loss is taken from what is still locked at the moment, and the rest stays locked.
LEMMA LossLocked ==
  ASSUME NEW w, Sound(w), EnvOk, NEW loss \in Nat
  PROVE  LockedProfit(ReportLoss(w, loss)) = Over(LockedProfit(w), loss)
<1> DEFINE y == ReportLoss(w, loss)
           left == Over(LockedProfit(w), loss)
<1>1. ReportLossWrote(y, w, loss)
  BY SoundShape, ReportLossDoes
<1> HIDE DEF y
<1>2. /\ y.v.lockedProfit = left /\ y.v.unlockStart = now
      /\ y.v.unlockEnd = IF w.v.unlockEnd < now THEN now ELSE w.v.unlockEnd
  BY <1>1 DEF ReportLossWrote
<1>3. w.v.unlockEnd \in Nat /\ now \in Nat /\ LockedProfit(w) \in Nat
  BY PriceBounds DEF Sound, PriceOk, EnvOk
<1>4. left \in Nat
  BY <1>3 DEF Over
<1>5. CASE now >= w.v.unlockEnd
  <2>1. LockedProfit(w) = 0
    BY <1>5 DEF LockedProfit
  <2>2. left = 0
    BY <2>1 DEF Over
  <2>3. now >= y.v.unlockEnd
    BY <1>2, <1>3, <1>5
  <2>4. LockedProfit(y) = 0
    BY <2>3 DEF LockedProfit
  <2> QED BY <2>2, <2>4 DEF y
<1>6. CASE ~ (now >= w.v.unlockEnd)
  <2> HIDE DEF left
  <2> DEFINE b == w.v.unlockEnd - now
  <2>1. b \in Nat \ {0} /\ y.v.unlockEnd = w.v.unlockEnd /\ ~ (now >= y.v.unlockEnd)
    BY <1>2, <1>3, <1>6
  <2>2. LockedProfit(y) = (left * b) \div b
    BY <1>2, <2>1 DEF LockedProfit
  <2> HIDE DEF b
  <2>3. LockedProfit(y) = left
    BY <1>4, <2>1, <2>2, WholeLocked
  <2> QED BY <2>3 DEF y, left
<1> QED BY <1>5, <1>6

\* A loss that is no longer pending was taken from the same locked profit.
LEMMA LossTaken ==
  \A L, P \in Nat : \A n \in 0 .. P : Over(Over(L, n), P - n) = Over(L, P)
BY DEF Over

\* A loan leaves the loans the price carries.
LEMMA CarriedLess ==
  ASSUME NEW w, Sound(w), EnvOk, OpenListed(w.v), NEW d \in Carrying(w.v),
         NEW y, Sound(y), OpenListed(y.v), y.v.position = w.v.position, Carrying(y.v) = Carrying(w.v) \ {d},
         \A e \in Carrying(y.v) : Impaired(Loan(y, e)) <=> Impaired(Loan(w, e))
  PROVE  /\ w.v.position[d] \in Nat /\ y.v.performing = w.v.performing - w.v.position[d]
         /\ Impaired(Loan(w, d)) => /\ w.v.position[d] <= PendingLoss(w)
                                    /\ PendingLoss(y) = PendingLoss(w) - w.v.position[d]
         /\ ~ Impaired(Loan(w, d)) => PendingLoss(y) = PendingLoss(w)
<1>1. /\ w.v.performing = SumOver(Carrying(w.v), w.v.position) /\ PendingLoss(w) = SumOver(Due(w), w.v.position)
      /\ Carrying(w.v) \subseteq Deals /\ \A e \in Carrying(w.v) : w.v.position[e] \in Nat
  BY PriceParts
<1>2. /\ y.v.performing = SumOver(Carrying(w.v) \ {d}, w.v.position)
      /\ PendingLoss(y) = SumOver(Due(y), w.v.position)
  BY PriceParts
<1>3. w.v.position[d] \in Nat /\ y.v.performing = w.v.performing - w.v.position[d]
  BY <1>1, <1>2, BookLess
<1>4. Due(y) = Due(w) \ {d}
  BY DEF Due
<1>5. Due(w) \subseteq Carrying(w.v) /\ (Impaired(Loan(w, d)) <=> d \in Due(w))
  BY DEF Due
<1>6. ASSUME Impaired(Loan(w, d))
      PROVE  w.v.position[d] <= PendingLoss(w) /\ PendingLoss(y) = PendingLoss(w) - w.v.position[d]
  <2>1. Due(w) \in SUBSET Deals /\ d \in Due(w) /\ \A e \in Due(w) : w.v.position[e] \in Nat
    BY <1>1, <1>5, <1>6
  <2>2. /\ SumOver(Due(w) \ {d}, w.v.position) = SumOver(Due(w), w.v.position) - w.v.position[d]
        /\ w.v.position[d] <= SumOver(Due(w), w.v.position)
    BY <2>1, BookLess
  <2> QED BY <1>1, <1>2, <1>4, <2>2
<1>7. ASSUME ~ Impaired(Loan(w, d)) PROVE PendingLoss(y) = PendingLoss(w)
  <2>1. Due(y) = Due(w)
    BY <1>4, <1>5, <1>7
  <2> QED BY <1>1, <1>2, <2>1
<1> QED BY <1>3, <1>6, <1>7

\* A late loan was out of the price before it is written down.
LEMMA WriteDownLevel ==
  ASSUME NEW w, Sound(w), EnvOk, OpenListed(w.v), NEW d \in Carrying(w.v), Impaired(Loan(w, d))
  PROVE  LET y == WriteDown(w, d) IN Level(y, w) /\ OpenListed(y.v)
<1> DEFINE x == Written(w, d)
           n == w.v.position[d]
           y == WriteDown(w, d)
<1>1. d \in Live(w.v) \ w.v.overdue /\ y = ReportLoss(x, n)
  BY WriteDownIs DEF Carrying
<1>2. /\ Sound(x) /\ x.core = w.core /\ x.v.overdue = w.v.overdue \cup {d}
      /\ Same(x.v, w.v, Fields \ WrittenFields)
  BY <1>1, WrittenKeeps DEF Keeps
<1> HIDE DEF x
<1>3. n \in Nat
  BY PriceParts
<1> HIDE DEF n
<1>4. ReportLossWrote(y, x, n) /\ Sound(y)
  BY <1>1, <1>2, <1>3, SoundShape, ReportLossDoes, ReportLossKeeps DEF Keeps
<1>5. LockedProfit(y) = Over(LockedProfit(x), n)
  BY <1>1, <1>2, <1>3, LossLocked
<1> HIDE DEF y
<1>6. /\ x.v.cash = w.v.cash /\ x.v.reserveShares = w.v.reserveShares /\ x.v.supply = w.v.supply
      /\ x.v.position = w.v.position /\ x.v.funded = w.v.funded /\ x.v.terminal = w.v.terminal
      /\ x.v.openLoans = w.v.openLoans /\ x.v.highWater = w.v.highWater /\ x.v.feeAccrued = w.v.feeAccrued
      /\ x.v.lockedProfit = w.v.lockedProfit /\ x.v.unlockStart = w.v.unlockStart /\ x.v.unlockEnd = w.v.unlockEnd
  BY <1>2 DEF Same, Fields, WrittenFields
<1>7. /\ y.v.cash = x.v.cash /\ y.v.reserveShares = x.v.reserveShares /\ y.v.supply = x.v.supply
      /\ y.v.position = x.v.position /\ y.v.funded = x.v.funded /\ y.v.terminal = x.v.terminal
      /\ y.v.openLoans = x.v.openLoans /\ y.v.highWater = x.v.highWater /\ y.v.feeAccrued = x.v.feeAccrued
      /\ y.v.overdue = x.v.overdue /\ y.core = x.core
  BY <1>4 DEF ReportLossWrote, Same, Fields
<1>8. Carrying(y.v) = Carrying(w.v) \ {d} /\ OpenListed(y.v)
  BY <1>1, <1>2, <1>6, <1>7 DEF Carrying, Live, OpenListed
<1>9. \A e \in Carrying(y.v) : Impaired(Loan(y, e)) <=> Impaired(Loan(w, e))
  BY <1>2, <1>7 DEF Impaired, Loan
<1>10. y.v.position = w.v.position
  BY <1>6, <1>7
<1>11. /\ y.v.performing = w.v.performing - n
       /\ n <= PendingLoss(w) /\ PendingLoss(y) = PendingLoss(w) - n
  BY <1>4, <1>8, <1>9, <1>10, CarriedLess DEF n
<1>12. LockedProfit(x) = LockedProfit(w) /\ ReserveValue(y) = ReserveValue(w)
  BY <1>6, <1>7 DEF LockedProfit, ReserveValue
<1>13. /\ w.v.cash \in Nat /\ w.v.performing \in Nat /\ PendingLoss(w) \in Nat /\ ReserveValue(w) \in Nat
       /\ LockedProfit(w) \in Nat /\ FullAssets(w) = w.v.cash + ReserveValue(w) + w.v.performing - PendingLoss(w)
       /\ TotalAssets(w) = Over(FullAssets(w), Over(LockedProfit(w), PendingLoss(w)))
  BY PriceParts
<1>14. /\ FullAssets(y) = y.v.cash + ReserveValue(y) + y.v.performing - PendingLoss(y)
       /\ TotalAssets(y) = Over(FullAssets(y), Over(LockedProfit(y), PendingLoss(y)))
  BY <1>4, <1>8, PriceParts
<1>15. FullAssets(y) = FullAssets(w)
  BY <1>3, <1>6, <1>7, <1>11, <1>12, <1>13, <1>14
<1>16. Over(LockedProfit(y), PendingLoss(y)) = Over(LockedProfit(w), PendingLoss(w))
  <2>1. n \in 0 .. PendingLoss(w)
    BY <1>3, <1>11, <1>13
  <2> QED BY <1>5, <1>11, <1>12, <1>13, <2>1, LossTaken
<1>17. TotalAssets(y) = TotalAssets(w)
  BY <1>13, <1>14, <1>15, <1>16
<1>18. LockedIsThere(w) => LockedIsThere(y)
  BY <1>15, <1>16 DEF LockedIsThere, LockedAfterLoss
<1>19. Level(y, w)
  BY <1>6, <1>7, <1>15, <1>17, <1>18, LevelTypes DEF Level, Marked
<1> QED BY <1>8, <1>19 DEF y

\* The first part of a round: the late loan is written down, the price stays.
LEMMA WriteDownIfDueLevel ==
  ASSUME NEW w, Sound(w), EnvOk, OpenListed(w.v), NEW d \in Live(w.v)
  PROVE  LET y == WriteDownIfDue(w, d) IN Level(y, w) /\ OpenListed(y.v)
<1>1. CASE d \notin w.v.overdue /\ Impaired(Loan(w, d))
  <2>1. d \in Carrying(w.v) /\ WriteDownIfDue(w, d) = WriteDown(w, d)
    BY <1>1 DEF Carrying, WriteDownIfDue
  <2> QED BY <1>1, <2>1, WriteDownLevel
<1>2. CASE ~ (d \notin w.v.overdue /\ Impaired(Loan(w, d)))
  <2>1. WriteDownIfDue(w, d) = w
    BY <1>2 DEF WriteDownIfDue
  <2> QED BY <2>1, LevelSelf
<1> QED BY <1>1, <1>2
\* A fee that takes no more than the gain above the mark leaves the price at the mark or above.
LEMMA FeeLeavesMark ==
  ASSUME NEW F \in Nat, NEW S \in Nat \ {0}, NEW hw \in Nat, NEW P \in Nat \ {0}, NEW p, p = (F * P) \div S, hw <= p,
         NEW gain, gain = ((p - hw) * S) \div P, NEW fee \in Nat, fee <= gain, fee <= F
  PROVE  hw <= ((F - fee) * P) \div S
<1>1. F * P \in Nat /\ p \in Nat /\ p * S <= F * P
  BY ProductNat, QuotientNat
<1> DEFINE a == p - hw
<1>2. a \in Nat /\ p = hw + a
  BY <1>1
<1>3. p * S = hw * S + a * S
  BY <1>2
<1> HIDE DEF a
<1>4. a * S \in Nat /\ hw * S \in Nat
  BY <1>2, ProductNat
<1>5. gain \in Nat /\ gain * P <= a * S
  BY <1>4, QuotientNat DEF a
<1>6. fee * P \in Nat /\ gain * P \in Nat /\ fee * P <= gain * P
  BY <1>5, ProductNat, ProductGrows
<1> DEFINE left == F - fee
<1>7. left \in Nat /\ F = left + fee
  OBVIOUS
<1>8. F * P = left * P + fee * P
  BY <1>7
<1> HIDE DEF left
<1>9. left * P \in Nat
  BY <1>7, ProductNat
<1>10. hw * S <= left * P
  BY <1>1, <1>3, <1>4, <1>5, <1>6, <1>8, <1>9
<1>11. (hw * S) \div S <= (left * P) \div S
  BY <1>4, <1>9, <1>10, QuotientGrows
<1>12. (hw * S) \div S = hw
  BY WholeLocked
<1> QED BY <1>11, <1>12 DEF left

\* So a charge does.
LEMMA ChargeLeavesMark ==
  ASSUME NEW w, Sound(w), EnvOk, NEW d \in Deals, NEW profit \in Nat, profit <= w.v.cash, High(w)
  PROVE  /\ w.v.supply \in Nat \ {0}
         /\ w.v.highWater <= Price(FullAssets(w) - Charge(w, d, profit), w.v.supply)
<1> DEFINE fee == Charge(w, d, profit)
           F == FullAssets(w)
           S == w.v.supply
           hw == w.v.highWater
           p == (F * PRICE_PRECISION) \div S
           gain == ((p - hw) * S) \div PRICE_PRECISION
           m == Atmost(profit, gain)
           bps == w.v.loanFee[d]
<1>1. /\ S \in Nat \ {0} /\ hw \in Nat /\ bps \in 0 .. BPS /\ F \in Nat
      /\ PRICE_PRECISION \in Nat \ {0} /\ profit <= F
  <2>1. bps \in 0 .. BPS
    BY DEF Sound, LoanOk, LoanTypes
  <2>2. S \in Nat \ {0}
    BY LevelTypes DEF High
  <2>3. w.v.cash \in Nat /\ F \in Nat /\ hw \in Nat /\ w.v.cash <= F
    BY LevelTypes, PriceBounds
  <2>4. profit <= F
    BY <2>3
  <2> QED BY <2>1, <2>2, <2>3, <2>4, Parameters
<1>2. fee \in 0 .. profit
  BY ChargeBounds
<1>3. p > hw /\ Price(F, S) = p
  BY DEF High, Price
<1>4. fee = (m * bps) \div BPS
  BY DEF Charge, Price
<1>5. Price(F - fee, S) = ((F - fee) * PRICE_PRECISION) \div S
  BY DEF Price
<1> HIDE DEF fee, F, S, hw, bps
<1>6. F * PRICE_PRECISION \in Nat /\ p \in Nat
  <2>1. F * PRICE_PRECISION \in Nat
    BY <1>1, ProductNat
  <2> QED BY <1>1, <2>1, QuotientNat
<1> HIDE DEF p
<1>7. gain \in Nat
  <2>1. p - hw \in Nat
    BY <1>1, <1>3, <1>6
  <2>2. (p - hw) * S \in Nat
    BY <1>1, <2>1, ProductNat
  <2> QED BY <1>1, <2>2, QuotientNat
<1> HIDE DEF gain
<1>8. m \in Nat /\ m <= gain
  BY <1>7 DEF Atmost
<1> HIDE DEF m
<1>9. fee \in 0 .. m
  BY <1>1, <1>4, <1>8, PartOf
<1>10. fee \in Nat /\ fee <= gain /\ fee <= F
  BY <1>1, <1>2, <1>7, <1>8, <1>9
<1>11. hw <= p
  BY <1>1, <1>3, <1>6
<1>12. hw <= ((F - fee) * PRICE_PRECISION) \div S
  BY <1>1, <1>10, <1>11, FeeLeavesMark DEF p, gain
<1> QED BY <1>1, <1>5, <1>12 DEF fee, F, S, hw

\* A profit that is all locked when it is reported raises the price by no more than itself.
LEMMA ProfitLocked ==
  \A F, L, P, g \in Nat :
    /\ Over(F, Over(L, P)) <= Over(F + g, Over(L + g, P))
    /\ Over(F + g, Over(L + g, P)) - Over(F, Over(L, P)) <= g
    /\ Over(L, P) <= F => Over(L + g, P) <= F + g
BY DEF Over

\* A loan that is on time is replaced by its payout, and a profit over it is locked.
LEMMA RetireOnTime ==
  ASSUME NEW w, Sound(w), EnvOk, OpenListed(w.v), NEW d \in Carrying(w.v), NEW payout \in Nat,
         w.v.assigned + payout <= w.v.harvested, Over0(w, d),
         ~ Impaired(Loan(w, d)), w.v.position[d] <= payout
  PROVE  LET y == Retire(w, d, payout) IN Level(y, w) /\ OpenListed(y.v)
<1> DEFINE x == Ended0(w, d, payout)
           z == Paid(x, payout)
           n == w.v.position[d]
           profit == payout - n
           y == Retire(w, d, payout)
<1>1. d \in Live(w.v) /\ d \notin w.v.overdue /\ d \in Deals
  BY DEF Carrying, Sound, LoanOk, LoanTypes, Live
<1>2. n \in Nat /\ Carried(w, d) = n /\ n <= payout
  BY <1>1, PriceParts DEF Carried
<1>3. y = IF payout > n THEN ReportProfit(z, d, profit) ELSE z
  BY <1>1, <1>2, RetireIs
<1>4. Sound(x) /\ Claims(x.v) + payout <= x.held["USDG"] /\ EndedWrote(x, w, d, payout)
  BY <1>1, EndedKeeps, SoundShape, EndedDoes DEF Keeps
<1> HIDE DEF x
<1>5. Sound(z) /\ PaidWrote(z, x, payout)
  BY <1>4, PaidKeeps, SoundShape, PaidDoes DEF Keeps
<1> HIDE DEF z, y, n
<1>6. /\ x.v.cash = w.v.cash /\ x.v.reserveShares = w.v.reserveShares /\ x.v.supply = w.v.supply
      /\ x.v.position = w.v.position /\ x.v.funded = w.v.funded /\ x.v.overdue = w.v.overdue
      /\ x.v.openLoans = w.v.openLoans /\ x.v.highWater = w.v.highWater /\ x.v.feeAccrued = w.v.feeAccrued
      /\ x.v.lockedProfit = w.v.lockedProfit /\ x.v.unlockStart = w.v.unlockStart /\ x.v.unlockEnd = w.v.unlockEnd
      /\ x.v.terminal = w.v.terminal \cup {d} /\ x.core = w.core
  BY <1>4 DEF EndedWrote, Same, Fields
<1>7. /\ z.v.cash = w.v.cash + payout /\ z.v.reserveShares = x.v.reserveShares /\ z.v.supply = x.v.supply
      /\ z.v.position = x.v.position /\ z.v.funded = x.v.funded /\ z.v.terminal = x.v.terminal
      /\ z.v.openLoans = x.v.openLoans /\ z.v.highWater = x.v.highWater /\ z.v.feeAccrued = x.v.feeAccrued
      /\ z.v.overdue = x.v.overdue /\ z.core = x.core
      /\ z.v.lockedProfit = x.v.lockedProfit /\ z.v.unlockStart = x.v.unlockStart /\ z.v.unlockEnd = x.v.unlockEnd
  BY <1>5, <1>6 DEF PaidWrote, Same, Fields
<1>8. Carrying(z.v) = Carrying(w.v) \ {d} /\ OpenListed(z.v)
  BY <1>6, <1>7 DEF Carrying, Live, OpenListed
<1>9. \A e \in Carrying(z.v) : Impaired(Loan(z, e)) <=> Impaired(Loan(w, e))
  BY <1>6, <1>7 DEF Impaired, Loan
<1>10. z.v.position = w.v.position
  BY <1>6, <1>7
<1>11. z.v.performing = w.v.performing - n /\ PendingLoss(z) = PendingLoss(w)
  BY <1>5, <1>8, <1>9, <1>10, CarriedLess DEF n
<1>12. LockedProfit(z) = LockedProfit(w) /\ ReserveValue(z) = ReserveValue(w)
  BY <1>6, <1>7 DEF LockedProfit, ReserveValue
<1>13. /\ w.v.cash \in Nat /\ w.v.performing \in Nat /\ PendingLoss(w) \in Nat /\ ReserveValue(w) \in Nat
       /\ PendingLoss(w) <= w.v.performing
       /\ LockedProfit(w) \in Nat /\ FullAssets(w) = w.v.cash + ReserveValue(w) + w.v.performing - PendingLoss(w)
       /\ TotalAssets(w) = Over(FullAssets(w), Over(LockedProfit(w), PendingLoss(w)))
  BY PriceParts
<1>14. /\ FullAssets(z) = z.v.cash + ReserveValue(z) + z.v.performing - PendingLoss(z)
       /\ TotalAssets(z) = Over(FullAssets(z), Over(LockedProfit(z), PendingLoss(z)))
  BY <1>5, <1>8, PriceParts
<1>15. FullAssets(z) = FullAssets(w) + profit /\ profit \in Nat
  BY <1>2, <1>7, <1>11, <1>12, <1>13, <1>14
<1>16. CASE payout = n
  <2>1. y = z /\ FullAssets(z) = FullAssets(w)
    BY <1>2, <1>3, <1>13, <1>15, <1>16
  <2>2. TotalAssets(z) = TotalAssets(w)
    BY <1>11, <1>12, <1>13, <1>14, <2>1
  <2>3. LockedIsThere(w) => LockedIsThere(z)
    BY <1>11, <1>12, <2>1 DEF LockedIsThere, LockedAfterLoss
  <2>4. Level(z, w)
    BY <1>6, <1>7, <1>13, <2>1, <2>2, <2>3, LevelTypes DEF Level, Marked
  <2> QED BY <1>8, <2>1, <2>4 DEF y
<1>17. CASE payout > n
  <2>1. y = ReportProfit(z, d, profit) /\ profit \in Nat /\ profit <= z.v.cash
    BY <1>2, <1>3, <1>7, <1>13, <1>17
  <2> DEFINE fee == Charge(z, d, profit)
             g == profit - fee
  <2> HIDE DEF profit
  <2>2. ReportProfitWrote(y, z, d, profit) /\ Sound(y)
    BY <1>1, <1>5, <2>1, SoundShape, ReportProfitDoes, ReportProfitKeeps DEF Keeps
  <2>3. fee \in 0 .. profit
    BY <1>1, <1>5, <2>1, ChargeBounds
  <2>4. High(z) => z.v.supply \in Nat \ {0} /\ z.v.highWater <= Price(FullAssets(z) - fee, z.v.supply)
    BY <1>1, <1>5, <2>1, ChargeLeavesMark
  <2>5. ~ High(z) => fee = 0
    BY DEF Charge
  <2>6. /\ y.v.cash = z.v.cash - fee /\ y.v.feeAccrued = z.v.feeAccrued + fee
        /\ y.v.highWater = IF High(z) THEN Price(FullAssets(z) - fee, z.v.supply) ELSE z.v.highWater
        /\ y.v.lockedProfit = LockedProfit(z) + profit - fee
        /\ y.v.unlockStart = now /\ y.v.unlockEnd = now + PROFIT_UNLOCK
        /\ y.v.reserveShares = z.v.reserveShares /\ y.v.supply = z.v.supply /\ y.v.position = z.v.position
        /\ y.v.funded = z.v.funded /\ y.v.terminal = z.v.terminal /\ y.v.openLoans = z.v.openLoans
        /\ y.v.overdue = z.v.overdue /\ y.v.performing = z.v.performing /\ y.core = z.core
    BY <2>2 DEF ReportProfitWrote, Same, Fields
  <2> HIDE DEF fee
  <2>7. g \in Nat /\ g = profit - fee /\ fee \in Nat
    BY <2>1, <2>3
  <2> HIDE DEF g
  <2>8. OpenListed(y.v) /\ Carrying(y.v) = Carrying(z.v)
    BY <1>8, <2>6 DEF OpenListed, Carrying, Live
  <2>9. Due(y) = Due(z)
    BY <2>6, <2>8 DEF Due, Impaired, Loan
  <2>10. PendingLoss(y) = PendingLoss(z) /\ ReserveValue(y) = ReserveValue(z)
    BY <1>5, <1>8, <2>2, <2>6, <2>8, <2>9, PriceParts DEF ReserveValue
  <2>11. LockedProfit(y) = LockedProfit(w) + g
    <3> DEFINE a == y.v.lockedProfit
               b == PROFIT_UNLOCK
    <3>1. b \in Nat \ {0} /\ now \in Nat
      BY Parameters DEF EnvOk
    <3>2. a = LockedProfit(w) + g /\ a \in Nat
      BY <1>12, <1>13, <2>1, <2>6, <2>7
    <3>3. LockedProfit(y) = (a * ((now + b) - now)) \div ((now + b) - now)
      BY <2>6, <3>1 DEF LockedProfit
    <3>4. (now + b) - now = b
      BY <3>1
    <3> HIDE DEF a, b
    <3>5. LockedProfit(y) = (a * b) \div b
      BY <3>3, <3>4
    <3> QED BY <3>1, <3>2, <3>5, WholeLocked
  <2>12. /\ FullAssets(y) = y.v.cash + ReserveValue(y) + y.v.performing - PendingLoss(y)
         /\ TotalAssets(y) = Over(FullAssets(y), Over(LockedProfit(y), PendingLoss(y)))
    BY <2>2, <2>8, PriceParts
  <2>13. FullAssets(y) = FullAssets(z) - fee
    BY <1>2, <1>7, <1>11, <1>12, <1>13, <1>14, <2>6, <2>7, <2>10, <2>12
  <2>14. FullAssets(y) = FullAssets(w) + g
    BY <1>15, <1>13, <2>1, <2>7, <2>13
  <2> DEFINE F == FullAssets(w)
             L == LockedProfit(w)
             P == PendingLoss(w)
  <2>15. /\ F \in Nat /\ L \in Nat /\ P \in Nat
         /\ TotalAssets(w) = Over(F, Over(L, P)) /\ TotalAssets(y) = Over(F + g, Over(L + g, P))
    BY <1>11, <1>13, <2>10, <2>11, <2>12, <2>14, LevelTypes
  <2> HIDE DEF F, L, P
  <2>16. TotalAssets(w) <= TotalAssets(y) /\ TotalAssets(y) - TotalAssets(w) <= g
    BY <2>7, <2>15, ProfitLocked
  <2>17. y.v.cash - w.v.cash = payout - fee /\ g <= payout - fee /\ w.v.cash <= y.v.cash
    BY <1>2, <1>7, <1>13, <2>1, <2>6, <2>7 DEF profit
  <2>18. FullAssets(w) <= FullAssets(y)
    BY <2>7, <2>14, <2>15 DEF F
  <2>19. TotalAssets(y) - TotalAssets(w) <= y.v.cash - w.v.cash
    <3>1. TotalAssets(y) \in Nat /\ TotalAssets(w) \in Nat /\ y.v.cash \in Nat /\ w.v.cash \in Nat
      BY <2>2, LevelTypes
    <3> QED BY <2>7, <2>16, <2>17, <3>1
  <2>20. Marked(y, w)
    <3>1. w.v.highWater \in Nat /\ z.v.highWater = w.v.highWater /\ z.v.supply = w.v.supply
          /\ z.v.feeAccrued = w.v.feeAccrued /\ z.v.feeAccrued \in Nat
      BY <1>5, <1>6, <1>7 DEF Sound, PriceOk, MoneyOk
    <3>2. CASE High(z)
      BY <2>4, <2>6, <2>13, <3>1, <3>2 DEF Marked
    <3>3. CASE ~ High(z)
      <4>1. y.v.feeAccrued = w.v.feeAccrued /\ y.v.highWater = w.v.highWater
        BY <2>5, <2>6, <3>1, <3>3
      <4> QED BY <3>1, <4>1 DEF Marked
    <3> QED BY <3>2, <3>3
  <2>21. y.v.reserveShares = w.v.reserveShares /\ y.v.supply = w.v.supply
    BY <1>6, <1>7, <2>6
  <2>22. LockedIsThere(w) => LockedIsThere(y)
    <3>1. LockedIsThere(w) <=> Over(L, P) <= F
      BY DEF LockedIsThere, LockedAfterLoss, F, L, P
    <3>2. LockedIsThere(y) <=> Over(L + g, P) <= F + g
      BY <1>11, <2>10, <2>11, <2>14 DEF LockedIsThere, LockedAfterLoss, F, L, P
    <3> QED BY <2>7, <2>15, <3>1, <3>2, ProfitLocked
  <2>23. Level(y, w)
    BY <2>16, <2>17, <2>18, <2>19, <2>20, <2>21, <2>22 DEF Level
  <2> QED BY <2>8, <2>23 DEF y
<1> QED BY <1>2, <1>16, <1>17 DEF n
\* What a part of a checkpoint establishes.
Leveled(y, w) == Sound(y) /\ OpenListed(y.v) /\ Level(y, w)

\* Two parts together.
LEMMA LeveledChain ==
  ASSUME NEW w, Sound(w), EnvOk, NEW y, Leveled(y, w), NEW z, Leveled(z, y)
  PROVE  Leveled(z, w)
BY LevelChain DEF Leveled

BookOfLoans == {"funded", "terminal", "overdue", "openLoans"}

\* A step that writes nothing the price reads, and moves no deal.
LEMMA QuietLevel ==
  ASSUME NEW w, Sound(w), EnvOk, OpenListed(w.v), NEW y, Sound(y),
         NEW K, Same(y.v, w.v, Fields \ K), K \cap (PricedFields \cup BookOfLoans) = {},
         y.core.deal = w.core.deal
  PROVE  Leveled(y, w)
<1>1. PricedFields \cup BookOfLoans \subseteq Fields \ K
  <2>1. PricedFields \cup BookOfLoans \subseteq Fields
    BY DEF PricedFields, BookOfLoans, Fields
  <2> QED BY <2>1
<1>2. Same(y.v, w.v, PricedFields)
  BY <1>1 DEF Same
<1>3. /\ y.v.funded = w.v.funded /\ y.v.terminal = w.v.terminal /\ y.v.overdue = w.v.overdue
      /\ y.v.openLoans = w.v.openLoans
  <2>1. \A f \in BookOfLoans : y.v[f] = w.v[f]
    BY <1>1 DEF Same
  <2> QED BY <2>1 DEF BookOfLoans
<1>4. OpenListed(y.v) /\ Carrying(y.v) = Carrying(w.v)
  BY <1>3 DEF OpenListed, Carrying, Live
<1>5. \A d \in Carrying(w.v) : Impaired(Loan(y, d)) <=> Impaired(Loan(w, d))
  BY DEF Impaired, Loan
<1> QED BY <1>2, <1>4, <1>5, PriceSame DEF Leveled

\* None of these steps of a checkpoint writes what the price reads.
LEMMA QuietFields ==
  /\ {"harvested"} \cap (PricedFields \cup BookOfLoans) = {}
  /\ {"pocketLiability", "pockets"} \cap (PricedFields \cup BookOfLoans) = {}
  /\ ShareFields \cap (PricedFields \cup BookOfLoans) = {}
BY DEF PricedFields, BookOfLoans, ShareFields

\* A loan that was written down before leaves the book and the price as it is.
LEMMA RetireLate ==
  ASSUME NEW w, Sound(w), EnvOk, OpenListed(w.v), NEW d \in Live(w.v), d \in w.v.overdue, NEW payout \in Nat,
         w.v.assigned + payout <= w.v.harvested, Over0(w, d)
  PROVE  Leveled(Retire(w, d, payout), w)
<1> DEFINE x == Ended0(w, d, payout)
           z == OpenPocket(x, d, "USDG", payout)
           y == Retire(w, d, payout)
<1>1. y = IF payout # 0 THEN z ELSE x
  BY RetireIs
<1>2. Sound(x) /\ EndedWrote(x, w, d, payout)
  BY EndedKeeps, SoundShape, EndedDoes DEF Keeps
<1> HIDE DEF x
<1>3. OpenPocketWrote(z, x, d, "USDG", payout)
  BY <1>2, SoundShape, OpenPocketDoes
<1> HIDE DEF z
<1>4. Sound(y) /\ y.core = w.core
  BY RetireKeeps DEF Round, Keeps
<1> HIDE DEF y
<1>5. w.v.performing \in Nat /\ Carried(w, d) = 0
  BY PriceParts DEF Carried
<1>6. /\ x.v.cash = w.v.cash /\ x.v.reserveShares = w.v.reserveShares /\ x.v.supply = w.v.supply
      /\ x.v.position = w.v.position /\ x.v.funded = w.v.funded /\ x.v.overdue = w.v.overdue
      /\ x.v.openLoans = w.v.openLoans /\ x.v.highWater = w.v.highWater /\ x.v.feeAccrued = w.v.feeAccrued
      /\ x.v.lockedProfit = w.v.lockedProfit /\ x.v.unlockStart = w.v.unlockStart /\ x.v.unlockEnd = w.v.unlockEnd
      /\ x.v.terminal = w.v.terminal \cup {d} /\ x.v.performing = w.v.performing
  BY <1>2, <1>5 DEF EndedWrote, Same, Fields
<1>7. /\ z.v.cash = x.v.cash /\ z.v.reserveShares = x.v.reserveShares /\ z.v.supply = x.v.supply
      /\ z.v.position = x.v.position /\ z.v.funded = x.v.funded /\ z.v.overdue = x.v.overdue
      /\ z.v.openLoans = x.v.openLoans /\ z.v.highWater = x.v.highWater /\ z.v.feeAccrued = x.v.feeAccrued
      /\ z.v.lockedProfit = x.v.lockedProfit /\ z.v.unlockStart = x.v.unlockStart /\ z.v.unlockEnd = x.v.unlockEnd
      /\ z.v.terminal = x.v.terminal /\ z.v.performing = x.v.performing
  BY <1>3 DEF OpenPocketWrote, Same, Fields
<1>8. /\ y.v.cash = w.v.cash /\ y.v.reserveShares = w.v.reserveShares /\ y.v.supply = w.v.supply
      /\ y.v.position = w.v.position /\ y.v.funded = w.v.funded /\ y.v.overdue = w.v.overdue
      /\ y.v.openLoans = w.v.openLoans /\ y.v.highWater = w.v.highWater /\ y.v.feeAccrued = w.v.feeAccrued
      /\ y.v.lockedProfit = w.v.lockedProfit /\ y.v.unlockStart = w.v.unlockStart /\ y.v.unlockEnd = w.v.unlockEnd
      /\ y.v.terminal = w.v.terminal \cup {d} /\ y.v.performing = w.v.performing
  BY <1>1, <1>6, <1>7
<1>9. Same(y.v, w.v, PricedFields)
  BY <1>8 DEF Same, PricedFields
<1>10. OpenListed(y.v) /\ Carrying(y.v) = Carrying(w.v)
  BY <1>8 DEF OpenListed, Carrying, Live
<1>11. \A e \in Carrying(w.v) : Impaired(Loan(y, e)) <=> Impaired(Loan(w, e))
  BY <1>4 DEF Impaired, Loan
<1> QED BY <1>4, <1>9, <1>10, <1>11, PriceSame DEF Leveled, y

\* What the units in S receive grows with the amount that is split.
LEMMA ShareGrows ==
  ASSUME NEW a \in Nat, NEW b \in Nat, a <= b, NEW S PROVE Share(a, S) <= Share(b, S)
<1>1. \A i \in 0 .. 3 : Slice(a, i) \in Nat /\ Slice(b, i) \in Nat /\ Slice(a, i) <= Slice(b, i)
  BY DEF Slice, UNITS
<1> DEFINE f(n) == [i \in Slots |-> IF i \in S THEN Slice(n, i) ELSE 0]
<1>2. \A i \in 0 .. 3 : f(a)[i] \in Nat /\ f(b)[i] \in Nat /\ f(a)[i] <= f(b)[i]
  BY <1>1 DEF Slots
<1>3. Share(a, S) = f(a)[0] + f(a)[1] + f(a)[2] + f(a)[3] /\ Share(b, S) = f(b)[0] + f(b)[1] + f(b)[2] + f(b)[3]
  BY DEF Share, SumSlots
<1> HIDE DEF f
<1> QED BY <1>2, <1>3

\* A settlement holds the price: a loan that is on time pays at least what it is carried at.
LEMMA SettleLoanLevel ==
  ASSUME NEW w, Sound(w), EnvOk, OpenListed(w.v), NEW d \in Live(w.v), Impaired(Loan(w, d)) => d \in w.v.overdue
  PROVE  Leveled(SettleLoan(w, d), w)
<1> DEFINE state == w.core.deal[d].state
           refund == d \in w.v.withdrawn \/ state = "CANCELLED"
           payout == IF refund THEN w.v.position[d] ELSE Share(Terms[d].cap, w.v.slots[d])
           y == SettleLoan(w, d)
<1>1. y = IF refund \/ state = "REPAID" THEN (IF Arrived(w, payout) THEN Retire(w, d, payout) ELSE w)
          ELSE IF state = "DEFAULTED" /\ CanRecoverLoan(w, d) THEN Retire(RecoverLoan(w, d), d, 0) ELSE w
  BY DEF SettleLoan, Then
<1>2. Current(w, d)
  BY CurrentWhenDue
<1>3. payout \in Nat /\ w.v.position[d] \in Nat /\ w.v.position[d] <= payout /\ d \in Deals
  <2>1. d \in Deals /\ d \in w.v.funded /\ w.v.position[d] \in Nat
        /\ Terms[d].cap \in Nat /\ Terms[d].principal \in Nat
    BY Parameters DEF Sound, LoanOk, LoanTypes, Live
  <2>2. w.v.position[d] = Share(Terms[d].principal, w.v.slots[d])
    BY <2>1 DEF Sound, LoanOk, AtPrincipal
  <2>3. Terms[d].principal <= Terms[d].cap
    BY <2>1, HybridAssumption
  <2>4. Share(Terms[d].cap, w.v.slots[d]) \in Nat
    BY <2>1, ShareNat
  <2>5. Share(Terms[d].principal, w.v.slots[d]) <= Share(Terms[d].cap, w.v.slots[d])
    BY <2>1, <2>3, ShareGrows
  <2> QED BY <2>1, <2>2, <2>4, <2>5
<1> HIDE DEF payout, y
<1>4. CASE (refund \/ state = "REPAID") /\ Arrived(w, payout)
  <2>1. Over0(w, d)
    BY <1>2, <1>4 DEF Over0, Final, Current
  <2>2. w.v.assigned + payout <= w.v.harvested
    BY <1>4 DEF Arrived
  <2>3. Sound(Retire(w, d, payout))
    BY <1>3, <2>1, <2>2, RetireKeeps DEF Round, Keeps
  <2>4. CASE d \in w.v.overdue
    BY <1>1, <1>3, <1>4, <2>1, <2>2, <2>4, RetireLate DEF y
  <2>5. CASE d \notin w.v.overdue
    <3>1. d \in Carrying(w.v) /\ ~ Impaired(Loan(w, d))
      BY <2>5 DEF Carrying
    <3>2. Level(Retire(w, d, payout), w) /\ OpenListed(Retire(w, d, payout).v)
      BY <1>3, <2>1, <2>2, <3>1, RetireOnTime
    <3> QED BY <1>1, <1>4, <2>3, <3>2 DEF y, Leveled
  <2> QED BY <2>4, <2>5
<1>5. CASE ~ (refund \/ state = "REPAID") /\ state = "DEFAULTED" /\ CanRecoverLoan(w, d)
  <2> DEFINE x == RecoverLoan(w, d)
             none == 0
  <2>1. d \in w.v.overdue
    BY <1>2, <1>5 DEF Current, Late
  <2>2. /\ Keeps(x, w) /\ x.core.deal = w.core.deal
        /\ Same(x.v, w.v, Fields \ {"pocketLiability", "pockets"})
    BY <2>1, RecoverLoanKeeps
  <2> HIDE DEF x
  <2>3. Sound(x) /\ x.v.funded = w.v.funded /\ x.v.terminal = w.v.terminal /\ x.v.overdue = w.v.overdue
    BY <2>2 DEF Keeps, Same, Fields
  <2>4. Leveled(x, w)
    BY <2>2, <2>3, QuietLevel, QuietFields
  <2>5. d \in Live(x.v) /\ d \in x.v.overdue /\ Over0(x, d)
    BY <1>5, <2>1, <2>2, <2>3 DEF Live, Over0, Final
  <2>6. none \in Nat /\ x.v.assigned + none <= x.v.harvested
    BY <2>3 DEF Sound, MoneyOk
  <2>7. y = Retire(x, d, none)
    BY <1>1, <1>5 DEF x
  <2> HIDE DEF none
  <2>8. Leveled(Retire(x, d, none), x)
    BY <2>3, <2>4, <2>5, <2>6, RetireLate DEF Leveled
  <2> QED BY <2>4, <2>7, <2>8, LeveledChain DEF y
<1>6. CASE y = w
  BY <1>6, LevelSelf DEF y, Leveled
<1> QED BY <1>1, <1>4, <1>5, <1>6

\* A default is finalized only for a loan that is late and so out of the price.
LEMMA FinalizeIfDueLevel ==
  ASSUME NEW w, Sound(w), EnvOk, OpenListed(w.v), NEW d \in Live(w.v), Impaired(Loan(w, d)) => d \in w.v.overdue
  PROVE  Leveled(FinalizeIfDue(w, d), w)
<1> DEFINE y == FinalizeIfDue(w, d)
<1>1. /\ Round(y, w, d) /\ y.v = w.v
      /\ \A e \in Deals \ {d} : y.core.deal[e] = w.core.deal[e]
      /\ Impaired(Loan(y, d)) => d \in y.v.overdue
  BY FinalizeIfDueKeeps
<1> HIDE DEF y
<1>2. Sound(y) /\ OpenListed(y.v) /\ Same(y.v, w.v, PricedFields) /\ Carrying(y.v) = Carrying(w.v)
  BY <1>1 DEF Round, Keeps, Same
<1>3. ASSUME NEW e \in Carrying(w.v) PROVE Impaired(Loan(y, e)) <=> Impaired(Loan(w, e))
  <2>1. CASE e = d
    BY <1>1, <2>1 DEF Carrying
  <2>2. CASE e # d
    <3>1. e \in Deals \ {d}
      BY <2>2, PriceParts
    <3> QED BY <1>1, <3>1 DEF Impaired, Loan
  <2> QED BY <2>1, <2>2
<1> QED BY <1>2, <1>3, PriceSame DEF Leveled, y

\* One round of the checkpoint holds the price.
LEMMA BringCurrentLevel ==
  ASSUME NEW w, Sound(w), EnvOk, OpenListed(w.v), NEW d \in Live(w.v)
  PROVE  Leveled(BringCurrent(w, d), w)
<1> DEFINE a == WriteDownIfDue(w, d)
           b == FinalizeIfDue(a, d)
           c == SettleLoan(b, d)
           e == AccrueReward(c, d)
<1>1. BringCurrent(w, d) = e
  BY BringCurrentIs
<1>2. d \in Deals
  BY DEF Sound, LoanOk, LoanTypes, Live
<1>3. Sound(a) /\ d \in Live(a.v) /\ (Impaired(Loan(a, d)) => d \in a.v.overdue)
  BY WriteDownIfDueKeeps DEF Round, Keeps
<1>4. Leveled(a, w)
  BY <1>3, WriteDownIfDueLevel DEF Leveled
<1> HIDE DEF a
<1>5. b.v = a.v /\ (Impaired(Loan(b, d)) => d \in b.v.overdue)
  BY <1>3, FinalizeIfDueKeeps
<1>6. Leveled(b, a)
  BY <1>3, <1>4, FinalizeIfDueLevel DEF Leveled
<1> HIDE DEF b
<1>7. Leveled(c, b)
  BY <1>3, <1>5, <1>6, SettleLoanLevel DEF Leveled
<1> HIDE DEF c
<1>8. Keeps(e, c) /\ Same(e.v, c.v, Fields \ ShareFields) /\ e.core.deal = c.core.deal
  BY <1>2, <1>7, AccrueRewardKeeps DEF Leveled
<1> HIDE DEF e
<1>9. Leveled(e, c)
  BY <1>7, <1>8, QuietLevel, QuietFields DEF Leveled, Keeps
<1>10. Leveled(b, w)
  BY <1>4, <1>6, LeveledChain
<1>11. Leveled(c, w)
  BY <1>7, <1>10, LeveledChain
<1> QED BY <1>1, <1>9, <1>11, LeveledChain

\* So does the whole walk.
LEMMA WalkLevel ==
  ASSUME NEW w, Sound(w), EnvOk, ListOk(w.v)
  PROVE  Leveled(Walk(w), w)
<1> DEFINE s == w.v.openLoans
           n == Len(s)
<1>1. n \in Nat /\ DOMAIN s = 1 .. n
  BY DEF Sound, LoanOk, LoanTypes
<1> HIDE DEF n
<1>2. PICK f : Steps(f, "loans", {}, w, s, n) /\ Walk(w) = f[n]
  BY <1>1, WalkSteps
<1> DEFINE A == {k \in 0 .. n : Walked(f[k], w, k) /\ Leveled(f[k], w)}
<1>3. 0 \in A
  <2>1. f[0] = w
    BY <1>2 DEF Steps
  <2>2. Walked(w, w, 0)
    BY KeepsSelf DEF Walked, Same
  <2>3. Leveled(w, w)
    BY LevelSelf DEF Leveled, OpenListed, ListOk
  <2> QED BY <1>1, <2>1, <2>2, <2>3
<1>4. ASSUME NEW k \in 1 .. n, k - 1 \in A PROVE k \in A
  <2> DEFINE x == f[k - 1]
  <2>1. f[k] = BringCurrent(x, s[k])
    BY <1>2 DEF Steps, Turn
  <2>2. Walked(x, w, k - 1) /\ Leveled(x, w)
    BY <1>4
  <2> HIDE DEF x
  <2>3. Sound(x) /\ s[k] \in Live(x.v) /\ Walked(BringCurrent(x, s[k]), w, k)
    BY <1>1, <2>2, WalkTurn
  <2>4. Leveled(BringCurrent(x, s[k]), x)
    BY <2>2, <2>3, BringCurrentLevel DEF Leveled
  <2>5. Leveled(BringCurrent(x, s[k]), w)
    BY <2>2, <2>4, LeveledChain
  <2> QED BY <2>1, <2>3, <2>5
<1>5. n \in A
  <2> HIDE DEF A
  <2>1. A \in SUBSET (0 .. n)
    BY DEF A
  <2> QED BY <1>1, <1>3, <1>4, <2>1, TurnByTurn
<1> QED BY <1>2, <1>5

\* A checkpoint never lowers the share price, raises it by no more than the cash it brings, and charges
\* fees only where the price stands at the mark or above.
LEMMA CheckpointLevel ==
  ASSUME NEW w, Good(w), EnvOk
  PROVE  Leveled(Checkpoint(w), w)
<1> DEFINE a == HarvestCash(w)
           b == Walk(a)
           c == ReconcileRewards(b)
           y == DropTerminal(c)
<1>1. Checkpoint(w) = y
  BY CheckpointIs
<1>2. Sound(w) /\ ListOk(w.v) /\ OpenListed(w.v)
  BY DEF Good, OpenListed, ListOk
<1>3. Keeps(a, w) /\ a.core.deal = w.core.deal /\ Same(a.v, w.v, Fields \ {"harvested"})
  BY <1>2, HarvestCashKeeps
<1> HIDE DEF a
<1>4. Sound(a) /\ ListOk(a.v)
  BY <1>2, <1>3 DEF Keeps, ListOk, Live, Same, Fields
<1>5. Leveled(a, w)
  BY <1>2, <1>3, <1>4, QuietLevel, QuietFields
<1>6. Leveled(b, a) /\ IsInjective(b.v.openLoans)
  <2>1. Same(b.v, a.v, Fields \ WalkFields)
    BY <1>4, WalkKeeps
  <2>2. b.v.openLoans = a.v.openLoans
    BY <2>1 DEF Same, Fields, WalkFields, WrittenFields, PriceFields, CashFields, ShareFields, EndedFields
  <2> QED BY <1>4, <2>2, WalkLevel DEF ListOk
<1> HIDE DEF b
<1>7. Keeps(c, b) /\ c.core = b.core /\ Same(c.v, b.v, Fields \ ShareFields)
  BY <1>6, ReconcileRewardsKeeps DEF Leveled
<1> HIDE DEF c
<1>8. Leveled(c, b) /\ IsInjective(c.v.openLoans)
  <2>1. c.v.openLoans = b.v.openLoans
    BY <1>7 DEF Same, Fields, ShareFields
  <2> QED BY <1>6, <1>7, <2>1, QuietLevel, QuietFields DEF Leveled, Keeps
<1>9. Keeps(y, c) /\ y.core = c.core /\ Same(y.v, c.v, Fields \ {"openLoans"}) /\ ListOk(y.v)
  BY <1>8, DropTerminalKeeps DEF Leveled, OpenListed
<1> HIDE DEF y
<1>10. Leveled(y, c)
  <2>1. /\ y.v.funded = c.v.funded /\ y.v.terminal = c.v.terminal /\ y.v.overdue = c.v.overdue
    BY <1>9 DEF Same, Fields
  <2>2. Same(y.v, c.v, PricedFields)
    BY <1>9 DEF Same, Fields, PricedFields
  <2>3. OpenListed(y.v) /\ Carrying(y.v) = Carrying(c.v)
    BY <1>9, <2>1 DEF OpenListed, ListOk, Carrying, Live
  <2>4. \A d \in Carrying(c.v) : Impaired(Loan(y, d)) <=> Impaired(Loan(c, d))
    BY <1>9 DEF Impaired, Loan
  <2> QED BY <1>8, <1>9, <2>2, <2>3, <2>4, PriceSame DEF Leveled, Keeps
<1>11. Leveled(b, w)
  BY <1>2, <1>5, <1>6, LeveledChain
<1>12. Leveled(c, w)
  BY <1>2, <1>8, <1>11, LeveledChain
<1> QED BY <1>1, <1>2, <1>10, <1>12, LeveledChain

(***************************************************************************)
(* What a transaction does to the worth of a share, on both measures, in a *)
(* reserve that does not round.                                            *)
(***************************************************************************)
Stock(w) == w.v.supply + VIRTUAL_SHARES
\* No share is worth less in y than in w.
Fair(y, w) ==
  /\ (FullAssets(w) + 1) * Stock(y) <= (FullAssets(y) + 1) * Stock(w)
  /\ LockedIsThere(w) => /\ LockedIsThere(y)
                         /\ (TotalAssets(w) + 1) * Stock(y) <= (TotalAssets(y) + 1) * Stock(w)
Undiluted(y, w) == reserve.rate = 1 => Fair(y, w)
\* A world whose price the code computes from the loans it lists.
Priced(w) == Sound(w) /\ OpenListed(w.v)
\* Both measures of the assets rise by n at least, or fall by -n at most.
Moved(y, w, n) ==
  /\ FullAssets(w) + n <= FullAssets(y)
  /\ LockedIsThere(w) => LockedIsThere(y) /\ TotalAssets(w) + n <= TotalAssets(y)

\* The numbers that Fair compares.
LEMMA FairTypes ==
  ASSUME NEW w, Priced(w), EnvOk
  PROVE  FullAssets(w) \in Nat /\ TotalAssets(w) \in Nat /\ TotalAssets(w) <= FullAssets(w) /\ Stock(w) \in Nat \ {0}
<1>1. /\ FullAssets(w) \in Nat /\ TotalAssets(w) \in Nat /\ LockedProfit(w) \in Nat /\ PendingLoss(w) \in Nat
      /\ TotalAssets(w) = Over(FullAssets(w), Over(LockedProfit(w), PendingLoss(w)))
  BY PriceBounds, PriceParts DEF Priced
<1>2. w.v.supply \in Nat /\ VIRTUAL_SHARES \in Nat \ {0}
  BY Parameters DEF Priced, Sound, StockOk
<1>3. TotalAssets(w) <= FullAssets(w)
  BY <1>1 DEF Over
<1> QED BY <1>1, <1>2, <1>3 DEF Stock

\* A common factor falls out of a comparison.
LEMMA FactorOut == \A x, y \in Nat : \A q \in Nat \ {0} : x * q <= y * q => x <= y
<1>1. SUFFICES ASSUME NEW x \in Nat, NEW y \in Nat, NEW q \in Nat \ {0}, x * q <= y * q, y + 1 <= x PROVE FALSE
  OBVIOUS
<1>2. (y + 1) * q <= x * q /\ y + 1 \in Nat /\ q \in Nat
  BY <1>1, ProductGrows
<1>3. (y + 1) * q = y * q + q
  BY <1>2
<1>4. y * q \in Nat /\ x * q \in Nat
  BY <1>2, ProductNat
<1> QED BY <1>1, <1>2, <1>3, <1>4

\* The factors of a product trade places.
LEMMA Regroup == \A a, b, c \in Nat : (a * b) * c = (a * c) * b
OBVIOUS

\* Ratios compare along a chain.
LEMMA RatioChain ==
  ASSUME NEW a \in Nat, NEW b \in Nat, NEW c \in Nat, NEW p \in Nat \ {0}, NEW q \in Nat \ {0}, NEW r \in Nat \ {0},
         a * q <= b * p, b * r <= c * q
  PROVE  a * r <= c * p
<1>1. /\ a * q \in Nat /\ b * p \in Nat /\ b * r \in Nat /\ c * q \in Nat /\ a * r \in Nat /\ c * p \in Nat
      /\ p \in Nat /\ q \in Nat /\ r \in Nat
  BY ProductNat
<1>2. (a * q) * r <= (b * p) * r /\ (b * r) * p <= (c * q) * p
  BY <1>1, ProductGrows
<1>3. (a * q) * r = (a * r) * q /\ (b * p) * r = (b * r) * p /\ (c * q) * p = (c * p) * q
  BY <1>1, Regroup
<1>4. (a * r) * q <= (c * p) * q
  <2>1. (a * r) * q \in Nat /\ (b * r) * p \in Nat /\ (c * p) * q \in Nat
    BY <1>1, ProductNat
  <2> QED BY ONLY <1>2, <1>3, <2>1
<1> QED BY <1>1, <1>4, FactorOut

\* A fair step after a fair step.
LEMMA FairChain ==
  ASSUME NEW w, Priced(w), NEW y, Priced(y), NEW z, Priced(z), EnvOk, Fair(y, w), Fair(z, y)
  PROVE  Fair(z, w)
<1> DEFINE F(u) == FullAssets(u) + 1
           T(u) == TotalAssets(u) + 1
<1>1. \A u \in {w, y, z} : F(u) \in Nat /\ T(u) \in Nat /\ Stock(u) \in Nat \ {0}
  BY FairTypes
<1>2. /\ F(w) * Stock(y) <= F(y) * Stock(w) /\ F(y) * Stock(z) <= F(z) * Stock(y)
      /\ LockedIsThere(w) =>
           LockedIsThere(z) /\ T(w) * Stock(y) <= T(y) * Stock(w) /\ T(y) * Stock(z) <= T(z) * Stock(y)
  BY DEF Fair
<1> HIDE DEF F, T
<1>3. F(w) * Stock(z) <= F(z) * Stock(w)
  BY <1>1, <1>2, RatioChain
<1>4. ASSUME LockedIsThere(w) PROVE LockedIsThere(z) /\ T(w) * Stock(z) <= T(z) * Stock(w)
  BY <1>1, <1>2, <1>4, RatioChain
<1> QED BY <1>3, <1>4 DEF Fair, F, T

\* A step that holds the price is fair.
LEMMA LevelFair ==
  ASSUME NEW w, Priced(w), EnvOk, NEW y, Priced(y), Level(y, w)
  PROVE  Fair(y, w)
<1>1. /\ FullAssets(w) \in Nat /\ TotalAssets(w) \in Nat /\ Stock(w) \in Nat
      /\ FullAssets(y) \in Nat /\ TotalAssets(y) \in Nat /\ Stock(y) = Stock(w)
  BY FairTypes DEF Level, Stock
<1>2. /\ FullAssets(w) <= FullAssets(y) /\ TotalAssets(w) <= TotalAssets(y)
      /\ LockedIsThere(w) => LockedIsThere(y)
  BY DEF Level
<1>3. /\ (FullAssets(w) + 1) * Stock(w) <= (FullAssets(y) + 1) * Stock(w)
      /\ (TotalAssets(w) + 1) * Stock(w) <= (TotalAssets(y) + 1) * Stock(w)
  <2>1. /\ FullAssets(w) + 1 \in Nat /\ FullAssets(y) + 1 \in Nat /\ FullAssets(w) + 1 <= FullAssets(y) + 1
        /\ TotalAssets(w) + 1 \in Nat /\ TotalAssets(y) + 1 \in Nat /\ TotalAssets(w) + 1 <= TotalAssets(y) + 1
    BY <1>1, <1>2
  <2> QED BY <1>1, <2>1, ProductGrows
<1> QED BY <1>1, <1>2, <1>3 DEF Fair

\* What an amount of assets or shares is worth at the other's rate, as a comparison of products.
LEMMA RatioMoves ==
  ASSUME NEW F \in Nat \ {0}, NEW G \in Nat \ {0}, NEW N \in Nat \ {0}, NEW M \in Nat \ {0},
         NEW n \in Int, NEW s \in Int, F + n <= G, M = N + s, F * s <= n * N
  PROVE  F * M <= G * N
<1>1. (F + n) * N <= G * N
  <2>1. CASE F + n \in Nat
    BY <2>1, ProductGrows
  <2>2. CASE ~ (F + n \in Nat)
    <3>1. 0 <= G * N /\ G * N \in Nat
      BY ProductNat
    <3>2. 0 - (F + n) \in Nat
      BY <2>2
    <3>3. (0 - (F + n)) * N \in Nat
      BY <3>2, ProductNat
    <3>4. (F + n) * N = 0 - (0 - (F + n)) * N
      OBVIOUS
    <3> QED BY <3>1, <3>3, <3>4
  <2> QED BY <2>1, <2>2
<1>2. (F + n) * N = F * N + n * N /\ F * M = F * N + F * s
  OBVIOUS
<1>3. F * N \in Int /\ n * N \in Int /\ F * s \in Int /\ G * N \in Int
  OBVIOUS
<1> QED BY <1>1, <1>2, <1>3

\* Assets come or go for shares at a price that is not the mover's advantage, on either measure.
Bartered(w, n, s) ==
  (FullAssets(w) + 1) * s <= n * Stock(w) /\ (TotalAssets(w) + 1) * s <= n * Stock(w)
LEMMA FairWhen ==
  ASSUME NEW w, Priced(w), EnvOk, NEW y, Priced(y), NEW n \in Int, NEW s \in Int,
         Moved(y, w, n), y.v.supply = w.v.supply + s, Bartered(w, n, s)
  PROVE  Fair(y, w)
<1> DEFINE F(u) == FullAssets(u) + 1
           T(u) == TotalAssets(u) + 1
           N(u) == Stock(u)
<1>1. \A u \in {w, y} : F(u) \in Nat \ {0} /\ T(u) \in Nat \ {0} /\ N(u) \in Nat \ {0}
  BY FairTypes
<1>2. FullAssets(w) \in Nat /\ FullAssets(y) \in Nat /\ TotalAssets(w) \in Nat /\ TotalAssets(y) \in Nat
  BY FairTypes
<1>3. N(y) = N(w) + s
  <2>1. w.v.supply \in Nat /\ VIRTUAL_SHARES \in Nat
    BY Parameters DEF Priced, Sound, StockOk
  <2> QED BY <2>1 DEF Stock
<1>4. F(w) + n <= F(y) /\ F(w) * s <= n * N(w) /\ T(w) * s <= n * N(w)
  BY <1>2 DEF Moved, Bartered
<1>5. LockedIsThere(w) => LockedIsThere(y) /\ T(w) + n <= T(y)
  BY <1>2 DEF Moved
<1> HIDE DEF F, T, N
<1>6. F(w) * N(y) <= F(y) * N(w)
  BY <1>1, <1>3, <1>4, RatioMoves
<1>7. ASSUME LockedIsThere(w) PROVE LockedIsThere(y) /\ T(w) * N(y) <= T(y) * N(w)
  BY <1>1, <1>3, <1>4, <1>5, <1>7, RatioMoves
<1> QED BY <1>6, <1>7 DEF Fair, F, T, N

\* Loans that no earlier step had found late are on time.
LateOnes(y, w) ==
  \A d \in Carrying(y.v) : Impaired(Loan(y, d)) =>
    d \in Carrying(w.v) /\ Impaired(Loan(w, d)) /\ y.v.position[d] = w.v.position[d]

\* Then no more is lost than before.
LEMMA LossFalls ==
  ASSUME NEW w, Priced(w), EnvOk, NEW y, Priced(y), LateOnes(y, w)
  PROVE  PendingLoss(y) \in Nat /\ PendingLoss(w) \in Nat /\ PendingLoss(y) <= PendingLoss(w)
<1>1. /\ PendingLoss(w) = SumOver(Due(w), w.v.position) /\ Carrying(w.v) \subseteq Deals
      /\ \A d \in Carrying(w.v) : w.v.position[d] \in Nat
  BY PriceParts DEF Priced
<1>2. PendingLoss(y) = SumOver(Due(y), y.v.position)
  BY PriceParts DEF Priced
<1>3. Due(y) \subseteq Due(w) /\ Due(w) \subseteq Carrying(w.v) /\ \A d \in Due(y) : y.v.position[d] = w.v.position[d]
  BY DEF Due, LateOnes
<1>4. SumOver(Due(y), y.v.position) = SumOver(Due(y), w.v.position)
  <2>1. IsFiniteSet(Due(y))
    BY <1>1, <1>3, Parameters, FS_Subset
  <2> QED BY <1>3, <2>1, SumSame DEF SumOver
<1>5. Due(y) \in SUBSET Due(w) /\ Due(w) \in SUBSET Deals /\ \A d \in Due(w) : w.v.position[d] \in Nat
  BY <1>1, <1>3
<1> QED BY <1>1, <1>2, <1>4, <1>5, PartSum

\* What the pool of cash, reserve and performing loans is, at a rate of one.
Pool(w) == w.v.cash + w.v.reserveShares + w.v.performing
\* The two measures from their parts.
LEMMA Measures ==
  ASSUME NEW P \in Nat, NEW Q \in Nat, NEW L \in Nat, NEW A \in Nat, NEW B \in Nat, NEW n \in Int,
         A <= P, B <= A, Q = P + n, n >= 0 \/ 0 - n <= Over(P - A, Over(L, A))
  PROVE  /\ (P - A) + n <= Q - B
         /\ Over(L, A) <= P - A => Over(L, B) <= Q - B /\ Over(P - A, Over(L, A)) + n <= Over(Q - B, Over(L, B))
BY DEF Over

\* Assets move in or out of the pool; profits unlock as before, and no more is lost.
LEMMA PoolMoves ==
  ASSUME NEW w, Priced(w), EnvOk, NEW y, Priced(y), reserve.rate = 1, NEW n \in Int,
         Pool(y) = Pool(w) + n, n >= 0 \/ 0 - n <= TotalAssets(w),
         Same(y.v, w.v, {"lockedProfit", "unlockStart", "unlockEnd"}), LateOnes(y, w)
  PROVE  Moved(y, w, n)
<1> DEFINE P(u) == Pool(u)
           A(u) == PendingLoss(u)
           L == LockedProfit(w)
<1>1. A(y) \in Nat /\ A(w) \in Nat /\ A(y) <= A(w)
  BY LossFalls
<1>2. \A u \in {w, y} : /\ P(u) \in Nat /\ A(u) <= P(u) /\ FullAssets(u) = P(u) - A(u)
                        /\ TotalAssets(u) = Over(FullAssets(u), Over(LockedProfit(u), A(u)))
  <2> SUFFICES ASSUME NEW u, Priced(u)
               PROVE  /\ P(u) \in Nat /\ A(u) <= P(u) /\ FullAssets(u) = P(u) - A(u)
                      /\ TotalAssets(u) = Over(FullAssets(u), Over(LockedProfit(u), A(u)))
    OBVIOUS
  <2>1. /\ u.v.cash \in Nat /\ u.v.performing \in Nat /\ PendingLoss(u) \in Nat /\ PendingLoss(u) <= u.v.performing
        /\ FullAssets(u) = u.v.cash + ReserveValue(u) + u.v.performing - PendingLoss(u)
        /\ TotalAssets(u) = Over(FullAssets(u), Over(LockedProfit(u), PendingLoss(u)))
    BY PriceParts DEF Priced
  <2>2. u.v.reserveShares \in Nat
    BY DEF Priced, Sound, PriceOk
  <2>3. ReserveValue(u) = u.v.reserveShares
    BY <2>2 DEF ReserveValue
  <2> QED BY <2>1, <2>2, <2>3 DEF Pool
<1>3. LockedProfit(y) = L /\ L \in Nat
  <2>1. y.v.lockedProfit = w.v.lockedProfit /\ y.v.unlockStart = w.v.unlockStart /\ y.v.unlockEnd = w.v.unlockEnd
    BY DEF Same
  <2> QED BY <2>1, PriceBounds DEF LockedProfit, Priced
<1>4. /\ LockedIsThere(w) <=> Over(L, A(w)) <= P(w) - A(w)
      /\ LockedIsThere(y) <=> Over(L, A(y)) <= P(y) - A(y)
  BY <1>2, <1>3 DEF LockedIsThere, LockedAfterLoss
<1>5. /\ FullAssets(w) = P(w) - A(w) /\ FullAssets(y) = P(y) - A(y)
      /\ TotalAssets(w) = Over(P(w) - A(w), Over(L, A(w))) /\ TotalAssets(y) = Over(P(y) - A(y), Over(L, A(y)))
      /\ P(w) \in Nat /\ P(y) \in Nat /\ A(w) <= P(w) /\ P(y) = P(w) + n
  BY <1>2, <1>3
<1> HIDE DEF P, A, L
<1>6. n >= 0 \/ 0 - n <= Over(P(w) - A(w), Over(L, A(w)))
  BY <1>5
<1>7. /\ (P(w) - A(w)) + n <= P(y) - A(y)
      /\ Over(L, A(w)) <= P(w) - A(w) =>
           /\ Over(L, A(y)) <= P(y) - A(y)
           /\ Over(P(w) - A(w), Over(L, A(w))) + n <= Over(P(y) - A(y), Over(L, A(y)))
  BY <1>1, <1>3, <1>5, <1>6, Measures
<1> QED BY <1>4, <1>5, <1>7 DEF Moved

WorthFields == {"lockedProfit", "unlockStart", "unlockEnd"}
\* A step that moves neither pool nor supply, and finds no loan late, is fair.
LEMMA StillFair ==
  ASSUME NEW w, Priced(w), EnvOk, NEW y, Priced(y), Pool(y) = Pool(w), y.v.supply = w.v.supply,
         Same(y.v, w.v, WorthFields), LateOnes(y, w)
  PROVE  Undiluted(y, w)
<1>1. SUFFICES ASSUME reserve.rate = 1 PROVE Fair(y, w)
  BY DEF Undiluted
<1> DEFINE zero == 0
<1>2. zero \in Int /\ zero >= 0 /\ Pool(y) = Pool(w) + zero /\ y.v.supply = w.v.supply + zero
  <2>1. w.v.performing \in Nat
    BY PriceParts DEF Priced
  <2>2. w.v.cash \in Nat /\ w.v.supply \in Nat /\ w.v.reserveShares \in Nat
    BY LevelTypes DEF Priced
  <2> QED BY <2>1, <2>2 DEF Pool
<1>3. Bartered(w, zero, zero)
  BY FairTypes DEF Bartered
<1> HIDE DEF zero
<1>4. Moved(y, w, zero)
  BY <1>1, <1>2, PoolMoves DEF WorthFields
<1> QED BY <1>2, <1>3, <1>4, FairWhen

\* What the share price and the loan book read of the storage.
PricedBook ==
  {"cash", "reserveShares", "performing", "lockedProfit", "unlockStart", "unlockEnd", "position", "supply",
   "funded", "terminal", "overdue", "openLoans"}

\* Between two transactions the price is computed from the live loans.
LEMMA GoodPriced == ASSUME NEW w, Good(w) PROVE Priced(w)
BY DEF Good, Priced, ListOk, OpenListed

\* A step that writes nothing the price reads, and makes no loan late, is fair.
LEMMA Unpriced ==
  ASSUME NEW w, Good(w), EnvOk, NEW y, Good(y), NEW K, Same(y.v, w.v, Fields \ K), K \cap PricedBook = {},
         \A d \in Carrying(w.v) : Impaired(Loan(y, d)) => Impaired(Loan(w, d))
  PROVE  Undiluted(y, w)
<1>1. Priced(w) /\ Priced(y)
  BY GoodPriced
<1>2. PricedBook \subseteq Fields \ K
  BY DEF PricedBook, Fields
<1>3. \A f \in PricedBook : y.v[f] = w.v[f]
  BY <1>2 DEF Same
<1>4. /\ y.v.cash = w.v.cash /\ y.v.reserveShares = w.v.reserveShares /\ y.v.performing = w.v.performing
      /\ y.v.position = w.v.position /\ y.v.supply = w.v.supply /\ Same(y.v, w.v, WorthFields)
  BY <1>3 DEF PricedBook, Same, WorthFields
<1>5. Pool(y) = Pool(w)
  BY <1>4 DEF Pool
<1>6. Carrying(y.v) = Carrying(w.v)
  BY <1>3 DEF PricedBook, Carrying, Live
<1>7. LateOnes(y, w)
  BY <1>4, <1>6 DEF LateOnes
<1> QED BY <1>1, <1>4, <1>5, <1>7, StillFair

\* So is one that moves no deal either.
LEMMA QuietFair ==
  ASSUME NEW w, Good(w), EnvOk, NEW y, Good(y), NEW K, Same(y.v, w.v, Fields \ K), K \cap PricedBook = {},
         y.core.deal = w.core.deal
  PROVE  Undiluted(y, w)
<1>1. \A d : Loan(y, d) = Loan(w, d)
  BY DEF Loan
<1> QED BY <1>1, Unpriced

\* And one that leaves the storage alone and makes no loan late.
LEMMA OutsideFair ==
  ASSUME NEW w, Good(w), EnvOk, NEW y, Good(y), y.v = w.v,
         \A d \in Carrying(w.v) : Impaired(Loan(y, d)) => Impaired(Loan(w, d))
  PROVE  Undiluted(y, w)
<1> DEFINE none == {}
<1>1. Same(y.v, w.v, Fields \ none) /\ none \cap PricedBook = {}
  BY DEF Same
<1> HIDE DEF none
<1> QED BY <1>1, Unpriced

\* Worlds that agree in storage and deals have the same price.
LEMMA SameFair ==
  ASSUME NEW w, NEW y, NEW z, z.v = y.v, z.core = y.core, Undiluted(y, w)
  PROVE  Undiluted(z, w)
<1>1. Undecided(z) = Undecided(y) /\ \A d : Impaired(Loan(z, d)) <=> Impaired(Loan(y, d))
  BY DEF Undecided, Loan
<1>2. {d \in Undecided(z) : Impaired(Loan(z, d))} = {d \in Undecided(y) : Impaired(Loan(y, d))}
  BY <1>1
<1>3. PendingLoss(z) = PendingLoss(y)
  BY <1>2 DEF PendingLoss
<1>4. FullAssets(z) = FullAssets(y) /\ LockedProfit(z) = LockedProfit(y)
  BY <1>3 DEF FullAssets, ReserveValue, LockedProfit
<1>5. TotalAssets(z) = TotalAssets(y) /\ (LockedIsThere(z) <=> LockedIsThere(y)) /\ Stock(z) = Stock(y)
  BY <1>3, <1>4 DEF TotalAssets, LockedIsThere, LockedAfterLoss, Stock
<1> QED BY <1>4, <1>5 DEF Undiluted, Fair

\* Nothing happened.
LEMMA FairSelf == ASSUME NEW w, Good(w), EnvOk PROVE Undiluted(w, w)
<1>1. \A d \in Carrying(w.v) : Impaired(Loan(w, d)) => Impaired(Loan(w, d))
  OBVIOUS
<1> QED BY <1>1, OutsideFair

\* One step after another.
LEMMA UndilutedChain ==
  ASSUME NEW w, Good(w), NEW y, Good(y), NEW z, Good(z), EnvOk, Undiluted(y, w), Undiluted(z, y)
  PROVE  Undiluted(z, w)
<1>1. Priced(w) /\ Priced(y) /\ Priced(z)
  BY GoodPriced
<1> QED BY <1>1, FairChain DEF Undiluted

\* A checkpoint is fair.
LEMMA CheckpointFair ==
  ASSUME NEW w, Good(w), EnvOk, Good(Checkpoint(w)) PROVE Undiluted(Checkpoint(w), w)
<1> DEFINE y == Checkpoint(w)
<1>1. Level(y, w) /\ Priced(y) /\ Priced(w)
  BY CheckpointLevel, GoodPriced DEF Leveled
<1> HIDE DEF y
<1>2. Fair(y, w)
  BY <1>1, LevelFair
<1> QED BY <1>2 DEF Undiluted, y

(***************************************************************************)
(* What others do at the loan engine, and a commitment taken back.         *)
(***************************************************************************)
\* The engine records something new of one listing, and does not make it late.
OneDeal(y, w, d, new) ==
  y.core.deal = [w.core.deal EXCEPT ![d] = new] /\ (Impaired(Loan(y, d)) => Impaired(Loan(w, d)))

\* Then no share is worth less.
LEMMA DealFair ==
  ASSUME NEW w, Good(w), EnvOk, NEW y, Good(y), NEW K, Same(y.v, w.v, Fields \ K), K \cap PricedBook = {},
         NEW d \in Deals, NEW new, OneDeal(y, w, d, new)
  PROVE  Undiluted(y, w)
<1>1. DOMAIN w.core.deal = Deals /\ Carrying(w.v) \subseteq Deals
  BY DEF Good, Sound, CoreOk, LoanOk, LoanTypes, Carrying, Live
<1>2. ASSUME NEW e \in Deals \ {d} PROVE Loan(y, e) = Loan(w, e)
  <2>1. y.core.deal[e] = w.core.deal[e]
    BY <1>1 DEF OneDeal
  <2> QED BY <2>1 DEF Loan
<1>3. \A e \in Carrying(w.v) : Impaired(Loan(y, e)) => Impaired(Loan(w, e))
  BY <1>1, <1>2 DEF OneDeal
<1> QED BY <1>3, Unpriced

\* What a listing's record is like, by the parts its lateness depends on.
LEMMA LoanParts ==
  ASSUME NEW w, NEW d, NEW deal, deal = w.core.deal[d]
  PROVE  Impaired(Loan(w, d)) <=>
           \/ deal.state = "DEFAULTED"
           \/ deal.state = "REPAID" /\ deal.fundedAt # 0 /\ deal.closedAt >= deal.fundedAt + Terms[d].term
           \/ deal.state = "ACTIVE" /\ now >= deal.fundedAt + Terms[d].term
BY DEF Impaired, Loan

\* A listing that others fill has its whole term ahead.
LEMMA FilledUpFair ==
  ASSUME NEW w, Good(w), EnvOk, NEW d \in Deals, Good(FilledUp(w, d))
  PROVE  Undiluted(FilledUp(w, d), w)
<1> DEFINE y == FilledUp(w, d)
           old == w.core.deal[d]
           rest == Slots \ old.mine
           new == [old EXCEPT !.others = rest, !.state = "ACTIVE", !.fundedAt = now]
           none == {}
<1>1. FilledUpWrote(y, w, d)
  BY SoundShape, FilledUpDoes DEF Good
<1> HIDE DEF y
<1>2. Shape(w) /\ y.core = [w.core EXCEPT !.deal = [w.core.deal EXCEPT ![d] = new]] /\ y.v = w.v
  BY <1>1 DEF FilledUpWrote, Good, Sound
<1>3. w.core.deal \in [Deals -> DealType] /\ old \in DealType /\ "deal" \in DOMAIN w.core
  BY <1>2 DEF Good, Sound, CoreOk, Shape
<1> HIDE DEF rest, old
<1>4. new.state = "ACTIVE" /\ new.fundedAt = now
  BY <1>3 DEF DealType
<1> HIDE DEF new
<1>5. y.core.deal = [w.core.deal EXCEPT ![d] = new]
  BY <1>2, <1>3
<1>6. y.core.deal[d] = new
  BY <1>3, <1>5
<1>7. ~ Impaired(Loan(y, d))
  <2>1. now \in Nat /\ Terms[d].term \in Nat \ {0}
    BY Parameters DEF EnvOk
  <2>2. ~ (now >= now + Terms[d].term)
    BY <2>1
  <2> QED BY <1>4, <1>6, <2>2, LoanParts
<1>8. OneDeal(y, w, d, new) /\ Good(y)
  BY <1>5, <1>7 DEF OneDeal, y
<1>9. Same(y.v, w.v, Fields \ none) /\ none \cap PricedBook = {}
  BY <1>2 DEF Same
<1> HIDE DEF none
<1>10. Undiluted(y, w)
  BY <1>8, <1>9, DealFair
<1> QED BY <1>10 DEF y

\* A listing that is cancelled is not late, and a loan that is repaid is late if it was late before.
LEMMA EndedAsFair ==
  ASSUME NEW w, Good(w), EnvOk, NEW d \in Deals, NEW state, NEW total, Good(EndedAs(w, d, state, total)),
         state # "CANCELLED" => state = "REPAID" /\ w.core.deal[d].state = "ACTIVE"
  PROVE  Undiluted(EndedAs(w, d, state, total), w)
<1> DEFINE y == EndedAs(w, d, state, total)
           old == w.core.deal[d]
           new == [old EXCEPT !.state = state, !.closedAt = now]
           m == w.core.credit + Share(total, old.mine)
           none == {}
<1>1. EndedAsWrote(y, w, d, state, total)
  BY SoundShape, EndedAsDoes DEF Good
<1> HIDE DEF y
<1>2. Shape(w) /\ y.core = [w.core EXCEPT !.deal = [w.core.deal EXCEPT ![d] = new], !.credit = m] /\ y.v = w.v
  BY <1>1 DEF EndedAsWrote, Good, Sound
<1>3. /\ w.core.deal \in [Deals -> DealType] /\ old \in DealType
      /\ "deal" \in DOMAIN w.core /\ "credit" \in DOMAIN w.core
  BY <1>2 DEF Good, Sound, CoreOk, Shape
<1> HIDE DEF m, old
<1>4. new.state = state /\ new.closedAt = now /\ new.fundedAt = old.fundedAt
  BY <1>3 DEF DealType
<1> HIDE DEF new
<1>5. y.core.deal = [w.core.deal EXCEPT ![d] = new]
  BY <1>2, <1>3
<1>6. y.core.deal[d] = new
  BY <1>3, <1>5
<1>7. Impaired(Loan(y, d)) => Impaired(Loan(w, d))
  <2>1. old.state = w.core.deal[d].state /\ old = w.core.deal[d]
    BY DEF old
  <2> QED BY <1>4, <1>6, <2>1, LoanParts
<1>8. OneDeal(y, w, d, new) /\ Good(y)
  BY <1>5, <1>7 DEF OneDeal, y
<1>9. Same(y.v, w.v, Fields \ none) /\ none \cap PricedBook = {}
  BY <1>2 DEF Same
<1> HIDE DEF none
<1>10. Undiluted(y, w)
  BY <1>8, <1>9, DealFair
<1> QED BY <1>10 DEF y

\* A default is finalized after grace, when the loan was late already.
LEMMA FinalizedFair ==
  ASSUME NEW w, Good(w), EnvOk, NEW d \in Deals, Good(Finalized(w, d)),
         w.core.deal[d].state = "ACTIVE", GraceOver(Loan(w, d))
  PROVE  Undiluted(Finalized(w, d), w)
<1> DEFINE y == Finalized(w, d)
           old == w.core.deal[d]
           new == [old EXCEPT !.state = "DEFAULTED", !.closedAt = now]
           none == {}
<1>1. FinalizedWrote(y, w, d)
  BY SoundShape, FinalizedDoes DEF Good
<1> HIDE DEF y
<1>2. Shape(w) /\ y.core = [w.core EXCEPT !.deal = [w.core.deal EXCEPT ![d] = new]] /\ y.v = w.v
  BY <1>1 DEF FinalizedWrote, Good, Sound
<1>3. w.core.deal \in [Deals -> DealType] /\ old \in DealType /\ "deal" \in DOMAIN w.core
  BY <1>2 DEF Good, Sound, CoreOk, Shape
<1>4. Impaired(Loan(w, d))
  <2>1. now >= old.fundedAt + Terms[d].term + GRACE
    BY DEF GraceOver, Loan
  <2>2. old.fundedAt \in Nat /\ Terms[d].term \in Nat /\ GRACE \in Nat /\ now \in Nat
    BY <1>3, Parameters DEF DealType, EnvOk
  <2>3. now >= old.fundedAt + Terms[d].term
    BY <2>1, <2>2
  <2> QED BY <2>3, LoanParts
<1> HIDE DEF new, old
<1>5. y.core.deal = [w.core.deal EXCEPT ![d] = new]
  BY <1>2, <1>3
<1>6. OneDeal(y, w, d, new) /\ Good(y)
  BY <1>4, <1>5 DEF OneDeal, y
<1>7. Same(y.v, w.v, Fields \ none) /\ none \cap PricedBook = {}
  BY <1>2 DEF Same
<1> HIDE DEF none
<1>8. Undiluted(y, w)
  BY <1>6, <1>7, DealFair
<1> QED BY <1>8 DEF y

\* A commitment taken back does not change when its loan would be late.
LEMMA TakenBackFair ==
  ASSUME NEW w, Good(w), EnvOk, NEW d \in Deals, Good(TakenBack(w, d))
  PROVE  Undiluted(TakenBack(w, d), w)
<1> DEFINE y == TakenBack(w, d)
           old == w.core.deal[d]
           new == [old EXCEPT !.mine = {}]
           m == w.core.credit + Share(Terms[d].principal, old.mine)
           K == {"withdrawn"}
<1>1. TakenBackWrote(y, w, d)
  BY SoundShape, TakenBackDoes DEF Good
<1> HIDE DEF y
<1>2. /\ Shape(w) /\ y.core = [w.core EXCEPT !.deal = [w.core.deal EXCEPT ![d] = new], !.credit = m]
      /\ Same(y.v, w.v, Fields \ K)
  BY <1>1 DEF TakenBackWrote, Good, Sound
<1>3. /\ w.core.deal \in [Deals -> DealType] /\ old \in DealType
      /\ "deal" \in DOMAIN w.core /\ "credit" \in DOMAIN w.core
  BY <1>2 DEF Good, Sound, CoreOk, Shape
<1> HIDE DEF m, old
<1>4. new.state = old.state /\ new.closedAt = old.closedAt /\ new.fundedAt = old.fundedAt
  BY <1>3 DEF DealType
<1> HIDE DEF new
<1>5. y.core.deal = [w.core.deal EXCEPT ![d] = new]
  BY <1>2, <1>3
<1>6. y.core.deal[d] = new
  BY <1>3, <1>5
<1>7. Impaired(Loan(y, d)) => Impaired(Loan(w, d))
  <2>1. old = w.core.deal[d]
    BY DEF old
  <2> QED BY <1>4, <1>6, <2>1, LoanParts
<1>8. OneDeal(y, w, d, new) /\ Good(y)
  BY <1>5, <1>7 DEF OneDeal, y
<1>9. K \cap PricedBook = {}
  BY DEF PricedBook
<1> HIDE DEF K
<1>10. Undiluted(y, w)
  BY <1>2, <1>8, <1>9, DealFair
<1> QED BY <1>10 DEF y

(***************************************************************************)
(* Assets for shares.                                                      *)
(***************************************************************************)
\* What decides which loans are late.
LateFields == {"position", "funded", "terminal", "overdue"}

\* A step that moves n assets into the pool and s shares into the supply, and no loan or profit.
Traded(y, w, n, s) ==
  /\ reserve.rate = 1 => Pool(y) = Pool(w) + n
  /\ y.v.supply = w.v.supply + s
  /\ Same(y.v, w.v, WorthFields \cup LateFields) /\ y.core.deal = w.core.deal

\* The pool and the supply are natural numbers.
LEMMA PoolNat ==
  ASSUME NEW w, Sound(w)
  PROVE  /\ Pool(w) \in Nat /\ w.v.supply \in Nat
         /\ w.v.cash \in Nat /\ w.v.reserveShares \in Nat /\ w.v.performing \in Nat
<1>1. w.v.cash \in Nat /\ w.v.reserveShares \in Nat /\ w.v.supply \in Nat
  BY DEF Sound, MoneyOk, PriceOk, StockOk
<1>2. w.v.performing \in Nat
  <2> DEFINE f == w.v.position
             S == Live(w.v) \ w.v.overdue
  <2>1. S \in SUBSET Deals /\ f \in [Deals -> Nat] /\ w.v.performing = SumOver(S, f)
    BY DEF Sound, LoanOk, LoanTypes, Live
  <2> HIDE DEF S, f
  <2>2. \A d \in S : f[d] \in Nat
    BY <2>1
  <2> QED BY <2>1, <2>2, PartSum
<1> QED BY <1>1, <1>2 DEF Pool

\* One such step after another.
LEMMA TradedChain ==
  ASSUME NEW w, Sound(w), NEW y, Sound(y), NEW z, NEW n \in Int, NEW s \in Int, NEW m \in Int, NEW t \in Int,
         Traded(y, w, n, s), Traded(z, y, m, t), NEW k, NEW r, k = n + m, r = s + t
  PROVE  Traded(z, w, k, r)
<1>1. Pool(w) \in Nat /\ w.v.supply \in Nat
  BY PoolNat
<1>2. reserve.rate = 1 => Pool(z) = Pool(w) + k
  BY <1>1 DEF Traded
<1>3. z.v.supply = w.v.supply + r
  BY <1>1 DEF Traded
<1>4. Same(z.v, w.v, WorthFields \cup LateFields) /\ z.core.deal = w.core.deal
  BY DEF Traded, Same
<1> QED BY <1>2, <1>3, <1>4 DEF Traded

\* A step that writes nothing the price reads.
LEMMA QuietTrade ==
  ASSUME NEW w, Sound(w), NEW y, NEW K, Same(y.v, w.v, Fields \ K), K \cap PricedBook = {},
         y.core.deal = w.core.deal
  PROVE  Traded(y, w, 0, 0)
<1>1. PricedBook \subseteq Fields \ K
  BY DEF PricedBook, Fields
<1>2. \A f \in PricedBook : y.v[f] = w.v[f]
  BY <1>1 DEF Same
<1>3. y.v.cash = w.v.cash /\ y.v.reserveShares = w.v.reserveShares /\ y.v.performing = w.v.performing
      /\ y.v.supply = w.v.supply /\ Same(y.v, w.v, WorthFields \cup LateFields)
  BY <1>2 DEF PricedBook, Same, WorthFields, LateFields
<1>4. Pool(y) = Pool(w) + 0 /\ y.v.supply = w.v.supply + 0
  <2>1. Pool(w) \in Nat /\ w.v.supply \in Nat /\ Pool(y) = Pool(w)
    BY <1>3, PoolNat DEF Pool
  <2> QED BY <1>3, <2>1
<1> QED BY <1>3, <1>4 DEF Traded

\* What is paid out leaves the pool.
LEMMA PayOutTrade ==
  ASSUME NEW w, Sound(w), EnvOk, NEW assets \in Nat, CanPayOut(w, assets)
  PROVE  Traded(PayOut(w, assets), w, 0 - assets, 0)
<1> DEFINE y == PayOut(w, assets)
<1>1. PayOutWrote(y, w, assets)
  BY SoundShape, PayOutDoes
<1> HIDE DEF y
<1>2. /\ y.v.cash = Over(w.v.cash, assets) /\ y.v.reserveShares = w.v.reserveShares - Burned(w, assets)
      /\ Same(y.v, w.v, Fields \ {"cash", "reserveShares"}) /\ y.core.deal = w.core.deal
  BY <1>1 DEF PayOutWrote
<1>3. y.v.performing = w.v.performing /\ y.v.supply = w.v.supply /\ Same(y.v, w.v, WorthFields \cup LateFields)
  BY <1>2 DEF Same, Fields, WorthFields, LateFields
<1>4. w.v.cash \in Nat /\ w.v.reserveShares \in Nat /\ w.v.supply \in Nat /\ w.v.performing \in Nat
  BY PoolNat
<1>5. ASSUME reserve.rate = 1 PROVE Pool(y) = Pool(w) + (0 - assets)
  <2>1. Burned(w, assets) = FromReserve(w, assets)
    <3>1. FromReserve(w, assets) \in Nat
      BY <1>4 DEF FromReserve, Over
    <3>2. \A n \in Nat : (n + 1 - 1) \div 1 = n
      OBVIOUS
    <3> QED BY <1>5, <3>1, <3>2 DEF Burned, Ceil
  <2>2. Over(w.v.cash, assets) - FromReserve(w, assets) = w.v.cash - assets
    BY <1>4 DEF FromReserve, Over
  <2>3. FromReserve(w, assets) \in Nat /\ Over(w.v.cash, assets) \in Nat
    BY <1>4 DEF FromReserve, Over
  <2> QED BY <1>2, <1>3, <1>4, <2>1, <2>2, <2>3 DEF Pool
<1>6. y.v.supply = w.v.supply + 0
  BY <1>3, <1>4
<1> QED BY <1>2, <1>3, <1>5, <1>6 DEF Traded, y

\* What comes in joins it.
LEMMA ReceiveTrade ==
  ASSUME NEW w, Sound(w), NEW amount \in Nat
  PROVE  Traded(Receive(w, amount), w, amount, 0)
<1> DEFINE y == Receive(w, amount)
<1>1. ReceiveWrote(y, w, amount)
  BY SoundShape, ReceiveDoes
<1> HIDE DEF y
<1>2. /\ y.v.cash = w.v.cash + amount /\ y.core.deal = w.core.deal
      /\ Same(y.v, w.v, Fields \ {"cash"})
  BY <1>1 DEF ReceiveWrote
<1>3. /\ y.v.performing = w.v.performing /\ y.v.supply = w.v.supply /\ y.v.reserveShares = w.v.reserveShares
      /\ Same(y.v, w.v, WorthFields \cup LateFields)
  BY <1>2 DEF Same, Fields, WorthFields, LateFields
<1>4. w.v.cash \in Nat /\ w.v.reserveShares \in Nat /\ w.v.supply \in Nat /\ w.v.performing \in Nat
  BY PoolNat
<1>5. Pool(y) = Pool(w) + amount /\ y.v.supply = w.v.supply + 0
  BY <1>2, <1>3, <1>4 DEF Pool
<1> QED BY <1>2, <1>3, <1>5 DEF Traded, y

\* The supply moves with a balance.
LEMMA BalanceTrade ==
  ASSUME NEW w, Sound(w), NEW y, Sound(y), y.core = w.core, Same(y.v, w.v, Fields \ BalanceFields),
         NEW h \in Holders, NEW s \in Int, y.v.balance[h] = w.v.balance[h] + s,
         \A x \in Holders \ {h} : y.v.balance[x] = w.v.balance[x]
  PROVE  Traded(y, w, 0, s)
<1>1. /\ y.v.cash = w.v.cash /\ y.v.reserveShares = w.v.reserveShares /\ y.v.performing = w.v.performing
      /\ Same(y.v, w.v, WorthFields \cup LateFields)
  BY DEF Same, Fields, BalanceFields, WorthFields, LateFields
<1>2. y.v.supply = w.v.supply + s
  <2> DEFINE f == w.v.balance
             g == y.v.balance
  <2>1. f \in [Holders -> Nat] /\ g \in [Holders -> Nat] /\ w.v.supply = SumHolders(f) /\ y.v.supply = SumHolders(g)
    BY DEF Sound, StockOk
  <2>2. g[h] = f[h] + s /\ \A x \in Holders \ {h} : g[x] = f[x]
    OBVIOUS
  <2> HIDE DEF f, g
  <2>3. IsFiniteSet(Holders) /\ \A x \in Holders : f[x] \in Int /\ g[x] \in Int
    BY <2>1, Parameters
  <2>4. SumHolders(g) = SumHolders(f) + s
    BY <2>2, <2>3, SumMoved DEF SumHolders, SumOver
  <2> QED BY <2>1, <2>4
<1>3. Pool(y) = Pool(w) + 0
  <2>1. Pool(w) \in Nat /\ Pool(y) = Pool(w)
    BY <1>1, PoolNat DEF Pool
  <2> QED BY <2>1
<1> QED BY <1>1, <1>2, <1>3 DEF Traded

\* Shares that are minted join the supply.
LEMMA MintTrade ==
  ASSUME NEW w, Sound(w), NEW h \in Holders, NEW shares \in Nat
  PROVE  Traded(Mint(w, h, shares), w, 0, shares)
<1> DEFINE y == Mint(w, h, shares)
<1>1. Sound(y) /\ y.core = w.core /\ Same(y.v, w.v, Fields \ BalanceFields) /\ MoreAt(y.v.balance, w.v.balance, h, shares)
  BY MintKeeps
<1> HIDE DEF y
<1>2. y.v.balance[h] = w.v.balance[h] + shares /\ \A x \in Holders \ {h} : y.v.balance[x] = w.v.balance[x]
  BY <1>1 DEF MoreAt
<1>3. Traded(y, w, 0, shares)
  <2>1. shares \in Int
    OBVIOUS
  <2> QED BY ONLY Sound(w), h \in Holders, <1>1, <1>2, <2>1, BalanceTrade
<1> QED BY <1>3 DEF y

\* Shares that are burned leave it.
LEMMA BurnTrade ==
  ASSUME NEW w, Sound(w), NEW h \in Holders, NEW shares \in Nat, shares <= w.v.balance[h]
  PROVE  Traded(Burn(w, h, shares), w, 0, 0 - shares)
<1> DEFINE y == Burn(w, h, shares)
<1>1. Sound(y) /\ y.core = w.core /\ Same(y.v, w.v, Fields \ BalanceFields) /\ LessAt(y.v.balance, w.v.balance, h, shares)
  BY BurnKeeps
<1>2. w.v.balance \in [Holders -> Nat] /\ w.v.balance[h] \in Nat
  BY DEF Sound, StockOk
<1> HIDE DEF y
<1>3. y.v.balance[h] = w.v.balance[h] + (0 - shares) /\ \A x \in Holders \ {h} : y.v.balance[x] = w.v.balance[x]
  BY <1>1, <1>2 DEF LessAt
<1> DEFINE s == 0 - shares
<1>4. s \in Int /\ y.v.balance[h] = w.v.balance[h] + s
  BY <1>3
<1> HIDE DEF s
<1>5. Traded(y, w, 0, s)
  BY ONLY Sound(w), h \in Holders, <1>1, <1>3, <1>4, BalanceTrade
<1> QED BY <1>5 DEF y, s

\* A trade at a price that is not the mover's advantage is fair to the others.
LEMMA TradeFair ==
  ASSUME NEW w, Priced(w), EnvOk, NEW y, Priced(y), NEW n \in Int, NEW s \in Int, Traded(y, w, n, s),
         n >= 0 \/ 0 - n <= TotalAssets(w), Bartered(w, n, s)
  PROVE  Undiluted(y, w)
<1>1. SUFFICES ASSUME reserve.rate = 1 PROVE Fair(y, w)
  BY DEF Undiluted
<1>2. Pool(y) = Pool(w) + n /\ y.v.supply = w.v.supply + s
  BY <1>1 DEF Traded
<1>3. Same(y.v, w.v, {"lockedProfit", "unlockStart", "unlockEnd"}) /\ Same(y.v, w.v, LateFields)
  BY DEF Traded, Same, WorthFields
<1>4. LateOnes(y, w)
  <2>1. /\ y.v.position = w.v.position /\ y.v.funded = w.v.funded /\ y.v.terminal = w.v.terminal
        /\ y.v.overdue = w.v.overdue
    BY <1>3 DEF Same, LateFields
  <2>2. Carrying(y.v) = Carrying(w.v)
    BY <2>1 DEF Carrying, Live
  <2>3. \A d : Loan(y, d) = Loan(w, d)
    BY DEF Traded, Loan
  <2> QED BY <2>1, <2>2, <2>3 DEF LateOnes
<1>5. Moved(y, w, n)
  BY <1>1, <1>2, <1>3, <1>4, PoolMoves
<1> QED BY <1>2, <1>5, FairWhen

\* A trade keeps the list that the price walks.
LEMMA TradePriced ==
  ASSUME NEW w, Priced(w), NEW y, Sound(y), NEW n, NEW s, Traded(y, w, n, s), y.v.openLoans = w.v.openLoans
  PROVE  Priced(y)
<1>1. y.v.funded = w.v.funded /\ y.v.terminal = w.v.terminal
  BY DEF Traded, Same, LateFields
<1> QED BY <1>1 DEF Priced, OpenListed, Live

\* Shares issued at the price of the full assets, rounded down.
LEMMA EnteringFair ==
  ASSUME NEW w, Priced(w), EnvOk, NEW y, Priced(y), NEW assets \in Nat, Traded(y, w, assets, ToShares(w, assets))
  PROVE  Undiluted(y, w)
<1> DEFINE s == ToShares(w, assets)
           F == FullAssets(w) + 1
           T == TotalAssets(w) + 1
           N == Stock(w)
<1>1. F \in Nat \ {0} /\ T \in Nat \ {0} /\ N \in Nat \ {0} /\ T <= F
  BY FairTypes
<1>2. s = (assets * N) \div F
  BY DEF ToShares, Stock
<1> HIDE DEF s, F, T, N
<1>3. assets * N \in Nat
  BY <1>1, ProductNat
<1>4. s \in Nat /\ s * F <= assets * N
  BY <1>1, <1>2, <1>3, QuotientNat
<1>5. T * s <= F * s /\ F * s = s * F /\ F * s \in Nat /\ T * s \in Nat
  BY <1>1, <1>4, ProductGrows, ProductNat
<1>6. F * s <= assets * N /\ T * s <= assets * N
  BY <1>3, <1>4, <1>5
<1>7. Bartered(w, assets, s)
  BY <1>6 DEF Bartered, F, T, N
<1>8. Traded(y, w, assets, s) /\ assets \in Int /\ s \in Int /\ assets >= 0
  BY <1>4 DEF s
<1> QED BY <1>7, <1>8, TradeFair

\* Assets paid for shares at the price of the released assets, rounded for the vault.
Bought0(w, shares, assets) == assets * Stock(w) <= shares * (TotalAssets(w) + 1)

\* Then those who leave take no more than their part.
LEMMA LeavingFair ==
  ASSUME NEW w, Priced(w), EnvOk, NEW y, Priced(y), NEW assets \in Nat, NEW shares \in Nat,
         Traded(y, w, 0 - assets, 0 - shares), Bought0(w, shares, assets)
  PROVE  Undiluted(y, w)
<1> DEFINE n == 0 - assets
           s == 0 - shares
           A == TotalAssets(w)
           F == FullAssets(w) + 1
           T == TotalAssets(w) + 1
           N == Stock(w)
<1>1. F \in Nat \ {0} /\ T \in Nat \ {0} /\ N \in Nat \ {0} /\ T <= F /\ A \in Nat /\ T = A + 1
  BY FairTypes
<1>2. assets * N <= shares * T
  BY DEF Bought0
<1>3. shares + 1 <= N
  <2>1. w.v.supply \in Nat /\ y.v.supply \in Nat /\ VIRTUAL_SHARES \in Nat \ {0}
    BY PoolNat, Parameters DEF Priced
  <2>2. y.v.supply = w.v.supply + (0 - shares)
    BY DEF Traded
  <2> QED BY <2>1, <2>2 DEF Stock
<1> HIDE DEF F, T, N, A
<1>4. assets <= A
  <2>1. SUFFICES ASSUME T <= assets PROVE FALSE
    BY <1>1
  <2>2. T * N <= assets * N /\ (shares + 1) * T <= N * T /\ T * N \in Nat /\ assets * N \in Nat
        /\ shares * T \in Nat /\ N * T \in Nat /\ (shares + 1) * T \in Nat
    BY <1>1, <1>3, <2>1, ProductGrows, ProductNat
  <2>3. T * N = N * T /\ (shares + 1) * T = shares * T + T
    BY <1>1
  <2> QED BY <1>1, <1>2, <2>2, <2>3
<1>5. F * s <= n * N /\ T * s <= n * N
  <2>1. T * shares <= F * shares /\ T * shares \in Nat /\ F * shares \in Nat /\ assets * N \in Nat
    BY <1>1, ProductGrows, ProductNat
  <2>2. F * s = 0 - F * shares /\ T * s = 0 - T * shares /\ n * N = 0 - assets * N /\ shares * T = T * shares
    BY <1>1
  <2> HIDE DEF n, s
  <2> QED BY <1>2, <2>1, <2>2
<1>6. Bartered(w, n, s)
  BY <1>5 DEF Bartered, F, T, N
<1>7. n \in Int /\ s \in Int /\ 0 - n <= A /\ Traded(y, w, n, s)
  BY <1>4
<1> HIDE DEF n, s
<1> QED BY <1>6, <1>7, TradeFair DEF A

\* What shares are worth, rounded down, is such a price.
LEMMA WorthBought ==
  ASSUME NEW w, Priced(w), EnvOk, NEW shares \in Nat
  PROVE  Bought0(w, shares, ToAssets(w, shares))
<1> DEFINE T == TotalAssets(w) + 1
           N == Stock(w)
           a == ToAssets(w, shares)
<1>1. T \in Nat /\ N \in Nat \ {0}
  BY FairTypes
<1>2. a = (shares * T) \div N
  BY DEF ToAssets, Stock
<1> HIDE DEF T, N, a
<1>3. shares * T \in Nat
  BY <1>1, ProductNat
<1>4. a * N <= shares * T
  BY <1>1, <1>2, <1>3, QuotientNat
<1> QED BY <1>4 DEF Bought0, T, N, a

\* So are the shares that assets cost, rounded up.
LEMMA CostBought ==
  ASSUME NEW w, Priced(w), EnvOk, NEW assets \in Nat
  PROVE  Bought0(w, PreviewWithdraw(w, assets), assets)
<1> DEFINE T == TotalAssets(w) + 1
           N == Stock(w)
           x == assets * N
           y == x + T - 1
           q == PreviewWithdraw(w, assets)
<1>1. T \in Nat \ {0} /\ N \in Nat
  BY FairTypes
<1>2. q = y \div T
  BY DEF PreviewWithdraw, Ceil, Stock
<1> HIDE DEF T, N, q
<1>3. x \in Nat /\ y \in Nat /\ y = x + T - 1
  <2>1. x \in Nat
    BY <1>1, ProductNat
  <2> HIDE DEF x
  <2> QED BY <1>1, <2>1
<1> HIDE DEF x, y
<1>4. q \in Nat /\ y < (q + 1) * T
  BY <1>1, <1>2, <1>3, QuotientNat, QuotientBelow
<1>5. (q + 1) * T = q * T + T /\ q * T \in Nat
  BY <1>1, <1>4, ProductNat
<1>6. x <= q * T
  BY <1>1, <1>3, <1>4, <1>5
<1> QED BY <1>6 DEF Bought0, T, N, q, x

\* A step that trades nothing is fair.
LEMMA NoTradeFair ==
  ASSUME NEW w, Priced(w), EnvOk, NEW y, Priced(y), Traded(y, w, 0, 0)
  PROVE  Undiluted(y, w)
<1>1. Bartered(w, 0, 0)
  <2>1. FullAssets(w) \in Nat /\ TotalAssets(w) \in Nat /\ Stock(w) \in Nat
    BY FairTypes
  <2> QED BY <2>1 DEF Bartered
<1>2. 0 \in Int /\ 0 >= 0
  OBVIOUS
<1> QED BY <1>1, <1>2, TradeFair

\* A deposit is fair.
LEMMA DepositFair ==
  ASSUME NEW w, Good(w), EnvOk, NEW h \in Holders, NEW assets \in Nat,
         Good(Mint(Receive(w, assets), h, ToShares(w, assets)))
  PROVE  Undiluted(Mint(Receive(w, assets), h, ToShares(w, assets)), w)
<1> DEFINE s == ToShares(w, assets)
           x == Receive(w, assets)
           y == Mint(x, h, s)
<1>1. Priced(w) /\ Priced(y) /\ Sound(w) /\ Sound(y)
  BY GoodPriced DEF Good
<1>2. s \in Nat
  BY <1>1, ConversionsNat
<1>3. Keeps(x, w) /\ Traded(x, w, assets, 0)
  BY <1>1, ReceiveKeeps, ReceiveTrade
<1> HIDE DEF s, x
<1>4. Sound(x) /\ Traded(y, x, 0, s)
  BY <1>2, <1>3, MintTrade DEF Keeps
<1> HIDE DEF y
<1>5. assets + 0 = assets /\ 0 + s = s /\ assets \in Int /\ s \in Int /\ 0 \in Int
  BY <1>2
<1>6. Traded(y, w, assets, s)
  BY <1>1, <1>3, <1>4, <1>5, TradedChain
<1>7. Undiluted(y, w)
  BY <1>1, <1>6, EnteringFair DEF s
<1> QED BY <1>7 DEF y, x, s

\* So is leaving at a price that is not the leaver's advantage.
LEMMA ExitFair ==
  ASSUME NEW w, Good(w), EnvOk, NEW h \in Holders, NEW shares, FreeAt(w, h, shares),
         NEW assets \in Nat, CanPayOut(w, assets), Bought0(w, shares, assets),
         Good(Send(Burn(PayOut(w, assets), h, shares), "USDG", assets))
  PROVE  Undiluted(Send(Burn(PayOut(w, assets), h, shares), "USDG", assets), w)
<1> DEFINE n == 0 - assets
           s == 0 - shares
           a == PayOut(w, assets)
           b == Burn(a, h, shares)
           y == Send(b, "USDG", assets)
           none == {}
<1>1. Priced(w) /\ Priced(y) /\ Sound(w) /\ Sound(y)
  BY GoodPriced DEF Good
<1>2. shares \in Nat /\ shares <= w.v.balance[h]
  <2>1. w.v.balance \in [Holders -> Nat] /\ w.v.lockedShares \in [Holders -> Nat]
    BY DEF Good, Sound, StockOk
  <2> QED BY <2>1 DEF FreeAt
<1>3. Keeps(a, w) /\ Same(a.v, w.v, Fields \ {"cash", "reserveShares"}) /\ Traded(a, w, n, 0)
  BY <1>1, PayOutKeeps, PayOutTrade
<1> HIDE DEF a
<1>4. Sound(a) /\ a.v.balance = w.v.balance
  BY <1>3 DEF Keeps, Same, Fields
<1>5. Sound(b) /\ Traded(b, a, 0, s)
  BY <1>2, <1>4, BurnKeeps, BurnTrade
<1> HIDE DEF b
<1>6. SendWrote(y, b, "USDG", assets)
  BY <1>5, SoundShape, SendDoes
<1> HIDE DEF y
<1>7. Same(y.v, b.v, Fields \ none) /\ y.core.deal = b.core.deal /\ none \cap PricedBook = {}
  BY <1>6 DEF SendWrote, Same
<1> HIDE DEF none
<1>8. Traded(y, b, 0, 0)
  BY <1>5, <1>7, QuietTrade
<1>9. n \in Int /\ s \in Int /\ 0 \in Int /\ n + 0 = n /\ 0 + s = s /\ s + 0 = s
  BY <1>2
<1>10. Traded(b, w, n, s)
  BY <1>1, <1>3, <1>4, <1>5, <1>9, TradedChain
<1>11. Traded(y, w, n, s)
  BY <1>1, <1>5, <1>8, <1>9, <1>10, TradedChain
<1>12. Undiluted(y, w)
  BY <1>1, <1>2, <1>11, LeavingFair
<1> QED BY <1>12 DEF y, b, a

\* And the queue: shares of a request are bought at what they are worth.
LEMMA BoughtFair ==
  ASSUME NEW w, Priced(w), LocksFit(w.v), EnvOk, NEW id \in DOMAIN w.v.requests,
         NEW shares, PartOfRequest(w, id, shares), NEW assets, assets = ToAssets(w, shares), CanPayOut(w, assets)
  PROVE  Undiluted(Bought(w, id, shares, assets), w) /\ Priced(Bought(w, id, shares, assets))
<1> DEFINE h == w.v.requests[id].owner
           n == 0 - assets
           s == 0 - shares
           a == PayOut(w, assets)
           b == Burn(a, h, shares)
           c == Unlock(b, id, shares)
           y == Credited(c, h, assets)
           K == {"requests", "lockedShares", "pendingShares"}
           L == {"claimable", "claimableTotal"}
<1>1. Bought(w, id, shares, assets) = y
  BY BoughtIs
<1>2. Sound(w) /\ shares \in Nat /\ assets \in Nat
  <2>1. Sound(w) /\ shares \in Nat
    BY DEF Priced, PartOfRequest
  <2> QED BY <2>1, ConversionsNat
<1>3. h \in Holders /\ shares <= w.v.balance[h]
  <2> DEFINE V == w.v
  <2>1. StockOk(V) /\ id \in DOMAIN V.requests
    BY <1>2 DEF Sound
  <2> HIDE DEF V
  <2>2. /\ V.requests[id].owner \in Holders /\ V.requests[id].shares \in Nat
        /\ V.requests[id].shares <= V.lockedShares[V.requests[id].owner]
    BY <2>1, RequestsFinite, RequestLocked
  <2>3. V.lockedShares \in [Holders -> Nat] /\ V.balance \in [Holders -> Nat]
    BY <2>1 DEF StockOk
  <2>4. shares <= V.requests[id].shares
    BY DEF PartOfRequest, V
  <2>5. V.lockedShares[h] <= V.balance[h]
    BY <2>2 DEF LocksFit, V
  <2> QED BY <1>2, <2>2, <2>3, <2>4, <2>5 DEF V
<1>4. Keeps(a, w) /\ Same(a.v, w.v, Fields \ {"cash", "reserveShares"}) /\ Traded(a, w, n, 0)
  BY <1>2, PayOutKeeps, PayOutTrade
<1> HIDE DEF a, h
<1>5. Sound(a) /\ a.v.balance = w.v.balance /\ a.v.openLoans = w.v.openLoans
  BY <1>4 DEF Keeps, Same, Fields
<1>6. Sound(b) /\ Same(b.v, a.v, Fields \ BalanceFields) /\ Traded(b, a, 0, s)
  BY <1>2, <1>3, <1>5, BurnKeeps, BurnTrade
<1> HIDE DEF b
<1>7. UnlockWrote(c, b, id, shares)
  BY <1>6, SoundShape, UnlockDoes
<1> HIDE DEF c
<1>8. Shape(c) /\ Same(c.v, b.v, Fields \ K) /\ c.core.deal = b.core.deal
  BY <1>7 DEF UnlockWrote
<1>9. CreditedWrote(y, c, h, assets)
  BY <1>8, CreditedDoes
<1> HIDE DEF y
<1>10. Same(y.v, c.v, Fields \ L) /\ y.core.deal = c.core.deal
  BY <1>9 DEF CreditedWrote
<1>11. Same(y.v, b.v, Fields \ (K \cup L)) /\ y.core.deal = b.core.deal /\ (K \cup L) \cap PricedBook = {}
  BY <1>8, <1>10 DEF Same, PricedBook
<1>12. y.v.openLoans = w.v.openLoans
  BY <1>5, <1>6, <1>11 DEF Same, Fields, BalanceFields
<1> HIDE DEF K, L
<1>13. Traded(y, b, 0, 0)
  BY <1>6, <1>11, QuietTrade
<1>14. n \in Int /\ s \in Int /\ 0 \in Int /\ n + 0 = n /\ 0 + s = s /\ s + 0 = s
  BY <1>2
<1>15. Traded(b, w, n, s)
  BY <1>2, <1>4, <1>5, <1>6, <1>14, TradedChain
<1>16. Traded(y, w, n, s)
  BY <1>2, <1>6, <1>13, <1>14, <1>15, TradedChain
<1>17. Sound(y)
  <2>1. Keeps(Bought(w, id, shares, assets), w)
    BY <1>2, BoughtKeeps
  <2> QED BY <1>1, <2>1 DEF Keeps
<1>18. Priced(y)
  BY <1>12, <1>16, <1>17, TradePriced
<1>19. Undiluted(y, w)
  BY <1>2, <1>16, <1>18, WorthBought, LeavingFair
<1> QED BY <1>1, <1>18, <1>19

\* No share is worth less after the turns so far.
FairQueue(q, w) == q.ok => Undiluted(q.w, w)

\* While it serves, the loop leaves the list of loans alone.
LEMMA ServingPriced ==
  ASSUME NEW w, Good(w), NEW q, NEW k, Serving(q, w, k), q.ok
  PROVE  Sound(q.w) /\ Priced(q.w)
<1>1. Sound(q.w) /\ Same(q.w.v, w.v, Fields \ ServeFields)
  BY DEF Serving, Keeps
<1>2. q.w.v.openLoans = w.v.openLoans /\ q.w.v.funded = w.v.funded /\ q.w.v.terminal = w.v.terminal
  BY <1>1 DEF Same, Fields, ServeFields
<1> QED BY <1>1, <1>2 DEF Good, ListOk, Priced, OpenListed, Live

\* One turn of the queue is fair.
LEMMA TurnFair ==
  ASSUME NEW w, Good(w), EnvOk, NEW k \in Nat \ {0}, NEW id \in DOMAIN w.v.requests, id = w.v.head + k - 1,
         NEW q, Serving(q, w, k - 1), FairQueue(q, w)
  PROVE  FairQueue(ServeOne(q, id), w)
<1> DEFINE W == q.w
           all == W.v.requests[id].shares
           worth == ToAssets(W, all)
           shares == Affordable(q, all, worth)
           assets == ToAssets(W, shares)
           r == ServeShares(q, id, shares, assets)
           z == ServeOne(q, id)
           K == {"requests", "lockedShares", "pendingShares"}
<1>1. SUFFICES ASSUME z.ok PROVE Undiluted(z.w, w)
  BY DEF FairQueue
<1>2. z = IF q.stop THEN q
          ELSE IF all = 0 THEN [q EXCEPT !.head = id + 1]
          ELSE IF worth = 0 THEN HandBack(q, id, all)
          ELSE IF shares = 0 \/ assets = 0 THEN [q EXCEPT !.stop = TRUE]
          ELSE NextHead(r, id, all, shares)
  BY ONLY ServeOneIs
<1>3. DOMAIN q = QueueParts
  BY DEF Serving
<1>4. /\ HandBack(q, id, all).w = Unlock(W, id, all) /\ HandBack(q, id, all).ok = q.ok
      /\ r.w = Bought(W, id, shares, assets) /\ r.ok = (q.ok /\ CanPayOut(W, assets)) /\ DOMAIN r = QueueParts
  <2> HIDE DEF all, shares, assets
  <2> QED BY <1>3 DEF HandBack, ServeShares, QueueParts
<1> DEFINE hb == HandBack(q, id, all)
<1> HIDE DEF z, r, hb, W, assets, shares, worth, all
<1>5. NextHead(r, id, all, shares).w = r.w /\ NextHead(r, id, all, shares).ok = r.ok
  BY <1>4 DEF NextHead, QueueParts
<1>6. z.ok => q.ok
  BY <1>2, <1>3, <1>4, <1>5 DEF QueueParts, hb
<1>7. /\ q.ok /\ q.budget \in Nat /\ Sound(W) /\ Priced(W) /\ LocksFit(W.v) /\ DOMAIN W.v.requests = DOMAIN w.v.requests
      /\ Undiluted(W, w)
  <2>1. q.ok
    BY <1>1, <1>6
  <2>2. Sound(q.w) /\ Priced(q.w)
    BY <2>1, ServingPriced
  <2> QED BY <2>1, <2>2 DEF Serving, FairQueue, W
<1>8. id \in DOMAIN W.v.requests /\ all \in Nat /\ all <= W.v.requests[id].shares
  <2>1. id \in DOMAIN W.v.requests /\ StockOk(W.v)
    BY <1>7 DEF Sound
  <2>2. all \in Nat
    BY <2>1, RequestsFinite DEF all
  <2> QED BY <2>1, <2>2 DEF all
<1>9. Priced(w)
  BY GoodPriced
<1>10. CASE q.stop \/ all = 0 \/ (worth # 0 /\ (shares = 0 \/ assets = 0))
  <2>1. z.w = W
    BY <1>2, <1>3, <1>10 DEF QueueParts, W
  <2> QED BY <1>7, <2>1
<1>11. CASE ~q.stop /\ all # 0 /\ worth = 0
  <2> DEFINE y == Unlock(W, id, all)
  <2>1. z.w = y
    BY <1>2, <1>4, <1>11 DEF hb
  <2>2. Sound(y)
    BY <1>7, <1>8, UnlockKeeps DEF Keeps
  <2>3. UnlockWrote(y, W, id, all)
    BY <1>7, SoundShape, UnlockDoes
  <2> HIDE DEF y
  <2>4. Same(y.v, W.v, Fields \ K) /\ y.core.deal = W.core.deal
    BY ONLY <2>3 DEF UnlockWrote
  <2>5. K \cap PricedBook = {} /\ y.v.openLoans = W.v.openLoans
    BY <2>4 DEF PricedBook, Same, Fields
  <2> HIDE DEF K
  <2>6. Traded(y, W, 0, 0)
    BY <1>7, <2>4, <2>5, QuietTrade
  <2>7. Priced(y)
    BY <1>7, <2>2, <2>5, <2>6, TradePriced
  <2>8. Undiluted(y, W)
    BY <1>7, <2>6, <2>7, NoTradeFair
  <2> QED BY <1>7, <1>9, <2>1, <2>7, <2>8, FairChain DEF Undiluted
<1>12. CASE ~q.stop /\ all # 0 /\ worth # 0 /\ shares # 0 /\ assets # 0
  <2> DEFINE y == Bought(W, id, shares, assets)
  <2>1. z.w = y /\ CanPayOut(W, assets)
    BY <1>1, <1>2, <1>4, <1>5, <1>12
  <2>2. PartOfRequest(W, id, shares)
    <3>1. Sound(q.w)
      BY <1>7 DEF W
    <3>2. shares \in Nat /\ shares <= all
      BY <1>7, <1>8, <3>1, AffordableFits DEF worth, shares, W
    <3> QED BY <3>2 DEF PartOfRequest, all
  <2>3. assets = ToAssets(W, shares)
    BY DEF assets
  <2>4. Undiluted(y, W) /\ Priced(y)
    BY <1>7, <1>8, <2>1, <2>2, <2>3, BoughtFair
  <2> HIDE DEF y
  <2> QED BY <1>7, <1>9, <2>1, <2>4, FairChain DEF Undiluted
<1> QED BY <1>10, <1>11, <1>12

\* So is a whole call that serves the queue.
LEMMA ServeFair ==
  ASSUME NEW w, Good(w), EnvOk, NEW count \in Nat, NEW maxAssets \in Nat, Served(w, count, maxAssets).ok,
         Good(HeadAt(Served(w, count, maxAssets).w, Served(w, count, maxAssets).head))
  PROVE  Undiluted(HeadAt(Served(w, count, maxAssets).w, Served(w, count, maxAssets).head), w)
<1> DEFINE n == Atmost(count, Len(w.v.requests) - w.v.head + 1)
           q0 == Queue(w, maxAssets)
           s == Turns(w, count)
           q == Served(w, count, maxAssets)
           x == q.w
           y == HeadAt(x, q.head)
           K == {"head"}
<1>1. n \in Nat /\ \A k \in 1 .. n : s[k] = w.v.head + k - 1 /\ s[k] \in DOMAIN w.v.requests
  BY TurnsVisit DEF Visits
<1>2. PICK f : Steps(f, "queue", {}, q0, s, n) /\ q = f[n]
  BY <1>1, ServedSteps
<1> HIDE DEF n, s, q
<1> DEFINE A == {k \in 0 .. n : Serving(f[k], w, k) /\ FairQueue(f[k], w)}
<1>3. 0 \in A
  <2>1. f[0] = q0
    BY <1>2 DEF Steps
  <2>2. q0.w = w /\ Undiluted(w, w)
    BY FairSelf DEF Queue
  <2> HIDE DEF q0
  <2>3. FairQueue(q0, w)
    BY <2>2 DEF FairQueue
  <2>4. Serving(q0, w, 0)
    BY QueueStarts DEF q0
  <2> QED BY <1>1, <2>1, <2>3, <2>4
<1>4. ASSUME NEW k \in 1 .. n, k - 1 \in A PROVE k \in A
  <2>1. f[k] = ServeOne(f[k - 1], s[k])
    BY <1>2 DEF Steps, Turn
  <2>2. /\ Serving(f[k - 1], w, k - 1) /\ k \in Nat \ {0} /\ s[k] \in DOMAIN w.v.requests /\ s[k] = w.v.head + k - 1
        /\ FairQueue(f[k - 1], w)
    BY <1>1, <1>4
  <2>3. Serving(ServeOne(f[k - 1], s[k]), w, k)
    BY <2>2, TurnKeeps
  <2>4. FairQueue(ServeOne(f[k - 1], s[k]), w)
    BY <2>2, TurnFair
  <2> QED BY <2>1, <2>3, <2>4
<1>5. n \in A
  <2> HIDE DEF A
  <2>1. A \in SUBSET (0 .. n)
    BY DEF A
  <2> QED BY <1>1, <1>3, <1>4, <2>1, TurnByTurn
<1>6. q.ok /\ Serving(q, w, n) /\ FairQueue(q, w)
  BY <1>2, <1>5 DEF q
<1>7. Sound(x) /\ Priced(x) /\ Undiluted(x, w)
  BY <1>6, ServingPriced DEF FairQueue
<1>8. Good(y)
  BY DEF q
<1> HIDE DEF x
<1>9. HeadAtWrote(y, x, q.head)
  BY <1>7, SoundShape, HeadAtDoes
<1> HIDE DEF y
<1>10. Same(y.v, x.v, Fields \ K) /\ y.core.deal = x.core.deal /\ K \cap PricedBook = {}
  BY <1>9 DEF HeadAtWrote, PricedBook
<1> HIDE DEF K
<1>11. Traded(y, x, 0, 0)
  BY <1>7, <1>10, QuietTrade
<1>12. Priced(y) /\ Priced(w)
  BY <1>8, GoodPriced
<1>13. Undiluted(y, x)
  BY <1>7, <1>11, <1>12, NoTradeFair
<1>14. Undiluted(y, w)
  BY <1>7, <1>12, <1>13, FairChain DEF Undiluted
<1> QED BY <1>14 DEF y, x, q

(***************************************************************************)
(* Transactions as steps of the specification.                             *)
(***************************************************************************)
\* The inductive invariant: the books are in order, and the world is what the code takes it for.
Books == Good(World) /\ EnvOk
\* What a step keeps: the books, every balance of record and, in a reserve that neither moves nor
\* rounds, what a share is worth.
Intact == Books' /\ Kept(v', v) /\ (now' = now /\ reserve' = reserve => Undiluted(World', World))

\* Of a world the books read the storage, the records at the loan engine and the token balances.
LEMMA SameBooks ==
  ASSUME NEW y, Good(y), NEW z, z.v = y.v, z.core = y.core, z.held = y.held, DOMAIN z = {"v", "core", "held"}
  PROVE  Good(z)
BY DEF Good, Sound, Shape

\* A step that ends in a world in good order keeps the books.
LEMMA Committed ==
  ASSUME Books, NEW y, Good(y), Keeps(y, World), Undiluted(y, World), Become(y), now' = now, reserve' = reserve
  PROVE  Intact
<1>1. PICK z : z = World'
  OBVIOUS
<1>2. z.v = y.v /\ z.core = y.core /\ z.held = y.held /\ DOMAIN z = {"v", "core", "held"}
  BY <1>1 DEF World, Become
<1>3. Good(z)
  BY <1>2, SameBooks
<1>4. Good(World)'
  BY <1>1, <1>3 DEF Good, Sound, PriceOk
<1>5. EnvOk'
  BY DEF Books, EnvOk
<1>6. Kept(v', v)
  BY DEF Keeps, World, Become
<1>7. Undiluted(World', World)
  <2>1. Undiluted(z, World)
    BY <1>2, SameFair
  <2> QED BY <1>1, <2>1
<1> QED BY <1>4, <1>5, <1>6, <1>7 DEF Intact, Books

\* A step that leaves the strategy alone keeps the books, whatever the clock and the reserve do.
LEMMA Undisturbed ==
  ASSUME Books, UNCHANGED world, now' \in Nat, now <= now', EnvOk'
  PROVE  Intact
<1>1. World' = World
  BY DEF world, World
<1>2. Sound(World) /\ v = World.v
  BY DEF Books, Good, World
<1>3. PriceOk(World.v)'
  BY <1>1, <1>2 DEF Sound, PriceOk, Books, EnvOk
<1>4. Good(World)'
  BY <1>1, <1>3 DEF Books, Good, Sound
<1>5. Kept(v', v)
  BY <1>1, <1>2, KeepsSelf DEF Keeps, world
<1>6. Undiluted(World', World)
  <2>1. Undiluted(World, World)
    BY FairSelf DEF Books
  <2> QED BY <1>1, <2>1
<1> QED BY <1>4, <1>5, <1>6 DEF Intact, Books

\* The checkpoint most entry points begin with.
LEMMA AfterCheckpoint ==
  ASSUME Books
  PROVE  LET w == Checkpoint(World)
         IN  /\ Good(w) /\ Keeps(w, World) /\ Undiluted(w, World)
             /\ Same(w.v, v, Fields \ CheckFields) /\ Sound(w) /\ Sound(World)
<1>1. Good(World) /\ EnvOk /\ World.v = v /\ Sound(World)
  BY DEF Books, World, Good
<1> DEFINE w == Checkpoint(World)
<1>2. Good(w) /\ Keeps(w, World) /\ Same(w.v, World.v, Fields \ CheckFields)
  BY <1>1, CheckpointKeeps
<1>3. Undiluted(w, World)
  BY <1>1, <1>2, CheckpointFair
<1> HIDE DEF w
<1> QED BY <1>1, <1>2, <1>3 DEF Good, w

\* An entry point that checkpoints first, and then ends in a world in good order.
LEMMA CommittedAfter ==
  ASSUME Books, NEW w, Good(w), Keeps(w, World), Undiluted(w, World),
         NEW y, Good(y), Keeps(y, w), Undiluted(y, w), Become(y), now' = now, reserve' = reserve
  PROVE  Intact
<1>1. Sound(World) /\ Good(World) /\ EnvOk
  BY DEF Books, Good
<1>2. Keeps(y, World)
  BY <1>1, KeepsChain
<1>3. Undiluted(y, World)
  BY <1>1, UndilutedChain
<1> QED BY <1>2, <1>3, Committed

(***************************************************************************)
(* Depositors.                                                             *)
(***************************************************************************)
\* deposit and mint keeps the books, and what was on record stays.
LEMMA DepositStep == ASSUME Books, NEW h \in Holders, NEW assets \in Nat, Deposit(h, assets) PROVE Intact
<1> DEFINE w == Checkpoint(World)
           shares == ToShares(w, assets)
           y == Mint(Receive(w, assets), h, shares)
<1>1. Become(y) /\ now' = now /\ reserve' = reserve
  BY DEF Deposit
<1>2. Good(w) /\ Keeps(w, World) /\ Undiluted(w, World) /\ Sound(w) /\ EnvOk
  BY AfterCheckpoint DEF Books
<1> HIDE DEF w
<1>3. shares \in Nat
  BY <1>2, ConversionsNat
<1>4. Good(y) /\ Keeps(y, w)
  <2> HIDE DEF shares
  <2> QED BY <1>2, <1>3, DepositGood
<1>5. Undiluted(y, w)
  BY <1>2, <1>4, DepositFair
<1> HIDE DEF y, shares
<1> QED BY <1>1, <1>2, <1>4, <1>5, CommittedAfter

\* An exit, at whatever price.
LEMMA ExitStep ==
  ASSUME Books, NEW w, Good(w), Keeps(w, World), Undiluted(w, World), NEW h \in Holders,
         NEW shares \in Nat, NEW assets \in Nat, Bought0(w, shares, assets), Exit(w, h, shares, assets)
  PROVE  Intact
<1> DEFINE y == Send(Burn(PayOut(w, assets), h, shares), "USDG", assets)
<1>1. Become(y) /\ now' = now /\ reserve' = reserve /\ FreeAt(w, h, shares) /\ CanPayOut(w, assets)
  BY DEF Exit, around, Free, FreeAt
<1>2. EnvOk
  BY DEF Books
<1>3. Good(y) /\ Keeps(y, w)
  BY <1>1, <1>2, ExitGood
<1>4. Undiluted(y, w)
  BY <1>1, <1>2, <1>3, ExitFair
<1> HIDE DEF y
<1> QED BY <1>1, <1>3, <1>4, CommittedAfter

\* redeem keeps the books, and what was on record stays.
LEMMA RedeemStep == ASSUME Books, NEW h \in Holders, NEW shares \in Nat, Redeem(h, shares) PROVE Intact
<1> DEFINE w == Checkpoint(World)
           assets == ToAssets(w, shares)
<1>1. Exit(w, h, shares, assets)
  BY DEF Redeem
<1>2. Good(w) /\ Keeps(w, World) /\ Undiluted(w, World) /\ Sound(w) /\ EnvOk
  BY AfterCheckpoint DEF Books
<1> HIDE DEF w
<1>3. assets \in Nat /\ Bought0(w, shares, assets)
  BY <1>2, ConversionsNat, GoodPriced, WorthBought
<1> HIDE DEF assets
<1> QED BY <1>1, <1>2, <1>3, ExitStep

\* withdraw keeps the books, and what was on record stays.
LEMMA WithdrawStep == ASSUME Books, NEW h \in Holders, NEW assets \in Nat, Withdraw(h, assets) PROVE Intact
<1> DEFINE w == Checkpoint(World)
           shares == PreviewWithdraw(w, assets)
<1>1. Exit(w, h, shares, assets)
  BY DEF Withdraw
<1>2. Good(w) /\ Keeps(w, World) /\ Undiluted(w, World) /\ Sound(w) /\ EnvOk
  BY AfterCheckpoint DEF Books
<1> HIDE DEF w
<1>3. shares \in Nat /\ Bought0(w, shares, assets)
  BY <1>2, ConversionsNat, GoodPriced, CostBought
<1> HIDE DEF shares
<1> QED BY <1>1, <1>2, <1>3, ExitStep

\* requestRedeem keeps the books, and what was on record stays.
LEMMA RequestRedeemStep ==
  ASSUME Books, NEW h \in Holders, NEW shares \in Nat, RequestRedeem(h, shares)
  PROVE  Intact
<1> DEFINE y == Requested(World, h, shares)
           K == {"lockedShares", "pendingShares", "requests"}
<1>1. Become(y) /\ now' = now /\ reserve' = reserve
  BY DEF RequestRedeem, Requested, World, Become, around
<1>2. Good(World) /\ FreeAt(World, h, shares)
  BY DEF RequestRedeem, Books, Free, FreeAt
<1>3. Good(y) /\ Keeps(y, World)
  BY <1>2, RequestGood
<1>4. RequestedWrote(y, World, h, shares)
  BY <1>2, RequestedDoes DEF Good, Sound
<1>5. K \cap PricedBook = {}
  BY DEF PricedBook
<1> HIDE DEF y
<1>6. Same(y.v, World.v, Fields \ K) /\ y.core = World.core
  BY <1>4 DEF RequestedWrote
<1> HIDE DEF K
<1>7. Undiluted(y, World)
  BY <1>2, <1>3, <1>6, <1>5, QuietFair DEF Books
<1> QED BY <1>1, <1>3, <1>7, Committed

\* cancelRequest keeps the books, and what was on record stays.
LEMMA CancelRequestStep == ASSUME Books, NEW id \in DOMAIN v.requests, CancelRequest(id) PROVE Intact
<1> DEFINE n == World.v.requests[id].shares
           y == Unlock(World, id, n)
           K == {"requests", "lockedShares", "pendingShares"}
<1>1. Become(y) /\ now' = now /\ reserve' = reserve
  BY DEF CancelRequest, World, around
<1>2. Good(World) /\ id \in DOMAIN World.v.requests
  BY DEF Books, World
<1>3. Good(y) /\ Keeps(y, World)
  BY <1>2, CancelGood
<1>4. UnlockWrote(y, World, id, n)
  BY <1>2, UnlockDoes DEF Good, Sound
<1>5. K \cap PricedBook = {}
  BY DEF PricedBook
<1> HIDE DEF y
<1>6. Same(y.v, World.v, Fields \ K) /\ y.core = World.core
  BY <1>4 DEF UnlockWrote
<1> HIDE DEF K
<1>7. Undiluted(y, World)
  BY <1>2, <1>3, <1>6, <1>5, QuietFair DEF Books
<1> QED BY <1>1, <1>3, <1>7, Committed

\* serveRequests keeps the books, and what was on record stays.
LEMMA ServeRequestsStep ==
  ASSUME Books, NEW count \in Nat, NEW maxAssets \in Nat, ServeRequests(count, maxAssets)
  PROVE  Intact
<1> DEFINE w == Checkpoint(World)
           q == Served(w, count, maxAssets)
           y == HeadAt(q.w, q.head)
<1>1. q.ok /\ Become(y) /\ now' = now /\ reserve' = reserve
  BY DEF ServeRequests, HeadAt, around
<1>2. Good(w) /\ Keeps(w, World) /\ Undiluted(w, World) /\ EnvOk
  BY AfterCheckpoint DEF Books
<1> HIDE DEF w
<1>3. Good(y) /\ Keeps(y, w)
  BY <1>1, <1>2, ServeGood
<1>4. Undiluted(y, w)
  BY <1>1, <1>2, <1>3, ServeFair
<1> HIDE DEF y
<1> QED BY <1>1, <1>2, <1>3, <1>4, CommittedAfter

\* claim keeps the books, and what was on record stays.
LEMMA ClaimStep == ASSUME Books, NEW h \in Holders, Claim(h) PROVE Intact
<1> DEFINE x == Emptied(World, h)
           n == World.v.claimable[h]
           y == Send(x, "USDG", n)
           K == {"claimable", "claimableTotal"}
<1>1. Become(y) /\ now' = now /\ reserve' = reserve
  BY DEF Claim, Emptied, World, around
<1>2. Good(World) /\ Sound(World)
  BY DEF Books, Good
<1>3. /\ Keeps(x, World) /\ Claims(x.v) + n <= x.held["USDG"] /\ n \in Nat /\ Same(x.v, World.v, Fields \ K)
  BY <1>2, EmptiedKeeps
<1>4. EmptiedWrote(x, World, h)
  BY <1>2, EmptiedDoes DEF Sound
<1> HIDE DEF x, n
<1>5. x.core.deal = World.core.deal
  BY <1>4 DEF EmptiedWrote
<1>6. K \cap TurnFields = {} /\ K \cap PricedBook = {}
  BY DEF TurnFields, PricedBook
<1> HIDE DEF K
<1>7. Good(y) /\ Keeps(y, World)
  BY <1>2, <1>3, <1>6, SentGood
<1>8. SendWrote(y, x, "USDG", n)
  BY <1>3, SendDoes DEF Keeps, Sound
<1> HIDE DEF y
<1>9. y.v = x.v /\ y.core = x.core
  BY <1>8 DEF SendWrote
<1>10. Undiluted(y, World)
  BY <1>2, <1>3, <1>5, <1>6, <1>7, <1>9, QuietFair DEF Books
<1> QED BY <1>1, <1>7, <1>10, Committed

\* claimPocket keeps the books, and what was on record stays.
LEMMA ClaimPocketStep ==
  ASSUME Books, NEW p \in DOMAIN v.pockets, NEW h \in Holders, ClaimPocket(p, h)
  PROVE  Intact
<1> DEFINE token == World.v.pockets[p].token
           amount == Slice0(World.v, p, h)
           y == SlicePaid(World, p, h, token, amount)
           K == {"pockets", "pocketLiability", "pocketClaimed"}
<1>1. Become(y) /\ now' = now /\ reserve' = reserve
  <2>1. PocketShare(World, p, h) = amount
    BY DEF PocketShare, Slice0, BalanceAt, BalAt
  <2>2. Become(Send([World EXCEPT !.v = [v EXCEPT !.pockets[p].claimed = @ + amount,
                                                 !.pocketLiability[token] = @ - amount,
                                                 !.pocketClaimed = @ \cup {<<p, h>>}]],
                    token, amount))
    BY <2>1 DEF ClaimPocket, World
  <2> HIDE DEF amount, token
  <2>3. Become(y)
    BY <2>2 DEF Send, SlicePaid, World, Become
  <2> QED BY <2>3 DEF ClaimPocket, around
<1>2. /\ Good(World) /\ Sound(World) /\ p \in DOMAIN World.v.pockets /\ World.v.pockets[p].supply # 0
      /\ <<p, h>> \notin World.v.pocketClaimed
  BY DEF Books, Good, ClaimPocket, World
<1>3. Keeps(y, World) /\ Same(y.v, World.v, Fields \ K)
  BY <1>2, SlicePaidKeeps
<1>4. SlicePaidWrote(y, World, p, h, token, amount)
  BY <1>2, SlicePaidDoes DEF Sound
<1> HIDE DEF y
<1>5. y.core.deal = World.core.deal
  BY <1>4 DEF SlicePaidWrote
<1>6. K \cap TurnFields = {} /\ K \cap PricedBook = {}
  BY DEF TurnFields, PricedBook
<1> HIDE DEF K
<1>7. Good(y)
  BY <1>2, <1>3, <1>6, StaysGood
<1>8. Undiluted(y, World)
  BY <1>2, <1>3, <1>5, <1>6, <1>7, QuietFair DEF Books
<1> QED BY <1>1, <1>3, <1>7, <1>8, Committed

\* claimRewards keeps the books, and what was on record stays.
LEMMA ClaimRewardsStep == ASSUME Books, NEW h \in Holders, ClaimRewards(h) PROVE Intact
<1> DEFINE w == Checkpoint(World)
           x == SettleRewards(w, h)
           n == Atmost(x.v.owed[h], RewardsAvailable(x))
           y == RewardPaid(x, h, n)
           K == {"owed", "index", "liability", "accounted"}
<1>1. Become(y) /\ now' = now /\ reserve' = reserve
  <2>1. Become(Send([x EXCEPT !.v = [x.v EXCEPT !.owed[h] = @ - n, !.accounted = @ - n, !.liability = @ - n]],
                    "SGAGE", n)) /\ now' = now /\ reserve' = reserve
    BY DEF ClaimRewards, around
  <2> HIDE DEF n, x
  <2> QED BY <2>1 DEF Send, RewardPaid, Become
<1>2. Good(w) /\ Keeps(w, World) /\ Undiluted(w, World)
  BY AfterCheckpoint
<1> HIDE DEF w
<1>3. Good(y) /\ Keeps(y, w)
  BY <1>2, RewardGood
<1> HIDE DEF n
<1>4. SettleRewardsWrote(x, w, h)
  BY <1>2, SettleRewardsDoes DEF Good, Sound
<1>5. RewardPaidWrote(y, x, h, n)
  <2>1. Shape(x)
    BY <1>4 DEF SettleRewardsWrote
  <2> QED BY <2>1, RewardPaidDoes
<1> HIDE DEF x, y
<1>6. Same(x.v, w.v, Fields \ {"owed", "index", "liability"}) /\ x.core = w.core
  BY <1>4 DEF SettleRewardsWrote
<1>7. Same(y.v, x.v, Fields \ {"owed", "accounted", "liability"}) /\ y.core = x.core
  BY <1>5 DEF RewardPaidWrote
<1>8. Same(y.v, w.v, Fields \ K) /\ K \cap PricedBook = {}
  BY <1>6, <1>7 DEF Same, PricedBook
<1> HIDE DEF K
<1>9. Undiluted(y, w)
  BY <1>2, <1>3, <1>6, <1>7, <1>8, QuietFair DEF Books
<1> QED BY <1>1, <1>2, <1>3, <1>9, CommittedAfter

\* Cash that goes into the reserve stays in the pool.
LEMMA InvestTrade ==
  ASSUME NEW w, Sound(w), NEW assets \in Nat, NEW shares, shares = assets \div reserve.rate
  PROVE  Traded(Invested(w, assets, shares), w, 0, 0)
<1> DEFINE y == Invested(w, assets, shares)
           K == {"cash", "reserveShares"}
<1>1. InvestedWrote(y, w, assets, shares)
  BY SoundShape, InvestedDoes
<1> HIDE DEF y
<1>2. /\ y.v.cash = w.v.cash - assets /\ y.v.reserveShares = w.v.reserveShares + shares
      /\ Same(y.v, w.v, Fields \ K) /\ y.core.deal = w.core.deal
  BY <1>1 DEF InvestedWrote
<1>3. /\ y.v.performing = w.v.performing /\ y.v.supply = w.v.supply
      /\ Same(y.v, w.v, WorthFields \cup LateFields)
  BY <1>2 DEF Same, Fields, WorthFields, LateFields
<1> HIDE DEF K
<1>4. w.v.cash \in Nat /\ w.v.reserveShares \in Nat /\ w.v.supply \in Nat /\ w.v.performing \in Nat
  BY PoolNat
<1>5. ASSUME reserve.rate = 1 PROVE Pool(y) = Pool(w) + 0
  <2>1. shares = assets
    BY <1>5
  <2> QED BY <1>2, <1>3, <1>4, <2>1 DEF Pool
<1>6. y.v.supply = w.v.supply + 0
  BY <1>3, <1>4
<1> QED BY <1>2, <1>3, <1>5, <1>6 DEF Traded, y

\* So does what comes back from it.
LEMMA DivestTrade ==
  ASSUME NEW w, Sound(w), NEW shares \in Nat, NEW assets \in Nat, assets = shares * reserve.rate,
         Sound(Divested(w, shares))
  PROVE  Traded(Receive(Divested(w, shares), assets), w, 0, 0)
<1> DEFINE x == Divested(w, shares)
           y == Receive(x, assets)
           K == {"reserveShares"}
<1>1. DivestedWrote(x, w, shares)
  BY SoundShape, DivestedDoes
<1>2. Sound(x)
  OBVIOUS
<1> HIDE DEF x
<1>3. /\ x.v.reserveShares = w.v.reserveShares - shares /\ Same(x.v, w.v, Fields \ K)
      /\ x.core.deal = w.core.deal
  BY <1>1 DEF DivestedWrote
<1>4. /\ x.v.cash = w.v.cash /\ x.v.performing = w.v.performing /\ x.v.supply = w.v.supply
      /\ Same(x.v, w.v, WorthFields \cup LateFields)
  BY <1>3 DEF Same, Fields, WorthFields, LateFields
<1> HIDE DEF K
<1>5. w.v.cash \in Nat /\ w.v.reserveShares \in Nat /\ w.v.supply \in Nat /\ w.v.performing \in Nat
  BY PoolNat
<1>6. Traded(y, x, assets, 0)
  BY <1>2, ReceiveTrade
<1> HIDE DEF y
<1>7. ASSUME reserve.rate = 1 PROVE Pool(y) = Pool(w) + 0
  <2>1. shares = assets
    BY <1>7
  <2>2. Pool(y) = Pool(x) + assets
    BY <1>6, <1>7 DEF Traded
  <2> QED BY <1>3, <1>4, <1>5, <2>1, <2>2 DEF Pool
<1>8. y.v.supply = w.v.supply + 0 /\ Same(y.v, w.v, WorthFields \cup LateFields) /\ y.core.deal = w.core.deal
  BY <1>3, <1>4, <1>5, <1>6 DEF Traded, Same
<1> QED BY <1>7, <1>8 DEF Traded, y, x

\* What a purchase writes of the price, beyond the payment: the loan joins the book, and is not late.
Lent(y, w, d, principal) ==
  /\ y.v.performing = w.v.performing + principal /\ y.v.supply = w.v.supply
  /\ y.v.cash = w.v.cash /\ y.v.reserveShares = w.v.reserveShares /\ Same(y.v, w.v, WorthFields)
  /\ y.v.funded = w.v.funded \cup {d} /\ y.v.terminal = w.v.terminal /\ y.v.overdue = w.v.overdue
  /\ \A e \in Deals \ {d} : y.v.position[e] = w.v.position[e] /\ y.core.deal[e] = w.core.deal[e]
  /\ ~ Impaired(Loan(y, d))

\* The slots bought of a listing leave it open, or start its term.
LEMMA FillOnTime ==
  ASSUME NEW w, Sound(w), EnvOk, NEW d \in Deals, w.core.deal[d].state = "FUNDING", NEW taken
  PROVE  /\ ~ Impaired(Loan(Filled(w, d, taken), d))
         /\ \A e \in Deals \ {d} : Filled(w, d, taken).core.deal[e] = w.core.deal[e]
<1> DEFINE y == Filled(w, d, taken)
           old == w.core.deal[d]
           state == IF Empty(w, d) = taken THEN "ACTIVE" ELSE w.core.deal[d].state
           start == IF Empty(w, d) = taken THEN now ELSE w.core.deal[d].fundedAt
           new == [old EXCEPT !.mine = taken, !.state = state, !.fundedAt = start]
<1>1. FilledWrote(y, w, d, taken)
  BY SoundShape, FilledDoes
<1> HIDE DEF y
<1>2. Shape(w) /\ y.core = [w.core EXCEPT !.deal = [w.core.deal EXCEPT ![d] = new]]
  BY <1>1 DEF FilledWrote, Sound
<1>3. w.core.deal \in [Deals -> DealType] /\ old \in DealType /\ "deal" \in DOMAIN w.core
  BY <1>2 DEF Sound, CoreOk, Shape
<1>4. \/ state = "FUNDING"
      \/ state = "ACTIVE" /\ start = now
  OBVIOUS
<1> HIDE DEF state, start, old
<1>5. new.state = state /\ new.fundedAt = start
  BY <1>3 DEF DealType
<1> HIDE DEF new
<1>6. y.core.deal = [w.core.deal EXCEPT ![d] = new]
  BY <1>2, <1>3
<1>7. y.core.deal[d] = new /\ \A e \in Deals \ {d} : y.core.deal[e] = w.core.deal[e]
  BY <1>3, <1>6
<1>8. ~ Impaired(Loan(y, d))
  <2>1. now \in Nat /\ Terms[d].term \in Nat \ {0}
    BY Parameters DEF EnvOk
  <2>2. ~ (now >= now + Terms[d].term)
    BY <2>1
  <2> QED BY <1>4, <1>5, <1>7, <2>2, LoanParts
<1> QED BY <1>7, <1>8 DEF y

\* A purchase after its payment.
LEMMA LentBy ==
  ASSUME NEW w, Sound(w), EnvOk, NEW d \in Deals, w.core.deal[d].state = "FUNDING", NEW taken, NEW principal \in Nat,
         Sound(Booked(Revoke(w, d), d, taken, principal))
  PROVE  Lent(Send(Filled(Booked(Revoke(w, d), d, taken, principal), d, taken), "USDG", principal), w, d, principal)
<1> DEFINE b == Revoke(w, d)
           c == Booked(b, d, taken, principal)
           e == Filled(c, d, taken)
           y == Send(e, "USDG", principal)
           K == {"approvals", "approvedPrincipal"}
<1>1. RevokeWrote(b, w, d) /\ Sound(b)
  BY SoundShape, RevokeDoes, RevokeKeeps DEF Keeps
<1>2. Sound(c)
  OBVIOUS
<1> HIDE DEF b
<1>3. b.core = w.core /\ Same(b.v, w.v, Fields \ K)
  BY <1>1 DEF RevokeWrote
<1>4. /\ b.v.performing = w.v.performing /\ b.v.supply = w.v.supply /\ b.v.cash = w.v.cash
      /\ b.v.reserveShares = w.v.reserveShares /\ Same(b.v, w.v, WorthFields)
      /\ b.v.funded = w.v.funded /\ b.v.terminal = w.v.terminal /\ b.v.overdue = w.v.overdue
      /\ b.v.position = w.v.position
  BY <1>3 DEF Same, Fields, WorthFields
<1> HIDE DEF K
<1>5. BookedWrote(c, b, d, taken, principal)
  BY <1>1, SoundShape, BookedDoes
<1> HIDE DEF c
<1>6. /\ c.core = b.core /\ c.v.funded = b.v.funded \cup {d}
      /\ c.v.position = [b.v.position EXCEPT ![d] = principal]
      /\ c.v.performing = b.v.performing + principal /\ Same(c.v, b.v, Fields \ BookFields)
  BY <1>5 DEF BookedWrote, BookFields
<1>7. /\ c.v.supply = b.v.supply /\ c.v.cash = b.v.cash
      /\ c.v.reserveShares = b.v.reserveShares /\ Same(c.v, b.v, WorthFields)
      /\ c.v.terminal = b.v.terminal /\ c.v.overdue = b.v.overdue
  BY <1>6 DEF Same, Fields, WorthFields, BookFields
<1>8. \A x \in Deals \ {d} : c.v.position[x] = b.v.position[x]
  <2>1. DOMAIN b.v.position = Deals
    BY <1>1 DEF Sound, LoanOk, LoanTypes
  <2> QED BY <1>6, <2>1
<1>9. FilledWrote(e, c, d, taken) /\ c.core.deal[d].state = "FUNDING"
  BY <1>2, <1>3, <1>6, SoundShape, FilledDoes
<1>10. ~ Impaired(Loan(e, d)) /\ \A x \in Deals \ {d} : e.core.deal[x] = c.core.deal[x]
  BY <1>2, <1>9, FillOnTime
<1> HIDE DEF e
<1>11. e.v = c.v /\ Shape(e)
  BY <1>9 DEF FilledWrote
<1>12. SendWrote(y, e, "USDG", principal)
  BY <1>11, SendDoes
<1> HIDE DEF y
<1>13. y.v = c.v /\ y.core = e.core
  BY <1>11, <1>12 DEF SendWrote
<1>14. ~ Impaired(Loan(y, d))
  BY <1>10, <1>13 DEF Loan
<1>15. /\ y.v.performing = w.v.performing + principal /\ y.v.supply = w.v.supply
       /\ y.v.cash = w.v.cash /\ y.v.reserveShares = w.v.reserveShares /\ Same(y.v, w.v, WorthFields)
       /\ y.v.funded = w.v.funded \cup {d} /\ y.v.terminal = w.v.terminal /\ y.v.overdue = w.v.overdue
  BY <1>4, <1>6, <1>7, <1>13 DEF Same
<1>16. \A x \in Deals \ {d} : y.v.position[x] = w.v.position[x] /\ y.core.deal[x] = w.core.deal[x]
  <2>1. y.v.position = c.v.position /\ c.core = w.core /\ y.core.deal = e.core.deal
    BY <1>3, <1>6, <1>13
  <2>2. ASSUME NEW x \in Deals \ {d}
        PROVE  y.v.position[x] = w.v.position[x] /\ y.core.deal[x] = w.core.deal[x]
    BY <1>4, <1>8, <1>10, <2>1, <2>2
  <2> QED BY <2>2
<1>17. Lent(y, w, d, principal)
  BY <1>14, <1>15, <1>16 DEF Lent
<1> QED BY <1>17 DEF y, e, c, b

\* A purchase turns cash into a loan of the same worth.
LEMMA BuyFair ==
  ASSUME NEW w, Good(w), EnvOk, NEW d \in Deals, d \notin w.v.funded, w.core.deal[d].state = "FUNDING",
         NEW taken, NEW principal \in Nat, CanPayOut(w, principal), NEW y, Good(y),
         Sound(PayOut(w, principal)), Lent(y, PayOut(w, principal), d, principal)
  PROVE  Undiluted(y, w)
<1> DEFINE a == PayOut(w, principal)
<1>1. Priced(w) /\ Priced(y) /\ Sound(w) /\ Sound(y)
  BY GoodPriced DEF Good
<1>2. Sound(a) /\ Lent(y, a, d, principal) /\ Traded(a, w, 0 - principal, 0)
  BY <1>1, PayOutTrade
<1> HIDE DEF a
<1>3. Pool(a) \in Nat /\ Pool(w) \in Nat /\ w.v.supply \in Nat
  BY <1>1, <1>2, PoolNat
<1>4. Pool(y) = Pool(a) + principal
  <2>1. a.v.cash \in Nat /\ a.v.reserveShares \in Nat /\ a.v.performing \in Nat
    BY <1>2, PoolNat
  <2>2. y.v.performing = a.v.performing + principal /\ y.v.cash = a.v.cash /\ y.v.reserveShares = a.v.reserveShares
    BY <1>2 DEF Lent
  <2> QED BY <2>1, <2>2 DEF Pool
<1>5. Same(a.v, w.v, WorthFields \cup LateFields) /\ a.core.deal = w.core.deal /\ a.v.supply = w.v.supply
  BY <1>2, <1>3 DEF Traded
<1>6. y.v.supply = w.v.supply /\ Same(y.v, w.v, WorthFields)
  BY <1>2, <1>5 DEF Lent, Same
<1>7. LateOnes(y, w)
  <2>1. /\ a.v.funded = w.v.funded /\ a.v.terminal = w.v.terminal /\ a.v.overdue = w.v.overdue
        /\ a.v.position = w.v.position
    BY <1>5 DEF Same, LateFields
  <2>2. Carrying(y.v) \ {d} \subseteq Carrying(w.v) /\ Carrying(w.v) \subseteq Deals
    <3>1. w.v.funded \subseteq Deals
      BY <1>1 DEF Sound, LoanOk, LoanTypes
    <3>2. y.v.funded = w.v.funded \cup {d} /\ y.v.terminal = w.v.terminal /\ y.v.overdue = w.v.overdue
      BY <1>2, <2>1 DEF Lent
    <3> QED BY <3>1, <3>2 DEF Carrying, Live
  <2>3. ASSUME NEW e \in Carrying(y.v), Impaired(Loan(y, e))
        PROVE  e \in Carrying(w.v) /\ Impaired(Loan(w, e)) /\ y.v.position[e] = w.v.position[e]
    <3>1. e # d
      BY <1>2, <2>3 DEF Lent
    <3>2. e \in Carrying(w.v) /\ e \in Deals \ {d}
      BY <2>2, <2>3, <3>1
    <3>3. y.v.position[e] = w.v.position[e] /\ y.core.deal[e] = w.core.deal[e]
      BY <1>2, <1>5, <2>1, <3>2 DEF Lent
    <3>4. Loan(y, e) = Loan(w, e)
      BY <3>3 DEF Loan
    <3> QED BY <2>3, <3>2, <3>3, <3>4
  <2> QED BY <2>3 DEF LateOnes
<1>8. ASSUME reserve.rate = 1 PROVE Undiluted(y, w)
  <2>1. Pool(a) = Pool(w) + (0 - principal)
    BY <1>2, <1>8 DEF Traded
  <2>2. Pool(y) = Pool(w)
    BY <1>3, <1>4, <2>1
  <2> QED BY <1>1, <1>6, <1>7, <2>2, StillFair
<1> QED BY <1>8 DEF Undiluted

\* The books are in order halfway through a purchase.
LEMMA BuyBooks ==
  ASSUME NEW w, Good(w), EnvOk, v.feeBps \in 0 .. BPS, NEW d \in Deals, d \notin w.v.funded,
         NEW taken \in SUBSET Slots, NEW principal \in Nat, CanPayOut(w, principal), PriceOf(d, taken, principal)
  PROVE  Sound(Booked(Revoke(PayOut(w, principal), d), d, taken, principal))
<1> DEFINE a == PayOut(w, principal)
           b == Revoke(a, d)
<1>1. Sound(a) /\ Same(a.v, w.v, Fields \ {"cash", "reserveShares"})
  BY PayOutKeeps DEF Good, Keeps
<1> HIDE DEF a
<1>2. Sound(b) /\ Same(b.v, a.v, Fields \ {"approvals", "approvedPrincipal"})
  BY <1>1, RevokeKeeps DEF Keeps
<1> HIDE DEF b
<1>3. d \notin b.v.funded
  BY <1>1, <1>2 DEF Same, Fields
<1>4. Sound(Booked(b, d, taken, principal))
  BY <1>2, <1>3, BookedKeeps DEF Keeps
<1> QED BY <1>4 DEF b, a

(***************************************************************************)
(* The curator, the reserve and the loans.                                 *)
(***************************************************************************)
\* investReserve keeps the books, and what was on record stays.
LEMMA InvestReserveStep == ASSUME Books, NEW assets \in Nat, InvestReserve(assets) PROVE Intact
<1> DEFINE shares == assets \div reserve.rate
           x == Invested(World, assets, shares)
           y == Send(x, "USDG", assets)
           K == {"cash", "reserveShares"}
<1>1. Become(y) /\ now' = now /\ reserve' = reserve /\ assets <= World.v.cash
  <2> HIDE DEF shares
  <2> QED BY DEF InvestReserve, Invested, World, around, shares
<1>2. Good(World) /\ Sound(World) /\ shares \in Nat
  BY DEF Books, Good, EnvOk
<1>3. Traded(x, World, 0, 0)
  <2>1. shares = assets \div reserve.rate
    OBVIOUS
  <2> HIDE DEF shares
  <2> QED BY <1>2, <2>1, InvestTrade
<1> HIDE DEF shares
<1>4. Keeps(x, World) /\ Claims(x.v) + assets <= x.held["USDG"] /\ Same(x.v, World.v, Fields \ K)
  BY <1>1, <1>2, InvestedKeeps
<1> HIDE DEF x
<1>5. K \cap TurnFields = {}
  BY DEF TurnFields
<1> HIDE DEF K
<1>6. Good(y) /\ Keeps(y, World)
  BY <1>2, <1>4, <1>5, SentGood
<1>7. SendWrote(y, x, "USDG", assets)
  BY <1>4, SendDoes DEF Keeps, Sound
<1> HIDE DEF y
<1>8. y.v = x.v /\ y.core = x.core
  BY <1>7 DEF SendWrote
<1>9. Traded(y, World, 0, 0)
  BY <1>3, <1>8 DEF Traded, Pool
<1>10. Undiluted(y, World)
  BY <1>2, <1>6, <1>9, GoodPriced, NoTradeFair DEF Books
<1> QED BY <1>1, <1>6, <1>10, Committed

\* divestReserve keeps the books, and what was on record stays.
LEMMA DivestReserveStep == ASSUME Books, NEW shares \in Nat, DivestReserve(shares) PROVE Intact
<1> DEFINE assets == shares * reserve.rate
           x == Divested(World, shares)
           y == Receive(x, assets)
           K == {"cash", "reserveShares"}
<1>1. Become(y) /\ now' = now /\ reserve' = reserve /\ shares <= World.v.reserveShares
  <2> HIDE DEF assets
  <2> QED BY DEF DivestReserve, Divested, World, around, assets
<1>2. Good(World) /\ Sound(World) /\ assets \in Nat
  BY DEF Books, Good, EnvOk
<1>3. Keeps(x, World) /\ Same(x.v, World.v, Fields \ {"reserveShares"}) /\ Sound(x)
  BY <1>1, <1>2, DivestedKeeps DEF Keeps
<1>4. Traded(y, World, 0, 0)
  <2>1. assets = shares * reserve.rate
    OBVIOUS
  <2> HIDE DEF assets
  <2> QED BY <1>2, <1>3, <2>1, DivestTrade
<1> HIDE DEF assets, x
<1>5. Keeps(y, x) /\ Same(y.v, x.v, Fields \ {"cash"})
  BY <1>2, <1>3, ReceiveKeeps
<1> HIDE DEF y
<1>6. Keeps(y, World) /\ Same(y.v, World.v, Fields \ K)
  BY <1>2, <1>3, <1>5, KeepsChain DEF Same
<1>7. K \cap TurnFields = {}
  BY DEF TurnFields
<1> HIDE DEF K
<1>8. Good(y)
  BY <1>2, <1>6, <1>7, StaysGood
<1>9. Undiluted(y, World)
  BY <1>2, <1>4, <1>8, GoodPriced, NoTradeFair DEF Books
<1> QED BY <1>1, <1>6, <1>8, <1>9, Committed

\* approveLoan keeps the books, and what was on record stays.
LEMMA ApproveLoanStep ==
  ASSUME Books, NEW d \in Deals, NEW validUntil \in Nat, NEW units \in 1 .. UNITS, ApproveLoan(d, validUntil, units)
  PROVE  Intact
<1> DEFINE principal == units * Ceil(Terms[d].principal, UNITS)
           approval == [validUntil |-> validUntil, principal |-> principal, epoch |-> World.v.epoch, units |-> units]
           x == Revoke(World, d)
           y == Approved(x, d, principal, approval)
           K == {"approvals", "approvedPrincipal"}
<1>1. Become(y) /\ now' = now /\ reserve' = reserve
  BY DEF ApproveLoan, Approved, World, around
<1>2. Good(World) /\ World.v.epoch \in Nat
  BY DEF Books, Good, Sound, PolicyOk
<1>3. principal \in Nat
  <2>1. Ceil(Terms[d].principal, UNITS) \in Nat
    BY Parameters DEF Ceil, UNITS
  <2>2. units \in Nat
    BY DEF UNITS
  <2> QED BY <2>1, <2>2, ProductNat
<1> HIDE DEF principal
<1>4. approval \in ApprovalType /\ approval.epoch = World.v.epoch /\ approval.principal = principal
  BY <1>2, <1>3 DEF ApprovalType, UNITS
<1> HIDE DEF approval
<1>5. Good(y) /\ Keeps(y, World)
  BY <1>2, <1>4, ApproveGood
<1>6. RevokeWrote(x, World, d)
  BY <1>2, RevokeDoes DEF Good, Sound
<1>7. ApprovedWrote(y, x, d, principal, approval)
  <2>1. Shape(x)
    BY <1>6 DEF RevokeWrote
  <2> QED BY <2>1, ApprovedDoes
<1> HIDE DEF x, y
<1>8. Same(x.v, World.v, Fields \ K) /\ x.core = World.core
  BY <1>6 DEF RevokeWrote
<1>9. Same(y.v, x.v, Fields \ K) /\ y.core = x.core
  BY <1>7 DEF ApprovedWrote
<1>10. Same(y.v, World.v, Fields \ K) /\ K \cap PricedBook = {}
  BY <1>8, <1>9 DEF Same, PricedBook
<1> HIDE DEF K
<1>11. Undiluted(y, World)
  BY <1>2, <1>5, <1>8, <1>9, <1>10, QuietFair DEF Books
<1> QED BY <1>1, <1>5, <1>11, Committed

\* A step that leaves the storage alone leaves the loan list and the queue in order.
LEMMA StaysSame == ASSUME NEW w, Good(w), NEW y, Keeps(y, w), y.v = w.v PROVE Good(y)
BY DEF Good, Keeps

\* revokeLoan keeps the books, and what was on record stays.
LEMMA RevokeLoanStep == ASSUME Books, NEW d \in Deals, RevokeLoan(d) PROVE Intact
<1> DEFINE y == Revoke(World, d)
           K == {"approvals", "approvedPrincipal"}
<1>1. Become(y) /\ now' = now /\ reserve' = reserve
  BY DEF RevokeLoan, around
<1>2. Good(World) /\ Sound(World)
  BY DEF Books, Good
<1>3. Keeps(y, World) /\ Same(y.v, World.v, Fields \ K)
  BY <1>2, RevokeKeeps
<1>4. RevokeWrote(y, World, d)
  BY <1>2, RevokeDoes DEF Sound
<1> HIDE DEF y
<1>5. y.core.deal = World.core.deal
  BY <1>4 DEF RevokeWrote
<1>6. K \cap TurnFields = {} /\ K \cap PricedBook = {}
  BY DEF TurnFields, PricedBook
<1> HIDE DEF K
<1>7. Good(y)
  BY <1>2, <1>3, <1>6, StaysGood
<1>8. Undiluted(y, World)
  BY <1>2, <1>3, <1>5, <1>6, <1>7, QuietFair DEF Books
<1> QED BY <1>1, <1>3, <1>7, <1>8, Committed

\* fund keeps the books, and what was on record stays.
LEMMA FundStep == ASSUME Books, NEW d \in Deals, Fund(d) PROVE Intact
<1> DEFINE w == Checkpoint(World)
           taken == SelectSlots(w, d, w.v.approvals[d].units)
           principal == Share(Terms[d].principal, taken)
           y == Send(Filled(Booked(Revoke(PayOut(w, principal), d), d, taken, principal), d, taken),
                     "USDG", principal)
<1>1. Buy(w, d) /\ now' = now /\ reserve' = reserve
  BY DEF Fund, around
<1>2. Good(w) /\ Keeps(w, World) /\ Undiluted(w, World) /\ EnvOk /\ v.feeBps \in 0 .. BPS
  <2>1. PolicyOk(World.v) /\ World.v = v
    BY DEF Books, Good, Sound, World
  <2>2. Good(w) /\ Keeps(w, World) /\ Undiluted(w, World)
    BY AfterCheckpoint
  <2> HIDE DEF w
  <2> QED BY <2>1, <2>2 DEF Books, PolicyOk
<1> HIDE DEF w
<1>3. Become(y) /\ d \notin w.v.funded /\ w.core.deal[d].state = "FUNDING" /\ CanPayOut(w, principal)
  <2>1. Become(y) /\ Eligible(w, d, w.v.approvals[d].units, principal) /\ CanPayOut(w, principal)
    BY <1>1 DEF Buy
  <2> HIDE DEF y, principal
  <2> QED BY <2>1 DEF Eligible
<1>4. taken \in SUBSET Slots
  BY DEF SelectSlots, Empty
<1> HIDE DEF taken
<1>5. principal \in Nat /\ PriceOf(d, taken, principal)
  BY Parameters, ShareNat DEF PriceOf
<1> HIDE DEF principal
<1>6. Good(y) /\ Keeps(y, w)
  BY <1>2, <1>3, <1>4, <1>5, BuyGood
<1> DEFINE a == PayOut(w, principal)
<1>7. Sound(a) /\ a.core.deal = w.core.deal
  <2>1. Sound(w)
    BY <1>2 DEF Good
  <2> QED BY <1>2, <1>3, <1>5, <2>1, PayOutKeeps DEF Keeps
<1>8. Lent(y, a, d, principal)
  <2>1. Sound(Booked(Revoke(a, d), d, taken, principal))
    BY <1>2, <1>3, <1>4, <1>5, BuyBooks
  <2> QED BY <1>2, <1>3, <1>5, <1>7, <2>1, LentBy
<1> HIDE DEF y
<1>9. Undiluted(y, w)
  BY <1>2, <1>3, <1>5, <1>6, <1>7, <1>8, BuyFair
<1> HIDE DEF a
<1> QED BY <1>1, <1>2, <1>3, <1>6, <1>9, CommittedAfter

\* withdrawCommitment keeps the books, and what was on record stays.
LEMMA WithdrawCommitmentStep == ASSUME Books, NEW d \in Deals, WithdrawCommitment(d) PROVE Intact
<1> DEFINE y == TakenBack(World, d)
           K == {"withdrawn"}
<1>1. Become(y) /\ now' = now /\ reserve' = reserve
  BY DEF WithdrawCommitment, TakenBack, World, Become, around
<1>2. Good(World) /\ Sound(World) /\ d \notin World.v.terminal
  BY DEF Books, Good, WithdrawCommitment, World
<1>3. Keeps(y, World) /\ Same(y.v, World.v, Fields \ K)
  BY <1>2, TakenBackKeeps
<1>4. K \cap TurnFields = {}
  BY DEF TurnFields
<1> HIDE DEF K
<1>5. Good(y)
  <2> HIDE DEF y
  <2> QED BY <1>2, <1>3, <1>4, StaysGood
<1>6. Undiluted(y, World)
  BY <1>2, <1>5, TakenBackFair DEF Books
<1> HIDE DEF y
<1> QED BY <1>1, <1>3, <1>5, <1>6, Committed

\* markOverdue keeps the books, and what was on record stays.
LEMMA MarkOverdueStep == ASSUME Books, NEW d \in Deals, MarkOverdue(d) PROVE Intact
<1> DEFINE y == WriteDown(World, d)
           K == WrittenFields \cup PriceFields
<1>1. Become(y) /\ now' = now /\ reserve' = reserve
  BY DEF MarkOverdue, around
<1>2. Good(World) /\ Sound(World) /\ EnvOk /\ d \in Live(World.v) \ World.v.overdue
  BY DEF Books, Good, MarkOverdue, World, Live
<1>3. Keeps(y, World) /\ Same(y.v, World.v, Fields \ K)
  BY <1>2, WriteDownKeeps
<1>4. Level(y, World)
  <2>1. d \in Carrying(World.v) /\ Impaired(Loan(World, d)) /\ OpenListed(World.v)
    BY <1>2 DEF Carrying, MarkOverdue, Good, ListOk, OpenListed
  <2> QED BY <1>2, <2>1, WriteDownLevel
<1> HIDE DEF y
<1>5. K \cap TurnFields = {}
  BY DEF TurnFields, WrittenFields, PriceFields
<1> HIDE DEF K
<1>6. Good(y)
  BY <1>2, <1>3, <1>5, StaysGood
<1>7. Undiluted(y, World)
  <2>1. Priced(y) /\ Priced(World)
    BY <1>2, <1>6, GoodPriced
  <2> QED BY <1>2, <1>4, <2>1, LevelFair DEF Undiluted
<1> QED BY <1>1, <1>3, <1>6, <1>7, Committed

\* settle keeps the books, and what was on record stays.
LEMMA SettleStep == ASSUME Books, Settle PROVE Intact
<1> DEFINE w == Checkpoint(World)
<1>1. Become(w) /\ now' = now /\ reserve' = reserve
  BY DEF Settle, around
<1>2. Good(w) /\ Keeps(w, World) /\ Undiluted(w, World)
  BY AfterCheckpoint
<1> HIDE DEF w
<1> QED BY <1>1, <1>2, Committed

\* harvest keeps the books, and what was on record stays.
LEMMA HarvestStep == ASSUME Books, Harvest PROVE Intact
<1> DEFINE y == HarvestCash(World)
           K == {"harvested"}
<1>1. Become(y) /\ now' = now /\ reserve' = reserve
  BY DEF Harvest, around
<1>2. Good(World) /\ Sound(World)
  BY DEF Books, Good
<1>3. Keeps(y, World) /\ Same(y.v, World.v, Fields \ K) /\ y.core.deal = World.core.deal
  BY <1>2, HarvestCashKeeps
<1> HIDE DEF y
<1>4. K \cap TurnFields = {} /\ K \cap PricedBook = {}
  BY DEF TurnFields, PricedBook
<1> HIDE DEF K
<1>5. Good(y)
  BY <1>2, <1>3, <1>4, StaysGood
<1>6. Undiluted(y, World)
  BY <1>2, <1>3, <1>4, <1>5, QuietFair DEF Books
<1> QED BY <1>1, <1>3, <1>5, <1>6, Committed

\* harvestRewards keeps the books, and what was on record stays.
LEMMA HarvestRewardsStep == ASSUME Books, NEW d \in Deals, HarvestRewards(d) PROVE Intact
<1> DEFINE x == AccrueReward(World, d)
           y == ReconcileRewards(x)
           K == ShareFields
<1>1. Become(y) /\ now' = now /\ reserve' = reserve
  BY DEF HarvestRewards, around
<1>2. Good(World) /\ Sound(World)
  BY DEF Books, Good
<1>3. Keeps(x, World) /\ Same(x.v, World.v, Fields \ K) /\ Sound(x) /\ x.core.deal = World.core.deal
  BY <1>2, AccrueRewardKeeps DEF Keeps
<1> HIDE DEF x
<1>4. Keeps(y, x) /\ Same(y.v, x.v, Fields \ K) /\ y.core = x.core
  BY <1>3, ReconcileRewardsKeeps
<1> HIDE DEF y
<1>5. Keeps(y, World) /\ Same(y.v, World.v, Fields \ K)
  BY <1>2, <1>3, <1>4, KeepsChain DEF Same
<1>6. K \cap TurnFields = {} /\ K \cap PricedBook = {}
  BY DEF TurnFields, ShareFields, PricedBook
<1> HIDE DEF K
<1>7. Good(y)
  BY <1>2, <1>5, <1>6, StaysGood
<1>8. Undiluted(y, World)
  BY <1>2, <1>3, <1>4, <1>5, <1>6, <1>7, QuietFair DEF Books
<1> QED BY <1>1, <1>5, <1>7, <1>8, Committed

(***************************************************************************)
(* The settings and the fee companion.                                     *)
(***************************************************************************)
\* setLaneWeight keeps the books, and what was on record stays.
LEMMA SetLaneWeightStep ==
  ASSUME Books, NEW lane \in Lanes, NEW bps \in 0 .. BPS, SetLaneWeight(lane, bps)
  PROVE  Intact
<1> DEFINE y == Weighed(World, lane, bps)
           K == {"weight"}
<1>1. Become(y) /\ now' = now /\ reserve' = reserve
  BY DEF SetLaneWeight, Set, Weighed, World, Become, around
<1>2. Good(World) /\ Sound(World)
  BY DEF Books, Good
<1>3. Keeps(y, World) /\ Same(y.v, World.v, Fields \ K)
  BY <1>2, WeighedKeeps
<1>4. WeighedWrote(y, World, lane, bps)
  BY <1>2, WeighedDoes DEF Sound
<1> HIDE DEF y
<1>5. y.core.deal = World.core.deal
  BY <1>4 DEF WeighedWrote
<1>6. K \cap TurnFields = {} /\ K \cap PricedBook = {}
  BY DEF TurnFields, PricedBook
<1> HIDE DEF K
<1>7. Good(y)
  BY <1>2, <1>3, <1>6, StaysGood
<1>8. Undiluted(y, World)
  BY <1>2, <1>3, <1>5, <1>6, <1>7, QuietFair DEF Books
<1> QED BY <1>1, <1>3, <1>7, <1>8, Committed

\* setMaxTotalDeposits keeps the books, and what was on record stays.
LEMMA SetMaxTotalDepositsStep == ASSUME Books, NEW cap \in Nat, SetMaxTotalDeposits(cap) PROVE Intact
<1> DEFINE y == Capped(World, cap)
           K == {"cap"}
<1>1. Become(y) /\ now' = now /\ reserve' = reserve
  BY DEF SetMaxTotalDeposits, Set, Capped, World, Become, around
<1>2. Good(World) /\ Sound(World)
  BY DEF Books, Good
<1>3. Keeps(y, World) /\ Same(y.v, World.v, Fields \ K)
  BY <1>2, CappedKeeps
<1>4. CappedWrote(y, World, cap)
  BY <1>2, CappedDoes DEF Sound
<1> HIDE DEF y
<1>5. y.core.deal = World.core.deal
  BY <1>4 DEF CappedWrote
<1>6. K \cap TurnFields = {} /\ K \cap PricedBook = {}
  BY DEF TurnFields, PricedBook
<1> HIDE DEF K
<1>7. Good(y)
  BY <1>2, <1>3, <1>6, StaysGood
<1>8. Undiluted(y, World)
  BY <1>2, <1>3, <1>5, <1>6, <1>7, QuietFair DEF Books
<1> QED BY <1>1, <1>3, <1>7, <1>8, Committed

\* setFee keeps the books, and what was on record stays.
LEMMA SetFeeStep == ASSUME Books, NEW bps \in 0 .. BPS, SetFee(bps) PROVE Intact
<1> DEFINE y == Charged(World, bps)
           K == {"feeBps"}
<1>1. Become(y) /\ now' = now /\ reserve' = reserve
  BY DEF SetFee, Set, Charged, World, Become, around
<1>2. Good(World) /\ Sound(World)
  BY DEF Books, Good
<1>3. Keeps(y, World) /\ Same(y.v, World.v, Fields \ K)
  BY <1>2, ChargedKeeps
<1>4. ChargedWrote(y, World, bps)
  BY <1>2, ChargedDoes DEF Sound
<1> HIDE DEF y
<1>5. y.core.deal = World.core.deal
  BY <1>4 DEF ChargedWrote
<1>6. K \cap TurnFields = {} /\ K \cap PricedBook = {}
  BY DEF TurnFields, PricedBook
<1> HIDE DEF K
<1>7. Good(y)
  BY <1>2, <1>3, <1>6, StaysGood
<1>8. Undiluted(y, World)
  BY <1>2, <1>3, <1>5, <1>6, <1>7, QuietFair DEF Books
<1> QED BY <1>1, <1>3, <1>7, <1>8, Committed

\* setPaused keeps the books, and what was on record stays.
LEMMA SetPausedStep == ASSUME Books, NEW enabled \in BOOLEAN, SetPaused(enabled) PROVE Intact
<1> DEFINE y == Halted(World, enabled)
           K == {"paused", "epoch", "approvedPrincipal"}
<1>1. Become(y) /\ now' = now /\ reserve' = reserve
  BY DEF SetPaused, Set, Halted, World, Become, around
<1>2. Good(World) /\ Sound(World)
  BY DEF Books, Good
<1>3. Keeps(y, World) /\ Same(y.v, World.v, Fields \ K)
  BY <1>2, HaltedKeeps
<1>4. HaltedWrote(y, World, enabled)
  BY <1>2, HaltedDoes DEF Sound
<1> HIDE DEF y
<1>5. y.core.deal = World.core.deal
  BY <1>4 DEF HaltedWrote
<1>6. K \cap TurnFields = {} /\ K \cap PricedBook = {}
  BY DEF TurnFields, PricedBook
<1> HIDE DEF K
<1>7. Good(y)
  BY <1>2, <1>3, <1>6, StaysGood
<1>8. Undiluted(y, World)
  BY <1>2, <1>3, <1>5, <1>6, <1>7, QuietFair DEF Books
<1> QED BY <1>1, <1>3, <1>7, <1>8, Committed

\* claimFees keeps the books, and what was on record stays.
LEMMA ClaimFeesStep == ASSUME Books, ClaimFees PROVE Intact
<1> DEFINE x == FeesTaken(World)
           n == World.v.feeAccrued
           y == Send(x, "USDG", n)
           K == {"feeAccrued"}
<1>1. Become(y) /\ now' = now /\ reserve' = reserve
  BY DEF ClaimFees, FeesTaken, World
<1>2. Good(World) /\ Sound(World)
  BY DEF Books, Good
<1>3. Keeps(x, World) /\ Claims(x.v) + n <= x.held["USDG"] /\ n \in Nat /\ Same(x.v, World.v, Fields \ K)
  BY <1>2, FeesTakenKeeps
<1>4. FeesTakenWrote(x, World)
  BY <1>2, FeesTakenDoes DEF Sound
<1> HIDE DEF x, n
<1>5. x.core.deal = World.core.deal
  BY <1>4 DEF FeesTakenWrote
<1>6. K \cap TurnFields = {} /\ K \cap PricedBook = {}
  BY DEF TurnFields, PricedBook
<1> HIDE DEF K
<1>7. Good(y) /\ Keeps(y, World)
  BY <1>2, <1>3, <1>6, SentGood
<1>8. SendWrote(y, x, "USDG", n)
  BY <1>3, SendDoes DEF Keeps, Sound
<1> HIDE DEF y
<1>9. y.v = x.v /\ y.core = x.core
  BY <1>8 DEF SendWrote
<1>10. Undiluted(y, World)
  BY <1>2, <1>3, <1>5, <1>6, <1>7, <1>9, QuietFair DEF Books
<1> QED BY <1>1, <1>7, <1>10, Committed

\* The fee companion pays out what it took; the books of the strategy hold.
LEMMA CompanionStep == ASSUME Books, ClaimCurator \/ ClaimProtocol PROVE Intact
<1>1. UNCHANGED world /\ now' = now /\ reserve' = reserve
  BY DEF ClaimCurator, ClaimProtocol
<1>2. now' \in Nat /\ now <= now' /\ EnvOk'
  BY <1>1 DEF Books, EnvOk
<1> QED BY <1>1, <1>2, Undisturbed

(***************************************************************************)
(* Others at the loan engine, donors, the reserve, the tokens and time.    *)
(***************************************************************************)
\* Others fill the rest of a listing; the books hold.
LEMMA OthersFillStep == ASSUME Books, NEW d \in Deals, OthersFill(d) PROVE Intact
<1> DEFINE y == FilledUp(World, d)
<1>1. Become(y) /\ now' = now /\ reserve' = reserve
  BY DEF OthersFill, FilledUp, World, Become, around
<1>2. Good(World) /\ Sound(World) /\ EnvOk /\ World.core.deal[d].state = "FUNDING"
  BY DEF Books, Good, World, OthersFill
<1>3. Keeps(y, World) /\ y.v = World.v
  BY <1>2, FilledUpKeeps
<1>4. Good(y)
  BY <1>2, <1>3, StaysSame
<1>5. Undiluted(y, World)
  BY <1>2, <1>4, FilledUpFair
<1> HIDE DEF y
<1> QED BY <1>1, <1>3, <1>4, <1>5, Committed

\* A listing is cancelled at the engine; the books hold.
LEMMA CancelStep == ASSUME Books, NEW d \in Deals, Cancel(d) PROVE Intact
<1> DEFINE y == EndedAs(World, d, "CANCELLED", Terms[d].principal)
<1>1. Become(y) /\ now' = now /\ reserve' = reserve
  BY DEF Cancel, Ended, EndedAs, World, Become, around
<1>2. Good(World) /\ Sound(World) /\ EnvOk /\ World.core.deal[d].state = "FUNDING"
  BY DEF Books, Good, World, Cancel
<1>3. Keeps(y, World) /\ y.v = World.v
  BY <1>2, EndedAsKeeps, StageNamed, Parameters
<1>4. Good(y)
  BY <1>2, <1>3, StaysSame
<1>5. Undiluted(y, World)
  BY <1>2, <1>4, EndedAsFair
<1> HIDE DEF y
<1> QED BY <1>1, <1>3, <1>4, <1>5, Committed

\* A loan is repaid at the engine; the books hold.
LEMMA RepayStep == ASSUME Books, NEW d \in Deals, Repay(d) PROVE Intact
<1> DEFINE y == EndedAs(World, d, "REPAID", Terms[d].cap)
<1>1. Become(y) /\ now' = now /\ reserve' = reserve
  BY DEF Repay, Ended, EndedAs, World, Become, around
<1>2. Good(World) /\ Sound(World) /\ EnvOk /\ World.core.deal[d].state = "ACTIVE"
  BY DEF Books, Good, World, Repay
<1>3. Keeps(y, World) /\ y.v = World.v
  BY <1>2, EndedAsKeeps, StageNamed, Parameters
<1>4. Good(y)
  BY <1>2, <1>3, StaysSame
<1>5. Undiluted(y, World)
  BY <1>2, <1>4, EndedAsFair
<1> HIDE DEF y
<1> QED BY <1>1, <1>3, <1>4, <1>5, Committed

\* A default is finalized at the engine by anyone; the books hold.
LEMMA FinalizeDefaultStep == ASSUME Books, NEW d \in Deals, FinalizeDefault(d) PROVE Intact
<1> DEFINE y == Finalized(World, d)
<1>1. Become(y) /\ now' = now /\ reserve' = reserve
  BY DEF FinalizeDefault, Finalized, World, Become, around
<1>2. /\ Good(World) /\ Sound(World) /\ EnvOk /\ World.core.deal[d].state = "ACTIVE"
      /\ GraceOver(Loan(World, d))
  BY DEF Books, Good, World, FinalizeDefault
<1>3. Keeps(y, World) /\ y.v = World.v
  BY <1>2, FinalizedKeeps
<1>4. Good(y)
  BY <1>2, <1>3, StaysSame
<1>5. Undiluted(y, World)
  BY <1>2, <1>4, FinalizedFair
<1> HIDE DEF y
<1> QED BY <1>1, <1>3, <1>4, <1>5, Committed

\* Rewards are pushed to the strategy by anyone; the books hold.
LEMMA PushRewardStep == ASSUME Books, NEW d \in Deals, PushReward(d) PROVE Intact
<1> DEFINE y == RewardPushed(World, d)
<1>1. Become(y) /\ now' = now /\ reserve' = reserve
  BY DEF PushReward, RewardPushed, World, Become, around
<1>2. Good(World) /\ Sound(World) /\ EnvOk
  BY DEF Books, Good, World
<1>3. Keeps(y, World) /\ y.v = World.v
  BY <1>2, RewardPushedKeeps
<1>4. RewardPushedWrote(y, World, d)
  BY <1>2, RewardPushedDoes DEF Sound
<1> HIDE DEF y
<1>5. y.core.deal = World.core.deal
  BY <1>4 DEF RewardPushedWrote
<1>6. Good(y)
  BY <1>2, <1>3, StaysSame
<1>7. Undiluted(y, World)
  <2>1. \A d0 \in Carrying(World.v) : Impaired(Loan(y, d0)) => Impaired(Loan(World, d0))
    BY <1>5 DEF Loan
  <2> QED BY <1>2, <1>3, <1>6, <2>1, OutsideFair
<1> QED BY <1>1, <1>3, <1>6, <1>7, Committed

\* Cash is pushed to the strategy by anyone; the books hold.
LEMMA PushCashStep == ASSUME Books, PushCash PROVE Intact
<1> DEFINE y == CashPushed(World)
<1>1. Become(y) /\ now' = now /\ reserve' = reserve
  BY DEF PushCash, CashPushed, World, Become, around
<1>2. Good(World) /\ Sound(World) /\ EnvOk
  BY DEF Books, Good, World
<1>3. Keeps(y, World) /\ y.v = World.v
  BY <1>2, CashPushedKeeps
<1>4. CashPushedWrote(y, World)
  BY <1>2, CashPushedDoes DEF Sound
<1> HIDE DEF y
<1>5. y.core.deal = World.core.deal
  BY <1>4 DEF CashPushedWrote
<1>6. Good(y)
  BY <1>2, <1>3, StaysSame
<1>7. Undiluted(y, World)
  <2>1. \A d0 \in Carrying(World.v) : Impaired(Loan(y, d0)) => Impaired(Loan(World, d0))
    BY <1>5 DEF Loan
  <2> QED BY <1>2, <1>3, <1>6, <2>1, OutsideFair
<1> QED BY <1>1, <1>3, <1>6, <1>7, Committed

\* A loan earns rewards; the books hold.
LEMMA EarnRewardStep == ASSUME Books, NEW d \in Deals, NEW amount \in Nat, EarnReward(d, amount) PROVE Intact
<1> DEFINE y == RewardEarned(World, d, amount)
<1>1. Become(y) /\ now' = now /\ reserve' = reserve
  BY DEF EarnReward, RewardEarned, World, Become, around
<1>2. Good(World) /\ Sound(World) /\ EnvOk
  BY DEF Books, Good, World
<1>3. Keeps(y, World) /\ y.v = World.v
  BY <1>2, RewardEarnedKeeps
<1>4. RewardEarnedWrote(y, World, d, amount)
  BY <1>2, RewardEarnedDoes DEF Sound
<1> HIDE DEF y
<1>5. y.core.deal = World.core.deal
  BY <1>4 DEF RewardEarnedWrote
<1>6. Good(y)
  BY <1>2, <1>3, StaysSame
<1>7. Undiluted(y, World)
  <2>1. \A d0 \in Carrying(World.v) : Impaired(Loan(y, d0)) => Impaired(Loan(World, d0))
    BY <1>5 DEF Loan
  <2> QED BY <1>2, <1>3, <1>6, <2>1, OutsideFair
<1> QED BY <1>1, <1>3, <1>6, <1>7, Committed

\* Tokens arrive unasked; the books hold.
LEMMA GiveStep == ASSUME Books, NEW gift \in [token : Tokens, amount : Nat], Give(gift) PROVE Intact
<1> DEFINE y == Given(World, gift.token, gift.amount)
<1>1. Become(y) /\ now' = now /\ reserve' = reserve
  BY DEF Give, Given, World, Become, around
<1>2. Good(World) /\ Sound(World) /\ EnvOk
  BY DEF Books, Good, World
<1>3. Keeps(y, World) /\ y.v = World.v
  BY <1>2, GivenKeeps
<1>4. GivenWrote(y, World, gift.token, gift.amount)
  BY <1>2, GivenDoes DEF Sound
<1> HIDE DEF y
<1>5. y.core.deal = World.core.deal
  BY <1>4 DEF GivenWrote
<1>6. Good(y)
  BY <1>2, <1>3, StaysSame
<1>7. Undiluted(y, World)
  <2>1. \A d0 \in Carrying(World.v) : Impaired(Loan(y, d0)) => Impaired(Loan(World, d0))
    BY <1>5 DEF Loan
  <2> QED BY <1>2, <1>3, <1>6, <2>1, OutsideFair
<1> QED BY <1>1, <1>3, <1>6, <1>7, Committed

\* The rate of the reserve and what it can pay change; the books hold.
LEMMA MoveReserveStep == ASSUME Books, MoveReserve PROVE Intact
<1>1. UNCHANGED world /\ now' = now /\ reserve' \in [rate : Rates, limit : Limits]
  BY DEF MoveReserve
<1>2. reserve'.rate \in Nat \ {0} /\ reserve'.limit \in Nat
  BY <1>1, HybridAssumption, HybridInputs
<1>3. now' \in Nat /\ now <= now' /\ EnvOk'
  BY <1>1, <1>2 DEF Books, EnvOk
<1> QED BY <1>1, <1>3, Undisturbed

\* A token stops or resumes; the books hold.
LEMMA OutageStep == ASSUME Books, Outage PROVE Intact
<1>1. UNCHANGED world /\ now' = now /\ reserve' = reserve
  BY DEF Outage
<1>2. now' \in Nat /\ now <= now' /\ EnvOk'
  BY <1>1 DEF Books, EnvOk
<1> QED BY <1>1, <1>2, Undisturbed

\* Time passes; the books hold.
LEMMA TickStep == ASSUME Books, Tick PROVE Intact
<1>1. UNCHANGED world /\ now' = now + 1 /\ reserve' = reserve
  BY DEF Tick
<1>2. now' \in Nat /\ now <= now' /\ EnvOk'
  BY <1>1 DEF Books, EnvOk
<1> QED BY <1>1, <1>2, Undisturbed

(***************************************************************************)
(* The start.                                                              *)
(***************************************************************************)
\* Sums of nothing, and over nothing.
LEMMA NothingYet ==
  ASSUME NEW f
  PROVE  /\ (\A h \in Holders : f[h] = 0) => SumHolders(f) = 0
         /\ \A S \in SUBSET Deals : (\A d \in S : f[d] = 0) => SumOver(S, f) = 0
         /\ SumOver({}, f) = 0
<1>1. (\A h \in Holders : f[h] = 0) => SumHolders(f) = 0
  BY Parameters, SumZero DEF SumHolders, SumOver
<1>2. ASSUME NEW S \in SUBSET Deals, \A d \in S : f[d] = 0 PROVE SumOver(S, f) = 0
  <2>1. IsFiniteSet(S)
    BY Parameters, FS_Subset
  <2> QED BY <1>2, <2>1, SumZero DEF SumOver
<1>3. SumOver({}, f) = 0
  BY SumEmpty DEF SumOver
<1> QED BY <1>1, <1>2, <1>3

\* What the strategy is created with.
Blank(V) ==
  /\ DOMAIN V = Fields /\ V = [f \in Fields |-> V[f]]
  /\ V.paused = FALSE /\ V.feeBps = 0 /\ V.weight = InitialWeights /\ V.cap \in Caps
  /\ V.epoch = 0 /\ V.approvedPrincipal = 0 /\ V.approvals = [d \in Deals |-> NoApproval]
  /\ V.cash = 0 /\ V.reserveShares = 0 /\ V.performing = 0 /\ V.overduePrincipal = 0
  /\ V.lockedProfit = 0 /\ V.unlockStart = 0 /\ V.unlockEnd = 0
  /\ V.harvested = 0 /\ V.assigned = 0 /\ V.feeAccrued = 0
  /\ V.highWater = PRICE_PRECISION \div VIRTUAL_SHARES
  /\ V.supply = 0 /\ V.balance = [h \in Holders |-> 0] /\ V.lockedShares = [h \in Holders |-> 0]
  /\ V.requests = <<>> /\ V.head = 1 /\ V.pendingShares = 0
  /\ V.claimable = [h \in Holders |-> 0] /\ V.claimableTotal = 0
  /\ V.snapshots = [h \in Holders |-> <<>>] /\ V.snapshotCount = 0
  /\ V.loanSnapshot = [d \in Deals |-> 0] /\ V.loanSnapshotSupply = [d \in Deals |-> 0]
  /\ V.pockets = <<>> /\ V.pocketClaimed = {} /\ V.pocketLiability = [t \in Tokens |-> 0]
  /\ V.accPerShare = 0 /\ V.orphan = 0 /\ V.accounted = 0 /\ V.liability = 0
  /\ V.observed = [d \in Deals |-> 0] /\ V.index = [h \in Holders |-> 0] /\ V.owed = [h \in Holders |-> 0]
  /\ V.funded = {} /\ V.terminal = {} /\ V.withdrawn = {} /\ V.overdue = {} /\ V.openLoans = <<>>
  /\ V.slots = [d \in Deals |-> {}] /\ V.position = [d \in Deals |-> 0] /\ V.loanFee = [d \in Deals |-> 0]
  /\ V.lanePrincipal = [l \in Lanes |-> 0] /\ V.borrowerPrincipal = [b \in Borrowers |-> 0]

\* The initial state is a strategy just created.
LEMMA Created == ASSUME Init PROVE Blank(v)
<1>1. /\ v.paused = FALSE /\ v.feeBps = 0 /\ v.weight = InitialWeights /\ v.cap \in Caps
      /\ v.epoch = 0 /\ v.approvedPrincipal = 0 /\ v.approvals = [d \in Deals |-> NoApproval]
      /\ v.cash = 0 /\ v.reserveShares = 0 /\ v.performing = 0 /\ v.overduePrincipal = 0
      /\ v.lockedProfit = 0 /\ v.unlockStart = 0 /\ v.unlockEnd = 0
      /\ v.harvested = 0 /\ v.assigned = 0 /\ v.feeAccrued = 0
      /\ v.highWater = PRICE_PRECISION \div VIRTUAL_SHARES
  BY DEF Init
<1>2. /\ v.supply = 0 /\ v.balance = [h \in Holders |-> 0] /\ v.lockedShares = [h \in Holders |-> 0]
      /\ v.requests = <<>> /\ v.head = 1 /\ v.pendingShares = 0
      /\ v.claimable = [h \in Holders |-> 0] /\ v.claimableTotal = 0
      /\ v.snapshots = [h \in Holders |-> <<>>] /\ v.snapshotCount = 0
      /\ v.loanSnapshot = [d \in Deals |-> 0] /\ v.loanSnapshotSupply = [d \in Deals |-> 0]
      /\ v.pockets = <<>> /\ v.pocketClaimed = {} /\ v.pocketLiability = [t \in Tokens |-> 0]
  BY DEF Init
<1>3. /\ v.accPerShare = 0 /\ v.orphan = 0 /\ v.accounted = 0 /\ v.liability = 0
      /\ v.observed = [d \in Deals |-> 0] /\ v.index = [h \in Holders |-> 0] /\ v.owed = [h \in Holders |-> 0]
      /\ v.funded = {} /\ v.terminal = {} /\ v.withdrawn = {} /\ v.overdue = {} /\ v.openLoans = <<>>
  BY DEF Init
<1>4. /\ v.slots = [d \in Deals |-> {}] /\ v.position = [d \in Deals |-> 0] /\ v.loanFee = [d \in Deals |-> 0]
      /\ v.lanePrincipal = [l \in Lanes |-> 0] /\ v.borrowerPrincipal = [b \in Borrowers |-> 0]
  BY DEF Init, Borrowers
<1>5. DOMAIN v = Fields
  BY DEF Init, Fields
<1>6. v = [f \in DOMAIN v |-> v[f]]
  BY ZenonT(60) DEF Init
<1> QED BY <1>1, <1>2, <1>3, <1>4, <1>5, <1>6 DEF Blank

\* The books of a strategy just created are in order.
LEMMA BlankPolicy == ASSUME NEW V, Blank(V) PROVE PolicyOk(V)
<1>1. /\ V.paused = FALSE /\ V.feeBps = 0 /\ V.weight = InitialWeights /\ V.cap \in Caps
      /\ V.epoch = 0 /\ V.approvedPrincipal = 0 /\ V.approvals = [d \in Deals |-> NoApproval]
  BY DEF Blank
<1>2. V.cap \in Nat /\ V.weight \in [Lanes -> 0 .. BPS] /\ 0 \in 0 .. BPS
  <2>1. Caps \subseteq Nat
    BY HybridInputs
  <2>2. InitialWeights \in [Lanes -> 0 .. BPS]
    BY HybridAssumption
  <2>3. V.cap \in Nat
    BY <1>1, <2>1, Zenon
  <2>4. V.weight \in [Lanes -> 0 .. BPS]
    BY <1>1, <2>2, Zenon
  <2>5. 0 \in 0 .. BPS
    BY Parameters
  <2> QED BY <2>3, <2>4, <2>5
<1>3. V.paused \in BOOLEAN
  BY <1>1, Zenon
<1>4. \A d \in Deals : V.approvals[d].epoch = 0 /\ V.approvals[d].principal = 0
  BY <1>1 DEF NoApproval
<1>5. V.approvals \in [Deals -> [validUntil : Nat, principal : Nat, epoch : Nat, units : 0 .. UNITS]]
  BY <1>1 DEF NoApproval, UNITS
<1> DEFINE f == [d \in Deals |-> V.approvals[d].principal]
           S == {d \in Deals : V.approvals[d].epoch = V.epoch}
<1>6. S \in SUBSET Deals /\ \A d \in S : f[d] = 0
  BY <1>4
<1> HIDE DEF f, S
<1>7. SumOver(S, f) = 0
  BY <1>6, NothingYet
<1> QED BY <1>1, <1>2, <1>4, <1>5, <1>7, <1>3 DEF PolicyOk, f, S

\* Nothing was earned.
LEMMA BlankRewards ==
  ASSUME NEW V, Blank(V), NEW C, C.reward = [d \in Deals |-> 0], NEW H, H["SGAGE"] = 0
  PROVE  RewardOk(V, C, H)
<1>1. /\ V.accPerShare = 0 /\ V.orphan = 0 /\ V.accounted = 0 /\ V.liability = 0
      /\ V.observed = [d \in Deals |-> 0] /\ V.index = [h \in Holders |-> 0] /\ V.owed = [h \in Holders |-> 0]
      /\ V.balance = [h \in Holders |-> 0] /\ V.pocketLiability = [t \in Tokens |-> 0]
  BY DEF Blank
<1>2. Unsettled(V) = 0
  <2> DEFINE f == [h \in Holders |-> V.balance[h] * (V.accPerShare - V.index[h])]
  <2>1. \A h \in Holders : f[h] = 0
    BY <1>1
  <2> HIDE DEF f
  <2>2. SumHolders(f) = 0
    BY <2>1, NothingYet
  <2> QED BY <2>2 DEF Unsettled, f
<1>3. Announced(V, C) = 0
  <2> DEFINE f == [d \in Deals |-> Atmost(V.observed[d], C.reward[d])]
  <2>1. \A d \in Deals : f[d] = 0
    BY <1>1 DEF Atmost
  <2> HIDE DEF f
  <2>2. SumOver(Deals, f) = 0
    BY <2>1, NothingYet
  <2> QED BY <2>2 DEF Announced, f
<1>4. SumHolders(V.owed) = 0
  BY <1>1, NothingYet
<1>5. RewardTypes(V)
  BY <1>1 DEF RewardTypes
<1>6. V.pocketLiability["SGAGE"] = 0 /\ REWARD_PRECISION \in Nat
  BY <1>1, Parameters
<1> QED BY <1>1, <1>2, <1>3, <1>4, <1>5, <1>6 DEF RewardOk, RewardCore

\* Nothing was paid in.
LEMMA BlankMoney ==
  ASSUME NEW V, Blank(V), NEW H, H = [t \in Tokens |-> 0]
  PROVE  MoneyOk(V, H) /\ PromiseOk(V, H)
<1>1. /\ V.cash = 0 /\ V.harvested = 0 /\ V.assigned = 0 /\ V.feeAccrued = 0
      /\ V.claimable = [h \in Holders |-> 0] /\ V.claimableTotal = 0 /\ V.pocketLiability = [t \in Tokens |-> 0]
  BY DEF Blank
<1>2. SumHolders(V.claimable) = 0
  BY <1>1, NothingYet
<1>3. V.pocketLiability["USDG"] = 0 /\ H["USDG"] = 0
  BY <1>1, Parameters
<1>4. Claims(V) = 0
  BY <1>1, <1>3 DEF Claims
<1>5. PromiseOk(V, H)
  BY <1>1 DEF PromiseOk
<1> QED BY <1>1, <1>2, <1>3, <1>4, <1>5 DEF MoneyOk

\* Nothing was lent.
LEMMA BlankLoans == ASSUME NEW V, Blank(V) PROVE LoanOk(V) /\ ListOk(V)
<1>1. /\ V.performing = 0 /\ V.overduePrincipal = 0
      /\ V.funded = {} /\ V.terminal = {} /\ V.withdrawn = {} /\ V.overdue = {} /\ V.openLoans = <<>>
      /\ V.slots = [d \in Deals |-> {}] /\ V.position = [d \in Deals |-> 0] /\ V.loanFee = [d \in Deals |-> 0]
      /\ V.lanePrincipal = [l \in Lanes |-> 0] /\ V.borrowerPrincipal = [b \in Borrowers |-> 0]
  BY DEF Blank
<1>2. Live(V) = {}
  BY <1>1 DEF Live
<1>3. ToSet(V.openLoans) = {} /\ IsInjective(V.openLoans) /\ V.openLoans \in Seq(Deals)
  <2>1. V.openLoans \in Seq(Deals) /\ DOMAIN V.openLoans = {}
    BY <1>1
  <2> QED BY <2>1 DEF ToSet, IsInjective
<1>4. \A f : SumOver({}, f) = 0
  BY NothingYet
<1>5. /\ V.slots \in [Deals -> SUBSET Slots] /\ V.position \in [Deals -> Nat] /\ V.loanFee \in [Deals -> 0 .. BPS]
      /\ V.lanePrincipal \in [Lanes -> Nat] /\ V.borrowerPrincipal \in [Borrowers -> Nat]
  BY <1>1, Parameters
<1>6. LoanTypes(V)
  BY <1>1, <1>3, <1>5 DEF LoanTypes
<1>7. /\ Live(V) \ V.overdue = {} /\ Live(V) \cap V.overdue = {}
      /\ \A l \in Lanes : {d \in Live(V) : Terms[d].lane = l} = {} /\ V.lanePrincipal[l] = 0
      /\ \A b \in Borrowers : {d \in Live(V) : Terms[d].borrower = b} = {} /\ V.borrowerPrincipal[b] = 0
  BY <1>1, <1>2
<1>8. AtPrincipal(V)
  BY <1>1 DEF AtPrincipal
<1> QED BY <1>1, <1>2, <1>3, <1>4, <1>6, <1>7, <1>8 DEF LoanOk, ListOk

\* No shares exist, and nobody waits.
LEMMA BlankStock == ASSUME NEW V, Blank(V) PROVE StockOk(V) /\ LocksFit(V) /\ Passed(V, V.head)
<1>1. /\ V.supply = 0 /\ V.balance = [h \in Holders |-> 0] /\ V.lockedShares = [h \in Holders |-> 0]
      /\ V.requests = <<>> /\ V.head = 1 /\ V.pendingShares = 0
  BY DEF Blank
<1>2. SumHolders(V.balance) = 0 /\ SumHolders(V.lockedShares) = 0
  BY <1>1, NothingYet
<1>3. V.requests \in Seq([owner : Holders, shares : Nat]) /\ Len(V.requests) = 0 /\ DOMAIN V.requests = {}
  BY <1>1
<1>4. ASSUME NEW h \in Holders PROVE Asked(V, h) = 0
  <2>1. {id \in DOMAIN V.requests : V.requests[id].owner = h} = {}
    BY <1>3
  <2>2. \A f : SumOver({}, f) = 0
    BY NothingYet
  <2> QED BY <2>1, <2>2 DEF Asked
<1> QED BY <1>1, <1>2, <1>3, <1>4 DEF StockOk, LocksFit, Passed

\* Nothing is on record, in pockets or at an end.
LEMMA BlankRecords ==
  ASSUME NEW V, Blank(V), NEW C PROVE RecordOk(V) /\ PocketOk(V) /\ EndOk(V, C)
<1>1. /\ V.snapshots = [h \in Holders |-> <<>>] /\ V.snapshotCount = 0
      /\ V.loanSnapshot = [d \in Deals |-> 0] /\ V.loanSnapshotSupply = [d \in Deals |-> 0]
      /\ V.pockets = <<>> /\ V.pocketClaimed = {} /\ V.pocketLiability = [t \in Tokens |-> 0]
      /\ V.terminal = {} /\ V.overdue = {}
  BY DEF Blank
<1>2. \A h \in Holders : V.snapshots[h] = <<>> /\ DOMAIN V.snapshots[h] = {}
  BY <1>1
<1>3. \A T : <<>> \in Seq(T)
  OBVIOUS
<1>4. V.snapshots \in [Holders -> Seq([id : Nat, balance : Nat])]
  <2> DEFINE T == [id : Nat, balance : Nat]
  <2>1. <<>> \in Seq(T)
    BY <1>3
  <2> HIDE DEF T
  <2>2. V.snapshots \in [Holders -> Seq(T)]
    BY <1>1, <2>1
  <2> QED BY <2>2 DEF T
<1>5. RecordTypes(V)
  BY <1>1, <1>2, <1>4 DEF RecordTypes
<1>6. V.pockets \in Seq(PocketType) /\ DOMAIN V.pockets = {}
  BY <1>1, <1>3
<1>7. ASSUME NEW t \in Tokens PROVE Unpaid(V, t) = 0
  <2>1. {p \in DOMAIN V.pockets : V.pockets[p].token = t} = {}
    BY <1>6
  <2>2. \A f : SumOver({}, f) = 0
    BY NothingYet
  <2> QED BY <2>1, <2>2 DEF Unpaid
<1> QED BY <1>1, <1>5, <1>6, <1>7 DEF RecordOk, PocketOk, EndOk

\* The books are in order when the strategy is created.
LEMMA InitBooks == ASSUME Init PROVE Books
<1>1. Blank(v)
  BY Created
<1>2. /\ core = [deal |-> [d \in Deals |-> [state |-> "FUNDING", fundedAt |-> 0, closedAt |-> 0,
                                            mine |-> {}, others |-> Terms[d].taken]],
                 credit |-> 0, reward |-> [d \in Deals |-> 0], recovered |-> {}, paid |-> {}]
      /\ held = [t \in Tokens |-> 0] /\ now = 1 /\ reserve \in [rate : Rates, limit : Limits]
  BY DEF Init
<1>3. CoreOk(core) /\ core.reward = [d \in Deals |-> 0]
  <2>1. \A d \in Deals : [state |-> "FUNDING", fundedAt |-> 0, closedAt |-> 0, mine |-> {},
                          others |-> Terms[d].taken] \in DealType
    BY StageNamed, HybridAssumption DEF DealType
  <2> QED BY <1>2, <2>1 DEF CoreOk
<1>4. PriceOk(v) /\ EnvOk
  <2>1. reserve.rate \in Nat \ {0} /\ reserve.limit \in Nat
    BY <1>2, HybridAssumption, HybridInputs
  <2>2. v.highWater \in Nat
    BY <1>1, Parameters, QuotientNat DEF Blank
  <2>3. v.lockedProfit = 0 /\ v.unlockStart = 0 /\ v.unlockEnd = 0 /\ v.reserveShares = 0
    BY <1>1 DEF Blank
  <2> QED BY <1>2, <2>1, <2>2, <2>3 DEF PriceOk, EnvOk
<1>5. held["SGAGE"] = 0
  BY <1>2, Parameters
<1>6. /\ PolicyOk(v) /\ MoneyOk(v, held) /\ PromiseOk(v, held) /\ RewardOk(v, core, held)
      /\ LoanOk(v) /\ ListOk(v) /\ StockOk(v) /\ LocksFit(v) /\ Passed(v, v.head)
      /\ RecordOk(v) /\ PocketOk(v) /\ EndOk(v, core)
  BY <1>1, <1>2, <1>3, <1>5, BlankPolicy, BlankMoney, BlankRewards, BlankLoans, BlankStock, BlankRecords
<1>7. Shape(World)
  BY <1>1, <1>2 DEF Shape, World, Blank
<1>8. World.v = v /\ World.core = core /\ World.held = held
  BY DEF World
<1> QED BY <1>3, <1>4, <1>6, <1>7, <1>8 DEF Books, Good, Sound

(***************************************************************************)
(* Every step.                                                             *)
(***************************************************************************)
\* What the environment and the curator may choose from.
LEMMA InputRanges ==
  /\ Caps \subseteq Nat /\ Amounts \subseteq Nat /\ Investments \subseteq Nat /\ Redemptions \subseteq Nat
  /\ RequestSizes \subseteq Nat /\ RewardSteps \subseteq Nat /\ Budgets \subseteq Nat
  /\ Weights \subseteq 0 .. BPS /\ FeeRates \subseteq 0 .. BPS /\ Pauses \subseteq BOOLEAN
  /\ Gifts \subseteq [token : Tokens, amount : Nat] /\ UnitChoices \subseteq 1 .. UNITS
  /\ Listed \subseteq Deals /\ MaxRequests \in Nat /\ MAX_APPROVAL_TTL \in Nat
<1>1. \A S \in {Caps, Amounts, Investments, Redemptions, RequestSizes, RewardSteps, Budgets} : S \subseteq Nat
  BY HybridInputs
<1>2. FeeRates \subseteq 0 .. BPS /\ UnitChoices \subseteq 1 .. UNITS /\ Listed \subseteq Deals
  BY HybridAssumption
<1>3. /\ Weights \subseteq 0 .. BPS /\ Pauses \subseteq BOOLEAN /\ Gifts \subseteq [token : Tokens, amount : Nat]
      /\ MaxRequests \in Nat /\ MAX_APPROVAL_TTL \in Nat
  BY HybridInputs
<1> QED BY <1>1, <1>2, <1>3

\* No step of anybody breaks the books or changes a balance of record.
LEMMA EveryStep == ASSUME Books, [Next]_vars PROVE Intact
<1>1. CASE DoDeposit
  BY <1>1, InputRanges, DepositStep DEF DoDeposit
<1>2. CASE DoRedeem
  BY <1>2, InputRanges, RedeemStep DEF DoRedeem
<1>3. CASE DoWithdraw
  BY <1>3, InputRanges, WithdrawStep DEF DoWithdraw
<1>4. CASE DoRequestRedeem
  BY <1>4, InputRanges, RequestRedeemStep DEF DoRequestRedeem
<1>5. CASE DoCancelRequest
  BY <1>5, CancelRequestStep DEF DoCancelRequest
<1>6. CASE DoServeRequests
  <2>1. PICK n \in 1 .. MaxRequests, b \in Budgets : ServeRequests(n, b)
    BY <1>6 DEF DoServeRequests
  <2>2. n \in Nat /\ b \in Nat
    BY InputRanges
  <2> QED BY <2>1, <2>2, ServeRequestsStep
<1>7. CASE DoClaim
  BY <1>7, ClaimStep DEF DoClaim
<1>8. CASE DoClaimPocket
  BY <1>8, ClaimPocketStep DEF DoClaimPocket
<1>9. CASE DoClaimRewards
  BY <1>9, ClaimRewardsStep DEF DoClaimRewards
<1>10. CASE DoInvestReserve
  BY <1>10, InputRanges, InvestReserveStep DEF DoInvestReserve
<1>11. CASE DoDivestReserve
  BY <1>11, InputRanges, DivestReserveStep DEF DoDivestReserve
<1>12. CASE DoApproveLoan
  <2>1. PICK d \in Listed, units \in UnitChoices, ttl \in 1 .. MAX_APPROVAL_TTL : ApproveLoan(d, now + ttl, units)
    BY <1>12 DEF DoApproveLoan
  <2>2. d \in Deals /\ units \in 1 .. UNITS /\ now + ttl \in Nat
    BY InputRanges DEF Books, EnvOk
  <2> QED BY <2>1, <2>2, ApproveLoanStep
<1>13. CASE DoRevokeLoan
  BY <1>13, RevokeLoanStep DEF DoRevokeLoan
<1>14. CASE DoFund
  BY <1>14, FundStep DEF DoFund
<1>15. CASE DoWithdrawCommitment
  BY <1>15, WithdrawCommitmentStep DEF DoWithdrawCommitment
<1>16. CASE DoMarkOverdue
  BY <1>16, MarkOverdueStep DEF DoMarkOverdue
<1>17. CASE Settle
  BY <1>17, SettleStep
<1>18. CASE Harvest
  BY <1>18, HarvestStep
<1>19. CASE DoHarvestRewards
  BY <1>19, HarvestRewardsStep DEF DoHarvestRewards
<1>20. CASE DoSetLaneWeight
  BY <1>20, InputRanges, SetLaneWeightStep DEF DoSetLaneWeight
<1>21. CASE DoSetMaxTotalDeposits
  BY <1>21, InputRanges, SetMaxTotalDepositsStep DEF DoSetMaxTotalDeposits
<1>22. CASE DoSetFee
  BY <1>22, InputRanges, SetFeeStep DEF DoSetFee
<1>23. CASE DoSetPaused
  BY <1>23, InputRanges, SetPausedStep DEF DoSetPaused
<1>24. CASE ClaimFees
  BY <1>24, ClaimFeesStep
<1>25. CASE ClaimCurator \/ ClaimProtocol
  BY <1>25, CompanionStep
<1>26. CASE DoOthers
  BY <1>26, InputRanges, OthersFillStep, CancelStep, RepayStep, FinalizeDefaultStep, PushRewardStep DEF DoOthers
<1>27. CASE PushCash
  BY <1>27, PushCashStep
<1>28. CASE DoEarnReward
  BY <1>28, InputRanges, EarnRewardStep DEF DoEarnReward
<1>29. CASE DoGive
  BY <1>29, InputRanges, GiveStep DEF DoGive
<1>30. CASE MoveReserve \/ Outage \/ Tick
  BY <1>30, MoveReserveStep, OutageStep, TickStep
<1>31. CASE UNCHANGED vars
  <2>1. UNCHANGED world /\ now' = now /\ reserve' = reserve
    BY <1>31 DEF vars, world
  <2>2. now' \in Nat /\ now <= now' /\ EnvOk'
    BY <2>1 DEF Books, EnvOk
  <2> QED BY <2>1, <2>2, Undisturbed
<1> QED
  BY <1>1, <1>2, <1>3, <1>4, <1>5, <1>6, <1>7, <1>8, <1>9, <1>10, <1>11, <1>12, <1>13, <1>14, <1>15, <1>16,
     <1>17, <1>18, <1>19, <1>20, <1>21, <1>22, <1>23, <1>24, <1>25, <1>26, <1>27, <1>28, <1>29, <1>30, <1>31
  DEF Next

\* The books of a strategy are in order after every transaction.
THEOREM BooksHold == Spec => []Books
<1>1. Init => Books
  BY InitBooks
<1>2. Books /\ [Next]_vars => Books'
  BY EveryStep DEF Intact
<1> QED BY <1>1, <1>2, PTL DEF Spec

(***************************************************************************)
(* What the books say.                                                     *)
(***************************************************************************)
\* What is in order is of its type.
LEMMA BooksTyped == ASSUME Books PROVE TypeOK
<1> DEFINE V == World.v
<1>1. /\ Shape(World) /\ CoreOk(World.core) /\ PolicyOk(V) /\ MoneyOk(V, World.held) /\ PromiseOk(V, World.held)
      /\ RewardTypes(V) /\ LoanOk(V) /\ PriceOk(V) /\ StockOk(V) /\ RecordTypes(V) /\ PocketOk(V) /\ EnvOk
  BY DEF Books, Good, Sound, RewardOk, RewardCore, RecordOk
<1>2. V = v /\ World.core = core /\ World.held = held
  BY DEF World
<1>3. DOMAIN V = Fields /\ V = [f \in Fields |-> V[f]]
  BY <1>1 DEF Shape
<1> HIDE DEF V
<1>4. V.claimableTotal \in Nat /\ V.supply \in Nat /\ V.pendingShares \in Nat
  BY <1>1, HoldersNat DEF MoneyOk, StockOk
<1>5. V.approvedPrincipal \in Nat
  <2> DEFINE f == [d \in Deals |-> V.approvals[d].principal]
             S == {d \in Deals : V.approvals[d].epoch = V.epoch}
  <2>1. S \in SUBSET Deals /\ (\A d \in S : f[d] \in Nat) /\ V.approvedPrincipal = SumOver(S, f)
    BY <1>1 DEF PolicyOk
  <2> HIDE DEF f, S
  <2> QED BY <2>1, DealsNat
<1>6. V.performing \in Nat /\ V.overduePrincipal \in Nat
  <2> DEFINE f == V.position
             S == Live(V) \ V.overdue
             T == Live(V) \cap V.overdue
  <2>1. S \in SUBSET Deals /\ T \in SUBSET Deals /\ (\A d \in Deals : f[d] \in Nat)
    BY <1>1 DEF LoanOk, LoanTypes, Live
  <2>2. V.performing = SumOver(S, f) /\ V.overduePrincipal = SumOver(T, f)
    BY <1>1 DEF LoanOk
  <2> HIDE DEF f, S, T
  <2> QED BY <2>1, <2>2, DealsNat
<1>7. V.unlockStart \in Nat
  BY <1>1 DEF PriceOk, EnvOk
<1>8. V.pocketClaimed \in SUBSET (Nat \X Holders)
  <2>1. V.pockets \in Seq(PocketType) /\ V.pocketClaimed \subseteq (DOMAIN V.pockets) \X Holders
    BY <1>1 DEF PocketOk
  <2>2. DOMAIN V.pockets \subseteq Nat
    BY <2>1
  <2> QED BY <2>1, <2>2
<1>9. V \in StrategyType
  <2>1. /\ V.paused \in BOOLEAN /\ V.feeBps \in 0 .. BPS /\ V.weight \in [Lanes -> 0 .. BPS]
        /\ V.cap \in Nat /\ V.epoch \in Nat /\ V.approvedPrincipal \in Nat
        /\ V.approvals \in [Deals -> [validUntil : Nat, principal : Nat, epoch : Nat, units : 0 .. UNITS]]
    BY <1>1, <1>5 DEF PolicyOk
  <2>2. /\ V.cash \in Nat /\ V.reserveShares \in Nat /\ V.performing \in Nat /\ V.overduePrincipal \in Nat
        /\ V.lockedProfit \in Nat /\ V.unlockStart \in Nat /\ V.unlockEnd \in Nat
        /\ V.harvested \in Nat /\ V.assigned \in Nat /\ V.feeAccrued \in Nat /\ V.highWater \in Nat
    BY <1>1, <1>6, <1>7 DEF MoneyOk, PriceOk
  <2>3. /\ V.supply \in Nat /\ V.balance \in [Holders -> Nat] /\ V.lockedShares \in [Holders -> Nat]
        /\ V.requests \in Seq([owner : Holders, shares : Nat]) /\ V.head \in Nat \ {0} /\ V.pendingShares \in Nat
        /\ V.claimable \in [Holders -> Nat] /\ V.claimableTotal \in Nat
    BY <1>1, <1>4 DEF StockOk, MoneyOk
  <2>4. /\ V.snapshots \in [Holders -> Seq([id : Nat, balance : Nat])] /\ V.snapshotCount \in Nat
        /\ V.loanSnapshot \in [Deals -> Nat] /\ V.loanSnapshotSupply \in [Deals -> Nat]
    BY <1>1 DEF RecordTypes
  <2>5. /\ V.pockets \in Seq([deal : Deals, token : Tokens, amount : Nat, claimed : Nat, supply : Nat,
                              snapshot : Nat])
        /\ V.pocketClaimed \in SUBSET (Nat \X Holders) /\ V.pocketLiability \in [Tokens -> Nat]
    BY <1>1, <1>8 DEF PocketOk, PocketType, PromiseOk
  <2>6. /\ V.accPerShare \in Nat /\ V.orphan \in Nat /\ V.accounted \in Nat /\ V.liability \in Nat
        /\ V.observed \in [Deals -> Nat] /\ V.index \in [Holders -> Nat] /\ V.owed \in [Holders -> Nat]
    BY <1>1 DEF RewardTypes
  <2>7. /\ V.funded \in SUBSET Deals /\ V.terminal \in SUBSET Deals /\ V.withdrawn \in SUBSET Deals
        /\ V.overdue \in SUBSET Deals /\ V.openLoans \in Seq(Deals) /\ V.slots \in [Deals -> SUBSET Slots]
        /\ V.position \in [Deals -> Nat] /\ V.loanFee \in [Deals -> 0 .. BPS]
        /\ V.lanePrincipal \in [Lanes -> Nat]
        /\ V.borrowerPrincipal \in [{Terms[d].borrower : d \in Deals} -> Nat]
    BY <1>1 DEF LoanOk, LoanTypes, Borrowers
  <2> QED BY <1>3, <2>1, <2>2, <2>3, <2>4, <2>5, <2>6, <2>7 DEF StrategyType, Fields
<1> QED BY <1>1, <1>2, <1>9 DEF TypeOK, PromiseOk, CoreOk

\* An inequality of multiples is one of the numbers.
LEMMA Cancels == \A n \in Nat \ {0}, a, b \in Nat : n * a <= n * b => a <= b
OBVIOUS

\* Rewards that wait for a settlement, each rounded down, are within what holders may claim.
LEMMA RewardsCovered ==
  ASSUME NEW w, Sound(w)
  PROVE  SumHolders([h \in Holders |-> w.v.owed[h] + Accruing(w, h)]) <= w.v.accounted
<1> DEFINE f == w.v.owed
           g == [h \in Holders |-> Accruing(w, h)]
           k == [h \in Holders |-> w.v.owed[h] + Accruing(w, h)]
           m == [h \in Holders |-> REWARD_PRECISION * Accruing(w, h)]
           t == [h \in Holders |-> w.v.balance[h] * (w.v.accPerShare - w.v.index[h])]
           n == REWARD_PRECISION
           total == w.v.accounted
           L == w.v.liability
<1>1. RewardCore(w.v) /\ RewardTypes(w.v) /\ w.v.balance \in [Holders -> Nat]
  BY DEF Sound, RewardOk, RewardCore, StockOk
<1>2. \A h \in Holders : /\ f[h] \in Nat /\ g[h] \in Nat /\ t[h] \in Nat
                         /\ k[h] = f[h] + g[h] /\ m[h] = n * g[h] /\ m[h] <= t[h]
  BY <1>1, AccruingBounds DEF RewardTypes
<1>3. n \in Nat \ {0} /\ total \in Nat /\ L = SumHolders(f) /\ n * L + SumHolders(t) <= n * total
  BY <1>1, Parameters DEF RewardCore, RewardTypes, Unsettled
<1> HIDE DEF f, g, k, m, t, n, total, L
<1>4. \A h \in Holders : f[h] \in Int /\ g[h] \in Int /\ m[h] \in Nat /\ m[h] \in Int /\ t[h] \in Int
  BY <1>2, <1>3, ProductNat
<1>5. /\ SumHolders(f) \in Nat /\ SumHolders(g) \in Nat /\ SumHolders(t) \in Nat
  BY <1>2, HoldersNat
<1>6. IsFiniteSet(Holders)
  BY Parameters
<1>7. SumHolders(k) = SumHolders(f) + SumHolders(g)
  BY <1>2, <1>4, <1>6, SumPlus DEF SumHolders, SumOver
<1>8. SumHolders(m) = n * SumHolders(g)
  <2>1. n \in Int
    BY <1>3
  <2> QED BY <1>2, <1>4, <1>6, <2>1, SumTimes DEF SumHolders, SumOver
<1>9. SumHolders(m) <= SumHolders(t)
  BY <1>2, <1>4, <1>6, SumLeq DEF SumHolders, SumOver
<1> DEFINE F == SumHolders(f)
           G == SumHolders(g)
           T == SumHolders(t)
<1>10. F \in Nat /\ G \in Nat /\ T \in Nat /\ L = F /\ n * G <= T /\ n * L + T <= n * total
  BY <1>3, <1>5, <1>8, <1>9
<1> HIDE DEF F, G, T
<1>11. F + G <= total
  <2>1. n * (F + G) = n * F + n * G /\ n * F \in Nat /\ n * G \in Nat /\ n * total \in Nat
    BY <1>3, <1>10
  <2>2. n * (F + G) <= n * total
    BY <1>10, <2>1
  <2>3. F + G \in Nat
    BY <1>10
  <2> QED BY <1>3, <2>2, <2>3, Cancels
<1> QED BY <1>7, <1>11 DEF F, G, k, total

\* What is announced at the loan engine is there.
LEMMA AnnouncedThere == ASSUME NEW w, Sound(w) PROVE Announced(w.v, w.core) <= SumOver(Deals, w.core.reward)
<1> DEFINE f == [d \in Deals |-> Atmost(w.v.observed[d], w.core.reward[d])]
           g == w.core.reward
<1>1. w.v.observed \in [Deals -> Nat] /\ g \in [Deals -> Nat] /\ IsFiniteSet(Deals)
  BY Parameters DEF Sound, RewardOk, RewardCore, RewardTypes, CoreOk
<1>2. \A d \in Deals : f[d] \in Int /\ g[d] \in Int /\ f[d] <= g[d]
  BY <1>1 DEF Atmost
<1>3. Announced(w.v, w.core) = SumOver(Deals, f)
  BY DEF Announced
<1> HIDE DEF f, g
<1>4. SumOver(Deals, f) <= SumOver(Deals, g)
  BY <1>1, <1>2, SumLeq DEF SumOver
<1> QED BY <1>3, <1>4 DEF g

\* What is in order is backed.
LEMMA BooksBacked == ASSUME Books PROVE Backed
<1> DEFINE V == World.v
<1>1. /\ Sound(World) /\ MoneyOk(V, World.held) /\ PromiseOk(V, World.held) /\ RewardOk(V, World.core, World.held)
      /\ RewardCore(V)
  BY DEF Books, Good, Sound, RewardOk
<1>2. V = v /\ World.core = core /\ World.held = held
  BY DEF World
<1>3. v.assigned <= v.harvested /\ v.claimableTotal = SumHolders(v.claimable) /\ Accounted(World) <= held["USDG"]
  BY <1>1, <1>2 DEF MoneyOk, Claims, Accounted
<1>4. \A t \in Tokens : v.pocketLiability[t] <= held[t]
  BY <1>1, <1>2 DEF PromiseOk
<1>5. v.accounted + v.orphan + v.pocketLiability["SGAGE"] <= held["SGAGE"] + SumOver(Deals, core.reward)
  <2> DEFINE a == v.accounted + v.orphan + v.pocketLiability["SGAGE"]
             b == Announced(World.v, World.core)
             c == SumOver(Deals, World.core.reward)
             n == held["SGAGE"]
  <2>1. a \in Nat /\ n \in Nat
    BY <1>1, <1>2, Parameters DEF RewardCore, RewardTypes, PromiseOk
  <2>2. c \in Nat
    BY <1>1, DealsNat DEF Sound, CoreOk
  <2>3. b \in Nat /\ b <= c
    BY <1>1, AnnouncedNat, AnnouncedThere
  <2>4. a <= n + b
    BY <1>1, <1>2 DEF RewardOk
  <2>5. c = SumOver(Deals, core.reward)
    BY <1>2
  <2> HIDE DEF a, b, c, n
  <2>6. a <= n + c
    BY <2>1, <2>2, <2>3, <2>4
  <2> QED BY <2>5, <2>6 DEF a, n
<1>6. v.liability = SumHolders(v.owed)
  BY <1>1, <1>2 DEF RewardCore
<1>7. SumHolders([h \in Holders |-> v.owed[h] + Accruing(World, h)]) <= v.accounted
  <2>1. SumHolders([h \in Holders |-> World.v.owed[h] + Accruing(World, h)]) <= World.v.accounted
    BY <1>1, RewardsCovered
  <2>2. World.v = v
    BY DEF World
  <2> QED BY <2>1, <2>2
<1> QED BY <1>3, <1>4, <1>5, <1>6, <1>7 DEF Backed

\* The running totals are the sums over the loans.
LEMMA BooksAddUp == ASSUME Books PROVE BookAddsUp
<1>1. LoanOk(v) /\ ListOk(v) /\ PolicyOk(v)
  BY DEF Books, Good, Sound, World
<1>2. Live(v) = v.funded \ v.terminal /\ DOMAIN v.borrowerPrincipal = Borrowers
  BY <1>1 DEF Live, LoanOk, LoanTypes
<1>3. IsInjective(v.openLoans) /\ ToSet(v.openLoans) = v.funded \ v.terminal
  BY <1>1, <1>2 DEF ListOk
<1>4. /\ v.performing = SumOver((v.funded \ v.terminal) \ v.overdue, v.position)
      /\ v.overduePrincipal = SumOver((v.funded \ v.terminal) \cap v.overdue, v.position)
  BY <1>1, <1>2 DEF LoanOk
<1>5. \A l \in Lanes : v.lanePrincipal[l] = SumOver({d \in v.funded \ v.terminal : Terms[d].lane = l}, v.position)
  BY <1>1, <1>2 DEF LoanOk
<1>6. \A b \in DOMAIN v.borrowerPrincipal :
        v.borrowerPrincipal[b] = SumOver({d \in v.funded \ v.terminal : Terms[d].borrower = b}, v.position)
  BY <1>1, <1>2 DEF LoanOk
<1>7. v.approvedPrincipal = SumOver({d \in Deals : v.approvals[d].epoch = v.epoch},
                                    [d \in Deals |-> v.approvals[d].principal])
  BY <1>1 DEF PolicyOk
<1> QED BY <1>3, <1>4, <1>5, <1>6, <1>7 DEF BookAddsUp

\* No share is lost or stuck in the queue.
LEMMA BooksQueue == ASSUME Books PROVE QueueKeepsShares
<1>1. StockOk(v) /\ LocksFit(v) /\ Passed(v, v.head)
  BY DEF Books, Good, Sound, World
<1>2. v.supply = SumHolders(v.balance) /\ v.pendingShares = SumHolders(v.lockedShares)
  BY <1>1 DEF StockOk
<1>3. \A h \in Holders :
        /\ v.lockedShares[h] <= v.balance[h]
        /\ v.lockedShares[h] = SumOver({id \in DOMAIN v.requests : v.requests[id].owner = h},
                                       [id \in DOMAIN v.requests |-> v.requests[id].shares])
  BY <1>1 DEF StockOk, LocksFit, Asked
<1>4. \A id \in DOMAIN v.requests : id < v.head => v.requests[id].shares = 0
  BY <1>1 DEF Passed
<1> QED BY <1>2, <1>3, <1>4 DEF QueueKeepsShares

\* Pockets divide over the balances of record, and no late loan is retired through the price.
PocketsDivide ==
  /\ \A p \in DOMAIN v.pockets :
       LET pocket == v.pockets[p]
       IN  /\ SumHolders([h \in Holders |-> BalanceAt(World, h, pocket.snapshot)]) = pocket.supply
           /\ pocket.claimed =
                SumOver({h \in Holders : <<p, h>> \in v.pocketClaimed},
                        [h \in Holders |-> PocketShare(World, p, h)])
  /\ \A t \in Tokens :
       v.pocketLiability[t] =
         SumOver({p \in DOMAIN v.pockets : v.pockets[p].token = t},
                 [p \in DOMAIN v.pockets |-> v.pockets[p].amount - v.pockets[p].claimed])
  /\ \A d \in v.terminal \ v.withdrawn :
       Impaired(Loan(World, d)) => d \in v.overdue /\ v.loanSnapshot[d] # 0

\* The books give what PocketsDivide says of each pocket.
LEMMA BooksPockets == ASSUME Books PROVE PocketsDivide
<1>1. PocketOk(v) /\ RecordOk(v) /\ EndOk(v, core)
  BY DEF Books, Good, Sound, World
<1>2. \A h, s : BalanceAt(World, h, s) = BalAt(v, h, s)
  BY DEF BalanceAt, BalAt, World
<1>3. \A p, h : PocketShare(World, p, h) = Slice0(v, p, h)
  BY <1>2 DEF PocketShare, Slice0, World
<1>4. ASSUME NEW p \in DOMAIN v.pockets
      PROVE  /\ SumHolders([h \in Holders |-> BalanceAt(World, h, v.pockets[p].snapshot)]) = v.pockets[p].supply
             /\ v.pockets[p].claimed = SumOver({h \in Holders : <<p, h>> \in v.pocketClaimed},
                                               [h \in Holders |-> PocketShare(World, p, h)])
  <2>1. OfRecord(v, v.pockets[p].snapshot) = v.pockets[p].supply /\ v.pockets[p].claimed = PaidOut(v, p)
    BY <1>1 DEF PocketOk
  <2>2. [h \in Holders |-> BalanceAt(World, h, v.pockets[p].snapshot)]
          = [h \in Holders |-> BalAt(v, h, v.pockets[p].snapshot)]
    BY <1>2
  <2>3. [h \in Holders |-> PocketShare(World, p, h)] = [h \in Holders |-> Slice0(v, p, h)]
    BY <1>3
  <2> QED BY <2>1, <2>2, <2>3 DEF OfRecord, PaidOut
<1>5. \A t \in Tokens :
        v.pocketLiability[t] = SumOver({p \in DOMAIN v.pockets : v.pockets[p].token = t},
                                       [p \in DOMAIN v.pockets |-> v.pockets[p].amount - v.pockets[p].claimed])
  BY <1>1 DEF PocketOk, Unpaid
<1>6. ASSUME NEW d \in v.terminal \ v.withdrawn, Impaired(Loan(World, d))
      PROVE  d \in v.overdue /\ v.loanSnapshot[d] # 0
  <2>1. core.deal[d].state \in Final /\ (Late(core, d) => d \in v.overdue)
    BY <1>1 DEF EndOk
  <2>2. core.deal[d].state # "ACTIVE"
    BY <2>1 DEF Final
  <2>3. Late(core, d)
    BY <1>6, <2>2 DEF Impaired, Loan, World, Late
  <2>4. v.loanSnapshot[d] \in 1 .. v.snapshotCount
    BY <1>1, <2>1, <2>3 DEF RecordOk
  <2> QED BY <2>1, <2>3, <2>4
<1> QED BY <1>4, <1>5, <1>6 DEF PocketsDivide

\* A step of anybody leaves the balances of record of every written down loan as they were.
LEMMA RecordStays ==
  ASSUME Books, [Next]_vars
  PROVE  \A d \in v.overdue, h \in Holders : RecordOf(d, h)' = RecordOf(d, h)
<1>1. Kept(v', v) /\ RecordOk(v)
  BY EveryStep DEF Intact, Books, Good, Sound, World
<1>2. SUFFICES ASSUME NEW d \in v.overdue, NEW h \in Holders PROVE RecordOf(d, h)' = RecordOf(d, h)
  OBVIOUS
<1>3. v'.loanSnapshot[d] = v.loanSnapshot[d] /\ v.loanSnapshot[d] \in 1 .. v.snapshotCount
  BY <1>1 DEF Kept, RecordOk
<1>4. BalAt(v', h, v.loanSnapshot[d]) = BalAt(v, h, v.loanSnapshot[d])
  BY <1>1, <1>3 DEF Kept
<1>5. RecordOf(d, h) = BalAt(v, h, v.loanSnapshot[d])
  BY DEF RecordOf, BalanceAt, BalAt, World
<1>6. RecordOf(d, h)' = BalAt(v', h, v'.loanSnapshot[d])
  BY DEF RecordOf, BalanceAt, BalAt, World
<1> QED BY <1>3, <1>4, <1>5, <1>6

(***************************************************************************)
(* Leaving at the quoted price.                                            *)
(***************************************************************************)
\* A quotient of a dividend that fits n divisors is n at most, rounded up as well.
LEMMA CeilFits == \A x, n \in Nat, b \in Nat \ {0} : x <= n * b => Ceil(x, b) \in Nat /\ Ceil(x, b) <= n
<1>1. SUFFICES ASSUME NEW x \in Nat, NEW n \in Nat, NEW b \in Nat \ {0}, x <= n * b
               PROVE  Ceil(x, b) \in Nat /\ Ceil(x, b) <= n
  OBVIOUS
<1> DEFINE y == x + b - 1
           q == y \div b
<1>2. y \in Nat /\ Ceil(x, b) = q
  BY DEF Ceil
<1>3. n * b \in Nat
  BY ProductNat
<1>4. y < n * b + b
  BY <1>1, <1>3
<1> HIDE DEF y
<1>5. q \in Nat /\ q * b <= y
  BY <1>2, QuotientNat
<1> HIDE DEF q
<1>6. ~ (n + 1 <= q)
  <2>1. SUFFICES ASSUME n + 1 <= q PROVE FALSE
    OBVIOUS
  <2>2. (n + 1) * b <= q * b /\ q * b \in Nat
    BY <1>5, <2>1, ProductGrows, ProductNat
  <2>3. (n + 1) * b = n * b + b
    OBVIOUS
  <2> QED BY <1>2, <1>3, <1>4, <1>5, <2>2, <2>3
<1> QED BY <1>2, <1>5, <1>6

\* What m shares are worth rises by no more than the assets do, as there are at least m shares.
LEMMA WorthRises ==
  ASSUME NEW m \in Nat, NEW N \in Nat \ {0}, m <= N, NEW T \in Nat, NEW R \in Nat, NEW rise \in Nat, R <= T + rise
  PROVE  (m * R) \div N \in Nat /\ (m * R) \div N <= (m * T) \div N + rise
<1> DEFINE a == m * T
           c == m * R
           q == a \div N
           r == c \div N
<1>1. a \in Nat /\ c \in Nat /\ m * rise \in Nat /\ N * rise \in Nat
  BY ProductNat
<1>2. c <= a + N * rise
  <2>1. R * m <= (T + rise) * m /\ m * rise <= N * rise
    BY ProductGrows
  <2>2. (T + rise) * m = a + m * rise /\ R * m = c
    OBVIOUS
  <2> HIDE DEF a, c
  <2> QED BY <1>1, <2>1, <2>2
<1> HIDE DEF a, c
<1>3. q \in Nat /\ a < (q + 1) * N /\ r \in Nat /\ r * N <= c
  BY <1>1, QuotientNat, QuotientBelow
<1> HIDE DEF q, r
<1>4. r * N < (q + 1 + rise) * N
  <2>1. (q + 1 + rise) * N = (q + 1) * N + N * rise
    BY <1>3
  <2>2. (q + 1) * N \in Nat /\ r * N \in Nat
    BY <1>3, ProductNat
  <2> QED BY <1>1, <1>2, <1>3, <2>1, <2>2
<1>5. ~ (q + 1 + rise <= r)
  <2>1. SUFFICES ASSUME q + 1 + rise <= r PROVE FALSE
    OBVIOUS
  <2>2. (q + 1 + rise) * N <= r * N /\ (q + 1 + rise) * N \in Nat /\ r * N \in Nat
    BY <1>3, <2>1, ProductGrows, ProductNat
  <2> QED BY <1>4, <2>2
<1>6. r <= q + rise
  BY <1>3, <1>5
<1> QED BY <1>3, <1>6 DEF r, q, c, a

\* A holder's free shares are a part of all shares.
LEMMA FreeShares ==
  ASSUME NEW w, Good(w), NEW h \in Holders
  PROVE  Free(w, h) \in Nat /\ Free(w, h) <= w.v.supply /\ w.v.supply \in Nat
<1>1. /\ w.v.balance \in [Holders -> Nat] /\ w.v.lockedShares \in [Holders -> Nat]
      /\ w.v.supply = SumHolders(w.v.balance) /\ w.v.lockedShares[h] <= w.v.balance[h]
  BY DEF Good, Sound, StockOk, LocksFit
<1> DEFINE f == w.v.balance
<1>2. \A x \in Holders : f[x] \in Nat
  BY <1>1
<1>3. SumHolders(f) = SumFunctionOnSet(f, Holders)
  BY DEF SumHolders, SumOver
<1> HIDE DEF f
<1>4. SumFunctionOnSet(f, Holders) = f[h] + SumFunctionOnSet(f, Holders \ {h})
  BY <1>2, SumRemove, Parameters
<1>5. IsFiniteSet(Holders \ {h})
  BY Parameters, FS_Subset
<1>6. SumFunctionOnSet(f, Holders \ {h}) \in Nat
  BY <1>2, <1>5, SumType
<1>7. f[h] <= SumHolders(f) /\ SumHolders(f) \in Nat
  BY <1>2, <1>3, <1>4, <1>6
<1> QED BY <1>1, <1>2, <1>7 DEF f, Free

\* What can be paid at once stays payable while the cash grows and the reserve stays.
LEMMA PayableLater ==
  ASSUME NEW w, Sound(w), EnvOk, NEW c, Sound(c), stopped = {},
         c.v.reserveShares = w.v.reserveShares, NEW rise \in Nat, c.v.cash = w.v.cash + rise,
         NEW a \in Nat, a <= FreeLiquidity(w) + rise
  PROVE  CanPayOut(c, a)
<1>1. ReserveValue(c) = ReserveValue(w) /\ ReserveValue(w) \in Nat /\ w.v.cash \in Nat /\ reserve.limit \in Nat
  BY PriceBounds, LevelTypes DEF ReserveValue, EnvOk
<1> DEFINE part == IF reserve.limit = 0 THEN ReserveValue(w) ELSE Atmost(ReserveValue(w), reserve.limit)
<1>2. FreeLiquidity(w) = w.v.cash + part
  BY DEF FreeLiquidity
<1>3. part \in Nat /\ part <= ReserveValue(w) /\ (reserve.limit # 0 => part <= reserve.limit)
  BY <1>1 DEF Atmost
<1> HIDE DEF part
<1>4. a <= c.v.cash + part
  BY <1>1, <1>2, <1>3
<1>5. FromReserve(c, a) \in Nat /\ FromReserve(c, a) <= part
  BY <1>1, <1>3, <1>4 DEF FromReserve, Over
<1>6. ReserveOpen
  BY DEF ReserveOpen
<1> HIDE DEF ReserveOpen
<1>7. FromReserve(c, a) <= ReserveValue(c) /\ (reserve.limit # 0 => FromReserve(c, a) <= reserve.limit)
  BY <1>1, <1>3, <1>5
<1> QED BY <1>6, <1>7 DEF CanPayOut

\* The shares quoted for leaving at once are free, and worth no more than what is there to pay.
LEMMA QuoteFits ==
  ASSUME NEW w, Good(w), EnvOk, NEW h \in Holders
  PROVE  /\ MaxRedeem(w, h) \in Nat /\ MaxRedeem(w, h) <= Free(w, h)
         /\ ToAssets(w, MaxRedeem(w, h)) \in Nat /\ ToAssets(w, MaxRedeem(w, h)) <= FreeLiquidity(w)
         /\ FreeLiquidity(w) \in Nat
<1> DEFINE s == Free(w, h)
           b == FreeLiquidity(w)
           T == TotalAssets(w) + 1
           N == w.v.supply + VIRTUAL_SHARES
           W == ToAssets(w, s)
           m == MaxRedeem(w, h)
<1>1. Sound(w) /\ s \in Nat /\ T \in Nat /\ N \in Nat \ {0}
  BY FreeShares, PriceBounds, Parameters DEF Good
<1>2. b \in Nat
  <2>1. w.v.cash \in Nat /\ ReserveValue(w) \in Nat /\ reserve.limit \in Nat
    BY <1>1, PriceBounds, LevelTypes DEF EnvOk
  <2> QED BY <2>1 DEF FreeLiquidity, Atmost
<1>3. W = (s * T) \div N /\ W \in Nat
  BY <1>1, ConversionsNat DEF ToAssets
<1>4. m = IF W <= b THEN s ELSE (s * b) \div W
  BY DEF MaxRedeem
<1>5. ToAssets(w, m) = (m * T) \div N
  BY DEF ToAssets
<1> HIDE DEF s, b, T, N, W, m
<1>6. CASE W <= b
  BY <1>1, <1>2, <1>3, <1>4, <1>5, <1>6 DEF s, b, m
<1>7. CASE ~ (W <= b)
  <2>1. W > b /\ m = (s * b) \div W
    BY <1>2, <1>3, <1>4, <1>7
  <2>2. m \in Nat /\ m <= s /\ (m * T) \div N \in Nat /\ (m * T) \div N <= b
    BY <1>1, <1>2, <1>3, <2>1, Bargain
  <2> QED BY <1>2, <1>5, <2>2 DEF s, b, m
<1> QED BY <1>6, <1>7

\* Both quotes hold across the checkpoint the exit begins with.
LEMMA QuotesHonoured ==
  ASSUME NEW w, Good(w), EnvOk, stopped = {}, NEW c, Good(c), Level(c, w),
         c.v.balance = w.v.balance, c.v.lockedShares = w.v.lockedShares, NEW h \in Holders
  PROVE  /\ CanPayOut(c, ToAssets(c, MaxRedeem(w, h)))
         /\ CanPayOut(c, MaxWithdraw(w, h)) /\ PreviewWithdraw(c, MaxWithdraw(w, h)) <= Free(c, h)
<1> DEFINE s == Free(w, h)
           b == FreeLiquidity(w)
           T == TotalAssets(w) + 1
           R == TotalAssets(c) + 1
           N == w.v.supply + VIRTUAL_SHARES
           W == ToAssets(w, s)
           m == MaxRedeem(w, h)
           rise == c.v.cash - w.v.cash
           assets == MaxWithdraw(w, h)
<1>1. Sound(w) /\ Sound(c) /\ c.v.reserveShares = w.v.reserveShares /\ c.v.supply = w.v.supply
  BY DEF Good, Level
<1>2. /\ w.v.cash \in Nat /\ c.v.cash \in Nat /\ TotalAssets(w) \in Nat /\ TotalAssets(c) \in Nat
  BY <1>1, LevelTypes
<1>3. rise \in Nat /\ c.v.cash = w.v.cash + rise /\ TotalAssets(w) <= TotalAssets(c)
      /\ TotalAssets(c) <= TotalAssets(w) + rise
  BY <1>2 DEF Level
<1>4. T \in Nat \ {0} /\ R \in Nat \ {0} /\ T <= R /\ R <= T + rise
  BY <1>2, <1>3
<1>5. s \in Nat /\ w.v.supply \in Nat /\ N \in Nat \ {0} /\ s <= N
  BY FreeShares, Parameters
<1>6. m \in Nat /\ m <= s /\ ToAssets(w, m) \in Nat /\ ToAssets(w, m) <= b /\ b \in Nat
  BY QuoteFits
<1>7. W \in Nat /\ W = (s * T) \div N
  BY <1>1, <1>5, ConversionsNat DEF ToAssets
<1>8. /\ ToAssets(c, m) = (m * R) \div N /\ ToAssets(w, m) = (m * T) \div N
      /\ PreviewWithdraw(c, assets) = Ceil(assets * N, R) /\ assets = Atmost(W, b) /\ Free(c, h) = s
  BY <1>1 DEF ToAssets, PreviewWithdraw, MaxWithdraw, Free
<1> HIDE DEF s, T, R, N, W, m, rise, assets
<1>9. CanPayOut(c, ToAssets(c, m))
  <2>1. m <= N
    BY <1>5, <1>6
  <2>2. (m * R) \div N \in Nat /\ (m * R) \div N <= (m * T) \div N + rise
    BY <1>3, <1>4, <1>5, <1>6, <2>1, WorthRises
  <2>3. ToAssets(c, m) \in Nat /\ ToAssets(c, m) <= FreeLiquidity(w) + rise
    BY <1>3, <1>6, <1>8, <2>2
  <2> QED BY <1>1, <1>3, <2>3, PayableLater
<1>10. assets \in Nat /\ assets <= b /\ assets <= W
  BY <1>6, <1>7, <1>8 DEF Atmost
<1>11. CanPayOut(c, assets)
  <2>1. assets <= FreeLiquidity(w) + rise
    BY <1>3, <1>6, <1>10
  <2> QED BY <1>1, <1>3, <1>10, <2>1, PayableLater
<1>12. Ceil(assets * N, R) <= s
  <2>1. assets * N <= W * N /\ assets * N \in Nat /\ W * N \in Nat
    BY <1>5, <1>7, <1>10, ProductGrows, ProductNat
  <2>2. s * T \in Nat /\ W * N <= s * T
    BY <1>4, <1>5, <1>7, ProductNat, QuotientNat
  <2>3. T * s <= R * s /\ R * s \in Nat
    BY <1>4, <1>5, ProductGrows, ProductNat
  <2>4. T * s = s * T /\ R * s = s * R
    BY <1>4, <1>5
  <2>5. assets * N <= s * R
    BY <2>1, <2>2, <2>3, <2>4
  <2> QED BY <1>4, <1>5, <2>1, <2>5, CeilFits
<1> QED BY <1>8, <1>9, <1>11, <1>12 DEF m, assets

\* So a quote of a strategy whose books are in order holds.
LEMMA BooksExits == ASSUME Books PROVE ExitQuotesHold
<1> DEFINE c == Checkpoint(World)
<1>1. Good(World) /\ EnvOk
  BY DEF Books
<1>2. Good(c) /\ Same(c.v, World.v, Fields \ CheckFields)
  BY <1>1, CheckpointKeeps
<1>3. Level(c, World)
  BY <1>1, CheckpointLevel DEF Leveled
<1> HIDE DEF c
<1>4. c.v.balance = World.v.balance /\ c.v.lockedShares = World.v.lockedShares
  BY <1>2 DEF Same, Fields, CheckFields, WalkFields, WrittenFields, PriceFields, CashFields, ShareFields,
              EndedFields
<1>5. ASSUME stopped = {}, NEW h \in Holders
      PROVE  /\ CanPayOut(c, ToAssets(c, MaxRedeem(World, h)))
             /\ CanPayOut(c, MaxWithdraw(World, h)) /\ PreviewWithdraw(c, MaxWithdraw(World, h)) <= Free(c, h)
  BY <1>1, <1>2, <1>3, <1>4, <1>5, QuotesHonoured
<1> QED BY <1>5 DEF ExitQuotesHold, c

(***************************************************************************)
(* A fair share price.                                                     *)
(***************************************************************************)
\* A checkpoint that charges a fee leaves the price at the mark or above.
LEMMA BooksNewHighs == ASSUME Books PROVE FeesOnlyOnNewHighs
<1> DEFINE c == Checkpoint(World)
<1>1. Good(World) /\ EnvOk /\ World.v = v
  BY DEF Books, World
<1>2. Level(c, World)
  BY <1>1, CheckpointLevel DEF Leveled
<1>3. Sound(c) /\ Sound(World)
  BY <1>1, CheckpointKeeps DEF Good
<1> HIDE DEF c
<1>4. c.v.feeAccrued \in Nat /\ v.feeAccrued \in Nat
  BY <1>1, <1>3 DEF Sound, MoneyOk
<1>5. /\ c.v.supply = v.supply
      /\ c.v.feeAccrued # v.feeAccrued => v.highWater <= Price(FullAssets(c), v.supply)
  BY <1>1, <1>2 DEF Level, Marked
<1>6. c.v.feeAccrued > v.feeAccrued => Price(FullAssets(c), c.v.supply) >= v.highWater
  BY <1>4, <1>5
<1> QED BY <1>6 DEF FeesOnlyOnNewHighs, c

\* No step, with the reserve unmoved and unrounded, lowers what a share is worth.
LEMMA StepsFair == ASSUME Books, [Next]_vars PROVE SharesKeepWorth
<1>1. SUFFICES ASSUME now' = now, reserve' = reserve, reserve.rate = 1
               PROVE  /\ (FullAssets(World)' + 1) * (v.supply + VIRTUAL_SHARES)
                           >= (FullAssets(World) + 1) * (v'.supply + VIRTUAL_SHARES)
                      /\ LockedIsThere(World) =>
                           (TotalAssets(World)' + 1) * (v.supply + VIRTUAL_SHARES)
                             >= (TotalAssets(World) + 1) * (v'.supply + VIRTUAL_SHARES)
  BY DEF SharesKeepWorth
<1>2. PICK z : z = World'
  OBVIOUS
<1>3. Fair(z, World)
  BY <1>1, <1>2, EveryStep DEF Intact, Undiluted
<1>4. World.v = v /\ z.v = v'
  BY <1>2 DEF World
<1>5. PendingLoss(World)' = PendingLoss(z)
  <2>1. Undecided(World)' = Undecided(z) /\ \A d : Impaired(Loan(World, d))' <=> Impaired(Loan(z, d))
    BY <1>1, <1>2 DEF Undecided, Impaired, Loan
  <2>2. {d \in Undecided(World) : Impaired(Loan(World, d))}' = {d \in Undecided(z) : Impaired(Loan(z, d))}
    BY <2>1
  <2> QED BY <1>2, <2>2 DEF PendingLoss
<1>6. FullAssets(World)' = FullAssets(z)
  BY <1>1, <1>2, <1>5 DEF FullAssets, ReserveValue
<1>7. TotalAssets(World)' = TotalAssets(z)
  <2>1. LockedProfit(World)' = LockedProfit(z)
    BY <1>1, <1>2 DEF LockedProfit
  <2> QED BY <1>5, <1>6, <2>1 DEF TotalAssets, LockedAfterLoss, Over
<1> QED BY <1>3, <1>4, <1>6, <1>7 DEF Fair, Stock
(***************************************************************************)
(* The theorems of a strategy.                                             *)
(***************************************************************************)
\* No field of the strategy's storage ever leaves its type: no checked subtraction
\* from a total underflows in a deposit, exit, settlement or claim whose own conditions hold.
THEOREM TypesHold == Spec => []TypeOK
<1>1. Books => TypeOK
  BY BooksTyped
<1> QED BY <1>1, BooksHold, PTL

\* The USDG, the rewards and the pocket tokens a strategy owes are there, and each running total of
\* its loan book is the sum over the loans, whatever is pushed to it, donated, lost or stopped.
THEOREM BackedByTheBookHolds == Spec => []BackedByTheBook
<1>1. Books => BackedByTheBook
  BY BooksBacked, BooksAddUp DEF BackedByTheBook
<1> QED BY <1>1, BooksHold, PTL

\* Shares are conserved across balances, locks and the queue; nothing before the head of the queue
\* waits, and no lock is left on shares that are gone.
THEOREM QueueHolds == Spec => []QueueKeepsShares
<1>1. Books => QueueKeepsShares
  BY BooksQueue
<1> QED BY <1>1, BooksHold, PTL

\* A side pocket divides over the balances of record of its loan's write-down, in any order of
\* claims, and no later step of anybody moves a balance of record.
THEOREM PocketsAreFairHolds == Spec => PocketsAreFair
<1>1. Books => PocketsDivide
  BY BooksPockets
<1>2. Books /\ [Next]_vars => [\A d \in v.overdue, h \in Holders : RecordOf(d, h)' = RecordOf(d, h)]_vars
  BY RecordStays
<1> QED BY <1>1, <1>2, BooksHold, PTL DEF PocketsAreFair, PocketsDivide, RecordIsFixed, Spec

\* A holder can take the free shares in either way out at the price quoted before, although the exit
\* first settles, writes down, releases and charges whatever is due.
THEOREM SharesCanLeaveHolds == Spec => []SharesCanLeave
<1>1. Books => SharesCanLeave
  BY BooksQueue, BooksExits DEF SharesCanLeave
<1> QED BY <1>1, BooksHold, PTL

\* The share price is fair to those who do nothing: in a reserve that neither moves nor rounds no step
\* of anybody lowers what a share is worth, and a fee is charged only above the mark.
THEOREM SharePriceIsFairHolds == Spec => SharePriceIsFair
<1>1. Books => FeesOnlyOnNewHighs
  BY BooksNewHighs
<1>2. Books /\ [Next]_vars => [SharesKeepWorth]_vars
  BY StepsFair
<1> QED BY <1>1, <1>2, BooksHold, PTL DEF SharePriceIsFair, NobodyDilutesOthers, Spec
=============================================================================
