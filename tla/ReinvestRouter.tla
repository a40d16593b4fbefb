--------------------------- MODULE ReinvestRouter ---------------------------
(* The router that turns unlocked sGAGE into a GAGE/sGAGE position of the     *)
(* caller in one transaction, the missing GAGE bought with ETH or USDG or     *)
(* with part of the sGAGE.  What a handler does is an operator from the       *)
(* wallets to the set of wallets the markets may leave; the router itself is  *)
(* one of the wallets.                                                        *)
EXTENDS V4Swapper, FiniteSets, Sequences

CONSTANTS
  Callers,
  Amounts,        \* what a caller may pass for an amount or a limit
  CUSHION,        \* what the ETH budget of a USDG match adds, in BPS: 200 in the source
  MaxCalls        \* bound: calls made

VARIABLES
  wallet,     \* what the callers and the router hold
  owned,      \* positions by tokenId: owner, range, liquidity
  calls,
  last        \* the last call: who, and what it could spend

reinvestVars == <<wallet, owned, calls, last>>

Assets == {"SGAGE", "GAGE", "USDG", "ETH"}
Ranges == {"around", "above", "below"}  \* where it holds both tokens, only sGAGE, only GAGE
NoCall == [who |-> "nobody", limit |-> [a \in Assets |-> 0]]

ReinvestInit ==
  /\ wallet = [w \in Callers \cup {"router"} |-> [a \in Assets |-> IF w = "router" THEN 0 ELSE 3]]
  /\ owned = <<>> /\ calls = 0 /\ last = NoCall

Unit == [num |-> 1, den |-> 1, fee |-> 0]

Take(w, c, a, n) == [w EXCEPT ![c][a] = @ - n, !["router"][a] = @ + n]
Swapped(w, from, in, to, out) == [w EXCEPT !["router"][from] = @ - in, !["router"][to] = @ + out]

\* Mutant: _refundAll forgets the asset the caller paid with.
RefundTokens(w, c) ==
  [w EXCEPT ![c] = [a \in Assets |-> IF a = "USDG" THEN w[c][a] ELSE w[c][a] + w["router"][a]],
            !["router"] = [a \in Assets |-> IF a = "USDG" THEN w["router"][a] ELSE 0]]

\* _refundAll: everything the router holds, whoever it came from.
RefundAll(w, c) ==
  [w EXCEPT ![c] = [a \in Assets |-> w[c][a] + w["router"][a]], !["router"] = [a \in Assets |-> 0]]

\* _ethForGage: the spot quote and the cushion, rounded down.
EthForGage(out) == MulDiv(SpotOut(Unit, out), BPS + CUSHION, BPS)

\* _swapExactOut of ETH for GAGE: what it may cost within the limit.
LaunchCost(out, maxIn) == ExactOut(Unit, out, maxIn)

\* _gageToPair: nothing for a range that is all sGAGE, one wei more than the
\* pool will charge for one around the price; a range that holds no sGAGE reverts.
GageToPair(amount, range) == IF range = "above" THEN 0 ELSE amount + 1

\* _liquidityFor of everything the router holds.
LiquidityFor(range, held) ==
  IF range = "around" THEN Min({held["SGAGE"], held["GAGE"]})
  ELSE IF range = "above" THEN held["SGAGE"] ELSE held["GAGE"]

\* _mint and _increase charge both tokens for the liquidity, then all is refunded.
Into(w, c, range) ==
  LET liquidity == LiquidityFor(range, w["router"])
      charged(a) == IF (a = "SGAGE" /\ range # "below") \/ (a = "GAGE" /\ range # "above")
                    THEN liquidity ELSE 0
  IN  IF liquidity = 0 THEN {}
      ELSE {[wallet |-> RefundAll([w EXCEPT !["router"] = [a \in Assets |-> @[a] - charged(a)]], c),
             liquidity |-> liquidity]}

\* _buyGageToPair with ETH sent along, or with maxPay in USDG pulled first; what
\* the ETH budget is and what the launch asks depends on the router.
BuyGageToPair(w, c, need, asset, maxPay, value, budget, costs) ==
  IF need = 0 THEN {w}
  ELSE IF asset = "ETH"
  THEN IF value < maxPay THEN {} ELSE {Swapped(w, "ETH", cost, "GAGE", need) : cost \in costs}
  ELSE LET pulled == Take(w, c, "USDG", maxPay)
       IN  UNION {{Swapped(Swapped(pulled, "USDG", usdgPaid, "ETH", budget), "ETH", cost, "GAGE", need) :
                     usdgPaid \in ExactOut(Unit, budget, maxPay)} : cost \in costs}

\* What a call may have spent of each asset, at most.
Limits(sg, g, u, e) == [a \in Assets |-> CASE a = "SGAGE" -> sg [] a = "GAGE" -> g [] a = "USDG" -> u [] OTHER -> e]

CanPay(c, limit) == \A a \in Assets : limit[a] <= wallet[c][a]

\* The two ways a call ends: a new position of the caller, or, after _ownedRange,
\* one that is his already.
Mint(c, range, results, limit) ==
  /\ calls < MaxCalls /\ calls' = calls + 1
  /\ \E r \in results :
        /\ wallet' = r.wallet
        /\ owned' = Append(owned, [owner |-> c, range |-> range, liquidity |-> r.liquidity])
  /\ last' = [who |-> c, limit |-> limit]
Increase(c, range, results, limit) ==
  /\ calls < MaxCalls /\ calls' = calls + 1
  /\ \E r \in results, id \in DOMAIN owned :
        /\ owned[id].owner = c /\ owned[id].range = range
        /\ wallet' = r.wallet
        /\ owned' = [owned EXCEPT ![id].liquidity = @ + r.liquidity]
  /\ last' = [who |-> c, limit |-> limit]

\* The asset a match is paid with, and how much of it.
Pays(amount, asset, maxPay) ==
  Limits(amount, 0, IF asset = "USDG" THEN maxPay ELSE 0, IF asset = "ETH" THEN maxPay ELSE 0)

\* The part the two matches share, from the deadline to the refund.
MatchWith(c, amount, range, asset, maxPay, value, budget, costs) ==
  LET w == Take(Take(wallet, c, "SGAGE", amount), c, "ETH", value)
      bought == BuyGageToPair(w, c, GageToPair(amount, range), asset, maxPay, value, budget, costs)
  IN  IF /\ amount > 0 /\ range # "below"
         /\ CanPay(c, Limits(amount, 0, IF asset = "USDG" THEN maxPay ELSE 0, value))
      THEN UNION {Into(v, c, range) : v \in bought} ELSE {}

\* _pullAndSell: part of the sGAGE is sold at whatever it gives.
PullAndSell(c, amount, sell) ==
  IF amount > 0 /\ sell <= amount /\ CanPay(c, Limits(amount, 0, 0, 0))
  THEN {Swapped(Take(wallet, c, "SGAGE", amount), "SGAGE", sell, "GAGE", out) : out \in ExactIn(Unit, sell, 0)}
  ELSE {}

\* How much ETH the purchase of a match may cost.
EthLimit(asset, maxPay, budget) == IF asset = "ETH" THEN maxPay ELSE budget

Matched(c, amount, range, asset, maxPay, value) ==
  LET need == GageToPair(amount, range)
      budget == EthForGage(need)
  IN  MatchWith(c, amount, range, asset, maxPay, value, budget,
                LaunchCost(need, EthLimit(asset, maxPay, budget)))

ReinvestMatch(c, amount, range, asset, maxPay, value) ==
  Mint(c, range, Matched(c, amount, range, asset, maxPay, value), Pays(amount, asset, maxPay))
IncreaseMatch(c, amount, range, asset, maxPay, value) ==
  Increase(c, range, Matched(c, amount, range, asset, maxPay, value), Pays(amount, asset, maxPay))
ReinvestZap(c, amount, sell, range) ==
  Mint(c, range, UNION {Into(v, c, range) : v \in PullAndSell(c, amount, sell)}, Limits(amount, 0, 0, 0))
IncreaseZap(c, amount, sell, range) ==
  Increase(c, range, UNION {Into(v, c, range) : v \in PullAndSell(c, amount, sell)}, Limits(amount, 0, 0, 0))

\* Anybody may send tokens to the router; the next caller gets them.
Donate(c, a) ==
  /\ wallet[c][a] > 0 /\ calls < MaxCalls
  /\ wallet' = Take(wallet, c, a, 1) /\ calls' = calls + 1 /\ last' = NoCall
  /\ UNCHANGED owned

ReinvestNext ==
  \E c \in Callers :
    \/ \E a \in Assets : Donate(c, a)
    \/ \E amount \in Amounts, range \in Ranges :
         \/ \E asset \in {"ETH", "USDG"}, maxPay, value \in Amounts \cup {0} :
               \/ ReinvestMatch(c, amount, range, asset, maxPay, value)
               \/ IncreaseMatch(c, amount, range, asset, maxPay, value)
         \/ \E sell \in Amounts \cup {0} :
               ReinvestZap(c, amount, sell, range) \/ IncreaseZap(c, amount, sell, range)

\* A call ends with the router empty, whatever was lying there before; the
\* caller never pays more of any asset than he allowed, and nobody else pays or
\* gets anything (ReinvestRouter.sol:22-25).
EndsEmpty ==
  last' # NoCall /\ calls' > calls =>
     /\ \A a \in Assets : wallet'["router"][a] = 0
     /\ \A a \in Assets : wallet[last'.who][a] - wallet'[last'.who][a] <= last'.limit[a]
     /\ \A c \in Callers \ {last'.who} : wallet'[c] = wallet[c]
=============================================================================
