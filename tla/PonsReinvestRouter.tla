------------------------- MODULE PonsReinvestRouter -------------------------
(* The reinvest router of a launch on Pons: GAGE is bought on the curve until *)
(* that graduates.  The curve's reserves move between the calls.              *)
EXTENDS ReinvestRouter

CONSTANTS
  Reserves,       \* bound: reserves <<ETH, GAGE>> the launch curve may have
  CURVE_FEE       \* fee of the launch curve, in BPS

VARIABLES
  curve,      \* reserves of the launch curve
  graduated   \* the launch trades in its v4 pool

curveVars == <<curve, graduated>>
ponsReinvestVars == <<reinvestVars, curveVars>>

PonsReinvestInit == ReinvestInit /\ curve \in Reserves /\ graduated \in BOOLEAN

\* What the curve gives: x*y = k after its fee, rounded down.
CurveOut(reserves, ethIn) ==
  LET net == MulDiv(ethIn, BPS - CURVE_FEE, BPS)
  IN  MulDiv(reserves[2], net, reserves[1] + net)

\* Mutant: the budget is rounded down.
CurveEthForGageDown(reserves, out) ==
  MulDiv(MulDiv(reserves[1], out, reserves[2] - out), BPS, BPS - CURVE_FEE)

\* _curveEthForGage: both divisions round up, and one wei more.
CurveEthForGage(reserves, out) ==
  MulDivCeil(MulDivCeil(reserves[1], out, reserves[2] - out), BPS, BPS - CURVE_FEE) + 1

\* _ethForGage: the curve's own quote, or spot and the cushion, rounded up.  What
\* the curve cannot sell is refused, by both the budget and the purchase.
PonsEthForGage(out) ==
  IF graduated THEN MulDivCeil(SpotOut(Unit, out), BPS + CUSHION, BPS)
  ELSE IF out >= curve[2] THEN 0 ELSE CurveEthForGage(curve, out)

\* _swapExactOut on the curve takes all of what it was quoted.
PonsCost(out, maxIn) ==
  IF graduated THEN ExactOut(Unit, out, maxIn)
  ELSE IF out >= curve[2] THEN {} ELSE {CurveEthForGage(curve, out)} \cap (0 .. maxIn)

PonsMatched(c, amount, range, asset, maxPay, value) ==
  LET need == GageToPair(amount, range)
      budget == PonsEthForGage(need)
  IN  MatchWith(c, amount, range, asset, maxPay, value, budget,
                PonsCost(need, EthLimit(asset, maxPay, budget)))

PonsReinvestMatch(c, amount, range, asset, maxPay, value) ==
  /\ Mint(c, range, PonsMatched(c, amount, range, asset, maxPay, value), Pays(amount, asset, maxPay))
  /\ UNCHANGED curveVars
PonsIncreaseMatch(c, amount, range, asset, maxPay, value) ==
  /\ Increase(c, range, PonsMatched(c, amount, range, asset, maxPay, value), Pays(amount, asset, maxPay))
  /\ UNCHANGED curveVars
PonsReinvestZap(c, amount, sell, range) == ReinvestZap(c, amount, sell, range) /\ UNCHANGED curveVars
PonsIncreaseZap(c, amount, sell, range) == IncreaseZap(c, amount, sell, range) /\ UNCHANGED curveVars

LaunchTrades ==
  /\ \/ curve' \in Reserves \ {curve} /\ UNCHANGED graduated
     \/ ~graduated /\ graduated' = TRUE /\ UNCHANGED curve
  /\ last' = NoCall
  /\ UNCHANGED <<wallet, owned, calls>>

PonsReinvestNext ==
  \/ LaunchTrades
  \/ \E c \in Callers :
       \/ \E a \in Assets : Donate(c, a) /\ UNCHANGED curveVars
       \/ \E amount \in Amounts, range \in Ranges :
            \/ \E asset \in {"ETH", "USDG"}, maxPay, value \in Amounts \cup {0} :
                  \/ PonsReinvestMatch(c, amount, range, asset, maxPay, value)
                  \/ PonsIncreaseMatch(c, amount, range, asset, maxPay, value)
            \/ \E sell \in Amounts \cup {0} :
                  PonsReinvestZap(c, amount, sell, range) \/ PonsIncreaseZap(c, amount, sell, range)

\* The ETH budget the curve's formula gives always buys the GAGE it was asked
\* for, however the two roundings fall: otherwise the buy of a USDG match would
\* revert, and of a wei less it would for some amount.
BudgetBuys == \A out \in 1 .. curve[2] - 1 : CurveOut(curve, CurveEthForGage(curve, out)) >= out

(***************************************************************************)
(* The last version of the router (GageZapRouter.sol): besides the matches *)
(* and zaps it makes a position of GAGE, or of ETH or USDG, part of it     *)
(* swapped.                                                                *)
(***************************************************************************)
\* What buying GAGE with exactly this much ETH may bring, on the curve or after.
LaunchOut(ethIn, minOut) ==
  IF graduated THEN ExactIn(Unit, ethIn, minOut) ELSE {CurveOut(curve, ethIn)} \ (0 .. minOut - 1)

\* _pullGageAndSwap: part of the GAGE buys sGAGE.
PullGageAndSwap(c, amount, sell, minOut) ==
  IF sell > 0 /\ sell < amount /\ minOut > 0 /\ CanPay(c, Limits(0, amount, 0, 0))
  THEN {Swapped(Take(wallet, c, "GAGE", amount), "GAGE", sell, "SGAGE", out) : out \in ExactIn(Unit, sell, minOut)}
  ELSE {}

\* _fundAndSwap: ETH or USDG buys GAGE, part of that sGAGE.
FundAndSwap(c, asset, amount, toSwap, minGage) ==
  LET w == Take(wallet, c, asset, amount)
      eths == IF asset = "ETH" THEN {amount} ELSE ExactIn(Unit, amount, 1)
      bought == UNION {{Swapped(w, asset, amount, "GAGE", out) : out \in LaunchOut(e, minGage)} : e \in eths}
  IN  IF amount > 0 /\ toSwap > 0 /\ minGage > toSwap /\ CanPay(c, Pays(0, asset, amount))
      THEN UNION {{Swapped(v, "GAGE", toSwap, "SGAGE", out) : out \in ExactIn(Unit, toSwap, 1)} : v \in bought}
      ELSE {}

ZapGage(c, amount, sell, minOut, range) ==
  /\ Mint(c, range, UNION {Into(v, c, range) : v \in PullGageAndSwap(c, amount, sell, minOut)},
          Limits(0, amount, 0, 0))
  /\ UNCHANGED curveVars
IncreaseGageZap(c, amount, sell, minOut, range) ==
  /\ Increase(c, range, UNION {Into(v, c, range) : v \in PullGageAndSwap(c, amount, sell, minOut)},
              Limits(0, amount, 0, 0))
  /\ UNCHANGED curveVars
ZapFunded(c, asset, amount, toSwap, minGage, range) ==
  /\ Mint(c, range, UNION {Into(v, c, range) : v \in FundAndSwap(c, asset, amount, toSwap, minGage)},
          Pays(0, asset, amount))
  /\ UNCHANGED curveVars
IncreaseFundedZap(c, asset, amount, toSwap, minGage, range) ==
  /\ Increase(c, range, UNION {Into(v, c, range) : v \in FundAndSwap(c, asset, amount, toSwap, minGage)},
              Pays(0, asset, amount))
  /\ UNCHANGED curveVars

GageZapNext ==
  \/ PonsReinvestNext
  \/ \E c \in Callers, amount \in Amounts, range \in Ranges :
       \/ \E sell, minOut \in Amounts :
            ZapGage(c, amount, sell, minOut, range) \/ IncreaseGageZap(c, amount, sell, minOut, range)
       \/ \E asset \in {"ETH", "USDG"}, toSwap, minGage \in Amounts :
            \/ ZapFunded(c, asset, amount, toSwap, minGage, range)
            \/ IncreaseFundedZap(c, asset, amount, toSwap, minGage, range)
=============================================================================
