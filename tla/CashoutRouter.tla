---------------------------- MODULE CashoutRouter ----------------------------
(* GageV2CashoutRouter: in one transaction the owner of a loan's reclaim right *)
(* borrows the cap from a flash pool, repays the loan, unwinds the collateral, *)
(* swaps what comes out into USDG, pays the pool back and keeps the rest.      *)
EXTENDS V4Swapper, Sequences, SequencesExt

CONSTANTS
  Callers,
  Loans,              \* [owner, cap, tokens]: the loans there are
  Routes,             \* the route sequences a caller may send
  MAX_ROUTES, CASHOUT_FEE_BPS,
  Limits,             \* what a caller may state for a minimum or a maximum
  Unwound,            \* how much of each token unwinding may bring
  FlashFees,          \* what the flash pool may charge
  MaxCalls            \* bound: calls made

VARIABLES
  held,        \* the router's balances
  wallet,      \* USDG of the callers, the fee recipient and the flash pool
  loanState,   \* of each loan, in the vault
  approved,    \* the loans whose right the router may exercise
  admitted,    \* _v3Allowed and _v4Allowed: the pools routes may use
  calls,
  last         \* the last cash-out

cashoutVars == <<held, wallet, loanState, approved, admitted, calls, last>>

Assets == {"USDG", "WETH", "ETH", "MEME"}
Pools == {[kind |-> kind, key |-> key] : kind \in {"V3", "V4"}, key \in {{"WETH", "USDG"}, {"ETH", "USDG"}, {"MEME", "ETH"}, {"MEME", "USDG"}}}
FlashPool == [kind |-> "V3", key |-> {"WETH", "USDG"}]
NoCall == [loan |-> 0]
OneToOne == [num |-> 1, den |-> 1, fee |-> 0]

CashoutInit ==
  /\ held = [a \in Assets |-> 0]
  /\ wallet = [w \in Callers \cup {"fees", "flash"} |-> IF w = "flash" THEN 4 ELSE 1]
  /\ loanState = [l \in DOMAIN Loans |-> "ACTIVE"] /\ approved = {}
  /\ admitted = {} /\ calls = 0 /\ last = NoCall

\* _snapshot, _add: what is remembered of the collateral's tokens and the routes' ends.
Snapshot(loan, routes) ==
  {"USDG"} \cup Loans[loan].tokens \cup UNION {{routes[i].in, routes[i].out} : i \in DOMAIN routes}

\* A route sells what this call brought in.
RouteAmount(w, a) == w[a] - held[a]

\* _route: what the balances may be after it; an exchange takes all of the input.
RouteOnce(w, r) ==
  LET amount == RouteAmount(w, r.in)
      outs == IF r.kind = "UNWRAP_WETH" THEN {amount} ELSE ExactIn(OneToOne, amount, r.minOut)
      may == /\ r.in # "USDG" /\ r.in # r.out /\ r.minOut > 0
             /\ IF r.kind = "UNWRAP_WETH" THEN r.in = "WETH" /\ r.out = "ETH"
                ELSE [kind |-> r.kind, key |-> {r.in, r.out}] \in admitted
  IN  IF r.in = "USDG" \/ r.in = r.out \/ r.minOut = 0 THEN {}
      ELSE IF amount = 0 THEN {w}
      ELSE IF may THEN {[w EXCEPT ![r.in] = @ - amount, ![r.out] = @ + out] : out \in outs \ (0 .. r.minOut - 1)}
      ELSE {}

RunRoutes(w, routes) == FoldLeft(LAMBDA ws, r : UNION {RouteOnce(v, r) : v \in ws}, {w}, routes)

\* Mutant: what no route sold stays behind.
NothingUnspentUnchecked(w, tokens) == TRUE

\* Everything but USDG must be gone again.
NothingUnspent(w, tokens) == \A a \in tokens \ {"USDG"} : w[a] = held[a]

\* uniswapV3FlashCallback: reclaim, unwind, route, pay back, pay the fee and the net.
Payout(exit, financeFee, w, tokens) ==
  LET gross == w["USDG"] - held["USDG"]
      remainder == gross - Loans[exit.loan].cap - financeFee
      fee == MulDiv(remainder, CASHOUT_FEE_BPS, BPS)
  IN  /\ financeFee <= exit.maxFinanceFee
      /\ remainder >= 0 /\ remainder - fee >= exit.minimumNet
      /\ NothingUnspent(w, tokens)
      /\ wallet' = [wallet EXCEPT !["flash"] = @ + financeFee, !["fees"] = @ + fee,
                                 ![exit.recipient] = @ + remainder - fee]
      /\ held' = [w EXCEPT !["USDG"] = held["USDG"]]
      /\ last' = exit

\* cashOut, cashOutDetailed and _cashOut.
CashOut(c, exit) ==
  LET l == Loans[exit.loan]
      tokens == Snapshot(exit.loan, exit.routes)
  IN  /\ calls < MaxCalls
      /\ l.owner = c /\ exit.minimumNet > 0 /\ Len(exit.routes) <= MAX_ROUTES
      /\ loanState[exit.loan] = "ACTIVE" /\ exit.loan \in approved
      /\ wallet["flash"] >= l.cap
      /\ \E financeFee \in FlashFees, out \in [l.tokens -> Unwound] :
           \E w \in RunRoutes([a \in Assets |-> IF a \in l.tokens THEN held[a] + out[a] ELSE held[a]], exit.routes) :
             Payout(exit, financeFee, w, tokens)
      /\ loanState' = [loanState EXCEPT ![exit.loan] = "REPAID"]
      /\ approved' = approved \ {exit.loan}
      /\ calls' = calls + 1 /\ UNCHANGED admitted

\* setV3Route and setV4Route: the flash pool itself is locked while it lends.
SetRoute(pool) ==
  /\ calls < MaxCalls /\ pool \notin admitted /\ pool # FlashPool
  /\ admitted' = admitted \cup {pool}
  /\ last' = NoCall /\ calls' = calls
  /\ UNCHANGED <<held, wallet, loanState, approved>>
RevokeRoute(pool) ==
  /\ calls < MaxCalls /\ calls' = calls + 1 /\ pool \in admitted
  /\ admitted' = admitted \ {pool} /\ last' = NoCall
  /\ UNCHANGED <<held, wallet, loanState, approved>>

\* The owner approves the router for the right, or repays without it.
Approve(loan) ==
  /\ calls < MaxCalls /\ calls' = calls + 1 /\ loanState[loan] = "ACTIVE"
  /\ approved' = approved \cup {loan} /\ last' = NoCall
  /\ UNCHANGED <<held, wallet, loanState, admitted>>
Reclaim(loan) ==
  /\ calls < MaxCalls /\ calls' = calls + 1 /\ loanState[loan] = "ACTIVE"
  /\ loanState' = [loanState EXCEPT ![loan] = "REPAID"]
  /\ approved' = approved \ {loan} /\ last' = NoCall
  /\ UNCHANGED <<held, wallet, admitted>>

\* Anybody may send the router something; it stays there.
Donate(a) ==
  /\ calls < MaxCalls /\ calls' = calls + 1
  /\ held' = [held EXCEPT ![a] = @ + 1] /\ last' = NoCall
  /\ UNCHANGED <<wallet, loanState, approved, admitted>>

CashoutNext ==
  \/ \E c \in Callers, loan \in DOMAIN Loans, routes \in Routes, min, max \in Limits :
       CashOut(c, [loan |-> loan, recipient |-> c, minimumNet |-> min, maxFinanceFee |-> max, routes |-> routes])
  \/ \E pool \in Pools : SetRoute(pool) \/ RevokeRoute(pool)
  \/ \E loan \in DOMAIN Loans : Approve(loan) \/ Reclaim(loan)
  \/ \E a \in Assets : Donate(a)

\* A cash-out gives its caller at least what he asked for, out of his own
\* collateral: the flash pool has its loan and its fee, and the router holds what it
\* held before, in every currency; otherwise nothing has happened at all
\* (GageV2CashoutRouter.sol:172, :225).
CashoutIsExact ==
  last' # NoCall =>
    /\ held' = held
    /\ wallet'[last'.recipient] >= wallet[last'.recipient] + last'.minimumNet
    /\ wallet'["flash"] >= wallet["flash"] /\ wallet'["flash"] <= wallet["flash"] + last'.maxFinanceFee
    /\ \A w \in DOMAIN wallet \ {last'.recipient, "fees", "flash"} : wallet'[w] = wallet[w]
=============================================================================
