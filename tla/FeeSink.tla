------------------------------- MODULE FeeSink -------------------------------
(***************************************************************************)
(* The fee sink (FeeSink.sol) beside the escrow that credits it.  Fees are *)
(* pulled out of the vault and swept down the current route; the owner     *)
(* only chooses where they go.  setVault binds the sink once, at start-up. *)
(***************************************************************************)
EXTENDS DealVault

CONSTANTS Treasuries, Buybacks   \* addresses the owner may route to

VARIABLE sink   \* route, treasury, buyback

ASSUME SinkAssumption ==
  /\ Treasuries # {} /\ Treasuries \cup Buybacks \subseteq Wallets
  /\ (Treasuries \cup Buybacks) \cap (Accounts \cup {Vault, FEE_SINK, NoAccount}) = {}

sinkVars == <<vars, sink>>

SinkInit ==
  /\ Init
  /\ sink \in [route : {"TREASURY"}, treasury : Treasuries, buyback : {NoAccount}]

\* collect does nothing when there is no credit.
Collect == WithdrawUSDG(FEE_SINK) /\ UNCHANGED sink

Destination == IF sink.route = "TREASURY" THEN sink.treasury ELSE sink.buyback

Sweep ==
  /\ usdg[FEE_SINK] > 0
  /\ CanPay(FEE_SINK, Destination, usdg[FEE_SINK])
  /\ Pay(FEE_SINK, Destination, usdg[FEE_SINK])
  /\ UNCHANGED <<now, reg, vaultVars, erc20, posOwner, stopped, sink>>

SetRoute(route) ==
  /\ "route" \in OwnerMoves
  /\ route = "BUYBACK" => sink.buyback # NoAccount
  /\ sink' = [sink EXCEPT !.route = route]
  /\ UNCHANGED vars

SetTreasury(to) == "route" \in OwnerMoves /\ sink' = [sink EXCEPT !.treasury = to] /\ UNCHANGED vars

SetBuyback(to) == "route" \in OwnerMoves /\ sink' = [sink EXCEPT !.buyback = to] /\ UNCHANGED vars

SinkNext ==
  \/ Next /\ UNCHANGED sink
  \/ Collect
  \/ Sweep
  \/ \E route \in {"TREASURY", "BUYBACK"} : SetRoute(route)
  \/ \E to \in Treasuries : SetTreasury(to)
  \/ \E to \in Buybacks : SetBuyback(to)

SinkSpec == SinkInit /\ [][SinkNext]_sinkVars

\* Every fee ever charged is credited to the sink, in it, or at one of the
\* addresses it was swept to: collecting and sweeping in any order, with the
\* route and its addresses changing in between, loses and repeats nothing.
FeesAreAccounted ==
  balanceUSDG[FEE_SINK] + SumFunctionOnSet(usdg, {FEE_SINK} \cup Treasuries \cup Buybacks)
    = SumFunction([d \in DealIds |-> FeeCharged(deals[d])])
=============================================================================
