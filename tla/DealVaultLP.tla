---------------------------- MODULE DealVaultLP ----------------------------
(***************************************************************************)
(* The first escrow's LP-only versions, DealVaultV2 for meme/USDG and      *)
(* DealVaultV3 for meme/WETH positions, with the checks that admit a       *)
(* position (the three position adapters) and the forwarder that carries   *)
(* their fees to the processor.  Everything after the listing is the first *)
(* escrow's code, repeated in these contracts word for word.               *)
(***************************************************************************)
EXTENDS DealVault

CONSTANTS
  USDG_, WETH_, Memes, Stocks,  \* the currencies pools are made of
  Shapes,          \* [pair, hooks, observes] of a position's pool; observes: a hook's
                   \* runtime was reviewed and does nothing but look on
  Masks,           \* subsets of STOCK, USDG, ETH the registry's owner may choose
  MinLiquidity,    \* the registry's minimum of every pool
  Processor        \* where the forwarder's fees go

VARIABLES
  version,     \* which adapter this escrow is built with
  shape,       \* the pool of each position
  facts,       \* of each position: liquidity, in range, subscriber
  admits,      \* the registry: memePairMask, inRangeRequired, and the positions
               \* whose pool's hook is in removalHookCodeHash
  bound        \* LPFeeForwarder.vault is set

lpVars == <<vars, version, shape, facts, admits, bound>>

Versions == {"stock", "meme", "weth"}
RemovalFlags == {"before", "after", "delta"}

(***************************************************************************)
(* The adapters.                                                           *)
(***************************************************************************)
\* UniV4PositionAdapter._checkPair: stock/USDG, or meme/stock where that is allowed.
StockPair(p) ==
  \/ USDG_ \in p.pair /\ p.pair \ {USDG_} \subseteq Stocks
  \/ "STOCK" \in admits.memePairs /\ p.pair \cap Stocks # {} /\ p.pair \cap Memes # {}

\* UniV4MemeUSDGAdapter._checkPair.
MemePair(p) == "USDG" \in admits.memePairs /\ USDG_ \in p.pair /\ p.pair \ {USDG_} \subseteq Memes

\* UniV3PositionAdapter.validate: the pair, in a pool without hooks.
WethPair(p) == "ETH" \in admits.memePairs /\ WETH_ \in p.pair /\ p.pair \ {WETH_} \subseteq Memes

\* Mutant: a hook that cannot stop the removal needs no review.
CheckHookFlags(p) == shape[p].hooks \cap RemovalFlags \subseteq {"after"}

\* _checkHook: of the removal hooks only one that looks on afterwards, with the
\* runtime the registry has approved.
CheckHook(p) ==
  \/ shape[p].hooks \cap RemovalFlags = {}
  \/ shape[p].hooks \cap RemovalFlags = {"after"} /\ p \in admits.hooks

EnoughInRange(f) ==
  /\ f.liquidity > 0 /\ f.liquidity > MinLiquidity
  /\ admits.inRangeRequired => f.inRange

\* The six checks; a v3 position has neither hooks nor subscribers.
ValidateStock(p) == StockPair(shape[p]) /\ CheckHook(p) /\ EnoughInRange(facts[p]) /\ ~facts[p].subscriber
ValidateMeme(p) == MemePair(shape[p]) /\ CheckHook(p) /\ EnoughInRange(facts[p]) /\ ~facts[p].subscriber
ValidateWeth(p) == WethPair(shape[p]) /\ EnoughInRange(facts[p])

LPInit ==
  /\ Init /\ version \in Versions
  /\ shape \in [Positions -> Shapes]
  /\ \A p \in Positions : version = "weth" => shape[p].hooks = {}
  /\ facts = [p \in Positions |-> [liquidity |-> MinLiquidity + 1, inRange |-> TRUE, subscriber |-> FALSE]]
  /\ admits = [memePairs |-> {"STOCK", "USDG", "ETH"}, inRangeRequired |-> TRUE, hooks |-> {}]
  /\ bound = FALSE

(***************************************************************************)
(* The escrows.                                                            *)
(***************************************************************************)
lpOnly == <<version, shape, facts, admits, bound>>

Listed(borrower, p, ask, term, expiry) ==
  /\ List(borrower, [kind |-> "POSITION", token |-> p, amount |-> 1], ask, term, expiry)
  /\ UNCHANGED lpOnly

ListV1(borrower, p, ask, term, expiry) ==
  version = "stock" /\ ValidateStock(p) /\ Listed(borrower, p, ask, term, expiry)

\* DealVaultV2 and DealVaultV3: an ERC-20 as collateral is refused.
ListV2(borrower, p, ask, term, expiry) ==
  version = "meme" /\ ValidateMeme(p) /\ Listed(borrower, p, ask, term, expiry)
ListV3(borrower, p, ask, term, expiry) ==
  version = "weth" /\ ValidateWeth(p) /\ Listed(borrower, p, ask, term, expiry)

\* From the listing on.
Deals(a) ==
  \E d \in DealIds :
    \/ Cancel(d, a) \/ Reclaim(d, a) \/ Claim(d, a)
    \/ \E lender \in Accounts : Fund(d, lender, a)
    \/ \E lender \in Accounts, price \in Prices, expiry \in Deadlines : Bid(d, price, expiry, lender, a)
    \/ \E b \in BidIds : Accept(d, b, a) \/ WithdrawBid(b, a)
Withdrawals(a) == WithdrawUSDG(a) \/ \E p \in Positions : WithdrawPosition(a, p, a)

DealsV1(a) == version = "stock" /\ (Deals(a) \/ Withdrawals(a)) /\ UNCHANGED lpOnly
DealsV2(a) == version = "meme" /\ Deals(a) /\ UNCHANGED lpOnly
WithdrawalsV2(a) == version = "meme" /\ Withdrawals(a) /\ UNCHANGED lpOnly
DealsV3(a) == version = "weth" /\ Deals(a) /\ UNCHANGED lpOnly
WithdrawalsV3(a) == version = "weth" /\ Withdrawals(a) /\ UNCHANGED lpOnly

(***************************************************************************)
(* LPFeeForwarder: the fee sink of these escrows.                          *)
(***************************************************************************)
Bind == ~bound /\ bound' = TRUE /\ UNCHANGED <<vars, version, shape, facts, admits>>

\* forward: what the vault credits and what lies here goes to the processor; the
\* credit is collected by withdrawUSDG, so USDG must serve all three.
Forward ==
  LET credit == balanceUSDG[FEE_SINK]
  IN  /\ bound /\ usdg[FEE_SINK] + credit > 0
      /\ stopped \cap {Vault, FEE_SINK, Processor} = {}
      /\ usdg' = [usdg EXCEPT ![Vault] = @ - credit, ![FEE_SINK] = 0, ![Processor] = @ + usdg[FEE_SINK] + credit]
      /\ balanceUSDG' = [balanceUSDG EXCEPT ![FEE_SINK] = 0]
      /\ UNCHANGED <<now, reg, dealVars, balanceERC20, owedNFT, openRaw, erc20, posOwner, stopped, lpOnly>>

(***************************************************************************)
(* Outside: pools trade, owners manage what they hold, the registry moves. *)
(***************************************************************************)
MarketMoves(p) ==
  /\ facts' = [facts EXCEPT ![p].inRange = ~@]
  /\ UNCHANGED <<vars, version, shape, admits, bound>>
OwnerManages(p) ==
  /\ posOwner[p] # Vault
  /\ \E liquidity \in {MinLiquidity, MinLiquidity + 1}, subscriber \in BOOLEAN :
       facts' = [facts EXCEPT ![p].liquidity = liquidity, ![p].subscriber = subscriber]
  /\ UNCHANGED <<vars, version, shape, admits, bound>>

\* The registry's owner.  The mask is never empty; a hook that could stop or change
\* a removal cannot be approved, and the owner approves what was reviewed.
SetAdmits(next) ==
  /\ "admits" \in OwnerMoves /\ admits' = next
  /\ UNCHANGED <<vars, version, shape, facts, bound>>
SetMemePairs(mask) == mask # {} /\ SetAdmits([admits EXCEPT !.memePairs = mask])
SetInRangeRequired(required) == SetAdmits([admits EXCEPT !.inRangeRequired = required])
SetPoolRemovalHook(p, ok) ==
  /\ ok => shape[p].hooks \cap RemovalFlags = {"after"} /\ shape[p].observes
  /\ SetAdmits([admits EXCEPT !.hooks = IF ok THEN @ \cup {p} ELSE @ \ {p}])

LPNext ==
  \/ \E a \in Listers, p \in Positions, ask \in Asks, term \in Terms :
       ListV1(a, p, ask, term, 0) \/ ListV2(a, p, ask, term, 0) \/ ListV3(a, p, ask, term, 0)
  \/ \E a \in Accounts :
       \/ DealsV1(a) \/ DealsV2(a) \/ WithdrawalsV2(a) \/ DealsV3(a) \/ WithdrawalsV3(a)
  \/ Bind \/ Forward
  \/ \E p \in Positions : MarketMoves(p) \/ OwnerManages(p)
  \/ \E mask \in Masks : SetMemePairs(mask)
  \/ \E required \in BOOLEAN : SetInRangeRequired(required)
  \/ \E p \in Positions, ok \in BOOLEAN : SetPoolRemovalHook(p, ok)
  \/ Tick /\ UNCHANGED lpOnly

(***************************************************************************)
(* Properties.                                                             *)
(***************************************************************************)
\* Whoever ends up with a position can take it apart: while the escrow holds it
\* nothing can stand in the way of removing its liquidity, which is more than
\* the minimum, and it belongs to the one kind this escrow is for, whatever its
\* owner, the market and the registry do around the deals.
HeldPositionsUnwind ==
  \A p \in Positions : posOwner[p] = Vault =>
    /\ {"before", "delta"} \cap shape[p].hooks = {}
    /\ "after" \in shape[p].hooks => shape[p].observes
    /\ facts[p].liquidity > MinLiquidity /\ (version # "weth" => ~facts[p].subscriber)
    /\ shape[p].pair \cap Stocks # {} <=> version = "stock"

\* No fee is lost on its way: the forwarder takes what the deals owed it, and
\* the vault can still pay everyone else.
ForwardedFeesAddUp ==
  /\ usdg[FEE_SINK] + usdg[Processor] + balanceUSDG[FEE_SINK] =
       SumFunction([d \in DealIds |-> FeeCharged(deals[d])])
  /\ usdg[Vault] = SumFunction(balanceUSDG) + SumFunction([b \in BidIds |-> OpenPrice(bids[b])])
=============================================================================
