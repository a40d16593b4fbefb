------------------------------ MODULE ZapRouter ------------------------------
(* The routers that open a position in one transaction: LPZapRouter and        *)
(* GageV2ZapRouter turn USDG or WETH into a listed liquidity position, the     *)
(* quoter computes their swaps, EntryRouter and GageV2EntryRouter turn ETH     *)
(* into a bid or into quarters of a loan.  A call is one transaction; what a   *)
(* swap returns is anything up to one for one.                                 *)
EXTENDS V4Swapper, Sequences, SequencesExt

CONSTANTS
  Callers, Nobody,
  Amounts,        \* what a caller may pass for an amount or a limit
  Routes,         \* the swaps a caller may send
  RoutingPools,   \* pools a swap may use besides the collateral's
  QuoteAmounts,   \* what is quoted
  MAX_SWAPS,      \* 4 in the source
  SPLIT_ITERATIONS, \* 18 in the source
  SLIPPAGE_BPS,
  Reserves,       \* what the collateral pool may hold: <<of the base, of the other>>
  Principal,      \* of the loan whose quarters are for sale
  MaxCalls        \* bound: calls made

VARIABLES
  held,       \* what the router holds
  wallet,     \* what each caller holds
  reserves,   \* of the collateral pool
  allowed,    \* getPoolConfig(pool).allowed
  quoted,     \* the last quote: its swaps, the base they bring and the best split
  holders,    \* the lenders of the loan's quarters
  calls,
  last        \* the last call

zapVars == <<held, wallet, reserves, allowed, quoted, holders, calls, last>>

Assets == {"USDG", "WETH", "ETH", "MEME"}
Pool == {"USDG", "MEME"}
None == [a \in Assets |-> 0]
Idle == [by |-> Nobody, kind |-> "none", spent |-> None, got |-> 0]
NoSplit == [sell |-> 0, output |-> 0, liquidity |-> 0]
NoQuote == [input |-> "USDG", amountIn |-> 0, swaps |-> <<>>, base |-> 0, split |-> NoSplit]
OneToOne == [num |-> 1, den |-> 1, fee |-> 0]

ZapInit ==
  /\ held = None
  /\ wallet = [c \in Callers |-> [a \in Assets |-> IF a = "MEME" THEN 0 ELSE 4]]
  /\ reserves \in Reserves /\ allowed = TRUE /\ quoted = NoQuote
  /\ holders = [u \in 1 .. 4 |-> Nobody]
  /\ calls = 0 /\ last = Idle

Called(call) == calls < MaxCalls /\ calls' = calls + 1 /\ last' = call

--------------------------------------------------------------------------------
(* The zap. *)

\* Mutant: a snapshot that does not know the router's WETH.
SnapshotWithoutWeth(input, swaps) == {input} \cup Pool

\* _snapshot: the currencies whose balance before the call is remembered, native apart.
Snapshot(input, swaps) ==
  {input, "WETH"} \cup Pool \cup UNION {swaps[i].key : i \in DOMAIN swaps}

\* _available: what this call brought in.
Available(w, a) == w[a] - held[a]

\* Swaps through admitted pools, each of what is there, returning one of its outs.
RunSwaps(pulled, swaps, outs) ==
  LET Swap(w, s) ==
        LET out == CHOOSE a \in s.key : a # s.in
        IN  IF /\ s.key = Pool \/ s.key \in RoutingPools
               /\ s.amountIn > 0 /\ s.minOut > 0
               /\ Available(w, s.in) >= s.amountIn
            THEN {[w EXCEPT ![s.in] = @ - s.amountIn, ![out] = @ + n] : n \in outs[s]}
            ELSE {}
  IN  FoldLeft(LAMBDA ws, s : UNION {Swap(w, s) : w \in ws}, {pulled}, swaps)

MarketOuts(swaps) == [s \in Range(swaps) |-> ExactIn(OneToOne, s.amountIn, s.minOut)]

\* _mint: all that is available of both tokens makes liquidity, at one for one.
MintLiquidity(w) == Min({Available(w, a) : a \in Pool})
Minted(w, liquidity) == [a \in Assets |-> IF a \in Pool THEN w[a] - liquidity ELSE w[a]]

\* _refund: native is wrapped first, then every remembered currency goes back.
Refunded(w, tokens) ==
  LET wrapped == [w EXCEPT !["WETH"] = @ + w["ETH"] - held["ETH"], !["ETH"] = held["ETH"]]
  IN  [a \in Assets |-> IF a \in tokens THEN Available(wrapped, a) ELSE 0]

\* _validate; the deadline and the range of ticks only refuse a call.
Validate(input, amountIn, unwrap, swaps, minLiquidity) ==
  /\ amountIn > 0 /\ minLiquidity > 0 /\ Len(swaps) <= MAX_SWAPS
  /\ input \in {"USDG", "WETH"}
  /\ unwrap => input = "WETH"
  /\ allowed

\* zapAndList: pull, unwrap, swap, mint, list for the caller, refund.
Zapped(kind, c, input, amountIn, unwrap, swaps, minLiquidity) ==
  LET pulled == [held EXCEPT ![IF unwrap THEN "ETH" ELSE input] = @ + amountIn]
      tokens == Snapshot(input, swaps)
  IN  /\ Validate(input, amountIn, unwrap, swaps, minLiquidity)
      /\ wallet[c][input] >= amountIn
      /\ \E w \in RunSwaps(pulled, swaps, MarketOuts(swaps)) :
           LET liquidity == MintLiquidity(w)
               minted == Minted(w, liquidity)
               back == Refunded(minted, tokens)
           IN  /\ liquidity >= minLiquidity
               /\ held' = [a \in Assets |->
                    IF a = "ETH" THEN held[a]
                    ELSE minted[a] - back[a] + (IF a = "WETH" THEN w["ETH"] - held["ETH"] ELSE 0)]
               /\ wallet' = [wallet EXCEPT ![c] =
                    [a \in Assets |-> @[a] + back[a] - (IF a = input THEN amountIn ELSE 0)]]
               /\ Called([by |-> c, kind |-> kind, spent |-> [None EXCEPT ![input] = amountIn],
                          got |-> liquidity])
               /\ UNCHANGED <<reserves, allowed, quoted, holders>>

\* The two markets differ in what the listing is: a deal, or a loan to be funded.
ZapAndList(c, input, amountIn, unwrap, swaps, minLiquidity) ==
  Zapped("deal", c, input, amountIn, unwrap, swaps, minLiquidity)
ZapAndListV2(c, input, amountIn, unwrap, swaps, minLiquidity) ==
  Zapped("loan", c, input, amountIn, unwrap, swaps, minLiquidity)

--------------------------------------------------------------------------------
(* The quoter: an unlock that always reverts, so it moves nothing. *)

Floor(out) == MulDiv(out, BPS - SLIPPAGE_BPS, BPS)

\* _sample: the pool after selling this much of the base; the product stays.
Sample(sell) ==
  LET output == (reserves[2] * sell) \div (reserves[1] + sell)
  IN  [output |-> output, x |-> reserves[1] + sell, y |-> reserves[2] - output]

\* The price is strictly inside the range, which is all prices up to a factor of 4.
InRange(p) == p.x < 4 * p.y /\ p.y < 4 * p.x

\* What the rest of the base, and what came out, could make of liquidity.
Liquidity0(available, sell) == (available - sell) * Sample(sell).y
Liquidity1(available, sell) == Sample(sell).output * Sample(sell).x
Liquidity(available, sell) == Min({Liquidity0(available, sell), Liquidity1(available, sell)})

\* Mutant: the halves are taken the wrong way round.
BisectReversed(available) ==
  LET search[n \in 0 .. SPLIT_ITERATIONS] ==
        IF n = 0 THEN [lo |-> 0, hi |-> available, best |-> NoSplit]
        ELSE LET s == search[n - 1]
                 sell == s.lo + (s.hi - s.lo) \div 2
                 found == [sell |-> sell, output |-> Sample(sell).output, liquidity |-> Liquidity(available, sell)]
                 best == IF found.liquidity > s.best.liquidity THEN found ELSE s.best
             IN  IF s.hi - s.lo <= 1 THEN s
                 ELSE IF ~InRange(Sample(sell)) THEN [s EXCEPT !.hi = sell]
                 ELSE IF Liquidity0(available, sell) < Liquidity1(available, sell)
                 THEN [lo |-> sell, hi |-> s.hi, best |-> best]
                 ELSE [lo |-> s.lo, hi |-> sell, best |-> best]
  IN  search[SPLIT_ITERATIONS]

\* _solve: bisection between selling nothing and selling all, SPLIT_ITERATIONS
\* steps of it: a large base is left with a bracket wider than one.
Bisect(available) ==
  LET search[n \in 0 .. SPLIT_ITERATIONS] ==
        IF n = 0 THEN [lo |-> 0, hi |-> available, best |-> NoSplit]
        ELSE LET s == search[n - 1]
                 sell == s.lo + (s.hi - s.lo) \div 2
                 found == [sell |-> sell, output |-> Sample(sell).output, liquidity |-> Liquidity(available, sell)]
                 best == IF found.liquidity > s.best.liquidity THEN found ELSE s.best
             IN  IF s.hi - s.lo <= 1 THEN s
                 ELSE IF ~InRange(Sample(sell)) THEN [s EXCEPT !.hi = sell]
                 ELSE IF Liquidity0(available, sell) > Liquidity1(available, sell)
                 THEN [lo |-> sell, hi |-> s.hi, best |-> best]
                 ELSE [lo |-> s.lo, hi |-> sell, best |-> best]
  IN  search[SPLIT_ITERATIONS]

Solve(available) == Bisect(available).best

\* Mutant: the next swap of the route is sized by what the quote saw.
QuoteRouteOptimistic(input, amountIn, route, out) ==
  FoldLeft(LAMBDA r, key :
             [swaps |-> Append(r.swaps, [key |-> key, in |-> r.currency, amountIn |-> r.available,
                                         minOut |-> Floor(out[Len(r.swaps) + 1])]),
              currency |-> CHOOSE a \in key : a # r.currency,
              available |-> out[Len(r.swaps) + 1]],
           [swaps |-> <<>>, currency |-> input, available |-> amountIn], route)

\* The route: each swap sells what the one before it is sure to bring.
QuoteRoute(input, amountIn, route, out) ==
  FoldLeft(LAMBDA r, key :
             [swaps |-> Append(r.swaps, [key |-> key, in |-> r.currency, amountIn |-> r.available,
                                         minOut |-> Floor(out[Len(r.swaps) + 1])]),
              currency |-> CHOOSE a \in key : a # r.currency,
              available |-> Floor(out[Len(r.swaps) + 1])],
           [swaps |-> <<>>, currency |-> input, available |-> amountIn], route)

\* quote and unlockCallback: the route to the base, then the split.  Bound: a
\* quote is the last thing explored.
Quote(input, amountIn, route, out) ==
  LET r == QuoteRoute(input, amountIn, route, out)
      split == Solve(r.available)
      last_ == [key |-> Pool, in |-> "USDG", amountIn |-> split.sell, minOut |-> Floor(split.output)]
  IN  /\ amountIn >= 2 /\ Len(route) <= 3 /\ Pool \notin {route[i] : i \in DOMAIN route}
      /\ \A i \in DOMAIN route : r.swaps[i].in \in route[i] /\ out[i] \in 1 .. r.swaps[i].amountIn /\ r.swaps[i].minOut > 0
      /\ r.currency = "USDG" /\ r.available >= 2
      /\ split.liquidity > 0 /\ last_.minOut > 0
      /\ quoted' = [input |-> input, amountIn |-> amountIn, swaps |-> Append(r.swaps, last_),
                    base |-> r.available, split |-> split]
      /\ calls' = MaxCalls /\ UNCHANGED <<held, wallet, reserves, allowed, holders, last>>

--------------------------------------------------------------------------------
(* ETH for a bid, or for quarters of a loan. *)

\* The Universal Router: some of the ETH becomes USDG, the rest comes back.
UniversalRouter(value) == {[eth |-> value - sold, usdg |-> out] : sold \in 0 .. value, out \in 0 .. value}

\* EntryRouter.bidWithETH and fundWithETH: everything left over goes to the caller.
BidWithETH(c, value, price) ==
  /\ value > 0 /\ wallet[c]["ETH"] >= value
  /\ \E r \in UniversalRouter(value) :
       /\ r.usdg >= price /\ r.eth + r.usdg <= value
       /\ wallet' = [wallet EXCEPT ![c]["ETH"] = @ - value + held["ETH"] + r.eth,
                                   ![c]["USDG"] = @ + held["USDG"] + r.usdg - price]
       /\ held' = [held EXCEPT !["ETH"] = 0, !["USDG"] = 0]
  /\ Called([by |-> c, kind |-> "bid", spent |-> [None EXCEPT !["ETH"] = value], got |-> price])
  /\ UNCHANGED <<reserves, allowed, quoted, holders>>

\* contribution: the price of the first free quarters.
FirstFree(units) ==
  {u \in 1 .. 4 : holders[u] = Nobody /\ Cardinality({v \in 1 .. u : holders[v] = Nobody}) <= units}
Contribution(slots) ==
  FoldSet(LAMBDA u, sum : sum + Principal \div 4 + (IF u <= Principal % 4 THEN 1 ELSE 0), 0, slots)

\* What the router held before the call.
EntryBaseline(a) == held[a]

\* GageV2EntryRouter.fundWithETH: only this call's surplus goes back.
FundWithETH(c, units, maxContribution, value) ==
  LET slots == FirstFree(units)
      price == Contribution(slots)
  IN  /\ value > 0 /\ wallet[c]["ETH"] >= value
      /\ units > 0 /\ units <= Cardinality({u \in 1 .. 4 : holders[u] = Nobody})
      /\ price <= maxContribution
      /\ \E r \in UniversalRouter(value) :
           /\ r.usdg >= price /\ r.eth + r.usdg <= value
           /\ held' = [held EXCEPT !["USDG"] = EntryBaseline("USDG"), !["ETH"] = EntryBaseline("ETH")]
           /\ wallet' = [wallet EXCEPT
                ![c]["USDG"] = @ + held["USDG"] + r.usdg - price - held'["USDG"],
                ![c]["ETH"] = @ - value + held["ETH"] + r.eth - held'["ETH"]]
      /\ holders' = [u \in 1 .. 4 |-> IF u \in slots THEN c ELSE holders[u]]
      /\ Called([by |-> c, kind |-> "fund", spent |-> [None EXCEPT !["ETH"] = value], got |-> price])
      /\ UNCHANGED <<reserves, allowed, quoted>>

--------------------------------------------------------------------------------
(* Everybody else: donations, the registry's owner, lenders who leave. *)

Donate(c, a) ==
  /\ wallet[c][a] > 0 /\ Called(Idle)
  /\ wallet' = [wallet EXCEPT ![c][a] = @ - 1] /\ held' = [held EXCEPT ![a] = @ + 1]
  /\ UNCHANGED <<reserves, allowed, quoted, holders>>

SetPoolAllowed ==
  /\ allowed' = ~allowed /\ Called(Idle)
  /\ UNCHANGED <<held, wallet, reserves, quoted, holders>>

LenderLeaves(u) ==
  /\ holders[u] # Nobody /\ Called(Idle)
  /\ holders' = [holders EXCEPT ![u] = Nobody]
  /\ UNCHANGED <<held, wallet, reserves, allowed, quoted>>

ZapNext ==
  \/ /\ calls < MaxCalls
     /\ \E c \in Callers :
          \/ \E input \in {"USDG", "WETH"}, amountIn \in Amounts, unwrap \in BOOLEAN,
                swaps \in Routes, minLiquidity \in {1} :
               \/ ZapAndList(c, input, amountIn, unwrap, swaps, minLiquidity)
               \/ ZapAndListV2(c, input, amountIn, unwrap, swaps, minLiquidity)
          \/ \E value, price \in Amounts : BidWithETH(c, value, price)
          \/ \E units \in 1 .. 4, maxContribution, value \in Amounts :
               FundWithETH(c, units, maxContribution, value)
          \/ \E a \in Assets : Donate(c, a)
  \/ SetPoolAllowed
  \/ \E u \in 1 .. 4 : LenderLeaves(u)
  \/ /\ quoted = NoQuote /\ last = Idle
     /\ \E amountIn \in QuoteAmounts :
          \/ Quote("USDG", amountIn, <<>>, <<>>)
          \/ \E out \in [1 .. 1 -> amountIn - 1 .. amountIn] : Quote("ETH", amountIn, <<{"ETH", "USDG"}>>, out)
          \/ \E out \in [1 .. 3 -> amountIn - 3 .. amountIn] :
               Quote("WETH", amountIn, <<{"WETH", "MEME"}, {"MEME", "ETH"}, {"ETH", "USDG"}>>, out)

--------------------------------------------------------------------------------
\* A call works with what its caller paid in and leaves the router as it was:
\* donations lie where they are, except that a bid with ETH sweeps USDG and ETH to
\* the caller; the position is no larger than the payment, nobody else is touched
\* (LPZapRouter.sol:117, GageV2EntryRouter.sol:12).
CallsAreExact ==
  calls' > calls /\ last' # Idle =>
    LET paid == [a \in Assets |-> wallet[last'.by][a] - wallet'[last'.by][a]]
    IN  /\ \A c \in Callers \ {last'.by} : wallet'[c] = wallet[c]
        /\ \A a \in Assets : paid[a] <= last'.spent[a]
        /\ IF last'.kind = "bid"
           THEN held'["USDG"] = 0 /\ held'["ETH"] = 0 /\ held'["WETH"] = held["WETH"]
           ELSE held' = held
        /\ last'.kind \in {"deal", "loan"} => \E a \in Assets : 2 * last'.got <= paid[a]

\* The swaps of a quote can be executed whatever the pools give within the
\* slippage; and the split is the best one, or, where the iterations ran out
\* first (LPZapQuoter.sol:114), the best outside a bracket that is the base
\* halved as often: whatever edges of the range the samples met on the way.
WorstOuts(swaps) == [s \in Range(swaps) |-> {s.minOut}]
HalvedUp(base) == (base + 2 ^ SPLIT_ITERATIONS - 1) \div (2 ^ SPLIT_ITERATIONS)
SplitIsBest(base, split) ==
  LET left == Bisect(base)
  IN  /\ left.hi - left.lo <= HalvedUp(base)
      /\ \A sell \in 0 .. base :
           InRange(Sample(sell)) /\ Liquidity(base, sell) > split.liquidity => left.lo < sell /\ sell < left.hi
QuotesHold ==
  quoted # NoQuote =>
    /\ RunSwaps([held EXCEPT ![quoted.input] = @ + quoted.amountIn],
                quoted.swaps, WorstOuts(quoted.swaps)) # {}
    /\ SplitIsBest(quoted.base, quoted.split)
=============================================================================
