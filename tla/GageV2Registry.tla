---------------------------- MODULE GageV2Registry ----------------------------
(***************************************************************************)
(* Admission configuration of the V2 market: what the registry owner can   *)
(* change while loans are open.  The vault reads it when a loan is listed, *)
(* funded or activated and when an ask is posted, and at no other time.    *)
(***************************************************************************)
EXTENDS Integers

CONSTANTS
  Keys,        \* exposure buckets: a token, or a pool
  Terms,       \* terms the owner may allow
  BPS,         \* basis-point denominator, 10_000 in the code
  Pauses,      \* pause switches the owner may use
  FeeBps,      \* origination fees the owner may set
  TradeFeeBps, \* sale fees the owner may set
  RewardRates, \* sGAGE per unit of fee, after the reference-price cap
  LenderShare, \* the lenders' part of a reward, in basis points
  Limits       \* [allowed, minimum, perDeal, aggregate] rows the owner may set

VARIABLE registry

RegistryType ==
  [newDealsPaused : Pauses, terms : SUBSET Terms, feeBps : FeeBps,
   tradeFeeBps : TradeFeeBps, rate : RewardRates, limits : [Keys -> Limits]]

\* The terms and the fee the constructor was given, not paused, and assets the
\* owner has already admitted, under any limits.
Init ==
  /\ registry \in RegistryType
  /\ registry.newDealsPaused = FALSE
  /\ registry.terms = Terms
  /\ \A k \in Keys : registry.limits[k].allowed

PauseNewDeals(paused) == registry' = [registry EXCEPT !.newDealsPaused = paused]

SetTerms(terms) == terms # {} /\ registry' = [registry EXCEPT !.terms = terms]

SetFee(bps) == registry' = [registry EXCEPT !.feeBps = bps]

SetTradeFee(bps) == registry' = [registry EXCEPT !.tradeFeeBps = bps]

SetRewardTerms(rate) == registry' = [registry EXCEPT !.rate = rate]

SetLimits(key, limits) == registry' = [registry EXCEPT !.limits[key] = limits]

Next ==
  \/ \E paused \in Pauses : PauseNewDeals(paused)
  \/ \E terms \in SUBSET Terms : SetTerms(terms)
  \/ \E bps \in FeeBps : SetFee(bps)
  \/ \E bps \in TradeFeeBps : SetTradeFee(bps)
  \/ \E rate \in RewardRates : SetRewardTerms(rate)
  \/ \E key \in Keys, limits \in Limits : SetLimits(key, limits)

Fee(amount, bps) == (amount * bps) \div BPS

\* quoteRewards: one amount from the fee, split between lenders and borrower.
QuoteLender(fee) == Fee(fee * registry.rate, LenderShare)
QuoteBorrower(fee) == fee * registry.rate - QuoteLender(fee)

\* validate: the admission part, of raw collateral in bucket key.
Admitted(key, raw) ==
  LET limits == registry.limits[key]
  IN  limits.allowed /\ raw >= limits.minimum /\ raw <= limits.perDeal
=============================================================================
