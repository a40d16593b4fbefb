------------------------------ MODULE V4Swapper ------------------------------
(* What the protocol's own contracts ask of a market: V4Swapper.sol for the   *)
(* Uniswap v4 pools, PonsV4Swapper.sol for the launch curve that comes before *)
(* the launch pool.  A pool is its spot price num/den, in units of what comes *)
(* out for one unit in, and its fee; a swap may return anything up to what    *)
(* the spot price gives after the fee, and its caller states a limit.         *)
EXTENDS Integers, FiniteSetsExt

CONSTANTS BPS,             \* the base of every rate, 10 000 in the source
          MAX_IMPACT_BPS   \* 100 in the source

MulDiv(a, b, c) == (a * b) \div c
MulDivCeil(a, b, c) == (a * b + c - 1) \div c

\* A pool's spot quote, less its fee: the most an exact-input swap returns.
SpotOut(pool, amountIn) == MulDiv(MulDiv(amountIn, pool.num, pool.den), BPS - pool.fee, BPS)

\* _quoteAtSpot; before graduation the same with the curve's reserves and fee.
QuoteAtSpot(pool, amountIn, impact) == MulDiv(SpotOut(pool, amountIn), BPS - impact, BPS)

\* _swapExactIn: what the pool may return, none of it below the minimum.
ExactIn(pool, amountIn, minOut) == {out \in 0 .. SpotOut(pool, amountIn) : out >= minOut}

\* _swapExactOut: what the pool may ask for amountOut, none of it above the limit.
ExactOut(pool, amountOut, maxIn) == {paid \in 0 .. maxIn : SpotOut(pool, paid) >= amountOut}

\* Mutant: a curve that runs out takes what it can and the clip counts as whole.
CurveBuyClamped(curve, ethIn, minGage) ==
  ExactIn(curve, Min({ethIn, curve.left}), Min({minGage, curve.left}))

\* _curveBuy: a curve sells no more than it has left and refunds the rest; a
\* refund is refused, so a clip is bought whole or not at all.
CurveBuy(curve, ethIn, minGage) == IF ethIn <= curve.left THEN ExactIn(curve, ethIn, minGage) ELSE {}
=============================================================================
