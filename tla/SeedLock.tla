------------------------------ MODULE SeedLock ------------------------------
(* The seed position: minted and locked in one transaction by its bootstrap   *)
(* (SeedBootstrap, CompoundingSeedBootstrap), held for a year by its timelock *)
(* (SeedTimelock, which sends fees to the treasury, or                        *)
(* CompoundingSeedTimelock, which turns them into liquidity), and the worker  *)
(* that compounds (seed-worker.ts).  The worker reads a block, and what it    *)
(* sends is mined later, or not at all; it may be restarted at any time.      *)
EXTENDS Integers, FiniteSets, FiniteSetsExt

CONSTANTS
  Compounding,          \* which of the two timelocks
  LOCK_LENGTH,          \* 365 days in the source
  BASE, DEVIATION,      \* 10 000 and 25: how far the price may be from the quote
  MAX_DELAY,            \* 120 s: how far away a deadline may be
  MIN_GROWTH,           \* of BASE: the growth worth a transaction
  SEND_DELAY,           \* 90 s: the worker's deadline
  SqrtPrices,           \* bound: prices of the seed's pool
  MaxClock, MaxFee      \* bounds: the clock, and what fees and liquidity amount to

VARIABLES
  clock,
  sqrtPrice,   \* of the pool
  pool,        \* "none", "ours" or "theirs": is it initialized, and as the seed wants it?
  nft,         \* who has the position: "nobody", "lock" or "treasury"
  releaseAt, released,
  liquidity,   \* of the position
  earned,      \* fees <<currency0, currency1>> not collected
  kept,        \* fees the compounding lock retains
  treasury,    \* fees the treasury got
  worker,      \* what the worker does: at, and the quote it read
  mempool      \* compound transactions that may still be mined

seedVars == <<clock, sqrtPrice, pool, nft, releaseAt, released, liquidity, earned, kept,
              treasury, worker, mempool>>
lockVars == <<pool, nft, releaseAt, released, liquidity, earned, kept, treasury>>

NoQuote == [price |-> 0, least |-> 0, deadline |-> 0]
Resting == [at |-> "resting", quote |-> NoQuote]
Zero == [c \in 0 .. 1 |-> 0]

SeedInit ==
  /\ clock = 0 /\ sqrtPrice \in SqrtPrices /\ pool = "none" /\ nft = "nobody"
  /\ releaseAt = 0 /\ released = FALSE /\ liquidity = 0
  /\ earned = Zero /\ kept = Zero /\ treasury = Zero
  /\ worker = Resting /\ mempool = {}

\* Anybody may initialize the public pool first, at another price.
OthersInitialize ==
  /\ pool = "none" /\ pool' \in {"ours", "theirs"}
  /\ UNCHANGED <<clock, sqrtPrice, nft, releaseAt, released, liquidity, earned, kept, treasury, worker, mempool>>

\* Mutant: a pool somebody else has initialized is taken as it is.
AcceptAnyPool == nft = "nobody" /\ pool' = pool

\* The public pool is accepted only at the owner's own price and empty; if nobody
\* was there before, it is initialized.
AcceptPool == nft = "nobody" /\ pool \in {"none", "ours"} /\ pool' = "ours"

\* lock: minted, locked and refunded in one transaction, so that no empty timelock
\* is ever there for somebody else's position.
Lock ==
  /\ nft' = "lock" /\ liquidity' = 2 /\ releaseAt' = clock + LOCK_LENGTH
  /\ UNCHANGED <<clock, sqrtPrice, released, earned, kept, treasury, worker, mempool>>

Seed == ~Compounding /\ AcceptPool /\ Lock
CompoundingSeed == Compounding /\ AcceptPool /\ Lock

\* Trading pays the position its fees.
Trade ==
  /\ nft # "nobody" /\ sqrtPrice' \in SqrtPrices
  /\ \E c \in 0 .. 1 : /\ earned[c] + kept[c] + treasury[c] + liquidity < MaxFee
                       /\ earned' = [earned EXCEPT ![c] = @ + 1]
  /\ UNCHANGED <<clock, pool, nft, releaseAt, released, liquidity, kept, treasury, worker, mempool>>

\* SeedTimelock.collectFees: by anybody, to the treasury.
CollectFees ==
  /\ ~Compounding /\ nft = "lock"
  /\ treasury' = [c \in 0 .. 1 |-> treasury[c] + earned[c]] /\ earned' = Zero
  /\ UNCHANGED <<clock, sqrtPrice, pool, nft, releaseAt, released, liquidity, kept, worker, mempool>>

\* _liquidity: what both budgets pay for over the full range.
Liquidity(p, budget) ==
  Min({(budget[0] * p) \div Min(SqrtPrices), (budget[1] * Min(SqrtPrices)) \div p})

Charged(p, added) ==
  [c \in 0 .. 1 |-> IF c = 0 THEN (added * Min(SqrtPrices) + p - 1) \div p
                             ELSE (added * p + Min(SqrtPrices) - 1) \div Min(SqrtPrices)]

Abs(x) == IF x < 0 THEN -x ELSE x

Budget == [c \in 0 .. 1 |-> earned[c] + kept[c]]

\* Mutant: the deadline of a quote is not looked at.
CompoundLate(quote) ==
  /\ Compounding /\ nft = "lock" /\ ~released
  /\ Abs(sqrtPrice - quote.price) * BASE <= quote.price * DEVIATION
  /\ LET added == Liquidity(sqrtPrice, Budget)
     IN  /\ added >= quote.least
         /\ liquidity' = liquidity + added
         /\ kept' = [c \in 0 .. 1 |-> Budget[c] - Charged(sqrtPrice, added)[c]]
  /\ earned' = Zero
  /\ UNCHANGED <<clock, sqrtPrice, pool, nft, releaseAt, released, treasury, worker>>

\* Mutant: the price is not compared with the quote's.
CompoundAnyPrice(quote) ==
  /\ Compounding /\ nft = "lock" /\ ~released /\ clock < releaseAt
  /\ quote.price > 0 /\ quote.least > 0 /\ quote.deadline \in clock .. clock + MAX_DELAY
  /\ LET added == Liquidity(sqrtPrice, Budget)
     IN  /\ added >= quote.least
         /\ liquidity' = liquidity + added
         /\ kept' = [c \in 0 .. 1 |-> Budget[c] - Charged(sqrtPrice, added)[c]]
  /\ earned' = Zero
  /\ UNCHANGED <<clock, sqrtPrice, pool, nft, releaseAt, released, treasury, worker>>

\* compound: the treasury's transaction, within the lock, near the quoted price.
Compound(quote) ==
  /\ Compounding /\ nft = "lock" /\ ~released /\ clock < releaseAt
  /\ quote.price > 0 /\ quote.least > 0 /\ quote.deadline \in clock .. clock + MAX_DELAY
  /\ Abs(sqrtPrice - quote.price) * BASE <= quote.price * DEVIATION
  /\ LET added == Liquidity(sqrtPrice, Budget)
     IN  /\ added >= quote.least
         /\ liquidity' = liquidity + added
         /\ kept' = [c \in 0 .. 1 |-> Budget[c] - Charged(sqrtPrice, added)[c]]
  /\ earned' = Zero
  /\ UNCHANGED <<clock, sqrtPrice, pool, nft, releaseAt, released, treasury, worker>>

\* release, by anybody after the lock: the position, and what was retained.  The
\* fees it has not collected go with it.
Release ==
  /\ ~Compounding /\ nft = "lock" /\ clock >= releaseAt
  /\ nft' = "treasury"
  /\ UNCHANGED <<clock, sqrtPrice, pool, releaseAt, released, liquidity, earned, kept, treasury, worker, mempool>>
CompoundingRelease ==
  /\ Compounding /\ nft = "lock" /\ ~released /\ clock >= releaseAt
  /\ nft' = "treasury" /\ released' = TRUE
  /\ treasury' = [c \in 0 .. 1 |-> treasury[c] + kept[c]] /\ kept' = Zero
  /\ UNCHANGED <<clock, sqrtPrice, pool, releaseAt, liquidity, earned, worker, mempool>>

\* compoundQuote: enough growth, and half a per cent of slack.
CompoundQuote(price, existing, additional) ==
  LET least == (additional * 995) \div 1000
  IN  IF additional * BASE < existing * MIN_GROWTH \/ least = 0 THEN NoQuote
      ELSE [price |-> price, least |-> least, deadline |-> clock + SEND_DELAY]

\* previewCompound: what is retained and what is earned, at the price of now.
PreviewCompound == Liquidity(sqrtPrice, Budget)

\* cycle, first half: one read of the lock at one block, and the quote it gives.
Preview ==
  /\ Compounding /\ worker.at = "resting" /\ nft = "lock" /\ ~released /\ clock < releaseAt
  /\ LET quote == CompoundQuote(sqrtPrice, liquidity, PreviewCompound)
     IN  quote # NoQuote /\ worker' = [at |-> "quoted", quote |-> quote]
  /\ UNCHANGED <<clock, sqrtPrice, lockVars, mempool>>

\* Mutant: the wallet's pending transactions are not counted.
SendAnyway ==
  /\ worker.at = "quoted"
  /\ mempool' = mempool \cup {worker.quote} /\ worker' = [worker EXCEPT !.at = "sent"]
  /\ UNCHANGED <<clock, sqrtPrice, lockVars>>

\* cycle, second half: writeContract, unless the wallet has a transaction pending.
Send ==
  /\ worker.at = "quoted"
  /\ IF mempool # {} THEN worker' = Resting /\ UNCHANGED mempool
     ELSE mempool' = {worker.quote} /\ worker' = [worker EXCEPT !.at = "sent"]
  /\ UNCHANGED <<clock, sqrtPrice, lockVars>>

\* The receipt, the timeout of its wait, an RPC error, or a restart.
WorkerRests ==
  /\ worker.at # "resting" /\ worker' = Resting
  /\ UNCHANGED <<clock, sqrtPrice, lockVars, mempool>>

MineCompound ==
  \E quote \in mempool :
    /\ mempool' = mempool \ {quote}
    /\ \/ Compound(quote)
       \/ UNCHANGED <<clock, sqrtPrice, lockVars, worker>>  \* it reverts

ClockTick ==
  /\ clock < MaxClock /\ clock' = clock + 1
  /\ UNCHANGED <<sqrtPrice, lockVars, worker, mempool>>

SeedNext ==
  \/ OthersInitialize \/ Seed \/ CompoundingSeed \/ Trade \/ CollectFees
  \/ Release \/ CompoundingRelease
  \/ Preview \/ Send \/ WorkerRests \/ MineCompound \/ ClockTick

\* The seed stays a year and only grows: it leaves the lock for the treasury, and
\* not before; its liquidity never falls; fees of the compounding lock leave with
\* it and not before; and a compound that was quoted long ago, or at another
\* price, changes nothing (CompoundingSeedTimelock.sol:22-23): what is mined is
\* one quote, in time, near its price and for the growth it asked for.
Kept ==
  /\ nft = "lock" /\ nft' # "lock" => nft' = "treasury" /\ clock >= releaseAt
  /\ liquidity' >= liquidity
  /\ Compounding /\ treasury' # treasury => nft' = "treasury"
  /\ Compounding /\ nft = "lock" /\ <<liquidity, kept>>' # <<liquidity, kept>> /\ nft' = "lock" =>
       /\ clock < releaseAt
       /\ \E quote \in mempool \ mempool' :
            /\ clock <= quote.deadline
            /\ Abs(sqrtPrice - quote.price) * BASE <= quote.price * DEVIATION
            /\ liquidity' - liquidity >= quote.least
  /\ \A c \in 0 .. 1 : kept'[c] >= 0
SeedIsKept == [][Kept]_seedVars

\* One instance never has two compounds in the air, whatever restarts and lost
\* receipts do (seed-worker.ts:72); the seed's pool is at the owner's price.
OneCompoundAtATime ==
  Cardinality(mempool) <= 1 /\ (nft # "nobody" => pool = "ours")
=============================================================================
