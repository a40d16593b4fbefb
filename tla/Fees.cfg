SPECIFICATION MCSpec
CONSTANTS
    BPS = 4
    MAX_IMPACT_BPS = 1
    SPACING = 2
    BAND_TICKS = 2
    LOT = 2
    Prices <- AroundZero
    MaxBands = 2
    MaxFees = 1
    OPS_SHARE_BPS = 2
    MAX_BOUNTY_BPS = 2
    Thresholds = {1, 3}
    MaxEth = 4
    EthPrices = {1, 2}
    MaxUsdg = 3
    Bounties = {0, 2}
    Callers = {a, b}
    Amounts = {1, 2}
    CUSHION = 1
    Reserves <- SmallReserves
    CURVE_FEE = 1
    MaxCalls = 2
    LOCK_LENGTH = 2
    BASE = 4
    DEVIATION = 1
    MAX_DELAY = 2
    MIN_GROWTH = 1
    SEND_DELAY = 1
    SqrtPrices = {4, 5, 6}
    MaxClock = 4
    MaxFee = 5
    MAX_SWAPS = 4
    SPLIT_ITERATIONS = 2
    SLIPPAGE_BPS = 1
    CASHOUT_FEE_BPS = 1
    MAX_ROUTES = 2
    LENDER_SHARE = 1
INVARIANTS
    QuotesHold
    RewardsAreBacked
PROPERTIES
    FeesReachTheirEnd
    RoutersAreExact
    SeedIsKept
CHECK_DEADLOCK FALSE
