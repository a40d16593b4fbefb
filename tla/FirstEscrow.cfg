SPECIFICATION MCSpec
CONSTANTS
    a1 = a1
    a2 = a2
    vault = vault
    feeSink = feeSink
    treasury = treasury
    buyback = buyback
    t1 = t1
    p1 = p1
    Accounts <- ConstAccounts
    NoAccount = none
    Vault = vault
    FEE_SINK = feeSink
    Wallets <- ConstWallets
    Tokens = {t1}
    Positions = {p1}
    Kinds = {"ERC20", "POSITION"}
    ZapListings = TRUE
    CannotReceive = {a2}
    Amounts = {1}
    Asks <- AllAsks
    Prices = {1, 2, 4}
    Lives = {1}
    Terms = {1}
    Fees = {0, 1, 9}
    Caps = {0, 1, 2}
    Routers = {a1}
    OwnerMoves = {"pause", "terms", "fee", "allow", "open", "stop", "router", "route"}
    GRACE = 1
    MAX_LISTING_EXPIRY = 2
    MAX_FEE_BPS = 2
    BPS = 4
    Funds = 4
    DealIds = {1, 2}
    BidIds = {1, 2}
    Listers <- ConstAccounts
    MaxDeals = 2
    MaxBids = 2
    MaxTime = 3
    Treasuries = {treasury}
    Buybacks = {buyback}
INVARIANTS
    OneBidWins
    EveryoneIsSquare
    CollateralIsSafe
    EveryRightIsOpen
    FeesAddUp
CHECK_DEADLOCK FALSE
