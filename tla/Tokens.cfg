SPECIFICATION MCSpec
CONSTANTS
    t1 = t1
    t2 = t2
    o1 = o1
    o2 = o2
    floor = floor
    MaxTime = 7
    WEEKS = 2
    EPOCH = 2
    REGISTRATION_GRACE = 1
    BPS = 4
    Weekly <- Table
    DefaultShares <- HalfHalf
    SharesChoices <- OtherShares
    StartTime = 2
    LaunchTimes = {1, 2}
    DripIds <- AllDrips
    Tokens <- TwoPositions
    Minted <- TwoPositions
    Owners <- OwnerPair
    FLOOR = floor
    Values = {0, 1}
    Lumps = {3}
    PRECISION = 4
    LP_DRIP_LENGTH = 2
    PeopleStart = 6
    MaxLumps = 1
    MaxNonce = 2
    Deals = {1, 2}
    Parties <- Strangers
    TermOf <- BothShort
    FeeOf <- Fees
    LengthOf <- Lengths
    RateChoices <- Generous
    MAX_REWARD_SHARE = 3
INVARIANTS
    ReserveKeepsItsTable
    BudgetsReachTheParties
    OwedIsHeld
PROPERTY StreamsPayWhatTimeEarned
CHECK_DEADLOCK FALSE
