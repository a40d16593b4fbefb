SPECIFICATION MCSpec
CONSTANTS
  ann = ann
  ben = ben
  d1 = d1
  d2 = d2
  Holders = {ann, ben}
  NoHolder = NoHolder
  Deals = {d1, d2}
  Terms <- Listings
  Listed = {d1, d2}
  Lanes = {"STOCK", "LP"}
  Tokens = {"USDG", "SGAGE", "WOOD"}
  VIRTUAL_SHARES = 1
  PRICE_PRECISION = 10
  REWARD_PRECISION = 10
  BPS = 4
  PROFIT_UNLOCK = 2
  GRACE = 1
  MAX_APPROVAL_TTL = 1
  MAX_OPEN_LOANS = 2
  MinDeposit = 1
  MaxLoanTerm = 2
  MinReturnBps = 1
  MaxGageExposureBps = 4
  InitialWeights <- Halves
  Weights = {1}
  Caps = {10}
  FeeRates = {0, 2}
  Pauses = {TRUE, FALSE}
  UnitChoices = {2, 4}
  Investments = {3}
  Amounts = {4, 8}
  Redemptions = {1, 2, 4}
  RequestSizes = {1, 2, 3}
  Rates = {1, 2}
  Limits = {0, 3}
  Outages = {{}, {"USDG"}, {"WOOD"}, {"SGAGE"}}
  Gifts <- Gift
  RewardSteps = {3}
  Budgets = {1, 9}
  PROTOCOL_SHARE = 2
  MaxDeposits = 2
  MaxRequests = 2
  MaxEpochs = 1
  MaxGifts = 1
  MaxRewards = 3
  MaxTime = 4
  REWARD_MIN = 1
  INVEST_MIN = 1
  MaxFailures = 0
SYMMETRY HolderNames
INVARIANTS TypeOK BackedByTheBook SharesCanLeave
PROPERTIES PocketsAreFair SharePriceIsFair
CHECK_DEADLOCK FALSE
