SPECIFICATION MCFairSpec
CONSTANTS
  ann = ann
  ben = ben
  d1 = d1
  d2 = d2
  Holders = {ann}
  NoHolder = NoHolder
  Deals = {d1}
  Terms <- Listings
  Listed = {d1}
  Lanes = {"STOCK", "LP"}
  Tokens = {"USDG", "SGAGE", "WOOD"}
  VIRTUAL_SHARES = 1
  PRICE_PRECISION = 10
  REWARD_PRECISION = 10
  BPS = 4
  PROFIT_UNLOCK = 2
  GRACE = 1
  MAX_APPROVAL_TTL = 1
  MAX_OPEN_LOANS = 2
  MinDeposit = 1
  MaxLoanTerm = 2
  MinReturnBps = 1
  MaxGageExposureBps = 4
  InitialWeights <- Halves
  Weights = {}
  Caps = {10}
  FeeRates = {0}
  Pauses = {}
  UnitChoices = {2}
  Investments = {4}
  Amounts = {4}
  Redemptions = {}
  RequestSizes = {2}
  Rates = {1}
  Limits = {0}
  Outages = {{}}
  Gifts = {}
  RewardSteps = {3}
  Budgets = {9}
  PROTOCOL_SHARE = 2
  MaxDeposits = 1
  MaxRequests = 2
  MaxEpochs = 0
  MaxGifts = 0
  MaxRewards = 3
  MaxTime = 3
  REWARD_MIN = 1
  INVEST_MIN = 1
  MaxFailures = 1
PROPERTIES EverythingEnds
CHECK_DEADLOCK FALSE
