SPECIFICATION MCFairSpec
CONSTANTS
  alice = alice
  bob = bob
  carol = carol
  treasury = treasury
  wood = wood
  stone = stone
  Accounts = {alice, bob, treasury}
  NoAccount = NoAccount
  FeeRecipient = treasury
  LoanIds = {1}
  Borrowers = {alice}
  Buyers = {alice, bob}
  Strategies = {bob}
  UnitCounts = {2}
  GRACE = 0
  Listings <- OneToken
  Recoveries = {}
  Prices = {}
  UnitPrices = {}
  AskLives = {1}
  Bundles = {}
  Drift = {}
  MaxLoans = 1
  MaxCash = 4
  MaxNonce = 0
  Keys = {wood}
  Terms = {2}
  BPS = 5
  Pauses = {TRUE, FALSE}
  FeeBps = {1}
  TradeFeeBps = {1}
  RewardRates = {0}
  LenderShare = 3
  Limits <- OpenLimits
  Donations = {}
  MaxBudget = 0
  MaxTime = 3
PROPERTIES LoansEnd
CHECK_DEADLOCK FALSE
