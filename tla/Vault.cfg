SPECIFICATION MCSpec
CONSTANTS
  alice = alice
  bob = bob
  carol = carol
  treasury = treasury
  wood = wood
  stone = stone
  Accounts = {alice, bob, carol, treasury}
  NoAccount = NoAccount
  FeeRecipient = treasury
  LoanIds = {1, 2}
  Borrowers = {alice}
  Buyers = {alice, bob, carol, treasury}
  Strategies = {}
  UnitCounts = {1, 2}
  GRACE = 0
  Listings <- TokenOrPosition
  Recoveries <- PoolPays
  Prices = {2}
  UnitPrices = {2}
  AskLives = {1}
  Bundles <- OddBundle
  Drift = {1}
  MaxLoans = 2
  MaxCash = 8
  MaxNonce = 2
  Keys = {wood}
  Terms = {2}
  BPS = 5
  Pauses = {TRUE, FALSE}
  FeeBps = {1}
  TradeFeeBps = {1, 3}
  RewardRates = {0, 2, 10}
  LenderShare = 3
  Limits <- TighterLimits
  Donations = {2, 10}
  MaxBudget = 10
  MaxTime = 4
INVARIANTS TypeOK RecordsMatchState AsksStand RecoveryBacked BooksBalance ExitsStayOpen RewardsFollowRights
PROPERTIES SalesMoveOnlyTheFuture
SYMMETRY Lenders
CHECK_DEADLOCK FALSE
