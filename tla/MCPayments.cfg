\* Two accounts, two handlers, three requests.
CONSTANTS
  o1 = o1
  p1 = p1
  x1 = x1
  k1 = k1
  g1 = g1
  g2 = g2
  d1 = d1
  d2 = d2
  ru = ru
  rv = rv
  seed = seed
  u = u
  v = v
  Accounts = {u, v}
  Currencies = {"coins"}
  Keys <- MCKeys
  Ids <- MCIds
  Amounts = {1, 2}
  Handlers = {h1, h2}
  MaxRequests = 3
  MaxTime = 1
  Orders = {o1}
  PackageCoins = 1
  PurchaseIds = {p1}
  ItemPrice = 1
  HandoutIds = {x1}
  HandoutCoins = 1
  InventoryAdmins = {v}
  StaffRoles <- MCStaff
  CodeIds = {k1}
  CodeOwners = {u}
  VipSteps <- MCVip
  SvipSteps <- MCSvip
  GuardIds = {g1, g2}
  TierCoins = 1
  TierDays = 1
  RewardKey <- MCRewardKey
  RewardCoins = 1
  TargetCount = 1
  EventEnds = 1
  RedemptionIds = {d1, d2}
  ReferralCoins = 1
  Seed <- MCSeed
  SeedKey = seed
SPECIFICATION FairPayments
INVARIANTS RechargeSound DeliveriesPaid GuardSound RewardsPaid
PROPERTIES RequestsEnd
CHECK_DEADLOCK FALSE
