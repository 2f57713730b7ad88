\* One family and an outsider, two handlers, four requests.
CONSTANTS
  u = u
  v = v
  w = w
  f1 = f1
  f2 = f2
  i1 = i1
  i2 = i2
  n1 = n1
  c1 = c1
  c2 = c2
  e1 = e1
  e2 = e2
  seed = seed
  h1 = h1
  h2 = h2
  Accounts = {u, v, w}
  Currencies = {"coins"}
  Keys <- MCKeys
  Ids <- MCIds
  Amounts = {1}
  Handlers = {h1, h2}
  MaxRequests = 4
  MaxTime = 0
  FamilyIds = {f1, f2}
  OfferIds = {i1, i2}
  DonationIds = {n1}
  DonationCoins = 1
  FamilySeed <- MCFamilies
  CoupleIds = {c1, c2}
  InviteIds = {e1, e2}
  Rank <- MCRank
  CpFactor = 1
  FamilyFactor = 1
  Seed <- MCSeed
  SeedKey = seed
SYMMETRY MCSymmetry
SPECIFICATION GroupsSpec
INVARIANTS FamilySound InvitesSound
PROPERTIES BannedStaysOut
CHECK_DEADLOCK FALSE
