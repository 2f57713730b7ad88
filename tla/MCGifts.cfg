\* One room, two handlers, five requests.
CONSTANTS
  u = u
  v = v
  w = w
  room = room
  g1 = g1
  g2 = g2
  b1 = b1
  b2 = b2
  s1 = s1
  s2 = s2
  c1 = c1
  seed = seed
  Accounts = {u, v, w}
  Currencies = {"coins"}
  Keys <- MCKeys
  Ids <- MCIds
  Amounts = {2, 4}
  Costs = {2}
  h1 = h1
  h2 = h2
  Handlers = {h1, h2}
  MaxRequests = 5
  MaxTime = 1
  Rooms = {room}
  Owner <- MCOwner
  BattleIds = {b1, b2}
  Round = 1
  Nobody = Nobody
  WallIds = {s1, s2}
  NoWall = NoWall
  CoupleIds = {c1}
  InviteIds = {}
  Rank <- MCRank
  CpFactor = 1
  XpFactor = 1
  GiftIds = {g1, g2}
  Seed <- MCSeed
  SeedKey = seed
  CoupleSeed <- MCCouples
SYMMETRY MCSymmetry
SPECIFICATION PartySpec
INVARIANTS GiftsCounted WallsDoNotLeak BattleSound
PROPERTIES BattleForward
CHECK_DEADLOCK FALSE
