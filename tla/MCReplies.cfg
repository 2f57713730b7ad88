\* Support: two requests at a time, over the records of MCPlatform.cfg.
CONSTANTS
  ann = ann
  ben = ben
  cat = cat
  dan = dan
  h1 = h1
  h2 = h2
  id1 = id1
  p1 = p1
  none = none
  Accounts = {ann, ben}
  Handlers = {h1, h2}
  Ids = {id1}
  MaxRequests = 4
  MaxTime = 0
  Tokens = {p1}
  Categories = {"social", "security"}
  Capacity = 1
  RoomSettings = {"light"}
  BreakoutCapacity = 1
  Volumes = {50}
  Audiences = {"friends", "nobody"}
  OnDuty = {cat}
  Reviewers = {}
  Admins = {cat, dan}
  StaffRoles <- MCStaff
  Visibilities = {"friends", "private"}
  Nobody = none
  Phones = {p1}
  MaxTries = 1
  NoAccount = none
  MaxCuts = 1
  Load <- MCLoad
  Seeds <- MCSeeds
CONSTANT Services = {"support"}
SPECIFICATION PlatformSpec
INVARIANTS RepliesVisible
CHECK_DEADLOCK FALSE
