\* One quiz, three accounts, two handlers, one restart.
CONSTANTS
  ann = ann
  ben = ben
  cat = cat
  nobody = nobody
  m1 = m1
  h1 = h1
  h2 = h2
  Accounts = {ann, ben, cat}
  Handlers = {h1, h2}
  Ids = {m1}
  MaxRequests = 3
  MaxTime = 0
  MatchIds = {m1}
  Limits <- MCLimits
  RoomMembers = {ann, ben, cat}
  Nobody = nobody
  MaxRestarts = 1
  Faces = {1, 2, 6}
  Rolls = {15, 16, 40, 41, 85, 91}
  BoardSize = 8
  Hops <- MCHops
  TrackLength = 6
  HomeColumn = 1
  TokensPerPlayer = 2
  StartOffsets <- MCOffsets
  SafeSquares = {0, 2, 4}
  TopFace = 6
  MaxPip = 2
  HandSize <- MCHandSize
  Duration = 1
  StartPieces = 2
  BallsPerGroup = 2
  Questions = 2
  Openings <- MCOpenings
  MaxMoves = 2
CONSTANT Played = {"quiz"}
SYMMETRY MCSymmetry
SPECIFICATION GamesSpec
PROPERTIES CancelledStays
CHECK_DEADLOCK FALSE
