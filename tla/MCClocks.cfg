\* Quiz and chess: one match, two accounts, one handler, no restart.
CONSTANTS
  ann = ann
  ben = ben
  cat = cat
  nobody = nobody
  m1 = m1
  h1 = h1
  h2 = h2
  Accounts = {ann, ben}
  Handlers = {h1}
  Ids = {m1}
  MaxRequests = 2
  MaxTime = 0
  MatchIds = {m1}
  Limits <- MCLimits
  RoomMembers = {ann}
  Nobody = nobody
  MaxRestarts = 0
  Faces = {1, 2, 6}
  Rolls = {15, 16, 40, 41, 85, 91}
  BoardSize = 8
  Hops <- MCHops
  TrackLength = 6
  HomeColumn = 1
  TokensPerPlayer = 2
  StartOffsets <- MCOffsets
  SafeSquares = {0, 2, 4}
  TopFace = 6
  MaxPip = 2
  HandSize <- MCHandSize
  Duration = 1
  StartPieces = 2
  BallsPerGroup = 2
  Questions = 2
  Openings <- MCOpenings
  MaxMoves = 2
CONSTANT Played = {"quiz", "chess"}
SPECIFICATION GamesSpec
INVARIANTS ChessSound
PROPERTIES ClockedGamesEnd
CHECK_DEADLOCK FALSE
