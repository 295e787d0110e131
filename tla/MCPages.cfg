SPECIFICATION MCSpec
CONSTANTS
  Values = {a, b}
  maxHistorySize = 2
  MaxTransaction = 2
  Names = {"n", "m"}
  Emails = {"e", "f"}
  Passwords = {"p"}
  MaxRequests = 3
  Sessions = {"s", "t"}
  Sockets = {"k", "l"}
  Clients = {"c"}
  MaxPatches = 1
  Chunks = 2
  GridSize = 4
  MaxCalls = 2
  Nothing = Nothing
INVARIANTS
  HistoryBounded
  VersionsConnected
  AccountsSound
  SessionsGuarded
  CancelledNeverCompletes
  PagesKept
CHECK_DEADLOCK FALSE
