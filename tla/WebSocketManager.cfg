SPECIFICATION FairSpec
CONSTANTS
  ClientIds = {x, y}
  Channels = {ch}
  H = 2
  MaxConnections = 2
  Vanishing = {1}
  NoId = NoId
  MaxConnects = 3
INVARIANTS
  TypeOK
  SubscriptionsAgree
PROPERTIES
  KillsOnlyAfterReconnect
  TimersEnd
