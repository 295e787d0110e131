SPECIFICATION FairSpec
CONSTANTS
  ClientIds = {x}
  Channels = {ch}
  H = 2
  MaxConnections = 2
  Vanishing = {1}
  NoId = NoId
  MaxConnects = 1
PROPERTIES DeadClientsGo
