SPECIFICATION FairSpec
CONSTANTS
  Ports = {p}
  NoPort = NoPort
  maxReconnectAttempts = 2
  MaxConnects = 1
  MaxDisconnects = 0
  MaxFaults = 1
PROPERTIES RetriesAreExhausted
CHECK_DEADLOCK FALSE
