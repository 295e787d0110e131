SPECIFICATION MCSpec
CONSTANTS
  Ports = {p, q}
  NoPort = NoPort
  maxReconnectAttempts = 1
  MaxConnects = 3
  MaxDisconnects = 1
  MaxFaults = 2
INVARIANTS
  DisconnectIsFinal
  ConnectionIsWhole
  
  
\* Every part stops at the bounds of its calls.
CHECK_DEADLOCK FALSE
