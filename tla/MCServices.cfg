SPECIFICATION MCFairSpec
CONSTANTS
  PoolSize = 2
  MaxTasks = 5
  NoTask = NoTask
  Unclonable = {4}
  Replicas = {"p", "q"}
  Keys = {"k"}
  Fields = {"x", "y"}
  Strategies = {"FIRST_WRITE_WINS", "MERGE", "MANUAL"}
  MaxTime = 2
  MaxVersion = 3
  ApiClients = {"a"}
  Routes = {"r"}
  KeyIds = {"k"}
  limit = 1
  Window = 2
  Second = 2
  MaxGateTime = 4
  MaxApiRequests = 3
INVARIANTS
  WorkConserving
  AnswersReachTheirCaller
  SlotsLostOnlyByClone
  SyncedStoresAgree
  Gateway
  
PROPERTIES
  ServesInOrder
  EveryCallSettles
  TimePlayedOnce
  WorkEnds
\* Every part stops at the bounds of its calls.
CHECK_DEADLOCK FALSE
