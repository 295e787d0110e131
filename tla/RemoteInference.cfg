SPECIFICATION FairSpec
CONSTANTS
  Keys = {k, l}
  BatchSize = 2
  AllowNonProd = TRUE
  MaxRequests = 3
  MaxChanges = 2
INVARIANTS
  TypeOK
  QueueArmed
  OnePlace
  ShutdownDispatchesAll
PROPERTIES
  EveryRequestSettles
