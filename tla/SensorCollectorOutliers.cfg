SPECIFICATION Spec
CONSTANTS
  Sensors = {"s"}
  Values = {2, 3, 9}
  Bounds = {1}
  bufferSize = 12
  filterTypes = {"moving-average"}
  filterWindow = 3
  Lasting = {}
  Once = {}
  MaxSamples = 4
  MaxSubscriptions = 0
PROPERTIES
  OutliersRejected
CHECK_DEADLOCK FALSE
