SPECIFICATION FairSpec
CONSTANTS
  Links = {broker, other}
  Broker = broker
  PrimarySizes = {64, 128}
  UsableBlocks = 2
  DataSizes = {40, 100}
  MaxBuffers = 1
  MaxParcels = 1
  MaxStates = 1
  MaxInFlight = 1
  PrimaryBlocks = 1
  Requesters = {broker}
INVARIANTS StatesCounted PayloadIntact OnlyOvertakingFails
PROPERTY ParcelsArrive
CHECK_DEADLOCK FALSE
