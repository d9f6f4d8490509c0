SPECIFICATION Spec
CONSTANTS
  Capacity = 6
  ElementSize = 2
  MaxBytes = 12
INVARIANTS ViewsAgree StreamIntact SignalsTruthful
PROPERTY ChangeIsHeard
CHECK_DEADLOCK FALSE
