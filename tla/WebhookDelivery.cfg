SPECIFICATION Spec
CONSTANTS
  Keys = {k1}
  Producers = {p1, p2}
  Workers = {w1, w2}
  MaxRetries = 1
  Threshold = 2
  MaxFaults = 1
  None = None
INVARIANTS TypeOK ChainIsLinear FailedHasSuccessor
PROPERTIES ImplementsDurableDelivery SignableDeliveriesEnd
CHECK_DEADLOCK FALSE
