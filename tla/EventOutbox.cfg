SPECIFICATION Spec
CONSTANTS
  Events = {e1}
  Subscribers = {s1, s2}
  Requests = {r1, r2}
  Drains = {d1, d2}
  MaxAttempts = 2
  BatchLimit = 1
  MaxFaults = 1
SYMMETRY Symmetry
INVARIANTS TypeOK DeliveredMeansHandled SingleEmitOwner OverrunIsExplained
PROPERTIES ImplementsDurableDelivery
CHECK_DEADLOCK FALSE
