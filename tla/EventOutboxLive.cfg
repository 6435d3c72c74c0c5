SPECIFICATION FairSpec
CONSTANTS
  Events = {e1, e2}
  Subscribers = {s1}
  Requests = {r1}
  Drains = {d1}
  MaxAttempts = 2
  BatchLimit = 1
  MaxFaults = 1
PROPERTIES EventuallySettled
CHECK_DEADLOCK FALSE
