SPECIFICATION Spec
CONSTANTS
  Keys = {k1}
  Workers = {w1, w2}
  MaxQuotes = 2
  MaxDeaths = 0
  LookupByKey = TRUE
  None = None
INVARIANTS SecuredCanBeBooked
CHECK_DEADLOCK FALSE
