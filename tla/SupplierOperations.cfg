SPECIFICATION Spec
CONSTANTS
  Keys = {k1, k2}
  Workers = {w1, w2}
  MaxQuotes = 2
  MaxDeaths = 1
  LookupByKey = TRUE
  None = None
SYMMETRY Symmetry
INVARIANTS TypeOK OneReservation BookedIsSecured 
PROPERTIES VerdictsStand
CHECK_DEADLOCK FALSE
