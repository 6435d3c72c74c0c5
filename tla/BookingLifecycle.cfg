\* A cancelled booking with every request done stays as it is.
SPECIFICATION Spec
CONSTANTS
  Items = {i1, i2}
  Slots = {s1, s2}
  Workers = {w1, w2}
  MaxQuantity = 2
  Seats = 3
  Parties = {3, None}
  HoldSizes = {3}
  Overrides = {"confirmed", "in_progress"}
  None = None
SYMMETRY Symmetry
INVARIANTS TypeOK SeatsConserved CancelledHoldsNoSeats
PROPERTIES ItemsOfCancelledAreKept EditsMoveTogether
CHECK_DEADLOCK FALSE
