SPECIFICATION Spec
CONSTANTS
  Slots = {1, 2}
  Unlimited = {2}
  Holds = {h1, h2}
  Tokens = {t1, t2}
  Workers = {w1, w2}
  MaxPax = 1
  InitialPax = 1
  Edited = {1}
  CapacityChoices = {0, 2}
  UnlimitedChoices = {TRUE, FALSE}
  StatusChoices = {"open", "closed", "cancelled"}
  SessionFlow = TRUE
  None = None
SYMMETRY Symmetry
INVARIANTS TypeOK SeatsConserved OneHoldPerSession SweepsSpareEachOther
PROPERTIES ImplementsSeatLedger
