SPECIFICATION Spec
CONSTANTS
  Slots = {1}
  Unlimited = {}
  Holds = {h1, h2}
  Tokens = {t1}
  Workers = {w1, w2}
  MaxPax = 2
  InitialPax = 2
  Edited = {1}
  CapacityChoices = {}
  UnlimitedChoices = {}
  StatusChoices = {"open", "closed"}
  SessionFlow = FALSE
  None = None
SYMMETRY Symmetry
INVARIANTS OneHoldPerRequest SweepSparesPlacement
