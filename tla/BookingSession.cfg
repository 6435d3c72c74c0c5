SPECIFICATION Spec
CONSTANTS
  MaxQuotes = 2
  MaxHolds = 2
  Keys = {k1}
  MaxAmount = 2
  Clocks = {"session", "quote", "hold"}
  MaxAttempts = 2
  None = None
INVARIANTS TypeOK BookedTogether BookedAsPaid HoldsFollowSession
PROPERTIES SettlementSparesItsHold SettlementEnds LapsedSessionRetires
CHECK_DEADLOCK FALSE
