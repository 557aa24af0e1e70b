SPECIFICATION Spec
CONSTANTS
  MaxTokens = 4
  Calls = {c1, c2}
  Flights = {f1}
  MaxSends = 2
  Faults = {"lost"}
  NoFlight = NoFlight
INVARIANT SingleUse
CHECK_DEADLOCK FALSE
