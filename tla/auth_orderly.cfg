SPECIFICATION Spec
CONSTANTS
  MaxTokens = 5
  Calls = {c1, c2}
  Flights = {f1, f2}
  MaxSends = 1
  Faults = {"signout", "expiry"}
  NoFlight = NoFlight
SYMMETRY Symmetry
INVARIANTS StoredTokenIsLive SingleUse
CHECK_DEADLOCK FALSE
