SPECIFICATION Spec
CONSTANTS
  Invocations = {i1}
  Closures = {}
  Triggers = {t1, t2}
  Deletes = {}
  Reports = {r1}
  Edits = {}
  MaxAttempts = 2
  MaxStalled = 1
  Faults = {}
  MaxFaults = 0
  Empty = Empty
  NoPdf = NoPdf
  NoInvocation = NoInvocation
INVARIANT InFlightIsAttended
CHECK_DEADLOCK FALSE
