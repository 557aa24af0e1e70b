SPECIFICATION FairSpec
CONSTANTS
  Invocations = {i1, i2}
  Closures = {c1}
  Triggers = {t1}
  Deletes = {d1}
  Reports = {r1}
  Edits = {}
  MaxAttempts = 2
  MaxStalled = 1
  Faults = {"timeout", "crash", "cleanup"}
  MaxFaults = 2
  Empty = Empty
  NoPdf = NoPdf
  NoInvocation = NoInvocation
INVARIANT InFlightIsAttended
PROPERTIES InFlightSettles FailedIsParked ImplementsLifecycle
CHECK_DEADLOCK FALSE
