SPECIFICATION Spec
CONSTANTS
  Invocations = {i1, i2}
  Closures = {c1}
  Triggers = {t1, t2}
  Deletes = {d1}
  Reports = {r1}
  Edits = {r1}
  MaxAttempts = 1
  MaxStalled = 1
  Faults = {"timeout", "lockloss"}
  MaxFaults = 1
  Empty = Empty
  NoPdf = NoPdf
  NoInvocation = NoInvocation
SYMMETRY Symmetry
INVARIANTS TypeOK PdfServedExists ReadyHasTranscript
CHECK_DEADLOCK FALSE
