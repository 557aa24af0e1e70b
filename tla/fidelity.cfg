SPECIFICATION Spec
CONSTANTS
  Invocations = {i1, i2}
  Closures = {}
  Triggers = {t1, t2, t3}
  Deletes = {d1}
  Reports = {r1}
  Edits = {}
  MaxAttempts = 2
  MaxStalled = 1
  Faults = {"crash", "handlerloss", "apiloss"}
  MaxFaults = 1
  Empty = Empty
  NoPdf = NoPdf
  NoInvocation = NoInvocation
SYMMETRY Symmetry
INVARIANTS OneInvocation PdfShowsReport LoadedReportWasCompiled
PROPERTY ReadyNotRestaged
CHECK_DEADLOCK FALSE
