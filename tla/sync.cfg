SPECIFICATION FairSpec
CONSTANTS
  Slots = {s1, s2}
  MaxPolls = 2
  MaxRequests = 2
  MaxMishaps = 1
INVARIANTS RecordingKept EditKept
CHECK_DEADLOCK FALSE
PROPERTIES SpinnerStops InterruptedUploadResumes
