SPECIFICATION FairSpec
CONSTANTS
  Renders = {r1, r2}
  Browsers = {b1, b2, b3, b4}
  None = None
INVARIANTS OneBrowser LaunchingIsPending PagesClosed
PROPERTIES RenderEnds StopEnds
CHECK_DEADLOCK FALSE
