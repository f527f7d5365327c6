SPECIFICATION VobsubSpec
CONSTANTS
  Jobs <- MCJobs
  Streams = {0, 1}
  RoundedDown <- MCRoundedDown
INVARIANTS LinesPoint RoundTrip
CHECK_DEADLOCK FALSE
