SPECIFICATION Spec
CONSTANTS
  Session = {x1, x2, x3}
  NULL = NULL
  Gone = Gone
  Driver = "ws"
  DataErrors = TRUE
  CloudFails = TRUE
  Stops = TRUE
INVARIANT RefsExact
INVARIANT PointersLive
\* the daemon may be stopped
CHECK_DEADLOCK FALSE
