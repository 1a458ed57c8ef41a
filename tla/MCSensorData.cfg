SPECIFICATION Spec
CONSTANTS
  Sensor = {a, b}
  BadUnit = {b}
  Value = {v1, v2}
  NULL = NULL
  MaxInFlight = 2
INVARIANT SetDataNotLost
INVARIANT GetDataNotLost
PROPERTY SetDataReaches
\* the daemon may crash
CHECK_DEADLOCK FALSE
