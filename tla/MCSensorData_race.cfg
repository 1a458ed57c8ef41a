SPECIFICATION Spec
CONSTANTS
  Sensor = {a, b}
  BadUnit = {b}
  Value = {v1, v2}
  NULL = NULL
  MaxInFlight = 2
INVARIANT SetDataSentAgain
\* the daemon may crash
CHECK_DEADLOCK FALSE
