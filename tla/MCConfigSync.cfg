SPECIFICATION Spec
CONSTANTS
  Sensor = {a, b}
  Value = {v1, v2, bad}
  Invalid = {bad}
  NoConfig = NoConfig
  NULL = NULL
  MaxInFlight = 2
  MaxNotices = 2
INVARIANT ConfirmedIsHeld
INVARIANT InvalidStaysOut
INVARIANT SettledAgree
PROPERTY ConfigReachesThing
