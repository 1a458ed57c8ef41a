SPECIFICATION ValueSpec
CONSTANTS
  IntPart = {0, 1, 127}
  Digit = {0, 5}
  Exponent = {0, 1}
  MaxDigits = 2
  Width = 8
  None = None
INVARIANT AcceptedIsOrdered
INVARIANT OrderedIsAccepted
INVARIANT RoundTrip
\* a job ends
CHECK_DEADLOCK FALSE
