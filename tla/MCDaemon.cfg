SPECIFICATION Spec
CONSTANTS
  Watch = {w1, w2}
  Conn = {c1, c2}
  NULL = NULL
  Wide = TRUE
  MaxTimeouts = 4
  NodeDriver = {"unix", "tcp"}
PROPERTY ImplementsWatch
PROPERTY HangUpReported
\* main exits
CHECK_DEADLOCK FALSE
