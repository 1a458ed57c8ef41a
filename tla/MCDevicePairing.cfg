SPECIFICATION Spec
CONSTANTS
  Proxy = {p1}
  Call = {c1, c2}
  Name = {unknown, n1}
  Unknown = unknown
  NULL = NULL
  MaxInFlight = 2
INVARIANT ReplyHasCall
INVARIANT InProgress
INVARIANT SignalsAgree
INVARIANT MirrorsRadio
PROPERTY PairAnswered
\* the daemon may be stopped
CHECK_DEADLOCK FALSE
