SPECIFICATION Spec
CONSTANTS
  Socket = {s1}
  TrustId = {t1, t2, t3}
  DeviceId = {7, 8}
  PeerPid = {0, 100}
  Uuid = {u1, u2, u3}
  Foreign = {u1}
  INT32_MAX = 2147483647
  NULL = NULL
  Env = {"switch", "data_error", "stop"}
INVARIANT TypeOK
INVARIANT RefsExact
INVARIANT MapEntryIsKept
PROPERTY SameCredentials
SYMMETRY Symmetry
\* the daemon may be stopped
CHECK_DEADLOCK FALSE
