SPECIFICATION Spec
CONSTANTS
  Socket = {s1, s2}
  TrustId = {t1, t2}
  DeviceId = {7}
  PeerPid = {100}
  Uuid = {u1, u2, u3}
  Foreign = {u1}
  INT32_MAX = 2147483647
  NULL = NULL
  Env = {}
INVARIANT OnlineOnly
INVARIANT NoZombies
INVARIANT WatchFeedsOwner
PROPERTY CredentialsRevoked
PROPERTY ImplementsCredentials
