SPECIFICATION Spec
CONSTANTS
  MaxConnects = 2
  MaxRequests = 2
  Env = {"refuse", "write_error", "server_closes", "hangup", "rejects", "pushes"}
INVARIANT IndexFindsWs
INVARIANT AnswerIsMine
PROPERTY RequestReturns
\* a fault, or a call that never returns, is the end
CHECK_DEADLOCK FALSE
