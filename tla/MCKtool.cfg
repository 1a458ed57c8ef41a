CONSTANTS
  SchemaLen = 2
  MaxUp = 3
  MaxPush = 2
  MaxTimers = 1
SPECIFICATION KtoolSpec
INVARIANT BlockedIsAnswered
PROPERTY CallReturns
PROPERTY SetDataAnswered
CHECK_DEADLOCK FALSE
