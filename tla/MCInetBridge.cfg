CONSTANTS
  Thing <- MCThing
  Patient <- MCPatient
  MaxSock = 5
  MaxQueue = 1
  Faulty = {4}
  Zeroed = Zeroed
  NULL = NULL
SPECIFICATION Spec
INVARIANT TablesExact
INVARIANT RepliesStayHome
PROPERTY ThingHeard
CHECK_DEADLOCK FALSE
