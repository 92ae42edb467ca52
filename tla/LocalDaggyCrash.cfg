\* A process that dies of a signal, and nothing else unusual.
SPECIFICATION Spec
CONSTANTS
  p1 = p1
  p2 = p2
  p3 = p3
  a = a
  b = b
  r = r
  Providers <- MCTwoProviders
  Reconnect = {p1}
  Commands <- MCCommands
  Owner <- MCTwoOwner
  Restart = {r}
  Faults = {"crash"}
  MaxObjects = 3
  MaxSyncFailures = 1
INVARIANTS
  OneProcessPerCommand
\* An application that makes no call after the last command ended.
CHECK_DEADLOCK FALSE
