\* A stop that comes before the master is connected; every process starts.
SPECIFICATION SshSpec
CONSTANTS
  p1 = p1
  p2 = p2
  p3 = p3
  a = a
  b = b
  r = r
  h1 = h1
  h2 = h2
  Providers <- MCProviders
  Reconnect = {p1}
  Commands <- MCCommands
  Owner <- MCOwner
  Restart = {r}
  Host <- MCHost
  Control = {p3}
  Faults = {}
  MaxObjects = 2
  MaxSyncFailures = 1
  MaxTimers = 2
INVARIANTS
  FinishedIsFinished
\* An application that makes no call after the last command ended.
CHECK_DEADLOCK FALSE
