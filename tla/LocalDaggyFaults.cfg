\* Every fault of the operating system the handlers distinguish.
SPECIFICATION FairSpec
CONSTANTS
  p1 = p1
  p2 = p2
  p3 = p3
  a = a
  b = b
  r = r
  Providers <- MCProviders
  Reconnect = {p2}
  Commands <- MCCommands
  Owner <- MCOwner
  Restart = {r}
  Faults = {"crash", "readError", "syncFail"}
  MaxObjects = 3
  MaxSyncFailures = 1
INVARIANTS
  TypeOK
  PhaseMatchesProviders
  StopReachesAll
  EndIsNoticed
  RestartKeepsAlive
  ReconnectKeepsStarted
  SignalledAliveIsAlive
PROPERTIES
  NothingStartsAfterStop
  CompletionEnds
  KeepsSessionPromise
  KeepsProviderPromise
\* An application that makes no call after the last command ended.
CHECK_DEADLOCK FALSE
