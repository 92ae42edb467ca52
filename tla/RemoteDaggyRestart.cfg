\* A command with restart that ends in a session that goes on.
SPECIFICATION FairSpec
CONSTANTS
  p1 = p1
  p2 = p2
  a = a
  b = b
  r = r
  Providers <- MCOneProvider
  Reconnect = {p1}
  Commands <- MCWithRestart
  Owner <- MCWithRestartOwner
  Restart = {r}
  PasswordAuth = {p1}
  MaxStarts = 1
  MaxTimers = 2
PROPERTIES
  RestartRestarts
\* Sessions end, and a lost connection may never be noticed.
CHECK_DEADLOCK FALSE
