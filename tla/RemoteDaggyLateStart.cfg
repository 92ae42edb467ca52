\* A stop that comes during the handshake.
SPECIFICATION Spec
CONSTANTS
  p1 = p1
  p2 = p2
  a = a
  b = b
  r = r
  Providers <- MCOneProvider
  Reconnect = {p1}
  Commands <- MCPlain
  Owner <- MCPlainOwner
  Restart = {}
  PasswordAuth = {p1}
  MaxStarts = 1
  MaxTimers = 2
INVARIANTS
  FinishingIsFinishing
\* Sessions end, and a lost connection may never be noticed.
CHECK_DEADLOCK FALSE
