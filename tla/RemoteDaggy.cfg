\* Connections that are refused, late, lost and closed: what ends in the end.
SPECIFICATION FairSpec
CONSTANTS
  p1 = p1
  p2 = p2
  a = a
  b = b
  r = r
  Providers <- MCOneProvider
  Reconnect = {p1}
  Commands <- MCPlain
  Owner <- MCPlainOwner
  Restart = {}
  PasswordAuth = {p1}
  MaxStarts = 2
  MaxTimers = 2
PROPERTIES
  ClosingEnds
  CompletionEnds
  StartIsAnswered
\* Sessions end, and a lost connection may never be noticed.
CHECK_DEADLOCK FALSE
