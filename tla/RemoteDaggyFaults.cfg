\* Connections that are refused, late, lost and closed in every order.
SPECIFICATION Spec
CONSTANTS
  p1 = p1
  p2 = p2
  a = a
  b = b
  r = r
  Providers <- MCProviders
  Reconnect = {p2}
  Commands <- MCCommands
  Owner <- MCOwner
  Restart = {r}
  PasswordAuth = {p1}
  MaxStarts = 1
  MaxTimers = 2
INVARIANTS
  TypeOK
  HandleHasSession
  EstablishedHasChannel
  ChannelHasEvent
  FinishingHasProvider
  StartIsNoticed
PROPERTIES
  NoExecWhileClosing
  KeepsProviderPromise
\* Sessions end, and a lost connection may never be noticed.
CHECK_DEADLOCK FALSE
