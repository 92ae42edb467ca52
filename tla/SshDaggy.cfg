\* Masters that fail, connect late and end, and checks that cannot be run;
\* starts and stops in every order.
SPECIFICATION SshFairSpec
CONSTANTS
  p1 = p1
  p2 = p2
  p3 = p3
  a = a
  b = b
  r = r
  h1 = h1
  h2 = h2
  Providers <- MCProviders
  Reconnect = {p1}
  Commands <- MCCommands
  Owner <- MCOwner
  Restart = {r}
  Host <- MCHost
  Control = {p3}
  Faults = {"syncFail"}
  MaxObjects = 2
  MaxSyncFailures = 1
  MaxTimers = 2
INVARIANTS
  SshTypeOK
  OneProcessPerCommand
  SignalledEndIsEnd
  NoMasterWhileFinishing
PROPERTIES
  StopEnds
\* An application that makes no call after the last command ended.
CHECK_DEADLOCK FALSE
