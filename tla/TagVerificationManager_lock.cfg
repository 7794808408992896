\* Two sessions, one request each at a time, ports taken and freed by other programs.
CONSTANTS
  Sid = {a, b}
  NoOwner = NoOwner
  System = System
  Slots = 1
  SystemPorts = TRUE
  MaxMpc = 2
SPECIFICATION FairSpec
INVARIANT TypeOK
PROPERTY LockReleased
