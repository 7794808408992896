\* A session that polls twice at the same time.
CONSTANTS
  Sid = {a, b}
  NoOwner = NoOwner
  System = System
  Slots = 2
  SystemPorts = FALSE
  MaxMpc = 4
SPECIFICATION FairSpec
PROPERTY LockReleased
CHECK_DEADLOCK FALSE
