\* A client that repeats "init" for a sid still in the map.
CONSTANTS
  Sid = {a}
  NoSid = NoSid
  MaxObj = 2
  Retry = TRUE
  Reuse = FALSE
  OtFaults = FALSE
SPECIFICATION Spec
INVARIANT StorageCleanup
CHECK_DEADLOCK FALSE
