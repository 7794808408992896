\* One sid reused after removal; OT calls may fail while connected.
CONSTANTS
  Sid = {a}
  NoSid = NoSid
  MaxObj = 1
  Retry = FALSE
  Reuse = TRUE
  OtFaults = TRUE
SPECIFICATION Spec
INVARIANT TypeOK
CHECK_DEADLOCK FALSE
