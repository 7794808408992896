\* Two clients starting sessions.
CONSTANTS
  Sid = {a, b}
  NoSid = NoSid
  MaxObj = 1
  Retry = FALSE
  Reuse = FALSE
  OtFaults = FALSE
SPECIFICATION Spec
INVARIANT OtExclusive
CHECK_DEADLOCK FALSE
