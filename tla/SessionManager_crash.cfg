\* Two clients, one init each; OT calls fail only when the OT is not connected.
CONSTANTS
  Sid = {a, b}
  NoSid = NoSid
  MaxObj = 1
  Retry = FALSE
  Reuse = FALSE
  OtFaults = FALSE
SPECIFICATION Spec
INVARIANT NoCrash
CHECK_DEADLOCK FALSE
