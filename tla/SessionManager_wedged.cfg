\* One client; the manager goroutines are fair, the client is not.
CONSTANTS
  Sid = {a}
  NoSid = NoSid
  MaxObj = 1
  Retry = FALSE
  Reuse = FALSE
  OtFaults = FALSE
SPECIFICATION FairSpec
PROPERTY OtEventuallyFree
CHECK_DEADLOCK FALSE
