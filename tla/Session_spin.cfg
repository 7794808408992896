\* A sequential client whose OT goroutine may fail.
CONSTANTS
  Client = "sequential"
  MaxInFlight = 1
  IvShareLens = {4}
  PanicAt = {}
SPECIFICATION FairSpec
PROPERTY SpinTerminates
CHECK_DEADLOCK FALSE
