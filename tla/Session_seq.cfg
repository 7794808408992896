\* One request at a time in any order; init and setBlob may panic.
CONSTANTS
  Client = "sequential"
  MaxInFlight = 1
  IvShareLens = {0, 4}
  PanicAt = {"init", "setBlob"}
SPECIFICATION Spec
INVARIANT TypeOK
CHECK_DEADLOCK FALSE
