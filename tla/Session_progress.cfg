\* The honest client, with getUploadProgress sent while setBlob runs.
CONSTANTS
  Client = "honest"
  MaxInFlight = 3
  IvShareLens = {4}
  PanicAt = {}
SPECIFICATION Spec
INVARIANT ReadsDefined
CHECK_DEADLOCK FALSE
