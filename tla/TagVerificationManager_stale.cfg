\* MPC ports taken by another program between the two port checks.
CONSTANTS
  Sid = {a, b}
  NoOwner = NoOwner
  System = System
  Slots = 1
  SystemPorts = TRUE
  MaxMpc = 4
SPECIFICATION Spec
INVARIANT MaskFromOwnRun
