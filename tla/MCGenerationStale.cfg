CONSTANTS
  MaxRev = 1
  Rejected = {}
  Bad = {}
  Listed = {}
  Blobs = TRUE
  MaxEdit = 0
  MaxCrash = 0
  MaxFault = 0
SPECIFICATION Spec
INVARIANT ServesTheGeneration
