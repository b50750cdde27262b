CONSTANTS
  MaxRev = 4
  Rejected = {3}
  Bad = {2}
  Listed = {1, 4}
  Blobs = TRUE
  MaxEdit = 2
  MaxCrash = 1
  MaxFault = 1
SPECIFICATION Spec
INVARIANTS TypeOK ReportedIsLive InForceIsOnDisk
PROPERTIES NeverGoesBack LatestIsApplied EditIsServed
