CONSTANTS
  r1 = r1
  r2 = r2
  r3 = r3
  a = a
  b = b
  NoRequest = NoRequest
  Event <- MCEvent
  Subject <- MCSubject
  Size <- MCSize
  MaxItems = 2
  MaxSize = 3
  MaxPending = 2
  MaxLost = 1
SPECIFICATION Spec
INVARIANTS TypeOK Conserved Thresholds AuditIsComplete
PROPERTIES EventsLeave ShutdownEnds
