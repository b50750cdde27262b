CONSTANTS
  Width = 1
  MaxExpiry = 2
  Content <- MCContent
  MaxEpoch = 3
  MaxSeq = 2
  BadEpoch = {2}
  QueueDepth = 1
  PackagesPerRead = 2
SPECIFICATION Spec
INVARIANTS TypeOK Faithful NoStorm
PROPERTY Converges
