CONSTANTS
  Blocks <- MCBlocks
  KeyBytes <- MCKeyBytes
  MaxKeyLen = 2
  BlockWidth = 2
  MaxPairs = 2
  NotScanned = NotScanned
SPECIFICATION Spec
INVARIANT ScanReturnsWrittenKeys
CHECK_DEADLOCK FALSE
