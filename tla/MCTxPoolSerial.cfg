\* Operations one at a time, everything routed to pool, with the test
\* runtime's longevity of 3 blocks: transactions outlive the block imports.
CONSTANTS
  Submitters = {s1}
  Importer = imp
  Nonces <- MCNonces
  InvalidNonce <- MCInvalidNonce
  InPool2 = {}
  Longevity = 3
  ReadyLimit = 2
  FutureLimit = 1
  MaxHead = 2
  Serial = TRUE
SPECIFICATION Spec
INVARIANT PoolPartitionExact
INVARIANT WatcherStatusOrder
PROPERTY SubmitResponseTruthful
