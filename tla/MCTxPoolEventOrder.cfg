CONSTANTS
  Submitters = {s1}
  Importer = imp
  Nonces <- MCNonces
  InvalidNonce <- MCInvalidNonce
  InPool2 = {}
  Longevity = 0
  ReadyLimit = 2
  FutureLimit = 1
  MaxHead = 2
  Serial = FALSE
SPECIFICATION Spec
INVARIANT WatcherStatusOrder
