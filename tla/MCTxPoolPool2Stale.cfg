CONSTANTS
  Submitters = {s1}
  Importer = imp
  Nonces <- MCNonces
  InvalidNonce <- MCInvalidNonce
  InPool2 <- MCEvenNonces
  Longevity = 0
  ReadyLimit = 2
  FutureLimit = 1
  MaxHead = 2
  Serial = TRUE
SPECIFICATION Spec
INVARIANT StaleCleared
