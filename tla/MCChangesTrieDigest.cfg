CONSTANTS
  Keys <- MCKeys
  ChildKeys <- MCChildKeys
  DigestInterval = 2
  DigestLevels = 3
  Zero = 3
  MaxBlock = 8
SPECIFICATION Spec
INVARIANT DigestListsAscending
INVARIANT DigestCoversRange
CHECK_DEADLOCK FALSE
