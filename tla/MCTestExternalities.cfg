CONSTANTS
  TopKeys <- MCTopKeys
  ChildKeys <- MCChildKeys
  RootKey <- MCRootKey
  ChildPrefix <- MCChildPrefix
  PrefixArgs <- MCPrefixArgs
  ExtIdx <- MCExtIdx
  NoExtrinsicIndex <- MCNoExtrinsicIndex
  MaxKeyLen = 2
  Absent = Absent
  NoExtrinsics = NoExtrinsics
  Pending = Pending
  Vacant = Vacant
  NoTrie = NoTrie
  UnknownParent = UnknownParent
  ChildIndexPair = ChildIndexPair
SPECIFICATION Spec
INVARIANT ChangesTrieRecordsEveryChange
PROPERTY ImplementsKeyValueStore
