CONSTANTS
  Keys <- MCKeys
  ExtIdx <- MCExtIdx
  Absent = Absent
  NoExtrinsics = NoExtrinsics
SPECIFICATION Spec
INVARIANT ExtrinsicInputMatchesSpec
CONSTANTS
  Pending = Pending
  Vacant = Vacant
CHECK_DEADLOCK FALSE
