CONSTANTS
  Bytes = {1, 2}
  IovMax = 2
  MaxNodes = 3
  MaxNodeLen = 2
  MaxTotal = 3
  WriteOffsets <- MCOffsets
  ROffsets <- MCROffsets
  RLens <- MCRLens
SPECIFICATION Spec
PROPERTY
  WriteFdOffsetReturns
CHECK_DEADLOCK FALSE
