CONSTANTS
  SrcBytes = {0, 105, 150, 255}
  TextChars = {10, 42, 61, 65}
  MaxSrc = 4
  MaxText = 5
SPECIFICATION Spec
INVARIANT CStrDefined
CHECK_DEADLOCK FALSE
