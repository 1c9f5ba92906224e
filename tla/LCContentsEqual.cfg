CONSTANTS
  Bytes = {1, 2}
  CharBits = 2
  MaxNodes = 3
  MaxNodeLen = 2
  MaxTotal = 3
  CharSigned = TRUE
SPECIFICATION Spec
INVARIANT ContentsEqualCorrect
