CONSTANTS
  End = End
  Bytes = {1, 2}
  CharBits = 2
  CharSigned = TRUE
  MaxNodes = 3
  MaxNodeLen = 2
  MaxTotal = 3
  MaxRelOff = 3
  SrcBytes = {0, 105, 150, 255}
  TextChars = {10, 42, 61, 65}
  MaxSrc = 4
  MaxText = 5
  Conts = {c1, c2}
  Elems = {1, 2}
  Bufs = {b1, b2}
  Iters = {i1, i2}
  Null = Null
  SetEnd = SetEnd
SPECIFICATION Spec
INVARIANTS
  IteratorTypeOK
  OffsetTracksPosition
  ReadsCorrect
  WritesExact
  ListComparisonsCorrect
  EncodeIsBase64
  DecodeInvertsEncode
  BuffersSuffice
  InnerSetsExact
PROPERTY RefinesStdSet
SYMMETRY Symm
