CONSTANTS
  L1 = L1  L2 = L2
  r1 = r1  r2 = r2
  n1 = n1  n2 = n2  n3 = n3  n4 = n4
  AlwaysEmpty = AlwaysEmpty  NoRaw = NoRaw  NoNode = NoNode
  NoList = NoList  NoCrc = NoCrc  NoHole = NoHole  NoDigest = NoDigest  NoApp = NoApp
  Lists <- MCOneList
  Raws <- MCRaws
  NodeIds <- MCNodeIds4
  Data <- MCData
  Seeds <- MCSeeds
  Bytes = {1}
  Word = 1  Header = 1  AllocUnit = 3  PageSize = 2  Align = 2
  CombinedBases = {0}
  CrcWidth = 2  CrcPoly = 3
  MaxLen = 2
  Objs = {o1, o2}
  PNodes = {p1, p2, p3}
  UObjs = {u1, u2}  NS = 3  U32Bits = 3  Sat = Sat
SPECIFICATION PartSpec
INVARIANTS TypeOK CrcCacheSound DigestCorrect AppendedExact OwnershipSound
  ArithmeticExact OrderExact
PROPERTY RefinesSeqLists
SYMMETRY Symm
