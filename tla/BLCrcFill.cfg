CONSTANTS
  L1 = L1  L2 = L2
  r1 = r1  r2 = r2
  n1 = n1  n2 = n2  n3 = n3  n4 = n4
  AlwaysEmpty = AlwaysEmpty  NoRaw = NoRaw  NoNode = NoNode
  NoList = NoList  NoCrc = NoCrc  NoHole = NoHole  NoDigest = NoDigest  NoApp = NoApp
  Lists <- MCOneList
  Raws <- MCRaws
  NodeIds <- MCNodeIds
  Data <- MCData
  Seeds <- MCSeeds
  Bytes = {1}
  Word = 1  Header = 1  AllocUnit = 3  PageSize = 2  Align = 2
  CombinedBases = {0}
  CrcWidth = 2  CrcPoly = 3
  MaxLen = 2
SPECIFICATION CrcFillSpec
INVARIANT CrcCacheSound
SYMMETRY Symm
