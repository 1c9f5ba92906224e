CONSTANTS
  L1 = L1  L2 = L2
  r1 = r1  r2 = r2
  n1 = n1  n2 = n2  n3 = n3  n4 = n4
  AlwaysEmpty = AlwaysEmpty  NoRaw = NoRaw  NoNode = NoNode
  NoList = NoList  NoCrc = NoCrc  NoHole = NoHole  NoDigest = NoDigest  NoApp = NoApp
  Lists <- MCLists
  Raws <- MCRaws
  NodeIds <- MCNodeIds
  Data <- MCData
  Seeds <- MCSeeds
  Bytes = {1}
  Word = 1  Header = 1  AllocUnit = 3  PageSize = 2  Align = 2
  CombinedBases = {0}
  CrcWidth = 3  CrcPoly = 6
  MaxLen = 2
SPECIFICATION StructuralSpec
INVARIANT SubstrOfDefined
SYMMETRY Symm
