CONSTANTS
  L1 = L1  L2 = L2
  r1 = r1  r2 = r2
  n1 = n1  n2 = n2  n3 = n3  n4 = n4
  AlwaysEmpty = AlwaysEmpty  NoRaw = NoRaw  NoNode = NoNode
  NoList = NoList  NoCrc = NoCrc  NoHole = NoHole  NoDigest = NoDigest  NoApp = NoApp
  Lists <- MCLists
  Raws <- MCRaws
  NodeIds <- MCNodeIds
  Data <- MCData
  Seeds <- MCSeeds
  Bytes = {1}
  Word = 1  Header = 1  AllocUnit = 3  PageSize = 2  Align = 2
  CombinedBases = {0}
  CrcWidth = 3  CrcPoly = 6
  MaxLen = 2
  Holders = {h1, h2, h3}
  Acts = {a1, a2, a3}
  Impls = {i1, i2, i3, i4}
  Null = Null  Dead = Dead  NoAct = NoAct
  MapConts = {c1, c2}
  MapKeys = {1, 2}
  MapVals = {v1, v2}
  MapBufs = {b1, b2}
  MapIters = {t1}
  MapEnd = MapEnd  MapGone = MapGone
SPECIFICATION PartSpec
INVARIANTS
  CountersExact OwnershipSound AppendSpaceExclusive AppenderSpaceHeld RebuildAlignedExact
  FdTypeOK PlacedAtOffset SuccessWritesAll ReadGetsFile FdReleased
  DeleterTypeOK RefsExact ActionsRunSafely NoLeak
  InnerMapsExact
PROPERTIES
  CallsReturn RefinesStdMap
SYMMETRY Symm
VIEW PartsView
CHECK_DEADLOCK FALSE
