\* Every pairing function over changing inventories, with allocation and Prepare.
CONSTANTS
  NoExpr = NoExpr
  NoParams = NoParams
  NoValues = NoValues
  Broken = Broken
  Dev <- MCDev
  DevName <- MCDevName
  Attr <- MCAttr
  NumaAttrs = {"numaNode", "net_numaNode"}
  NameParts = 2
  NodeName = "node"
  ParamsFile <- MCParamsFile
  Configs <- MCConfigs
  NodeLabels <- MCNodeLabels
  Slices = {"sg", "sg2", "sn"}
  SliceDriver <- MCSliceDriver
  Contents <- MCContents
  Initial <- MCInitial
  Runs = {r1, r2}
  MaxPerSlice = 2
  Claims = {c1}
  MaxResults = 2
  MaxChanges = 1
  MaxFailures = 1
SPECIFICATION InvSpec
INVARIANTS InvTypeOK AutoPairsExact MultiSourceRelated ExplicitExclusive ExplicitAsConfigured
  NumaOfMembers PublishedMatchesStore PublishedOnce PreparedAsAllocated ParamsLastWins
PROPERTIES OfferStable
CHECK_DEADLOCK FALSE
SYMMETRY MCSym
