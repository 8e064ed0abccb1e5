\* One composition: combinations that share a NIC are all on offer.
CONSTANTS
  NoExpr = NoExpr
  NoParams = NoParams
  NoValues = NoValues
  Broken = Broken
  Dev <- MCDev
  DevName <- MCDevName
  Attr <- MCAttr
  NumaAttrs = {"numaNode", "net_numaNode"}
  NameParts = 2
  NodeName = "node"
  ParamsFile <- MCParamsFile
  Configs <- OneComposition
  NodeLabels <- MCNodeLabels
  Slices = {"sg", "sg2", "sn"}
  SliceDriver <- MCSliceDriver
  Contents <- MCContents
  Initial <- MCInitial
  Runs = {r1, r2}
  MaxPerSlice = 2
  Claims = {c1, c2}
  MaxResults = 1
  MaxChanges = 0
  MaxFailures = 0
SPECIFICATION InvSpec
INVARIANTS AllocationsDisjoint
CHECK_DEADLOCK FALSE
