SPECIFICATION Spec
CONSTANTS
  None = None
  Genesis = "g"
  Block <- FkBlock
  Parent <- FkParent
  Height <- FkHeight
  Work <- FkHeight
  Upgrade <- FkUpgrade
  AuxReq <- FkAuxReq
  Pred <- McPred
  SpecId = {0, 1}
  PredOf <- McPredOf
  Accepts <- McAccepts
  GenesisSpec = 0
  Auth <- McAuth
  CanonState <- McCanonState
  Descends <- McDescends
  Container = {1, 2}
  Leaf <- FkLeaf
  Exports <- FkExports
  Extra <- FkExtra
  ExtraData = {"e", "f"}
  CanonMoho <- McCanonMoho
  BlockId <- FkId
  DropHeights = {}
  MohoHeights = {}
  MaxCrashes = 0
  MaxFaults = 0
  MaxPrunes = 0
INVARIANT ExtendsCleanPrefix
CHECK_DEADLOCK FALSE
