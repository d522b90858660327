SPECIFICATION FairSpec
CONSTANTS
  None = None
  Genesis = "g"
  Block <- FkBlock
  Parent <- FkParent
  Height <- FkHeight
  Work <- FkHeight
  Upgrade <- FkUpgrade
  AuxReq <- FkAuxReq
  Pred <- McPred
  SpecId = {0, 1}
  PredOf <- McPredOf
  Accepts <- McAccepts
  GenesisSpec = 0
  Auth <- McAuth
  CanonState <- McCanonState
  Descends <- McDescends
  Container = {1, 2}
  Leaf <- FkLeaf
  Exports <- FkExports
  Extra <- FkExtra
  ExtraData = {"e", "f"}
  CanonMoho <- McCanonMoho
  BlockId <- FkId
  DropHeights = {2}
  MohoHeights = {1}
  MaxCrashes = 1
  MaxFaults = 1
  MaxPrunes = 1
INVARIANTS
  TypeInv
  MohoCanonical
  CleanPrefixMirrored
  StraightChainMirrored
  NotifiedProvable
  ExportProofsServed
PROPERTIES
  StartupFailuresExplained
  LatestFolded
CHECK_DEADLOCK FALSE
