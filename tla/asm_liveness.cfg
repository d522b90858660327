SPECIFICATION FairSpec
CONSTANTS
  None = None
  Genesis = "g"
  Block <- FkBlock
  Parent <- FkParent
  Height <- FkHeight
  Work <- FkHeight
  Upgrade <- FkUpgrade
  AuxReq <- FkAuxReq
  Pred <- McPred
  SpecId = {0, 1}
  PredOf <- McPredOf
  Accepts <- McAccepts
  GenesisSpec = 0
  Auth <- McAuth
  CanonState <- McCanonState
  Descends <- McDescends
  PruneHeights = {}
  MaxCrashes = 1
  MaxLost = 0
  MaxOutages = 1
  MaxPrunes = 0
PROPERTY CatchesUp
CHECK_DEADLOCK FALSE
