SPECIFICATION Spec
CONSTANTS
  None = None
  Genesis = "g"
  Block <- SwBlock
  Parent <- SwParent
  Height <- SwHeight
  Work <- SwHeight
  Upgrade <- SwUpgrade
  AuxReq <- SwAuxReq
  Pred <- McPred
  SpecId = {0, 1}
  PredOf <- McPredOf
  Accepts <- McAccepts
  GenesisSpec = 0
  Auth <- McAuth
  CanonState <- McCanonState
  Descends <- McDescends
  PruneHeights = {}
  MaxCrashes = 0
  MaxLost = 0
  MaxOutages = 0
  MaxPrunes = 0
INVARIANT IgnoredTipIsNoReorg
CHECK_DEADLOCK FALSE
