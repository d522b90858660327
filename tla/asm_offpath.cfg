SPECIFICATION Spec
CONSTANTS
  None = None
  Genesis = "g"
  Block <- OffBlock
  Parent <- OffParent
  Height <- OffHeight
  Work <- OffWork
  Upgrade <- OffUpgrade
  AuxReq <- OffAuxReq
  Pred <- McPred
  SpecId = {0, 1}
  PredOf <- McPredOf
  Accepts <- McAccepts
  GenesisSpec = 0
  Auth <- McAuth
  CanonState <- McCanonState
  Descends <- McDescends
  PruneHeights = {1, 2, 3}
  MaxCrashes = 1
  MaxLost = 1
  MaxOutages = 1
  MaxPrunes = 1
INVARIANTS
  TipAuthorised
  NoMmrGap
PROPERTIES
  FailuresExplained
  RefinesLedger
CHECK_DEADLOCK FALSE
