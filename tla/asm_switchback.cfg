SPECIFICATION Spec
CONSTANTS
  None = None
  Genesis = "g"
  Block <- SwBlock
  Parent <- SwParent
  Height <- SwHeight
  Work <- SwHeight
  Upgrade <- SwUpgrade
  AuxReq <- SwAuxReq
  Pred <- McPred
  SpecId = {0, 1}
  PredOf <- McPredOf
  Accepts <- McAccepts
  GenesisSpec = 0
  Auth <- McAuth
  CanonState <- McCanonState
  Descends <- McDescends
  PruneHeights = {}
  MaxCrashes = 2
  MaxLost = 1
  MaxOutages = 1
  MaxPrunes = 0
INVARIANTS
  TypeInv
  AnchorsCanonical
  CommitComplete
  ServedCanonically
  TipAuthorised
PROPERTIES
  RefinesLedger
CHECK_DEADLOCK FALSE
