SPECIFICATION FairSpec
CONSTANTS
  None = None
  Block <- McBlock
  Genesis = "g"
  Parent <- McParent
  Height <- McHeight
  BlkId <- McBlkId
  NextPredicate <- McNextPredicate
  MohoPredicate <- McMohoPredicate
  Sp1Feature = FALSE
  CompiledSpec = {0, 1}
  Program <- McProgram
  Configs <- McConfigs
  MaxFaults = 1
INVARIANTS
  TypeOK
  StoredProofsAttest
  RecursionComposes
  FrontierBacked
  InFlightBounded
PROPERTY
  TipSubmitted
