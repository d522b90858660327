SPECIFICATION Spec
CONSTANTS
  Network = "regtest"
  TIMESTAMPS_FOR_MEDIAN = 3
  difficulty_adjustment_interval = 2
  pow_target_timespan = 8
  max_attainable_target = 256
  Anchor <- McAnchor
  MaxHeight = 6
  GenesisAsmPredicate = "v0"
  Registry <- McRegistry
  MAX_LOGS = 8
  MAX_SIGNERS = 3
  InitSigners <- McSigners
  max_seqno_gap = 2
  MAX_L1_HEIGHT = 99
  NoSelection = 99
  ByteBits = 8
  MAX_MONEY = 100
  MAX_EPOCH = 9
  SequencerKey = "s1"
  GenesisPredicate = "k0"
  CheckpointGenesisHeight = 1
  MAX_PENDING_PREDICATE_TRANSITIONS = 2
  MAX_DESTINATION_LEN = 2
  denomination = 10
  assignment_duration = 1
  operator_fee = 1
  recovery_delay = 4
  SafeHarborConfig <- McSafeHarbor
  Blocks <- PegBlocks
  L1Txs <- PegTxs
  ConfirmationDepths <- PegDepths
  OperatorKeys <- PegOperators
INVARIANTS
  NoHalt
  AssignmentsSound
  OperatorHistory
PROPERTIES
  HeldUntilDeadline
  PegKept
