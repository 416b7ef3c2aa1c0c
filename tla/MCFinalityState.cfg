CONSTANTS
    EPOCH_BLOCKS = 2
    CHECKPOINT_INTERVAL = 2
    MIN_VALIDATOR_COUNT = 2
    MAX_FINALITY_VALIDATOR_COUNT = 3
    CONSENSUS_SECURITY_UPGRADE_HEIGHT = 5
    NoHash = NoHash
    SNAPSHOT_RETENTION = 2
    MAX_REORG_DEPTH = 4
    MaxHeight = 7
    MaxForks = 2
    SnapshotSets <- MCSnapshotSets
SPECIFICATION Spec
INVARIANTS
    StateConsistent
    WindowSetsRetained
    TemplateMatchesRules
PROPERTIES
    FinalizedNeverReverted
    AuthorizationPermanent
    SupersededAuthorizes
CHECK_DEADLOCK FALSE
