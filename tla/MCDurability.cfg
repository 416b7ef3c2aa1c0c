SPECIFICATION SuiteSpec
CONSTANTS
    Me = Me
    o1 = o1
    o2 = o2
    o3 = o3
    a = a
    b = b
    c = c
    NoHash = NoHash
    NoVote = NoVote
    NoQc = NoQc
    NoGrant = NoGrant
    EPOCH_BLOCKS = 4
    CHECKPOINT_INTERVAL = 2
    MIN_VALIDATOR_COUNT = 4
    MAX_FINALITY_VALIDATOR_COUNT = 9
    CONSENSUS_SECURITY_UPGRADE_HEIGHT = 0
    ChainLength = 9
    ForkHeight = 6
    StartTip = 7
    MaxFinalizedHeight = 6
    MaxReorgs = 2
    MaxReorgsPerTick = 2
    MaxCrashes = 1
    Others <- MCOthers
    Branch <- MCBranch
    Members <- MCMembers
SYMMETRY Symmetry
INVARIANTS
    ReleasedIsRemembered
    ReleasedNeverSlashable
    ReleasedPrecommitsLocked
    VoteFileSound
    EndorsementsSafe
    StoreSound
PROPERTIES
    DurableTipAdvances
CHECK_DEADLOCK FALSE
