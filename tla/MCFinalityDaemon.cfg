CONSTANTS
    EPOCH_BLOCKS = 4
    CHECKPOINT_INTERVAL = 2
    MIN_VALIDATOR_COUNT = 4
    MAX_FINALITY_VALIDATOR_COUNT = 9
    CONSENSUS_SECURITY_UPGRADE_HEIGHT = 0
    NoHash = NoHash
    Me = Me
    o1 = o1
    o2 = o2
    o3 = o3
    a = a
    b = b
    c = c
    NoVote = NoVote
    NoQc = NoQc
    NoGrant = NoGrant
    ChainLength = 11
    ForkHeight = 6
    StartTip = 8
    MaxFinalizedHeight = 8
    MaxReorgs = 1
    MaxReorgsPerTick = 1
    MaxCrashes = 1
    Others <- MCOthers
    Branch <- MCBranch
    Members <- MCMembers
SYMMETRY Symmetry
SPECIFICATION Spec
INVARIANTS
    TypeOK
PROPERTIES
    ImplementsVoting
CHECK_DEADLOCK FALSE
