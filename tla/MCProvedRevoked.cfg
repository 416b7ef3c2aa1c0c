SPECIFICATION SuiteSpec
CONSTANTS
    h1 = h1
    h2 = h2
    f = f
    a = a
    b = b
    NoHash = NoHash
    t1 = t1
    t2 = t2
    t3 = t3
    NoToken = NoToken
    m1 = m1
    m2 = m2
    Tokens <- MCTokens
    Miners <- MCMiners
    LocalTtl = 2
    RemoteTtl = 3
    SigningMargin = 1
    HardStop = 4
    MAX_ACTIVE = 2
    MAX_SPENT = 2
    MaxTip = 1
    MaxTime = 5
    MaxIds = 3
    MaxChanges = 2
    MaxEpoch = 2
    Honest <- MCHonest
    Faulty <- MCFaulty
    Hashes <- MCHashes
    HonestTarget <- MCTarget
    EPOCH_BLOCKS = 4
    CHECKPOINT_INTERVAL = 2
    MIN_VALIDATOR_COUNT = 4
    MAX_FINALITY_VALIDATOR_COUNT = 4
    CONSENSUS_SECURITY_UPGRADE_HEIGHT = 0
    VoteHeights = {2, 8, 10}
    VotePhases = {1, 2}
    MAX_POOL_VOTES = 8
    MAX_PENDING_VOTES = 2
    MAX_COMPLETED_PAIRS = 1
    FINALITY_EQUIV_EVIDENCE_WINDOW = 3
    StartHeight = 4
    MaxHeight = 11
    MaxReorgs = 2
    MaxInFlight = 2
    MaxFaults = 2
    MaxRestarts = 1
INVARIANTS
    ProvedStaysRevoked
CHECK_DEADLOCK FALSE
