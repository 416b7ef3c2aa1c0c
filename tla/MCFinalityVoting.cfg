CONSTANTS
    EPOCH_BLOCKS = 4
    CHECKPOINT_INTERVAL = 2
    MIN_VALIDATOR_COUNT = 4
    MAX_FINALITY_VALIDATOR_COUNT = 6
    CONSENSUS_SECURITY_UPGRADE_HEIGHT = 0
    NoHash = NoHash
    NoVote = NoVote
    v1 = v1
    v2 = v2
    v3 = v3
    v4 = v4
    Validator <- MCValidator
    Faulty <- MCFaulty
    Checkpoint <- MCCheckpoint
    Ancestors <- MCAncestors
    Members <- MCMembers
SYMMETRY Symmetry
SPECIFICATION Spec
INVARIANTS
    Agreement
    NeverSlashable
    JustifiedLineage
    VotingInv
CHECK_DEADLOCK FALSE
