SPECIFICATION RewardSpec
CONSTANTS
    n1 = n1
    n2 = n2
SYMMETRY LedgerSymmetry
INVARIANTS
    MissedSealQuarantined
CHECK_DEADLOCK FALSE
