SPECIFICATION Spec
CONSTANTS
    n1 = n1
    n2 = n2
SYMMETRY LedgerSymmetry
INVARIANTS
    JournalSound
    WorkAccounted
    IncomesSettled
    SharesExact
PROPERTIES
    ImplementsServiceLog
CHECK_DEADLOCK FALSE
