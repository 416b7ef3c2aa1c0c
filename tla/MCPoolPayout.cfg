SPECIFICATION Spec
CONSTANTS
    n1 = n1
    n2 = n2
    c = c
    w = w
    r1 = r1
    r2 = r2
SYMMETRY PayoutSymmetry
INVARIANTS
    BooksBalance
    RequestsTakeEffectOnce
    NoDeadlock
PROPERTIES
    SignaturesAuthorized
CHECK_DEADLOCK FALSE
