SPECIFICATION MCSpec
CONSTANTS
    S = S
    W = W
    u1 = u1
    u2 = u2
    w = w
    Sig <- MCSig
    Addr <- MCAddr
    Call = {0, 1, 2, 33}
    NumberDominatorInstructions <- MCDom
INVARIANTS
    CoverageAgrees
    MapsAgree
    OnlyWriteSigFatal
    TasksKnown
    BudgetBound
PROPERTIES
    AddressLifecycle
CHECK_DEADLOCK FALSE
