SPECIFICATION Spec
CONSTANTS
    p1 = p1
    p2 = p2
    p3 = p3
    NoProc = NoProc
    Proc <- MCProc3
    Slots = 6
    HasF = TRUE
INVARIANTS
    NotBroken
    Window
    CallbackAlone
    BatchBound
PROPERTIES
    EverySleeperWoken
