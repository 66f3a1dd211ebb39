SPECIFICATION FairSpec
CONSTANTS
    S = S
    W = W
    c = c
    u = u
    v = v
    w = w
    NoMsg = NoMsg
    Sig <- MCSig
    Addr <- MCAddr
    Call = {1, 2}
    NumberDominatorInstructions <- MCDom
    Branch <- MCBranch2
    Mods <- MCMods2
    InputRelated <- MCInputRelated2
    NewInputs <- MCNewInputs2
    MaxLost = 1
INVARIANTS
    ReceivedChecked
    WritersKnown
    FrontierExact
    TaskPurpose
PROPERTIES
    EveryInputAnalysed
    EveryBranchReported
CHECK_DEADLOCK FALSE
