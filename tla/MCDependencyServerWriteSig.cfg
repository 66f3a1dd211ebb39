SPECIFICATION Spec
CONSTANTS
    S = S
    W = W
    c = c
    u = u
    v = v
    w = w
    NoMsg = NoMsg
    Sig <- MCSig
    Addr <- MCAddr
    Call = {1, 2}
    NumberDominatorInstructions <- MCDom
    Branch <- MCBranch
    Mods <- MCMods
    InputRelated <- MCInputRelated
    NewInputs <- MCNewInputs
    MaxLost = 0
INVARIANT
    WriteSigFound
CHECK_DEADLOCK FALSE
