SPECIFICATION Spec
CONSTANTS
    f1 = f1
    f2 = f2
    pa = pa
    pb = pb
    pc = pc
    a = a
    b = b
    Fuzzer <- MCFuzzer
    Prog <- MCProg
    Elem <- MCElem
    Real <- MCReal
    Simpler <- MCSimpler
    MaxPrio = 1
    Batch = 1
    SplitSize = 1
    MaxExec = 2
    MaxCrashes = 1
    MaxGiveUps = 1
SYMMETRY MCSymmetry
INVARIANTS
    MaxSignalReaches
    NewSignalReported
    CorpusClaimsSignal
    LossAccounted
