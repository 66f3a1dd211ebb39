SPECIFICATION LiveSpec
CONSTANTS
    f1 = f1
    f2 = f2
    pa = pa
    pb = pb
    pc = pc
    px = px
    a = a
    b = b
    Fuzzer <- MCFuzzer
    Prog <- MCProg
    Elem <- MCElem
    Real <- MCReal
    Simpler <- MCSimpler
    Broken <- MCBroken
    Configs <- MCConfigs
    FirstDb <- MCFirstDb
    HubProgs <- MCHubProgs
    FirstVersion = 1
    MaxPrio = 0
    BatchSize = 1
    Procs = 1
    MaxCrashes = 1
    MaxRestarts = 1
    MaxFinds = 1
    MaxHub = 1

INVARIANTS
    ClaimsSurvive
    HandedTwice
PROPERTIES
    DisabledKept
    ReproPhaseReached
