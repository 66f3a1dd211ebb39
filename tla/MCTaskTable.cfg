CONSTANTS
    Task = {t1}
    Addr = {a, b}
    Fuzzer = {f}
    TaskQueueNumber = 1
    TaskCountLimitation = 2
    MaxSends = 1
    MaxAdds = 2
    MaxChecks = 1
    MaxWork = 1
SPECIFICATION LiveSpec

INVARIANTS
    TypeOK
    AssertionsHold
PROPERTIES
    RenewedIsSent
    
CHECK_DEADLOCK FALSE
