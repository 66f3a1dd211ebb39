SPECIFICATION LiveSpec
CONSTANTS
    q1 = q1
    q2 = q2
    c1 = c1
    c2 = c2
    c3 = c3
    t1 = t1
    n1 = n1
    Proc <- MCProc
    Candidates <- MCCandidates
    Tasks <- MCTasks
    Found <- MCFound
    Batch = 1
INVARIANTS
    WorkConserved
    NoLostWakeup
PROPERTIES
    CandidatesDone
    TasksRun
