\* Every request is answered.
SPECIFICATION FairSpec
CONSTANTS
    MaxRowid = 2
    MaxHistory = 3
    Names = {n1, n2}
    n1 = n1
    n2 = n2
    Reqs = {r1, r2, r3}
    IntBound = 8
    Jobs <- FewJobs
    FaultKinds = {"gone"}
    MaxFaults = 2
    Free = Free
PROPERTY AllAnswered
