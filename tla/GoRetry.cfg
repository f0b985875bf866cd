\* Nobody processes a retried row.
SPECIFICATION FairSpec
CONSTANTS
    MaxRowid = 2
    MaxHistory = 2
    Names = {n1, n2}
    n1 = n1
    n2 = n2
    Reqs = {r1, r2}
    IntBound = 8
    Jobs <- RetryJobs
    FaultKinds = {}
    MaxFaults = 0
    Free = Free
PROPERTY RetryIsAttempted
