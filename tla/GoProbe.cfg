\* An order keeps a health probe's customer alive.
SPECIFICATION Spec
CONSTANTS
    MaxRowid = 2
    MaxHistory = 2
    Names = {n1, n2}
    n1 = n1
    n2 = n2
    Reqs = {r1, r2}
    IntBound = 8
    Jobs <- ProbeJobs
    FaultKinds = {}
    MaxFaults = 0
    Free = Free
INVARIANT ProbeCleanedUp
