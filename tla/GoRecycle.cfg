\* A recycled connection does not enforce foreign keys.
SPECIFICATION Spec
CONSTANTS
    MaxRowid = 2
    MaxHistory = 2
    Names = {n1, n2}
    n1 = n1
    n2 = n2
    Reqs = {r1, r2}
    IntBound = 8
    Jobs <- ProbeJobs
    FaultKinds = {"recycle"}
    MaxFaults = 1
    Free = Free
INVARIANT ReferencesHold
