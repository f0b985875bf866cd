\* The target tables under every kind of item and health probes.
SPECIFICATION Spec
CONSTANTS
    MaxRowid = 2
    MaxHistory = 3
    Names = {n1, n2}
    n1 = n1
    n2 = n2
    Reqs = {r1, r2, r3, r4}
    IntBound = 8
    Jobs <- DataJobs
    FaultKinds = {}
    MaxFaults = 0
    Free = Free
SYMMETRY Symmetry
INVARIANTS
    TypeOK
    TablesConsistent
    ReferencesHold
