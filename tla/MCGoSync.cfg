\* The ledger protocol under disconnects, failing statements and crashes.
SPECIFICATION Spec
CONSTANTS
    MaxRowid = 2
    MaxHistory = 3
    Names = {n1, n2}
    n1 = n1
    n2 = n2
    Reqs = {r1, r2, r3, r4}
    IntBound = 8
    Jobs <- ProtocolJobs
    FaultKinds = {"gone", "stmt", "crash", "recycle"}
    MaxFaults = 1
    Free = Free
SYMMETRY Symmetry
INVARIANTS
    LedgerTruthful
    ResponseTruthful
    RowIsOwn
    AuditTrail
    DeletedOnce
    OutcomeRecorded
    ReasonIffFailed
PROPERTIES
    AtomicBatches
    SuccessFinal
    ImplementsLedger
