\* Two syncs on a pool of two connections, with three retries and deletions; any
\* statement and any COMMIT may fail, and the process may die at any step.
SPECIFICATION Spec
CONSTANTS
    Syncs = {s1, s2}
    Calls = {c1, c2, c3}
    Pool = {k1, k2}
    Nil = Nil
    Faults = {"statement", "crash"}
INVARIANTS
    PoolSound
    SuccessMeansApplied
    ResponseTruthful
    PendingExplained
PROPERTIES
    SyncsAnswered
