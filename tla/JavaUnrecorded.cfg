\* Two syncs on a pool of two connections.
SPECIFICATION Spec
CONSTANTS
    Syncs = {s1, s2}
    Calls = {}
    Pool = {k1, k2}
    Nil = Nil
    Faults = {}
INVARIANT AttemptsRecorded
