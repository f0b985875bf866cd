\* A client reads all pages while rows come, change and go.
SPECIFICATION Spec
CONSTANTS
    MaxId = 3
    Sizes = {0, 1, 2}
    Filters = {"all", "FAILED"}
INVARIANTS
    TypeOK
    WalkComplete
    NoRepeats
    WalkBounded
    StatsHoldUp
PROPERTIES
    PollsSeeOneLife
