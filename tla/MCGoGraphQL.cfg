\* Two operations that race for the same employees, with a subscriber.
SPECIFICATION GraphSpec
CONSTANTS
    Ops = {o1, o2}
    MaxFields = 2
    Calls <- AllFields
    Docs <- AllDocs
    Subs = {s1}
    EmployeeIds = {1, 2}
    Emails = {a, b}
    Middles = {n1, n2}
    Blank = Blank
    a = a
    b = b
    n1 = n1
    n2 = n2
    Inputs <- AllInputs
    Cap = 1
    DefaultLimit = 1
    StartTables <- OneRow
    MaxGone = 1
    Nil = Nil
SYMMETRY Symmetry
INVARIANTS
    GraphTypeOK
    AnnouncedIffAnswered
    DataConforms
PROPERTIES
    OnlyInsertCreates
    IsolatedRunsAreSequential
    UnnamedColumnsWereThere
