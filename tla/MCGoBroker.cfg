\* Two calls on employees and two subscribers that come, read and go as they like.
SPECIFICATION FairSpec
CONSTANTS
    Calls = {m1, m2}
    Subs = {s1, s2}
    EmployeeIds = {1, 2}
    Emails = {a, b}
    Middles = {}
    Blank = Blank
    a = a
    b = b
    Inputs <- BrokerInputs
    Cap = 1
    DefaultLimit = 1
    StartTables <- NoRows
    Nil = Nil
INVARIANTS
    NoSendOnClosed
    InOrderOnce
    Accounted
PROPERTIES
    CallsAnswered
