\* Three connections over the whole life of a process.
SPECIFICATION Spec
CONSTANTS
    Conns = {c1, c2, c3}
    Requests <- AllRequests
    Envs <- AllEnvs
    BadPorts <- NoPorts
    BadUrls = {"bad"}
    Key = "k"
    NotANumber = NotANumber
    Nil = Nil
INVARIANTS
    TypeOK
    CleanExitDrains
    HandlersHaveTheDb
PROPERTIES
    NothingNewInShutdown
    SignalEnds
