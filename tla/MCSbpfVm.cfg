SPECIFICATION Spec
CONSTANTS
    ByteBits = 2
    StackBase = 256
    StackLen = 8
    HeapBase = 768
    HeapLen = 76
    Builds <- MCBuilds
    MAX_CALL_DEPTH = 2
    NoJournal = NoJournal
    NotTested = NotTested
    Predicates <- BalancePredicates
    Cases <- MCCases
CHECK_DEADLOCK FALSE
INVARIANTS
    TypeOK
    MemoryConfined
    ReturnPoints
    HostsAgree
    TestedIsProved
PROPERTIES
    StoreReadsBack
    Termination
    JumpsLand
    SignsWiden
