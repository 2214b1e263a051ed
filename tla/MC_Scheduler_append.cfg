CONSTANTS
    t1 = t1
    t2 = t2
    t3 = t3
    Idle = Idle
    NULL = NULL
    Threads <- MC_Threads
    InitThread = t1
    ThreadDomain <- MC_ThreadDomain
    WordRadix = 1
    NumPriorities = 4
    NumDomains = 2
    CurDomain = 0
    MaxOps = 2
    PrioChoices <- MC_PrioChoices

SPECIFICATION SpecWithYield


INVARIANT ReadyQueuesWellFormed
