CONSTANTS
    t1 = t1
    t2 = t2
    t3 = t3
    Idle = Idle
    NULL = NULL
    Threads <- MC_Threads
    InitThread = t1
    ThreadDomain <- MC_OneDomain
    WordRadix = 1
    NumPriorities = 4
    NumDomains = 2
    CurDomain = 0
    MaxOps = 2
    PrioChoices <- MC_PrioChoices

SPECIFICATION Spec
SYMMETRY MC_Symmetry


INVARIANT TypeOK
INVARIANT ReadyQueuesWellFormed
INVARIANT BitmapMatchesQueues
 
INVARIANT CurrentThreadActive
INVARIANT QueueOpsAreFifo

PROPERTY ChoosesHighestReady
PROPERTY ReadyQueuesFIFO
