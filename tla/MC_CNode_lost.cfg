\* The kernel stops only at a panic (halt # "none"), which
\* DeleteNeverPanics rules out; in every other state both threads can
\* invoke an operation or replay one.
CHECK_DEADLOCK FALSE
CONSTANTS
    t1 = t1
    t2 = t2
    a = a
    b = b
    c = c
    d = d
    e = e
    NoSlot = NoSlot
    NoObj = NoObj
    Threads <- MC_Threads
    CNodeObjs <- MC_CNodeObjs
    EpObjs <- MC_EpObjs
    Base <- MC_Base
    Size <- MC_Size
    NSlots = 12
    RootSlot <- MC_RootSlot
    CallerSlot <- MC_CallerSlot
    InitCaps <- MC_InitCaps
    Badges <- MC_Badges
    CONFIG_MAX_NUM_WORK_UNITS_PER_PREEMPTION = 2
    Arrivals <- MC_Arrivals
    Fuel = 12
SPECIFICATION Spec
CONSTRAINT BadgeBound
INVARIANT TransferReportsOutcome
