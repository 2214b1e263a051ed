CONSTANTS
    h1 = h1
    h2 = h2
    ta = ta
    tb = tb
    n1 = n1
    n2 = n2
    NoNtfn = NoNtfn
    NoIdx = NoIdx
    Harts <- MC_TwoHarts
    Threads <- MC_Threads
    Ntfns <- MC_Ntfns
    Bound <- MC_Bound
    Vecs <- MC_Vecs
    ALLOCATE_ID_TO_RS_ID <- MC_ALLOCATE_ID_TO_RS_ID
    EntryNum = 2
    PoolNum = 3
SPECIFICATION Spec

INVARIANT NoLostUserInterrupt
