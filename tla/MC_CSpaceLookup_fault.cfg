CONSTANTS
    o1 = o1
    o2 = o2
    NoObj = NoObj
    Objs <- MC_Objs
    ObjRadix <- MC_ObjRadix
    WordRadix = 2
    CapChoices <- MC_CapChoices
    RootChoices <- MC_RootChoices
    OverflowChecks = FALSE

SPECIFICATION Spec

INVARIANT CNodeOpKeepsLookupFault
