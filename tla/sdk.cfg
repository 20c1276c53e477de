CONSTANTS
    f1 = f1
    f2 = f2
    f3 = f3
    pa = pa
    pb = pb
    File <- MCFile
    Inputs <- MCInputs
    Name <- MCName
    PaketOf <- MCPaketOf

SPECIFICATION PSpec
CHECK_DEADLOCK FALSE
INVARIANTS
    TypeOK
    CountIsStored
    PathMeansComplete
    SdkServed
    EarliestChosen
    ReaderAgrees
    PackagesServed
    GraphHasStore
