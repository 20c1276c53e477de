CONSTANTS
    i1 = i1
    i2 = i2
    n1 = n1
    n2 = n2
    e1 = e1
    e2 = e2
    a = a
    b = b
    x = x
    csproj = csproj
    home = home
    Sdk = sdk
    Nobody = nobody
    NoProject = noProject
    NoGraph = noGraph
    Inits = {i1}
    Evals = {e1, e2}
    Notifies = {n1, n2}
    Sources = {a, b}
    ProjectFiles = {csproj}
    Deps = {}
    Locations = {home}
    Under <- OneDirectory
    InitLoc <- AllHome
    Changed <- NotifyAB
    SdkKinds = {"none"}
    SdkInTemp = FALSE
    Faults = {"broken"}
    MaxVer = 2
    MaxCrashes = 0

SPECIFICATION Spec
SYMMETRY AlikeEvals
INVARIANTS
    ReadYourNotify
    ServedGraphMatchesStore
PROPERTIES
    ReadsStayFresh
    NotifyPublishes
    GraphNeverRegresses
    InitServesDisk
