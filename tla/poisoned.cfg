CONSTANTS
    i1 = i1
    i2 = i2
    n1 = n1
    n2 = n2
    e1 = e1
    e2 = e2
    a = a
    b = b
    x = x
    csproj = csproj
    home = home
    Sdk = sdk
    Nobody = nobody
    NoProject = noProject
    NoGraph = noGraph
    Inits = {i1}
    Evals = {e1}
    Notifies = {n1}
    Sources = {a}
    ProjectFiles = {csproj}
    Deps = {}
    Locations = {home}
    Under <- OneDirectory
    InitLoc <- AllHome
    Changed <- NotifyA
    SdkKinds = {"none"}
    SdkInTemp = FALSE
    Faults = {"panic"}
    MaxVer = 2
    MaxCrashes = 0

SPECIFICATION Spec
PROPERTIES
    NotifyPublishes
