CONSTANTS
    i1 = i1
    i2 = i2
    n1 = n1
    n2 = n2
    e1 = e1
    e2 = e2
    a = a
    b = b
    x = x
    csproj = csproj
    home = home
    Sdk = sdk
    Nobody = nobody
    NoProject = noProject
    NoGraph = noGraph
    Inits = {i1, i2}
    Evals = {}
    Notifies = {}
    Sources = {a}
    ProjectFiles = {csproj}
    Deps = {}
    Locations = {home}
    Under <- OneDirectory
    InitLoc <- AllHome
    Changed <- NotifyNone
    SdkKinds = {"none"}
    SdkInTemp = FALSE
    Faults = {}
    MaxVer = 1
    MaxCrashes = 0

SPECIFICATION Spec
PROPERTIES
    InitLoadsItsProject
