CONSTANTS
    lib1 = lib1
    lib2 = lib2
    app = app
    nsN = nsN
    nsK = nsK
    nsOwn = nsOwn
    clsC = clsC
    clsD = clsD
    clsP = clsP
    memY = memY
    varV = varV
    Node <- Nodes
    File <- Files
    Name <- Segments
    Graphs <- AllGraphs
    Searches <- AllSearches
    Letters <- MCLetters
    Uris <- MCUris
    Places <- MCPlaces
    ContextLines = 4
    FileLines = 20

SPECIFICATION ISpec
CHECK_DEADLOCK FALSE
INVARIANTS
    TypeOK
    FindsReachable
    ResultsJustified
    UsesFound
    AnswerIsCanonical
    SnippetShowsStart
