CONSTANTS
    a = a
    b = b
    Names <- TwoNames
    TokenKinds = {"star", "name", "group", "open", "close"}
    MaxTokens = 4
    MaxSegments = 4
    Queries <- AllQueries
    Symbols <- AllSymbols

SPECIFICATION Spec
CHECK_DEADLOCK FALSE
INVARIANTS
    TypeOK
    MatchIsGlob
    GlobIsMatched
    SymbolAgrees
    PrefixAdmitted
    PartPerKept
PROPERTIES
    Decides
