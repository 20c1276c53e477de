CONSTANTS
    a = a
    b = b
    Names <- TwoNames
    TokenKinds = {"star", "name"}
    MaxTokens = 2
    MaxSegments = 3
    Queries <- AllQueries
    Symbols <- AllSymbols

SPECIFICATION Spec
CHECK_DEADLOCK FALSE
INVARIANTS
    NamespaceAdmitted
