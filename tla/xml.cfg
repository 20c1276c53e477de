CONSTANTS
    Part <- MCPart
    Events <- MCEvents
    MaxEvents = 4
    BeforeParen <- MCBeforeParen
    BeforeHash <- MCBeforeHash
    CtorParts <- MCCtorParts
    FileName <- MCFileName

SPECIFICATION Spec
CHECK_DEADLOCK FALSE
INVARIANTS
    TypeOK
    MembersDeclared
    MembersReachable
    TreesClimb
