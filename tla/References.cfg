SPECIFICATION RefSpec
CONSTANTS
    Scopes <- MCScopes
    Written <- MCWritten
    MaxNesting = 3
INVARIANTS
    MembersAreAccounted
    AnchorIsNotAlone
PROPERTY CommandsAreExact
CHECK_DEADLOCK FALSE
