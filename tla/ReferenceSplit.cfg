SPECIFICATION RefSpec
CONSTANTS
    Scopes <- MCScopes
    Written <- MCWritten
    MaxNesting = 3
INVARIANT SplitsAreWhole
CHECK_DEADLOCK FALSE
