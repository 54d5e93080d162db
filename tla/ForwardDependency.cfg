SPECIFICATION Spec
CONSTANTS
    Key <- MCKey
    Requests <- MCPairs
    Nothing = Nothing
INVARIANT SoundRequestSaved
CHECK_DEADLOCK FALSE
