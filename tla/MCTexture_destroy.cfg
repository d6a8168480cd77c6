CONSTANTS
    Slots = {1, 2}
    MaxVersion = 3
    FormatMatches = {TRUE}
    TileModes = {"Block"}
SPECIFICATION DestroySpec
INVARIANT NoFault
CHECK_DEADLOCK FALSE
