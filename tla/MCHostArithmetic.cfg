CONSTANTS
    SizeTBits = 16
    Throw = Throw
    Chars = {0, 47, 48, 57, 58, 64, 65, 70, 71, 96, 97, 102, 103}
    MaxLen = 3
    PairChars = {48, 58, 70, 97, 103}
    AlignBits = 8
    Multiples = {1, 2, 3, 4, 6, 8, 128}
    PageSize = 2
    BaseData = 2
    BaseSize = 8
    MaxMappings = 3
SPECIFICATION Spec
INVARIANTS HexStringToIntMatches HexStringToArrayMatches AlignmentMatches MirrorAliasesGuest
CHECK_DEADLOCK FALSE
