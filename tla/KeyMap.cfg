SPECIFICATION Spec
CONSTANTS
    a = a b = b
    KeyCodes = {a, b}
    ModifierBits = {shift}
    shift = shift
    Readers = {4, 8}
    BufferLengths = {1, 2}
    CallerSizes <- MCCallerSizes
    Queries <- MCQueries
    FirstIndex = 3000
    DbKeyCodesSize = 8
    MaxCreates = 3
    MaxTotalLength = 2
INVARIANTS TypeOK   QuietCallIsExact
CHECK_DEADLOCK FALSE
SYMMETRY KeySymmetry
