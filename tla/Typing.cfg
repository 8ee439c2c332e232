SPECIFICATION Spec
CONSTANTS
    AppleKeyCodes = {a, b}
    a = a b = b
    UnicodeChars = {x, y}
    x = x y = y
    ModifierBits = {shift}
    shift = shift
    Entries <- MCEntries
    BufferSize = 3
    Garbage = {0, 2, 7}
    None = None
INVARIANTS NoStuckModifiers
PROPERTIES ImplementsFifo
