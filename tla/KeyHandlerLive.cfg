SPECIFICATION LiveSpec
CONSTANTS
    x = x  caps = caps shift = shift NoKey = NoKey
    KeyCodes = {x, caps}
    CLock = caps
    Letters = {x}
    ModifierBits = {shift}
    Shift = shift
    InfoSize = 2
    mKeyInitialDelay = 1
    mKeySubsequentDelay = 1
    MaxHeld = 2
    Draining = TRUE
    MaxConIn = 0
    AllocationsFail = FALSE
PROPERTIES KeysSettle
CHECK_DEADLOCK FALSE
