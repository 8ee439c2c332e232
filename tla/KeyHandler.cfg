SPECIFICATION Spec
CONSTANTS
    x = x y = y caps = caps shift = shift NoKey = NoKey
    KeyCodes = {x, y, caps}
    CLock = caps
    Letters = {x}
    ModifierBits = {shift}
    Shift = shift
    InfoSize = 2
    mKeyInitialDelay = 1
    mKeySubsequentDelay = 2
    MaxHeld = 3
    Draining = TRUE
    MaxConIn = 1
    AllocationsFail = TRUE
INVARIANTS TypeOK EventsAddUp
PROPERTIES ReleasedOnce CapsTogglesOnce 
CHECK_DEADLOCK FALSE
