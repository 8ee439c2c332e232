SPECIFICATION Spec
CONSTANTS
    x = x y = y
    Chars = {x, y}
    upper = upper none = none escCode = escCode upperCode = upperCode
    leftShift = leftShift leftGui = leftGui
    modLeftShift = modLeftShift modLeftGui = modLeftGui
    KeyDatas <- MCKeyDatas
    KeyCodes <- MCCodes
    UsbHidUndefined = UsbHidUndefined
    Ps2KeyToUsb <- MCPs2KeyToUsb
    AsciiToUsb <- MCAsciiToUsb
    ScanCodeToUsb <- MCScanCodeToUsb
    ModifierRemap <- MCModifierRemap
    DataBufferSize = 1
    Preemption = FALSE
    NotReady = NotReady
    TargetBufferSize = 3
    PollLimit = 3
    KeyForgotThreshold = 2
    MaxPolls = 5
INVARIANTS KeysDistinct NoStuckKey NoStuckModifier SeenKeysSubmitted
SYMMETRY CharSymmetry
CHECK_DEADLOCK FALSE
