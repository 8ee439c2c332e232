SPECIFICATION Spec
CONSTANTS
    Handles = {h1, h2, h3}
    Nil = Nil
    MaxQueue = 1
    MaxTimers = 2
SYMMETRY Symmetry
INVARIANT TypeOK
INVARIANT HandlersStay
INVARIANT TimersMatchHandlers
 
PROPERTY NoLateCall
CHECK_DEADLOCK FALSE
