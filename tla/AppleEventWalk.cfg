SPECIFICATION Spec
CONSTANTS
    Handles = {h1, h2, h3}
    Nil = Nil
    MaxQueue = 2
    MaxTimers = 2
SYMMETRY Symmetry
INVARIANT NodesAreHandles
CHECK_DEADLOCK FALSE
