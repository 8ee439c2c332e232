SPECIFICATION KeyboardSpec
CONSTANTS
    a = a plain = plain shifted = shifted
    Protocols <- MCProtocols
    KeyDatas <- MCKeyDatas
    DataBufferSize = 3
    Preemption = FALSE
    NotReady = NotReady
INVARIANTS KeyboardTypeOK HooksAreBacked AllOrNothing
PROPERTIES DataImplementsFifo
CHECK_DEADLOCK FALSE
