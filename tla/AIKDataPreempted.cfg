SPECIFICATION DataSpec
CONSTANTS
    a = a b = b plain = plain shifted = shifted
    KeyDatas <- MCKeyDatas
    DataBufferSize = 2
    Preemption = TRUE
    NotReady = NotReady
INVARIANTS RespondsWithStoredKeys
