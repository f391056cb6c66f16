CONSTANTS
    PIPESIZE = 2
    Modulus = 4
    Bytes = {b1, b2}
    Readers = {r1, r2}
    Writers = {w1, w2}
    MaxCount = 2
    None = None
SPECIFICATION Spec
SYMMETRY Symmetry
INVARIANTS SleepersJustified
PROPERTIES ImplementsStream
