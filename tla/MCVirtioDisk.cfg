CONSTANTS
    NUM = 8
    Modulus = 16
    Procs = {p1, p2, p3}
    None = None
SPECIFICATION Spec
SYMMETRY Symmetry
INVARIANTS Inv SleepersJustified
PROPERTIES ImplementsRequests
