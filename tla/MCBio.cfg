CONSTANTS
    Bufs = {b1, b2}
    Blocks = {k1, k2, k3}
    Data = {d1, d2}
    Procs = {p1, p2}
    MaxPins = 1
    None = None
SPECIFICATION FairSpec
INVARIANTS Inv
PROPERTIES ImplementsBlockCache BreadReturns
