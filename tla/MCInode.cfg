CONSTANTS
    p1 = p1
    p2 = p2
    a = a
    b = b
    Names = {a, b}
    Procs <- TwoProcs
    NInodes = 3
    NINODE = 3
    Loads <- TwoLoads
    Helds = {{}, {2}}
    None = None
SPECIFICATION Spec
INVARIANTS Inv NoDangling
PROPERTIES OpenStays
