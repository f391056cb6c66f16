CONSTANTS
    CPUs = {c1, c2, c3}
    NLOCK = 2
    None = None
SPECIFICATION Spec
SYMMETRY Symmetry
INVARIANTS MutualExclusion InterruptsRestored WaitsInOrder
