CONSTANTS
    Blocks = {b1, b2, b3}
    Data = {d1, d2}
    Procs = {p1, p2}
    LOGSIZE = 8
    MAXOPBLOCKS = 4
    nlog = 8
    OpBlocks = 2
    NotCached = NotCached
    Torn = Torn
    None = None
SPECIFICATION Spec
SYMMETRY Symmetry
INVARIANTS QuiescentDurable Reservation SleeperHasWaker
PROPERTIES ImplementsTxDisk WriteAhead
