CONSTANTS
    NPAGES = 23
    PGSIZE = 4
    NPTE = 3
    LEVELS = 3
    NPROC = 2
    Programs <- TwoPrograms
    Argvs <- ThreeArgvs
    Grows <- GrowAndShrink
    MAXARG = 3
    ALIGN = 1
    U64 = 1024
    MaxSz = 16
    MaxPipes = 16
SPECIFICATION Spec
VIEW View
INVARIANTS PagesAccounted AddressSpace UserCopies FailureHarmless
PROPERTIES Isolation
