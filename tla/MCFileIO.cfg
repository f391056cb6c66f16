CONSTANTS
    Procs = {1, 2}
    initproc = 1
    Inodes = {1}
    FSBLOCKS = 3
    Others = {{}, {3}}
    BSIZE = 2
    NDIRECT = 1
    BPB = 1
    MAXOPBLOCKS = 6
    NFILE = 2
    NOFILE = 2
    Opens <- OneFile
    Counts = {3}
    Faulty = {2}
    MaxDescs = 3
SPECIFICATION Spec
INVARIANTS BlocksAccounted FileRefs TransactionFits
PROPERTIES ImplementsFiles
