SPECIFICATION Spec
CONSTANTS
    NPROC = 7
    NFILE = 8
    NOFILE = 8
    NINODES = 14
    PIPESIZE = 2
    MAXFILE = 15
    DIRSIZ = 14
    MAXARGS = 3
    REPEAT = 2
    ROUNDS = 4
    NCHILD = 2
    SZ = 2
    Tokens <- Alphabet
    MaxTokens = 2
    Lines <- ShortLines
    Sessions <- SomeSessions
    Programs <- AllPrograms
INVARIANTS NoTestFails NeverStuck ParsesGrammar WiredAsWritten
