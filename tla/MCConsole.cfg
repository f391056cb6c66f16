CONSTANTS
    p1 = p1
    p2 = p2
    Procs = {p1, p2}
    Intr = Intr
    None = None
    INPUT_BUF_SIZE = 3
    UART_TX_BUF_SIZE = 2
    UINT = 6
    UINT64 = 4
    FIFO = 3
    MaxRx = 1
    MaxCount = 2
    Loads <- InputAndOutput
SPECIFICATION Spec
INVARIANTS SleepersJustified OutputMoves NoOverrun
PROPERTIES ImplementsTerminal
