------------------------------ MODULE Console -------------------------------
(***************************************************************************)
(* The console: line editing and reading (kernel/console.c), the output    *)
(* ring and the polled output of the UART driver (kernel/uart.c), and the  *)
(* interrupt that serves both (devintr() of kernel/trap.c, kernel/plic.c). *)
(*                                                                         *)
(* Processes read(), write() and printf() on CPUs of their own; the PLIC   *)
(* lets one interrupt of the UART be served at a time.  A step is what     *)
(* runs between two points where another CPU or the device can come in.    *)
(* What consoleintr() does is one step up to its echo, during which it     *)
(* keeps cons.lock.                                                        *)
(***************************************************************************)
EXTENDS Integers, Sequences, FiniteSets

CONSTANTS
    Procs, Intr,       \* processes, and the interrupt handler
    None,
    INPUT_BUF_SIZE, UART_TX_BUF_SIZE,
    UINT, UINT64,      \* where the indices of either wrap around
    FIFO,              \* characters the transmitter can hold
    MaxRx,             \* characters the receiver holds for the driver
    MaxCount,          \* longest read() or write()
    Loads              \* who may read(), write() and printf(), and what is typed
ASSUME SizeAssumption ==
    /\ INPUT_BUF_SIZE \in Nat \ {0} /\ UART_TX_BUF_SIZE \in Nat \ {0}
    /\ UINT \in Nat /\ UINT > INPUT_BUF_SIZE /\ UINT % INPUT_BUF_SIZE = 0
    /\ UINT64 \in Nat /\ UINT64 > UART_TX_BUF_SIZE /\ UINT64 % UART_TX_BUF_SIZE = 0
ASSUME ActorAssumption == Intr \notin Procs /\ None \notin Procs \cup {Intr}

(* The characters that consoleintr() tells apart.                          *)
Keys == {"x", "cr", "nl", "D", "U", "H", "P", "nul"}
ASSUME KeysAssumption == \A l \in Loads : l.keys \subseteq Keys

VARIABLES
    cons,    \* cons: the buffer, its three indices, its lock
    tx,      \* uart_tx_buf, its indices and uart_tx_lock
    uart,    \* rx and thr: how many characters wait to be read or sent; irq: pending
    act,     \* where every process and the handler are
    killed,  \* p->killed
    load     \* what processes and the user do: one of Loads

vars == <<cons, tx, uart, act, killed, load>>

Actors == Procs \cup {Intr}
Idle == [pc |-> "idle", n |-> 0, some |-> FALSE]

Init ==
    /\ cons = [buf |-> [x \in 0 .. INPUT_BUF_SIZE - 1 |-> "nul"], r |-> 0, w |-> 0, e |-> 0, lock |-> None]
    /\ tx = [buf |-> [x \in 0 .. UART_TX_BUF_SIZE - 1 |-> None], r |-> 0, w |-> 0, lock |-> None]
    /\ uart = [rx |-> 0, thr |-> 0, irq |-> FALSE]
    /\ act = [a \in Actors |-> Idle]
    /\ killed = [p \in Procs |-> FALSE]
    /\ load \in Loads

Minus(x, y) == (x - y) % UINT
Plus(x, y) == (x + y) % UINT
Minus64(x, y) == (x - y) % UINT64
Plus64(x, y) == (x + y) % UINT64
At(a, pc) == act[a].pc = pc
Goto(a, pc) == [act EXCEPT ![a].pc = pc]

(* wakeup() of those asleep at from: they go on at to.                     *)
Woken(ac, from, to) == [a \in Actors |-> IF ac[a].pc = from THEN [ac[a] EXCEPT !.pc = to] ELSE ac[a]]

-----------------------------------------------------------------------------
(* The device.  An interrupt is pending once a character is received, and  *)
(* once the transmitter has become empty.  What was received is not looked *)
(* at before consoleintr(), and chosen there.                              *)

Receive ==
    /\ load.keys # {} /\ uart.rx < MaxRx
    /\ uart' = [uart EXCEPT !.rx = @ + 1, !.irq = TRUE]
    /\ UNCHANGED <<cons, tx, act, killed>>

Transmit ==
    /\ uart.thr > 0
    /\ uart' = [uart EXCEPT !.thr = @ - 1, !.irq = @ \/ uart.thr = 1]
    /\ UNCHANGED <<cons, tx, act, killed>>

TX_IDLE == uart.thr = 0
WriteTHR == uart' = [uart EXCEPT !.thr = @ + 1]

-----------------------------------------------------------------------------
(* Input editing: d is cons.                                               *)

(* The characters that ^U removes: back to the last newline or to w.       *)
Killed(d) ==
    LET Char(k) == d.buf[Minus(d.e, k) % INPUT_BUF_SIZE]
        ok == {k \in 0 .. Minus(d.e, d.w) : \A j \in 1 .. k : Char(j) # "nl"}
    IN CHOOSE k \in ok : \A j \in ok : j <= k

(* Room for another character; the mutant overwrites the one read next.    *)
Room_none(d) == Minus(d.e, d.r) <= INPUT_BUF_SIZE
Room(d) == Minus(d.e, d.r) < INPUT_BUF_SIZE

(* c is the last that the line takes.                                      *)
Complete(d, c) == c \in {"nl", "D"} \/ Minus(d.e, d.r) = INPUT_BUF_SIZE

Store(d, c) ==
    LET s == [d EXCEPT !.buf[d.e % INPUT_BUF_SIZE] = c, !.e = Plus(@, 1)] IN
    IF Complete(s, c) THEN [s EXCEPT !.w = s.e] ELSE s

(* The switch of consoleintr(): cons, and how many characters it echoes.   *)
Edit(d, c) ==
    CASE c = "P" -> <<d, 1>>
      [] c = "U" -> <<[d EXCEPT !.e = Minus(@, Killed(d))], 3 * Killed(d)>>
      [] c = "H" -> IF d.e = d.w THEN <<d, 0>> ELSE <<[d EXCEPT !.e = Minus(@, 1)], 3>>
      [] OTHER ->
           IF c = "nul" \/ ~Room(d) THEN <<d, 0>>
           ELSE <<Store(d, IF c = "cr" THEN "nl" ELSE c), 1>>

(* wakeup(&cons.r) when w moved; the mutant wakes for a newline only.      *)
wake_reader_line(ac, d, c) == IF c = "nl" THEN Woken(ac, "read_asleep", "read_woken") ELSE ac
wake_reader(ac, d, c) == IF d.w # cons.w THEN Woken(ac, "read_asleep", "read_woken") ELSE ac

-----------------------------------------------------------------------------
(* devintr(): claim the interrupt, uartintr(), complete it.                *)

plic_claim ==
    /\ At(Intr, "idle") /\ uart.irq
    /\ uart' = [uart EXCEPT !.irq = FALSE]
    /\ act' = Goto(Intr, "getc")
    /\ UNCHANGED <<cons, tx, killed>>

(* The mutant of uartgetc() ends the interrupt without uartstart().        *)
uartgetc_only ==
    /\ At(Intr, "getc")
    /\ IF uart.rx = 0
       THEN act' = Goto(Intr, "idle") /\ UNCHANGED uart
       ELSE act' = Goto(Intr, "cons") /\ uart' = [uart EXCEPT !.rx = @ - 1]
    /\ UNCHANGED <<cons, tx, killed>>
uartgetc ==
    /\ At(Intr, "getc")
    /\ IF uart.rx = 0
       THEN act' = Goto(Intr, "start_want") /\ UNCHANGED uart
       ELSE act' = Goto(Intr, "cons") /\ uart' = [uart EXCEPT !.rx = @ - 1]
    /\ UNCHANGED <<cons, tx, killed>>

consoleintr(c) ==
    LET done == Edit(cons, c) IN
    /\ At(Intr, "cons") /\ cons.lock = None
    /\ cons' = [done[1] EXCEPT !.lock = IF done[2] = 0 THEN None ELSE Intr]
    /\ act' = wake_reader([act EXCEPT ![Intr] =
                 [Idle EXCEPT !.pc = IF done[2] = 0 THEN "getc" ELSE "sync", !.n = done[2]]], cons', c)
    /\ UNCHANGED <<tx, uart, killed>>

uartintr ==
    /\ At(Intr, "start_want") /\ tx.lock = None
    /\ tx' = [tx EXCEPT !.lock = Intr]
    /\ act' = Goto(Intr, "start")
    /\ UNCHANGED <<cons, uart, killed>>

-----------------------------------------------------------------------------
(* Output.                                                                 *)

(* uartputc_sync() of the echo and of printf(): wait for the transmitter   *)
(* to be empty, then write, without a lock.                                *)
uartputc_sync(a) ==
    /\ At(a, "sync") /\ TX_IDLE
    /\ act' = Goto(a, "sync_write")
    /\ UNCHANGED <<cons, tx, uart, killed>>

consputc(a) ==
    /\ At(a, "sync_write")
    /\ WriteTHR
    /\ IF act[a].n > 1
       THEN act' = [act EXCEPT ![a].pc = "sync", ![a].n = @ - 1] /\ UNCHANGED cons
       ELSE /\ act' = [act EXCEPT ![a] = [Idle EXCEPT !.pc = IF a = Intr THEN "getc" ELSE "idle"]]
            /\ cons' = IF a = Intr THEN [cons EXCEPT !.lock = None] ELSE cons
    /\ UNCHANGED <<tx, killed>>

printf(p) ==
    /\ At(p, "idle") /\ p \in load.printers
    /\ act' = [act EXCEPT ![p].pc = "sync", ![p].n = 1]
    /\ UNCHANGED <<cons, tx, uart, killed>>

(* uartstart(), by a process in uartputc() or by the handler.  The mutant  *)
(* does not ask whether the transmitter is empty.                          *)
can_start_blind == TRUE
can_start == TX_IDLE

uartstart(a) ==
    /\ At(a, "start")
    /\ tx.w # tx.r /\ can_start
    /\ tx' = [tx EXCEPT !.r = Plus64(@, 1)]
    /\ act' = Woken(Goto(a, "start_write"), "write_asleep", "write_woken")
    /\ UNCHANGED <<cons, uart, killed>>

uartstart_write(a) ==
    /\ At(a, "start_write")
    /\ WriteTHR
    /\ act' = Goto(a, "start")
    /\ UNCHANGED <<cons, tx, killed>>

(* uartstart() returns, and its caller releases uart_tx_lock.              *)
uartstart_return(a) ==
    /\ At(a, "start")
    /\ ~(tx.w # tx.r /\ can_start)
    /\ tx' = [tx EXCEPT !.lock = None]
    /\ act' = IF a = Intr THEN [act EXCEPT ![Intr] = Idle]
              ELSE [act EXCEPT ![a].pc = "write", ![a].n = @ - 1]
    /\ UNCHANGED <<cons, uart, killed>>

(* consolewrite(): the next character, or the end; copyin() may fail.      *)
consolewrite(p) ==
    \/ /\ At(p, "idle") /\ p \in load.writers
       /\ \E n \in 1 .. MaxCount : act' = [act EXCEPT ![p].pc = "write", ![p].n = n]
       /\ UNCHANGED <<cons, tx, uart, killed>>
    \/ /\ At(p, "write")
       /\ act' = [act EXCEPT ![p] = Idle]
       /\ UNCHANGED <<cons, tx, uart, killed>>

(* uartputc(): sleep while the ring is full.                               *)
Full == tx.w = Plus64(tx.r, UART_TX_BUF_SIZE)

uartputc(p) ==
    /\ (At(p, "write") /\ act[p].n > 0) \/ At(p, "write_woken")
    /\ tx.lock = None
    /\ IF Full
       THEN act' = Goto(p, "write_asleep") /\ UNCHANGED tx
       ELSE /\ tx' = [tx EXCEPT !.buf[tx.w % UART_TX_BUF_SIZE] = p, !.w = Plus64(@, 1), !.lock = p]
            /\ act' = Goto(p, "start")
    /\ UNCHANGED <<cons, uart, killed>>

-----------------------------------------------------------------------------
(* consoleread().                                                          *)
Release == [cons EXCEPT !.lock = None]
Returned(p) == act' = [act EXCEPT ![p] = Idle] /\ killed' = [killed EXCEPT ![p] = FALSE]

consoleread(p) ==
    /\ cons.lock = None
    /\ \/ At(p, "idle") /\ p \in load.readers
          /\ \E n \in 1 .. MaxCount : act' = [act EXCEPT ![p].pc = "read", ![p].n = n]
       \/ At(p, "read_woken") /\ act' = Goto(p, "read")
    /\ cons' = [cons EXCEPT !.lock = p]
    /\ UNCHANGED <<tx, uart, killed>>

(* Nothing to read: killed() is asked, and then the process sleeps.        *)
read_wait(p) ==
    /\ At(p, "read") /\ cons.r = cons.w
    /\ IF killed[p]
       THEN cons' = Release /\ Returned(p)
       ELSE act' = Goto(p, "read_sleep") /\ UNCHANGED <<cons, killed>>
    /\ UNCHANGED <<tx, uart>>

read_sleep(p) ==
    /\ At(p, "read_sleep")
    /\ cons' = Release
    /\ act' = Goto(p, "read_asleep")
    /\ UNCHANGED <<tx, uart, killed>>

(* A character: ^D ends the read, and stays if it ends another one.        *)
read_eof(p) == [Release EXCEPT !.r = IF act[p].some THEN @ ELSE Plus(@, 1)]

read_char(p) ==
    LET c == cons.buf[cons.r % INPUT_BUF_SIZE] IN
    /\ At(p, "read") /\ cons.r # cons.w
    /\ \/ c = "D" /\ cons' = read_eof(p) /\ Returned(p)
       \/ /\ c \notin {"D", "nl"} /\ act[p].n > 1
          /\ cons' = [cons EXCEPT !.r = Plus(@, 1)]
          /\ act' = [act EXCEPT ![p].n = @ - 1, ![p].some = TRUE]
          /\ UNCHANGED killed
       \/ \* the last one, or either_copyout() fails
          c # "D" /\ cons' = [Release EXCEPT !.r = Plus(@, 1)] /\ Returned(p)
    /\ UNCHANGED <<tx, uart>>

(* kill() of p, which does not notice it in read_sleep() any more.  It     *)
(* changes nothing here for a process that does not read; a killed process *)
(* is replaced by another once it is back in user space.                   *)
kill(p) ==
    /\ ~killed[p] /\ act[p].pc \in {"read", "read_sleep", "read_asleep", "read_woken"}
    /\ killed' = [killed EXCEPT ![p] = TRUE]
    /\ act' = IF At(p, "read_asleep") THEN Goto(p, "read_woken") ELSE act
    /\ UNCHANGED <<cons, tx, uart>>

Next ==
    /\ UNCHANGED load
    /\ \/ Receive \/ Transmit
       \/ plic_claim \/ uartgetc \/ uartintr
       \/ \E c \in load.keys : consoleintr(c)
       \/ \E a \in Actors :
             uartputc_sync(a) \/ consputc(a) \/ uartstart(a) \/ uartstart_write(a) \/ uartstart_return(a)
       \/ \E p \in Procs :
             \/ kill(p) \/ printf(p)
             \/ consolewrite(p) \/ uartputc(p)
             \/ consoleread(p) \/ read_wait(p) \/ read_sleep(p) \/ read_char(p)

Spec == Init /\ [][Next]_vars

-----------------------------------------------------------------------------
(* No wakeup is lost: a process sleeps in consoleread() only while there   *)
(* is nothing to read, and in uartputc() only while the ring is full.      *)
SleepersJustified ==
    \A p \in Procs :
        /\ At(p, "read_asleep") => cons.r = cons.w
        /\ At(p, "write_asleep") => Full

(* The output ring never gets stuck: while it holds characters that nobody *)
(* is sending, the transmitter is still busy and will interrupt, or its    *)
(* interrupt is pending or being served before uartstart().                *)
OutputMoves ==
    tx.w # tx.r /\ tx.lock = None =>
        uart.thr > 0 \/ uart.irq \/ act[Intr].pc \in {"getc", "cons", "sync", "sync_write", "start_want"}

(* uartputc_sync() takes no lock, and between its look at LSR and its      *)
(* write others may write too; all that is written finds room.             *)
NoOverrun == uart.thr <= FIFO

(* What the buffers hold: from w to e, from r to w, and from r to w.       *)
Line == [k \in 1 .. Minus(cons.e, cons.w) |-> cons.buf[(cons.w + k - 1) % INPUT_BUF_SIZE]]
Ready == [k \in 1 .. Minus(cons.w, cons.r) |-> cons.buf[(cons.r + k - 1) % INPUT_BUF_SIZE]]
Output == [k \in 1 .. Minus64(tx.w, tx.r) |-> tx.buf[(tx.r + k - 1) % UART_TX_BUF_SIZE]]

T == INSTANCE Terminal WITH
    MaxIn <- INPUT_BUF_SIZE, MaxOut <- UART_TX_BUF_SIZE, Writers <- Procs, Chars <- {"x", "nl", "D"},
    line <- Line, ready <- Ready, out <- Output

(* Wrapping indices, locks and interrupts are invisible: input is edited,  *)
(* committed and read as lines of a queue, and output is a queue.          *)
ImplementsTerminal == T!Spec
=============================================================================
