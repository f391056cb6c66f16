---------------------------- MODULE ConsoleProofs ---------------------------
(***************************************************************************)
(* Proofs about the console and the UART driver, for buffers of any size   *)
(* that divides the range of their indices and for any number of           *)
(* processes.                                                              *)
(*                                                                         *)
(* What the runs check is not inductive: IInv adds who holds which lock,   *)
(* that a reader about to sleep has seen an empty buffer that cannot       *)
(* change before it sleeps, and that the three indices of the input buffer *)
(* stay in order, with no end of line among what can still be edited.      *)
(* Most steps move one actor; Moved and Waking say how, and the lemmas     *)
(* about the actions reduce each to that.                                  *)
(***************************************************************************)
EXTENDS Console, Rings, TLAPS

Stored == {"nul", "x", "nl", "D"}
HandlerAt == {"idle", "getc", "cons", "sync", "sync_write", "start_want", "start", "start_write"}
ProcessAt == {"write", "write_asleep", "write_woken", "read", "read_sleep", "read_asleep", "read_woken"}
Places == HandlerAt \cup ProcessAt

ConsOK ==
    cons \in [buf : [0 .. INPUT_BUF_SIZE - 1 -> Stored],
              r : Index(UINT), w : Index(UINT), e : Index(UINT), lock : Actors \cup {None}]
TxOK ==
    tx \in [buf : [0 .. UART_TX_BUF_SIZE - 1 -> Procs \cup {None}],
            r : Index(UINT64), w : Index(UINT64), lock : Actors \cup {None}]
UartOK == uart \in [rx : Nat, thr : Nat, irq : BOOLEAN]
ActOK == act \in [Actors -> [pc : Places, n : Int, some : BOOLEAN]]
KilledOK == killed \in [Procs -> BOOLEAN]
Handler == act[Intr].pc \in HandlerAt

TypeOK == ConsOK /\ TxOK /\ UartOK /\ ActOK /\ KilledOK /\ load \in Loads /\ Handler

(* Who holds cons.lock and uart_tx_lock.                                   *)
Locks ==
    /\ \A p \in Procs : act[p].pc \in {"read", "read_sleep"} => cons.lock = p
    /\ act[Intr].pc \in {"sync", "sync_write"} => cons.lock = Intr
    /\ \A a \in Actors : act[a].pc \in {"start", "start_write"} => tx.lock = a

Sleeping ==
    \A p \in Procs :
        /\ act[p].pc \in {"read_sleep", "read_asleep"} => cons.r = cons.w
        /\ act[p].pc = "write_asleep" => Full

(* The rings hold no more than they have room for.                         *)
InputFits == Dist(cons.r, cons.w, UINT) + Dist(cons.w, cons.e, UINT) <= INPUT_BUF_SIZE
OutputFits == Dist(tx.r, tx.w, UINT64) <= UART_TX_BUF_SIZE

(* What can still be edited is no end of line.                             *)
OneLine ==
    \A k \in 0 .. Dist(cons.w, cons.e, UINT) - 1 : cons.buf[(cons.w + k) % INPUT_BUF_SIZE] # "nl"

IInv == TypeOK /\ Locks /\ Sleeping /\ InputFits /\ OutputFits /\ OneLine /\ OutputMoves

(* a goes on at s, and no one else moves; a goes on at s and wakes up      *)
(* those asleep at from.                                                   *)
Moved(a, s) == \A b \in Actors : act'[b].pc = IF b = a THEN s ELSE act[b].pc
Waking(a, s, from, to) ==
    \A b \in Actors :
        act'[b].pc = IF b = a THEN s ELSE IF act[b].pc = from THEN to ELSE act[b].pc

(* The contents of either buffer do not change.                            *)
SameInput == cons'.buf = cons.buf /\ cons'.r = cons.r /\ cons'.w = cons.w /\ cons'.e = cons.e
SameOutput == tx'.buf = tx.buf /\ tx'.r = tx.r /\ tx'.w = tx.w

-----------------------------------------------------------------------------
(* Moving one actor.                                                       *)

(* The sizes.                                                              *)
LEMMA Sizes ==
    /\ INPUT_BUF_SIZE \in Nat \ {0} /\ UINT \in Nat \ {0} /\ UINT > INPUT_BUF_SIZE
    /\ Ring(INPUT_BUF_SIZE, UINT)
    /\ UART_TX_BUF_SIZE \in Nat \ {0} /\ UINT64 \in Nat \ {0} /\ UINT64 > UART_TX_BUF_SIZE
    /\ Ring(UART_TX_BUF_SIZE, UINT64)
BY SizeAssumption DEF Ring

(* The lock names.                                                         *)
LEMMA Names == Intr \in Actors /\ None \notin Actors /\ \A p \in Procs : p \in Actors /\ p # Intr
BY ActorAssumption, Zenon DEF Actors

(* An actor's record, and a change of it.                                  *)
LEMMA Update ==
    ASSUME ActOK, NEW a \in Actors, NEW s \in Places, NEW k \in Int, NEW b \in BOOLEAN,
           act' = [act EXCEPT ![a] = [pc |-> s, n |-> k, some |-> b]]
    PROVE  ActOK' /\ Moved(a, s)
BY Zenon DEF ActOK, Moved

(* Goto() as such a change.                                                *)
LEMMA GotoMoves ==
    ASSUME ActOK, NEW a \in Actors, NEW s \in Places, act' = Goto(a, s)
    PROVE  ActOK' /\ Moved(a, s)
BY Zenon DEF ActOK, Moved, Goto

(* The end of a call.                                                      *)
LEMMA IdleMoves ==
    ASSUME ActOK, NEW a \in Actors, act' = [act EXCEPT ![a] = Idle]
    PROVE  ActOK' /\ Moved(a, "idle")
<1>1. "idle" \in Places /\ 0 \in Int
  BY DEF Places, HandlerAt
<1>2. FALSE \in BOOLEAN
  BY Zenon
<1> QED
  BY <1>1, <1>2, Update, Zenon DEF Idle

(* A call counts what is left to do.                                       *)
LEMMA CountMoves ==
    ASSUME ActOK, NEW a \in Actors, NEW s \in Places, NEW k \in Int,
           act' = [act EXCEPT ![a].pc = s, ![a].n = k]
    PROVE  ActOK' /\ Moved(a, s)
BY Zenon DEF ActOK, Moved

(* wakeup() after a has moved.                                             *)
LEMMA WokenMoves ==
    ASSUME ActOK, NEW a \in Actors, NEW s \in Places, NEW from, NEW to \in Places, s # from,
           NEW ac \in [Actors -> [pc : Places, n : Int, some : BOOLEAN]],
           \A b \in Actors : ac[b].pc = IF b = a THEN s ELSE act[b].pc,
           act' = Woken(ac, from, to)
    PROVE  ActOK' /\ Waking(a, s, from, to)
<1>1. ActOK'
  BY Zenon DEF ActOK, Woken
<1>2. Waking(a, s, from, to)
  BY Zenon DEF ActOK, Woken, Waking
<1> QED
  BY <1>1, <1>2, Zenon

(* The places.                                                             *)
LEMMA Named ==
    /\ "idle" \in Places /\ "getc" \in Places /\ "cons" \in Places /\ "sync" \in Places
    /\ "sync_write" \in Places /\ "start_want" \in Places /\ "start" \in Places
    /\ "start_write" \in Places /\ "write" \in Places /\ "write_asleep" \in Places
    /\ "write_woken" \in Places /\ "read" \in Places /\ "read_sleep" \in Places
    /\ "read_asleep" \in Places /\ "read_woken" \in Places
BY Zenon DEF Places, HandlerAt, ProcessAt

-----------------------------------------------------------------------------
(* What the actions do.                                                    *)

(* The device: the transmitter's count and the interrupt.                  *)
LEMMA ReceiveDoes ==
    ASSUME TypeOK, Receive
    PROVE  UartOK' /\ uart'.thr = uart.thr /\ uart'.irq /\ UNCHANGED <<cons, tx, act, killed>>
<1>1. uart' = [uart EXCEPT !.rx = uart.rx + 1, !.irq = TRUE] /\ UNCHANGED <<cons, tx, act, killed>>
  BY Zenon DEF TypeOK, UartOK, Receive
<1>2. uart'.thr = uart.thr /\ uart'.irq = TRUE
  BY <1>1, Zenon DEF TypeOK, UartOK
<1>3. UartOK'
  <2>1. uart.rx + 1 \in Nat
    BY DEF TypeOK, UartOK
  <2> QED
    BY <1>1, <2>1, Zenon DEF TypeOK, UartOK
<1> QED
  BY <1>1, <1>2, <1>3, Zenon

LEMMA TransmitDoes ==
    ASSUME TypeOK, Transmit
    PROVE  /\ UartOK' /\ uart.thr > 0 /\ uart'.thr = uart.thr - 1 /\ (uart.irq => uart'.irq)
           /\ (uart.thr = 1 => uart'.irq) /\ UNCHANGED <<cons, tx, act, killed>>
<1> DEFINE b == uart.irq \/ uart.thr = 1
<1>1. b \in BOOLEAN
  BY Zenon
<1>2. /\ uart.thr > 0 /\ uart' = [uart EXCEPT !.thr = uart.thr - 1, !.irq = b]
      /\ UNCHANGED <<cons, tx, act, killed>>
  BY Zenon DEF Transmit
<1>3. uart.irq \/ uart.thr = 1 => b
  BY Zenon
<1> HIDE DEF b
<1>4. uart'.thr = uart.thr - 1 /\ uart'.irq = b
  BY <1>2, Zenon DEF TypeOK, UartOK
<1>5. UartOK'
  <2>1. uart.thr - 1 \in Nat
    BY <1>2 DEF TypeOK, UartOK
  <2> QED
    BY <1>1, <1>2, <2>1, Zenon DEF TypeOK, UartOK
<1> QED
  BY <1>2, <1>3, <1>4, <1>5, Zenon

LEMMA ClaimDoes ==
    ASSUME TypeOK, plic_claim
    PROVE  /\ UartOK' /\ uart'.thr = uart.thr /\ act[Intr].pc = "idle"
           /\ ActOK' /\ Moved(Intr, "getc") /\ UNCHANGED <<cons, tx, killed>>
<1>1. UartOK' /\ uart'.thr = uart.thr /\ UNCHANGED <<cons, tx, killed>>
  BY Zenon DEF TypeOK, UartOK, plic_claim
<1> QED
  BY <1>1, Named, Names, GotoMoves, Zenon DEF TypeOK, plic_claim, At

LEMMA GetcDoes ==
    ASSUME TypeOK, uartgetc
    PROVE  /\ UartOK' /\ uart'.thr = uart.thr /\ uart'.irq = uart.irq /\ act[Intr].pc = "getc"
           /\ ActOK' /\ (Moved(Intr, "start_want") \/ Moved(Intr, "cons"))
           /\ UNCHANGED <<cons, tx, killed>>
<1>1. UartOK' /\ uart'.thr = uart.thr /\ uart'.irq = uart.irq /\ UNCHANGED <<cons, tx, killed>>
  BY DEF TypeOK, UartOK, uartgetc
<1> QED
  BY <1>1, Named, Names, GotoMoves, Zenon DEF TypeOK, uartgetc, At

LEMMA IntrDoes ==
    ASSUME TypeOK, uartintr
    PROVE  /\ TxOK' /\ SameOutput /\ tx.lock = None /\ tx'.lock = Intr /\ act[Intr].pc = "start_want"
           /\ ActOK' /\ Moved(Intr, "start") /\ UNCHANGED <<cons, uart, killed>>
<1>1. TxOK' /\ SameOutput /\ tx'.lock = Intr
  BY Names, Zenon DEF TypeOK, TxOK, uartintr, SameOutput
<1> QED
  BY <1>1, Named, Names, GotoMoves, Zenon DEF TypeOK, uartintr, At

(* Polled output.                                                          *)
LEMMA SyncDoes ==
    ASSUME TypeOK, NEW a \in Actors, uartputc_sync(a)
    PROVE  /\ act[a].pc = "sync" /\ uart.thr = 0 /\ ActOK' /\ Moved(a, "sync_write")
           /\ UNCHANGED <<cons, tx, uart, killed>>
BY Named, GotoMoves, Zenon DEF TypeOK, uartputc_sync, At, TX_IDLE

LEMMA ConsputcDoes ==
    ASSUME TypeOK, NEW a \in Actors, consputc(a)
    PROVE  /\ act[a].pc = "sync_write" /\ UNCHANGED <<tx, killed>>
           /\ UartOK' /\ uart'.thr = uart.thr + 1 /\ uart'.irq = uart.irq
           /\ ConsOK' /\ ActOK' /\ SameInput
           /\ \/ Moved(a, "sync") /\ UNCHANGED cons
              \/ a = Intr /\ Moved(a, "getc") /\ cons'.lock = None
              \/ a # Intr /\ Moved(a, "idle") /\ UNCHANGED cons
<1>1. UartOK' /\ uart'.thr = uart.thr + 1 /\ uart'.irq = uart.irq
  BY DEF TypeOK, UartOK, consputc, WriteTHR
<1>2. act[a].n \in Int /\ act[a].n - 1 \in Int /\ 0 \in Int
  BY DEF TypeOK, ActOK
<1>3. CASE act[a].n > 1
  <2>1. ActOK' /\ Moved(a, "sync")
    <3>1. act' = [act EXCEPT ![a].pc = "sync", ![a].n = act[a].n - 1]
      BY <1>3, Zenon DEF consputc, TypeOK, ActOK
    <3> QED
      BY <3>1, <1>2, Named, CountMoves, Zenon DEF TypeOK
  <2> QED
    BY <1>1, <1>3, <2>1, Zenon DEF consputc, At, TypeOK, ConsOK, SameInput
<1>4. CASE ~(act[a].n > 1) /\ a = Intr
  <2>1. act' = [act EXCEPT ![a] = [pc |-> "getc", n |-> 0, some |-> FALSE]]
    BY <1>4, Zenon DEF consputc, Idle
  <2>2. ActOK' /\ Moved(a, "getc")
    <3>1. FALSE \in BOOLEAN
      BY Zenon
    <3> QED
      BY <1>2, <2>1, <3>1, Named, Update, Zenon DEF TypeOK
  <2>3. ConsOK' /\ SameInput /\ cons'.lock = None
    BY <1>4, Zenon DEF consputc, TypeOK, ConsOK, SameInput
  <2> QED
    BY <1>1, <1>4, <2>2, <2>3, Zenon DEF consputc, At
<1>5. CASE ~(act[a].n > 1) /\ a # Intr
  <2>1. act' = [act EXCEPT ![a] = Idle]
    BY <1>5, Zenon DEF consputc, Idle
  <2>2. ActOK' /\ Moved(a, "idle")
    BY <2>1, IdleMoves, Zenon DEF TypeOK
  <2> QED
    BY <1>1, <1>5, <2>2, Zenon DEF consputc, At, TypeOK, ConsOK, SameInput
<1> QED
  BY <1>3, <1>4, <1>5, Zenon

LEMMA PrintfDoes ==
    ASSUME TypeOK, NEW p \in Procs, printf(p)
    PROVE  act[p].pc = "idle" /\ ActOK' /\ Moved(p, "sync") /\ UNCHANGED <<cons, tx, uart, killed>>
<1>1. 1 \in Int
  OBVIOUS
<1> QED
  BY <1>1, Named, Names, CountMoves, Zenon DEF TypeOK, printf, At

(* Buffered output.                                                        *)
LEMMA StartDoes ==
    ASSUME TypeOK, NEW a \in Actors, uartstart(a)
    PROVE  /\ act[a].pc = "start" /\ tx.w # tx.r /\ uart.thr = 0
           /\ TxOK' /\ tx'.buf = tx.buf /\ tx'.w = tx.w /\ tx'.lock = tx.lock
           /\ tx'.r = (tx.r + 1) % UINT64
           /\ ActOK' /\ Waking(a, "start_write", "write_asleep", "write_woken")
           /\ UNCHANGED <<cons, uart, killed>>
<1>1. /\ At(a, "start") /\ tx.w # tx.r /\ uart.thr = 0 /\ UNCHANGED <<cons, uart, killed>>
      /\ tx' = [tx EXCEPT !.r = (tx.r + 1) % UINT64]
      /\ act' = Woken(Goto(a, "start_write"), "write_asleep", "write_woken")
  BY Zenon DEF uartstart, Plus64, can_start, TX_IDLE
<1>2. (tx.r + 1) % UINT64 \in Index(UINT64)
  <2>1. tx.r \in Index(UINT64)
    BY Zenon DEF TypeOK, TxOK
  <2>2. tx.r + 1 \in Int
    BY <2>1, Sizes DEF Index
  <2> QED
    BY <2>2, Sizes, ModDef, Zenon DEF Index
<1>3. /\ TxOK' /\ tx'.buf = tx.buf /\ tx'.w = tx.w /\ tx'.lock = tx.lock
      /\ tx'.r = (tx.r + 1) % UINT64
  BY <1>1, <1>2, Zenon DEF TypeOK, TxOK
<1>4. ActOK' /\ Waking(a, "start_write", "write_asleep", "write_woken")
  <2> DEFINE ac == Goto(a, "start_write")
  <2>1. /\ ac \in [Actors -> [pc : Places, n : Int, some : BOOLEAN]]
        /\ \A b \in Actors : ac[b].pc = IF b = a THEN "start_write" ELSE act[b].pc
    BY Named, Zenon DEF TypeOK, ActOK, Goto
  <2>2. "start_write" # "write_asleep"
    BY Zenon
  <2> HIDE DEF ac
  <2>3. act' = Woken(ac, "write_asleep", "write_woken")
    BY <1>1, Zenon DEF ac
  <2> QED
    BY <2>1, <2>2, <2>3, Named, WokenMoves, Zenon DEF TypeOK
<1> QED
  BY <1>1, <1>3, <1>4, Zenon DEF At

LEMMA StartWriteDoes ==
    ASSUME TypeOK, NEW a \in Actors, uartstart_write(a)
    PROVE  /\ act[a].pc = "start_write" /\ UNCHANGED <<cons, tx, killed>>
           /\ UartOK' /\ uart'.thr = uart.thr + 1 /\ uart'.irq = uart.irq
           /\ ActOK' /\ Moved(a, "start")
<1>1. UartOK' /\ uart'.thr = uart.thr + 1 /\ uart'.irq = uart.irq
  BY DEF TypeOK, UartOK, uartstart_write, WriteTHR
<1> QED
  BY <1>1, Named, GotoMoves, Zenon DEF TypeOK, uartstart_write, At

LEMMA StartReturnDoes ==
    ASSUME TypeOK, NEW a \in Actors, uartstart_return(a)
    PROVE  /\ act[a].pc = "start" /\ (tx.w = tx.r \/ uart.thr > 0)
           /\ TxOK' /\ SameOutput /\ tx'.lock = None
           /\ ActOK' /\ Moved(a, IF a = Intr THEN "idle" ELSE "write")
           /\ UNCHANGED <<cons, uart, killed>>
<1>1. tx.w = tx.r \/ uart.thr > 0
  BY DEF TypeOK, UartOK, uartstart_return, can_start, TX_IDLE
<1>2. TxOK' /\ SameOutput /\ tx'.lock = None
  BY Zenon DEF TypeOK, TxOK, SameOutput, uartstart_return
<1>3. CASE a = Intr
  BY <1>1, <1>2, <1>3, Names, IdleMoves, Zenon DEF TypeOK, uartstart_return, At
<1>4. CASE a # Intr
  <2>1. act[a].n - 1 \in Int /\ act' = [act EXCEPT ![a].pc = "write", ![a].n = act[a].n - 1]
    BY <1>4 DEF TypeOK, ActOK, uartstart_return
  <2>2. ActOK' /\ Moved(a, "write")
    BY <2>1, Named, CountMoves, Zenon DEF TypeOK
  <2> QED
    BY <1>1, <1>2, <1>4, <2>2, Zenon DEF uartstart_return, At
<1> QED
  BY <1>3, <1>4, Zenon

LEMMA WriteDoes ==
    ASSUME TypeOK, NEW p \in Procs, consolewrite(p)
    PROVE  /\ act[p].pc \in {"idle", "write"} /\ ActOK' /\ (Moved(p, "write") \/ Moved(p, "idle"))
           /\ UNCHANGED <<cons, tx, uart, killed>>
<1>1. \A n \in 1 .. MaxCount : n \in Int
  OBVIOUS
<1> QED
  BY <1>1, Named, Names, CountMoves, IdleMoves, Zenon DEF TypeOK, consolewrite, At

LEMMA PutcDoes ==
    ASSUME TypeOK, NEW p \in Procs, uartputc(p)
    PROVE  /\ act[p].pc \in {"write", "write_woken"} /\ tx.lock = None /\ UNCHANGED <<cons, uart, killed>>
           /\ TxOK' /\ ActOK'
           /\ \/ Full /\ UNCHANGED tx /\ Moved(p, "write_asleep")
              \/ /\ ~Full /\ tx'.buf = [tx.buf EXCEPT ![tx.w % UART_TX_BUF_SIZE] = p]
                 /\ tx'.r = tx.r /\ tx'.w = (tx.w + 1) % UINT64 /\ tx'.lock = p
                 /\ Moved(p, "start")
<1>1. CASE Full
  BY <1>1, Named, Names, GotoMoves, Zenon DEF TypeOK, TxOK, uartputc, At
<1>2. CASE ~Full
  <2>1. /\ tx' = [tx EXCEPT !.buf[tx.w % UART_TX_BUF_SIZE] = p, !.w = (tx.w + 1) % UINT64, !.lock = p]
        /\ act' = Goto(p, "start") /\ tx.lock = None /\ UNCHANGED <<cons, uart, killed>>
        /\ act[p].pc \in {"write", "write_woken"}
    BY <1>2, Zenon DEF uartputc, Plus64, At
  <2>2. (tx.w + 1) % UINT64 \in Index(UINT64) /\ tx.w % UART_TX_BUF_SIZE \in 0 .. UART_TX_BUF_SIZE - 1
    <3>1. tx.w \in Index(UINT64)
      BY Zenon DEF TypeOK, TxOK
    <3>2. tx.w \in Int /\ tx.w + 1 \in Int
      BY <3>1, Sizes DEF Index
    <3> QED
      BY <3>2, Sizes, ModDef, Zenon DEF Index
  <2>3. /\ TxOK' /\ tx'.buf = [tx.buf EXCEPT ![tx.w % UART_TX_BUF_SIZE] = p]
        /\ tx'.r = tx.r /\ tx'.w = (tx.w + 1) % UINT64 /\ tx'.lock = p
    BY <2>1, <2>2, Names, Zenon DEF TypeOK, TxOK
  <2>4. ActOK' /\ Moved(p, "start")
    BY <2>1, Names, Named, GotoMoves, Zenon DEF TypeOK
  <2> QED
    BY <1>2, <2>1, <2>3, <2>4, Zenon
<1> QED
  BY <1>1, <1>2, Zenon

-----------------------------------------------------------------------------
(* Reading.                                                                *)

(* cons.lock is released or taken, and nothing else of cons changes.       *)
LEMMA LockChanges ==
    ASSUME TypeOK, NEW x \in Actors \cup {None}, cons' = [cons EXCEPT !.lock = x]
    PROVE  ConsOK' /\ SameInput /\ cons'.lock = x
BY Zenon DEF TypeOK, ConsOK, SameInput

LEMMA ReadDoes ==
    ASSUME TypeOK, NEW p \in Procs, consoleread(p)
    PROVE  /\ act[p].pc \in {"idle", "read_woken"} /\ cons.lock = None
           /\ ConsOK' /\ SameInput /\ cons'.lock = p
           /\ ActOK' /\ Moved(p, "read") /\ UNCHANGED <<tx, uart, killed>>
<1>1. ConsOK' /\ SameInput /\ cons'.lock = p
  BY Names, LockChanges, Zenon DEF consoleread
<1>2. \A n \in 1 .. MaxCount : n \in Int
  OBVIOUS
<1>3. act[p].pc \in {"idle", "read_woken"} /\ ActOK' /\ Moved(p, "read")
  BY <1>2, Named, Names, GotoMoves, CountMoves, Zenon DEF TypeOK, consoleread, At
<1> QED
  BY <1>1, <1>3, Zenon DEF consoleread

LEMMA WaitDoes ==
    ASSUME TypeOK, NEW p \in Procs, read_wait(p)
    PROVE  /\ act[p].pc = "read" /\ cons.r = cons.w
           /\ ConsOK' /\ ActOK' /\ KilledOK' /\ SameInput /\ UNCHANGED <<tx, uart>>
           /\ \/ cons'.lock = None /\ Moved(p, "idle")
              \/ UNCHANGED cons /\ Moved(p, "read_sleep")
<1>1. CASE killed[p]
  <2>1. cons' = [cons EXCEPT !.lock = None] /\ act' = [act EXCEPT ![p] = Idle]
    BY <1>1, Zenon DEF read_wait, Release, Returned
  <2>2. ConsOK' /\ SameInput /\ cons'.lock = None
    BY <2>1, LockChanges, Zenon
  <2>3. ActOK' /\ Moved(p, "idle")
    BY <2>1, Names, IdleMoves, Zenon DEF TypeOK
  <2>4. KilledOK'
    BY <1>1, Zenon DEF read_wait, Returned, KilledOK, TypeOK
  <2> QED
    BY <2>2, <2>3, <2>4, Zenon DEF read_wait, At
<1>2. CASE ~killed[p]
  <2>1. ActOK' /\ Moved(p, "read_sleep")
    BY <1>2, Named, Names, GotoMoves, Zenon DEF TypeOK, read_wait
  <2> QED
    BY <1>2, <2>1, Zenon DEF read_wait, At, TypeOK, ConsOK, KilledOK, SameInput
<1> QED
  BY <1>1, <1>2, Zenon

LEMMA SleepDoes ==
    ASSUME TypeOK, NEW p \in Procs, read_sleep(p)
    PROVE  /\ act[p].pc = "read_sleep" /\ ConsOK' /\ SameInput /\ cons'.lock = None
           /\ ActOK' /\ Moved(p, "read_asleep") /\ UNCHANGED <<tx, uart, killed>>
BY Named, Names, LockChanges, GotoMoves, Zenon DEF TypeOK, read_sleep, At, Release

LEMMA CharDoes ==
    ASSUME TypeOK, NEW p \in Procs, read_char(p)
    PROVE  /\ act[p].pc = "read" /\ cons.r # cons.w /\ UNCHANGED <<tx, uart>>
           /\ ConsOK' /\ ActOK' /\ KilledOK'
           /\ cons'.buf = cons.buf /\ cons'.w = cons.w /\ cons'.e = cons.e
           /\ cons'.r \in {cons.r, (cons.r + 1) % UINT}
           /\ \/ cons'.lock = None /\ Moved(p, "idle")
              \/ cons'.lock = cons.lock /\ Moved(p, "read")
<1> DEFINE x == (cons.r + 1) % UINT
<1>0. x \in Index(UINT)
  <2>1. cons.r \in Index(UINT)
    BY Zenon DEF TypeOK, ConsOK
  <2>2. cons.r + 1 \in Int
    BY <2>1, Sizes DEF Index
  <2> QED
    BY <2>2, Sizes, ModDef, Zenon DEF Index
<1>1. ASSUME Returned(p) PROVE ActOK' /\ KilledOK' /\ Moved(p, "idle")
  BY <1>1, Names, IdleMoves, Zenon DEF TypeOK, Returned, KilledOK
<1>2. /\ act[p].pc = "read" /\ cons.r # cons.w /\ UNCHANGED <<tx, uart>>
      /\ \/ Returned(p) /\ \E y \in {cons.r, x} : cons' = [cons EXCEPT !.lock = None, !.r = y]
         \/ /\ cons' = [cons EXCEPT !.r = x] /\ UNCHANGED killed
            /\ act' = [act EXCEPT ![p].n = @ - 1, ![p].some = TRUE]
  BY Zenon DEF read_char, read_eof, Release, Plus, At, TypeOK, ConsOK
<1>3. CASE Returned(p) /\ \E y \in {cons.r, x} : cons' = [cons EXCEPT !.lock = None, !.r = y]
  <2>1. /\ ConsOK' /\ cons'.buf = cons.buf /\ cons'.w = cons.w /\ cons'.e = cons.e
        /\ cons'.r \in {cons.r, x} /\ cons'.lock = None
    <3> HIDE DEF x
    <3> QED
      BY <1>0, <1>3 DEF TypeOK, ConsOK
  <2> QED
    BY <1>1, <1>2, <1>3, <2>1, Zenon
<1>4. CASE /\ cons' = [cons EXCEPT !.r = x] /\ UNCHANGED killed
           /\ act' = [act EXCEPT ![p].n = @ - 1, ![p].some = TRUE]
  <2>1. /\ ConsOK' /\ cons'.buf = cons.buf /\ cons'.w = cons.w /\ cons'.e = cons.e
        /\ cons'.r = x /\ cons'.lock = cons.lock
    <3> HIDE DEF x
    <3> QED
      BY <1>0, <1>4, Zenon DEF TypeOK, ConsOK
  <2>2. ActOK' /\ Moved(p, "read")
    <3>1. p \in Actors /\ act \in [Actors -> [pc : Places, n : Int, some : BOOLEAN]]
      BY Names, Zenon DEF TypeOK, ActOK
    <3>2. act[p].n - 1 \in Int /\ act[p].pc \in Places
      BY <3>1
    <3>3. TRUE \in BOOLEAN
      BY Zenon
    <3>4. ActOK'
      BY <1>4, <3>1, <3>2, <3>3, Zenon DEF ActOK
    <3>5. Moved(p, "read")
      BY <1>2, <1>4, <3>1 DEF Moved
    <3> QED
      BY <3>4, <3>5, Zenon
  <2> QED
    BY <1>2, <1>4, <2>1, <2>2, Zenon DEF KilledOK, TypeOK
<1> QED
  BY <1>2, <1>3, <1>4, Zenon

LEMMA KillDoes ==
    ASSUME TypeOK, NEW p \in Procs, kill(p)
    PROVE  /\ ActOK' /\ KilledOK' /\ UNCHANGED <<cons, tx, uart>>
           /\ \/ act[p].pc = "read_asleep" /\ Moved(p, "read_woken")
              \/ UNCHANGED act
<1>1. KilledOK'
  BY Zenon DEF TypeOK, KilledOK, kill
<1> QED
  BY <1>1, Named, Names, GotoMoves, Zenon DEF TypeOK, ActOK, kill, At

-----------------------------------------------------------------------------
(* Editing.                                                                *)

(* The line that is edited has no end of line in it, so that ^U removes it *)
(* all.                                                                    *)
LEMMA KilledAll ==
    ASSUME TypeOK, OneLine
    PROVE  Killed(cons) = Dist(cons.w, cons.e, UINT) /\ Minus(cons.e, Killed(cons)) = cons.w
<1> DEFINE L == Dist(cons.w, cons.e, UINT)
           N == INPUT_BUF_SIZE
           Char(k) == cons.buf[((cons.e - k) % UINT) % N]
           ok == {k \in 0 .. L : \A j \in 1 .. k : Char(j) # "nl"}
<1>1. cons.w \in Index(UINT) /\ cons.e \in Index(UINT)
  BY Zenon DEF TypeOK, ConsOK
<1>2. L \in Nat /\ (cons.e - L) % UINT = cons.w
  <2>1. UINT \in Nat \ {0}
    BY Sizes, Zenon
  <2>2. L \in Nat
    BY <1>1, <2>1, DistFacts, Zenon
  <2>3. (cons.e - L) % UINT = cons.w
    BY <1>1, <2>1, DistAll, Zenon
  <2> QED
    BY <2>2, <2>3, Zenon
<1>3. Killed(cons) = CHOOSE k \in ok : \A j \in ok : j <= k
  BY Zenon DEF Killed, Minus, Dist
<1>4. ASSUME NEW j \in 1 .. L PROVE Char(j) # "nl"
  <2>1. L - j \in 0 .. L - 1
    <3> HIDE DEF L
    <3> QED  BY <1>2
  <2>2. ((cons.e - j) % UINT) % N = (cons.w + (L - j)) % N
    <3>1. N \in Nat /\ UINT \in Nat /\ Ring(N, UINT)
      BY Sizes, Zenon
    <3> HIDE DEF N
    <3> QED  BY <1>1, <3>1, PlaceBack, Zenon
  <2> QED
    BY <2>1, <2>2, Zenon DEF OneLine
<1> HIDE DEF Char, L
<1>5. ok = 0 .. L
  <2>1. \A k \in 0 .. L : \A j \in 1 .. k : j \in 1 .. L
    BY <1>2
  <2> QED
    BY <1>4, <2>1, Zenon
<1> HIDE DEF ok
<1>6. L \in ok /\ \A j \in ok : j <= L
  BY <1>2, <1>5
<1>7. \A k \in ok : (\A j \in ok : j <= k) => k = L
  BY <1>2, <1>5
<1>8. Killed(cons) = L
  BY <1>3, <1>6, <1>7, Zenon
<1> QED
  BY <1>2, <1>8, Zenon DEF L, Minus

(* What the switch of consoleintr() does to cons: a character is typed, the *)
(* last one is erased, all are, or nothing changes.                        *)
Typed(d, c) ==
    /\ Dist(cons.r, cons.e, UINT) < INPUT_BUF_SIZE
    /\ d.buf = [cons.buf EXCEPT ![cons.e % INPUT_BUF_SIZE] = c]
    /\ d.r = cons.r /\ d.e = (cons.e + 1) % UINT
    /\ d.w = IF c \in {"nl", "D"} \/ Dist(cons.r, d.e, UINT) = INPUT_BUF_SIZE THEN d.e ELSE cons.w
Moves(d, e) == d.buf = cons.buf /\ d.r = cons.r /\ d.w = cons.w /\ d.e = e
Edited(d) ==
    \/ Moves(d, cons.e)
    \/ Moves(d, cons.w)
    \/ cons.e # cons.w /\ Moves(d, (cons.e - 1) % UINT)
    \/ \E c \in {"x", "nl", "D"} : Typed(d, c)
ConsSet ==
    [buf : [0 .. INPUT_BUF_SIZE - 1 -> Stored],
     r : Index(UINT), w : Index(UINT), e : Index(UINT), lock : Actors \cup {None}]

LEMMA StoreGives ==
    ASSUME TypeOK, NEW c \in {"x", "nl", "D"}, Room(cons)
    PROVE  Typed(Store(cons, c), c) /\ Store(cons, c) \in ConsSet
<1> DEFINE x == (cons.e + 1) % UINT
           y == cons.e % INPUT_BUF_SIZE
           s == [cons EXCEPT !.buf[y] = c, !.e = x]
<1>1. cons \in ConsSet /\ cons.e \in Int /\ cons.e + 1 \in Int
  BY Sizes DEF TypeOK, ConsOK, ConsSet, Index
<1>2. x \in Index(UINT) /\ y \in 0 .. INPUT_BUF_SIZE - 1 /\ c \in Stored
  BY <1>1, Sizes, ModDef, Zenon DEF Index, Stored
<1>3. Dist(cons.r, cons.e, UINT) < INPUT_BUF_SIZE
  BY Zenon DEF Room, Minus, Dist
<1>4. Store(cons, c) = IF Complete(s, c) THEN [s EXCEPT !.w = s.e] ELSE s
  BY Zenon DEF Store, Plus
<1> HIDE DEF x, y
<1>5. /\ s \in ConsSet /\ s.buf = [cons.buf EXCEPT ![y] = c] /\ s.r = cons.r
      /\ s.e = x /\ s.w = cons.w
  BY <1>1, <1>2, Zenon DEF ConsSet
<1> HIDE DEF s
<1>6. Complete(s, c) <=> c \in {"nl", "D"} \/ Dist(cons.r, x, UINT) = INPUT_BUF_SIZE
  BY <1>5, Zenon DEF Complete, Minus, Dist
<1>7. /\ Store(cons, c) \in ConsSet /\ Store(cons, c).buf = s.buf /\ Store(cons, c).r = s.r
      /\ Store(cons, c).e = s.e /\ Store(cons, c).w = IF Complete(s, c) THEN s.e ELSE s.w
  <2> HIDE DEF Complete
  <2> QED
    BY <1>2, <1>4, <1>5 DEF ConsSet
<1>8. /\ Store(cons, c).buf = [cons.buf EXCEPT ![y] = c] /\ Store(cons, c).r = cons.r
      /\ Store(cons, c).e = x
      /\ Store(cons, c).w = IF c \in {"nl", "D"} \/ Dist(cons.r, x, UINT) = INPUT_BUF_SIZE
                            THEN x ELSE cons.w
  BY <1>5, <1>6, <1>7, Zenon
<1> QED
  BY <1>3, <1>7, <1>8, Zenon DEF Typed, x, y

(* Edit() gives a new cons and how much to echo.                           *)
LEMMA EditGives ==
    ASSUME TypeOK, OneLine, NEW c \in Keys
    PROVE  Edit(cons, c)[1] \in ConsSet /\ Edited(Edit(cons, c)[1]) /\ Edit(cons, c)[2] \in Int
<1>0. cons \in ConsSet /\ cons.e \in Index(UINT) /\ cons.w \in Index(UINT)
  BY Zenon DEF TypeOK, ConsOK, ConsSet
<1>1. ASSUME Edit(cons, c) = <<cons, 0>> \/ Edit(cons, c) = <<cons, 1>>
      PROVE  Edit(cons, c)[1] \in ConsSet /\ Edited(Edit(cons, c)[1]) /\ Edit(cons, c)[2] \in Int
  <2>1. Edit(cons, c)[1] = cons /\ Edit(cons, c)[2] \in Int
    BY <1>1
  <2> QED
    BY <1>0, <2>1, Zenon DEF Edited, Moves
<1>2. CASE c = "P"
  BY <1>1, <1>2, Zenon DEF Edit
<1>3. CASE c = "U"
  <2> DEFINE d == [cons EXCEPT !.e = cons.w]
             k == Killed(cons)
  <2>1. Edit(cons, c) = <<d, 3 * k>>
    BY <1>3, KilledAll, Zenon DEF Edit
  <2>2. k \in Nat
    <3>1. UINT \in Nat \ {0}
      BY Sizes, Zenon
    <3>2. Dist(cons.w, cons.e, UINT) \in Nat
      BY <1>0, <3>1, DistFacts, Zenon
    <3> QED
      BY <3>2, KilledAll, Zenon
  <2>3. d \in ConsSet /\ Moves(d, cons.w)
    BY <1>0, Zenon DEF ConsSet, Moves
  <2> HIDE DEF d, k
  <2>4. Edit(cons, c)[1] = d /\ Edit(cons, c)[2] \in Int
    BY <2>1, <2>2
  <2> QED
    BY <2>3, <2>4, Zenon DEF Edited
<1>4. CASE c = "H"
  <2>1. CASE cons.e = cons.w
    BY <1>1, <1>4, <2>1, Zenon DEF Edit
  <2>2. CASE cons.e # cons.w
    <3> DEFINE x == (cons.e - 1) % UINT
               d == [cons EXCEPT !.e = x]
    <3>1. Edit(cons, c) = <<d, 3>>
      BY <1>4, <2>2, Zenon DEF Edit, Minus
    <3>2. x \in Index(UINT)
      BY <1>0, <2>2, Sizes, DistBack, Zenon
    <3> HIDE DEF x
    <3>3. d \in ConsSet /\ Moves(d, x)
      BY <1>0, <3>2, Zenon DEF ConsSet, Moves
    <3> HIDE DEF d
    <3>4. Edit(cons, c)[1] = d /\ Edit(cons, c)[2] \in Int
      BY <3>1
    <3> QED
      BY <2>2, <3>3, <3>4, Zenon DEF Edited, x
  <2> QED
    BY <2>1, <2>2, Zenon
<1>5. CASE c \in {"x", "cr", "nl", "D", "nul"}
  <2>1. CASE c = "nul" \/ ~Room(cons)
    <3>1. Edit(cons, c) = <<cons, 0>>
      BY <1>5, <2>1, Zenon DEF Edit
    <3> QED
      BY <1>1, <3>1, Zenon
  <2>2. CASE ~(c = "nul" \/ ~Room(cons))
    <3> DEFINE b == IF c = "cr" THEN "nl" ELSE c
               d == Store(cons, b)
    <3>1. Edit(cons, c) = <<d, 1>>
      BY <1>5, <2>2, Zenon DEF Edit
    <3>2. b \in {"x", "nl", "D"}
      BY <1>5, <2>2, Zenon
    <3>3. Typed(d, b) /\ d \in ConsSet
      BY <2>2, <3>2, StoreGives, Zenon
    <3> HIDE DEF b, d
    <3>4. Edit(cons, c)[1] = d /\ Edit(cons, c)[2] \in Int
      BY <3>1
    <3> QED
      BY <3>2, <3>3, <3>4, Zenon DEF Edited
  <2> QED
    BY <2>1, <2>2, Zenon
<1> QED
  BY <1>2, <1>3, <1>4, <1>5, Zenon DEF Keys

LEMMA IntrEdits ==
    ASSUME TypeOK, OneLine, NEW c \in Keys, consoleintr(c)
    PROVE  /\ act[Intr].pc = "cons" /\ cons.lock = None /\ UNCHANGED <<tx, uart, killed>>
           /\ ConsOK' /\ ActOK' /\ Edited(cons')
           /\ \E s \in {"getc", "sync"} :
                 /\ cons'.lock = IF s = "getc" THEN None ELSE Intr
                 /\ IF cons'.w # cons.w THEN Waking(Intr, s, "read_asleep", "read_woken")
                    ELSE Moved(Intr, s)
<1> DEFINE d == Edit(cons, c)[1]
           k == Edit(cons, c)[2]
           s == IF k = 0 THEN "getc" ELSE "sync"
           x == IF k = 0 THEN None ELSE Intr
           ac == [act EXCEPT ![Intr] = [Idle EXCEPT !.pc = s, !.n = k]]
<1>1. /\ act[Intr].pc = "cons" /\ cons.lock = None /\ UNCHANGED <<tx, uart, killed>>
      /\ cons' = [d EXCEPT !.lock = x]
      /\ act' = IF cons'.w # cons.w THEN Woken(ac, "read_asleep", "read_woken") ELSE ac
  BY Zenon DEF consoleintr, At, wake_reader
<1>2. d \in ConsSet /\ Edited(d) /\ k \in Int
  BY EditGives, Zenon
<1> HIDE DEF d, k
<1>3. /\ x \in Actors \cup {None} /\ s \in {"getc", "sync"} /\ s \in Places
      /\ x = IF s = "getc" THEN None ELSE Intr
  BY Names, Named, Zenon
<1> HIDE DEF x, s
<1>4. /\ cons' \in ConsSet /\ cons'.buf = d.buf /\ cons'.r = d.r /\ cons'.w = d.w /\ cons'.e = d.e
      /\ cons'.lock = x
  BY <1>1, <1>2, <1>3, Zenon DEF ConsSet
<1>5. ConsOK' /\ Edited(cons')
  <2>1. ConsOK'
    BY <1>4, Zenon DEF ConsOK, ConsSet
  <2> QED
    BY <1>2, <1>4, <2>1, Zenon DEF Edited, Moves, Typed
<1>6. /\ ac \in [Actors -> [pc : Places, n : Int, some : BOOLEAN]]
      /\ \A b \in Actors : ac[b].pc = IF b = Intr THEN s ELSE act[b].pc
  <2> DEFINE rec == [Idle EXCEPT !.pc = s, !.n = k]
  <2>1. Idle \in [pc : Places, n : Int, some : BOOLEAN]
    <3>1. 0 \in Int
      OBVIOUS
    <3>2. FALSE \in BOOLEAN
      BY Zenon
    <3> QED
      BY <3>1, <3>2, Named, Zenon DEF Idle
  <2>3. rec \in [pc : Places, n : Int, some : BOOLEAN] /\ rec.pc = s
    BY <1>2, <1>3, <2>1, Zenon
  <2> HIDE DEF rec
  <2>4. act \in [Actors -> [pc : Places, n : Int, some : BOOLEAN]] /\ Intr \in Actors
    BY Names, Zenon DEF TypeOK, ActOK
  <2>5. ac = [act EXCEPT ![Intr] = rec]
    BY Zenon DEF ac, rec
  <2> HIDE DEF ac
  <2>6. ac \in [Actors -> [pc : Places, n : Int, some : BOOLEAN]]
    BY <2>3, <2>4, <2>5, Zenon
  <2>7. ASSUME NEW b \in Actors PROVE ac[b].pc = IF b = Intr THEN s ELSE act[b].pc
    BY <2>3, <2>4, <2>5, Zenon
  <2> QED
    BY <2>6, <2>7, Zenon
<1> HIDE DEF ac
<1>7. CASE cons'.w # cons.w
  <2>1. act' = Woken(ac, "read_asleep", "read_woken") /\ s # "read_asleep"
    BY <1>1, <1>3, <1>7, Zenon
  <2>2. ActOK' /\ Waking(Intr, s, "read_asleep", "read_woken")
    BY <1>3, <1>6, <2>1, Names, Named, WokenMoves, Zenon DEF TypeOK
  <2> QED
    BY <1>1, <1>3, <1>4, <1>5, <1>7, <2>2, Zenon
<1>8. CASE cons'.w = cons.w
  <2>1. act' = ac
    BY <1>1, <1>8, Zenon
  <2>2. ActOK' /\ Moved(Intr, s)
    BY <1>6, <2>1, Zenon DEF ActOK, Moved
  <2> QED
    BY <1>1, <1>3, <1>4, <1>5, <1>8, <2>2, Zenon
<1> QED
  BY <1>7, <1>8, Zenon

-----------------------------------------------------------------------------
(* The invariant.                                                          *)

(* The steps.                                                              *)
LEMMA Cases ==
    ASSUME TypeOK, Next
    PROVE  /\ UNCHANGED load
           /\ \/ Receive \/ Transmit \/ plic_claim \/ uartgetc \/ uartintr
              \/ \E c \in Keys : consoleintr(c)
              \/ \E a \in Actors : \/ uartputc_sync(a) \/ consputc(a) \/ uartstart(a)
                                  \/ uartstart_write(a) \/ uartstart_return(a)
              \/ \E p \in Procs : \/ kill(p) \/ printf(p) \/ consolewrite(p) \/ uartputc(p)
                                 \/ consoleread(p) \/ read_wait(p) \/ read_sleep(p) \/ read_char(p)
BY KeysAssumption, Zenon DEF Next, TypeOK

(* The handler never sleeps.                                               *)
LEMMA HandlerMoves ==
    ASSUME Handler, NEW a \in Actors, NEW s, a = Intr => s \in HandlerAt,
           \/ Moved(a, s)
           \/ Waking(a, s, "write_asleep", "write_woken")
           \/ Waking(a, s, "read_asleep", "read_woken")
    PROVE  Handler'
<1>1. act[Intr].pc # "write_asleep" /\ act[Intr].pc # "read_asleep"
  BY Zenon DEF Handler, HandlerAt
<1> QED
  BY <1>1, Names, Zenon DEF Handler, Moved, Waking

(* Types.                                                                  *)
LEMMA TypeStep ==
    ASSUME TypeOK, OneLine, Next
    PROVE  TypeOK'
<1>1. CASE Receive
  BY <1>1, ReceiveDoes, Cases, Zenon DEF TypeOK, ConsOK, TxOK, ActOK, KilledOK, Handler
<1>2. CASE Transmit
  BY <1>2, TransmitDoes, Cases, Zenon DEF TypeOK, ConsOK, TxOK, ActOK, KilledOK, Handler
<1>3. CASE plic_claim
  BY <1>3, ClaimDoes, Cases, Names, HandlerMoves, Zenon DEF TypeOK, HandlerAt, ConsOK, TxOK,
     UartOK, KilledOK
<1>4. CASE uartgetc
  BY <1>4, GetcDoes, Cases, Names, HandlerMoves, Zenon DEF TypeOK, HandlerAt, ConsOK, TxOK,
     UartOK, KilledOK
<1>5. CASE uartintr
  BY <1>5, IntrDoes, Cases, Names, HandlerMoves, Zenon DEF TypeOK, HandlerAt, ConsOK, TxOK,
     UartOK, KilledOK
<1>6. ASSUME NEW c \in Keys, consoleintr(c) PROVE TypeOK'
  BY <1>6, IntrEdits, Cases, Names, HandlerMoves, Zenon DEF TypeOK, HandlerAt, ConsOK, TxOK,
     UartOK, KilledOK
<1>7. ASSUME NEW a \in Actors, uartputc_sync(a) PROVE TypeOK'
  BY <1>7, SyncDoes, Cases, Names, HandlerMoves, Zenon DEF TypeOK, HandlerAt, ConsOK, TxOK,
     UartOK, KilledOK
<1>8. ASSUME NEW a \in Actors, consputc(a) PROVE TypeOK'
  BY <1>8, ConsputcDoes, Cases, Names, HandlerMoves, Zenon DEF TypeOK, HandlerAt, ConsOK, TxOK,
     UartOK, KilledOK
<1>9. ASSUME NEW a \in Actors, uartstart(a) PROVE TypeOK'
  BY <1>9, StartDoes, Cases, Names, HandlerMoves, Zenon DEF TypeOK, HandlerAt, ConsOK, TxOK,
     UartOK, KilledOK
<1>10. ASSUME NEW a \in Actors, uartstart_write(a) PROVE TypeOK'
  BY <1>10, StartWriteDoes, Cases, Names, HandlerMoves, Zenon DEF TypeOK, HandlerAt, ConsOK,
     TxOK, UartOK, KilledOK
<1>11. ASSUME NEW a \in Actors, uartstart_return(a) PROVE TypeOK'
  BY <1>11, StartReturnDoes, Cases, Names, HandlerMoves, Zenon DEF TypeOK, HandlerAt, ConsOK,
     TxOK, UartOK, KilledOK
<1>12. ASSUME NEW p \in Procs, kill(p) PROVE TypeOK'
  BY <1>12, KillDoes, Cases, Names, HandlerMoves, Zenon DEF TypeOK, ConsOK, TxOK, UartOK, Handler
<1>13. ASSUME NEW p \in Procs, printf(p) PROVE TypeOK'
  BY <1>13, PrintfDoes, Cases, Names, HandlerMoves, Zenon DEF TypeOK, HandlerAt, ConsOK, TxOK,
     UartOK, KilledOK
<1>14. ASSUME NEW p \in Procs, consolewrite(p) PROVE TypeOK'
  BY <1>14, WriteDoes, Cases, Names, HandlerMoves, Zenon DEF TypeOK, HandlerAt, ConsOK, TxOK,
     UartOK, KilledOK
<1>15. ASSUME NEW p \in Procs, uartputc(p) PROVE TypeOK'
  BY <1>15, PutcDoes, Cases, Names, HandlerMoves, Zenon DEF TypeOK, HandlerAt, ConsOK, TxOK,
     UartOK, KilledOK
<1>16. ASSUME NEW p \in Procs, consoleread(p) PROVE TypeOK'
  BY <1>16, ReadDoes, Cases, Names, HandlerMoves, Zenon DEF TypeOK, HandlerAt, ConsOK, TxOK,
     UartOK, KilledOK
<1>17. ASSUME NEW p \in Procs, read_wait(p) PROVE TypeOK'
  BY <1>17, WaitDoes, Cases, Names, HandlerMoves, Zenon DEF TypeOK, HandlerAt, ConsOK, TxOK,
     UartOK, KilledOK
<1>18. ASSUME NEW p \in Procs, read_sleep(p) PROVE TypeOK'
  BY <1>18, SleepDoes, Cases, Names, HandlerMoves, Zenon DEF TypeOK, HandlerAt, ConsOK, TxOK,
     UartOK, KilledOK
<1>19. ASSUME NEW p \in Procs, read_char(p) PROVE TypeOK'
  BY <1>19, CharDoes, Cases, Names, HandlerMoves, Zenon DEF TypeOK, HandlerAt, ConsOK, TxOK,
     UartOK, KilledOK
<1> QED
  BY <1>1, <1>2, <1>3, <1>4, <1>5, <1>6, <1>7, <1>8, <1>9, <1>10, <1>11, <1>12, <1>13, <1>14,
     <1>15, <1>16, <1>17, <1>18, <1>19, Cases, Zenon

(* Who holds the locks.                                                    *)
LEMMA LocksStep ==
    ASSUME TypeOK, OneLine, Locks, Next
    PROVE  Locks'
<1>1. CASE Receive
  BY <1>1, ReceiveDoes, Names, Zenon DEF Locks, Moved, Waking
<1>2. CASE Transmit
  BY <1>2, TransmitDoes, Names, Zenon DEF Locks, Moved, Waking
<1>3. CASE plic_claim
  BY <1>3, ClaimDoes, Names, Zenon DEF Locks, Moved, Waking
<1>4. CASE uartgetc
  BY <1>4, GetcDoes, Names, Zenon DEF Locks, Moved, Waking
<1>5. CASE uartintr
  BY <1>5, IntrDoes, Names, Zenon DEF Locks, Moved, Waking
<1>6. ASSUME NEW c \in Keys, consoleintr(c) PROVE Locks'
  BY <1>6, IntrEdits, Names, Zenon DEF Locks, Moved, Waking
<1>7. ASSUME NEW a \in Actors, uartputc_sync(a) PROVE Locks'
  BY <1>7, SyncDoes, Names, Zenon DEF Locks, Moved, Waking
<1>8. ASSUME NEW a \in Actors, consputc(a) PROVE Locks'
  BY <1>8, ConsputcDoes, Names, Zenon DEF Locks, Moved, Waking
<1>9. ASSUME NEW a \in Actors, uartstart(a) PROVE Locks'
  BY <1>9, StartDoes, Names, Zenon DEF Locks, Moved, Waking
<1>10. ASSUME NEW a \in Actors, uartstart_write(a) PROVE Locks'
  BY <1>10, StartWriteDoes, Names, Zenon DEF Locks, Moved, Waking
<1>11. ASSUME NEW a \in Actors, uartstart_return(a) PROVE Locks'
  BY <1>11, StartReturnDoes, Names, Zenon DEF Locks, Moved, Waking
<1>12. ASSUME NEW p \in Procs, kill(p) PROVE Locks'
  BY <1>12, KillDoes, Names, Zenon DEF Locks, Moved, Waking
<1>13. ASSUME NEW p \in Procs, printf(p) PROVE Locks'
  BY <1>13, PrintfDoes, Names, Zenon DEF Locks, Moved, Waking
<1>14. ASSUME NEW p \in Procs, consolewrite(p) PROVE Locks'
  BY <1>14, WriteDoes, Names, Zenon DEF Locks, Moved, Waking
<1>15. ASSUME NEW p \in Procs, uartputc(p) PROVE Locks'
  <2>1. CASE Full
    BY <1>15, <2>1, PutcDoes, Names, Zenon DEF Locks, Moved
  <2>2. CASE ~Full
    <3>1. tx.lock = None /\ tx'.lock = p /\ Moved(p, "start") /\ UNCHANGED cons
      BY <1>15, <2>2, PutcDoes, Zenon
    <3>2. \A a \in Actors : act[a].pc # "start" /\ act[a].pc # "start_write"
      BY <3>1, Names, Zenon DEF Locks
    <3> QED
      BY <3>1, <3>2, Names, Zenon DEF Locks, Moved
  <2> QED
    BY <2>1, <2>2, Zenon
<1>16. ASSUME NEW p \in Procs, consoleread(p) PROVE Locks'
  BY <1>16, ReadDoes, Names DEF Locks, Moved
<1>17. ASSUME NEW p \in Procs, read_wait(p) PROVE Locks'
  BY <1>17, WaitDoes, Names, Zenon DEF Locks, Moved, Waking
<1>18. ASSUME NEW p \in Procs, read_sleep(p) PROVE Locks'
  BY <1>18, SleepDoes, Names, Zenon DEF Locks, Moved, Waking
<1>19. ASSUME NEW p \in Procs, read_char(p) PROVE Locks'
  BY <1>19, CharDoes, Names, Zenon DEF Locks, Moved, Waking
<1> QED
  BY <1>1, <1>2, <1>3, <1>4, <1>5, <1>6, <1>7, <1>8, <1>9, <1>10, <1>11, <1>12, <1>13, <1>14,
     <1>15, <1>16, <1>17, <1>18, <1>19, Cases, Zenon

(* A ring that does not change.                                            *)
LEMMA OutputSame ==
    ASSUME SameOutput \/ UNCHANGED tx
    PROVE  (Full' <=> Full) /\ (tx'.w = tx'.r <=> tx.w = tx.r) /\ (OutputFits' <=> OutputFits)
BY Zenon DEF SameOutput, Full, Plus64, OutputFits

LEMMA InputSame ==
    ASSUME SameInput \/ UNCHANGED cons
    PROVE  /\ cons'.r = cons'.w <=> cons.r = cons.w
           /\ InputFits' <=> InputFits
           /\ OneLine' <=> OneLine
BY Zenon DEF SameInput, InputFits, OneLine

(* A step of one actor that does not go to sleep.                          *)
LEMMA Awake ==
    ASSUME Sleeping, SameInput \/ UNCHANGED cons, SameOutput \/ UNCHANGED tx, NEW a \in Actors,
           \E s \in {"idle", "getc", "sync", "start", "write", "read"} : Moved(a, s)
    PROVE  Sleeping'
<1>1. PICK s \in {"idle", "getc", "sync", "start", "write", "read"} : Moved(a, s)
  BY Zenon
<1>2. s \notin {"read_sleep", "read_asleep"} /\ s # "write_asleep"
  BY <1>1, Zenon
<1>3. (Full' <=> Full) /\ (cons'.r = cons'.w <=> cons.r = cons.w)
  BY OutputSame, InputSame, Zenon
<1> QED
  BY <1>1, <1>2, <1>3, Names, Zenon DEF Sleeping, Moved

(* No wakeup is lost.                                                      *)
LEMMA SleepingStep ==
    ASSUME TypeOK, OneLine, Locks, Sleeping, Next
    PROVE  Sleeping'
<1>1. CASE Receive
  BY <1>1, ReceiveDoes, OutputSame, InputSame, Names, Zenon DEF Sleeping, Moved, Locks
<1>2. CASE Transmit
  BY <1>2, TransmitDoes, OutputSame, InputSame, Names, Zenon DEF Sleeping, Moved, Locks
<1>3. CASE plic_claim
  BY <1>3, ClaimDoes, OutputSame, InputSame, Names, Zenon DEF Sleeping, Moved, Locks
<1>4. CASE uartgetc
  BY <1>4, GetcDoes, OutputSame, InputSame, Names, Zenon DEF Sleeping, Moved, Locks
<1>5. CASE uartintr
  BY <1>5, IntrDoes, OutputSame, InputSame, Names, Zenon DEF Sleeping, Moved, Locks
<1>6. ASSUME NEW c \in Keys, consoleintr(c) PROVE Sleeping'
  <2>1. act[Intr].pc = "cons" /\ cons.lock = None /\ UNCHANGED tx /\ cons'.r = cons.r
    BY <1>6, IntrEdits, Zenon DEF Edited, Moves, Typed
  <2>2. \A p \in Procs : act[p].pc # "read_sleep"
    BY <2>1, Names, Zenon DEF Locks
  <2>3. PICK s \in {"getc", "sync"} :
           IF cons'.w # cons.w THEN Waking(Intr, s, "read_asleep", "read_woken") ELSE Moved(Intr, s)
    BY <1>6, IntrEdits, Zenon
  <2>4. CASE cons'.w = cons.w
    BY <2>1, <2>2, <2>3, <2>4, Names, OutputSame, Zenon DEF Sleeping, Moved
  <2>5. CASE cons'.w # cons.w
    BY <2>1, <2>2, <2>3, <2>5, Names, OutputSame, Zenon DEF Sleeping, Waking
  <2> QED
    BY <2>4, <2>5, Zenon
<1>7. ASSUME NEW a \in Actors, uartputc_sync(a) PROVE Sleeping'
  BY <1>7, SyncDoes, OutputSame, InputSame, Names, ZenonT(40) DEF Sleeping, Moved, Locks
<1>8. ASSUME NEW a \in Actors, consputc(a) PROVE Sleeping'
  BY <1>8, ConsputcDoes, Awake, Zenon
<1>9. ASSUME NEW a \in Actors, uartstart(a) PROVE Sleeping'
  BY <1>9, StartDoes, Names, InputSame, Zenon DEF Sleeping, Waking
<1>10. ASSUME NEW a \in Actors, uartstart_write(a) PROVE Sleeping'
  BY <1>10, StartWriteDoes, OutputSame, InputSame, Names, Zenon DEF Sleeping, Moved, Locks
<1>11. ASSUME NEW a \in Actors, uartstart_return(a) PROVE Sleeping'
  BY <1>11, StartReturnDoes, OutputSame, InputSame, Names, Zenon DEF Sleeping, Moved, Locks
<1>12. ASSUME NEW p \in Procs, kill(p) PROVE Sleeping'
  BY <1>12, KillDoes, OutputSame, InputSame, Names, Zenon DEF Sleeping, Moved, Locks
<1>13. ASSUME NEW p \in Procs, printf(p) PROVE Sleeping'
  BY <1>13, PrintfDoes, OutputSame, InputSame, Names, Zenon DEF Sleeping, Moved, Locks
<1>14. ASSUME NEW p \in Procs, consolewrite(p) PROVE Sleeping'
  BY <1>14, WriteDoes, Names, Awake, Zenon
<1>15. ASSUME NEW p \in Procs, uartputc(p) PROVE Sleeping'
  <2>1. CASE Full
    <3>1. Moved(p, "write_asleep") /\ UNCHANGED <<cons, tx>>
      BY <1>15, <2>1, PutcDoes, Zenon
    <3>2. Full' /\ (cons'.r = cons'.w <=> cons.r = cons.w)
      BY <2>1, <3>1, OutputSame, InputSame, Zenon
    <3> QED
      BY <3>1, <3>2, Names, Zenon DEF Sleeping, Moved
  <2>2. CASE ~Full
    <3>1. Moved(p, "start") /\ UNCHANGED cons
      BY <1>15, <2>2, PutcDoes, Zenon
    <3>2. \A q \in Procs : act[q].pc # "write_asleep"
      BY <2>2, Zenon DEF Sleeping
    <3> QED
      BY <3>1, <3>2, Names, InputSame, Zenon DEF Sleeping, Moved
  <2> QED
    BY <2>1, <2>2, Zenon
<1>16. ASSUME NEW p \in Procs, consoleread(p) PROVE Sleeping'
  BY <1>16, ReadDoes, Names, Awake, Zenon
<1>17. ASSUME NEW p \in Procs, read_wait(p) PROVE Sleeping'
  BY <1>17, WaitDoes, OutputSame, InputSame, Names, Zenon DEF Sleeping, Moved, Locks
<1>18. ASSUME NEW p \in Procs, read_sleep(p) PROVE Sleeping'
  BY <1>18, SleepDoes, OutputSame, InputSame, Names, Zenon DEF Sleeping, Moved, Locks
<1>19. ASSUME NEW p \in Procs, read_char(p) PROVE Sleeping'
  BY <1>19, CharDoes, OutputSame, InputSame, Names, ZenonT(40) DEF Sleeping, Moved, Locks
<1> QED
  BY <1>1, <1>2, <1>3, <1>4, <1>5, <1>6, <1>7, <1>8, <1>9, <1>10, <1>11, <1>12, <1>13, <1>14,
     <1>15, <1>16, <1>17, <1>18, <1>19, Cases, Zenon

(* The output ring is never left alone.                                    *)
LEMMA OutputStep ==
    ASSUME TypeOK, OneLine, Locks, OutputMoves, Next
    PROVE  OutputMoves'
<1>1. CASE Receive
  BY <1>1, ReceiveDoes, OutputSame, Names, Zenon DEF OutputMoves, Moved, Locks
<1>2. CASE Transmit
  <2>1. uart.thr \in Nat /\ uart.thr > 0 /\ uart'.thr = uart.thr - 1
    BY <1>2, TransmitDoes, Zenon DEF TypeOK, UartOK
  <2>2. uart.thr = 1 \/ uart'.thr > 0
    BY <2>1
  <2> QED
    BY <1>2, <2>2, TransmitDoes, Zenon DEF OutputMoves
<1>3. CASE plic_claim
  BY <1>3, ClaimDoes, OutputSame, Names, Zenon DEF OutputMoves, Moved, Locks
<1>4. CASE uartgetc
  BY <1>4, GetcDoes, OutputSame, Names, Zenon DEF OutputMoves, Moved, Locks
<1>5. CASE uartintr
  BY <1>5, IntrDoes, OutputSame, Names, Zenon DEF OutputMoves, Moved, Locks
<1>6. ASSUME NEW c \in Keys, consoleintr(c) PROVE OutputMoves'
  <2>1. act'[Intr].pc \in {"getc", "sync"}
    BY <1>6, IntrEdits, Names, Zenon DEF Moved, Waking
  <2> QED
    BY <2>1, Zenon DEF OutputMoves
<1>7. ASSUME NEW a \in Actors, uartputc_sync(a) PROVE OutputMoves'
  BY <1>7, SyncDoes, OutputSame, Names, Zenon DEF OutputMoves, Moved, Locks
<1>8. ASSUME NEW a \in Actors, consputc(a) PROVE OutputMoves'
  <2>1. uart'.thr > 0
    BY <1>8, ConsputcDoes DEF TypeOK, UartOK
  <2> QED
    BY <2>1, Zenon DEF OutputMoves
<1>9. ASSUME NEW a \in Actors, uartstart(a) PROVE OutputMoves'
  BY <1>9, StartDoes, Names, Zenon DEF OutputMoves, Locks
<1>10. ASSUME NEW a \in Actors, uartstart_write(a) PROVE OutputMoves'
  <2>1. uart'.thr > 0
    BY <1>10, StartWriteDoes DEF TypeOK, UartOK
  <2> QED
    BY <2>1, Zenon DEF OutputMoves
<1>11. ASSUME NEW a \in Actors, uartstart_return(a) PROVE OutputMoves'
  BY <1>11, StartReturnDoes, OutputSame, Names, Zenon DEF OutputMoves, Moved, Locks
<1>12. ASSUME NEW p \in Procs, kill(p) PROVE OutputMoves'
  BY <1>12, KillDoes, OutputSame, Names, Zenon DEF OutputMoves, Moved, Locks
<1>13. ASSUME NEW p \in Procs, printf(p) PROVE OutputMoves'
  BY <1>13, PrintfDoes, OutputSame, Names, Zenon DEF OutputMoves, Moved, Locks
<1>14. ASSUME NEW p \in Procs, consolewrite(p) PROVE OutputMoves'
  BY <1>14, WriteDoes, OutputSame, Names, Zenon DEF OutputMoves, Moved, Locks
<1>15. ASSUME NEW p \in Procs, uartputc(p) PROVE OutputMoves'
  <2>1. CASE Full
    BY <1>15, <2>1, PutcDoes, Names, Zenon DEF OutputMoves, Moved
  <2>2. CASE ~Full
    <3>1. tx'.lock = p /\ p # None
      BY <1>15, <2>2, PutcDoes, Names, Zenon
    <3> QED
      BY <3>1, Zenon DEF OutputMoves
  <2> QED
    BY <2>1, <2>2, Zenon
<1>16. ASSUME NEW p \in Procs, consoleread(p) PROVE OutputMoves'
  BY <1>16, ReadDoes, OutputSame, Names, Zenon DEF OutputMoves, Moved, Locks
<1>17. ASSUME NEW p \in Procs, read_wait(p) PROVE OutputMoves'
  BY <1>17, WaitDoes, OutputSame, Names, Zenon DEF OutputMoves, Moved, Locks
<1>18. ASSUME NEW p \in Procs, read_sleep(p) PROVE OutputMoves'
  BY <1>18, SleepDoes, OutputSame, Names, Zenon DEF OutputMoves, Moved, Locks
<1>19. ASSUME NEW p \in Procs, read_char(p) PROVE OutputMoves'
  BY <1>19, CharDoes, OutputSame, Names, Zenon DEF OutputMoves, Moved, Locks
<1> QED
  BY <1>1, <1>2, <1>3, <1>4, <1>5, <1>6, <1>7, <1>8, <1>9, <1>10, <1>11, <1>12, <1>13, <1>14,
     <1>15, <1>16, <1>17, <1>18, <1>19, Cases, Zenon

(* How much the input buffer holds, in terms of its indices.               *)
LEMMA InputDist ==
    ASSUME ConsOK, InputFits
    PROVE  /\ Dist(cons.r, cons.w, UINT) \in Nat /\ Dist(cons.w, cons.e, UINT) \in Nat
           /\ Dist(cons.r, cons.e, UINT) = Dist(cons.r, cons.w, UINT) + Dist(cons.w, cons.e, UINT)
           /\ cons.r \in Index(UINT) /\ cons.w \in Index(UINT) /\ cons.e \in Index(UINT)
<1>1. /\ cons.r \in Index(UINT) /\ cons.w \in Index(UINT) /\ cons.e \in Index(UINT)
      /\ UINT \in Nat \ {0}
  BY Sizes, Zenon DEF ConsOK
<1>2. Dist(cons.r, cons.w, UINT) \in Nat
  BY <1>1, DistFacts, Zenon
<1>3. Dist(cons.w, cons.e, UINT) \in Nat
  BY <1>1, DistFacts, Zenon
<1> DEFINE A == Dist(cons.r, cons.w, UINT)
           B == Dist(cons.w, cons.e, UINT)
<1>4. A \in Nat /\ B \in Nat /\ A + B <= INPUT_BUF_SIZE
  BY <1>2, <1>3, Zenon DEF InputFits
<1> HIDE DEF A, B
<1>5. A + B < UINT
  BY <1>4, Sizes
<1>6. Dist(cons.r, cons.w, UINT) + Dist(cons.w, cons.e, UINT) < UINT
  BY <1>5, Zenon DEF A, B
<1> QED
  BY <1>1, <1>2, <1>3, <1>6, DistChain, Zenon

(* A character that is typed is stored after the line, and moves nothing.  *)
LEMMA TypedStored ==
    ASSUME TypeOK, InputFits, NEW d, NEW c, Typed(d, c)
    PROVE  /\ Dist(cons.w, d.e, UINT) = Dist(cons.w, cons.e, UINT) + 1
           /\ Dist(cons.r, d.e, UINT) = Dist(cons.r, cons.e, UINT) + 1
           /\ d.e \in Index(UINT) /\ Dist(cons.r, d.e, UINT) <= INPUT_BUF_SIZE
           /\ \A k \in Nat : k < Dist(cons.w, cons.e, UINT) =>
                 d.buf[(cons.w + k) % INPUT_BUF_SIZE] = cons.buf[(cons.w + k) % INPUT_BUF_SIZE]
           /\ \A k \in Nat : k < Dist(cons.r, cons.e, UINT) =>
                 d.buf[(cons.r + k) % INPUT_BUF_SIZE] = cons.buf[(cons.r + k) % INPUT_BUF_SIZE]
           /\ d.buf[(cons.w + Dist(cons.w, cons.e, UINT)) % INPUT_BUF_SIZE] = c
<1> DEFINE N == INPUT_BUF_SIZE
           A == Dist(cons.r, cons.w, UINT)
           B == Dist(cons.w, cons.e, UINT)
           C == Dist(cons.r, cons.e, UINT)
<1>1. A \in Nat /\ B \in Nat /\ C = A + B
  BY InputDist, Zenon DEF TypeOK
<1>2. cons.r \in Index(UINT) /\ cons.w \in Index(UINT) /\ cons.e \in Index(UINT)
  BY InputDist, Zenon DEF TypeOK
<1>3. C < N /\ d.buf = [cons.buf EXCEPT ![cons.e % N] = c] /\ d.e = (cons.e + 1) % UINT
  BY Zenon DEF Typed
<1>4. N \in Nat \ {0} /\ N \in Nat /\ UINT \in Nat \ {0} /\ UINT \in Nat /\ UINT > N /\ Ring(N, UINT)
  BY Sizes, Zenon
<1>5. cons.buf \in [0 .. N - 1 -> Stored]
  BY Zenon DEF TypeOK, ConsOK
<1> HIDE DEF N, A, B, C
<1>6. B + 1 < UINT /\ C + 1 < UINT /\ B < N /\ C < N /\ C + 1 <= N
  BY <1>1, <1>3, <1>4
<1>7. Dist(cons.w, d.e, UINT) = B + 1
  BY <1>2, <1>3, <1>4, <1>6, DistWrite, Zenon DEF B
<1>8. Dist(cons.r, d.e, UINT) = C + 1 /\ d.e \in Index(UINT)
  BY <1>2, <1>3, <1>4, <1>6, DistWrite, Zenon DEF C
<1>9. ASSUME NEW k \in Nat, k < B PROVE d.buf[(cons.w + k) % N] = cons.buf[(cons.w + k) % N]
  <2>1. (cons.w + k) % N \in 0 .. N - 1 /\ (cons.w + k) % N # cons.e % N
    BY <1>2, <1>4, <1>6, <1>9, Outside, Zenon DEF B
  <2> QED
    BY <1>3, <1>5, <2>1, Zenon
<1>10. ASSUME NEW k \in Nat, k < C PROVE d.buf[(cons.r + k) % N] = cons.buf[(cons.r + k) % N]
  <2>1. (cons.r + k) % N \in 0 .. N - 1 /\ (cons.r + k) % N # cons.e % N
    BY <1>2, <1>4, <1>6, <1>10, Outside, Zenon DEF C
  <2> QED
    BY <1>3, <1>5, <2>1, Zenon
<1>11. d.buf[(cons.w + B) % N] = c
  <2>1. cons.e % N = (cons.w + B) % N /\ cons.e % N \in 0 .. N - 1
    BY <1>2, <1>4, PlaceWrite, ZenonT(40) DEF B
  <2> QED
    BY <1>3, <1>5, <2>1, Zenon
<1> QED
  BY <1>6, <1>7, <1>8, <1>9, <1>10, <1>11, Zenon DEF N, B, C

(* The input buffer never overflows, and what can be edited is one line.   *)
LEMMA EditedFits ==
    ASSUME TypeOK, InputFits, OneLine, ConsOK', Edited(cons')
    PROVE  InputFits' /\ OneLine'
<1> DEFINE N == INPUT_BUF_SIZE
           A == Dist(cons.r, cons.w, UINT)
           B == Dist(cons.w, cons.e, UINT)
           C == Dist(cons.r, cons.e, UINT)
           A1 == Dist(cons'.r, cons'.w, UINT)
           B1 == Dist(cons'.w, cons'.e, UINT)
<1>0. A \in Nat /\ B \in Nat /\ C = A + B /\ A + B <= N
  BY InputDist, Zenon DEF TypeOK, InputFits
<1>u. UINT \in Nat \ {0} /\ N \in Nat
  BY Sizes, Zenon
<1>i. cons.r \in Index(UINT) /\ cons.w \in Index(UINT) /\ cons.e \in Index(UINT)
  BY InputDist, Zenon DEF TypeOK
<1>n. \A k \in 0 .. B - 1 : cons.buf[(cons.w + k) % N] # "nl"
  BY Zenon DEF OneLine
<1>g. /\ InputFits' <=> A1 + B1 <= N
      /\ OneLine' <=> \A k \in 0 .. B1 - 1 : cons'.buf[(cons'.w + k) % N] # "nl"
  BY Zenon DEF InputFits, OneLine
<1>1. CASE Moves(cons', cons.e)
  BY <1>0, <1>g, <1>n, <1>1, Zenon DEF Moves
<1>2. CASE Moves(cons', cons.w)
  <2>1. A1 = A /\ B1 = Dist(cons.w, cons.w, UINT)
    BY <1>2, Zenon DEF Moves
  <2>2. Dist(cons.w, cons.w, UINT) = 0
    BY <1>u, <1>i, DistFacts, Zenon
  <2>3. B1 = 0
    BY <2>1, <2>2, Zenon
  <2> HIDE DEF A, B, A1, B1, C, N
  <2>4. A1 + B1 <= N /\ 0 .. B1 - 1 = {}
    BY <1>0, <1>u, <2>1, <2>3
  <2> QED
    BY <1>g, <2>4, Zenon
<1>3. CASE cons.e # cons.w /\ Moves(cons', (cons.e - 1) % UINT)
  <2>1. A1 = A /\ B1 = Dist(cons.w, (cons.e - 1) % UINT, UINT)
    BY <1>3, Zenon DEF Moves
  <2>2. Dist(cons.w, (cons.e - 1) % UINT, UINT) = B - 1
    BY <1>u, <1>i, <1>3, DistBack, Zenon
  <2>3. B1 = B - 1
    BY <2>1, <2>2, Zenon
  <2> HIDE DEF A, B, A1, B1, C, N
  <2>4. A1 + B1 <= N /\ \A k \in 0 .. B1 - 1 : k \in 0 .. B - 1
    BY <1>0, <1>u, <2>1, <2>3
  <2> QED
    BY <1>g, <1>n, <1>3, <2>4, Zenon DEF Moves
<1>4. ASSUME NEW c \in {"x", "nl", "D"}, Typed(cons', c) PROVE InputFits' /\ OneLine'
  <2>1. /\ Dist(cons.w, cons'.e, UINT) = B + 1 /\ Dist(cons.r, cons'.e, UINT) = C + 1
        /\ cons'.e \in Index(UINT) /\ Dist(cons.r, cons'.e, UINT) <= N
        /\ cons'.buf[(cons.w + B) % N] = c
    BY <1>4, TypedStored, Zenon
  <2>2. \A k \in Nat : k < B => cons'.buf[(cons.w + k) % N] = cons.buf[(cons.w + k) % N]
    BY <1>4, TypedStored, Zenon
  <2>3. cons'.r = cons.r
    BY <1>4, Zenon DEF Typed
  <2>4. CASE cons'.w = cons'.e
    <3>1. B1 = 0
      BY <1>u, <2>1, <2>4, DistFacts
    <3>2. A1 <= N /\ A1 = C + 1
      BY <2>1, <2>3, <2>4, Zenon
    <3> HIDE DEF A, B, A1, B1, C, N
    <3>3. A1 + B1 <= N /\ 0 .. B1 - 1 = {}
      BY <1>0, <1>u, <3>1, <3>2
    <3> QED
      BY <1>g, <3>3, Zenon
  <2>5. CASE cons'.w = cons.w /\ c # "nl"
    <3>1. A1 = A /\ B1 = B + 1 /\ C + 1 <= N
      BY <2>1, <2>3, <2>5, Zenon
    <3>2. ASSUME NEW k \in 0 .. B1 - 1 PROVE cons'.buf[(cons.w + k) % N] # "nl"
      <4>1. k = B \/ (k \in Nat /\ k < B /\ k \in 0 .. B - 1)
        <5> HIDE DEF A, B, A1, B1, C, N
        <5> QED  BY <1>0, <3>1
      <4> QED
        BY <1>n, <2>1, <2>2, <2>5, <4>1, Zenon
    <3> HIDE DEF A, B, A1, B1, C, N
    <3>3. A1 + B1 <= N
      BY <1>0, <1>u, <3>1
    <3> QED
      BY <1>g, <2>5, <3>2, <3>3, Zenon
  <2> QED
    BY <1>4, <2>4, <2>5, Zenon DEF Typed
<1> QED
  BY <1>1, <1>2, <1>3, <1>4, Zenon DEF Edited

LEMMA ReadFits ==
    ASSUME TypeOK, InputFits, OneLine, cons.r # cons.w,
           cons'.buf = cons.buf, cons'.w = cons.w, cons'.e = cons.e,
           cons'.r \in {cons.r, (cons.r + 1) % UINT}
    PROVE  InputFits' /\ OneLine'
<1> DEFINE A == Dist(cons.r, cons.w, UINT)
           B == Dist(cons.w, cons.e, UINT)
           A1 == Dist(cons'.r, cons'.w, UINT)
<1>1. A \in Nat /\ B \in Nat /\ A + B <= INPUT_BUF_SIZE
  BY InputDist, Zenon DEF TypeOK, InputFits
<1>2. UINT \in Nat \ {0} /\ INPUT_BUF_SIZE \in Nat
  BY Sizes, Zenon
<1>3. cons.r \in Index(UINT) /\ cons.w \in Index(UINT)
  BY InputDist, Zenon DEF TypeOK
<1>4. A1 = A \/ A1 = A - 1
  BY <1>2, <1>3, DistRead, Zenon
<1>5. InputFits' <=> A1 + B <= INPUT_BUF_SIZE
  BY Zenon DEF InputFits
<1> HIDE DEF A, B, A1
<1>6. A1 + B <= INPUT_BUF_SIZE
  BY <1>1, <1>2, <1>4
<1> QED
  BY <1>5, <1>6, Zenon DEF OneLine

(* The output ring never overflows: uartputc() writes only while it is not *)
(* full.                                                                   *)
LEMMA PutFits ==
    ASSUME TypeOK, OutputFits, ~Full
    PROVE  /\ Dist(tx.r, tx.w, UINT64) < UART_TX_BUF_SIZE
           /\ Dist(tx.r, tx.w, UINT64) + 1 < UINT64
           /\ tx.r \in Index(UINT64) /\ tx.w \in Index(UINT64)
           /\ Dist(tx.r, (tx.w + 1) % UINT64, UINT64) = Dist(tx.r, tx.w, UINT64) + 1
<1> DEFINE L == Dist(tx.r, tx.w, UINT64)
           N == UART_TX_BUF_SIZE
<1>1. /\ tx.r \in Index(UINT64) /\ tx.w \in Index(UINT64) /\ UINT64 \in Nat \ {0}
      /\ N \in Nat /\ UINT64 > N /\ UINT64 \in Nat
  BY Sizes, Zenon DEF TypeOK, TxOK
<1>2. L \in Nat /\ (L + tx.r) % UINT64 = tx.w
  BY <1>1, DistFacts
<1>3. L <= N
  BY Zenon DEF OutputFits
<1>4. L # N
  <2> SUFFICES ASSUME L = N PROVE FALSE
    BY Zenon
  <2>1. N + tx.r = tx.r + N
    BY <1>1 DEF Index
  <2> QED
    BY <1>2, <2>1, Zenon DEF Full, Plus64
<1>5. L < N /\ L + 1 < UINT64
  <2> HIDE DEF L, N
  <2> QED  BY <1>1, <1>2, <1>3, <1>4
<1> QED
  BY <1>1, <1>5, DistWrite, Zenon

LEMMA SendFits ==
    ASSUME TypeOK, OutputFits, tx.w # tx.r
    PROVE  /\ Dist((tx.r + 1) % UINT64, tx.w, UINT64) <= UART_TX_BUF_SIZE
           /\ tx.r \in Index(UINT64) /\ tx.w \in Index(UINT64)
<1> DEFINE L == Dist(tx.r, tx.w, UINT64)
           L1 == Dist((tx.r + 1) % UINT64, tx.w, UINT64)
<1>1. /\ tx.r \in Index(UINT64) /\ tx.w \in Index(UINT64) /\ UINT64 \in Nat \ {0}
      /\ UART_TX_BUF_SIZE \in Nat
  BY Sizes, Zenon DEF TypeOK, TxOK
<1>2. L \in Nat
  BY <1>1, DistFacts, Zenon
<1>3. L <= UART_TX_BUF_SIZE
  BY Zenon DEF OutputFits
<1>4. L1 = L - 1
  BY <1>1, DistRead, Zenon
<1> HIDE DEF L, L1
<1>5. L1 <= UART_TX_BUF_SIZE
  BY <1>1, <1>2, <1>3, <1>4
<1> QED
  BY <1>1, <1>5, Zenon DEF L1

(* The input buffer.                                                       *)
LEMMA InputStep ==
    ASSUME TypeOK, InputFits, OneLine, Next
    PROVE  InputFits' /\ OneLine'
<1>1. CASE Receive
  BY <1>1, ReceiveDoes, InputSame, Zenon
<1>2. CASE Transmit
  BY <1>2, TransmitDoes, InputSame, Zenon
<1>3. CASE plic_claim
  BY <1>3, ClaimDoes, InputSame, Zenon
<1>4. CASE uartgetc
  BY <1>4, GetcDoes, InputSame, Zenon
<1>5. CASE uartintr
  BY <1>5, IntrDoes, InputSame, Zenon
<1>6. ASSUME NEW c \in Keys, consoleintr(c) PROVE InputFits' /\ OneLine'
  BY <1>6, IntrEdits, EditedFits, Zenon
<1>7. ASSUME NEW a \in Actors, uartputc_sync(a) PROVE InputFits' /\ OneLine'
  BY <1>7, SyncDoes, InputSame, Zenon
<1>8. ASSUME NEW a \in Actors, consputc(a) PROVE InputFits' /\ OneLine'
  BY <1>8, ConsputcDoes, InputSame, Zenon
<1>9. ASSUME NEW a \in Actors, uartstart(a) PROVE InputFits' /\ OneLine'
  BY <1>9, StartDoes, InputSame, Zenon
<1>10. ASSUME NEW a \in Actors, uartstart_write(a) PROVE InputFits' /\ OneLine'
  BY <1>10, StartWriteDoes, InputSame, Zenon
<1>11. ASSUME NEW a \in Actors, uartstart_return(a) PROVE InputFits' /\ OneLine'
  BY <1>11, StartReturnDoes, InputSame, Zenon
<1>12. ASSUME NEW p \in Procs, kill(p) PROVE InputFits' /\ OneLine'
  BY <1>12, KillDoes, InputSame, Zenon
<1>13. ASSUME NEW p \in Procs, printf(p) PROVE InputFits' /\ OneLine'
  BY <1>13, PrintfDoes, InputSame, Zenon
<1>14. ASSUME NEW p \in Procs, consolewrite(p) PROVE InputFits' /\ OneLine'
  BY <1>14, WriteDoes, InputSame, Zenon
<1>15. ASSUME NEW p \in Procs, uartputc(p) PROVE InputFits' /\ OneLine'
  BY <1>15, PutcDoes, InputSame, Zenon
<1>16. ASSUME NEW p \in Procs, consoleread(p) PROVE InputFits' /\ OneLine'
  BY <1>16, ReadDoes, InputSame, Zenon
<1>17. ASSUME NEW p \in Procs, read_wait(p) PROVE InputFits' /\ OneLine'
  BY <1>17, WaitDoes, InputSame, Zenon
<1>18. ASSUME NEW p \in Procs, read_sleep(p) PROVE InputFits' /\ OneLine'
  BY <1>18, SleepDoes, InputSame, Zenon
<1>19. ASSUME NEW p \in Procs, read_char(p) PROVE InputFits' /\ OneLine'
  BY <1>19, CharDoes, ReadFits, Zenon
<1> QED
  BY <1>1, <1>2, <1>3, <1>4, <1>5, <1>6, <1>7, <1>8, <1>9, <1>10, <1>11, <1>12, <1>13, <1>14,
     <1>15, <1>16, <1>17, <1>18, <1>19, Cases, Zenon

(* The output ring.                                                        *)
LEMMA OutputFitsStep ==
    ASSUME TypeOK, OneLine, OutputFits, Next
    PROVE  OutputFits'
<1>1. CASE Receive
  BY <1>1, ReceiveDoes, OutputSame, Zenon
<1>2. CASE Transmit
  BY <1>2, TransmitDoes, OutputSame, Zenon
<1>3. CASE plic_claim
  BY <1>3, ClaimDoes, OutputSame, Zenon
<1>4. CASE uartgetc
  BY <1>4, GetcDoes, OutputSame, Zenon
<1>5. CASE uartintr
  BY <1>5, IntrDoes, OutputSame, Zenon
<1>6. ASSUME NEW c \in Keys, consoleintr(c) PROVE OutputFits'
  BY <1>6, IntrEdits, OutputSame, Zenon
<1>7. ASSUME NEW a \in Actors, uartputc_sync(a) PROVE OutputFits'
  BY <1>7, SyncDoes, OutputSame, Zenon
<1>8. ASSUME NEW a \in Actors, consputc(a) PROVE OutputFits'
  BY <1>8, ConsputcDoes, OutputSame, Zenon
<1>9. ASSUME NEW a \in Actors, uartstart(a) PROVE OutputFits'
  BY <1>9, StartDoes, SendFits, Zenon DEF OutputFits
<1>10. ASSUME NEW a \in Actors, uartstart_write(a) PROVE OutputFits'
  BY <1>10, StartWriteDoes, OutputSame, Zenon
<1>11. ASSUME NEW a \in Actors, uartstart_return(a) PROVE OutputFits'
  BY <1>11, StartReturnDoes, OutputSame, Zenon
<1>12. ASSUME NEW p \in Procs, kill(p) PROVE OutputFits'
  BY <1>12, KillDoes, OutputSame, Zenon
<1>13. ASSUME NEW p \in Procs, printf(p) PROVE OutputFits'
  BY <1>13, PrintfDoes, OutputSame, Zenon
<1>14. ASSUME NEW p \in Procs, consolewrite(p) PROVE OutputFits'
  BY <1>14, WriteDoes, OutputSame, Zenon
<1>15. ASSUME NEW p \in Procs, uartputc(p) PROVE OutputFits'
  <2>1. CASE Full
    BY <1>15, <2>1, PutcDoes, OutputSame, Zenon
  <2>2. CASE ~Full
    <3> DEFINE L == Dist(tx.r, tx.w, UINT64)
               L1 == Dist(tx'.r, tx'.w, UINT64)
    <3>1. L1 = L + 1 /\ L < UART_TX_BUF_SIZE
      BY <1>15, <2>2, PutcDoes, PutFits, Zenon
    <3>2. L \in Nat /\ UART_TX_BUF_SIZE \in Nat
      BY <2>2, PutFits, Sizes, DistFacts, Zenon
    <3> HIDE DEF L, L1
    <3>3. L1 <= UART_TX_BUF_SIZE
      BY <3>1, <3>2
    <3> QED
      BY <3>3, Zenon DEF OutputFits, L1
  <2> QED
    BY <2>1, <2>2, Zenon
<1>16. ASSUME NEW p \in Procs, consoleread(p) PROVE OutputFits'
  BY <1>16, ReadDoes, OutputSame, Zenon
<1>17. ASSUME NEW p \in Procs, read_wait(p) PROVE OutputFits'
  BY <1>17, WaitDoes, OutputSame, Zenon
<1>18. ASSUME NEW p \in Procs, read_sleep(p) PROVE OutputFits'
  BY <1>18, SleepDoes, OutputSame, Zenon
<1>19. ASSUME NEW p \in Procs, read_char(p) PROVE OutputFits'
  BY <1>19, CharDoes, OutputSame, Zenon
<1> QED
  BY <1>1, <1>2, <1>3, <1>4, <1>5, <1>6, <1>7, <1>8, <1>9, <1>10, <1>11, <1>12, <1>13, <1>14,
     <1>15, <1>16, <1>17, <1>18, <1>19, Cases, Zenon

(* Nothing has been typed or written.                                      *)
LEMMA Start == Init => IInv
<1> SUFFICES ASSUME Init PROVE IInv
  BY Zenon
<1>0. /\ INPUT_BUF_SIZE \in Nat \ {0} /\ UART_TX_BUF_SIZE \in Nat \ {0}
      /\ 0 \in Index(UINT) /\ 0 \in Index(UINT64) /\ UINT \in Nat \ {0} /\ UINT64 \in Nat \ {0}
  BY Sizes DEF Index
<1>1. cons.r = 0 /\ cons.w = 0 /\ cons.e = 0 /\ tx.r = 0 /\ tx.w = 0
  BY Zenon DEF Init
<1>2. Dist(0, 0, UINT) = 0 /\ Dist(0, 0, UINT64) = 0
  BY <1>0, DistFacts, Zenon
<1>3. ConsOK
  BY <1>0, Zenon DEF Init, ConsOK, Stored
<1>4. TxOK
  BY <1>0, Zenon DEF Init, TxOK
<1>5. UartOK /\ KilledOK /\ load \in Loads
  <2>1. 0 \in Nat
    BY Zenon
  <2> QED
    BY <2>1, Zenon DEF Init, UartOK, KilledOK
<1>6. ActOK /\ \A a \in Actors : act[a].pc = "idle"
  <2>1. 0 \in Int
    OBVIOUS
  <2> QED
    BY <2>1, Named, Zenon DEF Init, ActOK, Idle
<1>7. Handler
  BY <1>6, Names, Zenon DEF Handler, HandlerAt
<1>8. Locks /\ Sleeping
  BY <1>6, Names, Zenon DEF Locks, Sleeping
<1>9. InputFits /\ OutputFits /\ OneLine
  <2>1. 0 + 0 <= INPUT_BUF_SIZE /\ 0 <= UART_TX_BUF_SIZE /\ 0 .. 0 - 1 = {}
    BY <1>0
  <2> QED
    BY <1>1, <1>2, <2>1, Zenon DEF InputFits, OutputFits, OneLine
<1>10. OutputMoves
  BY <1>1, Zenon DEF OutputMoves
<1> QED
  BY <1>3, <1>4, <1>5, <1>6, <1>7, <1>8, <1>9, <1>10, Zenon DEF IInv, TypeOK

(* Nothing happens.                                                        *)
LEMMA Stutter == IInv /\ UNCHANGED vars => IInv'
<1> SUFFICES ASSUME IInv, UNCHANGED <<cons, tx, uart, act, killed, load>> PROVE IInv'
  BY Zenon DEF vars
<1>1. TypeOK'
  BY Zenon DEF IInv, TypeOK, ConsOK, TxOK, UartOK, ActOK, KilledOK, Handler
<1>2. InputFits' /\ OneLine' /\ OutputFits' /\ (Full' <=> Full)
  BY InputSame, OutputSame, Zenon DEF IInv
<1>3. Locks' /\ Sleeping' /\ OutputMoves'
  BY <1>2, Zenon DEF IInv, Locks, Sleeping, OutputMoves
<1> QED
  BY <1>1, <1>2, <1>3, Zenon DEF IInv

LEMMA Invariance == Spec => []IInv
<1>1. IInv /\ [Next]_vars => IInv'
  <2>1. ASSUME IInv, Next PROVE IInv'
    BY <2>1, TypeStep, LocksStep, SleepingStep, InputStep, OutputFitsStep, OutputStep, Zenon
       DEF IInv
  <2> QED
    BY <2>1, Stutter, Zenon
<1> QED
  BY <1>1, Start, PTL DEF Spec

-----------------------------------------------------------------------------
(* What the runs check.                                                    *)

(* No wakeup is lost in consoleread() or uartputc(), for any number of     *)
(* readers and writers: a process sleeps only while there is nothing to    *)
(* read, or while the output ring is full.                                 *)
THEOREM ConsoleWakesSleepers == Spec => []SleepersJustified
<1>1. IInv => SleepersJustified
  BY Zenon DEF IInv, Sleeping, SleepersJustified, At
<1> QED
  BY <1>1, Invariance, PTL

(* uartstart() leaves characters in the output ring only while the         *)
(* transmitter is busy or its interrupt is pending or being served.        *)
THEOREM ConsoleOutputMoves == Spec => []OutputMoves
<1>1. IInv => OutputMoves
  BY Zenon DEF IInv
<1> QED
  BY <1>1, Invariance, PTL

-----------------------------------------------------------------------------
(* The console is a terminal.                                              *)

In(d, r, w) == Segment(d, r, w, INPUT_BUF_SIZE, UINT)
Out(d, r, w) == Segment(d, r, w, UART_TX_BUF_SIZE, UINT64)

(* What the buffers hold, before and after a step.                         *)
LEMMA Mapping ==
    /\ Line = In(cons.buf, cons.w, cons.e) /\ Ready = In(cons.buf, cons.r, cons.w)
    /\ Output = Out(tx.buf, tx.r, tx.w)
    /\ Line' = In(cons'.buf, cons'.w, cons'.e) /\ Ready' = In(cons'.buf, cons'.r, cons'.w)
    /\ Output' = Out(tx'.buf, tx'.r, tx'.w)
BY Zenon DEF Line, Ready, Output, Minus, Minus64, In, Out, Segment, Dist

LEMMA Unchanging ==
    /\ SameInput \/ UNCHANGED cons => UNCHANGED <<Line, Ready>>
    /\ SameOutput \/ UNCHANGED tx => UNCHANGED Output
BY Mapping, Zenon DEF SameInput, SameOutput

(* Nothing lies between an index and itself.                               *)
LEMMA Nothing ==
    /\ \A d : \A r \in Index(UINT) : In(d, r, r) = << >>
    /\ \A d : \A r \in Index(UINT64) : Out(d, r, r) = << >>
<1>1. ASSUME NEW d, NEW r, NEW N, NEW M \in Nat \ {0}, r \in Index(M)
      PROVE  Segment(d, r, r, N, M) = << >>
  <2>1. Dist(r, r, M) = 0
    BY <1>1, DistFacts, Zenon
  <2>2. Segment(d, r, r, N, M) = [k \in 1 .. 0 |-> d[(r + k - 1) % N]]
    BY <2>1, Zenon DEF Segment
  <2>3. [k \in 1 .. 0 |-> d[(r + k - 1) % N]] = << >>
    OBVIOUS
  <2> QED
    BY <2>2, <2>3, Zenon
<1>2. UINT \in Nat \ {0} /\ UINT64 \in Nat \ {0}
  BY Sizes, Zenon
<1> QED
  BY <1>1, <1>2, Zenon DEF In, Out

(* A character that is typed ends its line, or is added to it.             *)
LEMMA TypedMaps ==
    ASSUME IInv, ConsOK', NEW c \in {"x", "nl", "D"}, Typed(cons', c), UNCHANGED Output
    PROVE  T!Type(c)
<1> DEFINE N == INPUT_BUF_SIZE
           A == Dist(cons.r, cons.w, UINT)
           B == Dist(cons.w, cons.e, UINT)
           C == Dist(cons.r, cons.e, UINT)
           e1 == cons'.e
           b1 == cons'.buf
<1>0. N \in Nat /\ UINT \in Nat /\ UINT \in Nat \ {0} /\ Ring(N, UINT) /\ UINT > N
  BY Sizes, Zenon
<1>1. /\ A \in Nat /\ B \in Nat /\ C = A + B
      /\ cons.r \in Index(UINT) /\ cons.w \in Index(UINT) /\ cons.e \in Index(UINT)
  BY InputDist, Zenon DEF IInv, TypeOK
<1>2. /\ Dist(cons.w, e1, UINT) = B + 1 /\ Dist(cons.r, e1, UINT) = C + 1
      /\ e1 \in Index(UINT)
  BY TypedStored, Zenon DEF IInv
<1>3. \A k \in Nat : k < C => b1[(cons.r + k) % N] = cons.buf[(cons.r + k) % N]
  BY TypedStored, Zenon DEF IInv
<1>4. /\ C < N /\ e1 = (cons.e + 1) % UINT /\ cons'.r = cons.r
      /\ b1 = [cons.buf EXCEPT ![cons.e % N] = c]
      /\ cons'.w = IF c \in {"nl", "D"} \/ Dist(cons.r, e1, UINT) = N THEN e1 ELSE cons.w
  BY Zenon DEF Typed
<1>5. cons.buf \in [0 .. N - 1 -> Stored] /\ b1 \in [0 .. N - 1 -> Stored]
  BY Zenon DEF IInv, TypeOK, ConsOK
<1>6. Agree(cons.buf, b1, cons.e % N, N) /\ b1[cons.e % N] = c
  <2>1. cons.e % N \in 0 .. N - 1
    BY <1>0, <1>1, PlaceWrite, ZenonT(40)
  <2> QED
    BY <1>4, <1>5, <2>1, Zenon DEF Agree
<1>7. B < N /\ B + 1 < UINT /\ A + (B + 1) < UINT
  <2>1. C < N
    BY <1>4, Zenon
  <2> HIDE DEF A, B, C, N
  <2> QED  BY <1>0, <1>1, <2>1
<1>8. In(b1, cons.w, e1) = Append(Line, c)
  <2>1. Appended(Segment(b1, cons.w, (cons.e + 1) % UINT, N, UINT),
                 Segment(cons.buf, cons.w, cons.e, N, UINT), b1[cons.e % N])
    BY <1>0, <1>1, <1>5, <1>6, <1>7, SegmentWrite, ZenonT(40)
  <2> QED
    BY <1>4, <1>6, <2>1, Mapping, Zenon DEF In, Appended
<1>9. In(b1, cons.r, cons.w) = Ready
  <2>1. ASSUME NEW k \in Nat, k < A PROVE b1[(cons.r + k) % N] = cons.buf[(cons.r + k) % N]
    <3>1. k < C
      <4> HIDE DEF A, B, C, N
      <4> QED  BY <1>1, <2>1
    <3> QED
      BY <1>3, <3>1, Zenon
  <2>2. Segment(b1, cons.r, cons.w, N, UINT) = Segment(cons.buf, cons.r, cons.w, N, UINT)
    BY <1>0, <1>1, <2>1, SegmentSame
  <2> QED
    BY <2>2, Mapping, Zenon DEF In
<1>10. Len(Ready) = A /\ Len(Line) = B
  BY <1>0, <1>1, SegmentLen, Mapping, Zenon DEF In
<1>11. Len(Append(Line, c)) = B + 1
  <2>1. Len(In(b1, cons.w, e1)) = Dist(cons.w, e1, UINT)
    BY <1>0, <1>1, <1>2, SegmentLen, ZenonT(40) DEF In
  <2> QED
    BY <1>2, <1>8, <2>1, Zenon
<1>12. Len(Ready) + Len(Line) < N
  BY <1>1, <1>4, <1>10, Zenon
<1>13. Len(Ready) + Len(Append(Line, c)) = Dist(cons.r, e1, UINT)
  <2>1. A + (B + 1) = C + 1
    <3> HIDE DEF A, B, C, N
    <3> QED  BY <1>1
  <2> QED
    BY <1>2, <1>10, <1>11, <2>1, Zenon
<1>14. CASE c \in {"nl", "D"} \/ Dist(cons.r, e1, UINT) = N
  <2>1. cons'.w = e1
    BY <1>4, <1>14, Zenon
  <2>2. Line' = << >>
    BY <1>2, <2>1, Nothing, Mapping, Zenon
  <2>3. In(b1, cons.r, e1) = In(b1, cons.r, cons.w) \o In(b1, cons.w, e1)
    <3>1. A + Dist(cons.w, e1, UINT) < UINT
      BY <1>2, <1>7, Zenon
    <3>2. Joins(Segment(b1, cons.r, e1, N, UINT), Segment(b1, cons.r, cons.w, N, UINT),
                Segment(b1, cons.w, e1, N, UINT))
      BY <1>0, <1>1, <1>2, <1>5, <3>1, SegmentJoin, ZenonT(40)
    <3> QED
      BY <3>2, Zenon DEF In, Joins
  <2>4. Ready' = Ready \o Append(Line, c)
    BY <1>4, <1>8, <1>9, <2>1, <2>3, Mapping, Zenon
  <2> QED
    BY <1>12, <1>13, <1>14, <2>2, <2>4, Zenon DEF T!Type
<1>15. CASE ~(c \in {"nl", "D"} \/ Dist(cons.r, e1, UINT) = N)
  <2>1. cons'.w = cons.w
    BY <1>4, <1>15, Zenon
  <2>2. Line' = Append(Line, c) /\ Ready' = Ready
    BY <1>4, <1>8, <1>9, <2>1, Mapping, Zenon
  <2> QED
    BY <1>12, <1>13, <1>15, <2>2, Zenon DEF T!Type
<1> QED
  BY <1>14, <1>15, Zenon

(* consoleintr() types, erases, kills the line, or changes nothing.        *)
LEMMA EditedMaps ==
    ASSUME IInv, ConsOK', Edited(cons'), UNCHANGED tx
    PROVE  T!Next \/ UNCHANGED T!tvars
<1>1. UNCHANGED Output
  BY Unchanging, Zenon
<1>2. UINT \in Nat \ {0} /\ UINT \in Nat /\ INPUT_BUF_SIZE \in Nat /\ Ring(INPUT_BUF_SIZE, UINT)
  BY Sizes, Zenon
<1>3. cons.r \in Index(UINT) /\ cons.w \in Index(UINT) /\ cons.e \in Index(UINT)
  BY InputDist, Zenon DEF IInv, TypeOK
<1>4. CASE Moves(cons', cons.e)
  BY <1>1, <1>4, Unchanging, Zenon DEF Moves, SameInput, T!tvars
<1>5. CASE Moves(cons', cons.w)
  <2>1. Line' = << >> /\ Ready' = Ready
    BY <1>3, <1>5, Mapping, Nothing, Zenon DEF Moves
  <2> QED
    BY <1>1, <2>1, Zenon DEF T!Kill, T!Next
<1>6. CASE cons.e # cons.w /\ Moves(cons', (cons.e - 1) % UINT)
  <2>1. Ready' = Ready /\ Line' = In(cons.buf, cons.w, (cons.e - 1) % UINT)
    BY <1>6, Mapping, Zenon DEF Moves
  <2>2. cons.buf \in [0 .. INPUT_BUF_SIZE - 1 -> Stored]
    BY Zenon DEF IInv, TypeOK, ConsOK
  <2>3. Line # << >> /\ Line' = SubSeq(Line, 1, Len(Line) - 1)
    BY <1>2, <1>3, <1>6, <2>1, <2>2, SegmentBack, Mapping, ZenonT(40) DEF In
  <2> QED
    BY <1>1, <2>1, <2>3, Zenon DEF T!Erase, T!Next
<1>7. ASSUME NEW c \in {"x", "nl", "D"}, Typed(cons', c) PROVE T!Next
  BY <1>1, <1>7, TypedMaps, Zenon DEF T!Next
<1> QED
  BY <1>4, <1>5, <1>6, <1>7, Zenon DEF Edited

(* Every step is a step of the terminal, or none.                          *)
LEMMA StepMaps ==
    ASSUME IInv, Next
    PROVE  T!Next \/ UNCHANGED T!tvars
<1>0. TypeOK
  BY Zenon DEF IInv
<1>1. CASE Receive
  BY <1>1, ReceiveDoes, Unchanging, Zenon DEF IInv, T!tvars
<1>2. CASE Transmit
  BY <1>2, TransmitDoes, Unchanging, Zenon DEF IInv, T!tvars
<1>3. CASE plic_claim
  BY <1>3, ClaimDoes, Unchanging, Zenon DEF IInv, T!tvars
<1>4. CASE uartgetc
  BY <1>4, GetcDoes, Unchanging, Zenon DEF IInv, T!tvars
<1>5. CASE uartintr
  BY <1>5, IntrDoes, Unchanging, Zenon DEF IInv, T!tvars
<1>6. ASSUME NEW c \in Keys, consoleintr(c) PROVE T!Next \/ UNCHANGED T!tvars
  BY <1>6, IntrEdits, EditedMaps, Zenon DEF IInv
<1>7. ASSUME NEW a \in Actors, uartputc_sync(a) PROVE T!Next \/ UNCHANGED T!tvars
  BY <1>7, SyncDoes, Unchanging, Zenon DEF IInv, T!tvars
<1>8. ASSUME NEW a \in Actors, consputc(a) PROVE T!Next \/ UNCHANGED T!tvars
  BY <1>8, ConsputcDoes, Unchanging, Zenon DEF IInv, T!tvars
<1>9. ASSUME NEW a \in Actors, uartstart(a) PROVE T!Next \/ UNCHANGED T!tvars
  <2>1. /\ tx.w # tx.r /\ UNCHANGED cons /\ tx'.buf = tx.buf /\ tx'.w = tx.w
        /\ tx'.r = (tx.r + 1) % UINT64
    BY <1>9, StartDoes, Zenon DEF IInv
  <2>2. UNCHANGED <<Line, Ready>>
    BY <2>1, Unchanging, Zenon
  <2>3. /\ UART_TX_BUF_SIZE \in Nat /\ UINT64 \in Nat /\ Ring(UART_TX_BUF_SIZE, UINT64)
        /\ tx.buf \in [0 .. UART_TX_BUF_SIZE - 1 -> Procs \cup {None}]
        /\ tx.r \in Index(UINT64) /\ tx.w \in Index(UINT64)
    BY Sizes, Zenon DEF IInv, TypeOK, TxOK
  <2>4. Output # << >> /\ Output' = Tail(Output)
    <3>1. Behead(Segment(tx.buf, (tx.r + 1) % UINT64, tx.w, UART_TX_BUF_SIZE, UINT64),
                 Segment(tx.buf, tx.r, tx.w, UART_TX_BUF_SIZE, UINT64),
                 tx.buf[tx.r % UART_TX_BUF_SIZE])
      BY <2>1, <2>3, SegmentRead, ZenonT(40)
    <3> QED
      BY <2>1, <3>1, Mapping, Zenon DEF Out, Behead
  <2> QED
    BY <2>2, <2>4, Zenon DEF T!Send, T!Next
<1>10. ASSUME NEW a \in Actors, uartstart_write(a) PROVE T!Next \/ UNCHANGED T!tvars
  BY <1>10, StartWriteDoes, Unchanging, Zenon DEF IInv, T!tvars
<1>11. ASSUME NEW a \in Actors, uartstart_return(a) PROVE T!Next \/ UNCHANGED T!tvars
  BY <1>11, StartReturnDoes, Unchanging, Zenon DEF IInv, T!tvars
<1>12. ASSUME NEW p \in Procs, kill(p) PROVE T!Next \/ UNCHANGED T!tvars
  BY <1>12, KillDoes, Unchanging, Zenon DEF IInv, T!tvars
<1>13. ASSUME NEW p \in Procs, printf(p) PROVE T!Next \/ UNCHANGED T!tvars
  BY <1>13, PrintfDoes, Unchanging, Zenon DEF IInv, T!tvars
<1>14. ASSUME NEW p \in Procs, consolewrite(p) PROVE T!Next \/ UNCHANGED T!tvars
  BY <1>14, WriteDoes, Unchanging, Zenon DEF IInv, T!tvars
<1>15. ASSUME NEW p \in Procs, uartputc(p) PROVE T!Next \/ UNCHANGED T!tvars
  <2>1. UNCHANGED <<Line, Ready>>
    BY <1>15, PutcDoes, Unchanging, Zenon DEF IInv
  <2>2. CASE Full
    BY <1>15, <2>1, <2>2, PutcDoes, Unchanging, Zenon DEF IInv, T!tvars
  <2>3. CASE ~Full
    <3> DEFINE N == UART_TX_BUF_SIZE
               b == tx'.buf
    <3>1. b = [tx.buf EXCEPT ![tx.w % N] = p] /\ tx'.r = tx.r /\ tx'.w = (tx.w + 1) % UINT64 /\ TxOK'
      BY <1>15, <2>3, PutcDoes, Zenon DEF IInv
    <3>2. /\ Dist(tx.r, tx.w, UINT64) < N /\ Dist(tx.r, tx.w, UINT64) + 1 < UINT64
          /\ tx.r \in Index(UINT64) /\ tx.w \in Index(UINT64)
      BY <2>3, PutFits, Zenon DEF IInv
    <3>3. N \in Nat /\ UINT64 \in Nat /\ UINT64 \in Nat \ {0} /\ Ring(N, UINT64)
      BY Sizes, Zenon
    <3>4. tx.buf \in [0 .. N - 1 -> Procs \cup {None}] /\ b \in [0 .. N - 1 -> Procs \cup {None}]
      BY <3>1, Zenon DEF IInv, TypeOK, TxOK
    <3>5. Agree(tx.buf, b, tx.w % N, N) /\ b[tx.w % N] = p
      <4>1. tx.w % N \in 0 .. N - 1
        BY <3>2, <3>3, PlaceWrite, ZenonT(40)
      <4> QED
        BY <3>1, <3>4, <4>1, Zenon DEF Agree
    <3>6. Output' = Append(Output, p)
      <4>1. Appended(Segment(b, tx.r, (tx.w + 1) % UINT64, N, UINT64),
                     Segment(tx.buf, tx.r, tx.w, N, UINT64), b[tx.w % N])
        BY <3>2, <3>3, <3>4, <3>5, SegmentWrite, ZenonT(40)
      <4> QED
        BY <3>1, <3>5, <4>1, Mapping, Zenon DEF Out, Appended
    <3>7. Len(Output) < N
      BY <3>2, <3>3, SegmentLen, Mapping, Zenon DEF Out
    <3> QED
      BY <2>1, <3>6, <3>7, Zenon DEF T!Put, T!Next
  <2> QED
    BY <2>2, <2>3, Zenon
<1>16. ASSUME NEW p \in Procs, consoleread(p) PROVE T!Next \/ UNCHANGED T!tvars
  BY <1>16, ReadDoes, Unchanging, Zenon DEF IInv, T!tvars
<1>17. ASSUME NEW p \in Procs, read_wait(p) PROVE T!Next \/ UNCHANGED T!tvars
  BY <1>17, WaitDoes, Unchanging, Zenon DEF IInv, T!tvars
<1>18. ASSUME NEW p \in Procs, read_sleep(p) PROVE T!Next \/ UNCHANGED T!tvars
  BY <1>18, SleepDoes, Unchanging, Zenon DEF IInv, T!tvars
<1>19. ASSUME NEW p \in Procs, read_char(p) PROVE T!Next \/ UNCHANGED T!tvars
  <2>1. /\ cons.r # cons.w /\ UNCHANGED tx
        /\ cons'.buf = cons.buf /\ cons'.w = cons.w /\ cons'.e = cons.e
        /\ cons'.r \in {cons.r, (cons.r + 1) % UINT}
    BY <1>19, CharDoes, Zenon DEF IInv
  <2>2. UNCHANGED Output /\ UNCHANGED Line
    BY <2>1, Unchanging, Mapping, Zenon
  <2>3. CASE cons'.r = cons.r
    BY <2>1, <2>2, <2>3, Unchanging, Zenon DEF SameInput, T!tvars
  <2>4. CASE cons'.r = (cons.r + 1) % UINT
    <3>1. INPUT_BUF_SIZE \in Nat /\ UINT \in Nat /\ Ring(INPUT_BUF_SIZE, UINT)
      BY Sizes, Zenon
    <3>2. /\ cons.buf \in [0 .. INPUT_BUF_SIZE - 1 -> Stored]
          /\ cons.r \in Index(UINT) /\ cons.w \in Index(UINT)
      BY Zenon DEF IInv, TypeOK, ConsOK
    <3>3. Ready # << >> /\ Ready' = Tail(Ready)
      <4>1. Behead(Segment(cons.buf, (cons.r + 1) % UINT, cons.w, INPUT_BUF_SIZE, UINT),
                   Segment(cons.buf, cons.r, cons.w, INPUT_BUF_SIZE, UINT),
                   cons.buf[cons.r % INPUT_BUF_SIZE])
        BY <2>1, <3>1, <3>2, SegmentRead, ZenonT(40)
      <4> QED
        BY <2>1, <2>4, <4>1, Mapping, Zenon DEF In, Behead
    <3> QED
      BY <2>2, <3>3, Zenon DEF T!Read, T!Next
  <2> QED
    BY <2>1, <2>3, <2>4, Zenon
<1> QED
  BY <1>1, <1>2, <1>3, <1>4, <1>5, <1>6, <1>7, <1>8, <1>9, <1>10, <1>11, <1>12, <1>13, <1>14,
     <1>15, <1>16, <1>17, <1>18, <1>19, <1>0, Cases, Zenon

(* Whatever is typed, erased, read, written and sent in whatever order, and *)
(* wherever the indices have wrapped: consoleintr() and consoleread() are  *)
(* the two ends of a queue of lines that can be edited until they end,     *)
(* uartputc() and uartstart() those of a queue of output.                  *)
THEOREM ConsoleImplementsTerminal == Spec => ImplementsTerminal
<1>1. Init => T!Init
  <2> SUFFICES ASSUME Init PROVE T!Init
    BY Zenon
  <2>1. /\ cons.r = 0 /\ cons.w = 0 /\ cons.e = 0 /\ tx.r = 0 /\ tx.w = 0
        /\ 0 \in Index(UINT) /\ 0 \in Index(UINT64)
    BY Sizes DEF Init, Index
  <2> QED
    BY <2>1, Mapping, Nothing, Zenon DEF T!Init
<1>2. IInv /\ [Next]_vars => [T!Next]_(T!tvars)
  <2>1. ASSUME UNCHANGED vars PROVE UNCHANGED T!tvars
    BY <2>1, Unchanging, Zenon DEF vars, T!tvars
  <2> QED
    BY <2>1, StepMaps, Zenon
<1> QED
  BY <1>1, <1>2, Invariance, PTL DEF Spec, ImplementsTerminal, T!Spec

-----------------------------------------------------------------------------
(* The transmitter.                                                        *)

(* Who has seen it empty, and has not written yet.                         *)
AboutTo == {"sync_write", "start_write"}
Writing == {a \in Actors : act[a].pc \in AboutTo}

(* A step leaves these alone and writes nothing, finds the transmitter     *)
(* empty, or is the write of one of them.                                  *)
Idles == Writing' = Writing /\ uart'.thr <= uart.thr
Looks == uart.thr = 0 /\ uart'.thr = 0
Writes == \E a \in Writing : Writing' = Writing \ {a} /\ uart'.thr = uart.thr + 1

LEMMA Bystander ==
    ASSUME NEW a \in Actors, act[a].pc \notin AboutTo, NEW s, s \notin AboutTo,
           Moved(a, s) \/ Waking(a, s, "read_asleep", "read_woken")
    PROVE  Writing' = Writing
<1>1. "read_asleep" \notin AboutTo /\ "read_woken" \notin AboutTo
  BY Zenon DEF AboutTo
<1>2. ASSUME NEW b \in Actors PROVE act'[b].pc \in AboutTo <=> act[b].pc \in AboutTo
  BY <1>1, Zenon DEF Moved, Waking
<1> QED
  BY <1>2, Zenon DEF Writing

LEMMA Writer ==
    ASSUME NEW a \in Actors, act[a].pc \in AboutTo, NEW s, s \notin AboutTo, Moved(a, s)
    PROVE  a \in Writing /\ Writing' = Writing \ {a}
<1>1. ASSUME NEW b \in Actors PROVE act'[b].pc \in AboutTo <=> act[b].pc \in AboutTo /\ b # a
  BY Zenon DEF Moved
<1> QED
  BY <1>1, Zenon DEF Writing

(* The places that are not about to write.                                 *)
LEMMA Elsewhere ==
    \A s \in {"idle", "getc", "cons", "sync", "start_want", "start", "write", "write_asleep", "write_woken",
             "read", "read_sleep", "read_asleep", "read_woken"} : s \notin AboutTo
BY Zenon DEF AboutTo

LEMMA WritingStep ==
    ASSUME IInv, Next
    PROVE  Idles \/ Looks \/ Writes
<1>0. TypeOK /\ OneLine
  BY Zenon DEF IInv
<1>t. uart.thr \in Nat /\ uart.thr <= uart.thr
  BY <1>0 DEF TypeOK, UartOK
<1>1. CASE Receive
  BY <1>1, <1>0, <1>t, ReceiveDoes, Zenon DEF Idles, Writing
<1>2. CASE Transmit
  <2>1. uart.thr - 1 <= uart.thr
    BY <1>t
  <2> QED
    BY <1>2, <1>0, <2>1, TransmitDoes, Zenon DEF Idles, Writing
<1>3. CASE plic_claim
  <2>1. Writing' = Writing
    BY <1>3, <1>0, ClaimDoes, Names, Bystander, Elsewhere, Zenon
  <2> QED
    BY <1>3, <1>0, <1>t, <2>1, ClaimDoes, Zenon DEF Idles
<1>4. CASE uartgetc
  <2>1. Writing' = Writing
    BY <1>4, <1>0, GetcDoes, Names, Bystander, Elsewhere, Zenon
  <2> QED
    BY <1>4, <1>0, <1>t, <2>1, GetcDoes, Zenon DEF Idles
<1>5. CASE uartintr
  <2>1. Writing' = Writing
    BY <1>5, <1>0, IntrDoes, Names, Bystander, Elsewhere, Zenon
  <2> QED
    BY <1>5, <1>0, <1>t, <2>1, IntrDoes, Zenon DEF Idles
<1>6. ASSUME NEW c \in Keys, consoleintr(c) PROVE Idles \/ Looks \/ Writes
  <2>1. act[Intr].pc = "cons" /\ UNCHANGED uart
    BY <1>6, <1>0, IntrEdits, Zenon
  <2>2. PICK s \in {"getc", "sync"} :
           Moved(Intr, s) \/ Waking(Intr, s, "read_asleep", "read_woken")
    BY <1>6, <1>0, IntrEdits, Zenon
  <2>3. Writing' = Writing
    BY <2>1, <2>2, Names, Bystander, Elsewhere, Zenon
  <2> QED
    BY <1>t, <2>1, <2>3, Zenon DEF Idles
<1>7. ASSUME NEW a \in Actors, uartputc_sync(a) PROVE Idles \/ Looks \/ Writes
  BY <1>7, <1>0, SyncDoes, Zenon DEF Looks
<1>8. ASSUME NEW a \in Actors, consputc(a) PROVE Idles \/ Looks \/ Writes
  <2>1. act[a].pc \in AboutTo /\ uart'.thr = uart.thr + 1
    BY <1>8, <1>0, ConsputcDoes, Zenon DEF AboutTo
  <2>2. a \in Writing /\ Writing' = Writing \ {a}
    BY <1>8, <1>0, <2>1, ConsputcDoes, Writer, Elsewhere, Zenon
  <2> QED
    BY <2>1, <2>2, Zenon DEF Writes
<1>9. ASSUME NEW a \in Actors, uartstart(a) PROVE Idles \/ Looks \/ Writes
  BY <1>9, <1>0, StartDoes, Zenon DEF Looks
<1>10. ASSUME NEW a \in Actors, uartstart_write(a) PROVE Idles \/ Looks \/ Writes
  <2>1. act[a].pc \in AboutTo /\ uart'.thr = uart.thr + 1
    BY <1>10, <1>0, StartWriteDoes, Zenon DEF AboutTo
  <2>2. a \in Writing /\ Writing' = Writing \ {a}
    BY <1>10, <1>0, <2>1, StartWriteDoes, Writer, Elsewhere, Zenon
  <2> QED
    BY <2>1, <2>2, Zenon DEF Writes
<1>11. ASSUME NEW a \in Actors, uartstart_return(a) PROVE Idles \/ Looks \/ Writes
  <2>1. Writing' = Writing
    <3>1. PICK s \in {"idle", "write"} : Moved(a, s)
      BY <1>11, <1>0, StartReturnDoes, Zenon
    <3> QED
      BY <1>11, <1>0, <3>1, StartReturnDoes, Bystander, Elsewhere, Zenon
  <2> QED
    BY <1>11, <1>0, <1>t, <2>1, StartReturnDoes, Zenon DEF Idles
<1>12. ASSUME NEW p \in Procs, kill(p) PROVE Idles \/ Looks \/ Writes
  <2>1. Writing' = Writing
    BY <1>12, <1>0, KillDoes, Names, Bystander, Elsewhere, Zenon DEF Writing
  <2> QED
    BY <1>12, <1>0, <1>t, <2>1, KillDoes, Zenon DEF Idles
<1>13. ASSUME NEW p \in Procs, printf(p) PROVE Idles \/ Looks \/ Writes
  <2>1. Writing' = Writing
    BY <1>13, <1>0, PrintfDoes, Names, Bystander, Elsewhere, Zenon
  <2> QED
    BY <1>13, <1>0, <1>t, <2>1, PrintfDoes, Zenon DEF Idles
<1>14. ASSUME NEW p \in Procs, consolewrite(p) PROVE Idles \/ Looks \/ Writes
  <2>1. Writing' = Writing
    BY <1>14, <1>0, WriteDoes, Names, Bystander, Elsewhere, Zenon
  <2> QED
    BY <1>14, <1>0, <1>t, <2>1, WriteDoes, Zenon DEF Idles
<1>15. ASSUME NEW p \in Procs, uartputc(p) PROVE Idles \/ Looks \/ Writes
  <2>1. Writing' = Writing
    BY <1>15, <1>0, PutcDoes, Names, Bystander, Elsewhere, Zenon
  <2> QED
    BY <1>15, <1>0, <1>t, <2>1, PutcDoes, Zenon DEF Idles
<1>16. ASSUME NEW p \in Procs, consoleread(p) PROVE Idles \/ Looks \/ Writes
  <2>1. Writing' = Writing
    BY <1>16, <1>0, ReadDoes, Names, Bystander, Elsewhere, Zenon
  <2> QED
    BY <1>16, <1>0, <1>t, <2>1, ReadDoes, Zenon DEF Idles
<1>17. ASSUME NEW p \in Procs, read_wait(p) PROVE Idles \/ Looks \/ Writes
  <2>1. Writing' = Writing
    BY <1>17, <1>0, WaitDoes, Names, Bystander, Elsewhere, Zenon
  <2> QED
    BY <1>17, <1>0, <1>t, <2>1, WaitDoes, Zenon DEF Idles
<1>18. ASSUME NEW p \in Procs, read_sleep(p) PROVE Idles \/ Looks \/ Writes
  <2>1. Writing' = Writing
    BY <1>18, <1>0, SleepDoes, Names, Bystander, Elsewhere, Zenon
  <2> QED
    BY <1>18, <1>0, <1>t, <2>1, SleepDoes, Zenon DEF Idles
<1>19. ASSUME NEW p \in Procs, read_char(p) PROVE Idles \/ Looks \/ Writes
  <2>1. Writing' = Writing
    BY <1>19, <1>0, CharDoes, Names, Bystander, Elsewhere, Zenon
  <2> QED
    BY <1>19, <1>0, <1>t, <2>1, CharDoes, Zenon DEF Idles
<1> QED
  BY <1>1, <1>2, <1>3, <1>4, <1>5, <1>6, <1>7, <1>8, <1>9, <1>10, <1>11, <1>12, <1>13, <1>14,
     <1>15, <1>16, <1>17, <1>18, <1>19, <1>0, Cases, Zenon

-----------------------------------------------------------------------------
INSTANCE FiniteSetTheorems

(* Everyone who is about to write has a place left for it.                 *)
RoomLeft == uart.thr + Cardinality(Writing) <= Cardinality(Actors)

LEMMA PlacesStep ==
    ASSUME IsFiniteSet(Actors), IInv, IInv', RoomLeft, Next
    PROVE  RoomLeft'
<1> DEFINE n == Cardinality(Writing)
           n1 == Cardinality(Writing')
           m == Cardinality(Actors)
<1>1. IsFiniteSet(Writing) /\ IsFiniteSet(Writing') /\ n1 <= m
  <2>1. Writing \subseteq Actors /\ Writing' \subseteq Actors
    BY Zenon DEF Writing
  <2> QED
    BY <2>1, FS_Subset, Zenon
<1>2. n \in Nat /\ n1 \in Nat /\ m \in Nat
  BY <1>1, FS_CardinalityType, Zenon
<1>3. uart.thr \in Nat /\ uart'.thr \in Nat
  BY Zenon DEF IInv, TypeOK, UartOK
<1>4. uart.thr + n <= m /\ (RoomLeft' <=> uart'.thr + n1 <= m)
  BY Zenon DEF RoomLeft
<1>5. CASE Idles
  <2>1. n1 = n /\ uart'.thr <= uart.thr
    BY <1>5, Zenon DEF Idles
  <2> HIDE DEF n, n1, m
  <2>2. uart'.thr + n1 <= m
    BY <1>2, <1>3, <1>4, <2>1, SMTT(30)
  <2> QED
    BY <1>4, <2>2, Zenon
<1>6. CASE Looks
  <2>1. uart'.thr = 0
    BY <1>6, Zenon DEF Looks
  <2> HIDE DEF n, n1, m
  <2>2. uart'.thr + n1 <= m
    BY <1>1, <1>2, <2>1, SMTT(30)
  <2> QED
    BY <1>4, <2>2, Zenon
<1>7. CASE Writes
  <2>1. PICK a \in Writing : Writing' = Writing \ {a} /\ uart'.thr = uart.thr + 1
    BY <1>7, Zenon DEF Writes
  <2>2. Cardinality(Writing \ {a}) = n - 1
    BY <1>1, FS_RemoveElement, Zenon
  <2>3. n1 = n - 1
    BY <2>1, <2>2, Zenon
  <2> HIDE DEF n, n1, m
  <2>4. uart'.thr + n1 <= m
    BY <1>2, <1>3, <1>4, <2>1, <2>3, SMTT(30)
  <2> QED
    BY <1>4, <2>4, Zenon
<1> QED
  BY <1>5, <1>6, <1>7, WritingStep, Zenon

(* The transmitter is never written to while it is full, though            *)
(* uartputc_sync() takes no lock: each CPU looks before it writes, and the *)
(* FIFO has room for one character of each of them.                        *)
THEOREM ConsoleNoOverrun ==
    ASSUME IsFiniteSet(Procs), FIFO \in Nat, Cardinality(Procs) < FIFO
    PROVE  Spec => []NoOverrun
<1>1. IsFiniteSet(Actors) /\ Cardinality(Actors) <= FIFO /\ Cardinality(Actors) \in Nat
  <2>1. /\ IsFiniteSet(Procs \cup {Intr}) /\ Cardinality(Procs) \in Nat
        /\ Cardinality(Procs \cup {Intr}) = Cardinality(Procs) + 1
    BY FS_AddElement, FS_CardinalityType, ActorAssumption, Zenon
  <2>2. Cardinality(Procs) + 1 <= FIFO /\ Cardinality(Procs) + 1 \in Nat
    BY <2>1, SMTT(30)
  <2> QED
    BY <2>1, <2>2, Zenon DEF Actors
<1>2. Init => RoomLeft
  <2> SUFFICES ASSUME Init PROVE RoomLeft
    BY Zenon
  <2>1. ASSUME NEW a \in Actors PROVE act[a].pc = "idle"
    BY <2>1, Zenon DEF Init, Idle
  <2>2. Writing = {}
    BY <2>1, Elsewhere, Zenon DEF Writing
  <2>3. uart.thr = 0 /\ Cardinality({}) = 0
    BY FS_EmptySet, Zenon DEF Init
  <2>4. 0 + 0 <= Cardinality(Actors)
    BY <1>1, SMTT(30)
  <2> QED
    BY <2>2, <2>3, <2>4, Zenon DEF RoomLeft
<1>3. IInv /\ IInv' /\ RoomLeft /\ [Next]_vars => RoomLeft'
  <2>1. ASSUME RoomLeft, UNCHANGED vars PROVE RoomLeft'
    BY <2>1, Zenon DEF RoomLeft, Writing, vars
  <2> QED
    BY <1>1, <2>1, PlacesStep, Zenon
<1>4. IInv /\ RoomLeft => NoOverrun
  <2> SUFFICES ASSUME IInv, RoomLeft PROVE NoOverrun
    BY Zenon
  <2> DEFINE n == Cardinality(Writing)
  <2>1. n \in Nat
    <3>1. Writing \subseteq Actors
      BY Zenon DEF Writing
    <3> QED
      BY <1>1, <3>1, FS_Subset, FS_CardinalityType, Zenon
  <2>2. uart.thr \in Nat /\ uart.thr + n <= Cardinality(Actors)
    BY Zenon DEF IInv, TypeOK, UartOK, RoomLeft
  <2> HIDE DEF n
  <2> QED
    BY <1>1, <2>1, <2>2, SMTT(30) DEF NoOverrun
<1> QED
  BY <1>2, <1>3, <1>4, Invariance, PTL DEF Spec
=============================================================================
