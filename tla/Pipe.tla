-------------------------------- MODULE Pipe --------------------------------
(***************************************************************************)
(* A pipe (kernel/pipe.c): the ring data[], the free-running counters      *)
(* nread and nwrite, the two ends, and the processes in pipewrite(),       *)
(* piperead() and pipeclose().  pi->lock is held from the entry of a call  *)
(* to its return except while it sleeps; one iteration of a loop is one    *)
(* step, so that kill(), which needs only p->lock, falls between any two.  *)
(***************************************************************************)
EXTENDS Integers, Sequences

CONSTANTS PIPESIZE,
          Modulus,          \* 2^32: the counters are uint
          Bytes,
          Readers, Writers, \* the processes that have the read / write end open
          MaxCount,         \* bound on n in read() and write()
          None

Procs == Readers \cup Writers

ASSUME SizeAssumption ==
    /\ PIPESIZE \in Nat \ {0} /\ Modulus \in Nat /\ MaxCount \in Nat
    /\ Modulus > PIPESIZE /\ Modulus % PIPESIZE = 0
ASSUME NamesAssumption == None \notin Procs /\ None \notin Bytes

VARIABLES
    data, nread, nwrite, readopen, writeopen,
    lock,       \* the process that holds pi->lock
    fds,        \* the processes that still have their end open
    pc,
    n,          \* bytes the call has left to copy: n - i
    moved,      \* i > 0
    killed,
    out,        \* the last byte copied out to a reader
    abandoned   \* history: a pipewrite() stored bytes, then returned -1

ring == <<data, nread, nwrite>>
ends == <<readopen, writeopen, fds>>
calls == <<pc, n, moved>>
vars == <<ring, ends, lock, calls, killed, out, abandoned>>

Init ==
    /\ data = [k \in 0 .. PIPESIZE - 1 |-> None]
    /\ nread = 0 /\ nwrite = 0
    /\ readopen = TRUE /\ writeopen = TRUE
    /\ lock = None
    /\ fds = Procs
    /\ pc = [p \in Procs |-> "idle"]
    /\ n = [p \in Procs |-> 0]
    /\ moved = [p \in Procs |-> FALSE]
    /\ killed = [p \in Procs |-> FALSE]
    /\ out = None
    /\ abandoned = FALSE

Empty == nread = nwrite

(* pi->nwrite == pi->nread + PIPESIZE, in uint arithmetic; the mutant       *)
(* compares without wrapping the sum.                                      *)
Full_unwrapped == nwrite = nread + PIPESIZE
Full == nwrite = (nread + PIPESIZE) % Modulus

(* wakeup(): everyone asleep at label from goes on at label to.  The mutant *)
(* wakes nobody.                                                           *)
Woken_none(f, from, to) == f
Woken(f, from, to) == [p \in Procs |-> IF f[p] = from THEN to ELSE f[p]]

WakeReaders(f) == Woken(f, "r_asleep", "r_lock")
WakeWriters(f) == Woken(f, "w_asleep", "w_lock")

Goto(p, l) == [pc EXCEPT ![p] = l]

(* The end of a call.                                                      *)
Return(p) ==
    /\ lock' = None
    /\ n' = [n EXCEPT ![p] = 0]
    /\ moved' = [moved EXCEPT ![p] = FALSE]

-----------------------------------------------------------------------------
(* Both calls: entry, and the (re-)acquisition of pi->lock.                *)
call(p, k) ==
    /\ pc[p] = "idle" /\ p \in fds /\ ~killed[p]
    /\ n' = [n EXCEPT ![p] = k]
    /\ pc' = Goto(p, IF p \in Writers THEN "w_lock" ELSE "r_lock")
    /\ UNCHANGED <<ring, ends, lock, moved, killed, out, abandoned>>

acquire(p) ==
    /\ pc[p] \in {"w_lock", "r_lock"}
    /\ lock = None
    /\ lock' = p
    /\ pc' = Goto(p, IF pc[p] = "w_lock" THEN "w_loop" ELSE "r_wait")
    /\ UNCHANGED <<ring, ends, n, moved, killed, out, abandoned>>

(* sleep(chan, &pi->lock): p->lock makes the release and the sleep one.    *)
sleep(p) ==
    /\ pc[p] \in {"w_sleep", "r_sleep"}
    /\ lock' = None
    /\ pc' = Goto(p, IF pc[p] = "w_sleep" THEN "w_asleep" ELSE "r_asleep")
    /\ UNCHANGED <<ring, ends, n, moved, killed, out, abandoned>>

-----------------------------------------------------------------------------
(* pipewrite().                                                            *)
CanWrite(p) == pc[p] = "w_loop" /\ n[p] > 0 /\ readopen /\ ~killed[p]

(* One byte stored.                                                        *)
write_byte(p, b) ==
    /\ CanWrite(p) /\ ~Full
    /\ data' = [data EXCEPT ![nwrite % PIPESIZE] = b]
    /\ nwrite' = (nwrite + 1) % Modulus
    /\ n' = [n EXCEPT ![p] = @ - 1]
    /\ moved' = [moved EXCEPT ![p] = TRUE]
    /\ UNCHANGED <<nread, ends, lock, pc, killed, out, abandoned>>

write_full(p) ==
    /\ CanWrite(p) /\ Full
    /\ pc' = WakeReaders(Goto(p, "w_sleep"))
    /\ abandoned' = FALSE
    /\ UNCHANGED <<ring, ends, lock, n, moved, killed, out>>

(* The reader is gone or the caller killed: -1, and no wakeup().           *)
write_abort(p) ==
    /\ pc[p] = "w_loop" /\ n[p] > 0
    /\ ~readopen \/ killed[p]
    /\ pc' = Goto(p, "idle")
    /\ abandoned' = (abandoned \/ moved[p])
    /\ Return(p)
    /\ UNCHANGED <<ring, ends, killed, out>>

(* All n bytes stored, or copyin() failed.                                 *)
write_return(p) ==
    /\ pc[p] = "w_loop"
    /\ n[p] = 0 \/ (CanWrite(p) /\ ~Full)
    /\ pc' = WakeReaders(Goto(p, "idle"))
    /\ abandoned' = FALSE
    /\ Return(p)
    /\ UNCHANGED <<ring, ends, killed, out>>

pipewrite(p) ==
    \/ \E b \in Bytes : write_byte(p, b)
    \/ write_full(p) \/ write_abort(p) \/ write_return(p)

-----------------------------------------------------------------------------
(* piperead() waits while this holds.                                      *)
MustWait == Empty /\ writeopen

(* The loop until there is data or no writer.                              *)
read_wait(p) ==
    /\ pc[p] = "r_wait"
    /\ IF ~MustWait THEN pc' = Goto(p, "r_copy") /\ UNCHANGED <<lock, n, moved>>
       ELSE IF killed[p] THEN pc' = Goto(p, "idle") /\ Return(p)
       ELSE pc' = Goto(p, "r_sleep") /\ UNCHANGED <<lock, n, moved>>
    /\ UNCHANGED <<ring, ends, killed, out, abandoned>>

read_byte(p) ==
    /\ pc[p] = "r_copy" /\ n[p] > 0 /\ ~Empty
    /\ nread' = (nread + 1) % Modulus
    /\ out' = data[nread % PIPESIZE]
    /\ n' = [n EXCEPT ![p] = @ - 1]
    /\ moved' = [moved EXCEPT ![p] = TRUE]
    /\ UNCHANGED <<data, nwrite, ends, lock, pc, killed, abandoned>>

(* copyout() fails behind nread++: the byte is lost and the call returns.  *)
read_byte_lost(p) ==
    /\ pc[p] = "r_copy" /\ n[p] > 0 /\ ~Empty
    /\ nread' = (nread + 1) % Modulus
    /\ out' = None
    /\ pc' = WakeWriters(Goto(p, "idle"))
    /\ Return(p)
    /\ UNCHANGED <<data, nwrite, ends, killed, abandoned>>

read_return(p) ==
    /\ pc[p] = "r_copy" /\ (n[p] = 0 \/ Empty)
    /\ pc' = WakeWriters(Goto(p, "idle"))
    /\ Return(p)
    /\ UNCHANGED <<ring, ends, killed, out, abandoned>>

piperead(p) == read_wait(p) \/ read_byte(p) \/ read_byte_lost(p) \/ read_return(p)

-----------------------------------------------------------------------------
(* fileclose() by the process; pipeclose() if it was the last on its side. *)
pipeclose(p) ==
    /\ pc[p] = "idle" /\ p \in fds
    /\ fds' = fds \ {p}
    /\ IF fds' \cap Writers = {} /\ writeopen
       THEN /\ lock = None /\ writeopen' = FALSE
            /\ pc' = WakeReaders(pc) /\ abandoned' = FALSE
            /\ UNCHANGED readopen
       ELSE IF fds' \cap Readers = {} /\ readopen
       THEN /\ lock = None /\ readopen' = FALSE
            /\ pc' = WakeWriters(pc)
            /\ UNCHANGED <<writeopen, abandoned>>
       ELSE UNCHANGED <<readopen, writeopen, pc, abandoned>>
    /\ UNCHANGED <<ring, lock, n, moved, killed, out>>

kill(p) ==
    /\ p \in fds /\ ~killed[p]
    /\ killed' = [killed EXCEPT ![p] = TRUE]
    /\ pc' = Goto(p, CASE pc[p] = "r_asleep" -> "r_lock"
                       [] pc[p] = "w_asleep" -> "w_lock"
                       [] OTHER -> pc[p])
    /\ UNCHANGED <<ring, ends, lock, n, moved, out, abandoned>>

(* What a call does once it has been entered.                              *)
InCall(p) == acquire(p) \/ sleep(p) \/ pipewrite(p) \/ piperead(p)

(* Both ends closed: kfree(pi), and the pipe is no more.                   *)
Freed == fds = {} /\ UNCHANGED vars

Next ==
    \/ \E p \in Procs :
        \/ \E k \in 1 .. MaxCount : call(p, k)
        \/ InCall(p) \/ pipeclose(p) \/ kill(p)
    \/ Freed

Spec == Init /\ [][Next]_vars

-----------------------------------------------------------------------------
(* Every variable has one of its values, and pi->lock is held exactly by a *)
(* call that is in its loop.                                               *)
TypeOK ==
    /\ data \in [0 .. PIPESIZE - 1 -> Bytes \cup {None}]
    /\ nread \in 0 .. Modulus - 1 /\ nwrite \in 0 .. Modulus - 1
    /\ readopen \in BOOLEAN /\ writeopen \in BOOLEAN
    /\ fds \subseteq Procs
    /\ pc \in [Procs -> {"idle", "w_lock", "w_loop", "w_sleep", "w_asleep",
                         "r_lock", "r_wait", "r_copy", "r_sleep", "r_asleep"}]
    /\ n \in [Procs -> 0 .. MaxCount]
    /\ moved \in [Procs -> BOOLEAN] /\ killed \in [Procs -> BOOLEAN]
    /\ out \in Bytes \cup {None}
    /\ abandoned \in BOOLEAN
    /\ lock \in Procs \cup {None}
    /\ \A p \in Procs : lock = p <=>
          pc[p] \in {"w_loop", "w_sleep", "r_wait", "r_copy", "r_sleep"}

(* The bytes between the two counters, which wrap around 2^32.             *)
Contents == [k \in 1 .. (nwrite - nread) % Modulus |-> data[(nread + k - 1) % PIPESIZE]]

Stream == INSTANCE ByteStream WITH
    Capacity <- PIPESIZE, NoByte <- None,
    queue <- Contents, delivered <- out, rend <- readopen, wend <- writeopen

(* The ring and its two wrapping counters implement a bounded FIFO stream: *)
(* whatever the interleaving of readers, writers, closes and kills, bytes  *)
(* are delivered in the order they were accepted and none is overwritten.  *)
ImplementsStream == Stream!StreamSpec

(* piperead() returns 0 (end of file) only when nothing is left and every  *)
(* writer has closed; the other 0 is a copyout() that failed.              *)
EofOnlyAtEnd ==
    [][\A p \in Procs :
          pc[p] = "r_copy" /\ pc'[p] = "idle" /\ ~moved[p]
              => (Empty /\ ~writeopen) \/ nread' # nread]_vars

(* No lost wakeup: while pi->lock is free, a writer is asleep only if the  *)
(* pipe is full and can still be read, and a reader only if the pipe is    *)
(* empty and can still be written.  The one exception is a pipewrite()     *)
(* that stored bytes and was then killed: it returns without the wakeup(), *)
(* and the bytes wait for the next write() or close().                     *)
SleepersJustified ==
    lock = None => \A p \in Procs :
        /\ pc[p] = "w_asleep" => Full /\ readopen
        /\ pc[p] = "r_asleep" => (Empty \/ abandoned) /\ writeopen

=============================================================================
