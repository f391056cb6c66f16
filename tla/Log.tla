-------------------------------- MODULE Log ---------------------------------
(***************************************************************************)
(* The write-ahead redo log of kernel/log.c, with the buffer cache it pins *)
(* its blocks in (kernel/bio.c) reduced to what the log relies on.         *)
(*                                                                         *)
(* A process runs file system calls.  It may read blocks at any time, and  *)
(* it changes them between begin_op() and end_op().  The process whose     *)
(* end_op() leaves no operation outstanding commits for the whole group.   *)
(* A crash may come between any two steps; a disk write of a data block is *)
(* two steps, so a crash in the middle leaves that block torn.  The header *)
(* (LOGSIZE+1 ints) lies in one sector and its write is one step.          *)
(***************************************************************************)
EXTENDS Naturals, Sequences, FiniteSets

CONSTANTS
    Blocks,       \* home blocks of the file system
    Data,         \* contents of a block
    Procs,        \* processes in file system calls
    LOGSIZE,      \* param.h
    MAXOPBLOCKS,  \* param.h
    nlog,         \* superblock.nlog, read into log.size
    OpBlocks,     \* distinct blocks one operation really writes
    NotCached,    \* no valid buffer holds the block
    Torn,         \* contents of a block whose write a crash interrupted
    None          \* no process

ASSUME DataAssumption == NotCached \notin Data /\ Torn \notin Data
ASSUME ProcsAssumption == None \notin Procs /\ IsFiniteSet(Procs)
ASSUME LogAssumption ==
    /\ LOGSIZE \in Nat \ {0} /\ MAXOPBLOCKS \in Nat \ {0}
    /\ nlog \in Nat \ {0} /\ OpBlocks \in Nat
    /\ MAXOPBLOCKS <= LOGSIZE
(* An operation stays below what begin_op() reserves for it, by a margin   *)
(* that also covers log_write()'s own, stricter limit log.size - 1.        *)
ASSUME SpaceAssumption ==
    OpBlocks < MAXOPBLOCKS /\ LOGSIZE + OpBlocks + 1 < nlog + MAXOPBLOCKS

VARIABLES
    disk,         \* home location of every block
    dlog,         \* on-disk log slots: block log.start + i
    dhead,        \* on-disk log header: its block[0..n-1]
    cache,        \* b->data of the buffer caching a block, or NotCached
    refcnt,       \* b->refcnt
    holder,       \* owner of b->lock
    lh,           \* log.lh
    outstanding,  \* log.outstanding
    committing,   \* log.committing
    st,           \* where each process is with respect to the log
    wrote,        \* blocks log_write()n by the current operation of a process
    pc,           \* what commit() or recover_from_log() does next
    tail,         \* slots done in the loop of write_log() or install_trans()
    writing,      \* a bwrite() of that loop is on its way to the disk
    panic         \* the kernel has panicked

dvars == <<disk, dlog, dhead>>
bvars == <<cache, refcnt, holder>>
lvars == <<lh, outstanding, committing>>
pvars == <<st, wrote>>
cvars == <<pc, tail, writing>>
vars == <<dvars, bvars, lvars, pvars, cvars, panic>>

Recovering == pc \in {"read_head", "reinstall", "clear"}

Slots == 1 .. LOGSIZE

Logged(h) == {h[i] : i \in 1 .. Len(h)}

Holds(p) == {b \in Blocks : holder[b] = p}

(***************************************************************************)
(* The machine is switched on with some file system on its disk.           *)
(***************************************************************************)
Init ==
    /\ disk \in [Blocks -> Data]
    /\ dlog \in [Slots -> {Torn}]
    /\ dhead = <<>>
    /\ cache = [b \in Blocks |-> NotCached]
    /\ refcnt = [b \in Blocks |-> 0]
    /\ holder = [b \in Blocks |-> None]
    /\ lh = <<>>
    /\ outstanding = 0
    /\ committing = FALSE
    /\ st = [p \in Procs |-> "out"]
    /\ wrote = [p \in Procs |-> {}]
    /\ pc = "read_head"
    /\ tail = 0
    /\ writing = FALSE
    /\ panic = FALSE

-----------------------------------------------------------------------------
(* Buffers, as far as the log depends on them.                             *)

(* A reference to a buffer is taken and dropped under bcache.lock.         *)
Ref(r, b) == [r EXCEPT ![b] = @ + 1]
Unref(r, b) == [r EXCEPT ![b] = @ - 1]

(* bpin() and bunpin().                                                    *)
bpin(r, b) == Ref(r, b)
bunpin(r, b) == Unref(r, b)

(* bread(): takes a reference and the lock, and reads an uncached block.   *)
bread(p, b) ==
    /\ ~Recovering
    /\ st[p] \in {"out", "in"}
    /\ Holds(p) = {}
    /\ holder[b] = None
    /\ holder' = [holder EXCEPT ![b] = p]
    /\ refcnt' = Ref(refcnt, b)
    /\ cache' = [cache EXCEPT ![b] = IF @ = NotCached THEN disk[b] ELSE @]
    /\ UNCHANGED <<dvars, lvars, pvars, cvars, panic>>

brelse(p, b) ==
    /\ st[p] \in {"out", "in"}
    /\ holder[b] = p
    /\ holder' = [holder EXCEPT ![b] = None]
    /\ refcnt' = Unref(refcnt, b)
    /\ UNCHANGED <<dvars, cache, lvars, pvars, cvars, panic>>

(* bget() recycles an unreferenced buffer for some other block.            *)
Recycle(b) ==
    /\ refcnt[b] = 0
    /\ cache[b] # NotCached
    /\ cache' = [cache EXCEPT ![b] = NotCached]
    /\ UNCHANGED <<dvars, refcnt, holder, lvars, pvars, cvars, panic>>

-----------------------------------------------------------------------------
(* The calls of the file system into the log.                              *)

(* begin_op() must sleep; the mutants forget the commit, and the caller.   *)
MustWait_in_commit_too == Len(lh) + (outstanding + 1) * MAXOPBLOCKS > LOGSIZE
MustWait_without_self ==
    committing \/ Len(lh) + outstanding * MAXOPBLOCKS > LOGSIZE
MustWait ==
    committing \/ Len(lh) + (outstanding + 1) * MAXOPBLOCKS > LOGSIZE

(* A pass through the loop of begin_op(): sleep on &log, or be admitted.   *)
begin_op(p) ==
    /\ ~Recovering
    /\ st[p] \in {"out", "woken"}
    /\ Holds(p) = {}
    /\ IF MustWait
       THEN /\ st' = [st EXCEPT ![p] = "asleep"]
            /\ UNCHANGED outstanding
       ELSE /\ st' = [st EXCEPT ![p] = "in"]
            /\ outstanding' = outstanding + 1
    /\ UNCHANGED <<dvars, bvars, lh, committing, wrote, cvars, panic>>

(* The panics of log_write(): the log is full, or no operation is open.    *)
CannotLog == Len(lh) >= LOGSIZE \/ Len(lh) >= nlog - 1 \/ outstanding < 1

(* log_write() of the locked buffer of b, after its holder put d in it.    *)
log_write(p, b, d) ==
    /\ st[p] = "in"
    /\ holder[b] = p
    /\ Cardinality(wrote[p] \cup {b}) <= OpBlocks
    /\ cache' = [cache EXCEPT ![b] = d]
    /\ wrote' = [wrote EXCEPT ![p] = @ \cup {b}]
    /\ IF CannotLog
       THEN panic' = TRUE /\ UNCHANGED <<lh, refcnt>>
       ELSE /\ panic' = panic
            /\ IF b \in Logged(lh)
               THEN UNCHANGED <<lh, refcnt>>
               ELSE /\ lh' = Append(lh, b)
                    /\ refcnt' = bpin(refcnt, b)
    /\ UNCHANGED <<dvars, holder, outstanding, committing, st, cvars>>

(* wakeup(&log), and the mutant in which it is lost.                       *)
Woken_lost(s) == s
Woken(s) == [q \in Procs |-> IF s[q] = "asleep" THEN "woken" ELSE s[q]]

(* Where commit() starts; the mutants write the header first, and take a   *)
(* transaction of one block for an empty one.                              *)
commit_start_header == IF lh = <<>> THEN "done" ELSE "write_head"
commit_start_short == IF Len(lh) <= 1 THEN "done" ELSE "write_log"
commit_start == IF lh = <<>> THEN "done" ELSE "write_log"

(* end_op() up to its first release(): hand on the log space, or commit.   *)
end_op(p) ==
    /\ st[p] = "in"
    /\ Holds(p) = {}
    /\ outstanding' = outstanding - 1
    /\ wrote' = [wrote EXCEPT ![p] = {}]
    /\ panic' = committing
    /\ IF outstanding' = 0
       THEN /\ committing' = TRUE
            /\ st' = [st EXCEPT ![p] = "commit"]
            /\ pc' = commit_start
       ELSE /\ st' = Woken([st EXCEPT ![p] = "out"])
            /\ UNCHANGED <<committing, pc>>
    /\ UNCHANGED <<dvars, bvars, lh, tail, writing>>

-----------------------------------------------------------------------------
(* commit(), run by the process in state "commit".                         *)

(* One iteration of write_log(): bwrite() of slot tail+1 starts, and ends. *)
write_log_start(p) ==
    LET b == lh[tail + 1] IN
    /\ pc = "write_log" /\ st[p] = "commit" /\ ~writing
    /\ holder[b] = None
    /\ holder' = [holder EXCEPT ![b] = p]
    /\ refcnt' = Ref(refcnt, b)
    /\ cache' = [cache EXCEPT ![b] = IF @ = NotCached THEN disk[b] ELSE @]
    /\ dlog' = [dlog EXCEPT ![tail + 1] = Torn]
    /\ writing' = TRUE
    /\ UNCHANGED <<disk, dhead, lvars, pvars, pc, tail, panic>>

write_log_end(p) ==
    LET b == lh[tail + 1] IN
    /\ pc = "write_log" /\ st[p] = "commit" /\ writing
    /\ dlog' = [dlog EXCEPT ![tail + 1] = cache[b]]
    /\ holder' = [holder EXCEPT ![b] = None]
    /\ refcnt' = Unref(refcnt, b)
    /\ writing' = FALSE
    /\ IF tail + 1 = Len(lh)
       THEN pc' = "write_head" /\ tail' = 0
       ELSE pc' = pc /\ tail' = tail + 1
    /\ UNCHANGED <<disk, dhead, cache, lvars, pvars, panic>>

(* write_head() with log.lh.n > 0: the commit point.                       *)
write_head(p) ==
    /\ pc = "write_head" /\ st[p] = "commit"
    /\ dhead' = lh
    /\ pc' = "install"
    /\ UNCHANGED <<disk, dlog, bvars, lvars, pvars, tail, writing, panic>>

(* One iteration of install_trans(0).                                      *)
install_start(p) ==
    LET b == lh[tail + 1] IN
    /\ pc = "install" /\ st[p] = "commit" /\ ~writing
    /\ holder[b] = None
    /\ holder' = [holder EXCEPT ![b] = p]
    /\ refcnt' = Ref(refcnt, b)
    /\ cache' = [cache EXCEPT ![b] = dlog[tail + 1]]
    /\ disk' = [disk EXCEPT ![b] = Torn]
    /\ writing' = TRUE
    /\ UNCHANGED <<dlog, dhead, lvars, pvars, pc, tail, panic>>

install_end(p) ==
    LET b == lh[tail + 1] IN
    /\ pc = "install" /\ st[p] = "commit" /\ writing
    /\ disk' = [disk EXCEPT ![b] = cache[b]]
    /\ holder' = [holder EXCEPT ![b] = None]
    /\ refcnt' = Unref(bunpin(refcnt, b), b)
    /\ writing' = FALSE
    /\ IF tail + 1 = Len(lh)
       THEN pc' = "erase" /\ tail' = 0
       ELSE pc' = pc /\ tail' = tail + 1
    /\ UNCHANGED <<dlog, dhead, cache, lvars, pvars, panic>>

(* log.lh.n = 0, and the write_head() that erases the transaction.         *)
erase(p) ==
    /\ pc = "erase" /\ st[p] = "commit"
    /\ lh' = <<>>
    /\ dhead' = <<>>
    /\ pc' = "done"
    /\ UNCHANGED <<disk, dlog, bvars, outstanding, committing, pvars, tail,
                   writing, panic>>

(* The end of end_op(): admit the sleepers of begin_op() again.            *)
end_commit(p) ==
    /\ pc = "done" /\ st[p] = "commit"
    /\ committing' = FALSE
    /\ st' = Woken([st EXCEPT ![p] = "out"])
    /\ pc' = "idle"
    /\ UNCHANGED <<dvars, bvars, lh, outstanding, wrote, tail, writing, panic>>

-----------------------------------------------------------------------------
(* initlog() and recover_from_log(), run by the first process before any   *)
(* other exists.                                                           *)

read_head ==
    /\ pc = "read_head"
    /\ lh' = dhead
    /\ pc' = IF dhead = <<>> THEN "clear" ELSE "reinstall"
    /\ UNCHANGED <<dvars, bvars, outstanding, committing, pvars, tail, writing,
                   panic>>

(* One iteration of install_trans(1).                                      *)
reinstall_start ==
    LET b == lh[tail + 1] IN
    /\ pc = "reinstall" /\ ~writing
    /\ cache' = [cache EXCEPT ![b] = dlog[tail + 1]]
    /\ refcnt' = Ref(refcnt, b)
    /\ disk' = [disk EXCEPT ![b] = Torn]
    /\ writing' = TRUE
    /\ UNCHANGED <<dlog, dhead, holder, lvars, pvars, pc, tail, panic>>

reinstall_end ==
    LET b == lh[tail + 1] IN
    /\ pc = "reinstall" /\ writing
    /\ disk' = [disk EXCEPT ![b] = cache[b]]
    /\ refcnt' = Unref(refcnt, b)
    /\ writing' = FALSE
    /\ IF tail + 1 = Len(lh)
       THEN pc' = "clear" /\ tail' = 0
       ELSE pc' = pc /\ tail' = tail + 1
    /\ UNCHANGED <<dlog, dhead, cache, holder, lvars, pvars, panic>>

clear ==
    /\ pc = "clear"
    /\ lh' = <<>>
    /\ dhead' = <<>>
    /\ pc' = "idle"
    /\ UNCHANGED <<disk, dlog, bvars, outstanding, committing, pvars, tail,
                   writing, panic>>

(* Power is lost: memory is gone, and the next boot starts at read_head(). *)
Crash ==
    /\ cache' = [b \in Blocks |-> NotCached]
    /\ refcnt' = [b \in Blocks |-> 0]
    /\ holder' = [b \in Blocks |-> None]
    /\ lh' = <<>>
    /\ outstanding' = 0
    /\ committing' = FALSE
    /\ st' = [p \in Procs |-> "out"]
    /\ wrote' = [p \in Procs |-> {}]
    /\ pc' = "read_head"
    /\ tail' = 0
    /\ writing' = FALSE
    /\ panic' = FALSE
    /\ UNCHANGED dvars

commit(p) ==
    \/ write_log_start(p) \/ write_log_end(p) \/ write_head(p)
    \/ install_start(p) \/ install_end(p) \/ erase(p) \/ end_commit(p)

recover_from_log == read_head \/ reinstall_start \/ reinstall_end \/ clear

(* Everything the running system does.                                     *)
Step ==
    /\ ~panic
    /\ \/ \E p \in Procs, b \in Blocks : bread(p, b) \/ brelse(p, b)
       \/ \E b \in Blocks : Recycle(b)
       \/ \E p \in Procs : begin_op(p) \/ end_op(p) \/ commit(p)
       \/ \E p \in Procs, b \in Blocks, d \in Data : log_write(p, b, d)
       \/ recover_from_log

Next == Step \/ Crash

Spec == Init /\ [][Next]_vars

-----------------------------------------------------------------------------
(* Properties.                                                             *)

PCs == {"read_head", "reinstall", "clear", "idle", "write_log", "write_head",
        "install", "erase", "done"}

(* Every variable has the values its C type and comment allow.             *)
TypeOK ==
    /\ disk \in [Blocks -> Data \cup {Torn}]
    /\ dlog \in [Slots -> Data \cup {Torn}]
    /\ dhead \in Seq(Blocks)
    /\ cache \in [Blocks -> Data \cup {NotCached, Torn}]
    /\ refcnt \in [Blocks -> Nat]
    /\ holder \in [Blocks -> Procs \cup {None}]
    /\ lh \in Seq(Blocks)
    /\ outstanding \in Nat
    /\ committing \in BOOLEAN
    /\ st \in [Procs -> {"out", "woken", "asleep", "in", "commit"}]
    /\ wrote \in [Procs -> SUBSET Blocks]
    /\ pc \in PCs
    /\ tail \in Nat
    /\ writing \in BOOLEAN
    /\ panic \in BOOLEAN

(* The contents recover_from_log() brings back if the power fails now.     *)
Durable ==
    [b \in Blocks |->
        IF \E i \in 1 .. Len(dhead) : dhead[i] = b
        THEN dlog[CHOOSE i \in 1 .. Len(dhead) : dhead[i] = b]
        ELSE disk[b]]

(* The contents bread() returns now.                                       *)
Mem ==
    IF Recovering
    THEN Durable
    ELSE [b \in Blocks |-> IF cache[b] = NotCached THEN disk[b] ELSE cache[b]]

Active == {p \in Procs : st[p] = "in"}

Tx == INSTANCE TxDisk WITH mem <- Mem, durable <- Durable, active <- Active

(* Crash atomicity: log.c implements the transactional disk.  What a       *)
(* reboot restores changes only at write_head(), by the writes of complete *)
(* operations; installing, erasing, recycling, crashing and recovering     *)
(* (also when recovery is itself interrupted) change neither that nor what *)
(* processes read.                                                         *)
ImplementsTxDisk == Tx!TxSpec

(* Write-ahead: a home block is only overwritten while the on-disk header  *)
(* names it and its slot holds the whole new contents.                     *)
WriteAhead ==
    [][\A b \in Blocks : disk'[b] # disk[b] =>
          \E i \in 1 .. Len(dhead) : dhead[i] = b /\ dlog[i] \in Data]_vars

(* Group commit is complete: when the log is idle with no operation        *)
(* outstanding, all that finished operations wrote survives a crash.       *)
QuiescentDurable ==
    pc = "idle" /\ outstanding = 0 => lh = <<>> /\ Mem = Durable

(* Blocks of the current transaction that are not yet installed.           *)
Pinned ==
    {lh[i] : i \in (IF pc = "install" THEN tail + 1 .. Len(lh)
                    ELSE IF Recovering \/ pc = "erase" THEN {}
                    ELSE 1 .. Len(lh))}

(* bpin()/bunpin() and bread()/brelse() balance: a buffer's refcnt is its  *)
(* holder plus one pin while the open transaction still needs it, so no    *)
(* pin leaks and no block of the transaction is recycled.                  *)
RefcntExact ==
    ~Recovering =>
        \A b \in Blocks :
            refcnt[b] = (IF holder[b] = None THEN 0 ELSE 1)
                      + (IF b \in Pinned THEN 1 ELSE 0)

(* The log blocks that begin_op() has reserved for the admitted operations *)
(* and that their log_write()s have not used yet, one pair for each.       *)
Reserved ==
    {r \in Active \X (1 .. MAXOPBLOCKS) : r[2] > Cardinality(wrote[r[1]])}

(* Log space is reserved: the blocks in the log and those the admitted     *)
(* operations may still add fit in it, so begin_op()'s test suffices, and  *)
(* no panic of log_write() or end_op() is reached.                         *)
Reservation == ~panic /\ Len(lh) + Cardinality(Reserved) <= LOGSIZE

(* No lost wakeup: while a process sleeps in begin_op(), an operation that *)
(* is still open or a commit under way will call wakeup(&log).             *)
SleeperHasWaker == \A p \in Procs : st[p] = "asleep" => outstanding > 0 \/ committing
=============================================================================
