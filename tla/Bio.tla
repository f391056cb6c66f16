-------------------------------- MODULE Bio ---------------------------------
(***************************************************************************)
(* The buffer cache (kernel/bio.c) and the sleep-locks of its buffers      *)
(* (kernel/sleeplock.c).  A section under bcache.lock is one step, and so  *)
(* is one under the spinlock of a sleep-lock; a process that finds the     *)
(* sleep-lock taken sleeps until releasesleep() wakes it and then tries    *)
(* again.  A process works on one buffer at a time; pins, which log_write()*)
(* puts on buffers, are references without a process.                      *)
(***************************************************************************)
EXTENDS Integers, Sequences, FiniteSets

CONSTANTS Bufs, Blocks, Data, Procs,
          MaxPins,  \* bound on the pins of a block
          None

ASSUME CountsAssumption == MaxPins \in Nat /\ IsFiniteSet(Bufs) /\ IsFiniteSet(Procs)
ASSUME NamesAssumption == None \notin Procs \cup Blocks \cup Bufs \cup Data

VARIABLES
    disk,
    lru,                            \* the list from head.next to head.prev
    blockno, valid, refcnt, bdata,  \* of struct buf
    locked,                         \* the process that has b->lock, or None
    pc, buf,                        \* of each process: where, and its buffer
    pins,                           \* of each block: bpin() minus bunpin()
    panic                           \* bget() found no buffer

bvars == <<lru, blockno, valid, refcnt, bdata, locked>>
vars == <<disk, bvars, pc, buf, pins, panic>>

(* binit(): the list runs from the last buffer to the first.               *)
Init ==
    /\ disk \in [Blocks -> Data]
    /\ lru \in [1 .. Cardinality(Bufs) -> Bufs]
    /\ \A b \in Bufs : \E i \in DOMAIN lru : lru[i] = b
    /\ blockno = [b \in Bufs |-> None]
    /\ valid = [b \in Bufs |-> FALSE]
    /\ refcnt = [b \in Bufs |-> 0]
    /\ bdata = [b \in Bufs |-> None]
    /\ locked = [b \in Bufs |-> None]
    /\ pc = [p \in Procs |-> "idle"]
    /\ buf = [p \in Procs |-> None]
    /\ pins = [k \in Blocks |-> 0]
    /\ panic = FALSE

Goto(p, l) == [pc EXCEPT ![p] = l]

-----------------------------------------------------------------------------
(* bget(): the block is cached.                                            *)
bget_hit(p, k, b) ==
    /\ pc[p] = "idle"
    /\ blockno[b] = k
    /\ refcnt' = [refcnt EXCEPT ![b] = @ + 1]
    /\ buf' = [buf EXCEPT ![p] = b]
    /\ pc' = Goto(p, "acquiresleep")
    /\ UNCHANGED <<disk, lru, blockno, valid, bdata, locked, pins, panic>>

(* The buffer to recycle: the last of the list without a reference.        *)
Victim ==
    LET unused == {i \in DOMAIN lru : refcnt[lru[i]] = 0}
    IN  lru[CHOOSE i \in unused : \A j \in unused : j <= i]

(* The buffers bget() may recycle.                                         *)
Unused == {b \in Bufs : refcnt[b] = 0}

(* bget(): it is not.  The mutant keeps the valid flag of the old block.   *)
bget_recycle_valid(p, k) ==
    /\ pc[p] = "idle"
    /\ \A b \in Bufs : blockno[b] # k
    /\ Unused # {}
    /\ blockno' = [blockno EXCEPT ![Victim] = k]
    /\ refcnt' = [refcnt EXCEPT ![Victim] = 1]
    /\ buf' = [buf EXCEPT ![p] = Victim]
    /\ pc' = Goto(p, "acquiresleep")
    /\ UNCHANGED <<disk, lru, valid, bdata, locked, pins, panic>>
bget_recycle(p, k) ==
    /\ pc[p] = "idle"
    /\ \A b \in Bufs : blockno[b] # k
    /\ Unused # {}
    /\ blockno' = [blockno EXCEPT ![Victim] = k]
    /\ valid' = [valid EXCEPT ![Victim] = FALSE]
    /\ refcnt' = [refcnt EXCEPT ![Victim] = 1]
    /\ buf' = [buf EXCEPT ![p] = Victim]
    /\ pc' = Goto(p, "acquiresleep")
    /\ UNCHANGED <<disk, lru, bdata, locked, pins, panic>>

bget_panic(p, k) ==
    /\ pc[p] = "idle"
    /\ \A b \in Bufs : blockno[b] # k
    /\ Unused = {}
    /\ panic' = TRUE
    /\ UNCHANGED <<disk, bvars, pc, buf, pins>>

bget(p, k) == (\E b \in Bufs : bget_hit(p, k, b)) \/ bget_recycle(p, k) \/ bget_panic(p, k)

(* acquiresleep(): take the lock, or sleep.  bread() looks at valid next.  *)
acquiresleep(p) ==
    /\ pc[p] = "acquiresleep"
    /\ IF locked[buf[p]] # None
       THEN pc' = Goto(p, "asleep") /\ UNCHANGED locked
       ELSE /\ locked' = [locked EXCEPT ![buf[p]] = p]
            /\ pc' = Goto(p, IF valid[buf[p]] THEN "held" ELSE "read")
    /\ UNCHANGED <<disk, lru, blockno, valid, refcnt, bdata, buf, pins, panic>>

(* virtio_disk_rw() of bread() is done.                                    *)
bread_done(p) ==
    /\ pc[p] = "read"
    /\ bdata' = [bdata EXCEPT ![buf[p]] = disk[blockno[buf[p]]]]
    /\ valid' = [valid EXCEPT ![buf[p]] = TRUE]
    /\ pc' = Goto(p, "held")
    /\ UNCHANGED <<disk, lru, blockno, refcnt, locked, buf, pins, panic>>

(* The holder changes b->data.                                             *)
modify(p, d) ==
    /\ pc[p] = "held"
    /\ bdata' = [bdata EXCEPT ![buf[p]] = d]
    /\ UNCHANGED <<disk, lru, blockno, valid, refcnt, locked, pc, buf, pins, panic>>

bwrite(p) ==
    /\ pc[p] = "held"
    /\ disk' = [disk EXCEPT ![blockno[buf[p]]] = bdata[buf[p]]]
    /\ UNCHANGED <<bvars, pc, buf, pins, panic>>

bpin(p) ==
    /\ pc[p] = "held"
    /\ pins[blockno[buf[p]]] < MaxPins
    /\ refcnt' = [refcnt EXCEPT ![buf[p]] = @ + 1]
    /\ pins' = [pins EXCEPT ![blockno[buf[p]]] = @ + 1]
    /\ UNCHANGED <<disk, lru, blockno, valid, bdata, locked, pc, buf, panic>>

bunpin(p) ==
    /\ pc[p] = "held"
    /\ pins[blockno[buf[p]]] > 0
    /\ refcnt' = [refcnt EXCEPT ![buf[p]] = @ - 1]
    /\ pins' = [pins EXCEPT ![blockno[buf[p]]] = @ - 1]
    /\ UNCHANGED <<disk, lru, blockno, valid, bdata, locked, pc, buf, panic>>

(* wakeup(lk) in releasesleep(); the mutant wakes nobody.                  *)
Woken_none(f, b) == f
Woken(f, b) == [p \in Procs |-> IF f[p] = "asleep" /\ buf[p] = b THEN "acquiresleep" ELSE f[p]]

releasesleep(p) ==
    /\ pc[p] = "held"
    /\ locked' = [locked EXCEPT ![buf[p]] = None]
    /\ pc' = Woken(Goto(p, "brelse"), buf[p])
    /\ UNCHANGED <<disk, lru, blockno, valid, refcnt, bdata, buf, pins, panic>>

(* b is unlinked and put behind the head of the list.                      *)
ToFront(b) ==
    LET at == CHOOSE i \in DOMAIN lru : lru[i] = b
    IN  [i \in DOMAIN lru |-> IF i = 1 THEN b ELSE IF i <= at THEN lru[i - 1] ELSE lru[i]]

(* brelse() behind releasesleep().  The mutant loses the reference of a    *)
(* process that came in between.                                           *)
Dropped_all(b) == 0
Dropped(b) == refcnt[b] - 1

brelse(p) ==
    LET b == buf[p] IN
    /\ pc[p] = "brelse"
    /\ refcnt' = [refcnt EXCEPT ![b] = Dropped(b)]
    /\ lru' = IF refcnt'[b] = 0 THEN ToFront(b) ELSE lru
    /\ buf' = [buf EXCEPT ![p] = None]
    /\ pc' = Goto(p, "idle")
    /\ UNCHANGED <<disk, blockno, valid, bdata, locked, pins, panic>>

Step(p) ==
    \/ \E k \in Blocks : bget(p, k)
    \/ acquiresleep(p) \/ bread_done(p)
    \/ (\E d \in Data : modify(p, d)) \/ bwrite(p) \/ bpin(p) \/ bunpin(p)
    \/ releasesleep(p) \/ brelse(p)

Next ==
    \/ ~panic /\ \E p \in Procs : Step(p)
    \/ panic /\ UNCHANGED vars

Spec == Init /\ [][Next]_vars

-----------------------------------------------------------------------------
(* Every variable has one of its values.                                   *)
TypeOK ==
    /\ disk \in [Blocks -> Data]
    /\ lru \in [1 .. Cardinality(Bufs) -> Bufs]
    /\ blockno \in [Bufs -> Blocks \cup {None}]
    /\ valid \in [Bufs -> BOOLEAN]
    /\ refcnt \in [Bufs -> Nat]
    /\ bdata \in [Bufs -> Data \cup {None}]
    /\ locked \in [Bufs -> Procs \cup {None}]
    /\ pc \in [Procs -> {"idle", "acquiresleep", "asleep", "read", "held", "brelse"}]
    /\ buf \in [Procs -> Bufs \cup {None}]
    /\ pins \in [Blocks -> 0 .. MaxPins]
    /\ panic \in BOOLEAN

(* The references of a buffer are the processes between bget() and the end *)
(* of brelse(), and the pins of its block: brelse() gives up the sleep-    *)
(* lock before it gives up the reference, and others come in between.      *)
RefcntExact ==
    \A b \in Bufs :
        refcnt[b] = Cardinality({p \in Procs : buf[p] = b})
                    + (IF blockno[b] \in Blocks THEN pins[blockno[b]] ELSE 0)

(* bget() does not run out of buffers as long as there are as many as      *)
(* processes and pinned blocks together.                                   *)
NoPanic ==
    Cardinality(Procs) + Cardinality({k \in Blocks : pins[k] > 0}) <= Cardinality(Bufs)
        => ~panic

(* All buffers stay on the list, and no block has two.                     *)
Listed == \A b \in Bufs : \E i \in DOMAIN lru : lru[i] = b
OneBuffer == \A b, c \in Bufs : blockno[b] = blockno[c] /\ blockno[b] # None => b = c

(* A process outside bget() .. brelse() has no buffer, one inside has one  *)
(* with a block; the sleep-lock belongs to the process that uses the data. *)
Users ==
    /\ \A p \in Procs : IF pc[p] = "idle" THEN buf[p] = None
                        ELSE buf[p] \in Bufs /\ blockno[buf[p]] \in Blocks
    /\ \A p \in Procs : pc[p] \in {"read", "held"} => locked[buf[p]] = p
    /\ \A b \in Bufs : locked[b] # None =>
                         buf[locked[b]] = b /\ pc[locked[b]] \in {"read", "held"}

(* The data is there while the buffer is used, and while it is pinned.     *)
Contents ==
    /\ \A b \in Bufs : valid[b] => blockno[b] \in Blocks /\ bdata[b] \in Data
    /\ \A p \in Procs : pc[p] = "held" => valid[buf[p]]
    /\ \A p \in Procs : pc[p] = "read" => ~valid[buf[p]]
    /\ \A k \in Blocks : pins[k] > 0 => \E b \in Bufs : blockno[b] = k /\ valid[b]

(* The invariant of the cache, which its steps preserve.                   *)
Inv == TypeOK /\ RefcntExact /\ NoPanic /\ Listed /\ OneBuffer /\ Users /\ Contents

(* What the abstract cache has of each block, and who holds it.            *)
Copies ==
    [k \in Blocks |-> IF \E b \in Bufs : blockno[b] = k /\ valid[b]
                      THEN bdata[CHOOSE b \in Bufs : blockno[b] = k /\ valid[b]] ELSE None]

Holders ==
    [k \in Blocks |-> IF \E p \in Procs : pc[p] = "held" /\ blockno[buf[p]] = k
                      THEN CHOOSE p \in Procs : pc[p] = "held" /\ blockno[buf[p]] = k ELSE None]

Abstract == INSTANCE BlockCache WITH cache <- Copies, holder <- Holders

(* The cache keeps its promise to the log and the file system: exclusive   *)
(* use of one copy of each block, kept while it is held or pinned.         *)
ImplementsBlockCache == Abstract!CacheSpec

-----------------------------------------------------------------------------
(* Liveness: holders release, disk reads end, and a process that finds the *)
(* sleep-lock free again and again gets it.                                *)
FairSpec ==
    /\ Spec
    /\ \A p \in Procs :
        /\ SF_vars(~panic /\ acquiresleep(p) /\ pc'[p] # "asleep")
        /\ WF_vars(~panic /\ (bread_done(p) \/ releasesleep(p) \/ brelse(p)))

(* Every bread() returns with the buffer, unless the kernel has stopped.   *)
BreadReturns == \A p \in Procs : pc[p] = "acquiresleep" ~> pc[p] = "held" \/ panic
=============================================================================
