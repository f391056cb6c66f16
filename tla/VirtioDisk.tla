----------------------------- MODULE VirtioDisk -----------------------------
(***************************************************************************)
(* The disk driver (kernel/virtio_disk.c): virtio_disk_rw() called by      *)
(* processes, virtio_disk_intr(), and the device they share the            *)
(* descriptors and the avail and used rings with.  The device does not     *)
(* take vdisk_lock, so every driver step it can observe is a step here: a  *)
(* ring entry and the index that publishes it are written one after the    *)
(* other.  A process owns the buffer it passes (b->lock), so a buffer and  *)
(* its block are named by the process.  A ring entry that was consumed,    *)
(* and the header of a request that returned, are dead and forgotten.      *)
(***************************************************************************)
EXTENDS Integers, FiniteSets

CONSTANTS NUM,      \* descriptors, and entries of each ring
          Modulus,  \* 2^16: the ring indices are uint16
          Procs,
          None

ASSUME RingAssumption ==
    /\ NUM \in Nat /\ NUM >= 3 /\ Modulus \in Nat
    /\ Modulus >= NUM /\ Modulus % NUM = 0
ASSUME NamesAssumption ==
    /\ None \notin Procs /\ None \notin Nat /\ "intr" \notin Procs
    /\ None \notin {"intr", "read", "write", "other"}

Desc == 0 .. NUM - 1

VARIABLES
    lock,        \* who holds vdisk_lock: a process, "intr" or None
    pc, op, idx, \* of each process: where, which operation, head of its chain
    bdisk,       \* b->disk
    free,        \* disk.free[]
    desc,        \* disk.desc[]: what it points to, and the next one
    ops,         \* disk.ops[]
    info,        \* disk.info[]
    avail, avail_idx,
    used, used_dev,  \* the used ring, with the device's index
    used_idx,        \* the driver's index into it
    seen,        \* device: avail entries taken so far
    inflight,    \* device: chains it is working on
    due, irq,    \* the device is about to interrupt; its interrupt is pending
    done         \* history: what the device did for the call in progress

queue == <<free, desc, ops, info>>
rings == <<avail, avail_idx, used, used_dev>>
device == <<seen, inflight, due, irq, done>>
calls == <<pc, op, idx>>
vars == <<lock, calls, bdisk, queue, rings, used_idx, device>>

NoDesc == [to |-> None, of |-> None, next |-> None]
NoOp == [type |-> None, sector |-> None]
NoInfo == [b |-> None, ok |-> FALSE]

(* virtio_disk_init(): nothing in use, nothing in the rings.               *)
Init ==
    /\ lock = None
    /\ pc = [p \in Procs |-> "idle"]
    /\ op = [p \in Procs |-> None]
    /\ idx = [p \in Procs |-> None]
    /\ bdisk = [p \in Procs |-> FALSE]
    /\ free = [d \in Desc |-> TRUE]
    /\ desc = [d \in Desc |-> NoDesc]
    /\ ops = [d \in Desc |-> NoOp]
    /\ info = [d \in Desc |-> NoInfo]
    /\ avail = [d \in Desc |-> None] /\ avail_idx = 0
    /\ used = [d \in Desc |-> None] /\ used_dev = 0
    /\ used_idx = 0
    /\ seen = 0 /\ inflight = {} /\ due = FALSE /\ irq = FALSE
    /\ done = [p \in Procs |-> None]

Goto(p, l) == [pc EXCEPT ![p] = l]

(* wakeup(&disk.free[0]) and wakeup(b); the mutant wakes nobody.           *)
WakeForDesc_none(f) == f
WakeForDesc(f) == [p \in Procs |-> IF f[p] = "sleep_desc" THEN "lock" ELSE f[p]]
WakeForBuf(f, b) == [p \in Procs |-> IF p = b /\ f[p] = "sleep_buf" THEN "relock" ELSE f[p]]

-----------------------------------------------------------------------------
(* virtio_disk_rw().                                                       *)
call(p, o) ==
    /\ pc[p] = "idle"
    /\ op' = [op EXCEPT ![p] = o]
    /\ pc' = Goto(p, "lock")
    /\ UNCHANGED <<lock, idx, bdisk, queue, rings, used_idx, device>>

FreeDesc == {d \in Desc : free[d]}

(* The least descriptor of a set, as a set.                                *)
First(S) == {d \in S : \A e \in S : d <= e}

(* alloc3_desc() takes the three lowest free descriptors, and the request  *)
(* is laid out in them.  The mutant forgets b->disk = 1.                   *)
alloc3_desc_not_waited(p) ==
    \E a \in First(FreeDesc) : \E b \in First(FreeDesc \ {a}) : \E c \in First(FreeDesc \ {a, b}) :
    /\ pc[p] = "lock" /\ lock = None
    /\ lock' = p
    /\ free' = [free EXCEPT ![a] = FALSE, ![b] = FALSE, ![c] = FALSE]
    /\ ops' = [ops EXCEPT ![a] = [type |-> op[p], sector |-> p]]
    /\ desc' = [desc EXCEPT ![a] = [to |-> "ops", of |-> a, next |-> b],
                            ![b] = [to |-> "data", of |-> p, next |-> c],
                            ![c] = [to |-> "status", of |-> a, next |-> None]]
    /\ info' = [info EXCEPT ![a] = [b |-> p, ok |-> FALSE]]
    /\ idx' = [idx EXCEPT ![p] = a]
    /\ pc' = Goto(p, "ring")
    /\ UNCHANGED <<op, bdisk, rings, used_idx, device>>
alloc3_desc(p) ==
    \E a \in First(FreeDesc) : \E b \in First(FreeDesc \ {a}) : \E c \in First(FreeDesc \ {a, b}) :
    /\ pc[p] = "lock" /\ lock = None
    /\ lock' = p
    /\ free' = [free EXCEPT ![a] = FALSE, ![b] = FALSE, ![c] = FALSE]
    /\ ops' = [ops EXCEPT ![a] = [type |-> op[p], sector |-> p]]
    /\ desc' = [desc EXCEPT ![a] = [to |-> "ops", of |-> a, next |-> b],
                            ![b] = [to |-> "data", of |-> p, next |-> c],
                            ![c] = [to |-> "status", of |-> a, next |-> None]]
    /\ info' = [info EXCEPT ![a] = [b |-> p, ok |-> FALSE]]
    /\ bdisk' = [bdisk EXCEPT ![p] = TRUE]
    /\ idx' = [idx EXCEPT ![p] = a]
    /\ pc' = Goto(p, "ring")
    /\ UNCHANGED <<op, rings, used_idx, device>>

(* Fewer than three: give back what was taken, which wakes the others that *)
(* wait for descriptors, and sleep.                                        *)
alloc3_fails(p) ==
    /\ pc[p] = "lock" /\ lock = None
    /\ Cardinality(FreeDesc) < 3
    /\ pc' = [(IF FreeDesc = {} THEN pc ELSE WakeForDesc(pc)) EXCEPT ![p] = "sleep_desc"]
    /\ UNCHANGED <<lock, op, idx, bdisk, queue, rings, used_idx, device>>

(* The chain goes into the avail ring ...                                  *)
put_avail(p) ==
    /\ pc[p] = "ring"
    /\ avail' = [avail EXCEPT ![avail_idx % NUM] = idx[p]]
    /\ pc' = Goto(p, "publish")
    /\ UNCHANGED <<lock, op, idx, bdisk, queue, avail_idx, used, used_dev, used_idx, device>>

(* ... and the index tells the device.                                     *)
publish(p) ==
    /\ pc[p] = "publish"
    /\ avail_idx' = (avail_idx + 1) % Modulus
    /\ pc' = Goto(p, "wait")
    /\ UNCHANGED <<lock, op, idx, bdisk, queue, avail, used, used_dev, used_idx, device>>

(* while(b->disk == 1) sleep(b, &disk.vdisk_lock)                          *)
sleep_buf(p) ==
    /\ pc[p] = "wait" /\ bdisk[p]
    /\ lock' = None
    /\ pc' = Goto(p, "sleep_buf")
    /\ UNCHANGED <<op, idx, bdisk, queue, rings, used_idx, device>>

relock(p) ==
    /\ pc[p] = "relock" /\ lock = None
    /\ lock' = p
    /\ pc' = Goto(p, "wait")
    /\ UNCHANGED <<op, idx, bdisk, queue, rings, used_idx, device>>

Chain(h) == {h, desc[h].next, desc[desc[h].next].next}

(* b->disk is clear: free_chain() and return.                              *)
finish(p) ==
    /\ pc[p] = "wait" /\ ~bdisk[p]
    /\ lock' = None
    /\ free' = [d \in Desc |-> free[d] \/ d \in Chain(idx[p])]
    /\ desc' = [d \in Desc |-> IF d \in Chain(idx[p]) THEN NoDesc ELSE desc[d]]
    /\ info' = [info EXCEPT ![idx[p]] = NoInfo]
    /\ ops' = [ops EXCEPT ![idx[p]] = NoOp]
    /\ pc' = WakeForDesc(Goto(p, "idle"))
    /\ op' = [op EXCEPT ![p] = None]
    /\ idx' = [idx EXCEPT ![p] = None]
    /\ done' = [done EXCEPT ![p] = None]
    /\ UNCHANGED <<bdisk, rings, used_idx, seen, inflight, due, irq>>

virtio_disk_rw(p) ==
    \/ alloc3_desc(p) \/ alloc3_fails(p)
    \/ put_avail(p) \/ publish(p)
    \/ sleep_buf(p) \/ relock(p) \/ finish(p)

-----------------------------------------------------------------------------
(* virtio_disk_intr(): acknowledge first, then go through the used ring.   *)
intr_ack ==
    /\ irq /\ lock = None
    /\ lock' = "intr"
    /\ irq' = FALSE
    /\ UNCHANGED <<calls, bdisk, queue, rings, used_idx, seen, inflight, due, done>>

UsedId == used[used_idx % NUM]

(* One entry of the used ring.                                             *)
intr_entry ==
    /\ lock = "intr" /\ used_idx # used_dev
    /\ bdisk' = [bdisk EXCEPT ![info[UsedId].b] = FALSE]
    /\ pc' = WakeForBuf(pc, info[UsedId].b)
    /\ used' = [used EXCEPT ![used_idx % NUM] = None]
    /\ used_idx' = (used_idx + 1) % Modulus
    /\ UNCHANGED <<lock, op, idx, queue, avail, avail_idx, used_dev, device>>

(* The used ring is exhausted; the mutant does not look again.             *)
intr_end_once ==
    /\ lock = "intr"
    /\ lock' = None
    /\ UNCHANGED <<calls, bdisk, queue, rings, used_idx, device>>
intr_end ==
    /\ lock = "intr" /\ used_idx = used_dev
    /\ lock' = None
    /\ UNCHANGED <<calls, bdisk, queue, rings, used_idx, device>>

virtio_disk_intr == intr_ack \/ intr_entry \/ intr_end

-----------------------------------------------------------------------------
(* The device: takes published chains in order, completes them in any      *)
(* order, appends each to the used ring, and then interrupts.              *)
dev_take ==
    /\ seen # avail_idx
    /\ inflight' = inflight \cup {avail[seen % NUM]}
    /\ avail' = [avail EXCEPT ![seen % NUM] = None]
    /\ seen' = (seen + 1) % Modulus
    /\ UNCHANGED <<lock, calls, bdisk, queue, avail_idx, used, used_dev, used_idx,
                   due, irq, done>>

dev_complete(h) ==
    LET data == desc[h].next
        status == desc[data].next
    IN
    /\ h \in inflight
    /\ done' = [done EXCEPT ![desc[data].of] =
                   IF ops[h].sector = desc[data].of THEN ops[h].type ELSE "other"]
    /\ info' = [info EXCEPT ![desc[status].of].ok = TRUE]
    /\ used' = [used EXCEPT ![used_dev % NUM] = h]
    /\ used_dev' = (used_dev + 1) % Modulus
    /\ inflight' = inflight \ {h}
    /\ due' = TRUE
    /\ UNCHANGED <<lock, calls, bdisk, free, desc, ops, avail, avail_idx, used_idx, seen, irq>>

dev_interrupt ==
    /\ due
    /\ due' = FALSE
    /\ irq' = TRUE
    /\ UNCHANGED <<lock, calls, bdisk, queue, rings, used_idx, seen, inflight, done>>

Device == dev_take \/ (\E h \in Desc : dev_complete(h)) \/ dev_interrupt

Next ==
    \/ \E p \in Procs : (\E o \in {"read", "write"} : call(p, o)) \/ virtio_disk_rw(p)
    \/ virtio_disk_intr
    \/ Device

Spec == Init /\ [][Next]_vars

-----------------------------------------------------------------------------
(* Every variable has one of its values.                                   *)
TypeOK ==
    /\ lock \in Procs \cup {"intr", None}
    /\ pc \in [Procs -> {"idle", "lock", "sleep_desc", "ring", "publish",
                         "wait", "sleep_buf", "relock"}]
    /\ op \in [Procs -> {"read", "write", None}]
    /\ idx \in [Procs -> Desc \cup {None}]
    /\ bdisk \in [Procs -> BOOLEAN] /\ free \in [Desc -> BOOLEAN]
    /\ desc \in [Desc -> [to : {"ops", "data", "status", None},
                         of : Desc \cup Procs \cup {None}, next : Desc \cup {None}]]
    /\ ops \in [Desc -> [type : {"read", "write", None}, sector : Procs \cup {None}]]
    /\ info \in [Desc -> [b : Procs \cup {None}, ok : BOOLEAN]]
    /\ avail \in [Desc -> Desc \cup {None}] /\ used \in [Desc -> Desc \cup {None}]
    /\ {avail_idx, used_dev, used_idx, seen} \subseteq 0 .. Modulus - 1
    /\ inflight \subseteq Desc
    /\ due \in BOOLEAN /\ irq \in BOOLEAN
    /\ done \in [Procs -> {"read", "write", "other", None}]

(* The ring entries between two indices.                                   *)
Entries(ring, from, to) ==
    {ring[(from + k) % NUM] : k \in 0 .. ((to - from) % Modulus) - 1}

Published == Entries(avail, seen, avail_idx)
Completed == Entries(used, used_idx, used_dev)

(* Whatever the device or the interrupt handler has still to look at is    *)
(* the chain of a call that waits for it, complete and not free; and no    *)
(* two calls share a descriptor.  virtio_disk_rw() may therefore free its  *)
(* chain without free_desc() panicking, and virtio_disk_intr() finds the   *)
(* buffer of every entry, with status 0.                                   *)
ChainsOwned ==
    /\ \A h \in Published \cup inflight \cup Completed :
          \E p \in Procs : idx[p] = h /\ bdisk[p] /\ info[h].b = p /\ pc[p] \in {"wait", "sleep_buf"}
    /\ \A h \in Completed : info[h].ok
    /\ \A p \in Procs : idx[p] # None =>
          /\ Cardinality(Chain(idx[p])) = 3
          /\ \A d \in Chain(idx[p]) : ~free[d]
          /\ \A q \in Procs \ {p} : idx[q] # None => Chain(idx[p]) \cap Chain(idx[q]) = {}

(* The driver never misses a completion: while the used ring holds an      *)
(* entry the handler has not seen, the handler is running or an interrupt  *)
(* is pending or due, though the handler acknowledges before it looks.     *)
CompletionSeen == used_idx # used_dev => irq \/ due \/ lock = "intr"

(* Who holds vdisk_lock, has a chain, and waits for the disk; the entry    *)
(* that publish() is about to make visible is in place.                    *)
Control ==
    \A p \in Procs :
        /\ pc[p] = "idle" <=> op[p] = None
        /\ lock = p <=> pc[p] \in {"ring", "publish", "wait"}
        /\ idx[p] # None <=> pc[p] \in {"ring", "publish", "wait", "sleep_buf", "relock"}
        /\ pc[p] \in {"ring", "publish"} => bdisk[p]
        /\ bdisk[p] => pc[p] \in {"ring", "publish", "wait", "sleep_buf"}
        /\ pc[p] = "publish" => avail[avail_idx % NUM] = idx[p]

(* The three descriptors of every request in progress, as laid out.        *)
Laid(p, b, c) ==
    /\ desc[idx[p]] = [to |-> "ops", of |-> idx[p], next |-> b]
    /\ desc[b] = [to |-> "data", of |-> p, next |-> c]
    /\ desc[c] = [to |-> "status", of |-> idx[p], next |-> None]
    /\ ~free[idx[p]] /\ ~free[b] /\ ~free[c]
    /\ ops[idx[p]] = [type |-> op[p], sector |-> p] /\ info[idx[p]].b = p

Layout == \A p \in Procs : idx[p] # None => \E b, c \in Desc : Laid(p, b, c)

(* There is room in the ring, and nothing in it twice.                     *)
Distinct(ring, from, to) ==
    LET n == (to - from) % Modulus IN
    /\ n < NUM
    /\ \A i, j \in 0 .. n - 1 : i # j => ring[(from + i) % NUM] # ring[(from + j) % NUM]

(* A chain is in one place at a time on its way through the device, and    *)
(* the rings never overflow, though their indices do.                      *)
Queues ==
    /\ Distinct(avail, seen, avail_idx) /\ Distinct(used, used_idx, used_dev)
    /\ Published \cap inflight = {} /\ Published \cap Completed = {} /\ inflight \cap Completed = {}
    /\ \A h \in Published \cup inflight \cup Completed :
          \E p \in Procs : idx[p] = h /\ bdisk[p] /\ pc[p] \in {"wait", "sleep_buf"}

(* The disk has done what a call asked for once its chain is completed,    *)
(* and nothing before.                                                     *)
Performed ==
    \A p \in Procs :
        IF idx[p] # None /\ (idx[p] \in Completed \/ ~bdisk[p])
        THEN done[p] = op[p] /\ (bdisk[p] => info[idx[p]].ok)
        ELSE done[p] = None

(* The invariant of the driver: it has its types, descriptor chains belong *)
(* to one request each, no completion is missed; and the control, layout   *)
(* and queue facts that make this inductive.                               *)
Inv == TypeOK /\ ChainsOwned /\ CompletionSeen /\ Control /\ Layout /\ Queues /\ Performed

(* No lost wakeup: a process sleeps for its buffer only until the disk is  *)
(* done with it, and for descriptors only while three are not free.        *)
SleepersJustified ==
    \A p \in Procs :
        /\ pc[p] = "sleep_buf" => bdisk[p]
        /\ pc[p] = "sleep_desc" => Cardinality(FreeDesc) < 3

Requests == INSTANCE DiskRequests WITH req <- op

(* Each request is performed by the device exactly once and as asked,      *)
(* between call and return of its virtio_disk_rw(), in whatever order the  *)
(* device completes and however the indices wrap.                          *)
ImplementsRequests == Requests!ReqSpec

=============================================================================
