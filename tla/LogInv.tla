------------------------------- MODULE LogInv -------------------------------
(* The inductive invariant behind the theorems of LogProofs.               *)
EXTENDS Log

NoDup(h) == \A i, j \in 1 .. Len(h) : h[i] = h[j] => i = j

Committing == pc \in {"write_log", "write_head", "install", "erase", "done"}

(* Who may be where: one process commits, and only while no operation is   *)
(* open; nothing else runs before recovery has finished.                   *)
Control ==
    /\ outstanding = Cardinality(Active)
    /\ committing = Committing
    /\ \A p, q \in Procs : st[p] = "commit" /\ st[q] = "commit" => p = q
    /\ committing => Active = {}
    /\ panic => outstanding # 0
    /\ committing <=> \E p \in Procs : st[p] = "commit"
    /\ Recovering => \A p \in Procs : st[p] = "out"
    /\ Recovering => \A b \in Blocks : holder[b] = None

(* The in-memory header, the on-disk header and the loop variables.        *)
Headers ==
    /\ NoDup(lh) /\ NoDup(dhead)
    /\ Len(lh) <= LOGSIZE /\ Len(dhead) <= LOGSIZE
    /\ pc \in {"read_head", "done"} => lh = <<>>
    /\ pc = "idle" /\ outstanding = 0 => lh = <<>>
    /\ pc \in {"idle", "write_log", "write_head", "done"} => dhead = <<>>
    /\ pc \in {"install", "reinstall", "erase", "clear"} => dhead = lh
    /\ pc = "write_head" => lh # <<>>
    /\ IF pc \in {"write_log", "install", "reinstall"}
       THEN tail < Len(lh)
       ELSE tail = 0 /\ ~writing

(* The buffer whose bwrite() commit() waits for stays locked.              *)
InFlightHeld ==
    writing /\ ~Recovering =>
        \A p \in Procs : st[p] = "commit" => holder[lh[tail + 1]] = p

(* What the slots and the home locations hold.                             *)
OnDisk ==
    /\ \A i \in 1 .. Len(dhead) : dlog[i] \in Data
    /\ \A b \in Blocks : b \notin Logged(dhead) => disk[b] \in Data
    /\ pc \in {"install", "reinstall"} =>
          \A i \in 1 .. tail : disk[lh[i]] = dlog[i]
    /\ pc \in {"erase", "clear"} =>
          \A i \in 1 .. Len(dhead) : disk[dhead[i]] = dlog[i]

(* The cache against the disk, while the system runs.                      *)
Cached ==
    ~Recovering /\ ~panic =>
        /\ \A b \in Pinned : cache[b] \in Data
        /\ \A b \in Blocks \ Pinned :
              disk[b] \in Data /\ cache[b] \in {NotCached, disk[b]}
        /\ pc = "write_log" => \A i \in 1 .. tail : dlog[i] = cache[lh[i]]
        /\ pc = "write_head" => \A i \in 1 .. Len(lh) : dlog[i] = cache[lh[i]]
        /\ pc = "install" =>
              \A i \in tail + 1 .. Len(lh) : dlog[i] = cache[lh[i]]

(* The cache and its references during recovery.                           *)
Recovered ==
    Recovering =>
        \A b \in Blocks :
            IF writing /\ b = lh[tail + 1]
            THEN refcnt[b] = 1 /\ cache[b] = dlog[tail + 1]
            ELSE refcnt[b] = 0 /\ cache[b] \in {NotCached, disk[b]}

(* The invariant each step of log.c preserves: the phases of commit() and  *)
(* of recovery tie the cache, the log slots, the two headers and the home  *)
(* locations together.                                                     *)
Inv ==
    /\ TypeOK
    /\ Control
    /\ Headers
    /\ InFlightHeld
    /\ OnDisk
    /\ RefcntExact
    /\ Cached
    /\ Recovered

(* What begin_op()'s reservation rests on: the space itself, and that an   *)
(* operation's blocks are in the log and within its share.                 *)
Space ==
    /\ Reservation
    /\ \A p \in Procs :
          /\ IsFiniteSet(wrote[p])
          /\ IF st[p] = "in"
             THEN wrote[p] \subseteq Logged(lh) /\ Cardinality(wrote[p]) <= OpBlocks
             ELSE wrote[p] = {}
=============================================================================
