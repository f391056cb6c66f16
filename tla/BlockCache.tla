----------------------------- MODULE BlockCache -----------------------------
(***************************************************************************)
(* What the buffer cache promises the code above it: one copy of a block   *)
(* at most, used by one process at a time, which stays what it was while   *)
(* the block is held or pinned, and may revert to what the disk has while  *)
(* it is neither.  Module Log uses buffers exactly in this way.            *)
(***************************************************************************)
EXTENDS Naturals

CONSTANTS Blocks, Data, Procs, MaxPins, None

VARIABLES disk,    \* the block device
          cache,   \* the copy in memory, or None
          holder,  \* the process that has the block locked, or None
          pins     \* how many times it is pinned

bcvars == <<disk, cache, holder, pins>>

CacheInit ==
    /\ disk \in [Blocks -> Data]
    /\ cache = [k \in Blocks |-> None]
    /\ holder = [k \in Blocks |-> None]
    /\ pins = [k \in Blocks |-> 0]

(* The block is brought into memory while nobody holds it ...              *)
Load(k) ==
    /\ cache[k] = None
    /\ cache' = [cache EXCEPT ![k] = disk[k]]
    /\ UNCHANGED <<disk, pins>>

(* ... by the process that locks it.                                       *)
Lock(p, k) ==
    /\ holder[k] = None
    /\ holder' = [holder EXCEPT ![k] = p]
    /\ Load(k) \/ (cache[k] # None /\ UNCHANGED <<disk, cache, pins>>)

Modify(p, k, d) ==
    /\ holder[k] = p
    /\ cache' = [cache EXCEPT ![k] = d]
    /\ UNCHANGED <<disk, holder, pins>>

WriteBack(p, k) ==
    /\ holder[k] = p
    /\ disk' = [disk EXCEPT ![k] = cache[k]]
    /\ UNCHANGED <<cache, holder, pins>>

Unlock(p, k) ==
    /\ holder[k] = p
    /\ holder' = [holder EXCEPT ![k] = None]
    /\ UNCHANGED <<disk, cache, pins>>

Pin(p, k) ==
    /\ holder[k] = p
    /\ pins' = [pins EXCEPT ![k] = @ + 1]
    /\ UNCHANGED <<disk, cache, holder>>

Unpin(p, k) ==
    /\ holder[k] = p /\ pins[k] > 0
    /\ pins' = [pins EXCEPT ![k] = @ - 1]
    /\ UNCHANGED <<disk, cache, holder>>

Forget(k) ==
    /\ holder[k] = None /\ pins[k] = 0
    /\ cache' = [cache EXCEPT ![k] = None]
    /\ UNCHANGED <<disk, holder, pins>>

CacheNext ==
    \E k \in Blocks :
        \/ Forget(k)
        \/ \E p \in Procs :
            \/ Lock(p, k) \/ WriteBack(p, k) \/ Unlock(p, k)
            \/ Pin(p, k) \/ Unpin(p, k)
            \/ \E d \in Data : Modify(p, k, d)

CacheSpec == CacheInit /\ [][CacheNext]_bcvars
=============================================================================
