---------------------------- MODULE DiskRequests ----------------------------
(***************************************************************************)
(* What virtio_disk_rw() promises its caller: every request is performed   *)
(* by the disk exactly once, as it was asked for, between call and return. *)
(***************************************************************************)
CONSTANTS Procs, None

VARIABLES req,   \* the operation each process is waiting for, or None
          done   \* the operation the disk performed for it

rvars == <<req, done>>

ReqInit == req = [p \in Procs |-> None] /\ done = [p \in Procs |-> None]

Ask(p, op) ==
    /\ req[p] = None
    /\ req' = [req EXCEPT ![p] = op]
    /\ UNCHANGED done

Perform(p) ==
    /\ req[p] # None /\ done[p] = None
    /\ done' = [done EXCEPT ![p] = req[p]]
    /\ UNCHANGED req

Return(p) ==
    /\ req[p] # None /\ done[p] = req[p]
    /\ req' = [req EXCEPT ![p] = None]
    /\ done' = [done EXCEPT ![p] = None]

ReqNext ==
    \E p \in Procs :
        (\E op \in {"read", "write"} : Ask(p, op)) \/ Perform(p) \/ Return(p)

ReqSpec == ReqInit /\ [][ReqNext]_rvars
=============================================================================
