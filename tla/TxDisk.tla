------------------------------- MODULE TxDisk -------------------------------
(***************************************************************************)
(* What the logging layer (kernel/log.c) promises to the file system above *)
(* it: a disk whose contents change by whole groups of operations.         *)
(*                                                                         *)
(*   mem      the contents every process sees (cache over disk),           *)
(*   durable  the contents a crash followed by a reboot brings back,       *)
(*   active   the operations between begin_op() and end_op().              *)
(*                                                                         *)
(* durable moves to mem in one step, and only while no operation is        *)
(* active: so a crash never exposes a part of an operation.                *)
(***************************************************************************)
CONSTANTS Blocks, Data, Procs

VARIABLES mem, durable, active

txvars == <<mem, durable, active>>

TxInit ==
    /\ durable \in [Blocks -> Data]
    /\ mem = durable
    /\ active = {}

TxBegin(p) ==
    /\ p \notin active
    /\ active' = active \cup {p}
    /\ UNCHANGED <<mem, durable>>

TxWrite(p) ==
    /\ p \in active
    /\ \E b \in Blocks, d \in Data : mem' = [mem EXCEPT ![b] = d]
    /\ UNCHANGED <<durable, active>>

TxEnd(p) ==
    /\ p \in active
    /\ active' = active \ {p}
    /\ UNCHANGED <<mem, durable>>

TxCommit ==
    /\ active = {}
    /\ durable' = mem
    /\ UNCHANGED <<mem, active>>

TxCrash ==
    /\ mem' = durable
    /\ active' = {}
    /\ UNCHANGED durable

TxNext ==
    \/ \E p \in Procs : TxBegin(p) \/ TxWrite(p) \/ TxEnd(p)
    \/ TxCommit
    \/ TxCrash

TxSpec == TxInit /\ [][TxNext]_txvars
=============================================================================
