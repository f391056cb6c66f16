----------------------------- MODULE ProcProofs -----------------------------
(***************************************************************************)
(* The theorems about the process table, from an invariant that each step  *)
(* of fork(), exit(), wait(), kill(), the scheduler and the context switch *)
(* preserves.                                                              *)
(*                                                                         *)
(* The properties are not inductive: StackExclusive needs to know which    *)
(* CPU is with which process and who holds its p->lock (Dispatched,        *)
(* LocksHeld), NoOrphan needs the order in which fork() links a child and  *)
(* reparent() passes the children on (Forks, Family), and                  *)
(* SleeperHasNoZombie what wait() and exit() have seen so far while they   *)
(* hold wait_lock (Sleepers).                                              *)
(***************************************************************************)
EXTENDS Proc, TLAPS

(* Slot numbers are positive, and None is none of them.                    *)
LEMMA SlotFacts ==
    /\ initproc \in Slots /\ None \notin Slots /\ initproc = 1 /\ 1 \in 1 .. NPROC + 1
    /\ \A q \in Slots : q \in Nat /\ q >= 1 /\ q + 1 \in 1 .. NPROC + 1
  BY NPROCAssumption, NoneAssumption DEF Slots, initproc

(* A process that is not RUNNING, with its lock free, is with no CPU.      *)
LEMMA Parked ==
    ASSUME TypeOK, Table, NEW q \in Slots, plock[q] = None, state[q] # "RUNNING"
    PROVE  \A d \in CPUs : cproc[d] # q /\ pc[q] = "resumed"
<1>1. \A d \in CPUs : cproc[d] # q
  BY SlotFacts, NoneAssumption DEF Table, Dispatched, LocksHeld, Switching
<1>2. ASSUME pc[q] # "resumed" PROVE FALSE
  <2>1. PICK c \in CPUs : context[c] = q
    BY <1>2, Zenon DEF Table, Dispatched
  <2> QED  BY <1>1, <2>1, SlotFacts, Zenon DEF Table, Dispatched
<1> QED  BY <1>1, <1>2, Zenon

(* wait_lock keeps all others out of wait() and the end of exit().         *)
LEMMA Alone ==
    ASSUME TypeOK, Table, NEW c \in CPUs, NEW p \in Slots, context[c] = p,
           pc[p] \in Exiting \cup {"wait_scan", "wait_sleep"}
    PROVE  \A r \in Slots \ {p} : pc[r] \notin Exiting \cup {"wait_scan", "wait_sleep"}
<1>1. wait_lock = c
  BY SlotFacts, Zenon DEF Table, LocksHeld
<1>2. ASSUME NEW r \in Slots \ {p}, pc[r] \in Exiting \cup {"wait_scan", "wait_sleep"}
      PROVE  FALSE
  <2>1. PICK d \in CPUs : context[d] = r
    BY <1>2, Zenon DEF Table, Dispatched, Exiting
  <2>2. wait_lock = d
    BY <1>2, <2>1, SlotFacts, Zenon DEF Table, LocksHeld
  <2> QED  BY <1>1, <2>1, <2>2, Zenon
<1> QED  BY <1>2, Zenon

(* fork() has the slot it took.                                            *)
LEMMA ForkSlot ==
    ASSUME TypeOK, Table, NEW p \in Slots, pc[p] \in Forking
    PROVE  \E q \in Slots : np[p] = q
  BY SMTT(30) DEF TypeOK, Table, Forks, At, Forking

(* A step that leaves the scheduling and fork() alone.                     *)
LEMMA Undisturbed ==
    ASSUME Table,
           UNCHANGED <<state, parent, plock, wait_lock, context, cproc, pc, resume, np>>
    PROVE  Dispatched' /\ LocksHeld' /\ Forks'
<1>1. Dispatched'
  BY DEF Table, Dispatched
<1>2. LocksHeld'
  <2>1. \A c \in CPUs, p \in Slots :
            Switching(c, p)' = Switching(c, p) /\ Copying(c, p)' = Copying(c, p)
    BY Zenon DEF Switching, Copying
  <2> QED  BY <2>1, Zenon DEF Table, LocksHeld
<1>3. Forks'
  BY Zenon DEF Table, Forks, At
<1> QED  BY <1>1, <1>2, <1>3, Zenon

(* wakeup() and kill(): a sleeper, whose lock is free, becomes RUNNABLE.   *)
LEMMA Awaken ==
    ASSUME TypeOK, Table, NEW q \in Slots, plock[q] = None, state[q] = "SLEEPING",
           state' = [state EXCEPT ![q] = "RUNNABLE"],
           UNCHANGED <<parent, plock, wait_lock, context, cproc, pc, resume, i, np>>
    PROVE  Dispatched' /\ LocksHeld' /\ Forks' /\ Family'
<1>1. \A d \in CPUs : cproc[d] # q
  BY Parked, Zenon
<1>2. state \in [Slots -> States] /\ parent \in [Slots -> Slots \cup {None}] /\ Table
      /\ np \in [Slots -> Slots \cup {None}] /\ cproc \in [CPUs -> Slots \cup {None}]
  BY Zenon DEF TypeOK
<1>3. Dispatched'
  BY <1>1, <1>2 DEF Table, Dispatched
<1>4. LocksHeld'
  <2>1. \A c \in CPUs, p \in Slots :
            Switching(c, p)' = Switching(c, p) /\ Copying(c, p)' = Copying(c, p)
    BY Zenon DEF Switching, Copying
  <2> QED  BY <2>1 DEF Table, LocksHeld
<1>5. Forks'
  BY <1>2 DEF Table, Forks, At, Forking
<1>6. Family'
  BY <1>2 DEF Table, Family, Children, Exiting, Alive
<1> QED  BY <1>3, <1>4, <1>5, <1>6, Zenon

(* scheduler() takes only a process that is with no other CPU.             *)
LEMMA SchedulerPickInv ==
    ASSUME TypeOK, Table, NEW c \in CPUs, NEW p \in Slots,
           scheduler_pick(c, p), panic' = panic
    PROVE  TypeOK' /\ Table'
<1>1. /\ context[c] = None /\ cproc[c] = None
      /\ plock[p] = None /\ state[p] = "RUNNABLE"
      /\ plock' = [plock EXCEPT ![p] = c]
      /\ state' = [state EXCEPT ![p] = "RUNNING"]
      /\ cproc' = [cproc EXCEPT ![c] = p]
      /\ context' = [context EXCEPT ![c] = p]
      /\ UNCHANGED <<parent, chan, killed, wait_lock, pc, resume, i, j, np, havekids>>
  BY Zenon DEF scheduler_pick, Goto, pvars, lvars, svars, tvars
<1>2. /\ Dispatched /\ LocksHeld /\ Forks /\ Family /\ Sleepers
      /\ state \in [Slots -> States]
      /\ parent \in [Slots -> Slots \cup {None}]
      /\ plock \in [Slots -> CPUs \cup {None}]
      /\ context \in [CPUs -> Slots \cup {None}]
      /\ cproc \in [CPUs -> Slots \cup {None}]
      /\ i \in [Slots -> 1 .. NPROC + 1]
      /\ j \in [Slots -> 1 .. NPROC + 1]
  BY Zenon DEF Table, TypeOK
<1>3. \A d \in CPUs : cproc[d] # p /\ pc[p] = "resumed"
  BY <1>1, Parked, Zenon
<1>4. TypeOK'
  BY <1>1, SlotFacts, Zenon DEF TypeOK, States, PCs, Resumes
<1>5. Dispatched'
  BY <1>1, <1>2, <1>3, SlotFacts, NoneAssumption DEF Dispatched
<1>6. LocksHeld'
  BY <1>1, <1>2, <1>3, SlotFacts, NoneAssumption
     DEF LocksHeld, Switching, Copying, Exiting, Dispatched
<1>7. Forks'
  BY <1>1, <1>2, <1>3, SlotFacts, NoneAssumption DEF Forks, At, Forking, Dispatched
<1>8. Family'
  BY <1>1, <1>2, <1>3, SlotFacts, NoneAssumption
     DEF Family, Exiting, Alive, Children, Dispatched
<1>9. Sleepers'
  BY <1>1, <1>2, <1>3, SlotFacts, NoneAssumption DEF Sleepers, Children, Exiting, Dispatched
<1> QED  BY <1>4, <1>5, <1>6, <1>7, <1>8, <1>9, Zenon DEF Table

(* scheduler() lets go of the process that sched() has left.               *)
LEMMA SchedulerBackInv ==
    ASSUME TypeOK, Table, NEW c \in CPUs,
           scheduler_back(c), panic' = panic
    PROVE  TypeOK' /\ Table'
<1>1. /\ context[c] = None /\ cproc[c] # None
      /\ plock' = [plock EXCEPT ![cproc[c]] = None]
      /\ cproc' = [cproc EXCEPT ![c] = None]
      /\ UNCHANGED <<state, parent, chan, killed, wait_lock, context, pc, resume, i, j,
                     np, havekids>>
  BY Zenon DEF scheduler_back, Goto, pvars, lvars, svars, tvars
<1>2. /\ Dispatched /\ LocksHeld /\ Forks /\ Family /\ Sleepers
      /\ parent \in [Slots -> Slots \cup {None}]
      /\ plock \in [Slots -> CPUs \cup {None}]
      /\ context \in [CPUs -> Slots \cup {None}]
      /\ cproc \in [CPUs -> Slots \cup {None}]
      /\ i \in [Slots -> 1 .. NPROC + 1]
      /\ j \in [Slots -> 1 .. NPROC + 1]
  BY Zenon DEF Table, TypeOK
<1>3. TypeOK'
  BY <1>1, SlotFacts, Zenon DEF TypeOK, States, PCs, Resumes
<1>4. Dispatched'
  BY <1>1, <1>2, SlotFacts, NoneAssumption DEF Dispatched
<1>5. LocksHeld'
  BY <1>1, <1>2, SlotFacts, NoneAssumption
     DEF LocksHeld, Switching, Copying, Exiting, Dispatched
<1>6. Forks'
  BY <1>1, <1>2 DEF Forks, At, Forking
<1>7. Family'
  BY <1>1, <1>2, Zenon DEF Family, Exiting, Alive, Children
<1>8. Sleepers'
  BY <1>1, <1>2 DEF Sleepers, Children, Exiting
<1> QED  BY <1>3, <1>4, <1>5, <1>6, <1>7, <1>8, Zenon DEF Table

(* sched() leaves the CPU to the scheduler, with p->lock still held.       *)
LEMMA SchedInv ==
    ASSUME TypeOK, Table, NEW c \in CPUs, NEW p \in Slots,
           sched(c, p), panic' = panic
    PROVE  TypeOK' /\ Table'
<1>1. /\ context[c] = p /\ pc[p] = "sched"
      /\ context' = [context EXCEPT ![c] = None]
      /\ pc' = [pc EXCEPT ![p] = "resumed"]
      /\ UNCHANGED <<state, parent, chan, killed, plock, wait_lock, cproc, resume, i, j,
                     np, havekids>>
  BY Zenon DEF sched, Goto, pvars, lvars, svars, tvars
<1>2. /\ Dispatched /\ LocksHeld /\ Forks /\ Family /\ Sleepers
      /\ parent \in [Slots -> Slots \cup {None}]
      /\ context \in [CPUs -> Slots \cup {None}]
      /\ cproc \in [CPUs -> Slots \cup {None}]
      /\ pc \in [Slots -> Resumes \cup PCs]
      /\ i \in [Slots -> 1 .. NPROC + 1]
      /\ j \in [Slots -> 1 .. NPROC + 1]
  BY Zenon DEF Table, TypeOK
<1>3. TypeOK'
  BY <1>1, SlotFacts, Zenon DEF TypeOK, States, PCs, Resumes
<1>4. Dispatched'
  BY <1>1, <1>2, SlotFacts, NoneAssumption DEF Dispatched
<1>5. LocksHeld'
  BY <1>1, <1>2, SlotFacts, NoneAssumption
     DEF LocksHeld, Switching, Copying, Exiting, Dispatched
<1>6. Forks'
  BY <1>1, <1>2, SlotFacts, NoneAssumption DEF Forks, At, Forking, Dispatched
<1>7. Family'
  BY <1>1, <1>2, SlotFacts, NoneAssumption DEF Family, Exiting, Alive, Children, Dispatched
<1>8. Sleepers'
  BY <1>1, <1>2, SlotFacts, NoneAssumption DEF Sleepers, Children, Exiting, Dispatched
<1> QED  BY <1>3, <1>4, <1>5, <1>6, <1>7, <1>8, Zenon DEF Table

(* A process that goes on has not exited, so it does not resume in exit(). *)
LEMMA ResumedInv ==
    ASSUME TypeOK, Table, NEW c \in CPUs, NEW p \in Slots,
           resumed(c, p), panic' = panic
    PROVE  TypeOK' /\ Table'
<1>1. /\ context[c] = p /\ pc[p] = "resumed"
      /\ chan' = [chan EXCEPT ![p] = None]
      /\ plock' = [plock EXCEPT ![p] = None]
      /\ pc' = [pc EXCEPT ![p] = resume[p]]
      /\ UNCHANGED <<state, parent, killed, wait_lock, context, cproc, resume, i, j, np,
                     havekids>>
  BY Zenon DEF resumed, Goto, pvars, lvars, svars, tvars
<1>2. /\ Dispatched /\ LocksHeld /\ Forks /\ Family /\ Sleepers
      /\ parent \in [Slots -> Slots \cup {None}]
      /\ chan \in [Slots -> Slots \cup {None}]
      /\ plock \in [Slots -> CPUs \cup {None}]
      /\ context \in [CPUs -> Slots \cup {None}]
      /\ cproc \in [CPUs -> Slots \cup {None}]
      /\ pc \in [Slots -> Resumes \cup PCs]
      /\ i \in [Slots -> 1 .. NPROC + 1]
      /\ j \in [Slots -> 1 .. NPROC + 1]
  BY Zenon DEF Table, TypeOK
<1>3. resume[p] \in {"user", "fork_link", "fork_run", "wait_lock"}
  BY <1>1, <1>2, SlotFacts DEF TypeOK, Resumes, Dispatched
<1>4. TypeOK'
  BY <1>1, SlotFacts, Zenon DEF TypeOK, States, PCs, Resumes
<1>5. Dispatched'
  BY <1>1, <1>2, <1>3, SlotFacts, NoneAssumption DEF Dispatched
<1>6. LocksHeld'
  BY <1>1, <1>2, <1>3, SlotFacts, NoneAssumption
     DEF LocksHeld, Switching, Copying, Exiting, Dispatched
<1>7. Forks'
  BY <1>1, <1>2, <1>3, SlotFacts, NoneAssumption DEF Forks, At, Forking, Dispatched
<1>8. Family'
  BY <1>1, <1>2, <1>3, SlotFacts, NoneAssumption
     DEF Family, Exiting, Alive, Children, Dispatched
<1>9. Sleepers'
  BY <1>1, <1>2, <1>3, SlotFacts, NoneAssumption DEF Sleepers, Children, Exiting, Dispatched
<1> QED  BY <1>4, <1>5, <1>6, <1>7, <1>8, <1>9, Zenon DEF Table

(* yield() stops between critical sections, with no lock but its own.      *)
LEMMA YieldInv ==
    ASSUME TypeOK, Table, NEW c \in CPUs, NEW p \in Slots,
           yield(c, p), panic' = panic
    PROVE  TypeOK' /\ Table'
<1>1. /\ context[c] = p /\ pc[p] \in {"user", "fork_link", "fork_run", "wait_lock"}
      /\ plock[p] = None
      /\ plock' = [plock EXCEPT ![p] = c]
      /\ state' = [state EXCEPT ![p] = "RUNNABLE"]
      /\ resume' = [resume EXCEPT ![p] = pc[p]]
      /\ pc' = [pc EXCEPT ![p] = "sched"]
      /\ UNCHANGED <<parent, chan, killed, wait_lock, context, cproc, i, j, np, havekids>>
  BY Zenon DEF yield, StopAs, Goto, pvars, lvars, svars, tvars
<1>2. /\ Dispatched /\ LocksHeld /\ Forks /\ Family /\ Sleepers
      /\ state \in [Slots -> States]
      /\ parent \in [Slots -> Slots \cup {None}]
      /\ plock \in [Slots -> CPUs \cup {None}]
      /\ context \in [CPUs -> Slots \cup {None}]
      /\ cproc \in [CPUs -> Slots \cup {None}]
      /\ pc \in [Slots -> Resumes \cup PCs]
      /\ resume \in [Slots -> Resumes]
      /\ i \in [Slots -> 1 .. NPROC + 1]
      /\ j \in [Slots -> 1 .. NPROC + 1]
  BY Zenon DEF Table, TypeOK
<1>3. TypeOK'
  BY <1>1, SlotFacts, Zenon DEF TypeOK, States, PCs, Resumes
<1>4. Dispatched'
  BY <1>1, <1>2, SlotFacts, NoneAssumption DEF Dispatched
<1>5. LocksHeld'
  BY <1>1, <1>2, SlotFacts, NoneAssumption
     DEF LocksHeld, Switching, Copying, Exiting, Dispatched
<1>6. Forks'
  BY <1>1, <1>2, SlotFacts, NoneAssumption DEF Forks, At, Forking, Dispatched
<1>7. Family'
  BY <1>1, <1>2, SlotFacts, NoneAssumption DEF Family, Exiting, Alive, Children, Dispatched
<1>8. Sleepers'
  BY <1>1, <1>2, SlotFacts, NoneAssumption DEF Sleepers, Children, Exiting, Dispatched
<1> QED  BY <1>3, <1>4, <1>5, <1>6, <1>7, <1>8, Zenon DEF Table

(* allocproc() takes a slot that no CPU and no other fork() has.           *)
LEMMA AllocprocInv ==
    ASSUME TypeOK, Table, NEW c \in CPUs, NEW p \in Slots, NEW q \in Slots,
           allocproc(c, p, q), panic' = panic
    PROVE  TypeOK' /\ Table'
<1>1. /\ context[c] = p /\ pc[p] = "user"
      /\ plock[q] = None /\ state[q] = "UNUSED"
      /\ plock' = [plock EXCEPT ![q] = c]
      /\ state' = [state EXCEPT ![q] = "USED"]
      /\ np' = [np EXCEPT ![p] = q]
      /\ resume' = [resume EXCEPT ![q] = "user"]
      /\ UNCHANGED <<parent, chan, killed, wait_lock, context, cproc, i, j, havekids>>
  BY Zenon DEF allocproc, Goto, pvars, lvars, svars, tvars
<1>2. /\ Dispatched /\ LocksHeld /\ Forks /\ Family /\ Sleepers
      /\ state \in [Slots -> States]
      /\ parent \in [Slots -> Slots \cup {None}]
      /\ plock \in [Slots -> CPUs \cup {None}]
      /\ context \in [CPUs -> Slots \cup {None}]
      /\ cproc \in [CPUs -> Slots \cup {None}]
      /\ pc \in [Slots -> Resumes \cup PCs]
      /\ resume \in [Slots -> Resumes]
      /\ i \in [Slots -> 1 .. NPROC + 1]
      /\ j \in [Slots -> 1 .. NPROC + 1]
      /\ np \in [Slots -> Slots \cup {None}]
  BY Zenon DEF Table, TypeOK
<1>3. \A d \in CPUs : cproc[d] # q /\ pc[q] = "resumed"
  BY <1>1, Parked, Zenon
<1>4. pc' = [pc EXCEPT ![p] = "fork_copy"]
  BY <1>2, <1>3, Zenon DEF allocproc
<1>5. TypeOK'
  BY <1>1, <1>4, SlotFacts, Zenon DEF TypeOK, States, PCs, Resumes
<1>6. Dispatched'
  BY <1>1, <1>2, <1>3, <1>4, SlotFacts, NoneAssumption DEF Dispatched
<1>7. LocksHeld'
  BY <1>1, <1>2, <1>3, <1>4, SlotFacts, NoneAssumption
     DEF LocksHeld, Switching, Copying, Exiting, Dispatched
<1>8. Forks'
  BY <1>1, <1>2, <1>3, <1>4, SlotFacts, NoneAssumption DEF Forks, At, Forking, Dispatched
<1>9. Family'
  BY <1>1, <1>2, <1>3, <1>4, SlotFacts, NoneAssumption
     DEF Family, Exiting, Alive, Children, Dispatched
<1>10. Sleepers'
  BY <1>1, <1>2, <1>3, <1>4, SlotFacts, NoneAssumption
     DEF Sleepers, Children, Exiting, Dispatched
<1> QED  BY <1>5, <1>6, <1>7, <1>8, <1>9, <1>10, Zenon DEF Table

(* fork() frees the slot it took and nobody else knows.                    *)
LEMMA ForkFailInv ==
    ASSUME TypeOK, Table, NEW c \in CPUs, NEW p \in Slots,
           fork_fail(c, p), panic' = panic
    PROVE  TypeOK' /\ Table'
<1>1. PICK q \in Slots : np[p] = q
  BY ForkSlot, Zenon DEF Forking, fork_fail
<1>2. /\ context[c] = p /\ pc[p] = "fork_copy"
      /\ state' = [state EXCEPT ![q] = "UNUSED"]
      /\ parent' = [parent EXCEPT ![q] = None]
      /\ chan' = [chan EXCEPT ![q] = None]
      /\ killed' = [killed EXCEPT ![q] = FALSE]
      /\ plock' = [plock EXCEPT ![q] = None]
      /\ np' = [np EXCEPT ![p] = None]
      /\ pc' = [pc EXCEPT ![p] = "user"]
      /\ UNCHANGED <<wait_lock, context, cproc, resume, i, j, havekids>>
  BY <1>1, Zenon DEF fork_fail, freeproc, Goto, pvars, lvars, svars, tvars
<1>3. /\ Dispatched /\ LocksHeld /\ Forks /\ Family /\ Sleepers
      /\ state \in [Slots -> States]
      /\ parent \in [Slots -> Slots \cup {None}]
      /\ chan \in [Slots -> Slots \cup {None}]
      /\ plock \in [Slots -> CPUs \cup {None}]
      /\ context \in [CPUs -> Slots \cup {None}]
      /\ cproc \in [CPUs -> Slots \cup {None}]
      /\ pc \in [Slots -> Resumes \cup PCs]
      /\ i \in [Slots -> 1 .. NPROC + 1]
      /\ j \in [Slots -> 1 .. NPROC + 1]
      /\ np \in [Slots -> Slots \cup {None}]
  BY Zenon DEF Table, TypeOK
<1>4. state[q] = "USED" /\ \A r \in Slots : np[r] = q => r = p
  BY <1>1, <1>3, SlotFacts DEF Forks
<1>5. \A d \in CPUs : cproc[d] # q
  BY <1>3, <1>4, SlotFacts DEF Dispatched
<1>6. TypeOK'
  BY <1>2, SlotFacts, Zenon DEF TypeOK, States, PCs, Resumes
<1>7. Dispatched'
  BY <1>1, <1>2, <1>3, <1>4, <1>5, SlotFacts, NoneAssumption DEF Dispatched
<1>8. LocksHeld'
  BY <1>1, <1>2, <1>3, <1>4, <1>5, SlotFacts, NoneAssumption
     DEF LocksHeld, Switching, Copying, Exiting, Dispatched
<1>9. Forks'
  BY <1>1, <1>2, <1>3, <1>4, <1>5, SlotFacts, NoneAssumption
     DEF Forks, At, Forking, Dispatched
<1>10. Family'
  BY <1>1, <1>2, <1>3, <1>4, <1>5, SlotFacts, NoneAssumption
     DEF Family, Exiting, Alive, Children, Dispatched
<1>11. Sleepers'
  BY <1>1, <1>2, <1>3, <1>4, <1>5, SlotFacts, NoneAssumption
     DEF Sleepers, Children, Exiting, Dispatched
<1> QED  BY <1>6, <1>7, <1>8, <1>9, <1>10, <1>11, Zenon DEF Table

(* fork() lets go of the new slot, which stays USED: no scheduler() takes  *)
(* it.                                                                     *)
LEMMA ForkCopiedInv ==
    ASSUME TypeOK, Table, NEW c \in CPUs, NEW p \in Slots,
           fork_copied(c, p), panic' = panic
    PROVE  TypeOK' /\ Table'
<1>1. PICK q \in Slots : np[p] = q
  BY ForkSlot, Zenon DEF Forking, fork_copied
<1>2. /\ context[c] = p /\ pc[p] = "fork_copy"
      /\ plock' = [plock EXCEPT ![q] = None]
      /\ pc' = [pc EXCEPT ![p] = "fork_link"]
      /\ UNCHANGED <<state, parent, chan, killed, wait_lock, context, cproc, resume, i,
                     j, np, havekids>>
  BY <1>1, Zenon DEF fork_copied, Goto, pvars, lvars, svars, tvars
<1>3. /\ Dispatched /\ LocksHeld /\ Forks /\ Family /\ Sleepers
      /\ parent \in [Slots -> Slots \cup {None}]
      /\ plock \in [Slots -> CPUs \cup {None}]
      /\ context \in [CPUs -> Slots \cup {None}]
      /\ cproc \in [CPUs -> Slots \cup {None}]
      /\ pc \in [Slots -> Resumes \cup PCs]
      /\ i \in [Slots -> 1 .. NPROC + 1]
      /\ j \in [Slots -> 1 .. NPROC + 1]
  BY Zenon DEF Table, TypeOK
<1>4. state[q] = "USED" /\ \A r \in Slots : np[r] = q => r = p
  BY <1>1, <1>3, SlotFacts DEF Forks
<1>5. \A d \in CPUs : cproc[d] # q
  BY <1>3, <1>4, SlotFacts DEF Dispatched
<1>6. TypeOK'
  BY <1>2, SlotFacts, Zenon DEF TypeOK, States, PCs, Resumes
<1>7. Dispatched'
  BY <1>1, <1>2, <1>3, <1>4, <1>5, SlotFacts, NoneAssumption DEF Dispatched
<1>8. LocksHeld'
  BY <1>1, <1>2, <1>3, <1>4, <1>5, SlotFacts, NoneAssumption
     DEF LocksHeld, Switching, Copying, Exiting, Dispatched
<1>9. Forks'
  BY <1>1, <1>2, <1>3, <1>4, <1>5, SlotFacts, NoneAssumption
     DEF Forks, At, Forking, Dispatched
<1>10. Family'
  BY <1>1, <1>2, <1>3, <1>4, <1>5, SlotFacts, NoneAssumption
     DEF Family, Exiting, Alive, Children, Dispatched
<1>11. Sleepers'
  BY <1>1, <1>2, <1>3, <1>4, <1>5, SlotFacts, NoneAssumption
     DEF Sleepers, Children, Exiting, Dispatched
<1> QED  BY <1>6, <1>7, <1>8, <1>9, <1>10, <1>11, Zenon DEF Table

(* fork() sets the parent, under wait_lock, before the child can run.      *)
LEMMA ForkLinkInv ==
    ASSUME TypeOK, Table, NEW c \in CPUs, NEW p \in Slots,
           fork_link(c, p), panic' = panic
    PROVE  TypeOK' /\ Table'
<1>1. PICK q \in Slots : np[p] = q
  BY ForkSlot, Zenon DEF Forking, fork_link
<1>2. /\ context[c] = p /\ pc[p] = "fork_link"
      /\ wait_lock = None
      /\ parent' = [parent EXCEPT ![q] = p]
      /\ pc' = [pc EXCEPT ![p] = "fork_run"]
      /\ UNCHANGED <<state, chan, killed, plock, wait_lock, context, cproc, resume, i, j,
                     np, havekids>>
  BY <1>1, Zenon DEF fork_link, Goto, pvars, lvars, svars, tvars
<1>3. /\ Dispatched /\ LocksHeld /\ Forks /\ Family /\ Sleepers
      /\ parent \in [Slots -> Slots \cup {None}]
      /\ context \in [CPUs -> Slots \cup {None}]
      /\ cproc \in [CPUs -> Slots \cup {None}]
      /\ pc \in [Slots -> Resumes \cup PCs]
      /\ i \in [Slots -> 1 .. NPROC + 1]
      /\ j \in [Slots -> 1 .. NPROC + 1]
  BY Zenon DEF Table, TypeOK
<1>4. state[q] = "USED" /\ \A r \in Slots : np[r] = q => r = p
  BY <1>1, <1>3, SlotFacts DEF Forks
<1>5. \A d \in CPUs : cproc[d] # q
  BY <1>3, <1>4, SlotFacts DEF Dispatched
<1>6. TypeOK'
  BY <1>2, SlotFacts, Zenon DEF TypeOK, States, PCs, Resumes
<1>7. Dispatched'
  BY <1>1, <1>2, <1>3, <1>4, <1>5, SlotFacts, NoneAssumption DEF Dispatched
<1>8. LocksHeld'
  BY <1>1, <1>2, <1>3, <1>4, <1>5, SlotFacts, NoneAssumption, SMTT(30)
     DEF LocksHeld, Switching, Copying, Exiting, Dispatched
<1>9. Forks'
  BY <1>1, <1>2, <1>3, <1>4, <1>5, SlotFacts, NoneAssumption
     DEF Forks, At, Forking, Dispatched
<1>10. Family'
  BY <1>1, <1>2, <1>3, <1>4, <1>5, SlotFacts, NoneAssumption
     DEF Family, Exiting, Alive, Children, Dispatched
<1>11. Sleepers'
  BY <1>1, <1>2, <1>3, <1>4, <1>5, SlotFacts, NoneAssumption
     DEF Sleepers, Children, Exiting, Dispatched
<1> QED  BY <1>6, <1>7, <1>8, <1>9, <1>10, <1>11, Zenon DEF Table

(* The child becomes RUNNABLE with its parent set.                         *)
LEMMA ForkRunInv ==
    ASSUME TypeOK, Table, NEW c \in CPUs, NEW p \in Slots,
           fork_run(c, p), panic' = panic
    PROVE  TypeOK' /\ Table'
<1>1. PICK q \in Slots : np[p] = q
  BY ForkSlot, Zenon DEF Forking, fork_run
<1>2. /\ context[c] = p /\ pc[p] = "fork_run"
      /\ plock[q] = None
      /\ state' = [state EXCEPT ![q] = "RUNNABLE"]
      /\ np' = [np EXCEPT ![p] = None]
      /\ pc' = [pc EXCEPT ![p] = "user"]
      /\ UNCHANGED <<parent, chan, killed, plock, wait_lock, context, cproc, resume, i,
                     j, havekids>>
  BY <1>1, Zenon DEF fork_run, Goto, pvars, lvars, svars, tvars
<1>3. /\ Dispatched /\ LocksHeld /\ Forks /\ Family /\ Sleepers
      /\ state \in [Slots -> States]
      /\ parent \in [Slots -> Slots \cup {None}]
      /\ context \in [CPUs -> Slots \cup {None}]
      /\ cproc \in [CPUs -> Slots \cup {None}]
      /\ pc \in [Slots -> Resumes \cup PCs]
      /\ i \in [Slots -> 1 .. NPROC + 1]
      /\ j \in [Slots -> 1 .. NPROC + 1]
      /\ np \in [Slots -> Slots \cup {None}]
  BY Zenon DEF Table, TypeOK
<1>4. state[q] = "USED" /\ \A r \in Slots : np[r] = q => r = p
  BY <1>1, <1>3, SlotFacts DEF Forks
<1>5. \A d \in CPUs : cproc[d] # q
  BY <1>3, <1>4, SlotFacts, SMTT(30) DEF Dispatched
<1>6. parent[q] = p
  BY <1>1, <1>2, <1>3, Zenon DEF Forks, At
<1>7. TypeOK'
  BY <1>2, SlotFacts, Zenon DEF TypeOK, States, PCs, Resumes
<1>8. Dispatched'
  BY <1>1, <1>2, <1>3, <1>4, <1>5, <1>6, SlotFacts, NoneAssumption DEF Dispatched
<1>9. LocksHeld'
  BY <1>1, <1>2, <1>3, <1>4, <1>5, <1>6, SlotFacts, NoneAssumption, SMTT(30)
     DEF LocksHeld, Switching, Copying, Exiting, Dispatched
<1>10. Forks'
  BY <1>1, <1>2, <1>3, <1>4, <1>5, <1>6, SlotFacts, NoneAssumption, SMTT(30)
     DEF Forks, At, Forking, Dispatched
<1>11. Family'
  BY <1>1, <1>2, <1>3, <1>4, <1>5, <1>6, SlotFacts, NoneAssumption, SMTT(30)
     DEF Family, Exiting, Alive, Children, Dispatched
<1>12. Sleepers'
  BY <1>1, <1>2, <1>3, <1>4, <1>5, <1>6, SlotFacts, NoneAssumption
     DEF Sleepers, Children, Exiting, Dispatched
<1> QED  BY <1>7, <1>8, <1>9, <1>10, <1>11, <1>12, Zenon DEF Table

(* kill() wakes a sleeper for which nobody need be waiting.                *)
LEMMA KillInv ==
    ASSUME TypeOK, Table, NEW c \in CPUs, NEW p \in Slots, NEW q \in Slots,
           kill(c, p, q), panic' = panic
    PROVE  TypeOK' /\ Table'
<1>1. /\ plock[q] = None
      /\ killed' = [killed EXCEPT ![q] = TRUE]
      /\ state' = [state EXCEPT ![q] = IF state[q] = "SLEEPING" THEN "RUNNABLE" ELSE state[q]]
      /\ UNCHANGED <<parent, chan, plock, wait_lock, context, cproc, pc, resume, i, j,
                     np, havekids>>
  BY Zenon DEF kill, lvars, svars, tvars
<1>2. state \in [Slots -> States]
  BY Zenon DEF TypeOK
<1>3. \/ state[q] = "SLEEPING" /\ state' = [state EXCEPT ![q] = "RUNNABLE"]
      \/ state' = state
  BY <1>1, <1>2, Zenon
<1>4. TypeOK'
  <2>1. state' \in [Slots -> States]
    BY <1>2, <1>3, Zenon DEF States
  <2> QED  BY <1>1, <2>1, Zenon DEF TypeOK
<1>5. Dispatched' /\ LocksHeld' /\ Forks' /\ Family'
  <2>1. CASE state' = state
    BY <1>1, <2>1, Undisturbed, Zenon DEF Table, Family, Children
  <2>2. CASE state[q] = "SLEEPING" /\ state' = [state EXCEPT ![q] = "RUNNABLE"]
    BY <1>1, <2>2, Awaken, Zenon
  <2> QED  BY <1>3, <2>1, <2>2, Zenon
<1>6. Sleepers'
  BY <1>1, <1>2, <1>3 DEF Table, Sleepers, Children
<1> QED  BY <1>4, <1>5, <1>6, Zenon DEF Table

(* exit() enters its end with wait_lock, and is not init's.                *)
LEMMA ExitStartInv ==
    ASSUME TypeOK, Table, NEW c \in CPUs, NEW p \in Slots,
           exit_start(c, p), panic' = panic
    PROVE  TypeOK' /\ Table'
<1>1. /\ context[c] = p /\ pc[p] = "user" /\ p # initproc
      /\ wait_lock = None
      /\ wait_lock' = c
      /\ i' = [i EXCEPT ![p] = 1]
      /\ pc' = [pc EXCEPT ![p] = "reparent"]
      /\ UNCHANGED <<state, parent, chan, killed, plock, context, cproc, resume, j, np,
                     havekids>>
  BY Zenon DEF exit_start, Goto, pvars, lvars, svars, tvars
<1>2. /\ Dispatched /\ LocksHeld /\ Forks /\ Family /\ Sleepers
      /\ parent \in [Slots -> Slots \cup {None}]
      /\ context \in [CPUs -> Slots \cup {None}]
      /\ cproc \in [CPUs -> Slots \cup {None}]
      /\ pc \in [Slots -> Resumes \cup PCs]
      /\ i \in [Slots -> 1 .. NPROC + 1]
      /\ j \in [Slots -> 1 .. NPROC + 1]
  BY Zenon DEF Table, TypeOK
<1>3. TypeOK'
  BY <1>1, SlotFacts, Zenon DEF TypeOK, States, PCs, Resumes
<1>4. Dispatched'
  BY <1>1, <1>2, SlotFacts, NoneAssumption DEF Dispatched
<1>5. LocksHeld'
  BY <1>1, <1>2, SlotFacts, NoneAssumption, SMTT(30)
     DEF LocksHeld, Switching, Copying, Exiting, Dispatched
<1>6. Forks'
  BY <1>1, <1>2, SlotFacts, NoneAssumption, SMTT(30) DEF Forks, At, Forking, Dispatched
<1>7. Family'
  BY <1>1, <1>2, SlotFacts, NoneAssumption DEF Family, Exiting, Alive, Children, Dispatched
<1>8. Sleepers'
  BY <1>1, <1>2, SlotFacts, NoneAssumption DEF Sleepers, Children, Exiting, Dispatched
<1> QED  BY <1>3, <1>4, <1>5, <1>6, <1>7, <1>8, Zenon DEF Table

(* wait() is called with no lock held.                                     *)
LEMMA WaitCallInv ==
    ASSUME TypeOK, Table, NEW c \in CPUs, NEW p \in Slots,
           wait_call(c, p), panic' = panic
    PROVE  TypeOK' /\ Table'
<1>1. /\ context[c] = p /\ pc[p] = "user"
      /\ pc' = [pc EXCEPT ![p] = "wait_lock"]
      /\ UNCHANGED <<state, parent, chan, killed, plock, wait_lock, context, cproc,
                     resume, i, j, np, havekids>>
  BY Zenon DEF wait_call, Goto, pvars, lvars, svars, tvars
<1>2. /\ Dispatched /\ LocksHeld /\ Forks /\ Family /\ Sleepers
      /\ parent \in [Slots -> Slots \cup {None}]
      /\ context \in [CPUs -> Slots \cup {None}]
      /\ cproc \in [CPUs -> Slots \cup {None}]
      /\ pc \in [Slots -> Resumes \cup PCs]
      /\ i \in [Slots -> 1 .. NPROC + 1]
      /\ j \in [Slots -> 1 .. NPROC + 1]
  BY Zenon DEF Table, TypeOK
<1>3. TypeOK'
  BY <1>1, SlotFacts, Zenon DEF TypeOK, States, PCs, Resumes
<1>4. Dispatched'
  BY <1>1, <1>2, SlotFacts, NoneAssumption DEF Dispatched
<1>5. LocksHeld'
  BY <1>1, <1>2, SlotFacts, NoneAssumption
     DEF LocksHeld, Switching, Copying, Exiting, Dispatched
<1>6. Forks'
  BY <1>1, <1>2, SlotFacts, NoneAssumption DEF Forks, At, Forking, Dispatched
<1>7. Family'
  BY <1>1, <1>2, SlotFacts, NoneAssumption DEF Family, Exiting, Alive, Children, Dispatched
<1>8. Sleepers'
  BY <1>1, <1>2, SlotFacts, NoneAssumption DEF Sleepers, Children, Exiting, Dispatched
<1> QED  BY <1>3, <1>4, <1>5, <1>6, <1>7, <1>8, Zenon DEF Table

(* wait() starts a scan, at the first slot, with wait_lock.                *)
LEMMA WaitAcquireInv ==
    ASSUME TypeOK, Table, NEW c \in CPUs, NEW p \in Slots,
           wait_acquire(c, p), panic' = panic
    PROVE  TypeOK' /\ Table'
<1>1. /\ context[c] = p /\ pc[p] = "wait_lock"
      /\ wait_lock = None
      /\ wait_lock' = c
      /\ i' = [i EXCEPT ![p] = 1]
      /\ havekids' = [havekids EXCEPT ![p] = FALSE]
      /\ pc' = [pc EXCEPT ![p] = "wait_scan"]
      /\ UNCHANGED <<state, parent, chan, killed, plock, context, cproc, resume, j, np>>
  BY Zenon DEF wait_acquire, Goto, pvars, lvars, svars, tvars
<1>2. /\ Dispatched /\ LocksHeld /\ Forks /\ Family /\ Sleepers
      /\ parent \in [Slots -> Slots \cup {None}]
      /\ context \in [CPUs -> Slots \cup {None}]
      /\ cproc \in [CPUs -> Slots \cup {None}]
      /\ pc \in [Slots -> Resumes \cup PCs]
      /\ i \in [Slots -> 1 .. NPROC + 1]
      /\ j \in [Slots -> 1 .. NPROC + 1]
  BY Zenon DEF Table, TypeOK
<1>3. TypeOK'
  BY <1>1, SlotFacts, Zenon DEF TypeOK, States, PCs, Resumes
<1>4. Dispatched'
  BY <1>1, <1>2, SlotFacts, NoneAssumption DEF Dispatched
<1>5. LocksHeld'
  BY <1>1, <1>2, SlotFacts, NoneAssumption, SMTT(30)
     DEF LocksHeld, Switching, Copying, Exiting, Dispatched
<1>6. Forks'
  BY <1>1, <1>2, SlotFacts, NoneAssumption, SMTT(30) DEF Forks, At, Forking, Dispatched
<1>7. Family'
  BY <1>1, <1>2, SlotFacts, NoneAssumption, SMTT(30) DEF Family, Exiting, Alive, Children,
     Dispatched
<1>8. Sleepers'
  BY <1>1, <1>2, SlotFacts, NoneAssumption DEF Sleepers, Children, Exiting, Dispatched
<1> QED  BY <1>3, <1>4, <1>5, <1>6, <1>7, <1>8, Zenon DEF Table

-----------------------------------------------------------------------------

(* reparent() passes the children to init one after another, in the order  *)
(* of the table; a ZOMBIE among them may find init asleep, and init is     *)
(* woken before anything else.                                             *)
LEMMA ReparentInv ==
    ASSUME TypeOK, Table, NEW c \in CPUs, NEW p \in Slots,
           reparent(c, p), panic' = panic
    PROVE  TypeOK' /\ Table'
<1> DEFINE rest == {q \in Children(p) : q >= i[p]}
<1>1. /\ context[c] = p /\ pc[p] = "reparent"
      /\ j' = [j EXCEPT ![p] = 1]
      /\ UNCHANGED <<state, chan, killed, plock, wait_lock, context, cproc, resume, np,
                     havekids>>
  BY Zenon DEF reparent, lvars, svars
<1>2. /\ Dispatched /\ LocksHeld /\ Forks /\ Family /\ Sleepers
      /\ parent \in [Slots -> Slots \cup {None}] /\ context \in [CPUs -> Slots \cup {None}]
      /\ cproc \in [CPUs -> Slots \cup {None}] /\ pc \in [Slots -> Resumes \cup PCs]
      /\ i \in [Slots -> 1 .. NPROC + 1] /\ j \in [Slots -> 1 .. NPROC + 1]
  BY Zenon DEF Table, TypeOK
<1>3. \A r \in Slots \ {p} : pc[r] \notin Exiting \cup {"wait_scan", "wait_sleep"}
  BY <1>1, Alone, Zenon DEF Exiting
<1>4. \A r \in Slots : parent[r] = p => r \in rest
  BY <1>1, <1>2, Zenon DEF Family, Children
<1>5. ASSUME NEW q \in First(rest),
             parent' = [parent EXCEPT ![q] = initproc],
             i' = [i EXCEPT ![p] = q + 1],
             pc' = [pc EXCEPT ![p] = "wake_init"]
      PROVE  TypeOK' /\ Table'
  <2>1. q \in Slots /\ q \in rest /\ \A r \in rest : q <= r
    BY Zenon DEF First, Children
  <2>2. /\ parent' = [parent EXCEPT ![q] = initproc]
        /\ i' = [i EXCEPT ![p] = q + 1]
        /\ pc' = [pc EXCEPT ![p] = "wake_init"]
    BY <1>5, Zenon
  <2>3. parent[q] = p /\ \A r \in Slots : parent[r] = p /\ r # q => r >= q + 1
    <3>1. parent[q] = p
      BY <2>1, Zenon DEF Children
    <3>2. \A r \in Slots : parent[r] = p => q <= r
      BY <1>4, <2>1, Zenon
    <3> QED  BY <2>1, <3>1, <3>2, SlotFacts
  <2> HIDE DEF rest
  <2>4. TypeOK'
    BY <1>1, <2>1, <2>2, SlotFacts, Zenon DEF TypeOK, PCs
  <2>5. Dispatched'
    BY <1>1, <1>2, <2>2, SlotFacts, SMTT(30) DEF Dispatched
  <2>6. LocksHeld'
    BY <1>1, <1>2, <2>2, SlotFacts, SMTT(30) DEF LocksHeld, Switching, Copying, Exiting,
       Dispatched
  <2>7. Forks'
    <3>1. At(p) = "reparent" /\ \A r \in Slots : r # p => At(r)' = At(r)
      BY <1>1, <1>2, <2>2, Zenon DEF At
    <3>2. At(p)' = "wake_init"
      BY <1>2, <2>2, Zenon DEF At
    <3>3. \A r \in Slots : At(r) = "fork_run" => np[r] # q
      BY <1>2, <2>3, <3>1, Zenon DEF Forks
    <3>4. \A r \in Slots : r # q => parent'[r] = parent[r]
      BY <1>2, <2>2, Zenon
    <3>5. \A r \in Slots : np[r] # None => np[r] \in Slots
      BY Zenon DEF TypeOK
    <3>6. \A r \in Slots : np'[r] # None <=> At(r)' \in Forking
      BY <1>1, <1>2, <3>1, <3>2, SMTT(30) DEF Forks, Forking
    <3>7. \A r \in Slots : At(r)' = "fork_run" => parent'[np'[r]] = r
      BY <1>1, <1>2, <3>1, <3>2, <3>3, <3>4, <3>5, <3>6 DEF Forks, Forking
    <3> QED  BY <1>1, <1>2, <3>6, <3>7, Zenon DEF Forks
  <2>8. Family'
    BY <1>1, <1>2, <2>2, <2>3, SlotFacts, NoneAssumption, SMTT(30) DEF Family, Children,
       Exiting, Alive
  <2>9. Sleepers'
    BY <1>1, <1>2, <1>3, <2>2, <2>3, SlotFacts, Zenon DEF Sleepers, Children, Exiting
  <2> QED  BY <2>4, <2>5, <2>6, <2>7, <2>8, <2>9, Zenon DEF Table
<1>6. CASE rest = {} /\ Goto(p, "wake_parent") /\ UNCHANGED <<parent, i>>
  <2>1. UNCHANGED <<parent, i>> /\ pc' = [pc EXCEPT ![p] = "wake_parent"]
    BY <1>6, Zenon DEF Goto
  <2>2. \A r \in Slots : parent[r] # p
    BY <1>4, <1>6, Zenon
  <2> HIDE DEF rest
  <2>4. TypeOK'
    BY <1>1, <2>1, SlotFacts, Zenon DEF TypeOK, PCs
  <2>5. Dispatched'
    BY <1>1, <1>2, <2>1, SlotFacts, SMTT(30) DEF Dispatched
  <2>6. LocksHeld'
    BY <1>1, <1>2, <2>1, SlotFacts, SMTT(30) DEF LocksHeld, Switching, Copying, Exiting,
       Dispatched
  <2>7. Forks'
    BY <1>1, <1>2, <2>1, SlotFacts DEF Forks, At, Forking
  <2>8. Family'
    BY <1>1, <1>2, <2>1, <2>2, SlotFacts, Zenon DEF Family, Children, Exiting
  <2>9. Sleepers'
    BY <1>1, <1>2, <1>3, <2>1, <2>2, SlotFacts DEF Sleepers, Children, Exiting
  <2> QED  BY <2>4, <2>5, <2>6, <2>7, <2>8, <2>9, Zenon DEF Table
<1> QED  BY <1>5, <1>6, Zenon DEF reparent, Goto

(* One iteration of wakeup(): what was SLEEPING on the channel is          *)
(* RUNNABLE, so behind j[p] no parent and no init sleeps that should not.  *)
LEMMA ExitWakeupInv ==
    ASSUME TypeOK, Table, NEW c \in CPUs, NEW p \in Slots,
           exit_wakeup(c, p), panic' = panic
    PROVE  TypeOK' /\ Table'
<1> DEFINE t == IF pc[p] = "wake_init" THEN initproc ELSE parent[p]
<1>1. PICK q \in Slots :
      /\ q = j[p] /\ context[c] = p /\ pc[p] \in {"wake_init", "wake_parent"}
      /\ q = p \/ plock[q] = None
      /\ state' = [state EXCEPT ![q] = IF q # p /\ state[q] = "SLEEPING" /\ chan[q] = t
                                       THEN "RUNNABLE" ELSE state[q]]
      /\ j' = [j EXCEPT ![p] = q + 1]
      /\ UNCHANGED <<parent, chan, killed, plock, wait_lock, context, cproc, pc, resume,
                     i, np, havekids>>
  BY Zenon DEF exit_wakeup, wakeup, exit_wakes, lvars, svars
<1>2. /\ Dispatched /\ LocksHeld /\ Forks /\ Family /\ Sleepers
      /\ state \in [Slots -> States] /\ parent \in [Slots -> Slots \cup {None}]
      /\ i \in [Slots -> 1 .. NPROC + 1] /\ j \in [Slots -> 1 .. NPROC + 1]
  BY Zenon DEF Table, TypeOK
<1>3. state[p] = "RUNNING"
  <2>1. context[c] # None /\ pc[p] # "sched"
    BY <1>1, SlotFacts, Zenon
  <2>2. cproc[c] = p
    BY <1>1, <1>2, <2>1, Zenon DEF Dispatched
  <2> QED  BY <1>1, <1>2, <2>1, <2>2 DEF Dispatched
<1>4. \A r \in Slots \ {p} : pc[r] \notin Exiting \cup {"wait_scan", "wait_sleep"}
  BY <1>1, Alone, Zenon DEF Exiting
<1>5. \/ state[q] = "SLEEPING" /\ plock[q] = None /\ state' = [state EXCEPT ![q] = "RUNNABLE"]
      \/ (state[q] = "SLEEPING" => chan[q] # t) /\ state' = state
  BY <1>1, <1>2, <1>3, Zenon
<1> HIDE DEF t
<1>6. Dispatched' /\ LocksHeld' /\ Forks' /\ Family'
  <2>1. CASE state' = state
    BY <1>1, <1>2, <2>1, Undisturbed, Zenon DEF Family, Children
  <2>2. CASE state[q] = "SLEEPING" /\ plock[q] = None
                                   /\ state' = [state EXCEPT ![q] = "RUNNABLE"]
    BY <1>1, <2>2, Awaken, ZenonT(30)
  <2> QED  BY <1>5, <2>1, <2>2, Zenon
<1>7. TypeOK'
  <2>1. state' \in [Slots -> States] /\ j' \in [Slots -> 1 .. NPROC + 1]
    BY <1>1, <1>2, <1>5, SlotFacts, Zenon DEF States
  <2> QED  BY <1>1, <2>1, Zenon DEF TypeOK
<1>8. Sleepers'
  <2>1. \A r \in Slots :
            state'[r] = "SLEEPING" => state[r] = "SLEEPING" /\ (r = q => chan[q] # t)
    BY <1>2, <1>5, Zenon
  <2>2. \A r \in Slots : state'[r] = "ZOMBIE" => state[r] = "ZOMBIE"
    BY <1>2, <1>5, Zenon
  <2>3. \A r \in Slots : state'[r] = "SLEEPING" => chan'[r] = r
    BY <1>1, <1>2, <2>1, Zenon DEF Sleepers
  <2>4. ASSUME NEW r \in Slots, NEW s \in Slots, parent[s] = r, state'[s] = "ZOMBIE"
        PROVE  /\ state'[r] # "SLEEPING"
               /\ pc'[r] = "wait_scan" => s >= i'[r]
               /\ pc'[r] # "wait_sleep"
    <3>1. ASSUME state'[r] = "SLEEPING" PROVE FALSE
      <4>1. r = initproc /\ pc[p] = "wake_init" /\ j[p] <= initproc
        BY <1>2, <1>4, <2>1, <2>2, <2>4, <3>1, Zenon DEF Sleepers, Children, Exiting
      <4>2. q = initproc /\ t = initproc
        BY <1>1, <4>1, SlotFacts DEF t
      <4> QED  BY <1>2, <2>1, <3>1, <4>1, <4>2, Zenon DEF Sleepers
    <3> QED  BY <1>1, <1>2, <2>2, <2>4, <3>1, Zenon DEF Sleepers, Children
  <2>5. ASSUME NEW r \in Slots, NEW s \in Slots, parent[s] = r, state'[r] = "SLEEPING"
        PROVE  ~(pc'[s] = "zombie" \/ (pc'[s] = "wake_parent" /\ j'[s] > r))
    <3>1. ~(pc[s] = "zombie" \/ (pc[s] = "wake_parent" /\ j[s] > r))
      BY <1>2, <2>1, <2>5, Zenon DEF Sleepers, Children
    <3>2. CASE s # p
      BY <1>1, <1>2, <3>1, <3>2, Zenon
    <3>3. CASE s = p
      <4>1. pc[p] = "wake_parent" => t = r /\ q # r
        BY <1>1, <1>2, <2>1, <2>5, <3>3, Zenon DEF t, Sleepers
      <4>2. j'[p] = q + 1 /\ j[p] = q
        BY <1>1, <1>2, Zenon
      <4> QED  BY <1>1, <3>1, <3>3, <4>1, <4>2, SlotFacts
    <3> QED  BY <3>2, <3>3, Zenon
  <2> QED  BY <1>1, <2>3, <2>4, <2>5, Zenon DEF Sleepers, Children
<1> QED  BY <1>6, <1>7, <1>8, Zenon DEF Table

(* wakeup() has passed every slot.                                         *)
LEMMA ExitWokenInv ==
    ASSUME TypeOK, Table, NEW c \in CPUs, NEW p \in Slots,
           exit_woken(c, p), panic' = panic
    PROVE  TypeOK' /\ Table'
<1>1. /\ context[c] = p
      /\ pc[p] \in {"wake_init", "wake_parent"} /\ j[p] \notin Slots
      /\ pc' = [pc EXCEPT ![p] = IF pc[p] = "wake_init" THEN "reparent" ELSE "zombie"]
      /\ UNCHANGED <<state, parent, chan, killed, plock, wait_lock, context, cproc,
                     resume, i, j, np, havekids>>
  BY Zenon DEF exit_woken, Goto, pvars, lvars, svars, tvars
<1>2. /\ Dispatched /\ LocksHeld /\ Forks /\ Family /\ Sleepers
      /\ parent \in [Slots -> Slots \cup {None}]
      /\ context \in [CPUs -> Slots \cup {None}]
      /\ cproc \in [CPUs -> Slots \cup {None}]
      /\ pc \in [Slots -> Resumes \cup PCs]
      /\ i \in [Slots -> 1 .. NPROC + 1]
      /\ j \in [Slots -> 1 .. NPROC + 1]
  BY Zenon DEF Table, TypeOK
<1>3. \A q \in Slots : j[p] > q
  BY <1>1, NPROCAssumption, SMTT(30) DEF TypeOK, Slots
<1>4. TypeOK'
  BY <1>1, SlotFacts, Zenon DEF TypeOK, States, PCs, Resumes
<1>5. Dispatched'
  BY <1>1, <1>2, <1>3, SlotFacts, NoneAssumption, SMTT(30) DEF Dispatched
<1>6. LocksHeld'
  BY <1>1, <1>2, <1>3, SlotFacts, NoneAssumption, SMTT(30)
     DEF LocksHeld, Switching, Copying, Exiting, Dispatched
<1>7. Forks'
  BY <1>1, <1>2, <1>3, SlotFacts, NoneAssumption, SMTT(30) DEF Forks, At, Forking, Dispatched
<1>8. Family'
  BY <1>1, <1>2, <1>3, SlotFacts, NoneAssumption, SMTT(30)
     DEF Family, Exiting, Alive, Children, Dispatched
<1>9. Sleepers'
  BY <1>1, <1>2, <1>3, SlotFacts, NoneAssumption DEF Sleepers, Children, Exiting, Dispatched
<1> QED  BY <1>4, <1>5, <1>6, <1>7, <1>8, <1>9, Zenon DEF Table

(* The process becomes a ZOMBIE: its parent is awake, by wakeup() and      *)
(* because nobody can fall asleep in wait() without wait_lock.             *)
LEMMA ExitZombieInv ==
    ASSUME TypeOK, Table, NEW c \in CPUs, NEW p \in Slots,
           exit_zombie(c, p), panic' = panic
    PROVE  TypeOK' /\ Table'
<1>1. /\ context[c] = p /\ pc[p] = "zombie"
      /\ plock[p] = None
      /\ plock' = [plock EXCEPT ![p] = c]
      /\ state' = [state EXCEPT ![p] = "ZOMBIE"]
      /\ resume' = [resume EXCEPT ![p] = "zombie_exit"]
      /\ pc' = [pc EXCEPT ![p] = "sched"]
      /\ wait_lock' = None
      /\ i' = [i EXCEPT ![p] = 1]
      /\ j' = [j EXCEPT ![p] = 1]
      /\ UNCHANGED <<parent, chan, killed, context, cproc, np, havekids>>
  BY Zenon DEF exit_zombie, StopAs, Goto, pvars, lvars, svars, tvars
<1>2. /\ Dispatched /\ LocksHeld /\ Forks /\ Family /\ Sleepers
      /\ state \in [Slots -> States]
      /\ parent \in [Slots -> Slots \cup {None}]
      /\ plock \in [Slots -> CPUs \cup {None}]
      /\ context \in [CPUs -> Slots \cup {None}]
      /\ cproc \in [CPUs -> Slots \cup {None}]
      /\ pc \in [Slots -> Resumes \cup PCs]
      /\ resume \in [Slots -> Resumes]
      /\ i \in [Slots -> 1 .. NPROC + 1]
      /\ j \in [Slots -> 1 .. NPROC + 1]
  BY Zenon DEF Table, TypeOK
<1>3. \A r \in Slots \ {p} : pc[r] \notin Exiting \cup {"wait_scan", "wait_sleep"}
  BY <1>1, Alone, Zenon DEF Exiting
<1>4. TypeOK'
  BY <1>1, SlotFacts, Zenon DEF TypeOK, States, PCs, Resumes
<1>5. Dispatched'
  BY <1>1, <1>2, <1>3, SlotFacts, NoneAssumption, SMTT(30) DEF Dispatched
<1>6. LocksHeld'
  BY <1>1, <1>2, <1>3, SlotFacts, NoneAssumption, SMTT(30)
     DEF LocksHeld, Switching, Copying, Exiting, Dispatched
<1>7. Forks'
  BY <1>1, <1>2, <1>3, SlotFacts, NoneAssumption, SMTT(30) DEF Forks, At, Forking, Dispatched
<1>8. Family'
  BY <1>1, <1>2, <1>3, SlotFacts, NoneAssumption, SMTT(30)
     DEF Family, Exiting, Alive, Children, Dispatched
<1>9. Sleepers'
  BY <1>1, <1>2, <1>3, SlotFacts, NoneAssumption DEF Sleepers, Children, Exiting, Dispatched
<1> QED  BY <1>4, <1>5, <1>6, <1>7, <1>8, <1>9, Zenon DEF Table

(* wait() passes a child that is not a ZOMBIE: those it has passed have    *)
(* none.                                                                   *)
LEMMA WaitAliveInv ==
    ASSUME TypeOK, Table, NEW c \in CPUs, NEW p \in Slots,
           wait_alive(c, p), panic' = panic
    PROVE  TypeOK' /\ Table'
<1>1. PICK q \in Slots :
      /\ q \in ToScan(p) /\ \A r \in ToScan(p) : q <= r
      /\ context[c] = p /\ pc[p] = "wait_scan" /\ state[q] # "ZOMBIE"
      /\ i' = [i EXCEPT ![p] = q + 1] /\ havekids' = [havekids EXCEPT ![p] = TRUE]
      /\ UNCHANGED <<state, parent, chan, killed, plock, wait_lock, context, cproc, pc,
                     resume, j, np>>
  BY Zenon DEF wait_alive, pvars, lvars, svars, First, ToScan, Children
<1>2. i \in [Slots -> 1 .. NPROC + 1]
  BY Zenon DEF TypeOK
<1>3. i' \in [Slots -> 1 .. NPROC + 1]
  BY <1>1, <1>2, SlotFacts, Zenon
<1>4. TypeOK'
  BY <1>1, <1>3, Zenon DEF TypeOK
<1>5. Dispatched' /\ LocksHeld' /\ Forks'
  BY <1>1, Undisturbed, Zenon
<1>6. Family'
  BY <1>1, <1>2, Zenon DEF Table, Family, Children
<1>7. ASSUME NEW r \in Slots, parent[r] = p, state[r] = "ZOMBIE"
      PROVE  r >= q + 1
  <2>1. r >= i[p]
    BY <1>1, <1>7, Zenon DEF Table, Sleepers, Children
  <2>2. q <= r /\ q # r
    BY <1>1, <1>7, <2>1, Zenon DEF ToScan, Children
  <2> QED  BY <2>2, SlotFacts
<1>8. Sleepers'
  BY <1>1, <1>2, <1>7 DEF Table, Sleepers, Children
<1> QED  BY <1>4, <1>5, <1>6, <1>8, Zenon DEF Table

(* wait() frees a ZOMBIE that has left its CPU.                            *)
LEMMA WaitReapInv ==
    ASSUME TypeOK, Table, NEW c \in CPUs, NEW p \in Slots,
           wait_reap(c, p), panic' = panic
    PROVE  TypeOK' /\ Table'
<1>1. PICK q \in Slots :
      /\ context[c] = p /\ pc[p] = "wait_scan"
      /\ plock[q] = None /\ state[q] = "ZOMBIE"
      /\ state' = [state EXCEPT ![q] = "UNUSED"]
      /\ parent' = [parent EXCEPT ![q] = None]
      /\ chan' = [chan EXCEPT ![q] = None]
      /\ killed' = [killed EXCEPT ![q] = FALSE]
      /\ wait_lock' = None
      /\ pc' = [pc EXCEPT ![p] = "user"]
      /\ i' = [i EXCEPT ![p] = 1]
      /\ havekids' = [havekids EXCEPT ![p] = FALSE]
      /\ UNCHANGED <<plock, context, cproc, resume, j, np>>
  BY ZenonT(30)
     DEF wait_reap, freeproc, wait_return, Goto, pvars, lvars, svars, tvars, First, ToScan, Children
<1>2. /\ Dispatched /\ LocksHeld /\ Forks /\ Family /\ Sleepers
      /\ state \in [Slots -> States]
      /\ parent \in [Slots -> Slots \cup {None}]
      /\ chan \in [Slots -> Slots \cup {None}]
      /\ context \in [CPUs -> Slots \cup {None}]
      /\ cproc \in [CPUs -> Slots \cup {None}]
      /\ pc \in [Slots -> Resumes \cup PCs]
      /\ i \in [Slots -> 1 .. NPROC + 1]
      /\ j \in [Slots -> 1 .. NPROC + 1]
  BY Zenon DEF Table, TypeOK
<1>3. \A d \in CPUs : cproc[d] # q /\ pc[q] = "resumed"
  BY <1>1, Parked, Zenon
<1>4. TypeOK'
  BY <1>1, SlotFacts, Zenon DEF TypeOK, States, PCs, Resumes
<1>5. Dispatched'
  BY <1>1, <1>2, <1>3, SlotFacts, NoneAssumption, SMTT(30) DEF Dispatched
<1>6. LocksHeld'
  BY <1>1, <1>2, <1>3, SlotFacts, NoneAssumption, SMTT(30)
     DEF LocksHeld, Switching, Copying, Exiting, Dispatched
<1>7. Forks'
  BY <1>1, <1>2, <1>3, SlotFacts, NoneAssumption, SMTT(30) DEF Forks, At, Forking, Dispatched
<1>8. Family'
  BY <1>1, <1>2, <1>3, SlotFacts, NoneAssumption, SMTT(30)
     DEF Family, Exiting, Alive, Children, Dispatched
<1>9. Sleepers'
  BY <1>1, <1>2, <1>3, SlotFacts, NoneAssumption, SMTT(30) DEF Sleepers, Children, Exiting,
     Dispatched
<1> QED  BY <1>4, <1>5, <1>6, <1>7, <1>8, <1>9, Zenon DEF Table

(* wait() gives up, with -1 or with the status of a child.                 *)
LEMMA WaitReturnInv ==
    ASSUME TypeOK, Table, NEW c \in CPUs, NEW p \in Slots,
           context[c] = p, pc[p] = "wait_scan", wait_return(p),
           UNCHANGED <<pvars, plock, svars, resume, j, np, panic>>
    PROVE  TypeOK' /\ Table'
<1>1. /\ pc' = [pc EXCEPT ![p] = "user"] /\ i' = [i EXCEPT ![p] = 1]
      /\ havekids' = [havekids EXCEPT ![p] = FALSE] /\ wait_lock' = None
      /\ UNCHANGED <<state, parent, chan, killed, plock, context, cproc, resume, j, np,
                     panic>>
  BY Zenon DEF wait_return, Goto, pvars, svars
<1>2. /\ Dispatched /\ LocksHeld /\ Forks /\ Family /\ Sleepers
      /\ context \in [CPUs -> Slots \cup {None}] /\ cproc \in [CPUs -> Slots \cup {None}]
      /\ pc \in [Slots -> Resumes \cup PCs] /\ i \in [Slots -> 1 .. NPROC + 1]
  BY Zenon DEF Table, TypeOK
<1>3. TypeOK'
  BY <1>1, SlotFacts, Zenon DEF TypeOK, Resumes
<1>4. Dispatched'
  BY <1>1, <1>2, SlotFacts, SMTT(30) DEF Dispatched
<1>5. LocksHeld'
  <2>1. \A d \in CPUs, r \in Slots :
            Switching(d, r)' = Switching(d, r) /\ Copying(d, r)' = Copying(d, r)
    BY <1>1, <1>2, SlotFacts, Zenon DEF Switching, Copying
  <2>2. \A d \in CPUs \ {c} : wait_lock # d /\ context[d] # p
    BY <1>2, SlotFacts DEF LocksHeld, Dispatched
  <2>3. pc'[p] = "user"
    BY <1>1, <1>2, Zenon
  <2>4. \A r \in Slots : r # p => pc'[r] = pc[r]
    BY <1>1, <1>2, Zenon
  <2> QED  BY <1>1, <1>2, <2>1, <2>2, <2>3, <2>4, NoneAssumption, SMTT(30) DEF LocksHeld, Exiting
<1>6. Forks'
  <2>1. At(p) = "wait_scan" /\ At(p)' = "user" /\ \A r \in Slots : r # p => At(r)' = At(r)
    BY <1>1, <1>2, Zenon DEF At
  <2> QED  BY <1>1, <1>2, <2>1, SMTT(30) DEF Forks, Forking
<1>7. Family'
  BY <1>1, <1>2 DEF Family, Children, Exiting
<1>8. Sleepers'
  BY <1>1, <1>2, Zenon DEF Sleepers, Children
<1> QED  BY <1>3, <1>4, <1>5, <1>6, <1>7, <1>8, Zenon DEF Table

(* wait() cannot copy the status out.                                      *)
LEMMA WaitCopyoutFailsInv ==
    ASSUME TypeOK, Table, NEW c \in CPUs, NEW p \in Slots,
           wait_copyout_fails(c, p), panic' = panic
    PROVE  TypeOK' /\ Table'
  BY WaitReturnInv, Zenon DEF wait_copyout_fails

(* wait() has passed all children and none is a ZOMBIE.                    *)
LEMMA WaitScannedInv ==
    ASSUME TypeOK, Table, NEW c \in CPUs, NEW p \in Slots,
           wait_scanned(c, p), panic' = panic
    PROVE  TypeOK' /\ Table'
<1>1. CASE ~havekids[p] \/ killed[p]
  BY <1>1, WaitReturnInv, Zenon DEF wait_scanned
<1>2. CASE ~(~havekids[p] \/ killed[p])
  <2>1. /\ context[c] = p /\ pc[p] = "wait_scan" /\ ToScan(p) = {}
        /\ pc' = [pc EXCEPT ![p] = "wait_sleep"]
        /\ UNCHANGED <<state, parent, chan, killed, plock, wait_lock, context, cproc,
                       resume, i, j, np, havekids>>
    BY <1>2, Zenon DEF wait_scanned, Goto, pvars, svars
  <2>2. Dispatched /\ LocksHeld /\ Forks /\ Family /\ Sleepers
    BY Zenon DEF Table
  <2>3. pc \in [Slots -> Resumes \cup PCs] /\ context \in [CPUs -> Slots \cup {None}]
    BY Zenon DEF TypeOK
  <2>4. TypeOK'
    BY <2>1, Zenon DEF TypeOK, PCs
  <2>5. Dispatched'
    BY <2>1, <2>2, <2>3, SlotFacts, SMTT(30) DEF Dispatched
  <2>6. LocksHeld'
    <3>1. \A d \in CPUs, r \in Slots :
              Switching(d, r)' = Switching(d, r) /\ Copying(d, r)' = Copying(d, r)
      BY <2>1, <2>3, SlotFacts, Zenon DEF Switching, Copying
    <3>2. pc'[p] = "wait_sleep"
      BY <2>1, <2>3, Zenon
    <3>3. \A r \in Slots : r # p => pc'[r] = pc[r]
      BY <2>1, <2>3, Zenon
    <3> QED  BY <2>1, <2>2, <2>3, <3>1, <3>2, <3>3, SMTT(30) DEF LocksHeld
  <2>7. Forks'
    <3>1. At(p) = "wait_scan" /\ At(p)' = "wait_sleep" /\ \A r \in Slots :
                                                              r # p => At(r)' = At(r)
      BY <2>1, <2>3, Zenon DEF At
    <3> QED  BY <2>1, <2>2, <3>1, ZenonT(30) DEF Forks, Forking
  <2>8. Family'
    BY <2>1, <2>2, <2>3 DEF Family, Children, Exiting
  <2>9. \A r \in Slots : parent[r] = p => state[r] # "ZOMBIE"
    BY <2>1, <2>2, Zenon DEF Sleepers, ToScan, Children
  <2>10. Sleepers'
    BY <2>1, <2>2, <2>3, <2>9, Zenon DEF Sleepers, Children
  <2> QED  BY <2>4, <2>5, <2>6, <2>7, <2>8, <2>10, Zenon DEF Table
<1> QED  BY <1>1, <1>2, Zenon

(* wait() falls asleep: no child is a ZOMBIE, and none can become one      *)
(* before wait_lock is free.                                               *)
LEMMA WaitSleepInv ==
    ASSUME TypeOK, Table, NEW c \in CPUs, NEW p \in Slots,
           wait_sleep(c, p), panic' = panic
    PROVE  TypeOK' /\ Table'
<1>1. /\ context[c] = p /\ pc[p] = "wait_sleep"
      /\ plock[p] = None
      /\ plock' = [plock EXCEPT ![p] = c]
      /\ state' = [state EXCEPT ![p] = "SLEEPING"]
      /\ resume' = [resume EXCEPT ![p] = "wait_lock"]
      /\ pc' = [pc EXCEPT ![p] = "sched"]
      /\ chan' = [chan EXCEPT ![p] = p]
      /\ wait_lock' = None
      /\ i' = [i EXCEPT ![p] = 1]
      /\ havekids' = [havekids EXCEPT ![p] = FALSE]
      /\ UNCHANGED <<parent, killed, context, cproc, j, np>>
  BY Zenon DEF wait_sleep, StopAs, Goto, pvars, lvars, svars, tvars
<1>2. /\ Dispatched /\ LocksHeld /\ Forks /\ Family /\ Sleepers
      /\ state \in [Slots -> States]
      /\ parent \in [Slots -> Slots \cup {None}]
      /\ chan \in [Slots -> Slots \cup {None}]
      /\ plock \in [Slots -> CPUs \cup {None}]
      /\ context \in [CPUs -> Slots \cup {None}]
      /\ cproc \in [CPUs -> Slots \cup {None}]
      /\ pc \in [Slots -> Resumes \cup PCs]
      /\ resume \in [Slots -> Resumes]
      /\ i \in [Slots -> 1 .. NPROC + 1]
      /\ j \in [Slots -> 1 .. NPROC + 1]
  BY Zenon DEF Table, TypeOK
<1>3. \A r \in Slots \ {p} : pc[r] \notin Exiting \cup {"wait_scan", "wait_sleep"}
  BY <1>1, Alone, Zenon DEF Exiting
<1>4. TypeOK'
  BY <1>1, SlotFacts, Zenon DEF TypeOK, States, PCs, Resumes
<1>5. Dispatched'
  BY <1>1, <1>2, <1>3, SlotFacts, NoneAssumption, SMTT(30) DEF Dispatched
<1>6. LocksHeld'
  BY <1>1, <1>2, <1>3, SlotFacts, NoneAssumption, SMTT(30)
     DEF LocksHeld, Switching, Copying, Exiting, Dispatched
<1>7. Forks'
  BY <1>1, <1>2, <1>3, SlotFacts, NoneAssumption, SMTT(30) DEF Forks, At, Forking, Dispatched
<1>8. Family'
  BY <1>1, <1>2, <1>3, SlotFacts, NoneAssumption, SMTT(30)
     DEF Family, Exiting, Alive, Children, Dispatched
<1>9. Sleepers'
  BY <1>1, <1>2, <1>3, SlotFacts, NoneAssumption DEF Sleepers, Children, Exiting, Dispatched
<1> QED  BY <1>4, <1>5, <1>6, <1>7, <1>8, <1>9, Zenon DEF Table

-----------------------------------------------------------------------------
(* The inductive invariant.                                                *)
IInv == TypeOK /\ Table

(* After userinit() the invariant holds.                                   *)
LEMMA InitInv ==
    ASSUME Init
    PROVE  IInv
<1>1. TypeOK
  BY SlotFacts, Zenon DEF Init, TypeOK, States, Resumes, PCs
<1>2. Dispatched /\ LocksHeld
  <2>1. /\ \A c \in CPUs : context[c] = None /\ cproc[c] = None
        /\ \A p \in Slots : plock[p] = None /\ pc[p] = "resumed" /\ resume[p] = "user"
        /\ \A p \in Slots : state[p] # "RUNNING"
        /\ wait_lock = None
    BY Zenon DEF Init
  <2>2. Dispatched
    BY <2>1, Zenon DEF Dispatched
  <2>3. LocksHeld
    BY <2>1, SlotFacts, NoneAssumption DEF LocksHeld, Switching, Copying
  <2> QED  BY <2>2, <2>3, Zenon
<1>3. Forks
  BY Zenon DEF Init, Forks, At, Forking
<1>4. Family
  BY SlotFacts, Zenon DEF Init, Family, Alive, Exiting, Children
<1>5. Sleepers
  BY SlotFacts, Zenon DEF Init, Sleepers, Children
<1> QED  BY <1>1, <1>2, <1>3, <1>4, <1>5, Zenon DEF IInv, Table

(* panic() stops all, and nothing else happens to the table.               *)
LEMMA StoppedInv ==
    ASSUME TypeOK, Table, panic' \in BOOLEAN,
           UNCHANGED <<state, parent, chan, killed, plock, wait_lock, context, cproc,
                      pc, resume, i, j, np, havekids>>
    PROVE  TypeOK' /\ Table'
<1>1. TypeOK'
  BY Zenon DEF TypeOK
<1>2. Dispatched' /\ LocksHeld' /\ Forks'
  BY Undisturbed, Zenon
<1>3. Family' /\ Sleepers'
  BY Zenon DEF Table, Family, Sleepers, Children
<1> QED  BY <1>1, <1>2, <1>3, Zenon DEF Table

(* The steps of fork().                                                    *)
LEMMA ForkInv ==
    ASSUME TypeOK, Table, NEW c \in CPUs, NEW p \in Slots, fork(c, p), panic' = panic
    PROVE  TypeOK' /\ Table'
  BY AllocprocInv, ForkFailInv, ForkCopiedInv, ForkLinkInv, ForkRunInv, Zenon DEF fork

(* The steps of exit().                                                    *)
LEMMA ExitInv ==
    ASSUME TypeOK, Table, NEW c \in CPUs, NEW p \in Slots, exit(c, p), panic' = panic
    PROVE  TypeOK' /\ Table'
  BY ExitStartInv, ReparentInv, ExitWakeupInv, ExitWokenInv, ExitZombieInv, Zenon DEF exit

(* The steps of wait().                                                    *)
LEMMA WaitInv ==
    ASSUME TypeOK, Table, NEW c \in CPUs, NEW p \in Slots, wait(c, p), panic' = panic
    PROVE  TypeOK' /\ Table'
  BY WaitAcquireInv, WaitAliveInv, WaitReapInv, WaitCopyoutFailsInv, WaitScannedInv,
     WaitSleepInv, Zenon DEF wait

(* Every step preserves the invariant.                                     *)
LEMMA NextInv ==
    ASSUME IInv, [Next]_vars
    PROVE  IInv'
<1>1. TypeOK /\ Table
  BY Zenon DEF IInv
<1>2. ASSUME Step, panic' = panic PROVE TypeOK' /\ Table'
  <2>1. ASSUME NEW c \in CPUs, scheduler_back(c) PROVE TypeOK' /\ Table'
    BY <1>1, <1>2, <2>1, SchedulerBackInv, Zenon
  <2>2. ASSUME NEW c \in CPUs, NEW p \in Slots,
               \/ scheduler_pick(c, p) \/ sched(c, p) \/ resumed(c, p) \/ yield(c, p)
               \/ wait_call(c, p) \/ \E q \in Slots : kill(c, p, q)
        PROVE  TypeOK' /\ Table'
    BY <1>1, <1>2, <2>2, SchedulerPickInv, SchedInv, ResumedInv, YieldInv, WaitCallInv,
       KillInv, Zenon
  <2>3. ASSUME NEW c \in CPUs, NEW p \in Slots, fork(c, p) \/ exit(c, p) \/ wait(c, p)
        PROVE  TypeOK' /\ Table'
    BY <1>1, <1>2, <2>3, ForkInv, ExitInv, WaitInv, Zenon
  <2> QED  BY <1>2, <2>1, <2>2, <2>3, Zenon DEF Step
<1>3. CASE \E c \in CPUs : init_exits(c)
  <2>1. /\ panic' = TRUE
        /\ UNCHANGED <<state, parent, chan, killed, plock, wait_lock, context, cproc,
                      pc, resume, i, j, np, havekids>>
    BY <1>3, Zenon DEF init_exits, pvars, lvars, svars, tvars
  <2> QED  BY <1>1, <2>1, StoppedInv, Zenon DEF IInv
<1>4. CASE UNCHANGED vars
  <2>1. /\ panic' = panic
        /\ UNCHANGED <<state, parent, chan, killed, plock, wait_lock, context, cproc,
                      pc, resume, i, j, np, havekids>>
    BY <1>4, Zenon DEF vars, pvars, lvars, svars, tvars
  <2>2. panic' \in BOOLEAN
    BY <1>1, <2>1, Zenon DEF TypeOK
  <2> QED  BY <1>1, <2>1, <2>2, StoppedInv, Zenon DEF IInv
<1> QED  BY <1>2, <1>3, <1>4, Zenon DEF Next, IInv

(* What the invariant says about stacks, sched(), orphans and sleepers.    *)
LEMMA Consequences ==
    ASSUME IInv
    PROVE  Inv /\ SleeperHasNoZombie
<1>1. TypeOK /\ Dispatched /\ LocksHeld /\ Family /\ Sleepers /\ Table
  BY Zenon DEF IInv, Table
<1>2. StackExclusive
  BY <1>1, SMTT(30) DEF StackExclusive, Dispatched
<1>3. SchedContract
  <2>1. ASSUME NEW p \in Slots, pc[p] = "sched", NEW c \in CPUs, context[c] = p
        PROVE  Locks(c) = {p} /\ state[p] # "RUNNING"
    <3>1. context[c] # None /\ cproc[c] = p
      BY <1>1, <2>1, SlotFacts, Zenon DEF Dispatched
    <3>2. \A q \in Slots : plock[q] = c <=> q = p
      BY <1>1, <2>1, <3>1, SMTT(30) DEF LocksHeld, Switching, Copying
    <3>3. wait_lock # c
      BY <1>1, <2>1, <3>1, Zenon DEF LocksHeld, Exiting
    <3>4. state[p] # "RUNNING"
      BY <1>1, <2>1, <3>1 DEF Dispatched
    <3> QED  BY <3>2, <3>3, <3>4, Zenon DEF Locks
  <2> QED  BY <1>1, <2>1, Zenon DEF SchedContract, Dispatched
<1>4. NoOrphan
  BY <1>1, Zenon DEF NoOrphan, Family, Alive
<1>5. SleeperHasNoZombie
  <2>1. ASSUME wait_lock = None, NEW r \in Slots, pc[r] = "wake_init" PROVE FALSE
    <3>1. PICK c \in CPUs : context[c] = r
      BY <1>1, <2>1, Zenon DEF Dispatched
    <3>2. wait_lock = c
      BY <1>1, <2>1, <3>1, SlotFacts, Zenon DEF LocksHeld, Exiting
    <3> QED  BY <2>1, <3>2, NoneAssumption, Zenon
  <2> QED  BY <1>1, <2>1, Zenon DEF Sleepers, Children, SleeperHasNoZombie
<1> QED  BY <1>1, <1>2, <1>3, <1>4, <1>5, Zenon DEF Inv

(* Kernel stacks are never used by two CPUs or after they are freed,       *)
(* sched() always finds what it asserts, no process that exited comes      *)
(* back, and no process is left without a living parent: for any number of *)
(* slots and CPUs.                                                         *)
THEOREM Invariant == Spec => []Inv
<1>1. Init => IInv
  BY InitInv, Zenon
<1>2. IInv /\ [Next]_vars => IInv'
  BY NextInv, Zenon
<1>3. IInv => Inv
  BY Consequences, Zenon
<1> QED  BY <1>1, <1>2, <1>3, PTL DEF Spec

(* No process sleeps in wait() while it has a ZOMBIE to reap (once         *)
(* wait_lock is free): the wakeup() in exit() is not lost although it      *)
(* comes before the process is a ZOMBIE.                                   *)
THEOREM NoLostWakeup == Spec => []SleeperHasNoZombie
<1>1. Init => IInv
  BY InitInv, Zenon
<1>2. IInv /\ [Next]_vars => IInv'
  BY NextInv, Zenon
<1>3. IInv => SleeperHasNoZombie
  BY Consequences, Zenon
<1> QED  BY <1>1, <1>2, <1>3, PTL DEF Spec

(* A process that is reaped, or whose fork() failed, is the only one whose *)
(* slot a step frees.                                                      *)
LEMMA RecyclingStep ==
    ASSUME IInv, Next
    PROVE  Recycling
<1>1. TypeOK /\ Table /\ state \in [Slots -> States]
  BY Zenon DEF IInv, TypeOK
<1> DEFINE Frees(q) == state[q] # "UNUSED" /\ state'[q] = "UNUSED"
<1>2. ASSUME NEW c \in CPUs, NEW p \in Slots, fork_fail(c, p), NEW q \in Slots, Frees(q)
      PROVE  context[c] # None /\ state[q] = "USED" /\ np[context[c]] = q
  <2>1. context[c] = p /\ pc[p] = "fork_copy" /\ state' = [state EXCEPT ![np[p]] = "UNUSED"]
    BY <1>2, Zenon DEF fork_fail, freeproc
  <2>2. q = np[p]
    BY <1>1, <1>2, <2>1, Zenon
  <2>3. q # None /\ p # None
    BY SlotFacts, Zenon
  <2>4. state[np[p]] = "USED"
    BY <1>1, <2>2, <2>3, Zenon DEF Table, Forks
  <2> QED  BY <2>1, <2>2, <2>3, <2>4, Zenon
<1>3. ASSUME NEW c \in CPUs, NEW p \in Slots, wait_reap(c, p), NEW q \in Slots, Frees(q)
      PROVE  /\ context[c] # None /\ state[q] = "ZOMBIE" /\ parent[q] = context[c]
             /\ wait_lock = c
             /\ \A d \in CPUs : cproc[d] # q
  <2>1. context[c] = p /\ pc[p] = "wait_scan"
    BY <1>3, Zenon DEF wait_reap
  <2>2. PICK r \in First(ToScan(p)) : plock[r] = None /\ state[r] = "ZOMBIE" /\ freeproc(r)
    BY <1>3, Zenon DEF wait_reap
  <2>3. r \in Slots /\ parent[r] = p
    BY Zenon DEF First, ToScan, Children
  <2>4. q = r
    BY <1>1, <1>3, <2>2, <2>3, Zenon DEF freeproc
  <2>5. wait_lock = c
    BY <1>1, <2>1, SlotFacts, Zenon DEF Table, LocksHeld
  <2>6. \A d \in CPUs : cproc[d] # r
    BY <1>1, <2>2, <2>3, Parked, Zenon
  <2> QED  BY <2>1, <2>2, <2>3, <2>4, <2>5, <2>6, SlotFacts, Zenon
<1> DEFINE Keeps == \A q \in Slots : ~Frees(q)
<1>4. ASSUME UNCHANGED state PROVE Keeps
  BY <1>4, Zenon
<1>5. ASSUME NEW r \in Slots, NEW s \in States \ {"UNUSED"}, state' = [state EXCEPT ![r] = s]
      PROVE  Keeps
  BY <1>1, <1>5, Zenon
<1> HIDE DEF Keeps
<1>6. ASSUME NEW c \in CPUs, NEW p \in Slots,
             \/ scheduler_back(c) \/ sched(c, p) \/ resumed(c, p)
             \/ fork_copied(c, p) \/ fork_link(c, p)
             \/ exit_start(c, p) \/ reparent(c, p) \/ exit_woken(c, p)
             \/ wait_call(c, p) \/ wait_acquire(c, p) \/ wait_alive(c, p)
             \/ wait_copyout_fails(c, p) \/ wait_scanned(c, p)
      PROVE  Keeps
  <2>1. UNCHANGED state
    BY <1>6, Zenon DEF scheduler_back, sched, resumed, fork_copied, fork_link, exit_start,
       reparent,
       exit_woken, wait_call, wait_acquire, wait_alive, wait_copyout_fails, wait_scanned, pvars
  <2> QED  BY <1>4, <2>1, Zenon
<1>7. ASSUME NEW c \in CPUs, NEW p \in Slots,
             \/ scheduler_pick(c, p) \/ yield(c, p) \/ exit_zombie(c, p) \/ wait_sleep(c, p)
      PROVE  Keeps
  <2>1. PICK s \in {"RUNNING", "RUNNABLE", "ZOMBIE", "SLEEPING"} : state' = [state EXCEPT ![p] = s]
    BY <1>7, Zenon DEF scheduler_pick, yield, exit_zombie, wait_sleep, StopAs
  <2> QED  BY <1>5, <2>1, Zenon DEF States
<1>8. ASSUME NEW c \in CPUs, NEW p \in Slots, NEW q \in Slots, allocproc(c, p, q) \/ kill(c, p, q)
      PROVE  Keeps
  <2>1. CASE allocproc(c, p, q)
    BY <1>5, <2>1, Zenon DEF allocproc, States
  <2>2. CASE kill(c, p, q)
    BY <1>1, <1>4, <1>5, <2>2, Zenon DEF kill, States
  <2> QED  BY <1>8, <2>1, <2>2, Zenon
<1>9. ASSUME NEW c \in CPUs, NEW p \in Slots, fork_run(c, p) \/ exit_wakeup(c, p)
      PROVE  Keeps
  <2>1. CASE fork_run(c, p)
    <3>1. PICK r \in Slots : np[p] = r
      BY <1>1, <2>1, ForkSlot, Zenon DEF fork_run, Forking
    <3>2. state' = [state EXCEPT ![r] = "RUNNABLE"]
      BY <2>1, <3>1, Zenon DEF fork_run
    <3> QED  BY <1>5, <3>2, Zenon DEF States
  <2>2. CASE exit_wakeup(c, p)
    BY <1>1, <1>4, <1>5, <2>2, Zenon DEF exit_wakeup, wakeup, States
  <2> QED  BY <1>9, <2>1, <2>2, Zenon
<1>10. CASE UNCHANGED state
  BY <1>4, <1>10, Zenon DEF Keeps, Recycling
<1>11. CASE Step
  <2>1. \/ \E c \in CPUs, p \in Slots : fork_fail(c, p) \/ wait_reap(c, p)
        \/ Keeps
    BY <1>6, <1>7, <1>8, <1>9, <1>11, SlotFacts, SMTT(30) DEF Step, fork, exit, wait
  <2>2. CASE Keeps
    BY <2>2, Zenon DEF Keeps, Recycling
  <2>3. ASSUME NEW c \in CPUs, NEW p \in Slots, fork_fail(c, p) PROVE Recycling
    BY <1>2, <2>3, Zenon DEF Recycling
  <2>4. ASSUME NEW c \in CPUs, NEW p \in Slots, wait_reap(c, p) PROVE Recycling
    BY <1>3, <2>4 DEF Recycling
  <2> QED  BY <2>1, <2>2, <2>3, <2>4, Zenon
<1> QED  BY <1>10, <1>11, Zenon DEF Next, init_exits, vars, pvars

(* A slot becomes free only by the parent's wait(), after the process has  *)
(* left its CPU, or by the fork() that took it.                            *)
THEOREM Recycled == Spec => OnlyReaped
<1>1. Init => IInv
  BY InitInv, Zenon
<1>2. IInv /\ [Next]_vars => IInv'
  BY NextInv, Zenon
<1>3. IInv /\ [Next]_vars => [Recycling]_vars
  BY RecyclingStep, Zenon
<1> QED  BY <1>1, <1>2, <1>3, PTL DEF Spec, OnlyReaped
=============================================================================
