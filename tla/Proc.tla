-------------------------------- MODULE Proc --------------------------------
(***************************************************************************)
(* Processes and CPUs: fork(), exit(), wait(), kill(), yield(), sleep(),   *)
(* wakeup(), sched() and scheduler() of kernel/proc.c.                     *)
(*                                                                         *)
(* A CPU runs either its scheduler context or the kernel thread of one     *)
(* process.  Spinlocks are held by a CPU (struct spinlock has a cpu), so a *)
(* p->lock taken by a process is released by the scheduler after swtch(),  *)
(* and the other way round.  A section under one lock that takes no other  *)
(* lock is one step; acquiring a second lock while one is held, and each   *)
(* iteration of a loop that locks one slot after another, is a step of its *)
(* own.  A process is named by its slot: pids do not repeat.               *)
(***************************************************************************)
EXTENDS Naturals

CONSTANTS NPROC,   \* size of the process table
          CPUs,
          None     \* no CPU, no parent, no channel, no process

Slots == 1 .. NPROC
initproc == 1

ASSUME NPROCAssumption == NPROC \in Nat \ {0}
ASSUME NoneAssumption == None \notin CPUs /\ None \notin Nat

VARIABLES
    state,      \* p->state
    parent,     \* p->parent
    chan,       \* p->chan; the only channels here are the processes
    killed,     \* p->killed
    plock,      \* the CPU that holds p->lock
    wait_lock,  \* the CPU that holds wait_lock
    context,    \* what a CPU executes: a process, or None for scheduler()
    cproc,      \* c->proc
    pc,         \* where the kernel thread of a process is
    resume,     \* where it goes on once sched() has returned
    i,          \* pp in the loops of wait() and reparent()
    j,          \* p in the loop of wakeup()
    np,         \* np in fork()
    havekids,   \* havekids in wait()
    panic       \* the kernel has stopped in panic()

pvars == <<state, parent, chan, killed>>
lvars == <<plock, wait_lock>>
svars == <<context, cproc>>
tvars == <<pc, resume, i, j, np, havekids>>
vars == <<pvars, lvars, svars, tvars, panic>>

States == {"UNUSED", "USED", "SLEEPING", "RUNNABLE", "RUNNING", "ZOMBIE"}

Locks(c) == {q \in Slots : plock[q] = c} \cup (IF wait_lock = c THEN {None} ELSE {})

Goto(p, l) == pc' = [pc EXCEPT ![p] = l]

Children(p) == {q \in Slots : parent[q] = p}

(* The least slot of S: a loop over the table goes through it in order.    *)
First(S) == {q \in S : \A r \in S : q <= r}

(* userinit(): the first process is ready to run, all other slots free.    *)
Init ==
    /\ state = [p \in Slots |-> IF p = initproc THEN "RUNNABLE" ELSE "UNUSED"]
    /\ parent = [p \in Slots |-> None]
    /\ chan = [p \in Slots |-> None]
    /\ killed = [p \in Slots |-> FALSE]
    /\ plock = [p \in Slots |-> None]
    /\ wait_lock = None
    /\ context = [c \in CPUs |-> None]
    /\ cproc = [c \in CPUs |-> None]
    /\ pc = [p \in Slots |-> "resumed"]
    /\ resume = [p \in Slots |-> "user"]
    /\ i = [p \in Slots |-> 1]
    /\ j = [p \in Slots |-> 1]
    /\ np = [p \in Slots |-> None]
    /\ havekids = [p \in Slots |-> FALSE]
    /\ panic = FALSE

-----------------------------------------------------------------------------
(* Scheduling.                                                             *)

(* scheduler() finds a RUNNABLE process and switches to it, p->lock held.  *)
scheduler_pick(c, p) ==
    /\ context[c] = None /\ cproc[c] = None
    /\ plock[p] = None
    /\ state[p] = "RUNNABLE"
    /\ plock' = [plock EXCEPT ![p] = c]
    /\ state' = [state EXCEPT ![p] = "RUNNING"]
    /\ cproc' = [cproc EXCEPT ![c] = p]
    /\ context' = [context EXCEPT ![c] = p]
    /\ UNCHANGED <<parent, chan, killed, wait_lock, tvars>>

(* scheduler() after swtch() came back to it.                              *)
scheduler_back(c) ==
    /\ context[c] = None /\ cproc[c] # None
    /\ plock' = [plock EXCEPT ![cproc[c]] = None]
    /\ cproc' = [cproc EXCEPT ![c] = None]
    /\ UNCHANGED <<pvars, wait_lock, context, tvars>>

(* sched(): the process leaves the CPU with p->lock held.                  *)
sched(c, p) ==
    /\ context[c] = p
    /\ pc[p] = "sched"
    /\ context' = [context EXCEPT ![c] = None]
    /\ Goto(p, "resumed")
    /\ UNCHANGED <<pvars, lvars, cproc, resume, i, j, np, havekids>>

(* Behind sched() in yield() and sleep(), and at the start of forkret().   *)
resumed(c, p) ==
    /\ context[c] = p
    /\ pc[p] = "resumed"
    /\ chan' = [chan EXCEPT ![p] = None]
    /\ plock' = [plock EXCEPT ![p] = None]
    /\ Goto(p, resume[p])
    /\ UNCHANGED <<state, parent, killed, wait_lock, svars, resume, i, j, np, havekids>>

(* Enter sched() in state s, p->lock held by this CPU from now on; the     *)
(* mutant has let go of p->lock before sched().                            *)
StopAs_unlocked(c, p, s, l) ==
    /\ plock[p] = None
    /\ state' = [state EXCEPT ![p] = s]
    /\ resume' = [resume EXCEPT ![p] = l]
    /\ Goto(p, "sched")
    /\ UNCHANGED plock
StopAs(c, p, s, l) ==
    /\ plock[p] = None
    /\ plock' = [plock EXCEPT ![p] = c]
    /\ state' = [state EXCEPT ![p] = s]
    /\ resume' = [resume EXCEPT ![p] = l]
    /\ Goto(p, "sched")

(* yield() from a timer interrupt, in user space or between two critical   *)
(* sections of the kernel (interrupts are off while a spinlock is held).   *)
yield(c, p) ==
    /\ context[c] = p
    /\ pc[p] \in {"user", "fork_link", "fork_run", "wait_lock"}
    /\ StopAs(c, p, "RUNNABLE", pc[p])
    /\ UNCHANGED <<parent, chan, killed, wait_lock, svars, i, j, np, havekids>>

-----------------------------------------------------------------------------
(* fork().                                                                 *)

(* allocproc(): a free slot, returned with its lock held.                  *)
allocproc(c, p, q) ==
    /\ context[c] = p
    /\ pc[p] = "user" /\ ~killed[p]
    /\ plock[q] = None /\ state[q] = "UNUSED"
    /\ plock' = [plock EXCEPT ![q] = c]
    /\ state' = [state EXCEPT ![q] = "USED"]
    /\ np' = [np EXCEPT ![p] = q]
    /\ pc' = [pc EXCEPT ![p] = "fork_copy", ![q] = "resumed"]
    /\ resume' = [resume EXCEPT ![q] = "user"]
    /\ UNCHANGED <<parent, chan, killed, wait_lock, svars, i, j, havekids>>

(* What freeproc(q) does to the slot.                                      *)
freeproc(q) ==
    /\ state' = [state EXCEPT ![q] = "UNUSED"]
    /\ parent' = [parent EXCEPT ![q] = None]
    /\ chan' = [chan EXCEPT ![q] = None]
    /\ killed' = [killed EXCEPT ![q] = FALSE]

(* No memory for the child: undo allocproc() and return -1.                *)
fork_fail(c, p) ==
    /\ context[c] = p
    /\ pc[p] = "fork_copy"
    /\ freeproc(np[p])
    /\ plock' = [plock EXCEPT ![np[p]] = None]
    /\ np' = [np EXCEPT ![p] = None]
    /\ Goto(p, "user")
    /\ UNCHANGED <<wait_lock, svars, resume, i, j, havekids>>

fork_copied(c, p) ==
    /\ context[c] = p
    /\ pc[p] = "fork_copy"
    /\ plock' = [plock EXCEPT ![np[p]] = None]
    /\ Goto(p, "fork_link")
    /\ UNCHANGED <<pvars, wait_lock, svars, resume, i, j, np, havekids>>

(* np->parent = p, under wait_lock.                                        *)
fork_link(c, p) ==
    /\ context[c] = p
    /\ pc[p] = "fork_link"
    /\ wait_lock = None
    /\ parent' = [parent EXCEPT ![np[p]] = p]
    /\ Goto(p, "fork_run")
    /\ UNCHANGED <<state, chan, killed, lvars, svars, resume, i, j, np, havekids>>

(* np->state = RUNNABLE, under np->lock.                                   *)
fork_run(c, p) ==
    /\ context[c] = p
    /\ pc[p] = "fork_run"
    /\ plock[np[p]] = None
    /\ state' = [state EXCEPT ![np[p]] = "RUNNABLE"]
    /\ np' = [np EXCEPT ![p] = None]
    /\ Goto(p, "user")
    /\ UNCHANGED <<parent, chan, killed, lvars, svars, resume, i, j, havekids>>

fork(c, p) ==
    \/ \E q \in Slots : allocproc(c, p, q)
    \/ fork_fail(c, p) \/ fork_copied(c, p) \/ fork_link(c, p) \/ fork_run(c, p)

-----------------------------------------------------------------------------
(* exit().                                                                 *)

(* init exits, because it was killed or its fork() failed: panic().        *)
init_exits(c) ==
    /\ context[c] = initproc
    /\ pc[initproc] = "user"
    /\ panic' = TRUE
    /\ UNCHANGED <<pvars, lvars, svars, tvars>>

(* A process exits by itself, or because a trap finds it killed.           *)
exit_start(c, p) ==
    /\ context[c] = p
    /\ pc[p] = "user" /\ p # initproc
    /\ wait_lock = None
    /\ wait_lock' = c
    /\ i' = [i EXCEPT ![p] = 1]
    /\ Goto(p, "reparent")
    /\ UNCHANGED <<pvars, plock, svars, resume, j, np, havekids>>

(* reparent(): the next child goes to init, which is woken for it.         *)
reparent(c, p) ==
    LET rest == {q \in Children(p) : q >= i[p]} IN
    /\ context[c] = p
    /\ pc[p] = "reparent"
    /\ j' = [j EXCEPT ![p] = 1]
    /\ \/ \E q \in First(rest) :
             /\ parent' = [parent EXCEPT ![q] = initproc]
             /\ i' = [i EXCEPT ![p] = q + 1]
             /\ Goto(p, "wake_init")
       \/ /\ rest = {}
          /\ Goto(p, "wake_parent")
          /\ UNCHANGED <<parent, i>>
    /\ UNCHANGED <<state, chan, killed, lvars, svars, resume, np, havekids>>

(* One iteration of wakeup(t): slot j[p], unless it is the caller's.       *)
wakeup(c, p, t) ==
    LET q == j[p] IN
    /\ context[c] = p
    /\ q \in Slots
    /\ q = p \/ plock[q] = None
    /\ state' = [state EXCEPT ![q] =
                    IF q # p /\ @ = "SLEEPING" /\ chan[q] = t THEN "RUNNABLE" ELSE @]
    /\ j' = [j EXCEPT ![p] = q + 1]
    /\ UNCHANGED <<parent, chan, killed, lvars, svars, pc, resume, i, np, havekids>>

(* Whom exit() wakes at last; the mutant wakes init instead.               *)
exit_wakes_init(p) == initproc
exit_wakes(p) == parent[p]

exit_wakeup(c, p) ==
    \/ pc[p] = "wake_init" /\ wakeup(c, p, initproc)
    \/ pc[p] = "wake_parent" /\ wakeup(c, p, exit_wakes(p))

(* The end of a wakeup() called by exit().                                 *)
exit_woken(c, p) ==
    /\ context[c] = p
    /\ pc[p] \in {"wake_init", "wake_parent"} /\ j[p] \notin Slots
    /\ Goto(p, IF pc[p] = "wake_init" THEN "reparent" ELSE "zombie")
    /\ UNCHANGED <<pvars, lvars, svars, resume, i, j, np, havekids>>

(* p->state = ZOMBIE under both locks; p->lock stays held over sched().    *)
exit_zombie(c, p) ==
    /\ context[c] = p
    /\ pc[p] = "zombie"
    /\ StopAs(c, p, "ZOMBIE", "zombie_exit")
    /\ wait_lock' = None
    /\ i' = [i EXCEPT ![p] = 1]
    /\ j' = [j EXCEPT ![p] = 1]
    /\ UNCHANGED <<parent, chan, killed, svars, np, havekids>>

exit(c, p) ==
    \/ exit_start(c, p) \/ reparent(c, p) \/ exit_wakeup(c, p)
    \/ exit_woken(c, p) \/ exit_zombie(c, p)

-----------------------------------------------------------------------------
(* wait().                                                                 *)

wait_call(c, p) ==
    /\ context[c] = p
    /\ pc[p] = "user" /\ ~killed[p]
    /\ Goto(p, "wait_lock")
    /\ UNCHANGED <<pvars, lvars, svars, resume, i, j, np, havekids>>

(* acquire(&wait_lock), on entry and at the end of sleep().                *)
wait_acquire(c, p) ==
    /\ context[c] = p
    /\ pc[p] = "wait_lock"
    /\ wait_lock = None
    /\ wait_lock' = c
    /\ i' = [i EXCEPT ![p] = 1]
    /\ havekids' = [havekids EXCEPT ![p] = FALSE]
    /\ Goto(p, "wait_scan")
    /\ UNCHANGED <<pvars, plock, svars, resume, j, np>>

ToScan(p) == {q \in Children(p) : q >= i[p]}

(* wait() returns: wait_lock is released, the loop variables are dead.     *)
wait_return(p) ==
    /\ wait_lock' = None
    /\ Goto(p, "user")
    /\ i' = [i EXCEPT ![p] = 1]
    /\ havekids' = [havekids EXCEPT ![p] = FALSE]

(* The scan meets a child that is not a ZOMBIE, under pp->lock.            *)
wait_alive(c, p) ==
    /\ context[c] = p /\ pc[p] = "wait_scan"
    /\ \E q \in First(ToScan(p)) :
          /\ plock[q] = None /\ state[q] # "ZOMBIE"
          /\ i' = [i EXCEPT ![p] = q + 1]
          /\ havekids' = [havekids EXCEPT ![p] = TRUE]
    /\ UNCHANGED <<pvars, lvars, svars, pc, resume, j, np>>

(* The scan meets a ZOMBIE and reaps it; the mutants do not take pp->lock, *)
(* or leave the slot in use.                                               *)
wait_reap_forgets(c, p) ==
    /\ context[c] = p /\ pc[p] = "wait_scan"
    /\ \E q \in First(ToScan(p)) :
          /\ plock[q] = None /\ state[q] = "ZOMBIE"
          /\ wait_return(p)
    /\ UNCHANGED <<pvars, plock, svars, resume, j, np>>
wait_reap_unlocked(c, p) ==
    /\ context[c] = p /\ pc[p] = "wait_scan"
    /\ \E q \in First(ToScan(p)) :
          /\ state[q] = "ZOMBIE"
          /\ freeproc(q)
          /\ wait_return(p)
    /\ UNCHANGED <<plock, svars, resume, j, np>>
wait_reap(c, p) ==
    /\ context[c] = p /\ pc[p] = "wait_scan"
    /\ \E q \in First(ToScan(p)) :
          /\ plock[q] = None /\ state[q] = "ZOMBIE"
          /\ freeproc(q)
          /\ wait_return(p)
    /\ UNCHANGED <<plock, svars, resume, j, np>>

(* It meets a ZOMBIE and cannot copy its status out: wait() returns -1 and *)
(* the ZOMBIE stays.  init passes a null pointer and never gets here.      *)
wait_copyout_fails(c, p) ==
    /\ context[c] = p /\ pc[p] = "wait_scan"
    /\ \E q \in First(ToScan(p)) :
          /\ plock[q] = None /\ state[q] = "ZOMBIE" /\ p # initproc
          /\ wait_return(p)
    /\ UNCHANGED <<pvars, plock, svars, resume, j, np>>

(* No child left to look at: return -1, or go to sleep.                    *)
wait_scanned(c, p) ==
    /\ context[c] = p
    /\ pc[p] = "wait_scan" /\ ToScan(p) = {}
    /\ plock[p] = None
    /\ IF ~havekids[p] \/ killed[p]
       THEN wait_return(p)
       ELSE Goto(p, "wait_sleep") /\ UNCHANGED <<wait_lock, i, havekids>>
    /\ UNCHANGED <<pvars, plock, svars, resume, j, np>>

(* sleep(p, &wait_lock) up to sched().                                     *)
wait_sleep(c, p) ==
    /\ context[c] = p
    /\ pc[p] = "wait_sleep"
    /\ StopAs(c, p, "SLEEPING", "wait_lock")
    /\ chan' = [chan EXCEPT ![p] = p]
    /\ wait_lock' = None
    /\ i' = [i EXCEPT ![p] = 1]
    /\ havekids' = [havekids EXCEPT ![p] = FALSE]
    /\ UNCHANGED <<parent, killed, svars, j, np>>

wait(c, p) ==
    \/ wait_acquire(c, p) \/ wait_alive(c, p) \/ wait_reap(c, p)
    \/ wait_copyout_fails(c, p) \/ wait_scanned(c, p) \/ wait_sleep(c, p)

-----------------------------------------------------------------------------
(* kill() of a process in use, under its lock.                             *)
kill(c, p, q) ==
    /\ context[c] = p
    /\ pc[p] = "user" /\ ~killed[p]
    /\ plock[q] = None /\ state[q] # "UNUSED"
    /\ killed' = [killed EXCEPT ![q] = TRUE]
    /\ state' = [state EXCEPT ![q] = IF @ = "SLEEPING" THEN "RUNNABLE" ELSE @]
    /\ UNCHANGED <<parent, chan, lvars, svars, tvars>>

Step ==
    \/ \E c \in CPUs : scheduler_back(c)
    \/ \E c \in CPUs, p \in Slots :
        \/ scheduler_pick(c, p)
        \/ sched(c, p) \/ resumed(c, p) \/ yield(c, p)
        \/ fork(c, p) \/ exit(c, p) \/ wait_call(c, p) \/ wait(c, p)
        \/ \E q \in Slots : kill(c, p, q)

Next ==
    \/ ~panic /\ Step /\ UNCHANGED panic
    \/ ~panic /\ \E c \in CPUs : init_exits(c)
    \/ panic /\ UNCHANGED vars

Spec == Init /\ [][Next]_vars

-----------------------------------------------------------------------------
Resumes == {"user", "fork_link", "fork_run", "wait_lock", "zombie_exit"}

PCs == {"sched", "resumed", "fork_copy", "reparent", "wake_init", "wake_parent", "zombie",
        "wait_scan", "wait_sleep"}

(* Every variable has one of its values.                                   *)
TypeOK ==
    /\ state \in [Slots -> States]
    /\ parent \in [Slots -> Slots \cup {None}]
    /\ chan \in [Slots -> Slots \cup {None}]
    /\ killed \in [Slots -> BOOLEAN]
    /\ plock \in [Slots -> CPUs \cup {None}]
    /\ wait_lock \in CPUs \cup {None}
    /\ context \in [CPUs -> Slots \cup {None}]
    /\ cproc \in [CPUs -> Slots \cup {None}]
    /\ pc \in [Slots -> Resumes \cup PCs]
    /\ resume \in [Slots -> Resumes]
    /\ i \in [Slots -> 1 .. NPROC + 1]
    /\ j \in [Slots -> 1 .. NPROC + 1]
    /\ np \in [Slots -> Slots \cup {None}]
    /\ havekids \in [Slots -> BOOLEAN]
    /\ panic \in BOOLEAN

(* A kernel stack is in use by at most one CPU, and by none once its slot  *)
(* is free or its process not yet complete: scheduler(), sched() and       *)
(* wait() hand p->lock over so that no CPU picks or frees a process that   *)
(* is still on its way out of another.                                     *)
StackExclusive ==
    \A c \in CPUs : context[c] # None =>
        /\ cproc[c] = context[c]
        /\ \A d \in CPUs \ {c} : context[d] # context[c]
        /\ state[context[c]] \notin {"UNUSED", "USED"}

(* The contract stated over sched(): it is entered with p->lock held, no   *)
(* other spinlock held (noff is 1) and p->state no longer RUNNING; and no  *)
(* process that exited comes back ("zombie exit").                         *)
SchedContract ==
    \A p \in Slots :
        /\ pc[p] = "sched" =>
              \A c \in CPUs : context[c] = p => Locks(c) = {p} /\ state[p] # "RUNNING"
        /\ pc[p] # "zombie_exit"

(* No lost wakeup in wait(): while wait_lock is free, a process asleep in  *)
(* wait() has no ZOMBIE child.  exit() wakes the parent before it becomes  *)
(* a ZOMBIE, so this rests on wait_lock covering both.                     *)
SleeperHasNoZombie ==
    wait_lock = None =>
        \A p, q \in Slots :
            state[p] = "SLEEPING" /\ chan[p] = p /\ parent[q] = p
                => state[q] # "ZOMBIE"

(* No orphan: while wait_lock is free, the parent of every process that    *)
(* can run or can be reaped is a process that has not exited.              *)
NoOrphan ==
    wait_lock = None =>
        \A q \in Slots \ {initproc} :
            state[q] \in {"SLEEPING", "RUNNABLE", "RUNNING", "ZOMBIE"} =>
                /\ parent[q] # None
                /\ state[parent[q]] \in {"SLEEPING", "RUNNABLE", "RUNNING"}

(* Where the thread of a process stands, or will once it runs again.       *)
At(p) == IF pc[p] \in {"sched", "resumed"} THEN resume[p] ELSE pc[p]

Forking == {"fork_copy", "fork_link", "fork_run"}
Exiting == {"reparent", "wake_init", "wake_parent", "zombie"}
Alive == {"SLEEPING", "RUNNABLE", "RUNNING"}

(* A process is with one CPU from scheduler_pick() to scheduler_back(); it *)
(* is RUNNING from swtch() until it has decided to leave.                  *)
Dispatched ==
    /\ \A c, d \in CPUs : cproc[c] = cproc[d] /\ cproc[c] # None => c = d
    /\ \A c \in CPUs : context[c] # None => cproc[c] = context[c]
    /\ \A c \in CPUs : cproc[c] # None =>
          IF context[c] # None /\ pc[cproc[c]] # "sched"
          THEN state[cproc[c]] = "RUNNING"
          ELSE state[cproc[c]] \in {"SLEEPING", "RUNNABLE", "ZOMBIE"}
    /\ \A p \in Slots : state[p] = "RUNNING" \/ pc[p] # "resumed" => \E c \in CPUs : context[c] = p
    /\ \A p \in Slots :
          /\ resume[p] = "zombie_exit" => state[p] \in {"ZOMBIE", "UNUSED"}
          /\ pc[p] # "zombie_exit"

(* Whose p->lock a CPU holds: of the process it switches to or from, and   *)
(* of the one that fork() is copying into.                                 *)
Switching(c, p) == cproc[c] = p /\ (context[c] = None \/ pc[p] \in {"sched", "resumed"})
Copying(c, p) == context[c] # None /\ pc[context[c]] = "fork_copy" /\ np[context[c]] = p

LocksHeld ==
    /\ \A c \in CPUs, p \in Slots : plock[p] = c <=> Switching(c, p) \/ Copying(c, p)
    /\ \A c \in CPUs :
          wait_lock = c <=>
             context[c] # None /\ pc[context[c]] \in Exiting \cup {"wait_scan", "wait_sleep"}

(* The slot that fork() took stays USED, and its own, until it is done.    *)
Forks ==
    /\ \A p \in Slots : np[p] # None <=> At(p) \in Forking
    /\ \A p \in Slots : np[p] # None =>
          state[p] \in {"RUNNABLE", "RUNNING"} /\ state[np[p]] = "USED"
    /\ \A p, q \in Slots : np[p] = np[q] /\ np[p] # None => p = q
    /\ \A p \in Slots : At(p) = "fork_run" => parent[np[p]] = p

(* init lives for ever, every process has a parent that lives, and the     *)
(* children of a process that exits are passed to init from the left.      *)
Family ==
    /\ state[initproc] \in Alive /\ pc[initproc] \notin Exiting
    /\ \A q \in Slots : parent[q] # None => state[parent[q]] \in Alive
    /\ \A q \in Slots \ {initproc} : state[q] \in Alive \cup {"ZOMBIE"} => parent[q] # None
    /\ \A p \in Slots : \A q \in Children(p) :
          /\ pc[p] \in {"reparent", "wake_init"} => q >= i[p]
          /\ pc[p] \notin {"wake_parent", "zombie"}

(* A sleeper has no ZOMBIE, unless reparent() is just about to wake it;    *)
(* wait() has seen that there is none among the children it has passed;    *)
(* and exit() has seen that the parent is awake once its wakeup() has      *)
(* passed it.                                                              *)
Sleepers ==
    /\ \A p \in Slots : state[p] = "SLEEPING" => chan[p] = p
    /\ \A p \in Slots : \A q \in Children(p) : state[q] = "ZOMBIE" =>
          /\ state[p] = "SLEEPING" =>
                p = initproc /\ \E r \in Slots : pc[r] = "wake_init" /\ j[r] <= initproc
          /\ pc[p] = "wait_scan" => q >= i[p]
          /\ pc[p] # "wait_sleep"
    /\ \A p \in Slots : \A q \in Children(p) :
          pc[q] = "zombie" \/ (pc[q] = "wake_parent" /\ j[q] > p) => state[p] # "SLEEPING"

(* What the steps preserve together.                                       *)
Table == Dispatched /\ LocksHeld /\ Forks /\ Family /\ Sleepers

(* The invariant of the process table: it has its types, kernel stacks are *)
(* used by one CPU, sched() finds what it asserts, no process is left      *)
(* without a parent, and what keeps it so.                                 *)
Inv == TypeOK /\ StackExclusive /\ SchedContract /\ NoOrphan /\ Table

(* A slot is recycled only by its parent in wait(), after the process has  *)
(* exited and left its CPU, or by the fork() that took it.                 *)
Recycling ==
    \A q \in Slots : state[q] # "UNUSED" /\ state'[q] = "UNUSED" =>
        \E c \in CPUs : context[c] # None /\
            \/ /\ state[q] = "ZOMBIE" /\ parent[q] = context[c] /\ wait_lock = c
               /\ \A d \in CPUs : cproc[d] # q
            \/ state[q] = "USED" /\ np[context[c]] = q

OnlyReaped == [][Recycling]_vars

-----------------------------------------------------------------------------
(* Liveness.  Timer interrupts make every process yield (or exit, if it is *)
(* killed); every CPU keeps scheduling, and no RUNNABLE process is passed  *)
(* over for ever; a process that finds a spinlock free again and    *)
(* again, between its time slices, acquires it in the end; and init calls  *)
(* wait() again and again (user/init.c).                                   *)
Switch(c) ==
    scheduler_back(c) \/ \E p \in Slots : sched(c, p) \/ resumed(c, p)

Timer(c) == \E p \in Slots : yield(c, p) \/ (killed[p] /\ exit_start(c, p))

Work(c, p) ==
    \/ fork_copied(c, p) \/ fork_link(c, p) \/ fork_run(c, p)
    \/ reparent(c, p) \/ exit_wakeup(c, p) \/ exit_woken(c, p) \/ exit_zombie(c, p)
    \/ wait(c, p)

Up(A) == ~panic /\ A /\ UNCHANGED panic

FairSpec ==
    /\ Spec
    /\ \A c \in CPUs : WF_vars(Up(Switch(c))) /\ SF_vars(Up(Timer(c)))
    /\ \A p \in Slots :
        /\ SF_vars(Up(\E c \in CPUs : scheduler_pick(c, p)))
        /\ SF_vars(Up(\E c \in CPUs : Work(c, p)))
    /\ SF_vars(Up(\E c \in CPUs : wait_call(c, initproc)))

(* A ZOMBIE that init has inherited or forked is reaped, unless a child of *)
(* init in a lower slot becomes a ZOMBIE as well: wait() scans from slot 0 *)
(* and returns with the first ZOMBIE.  If init is killed it exits instead, *)
(* and the kernel panics.                                                  *)
ZombieReaped ==
    \A q \in Slots :
        state[q] = "ZOMBIE" /\ parent[q] = initproc
            ~> \/ state[q] = "UNUSED"
               \/ \E r \in Children(initproc) : r < q /\ state[r] = "ZOMBIE"
               \/ killed[initproc] \/ panic
=============================================================================
