------------------------------ MODULE SpinLock ------------------------------
(***************************************************************************)
(* Spinlocks and interrupts (kernel/spinlock.c): acquire(), release(),     *)
(* holding(), push_off() and pop_off(), one memory access or CSR write at  *)
(* a time.  Every CPU runs kernel code at level 0, which a device          *)
(* interrupt may suspend for a handler at level 1 (kernelvec and           *)
(* kerneltrap() in kernel/trap.c); both levels take spinlocks.  Locks are  *)
(* numbered in the order in which the kernel nests them.  Locals that are  *)
(* dead, and intena while noff is 0, have their first value.               *)
(***************************************************************************)
EXTENDS Integers, FiniteSets

CONSTANTS CPUs,
          NLOCK,  \* the locks are 1 .. NLOCK
          None

Locks == 1 .. NLOCK
Levels == {0, 1}

ASSUME LocksAssumption == NLOCK \in Nat \ {0}
ASSUME NamesAssumption == None \notin CPUs

VARIABLES
    locked, lkcpu,       \* of struct spinlock
    noff, intena, intr,  \* of each CPU: c->noff, c->intena, sstatus.SIE
    level,               \* of each CPU: 1 while it handles an interrupt
    pc, lk, old,         \* of each CPU and level
    holds,               \* of each CPU and level: the locks it has acquired
    panic

cvars == <<noff, intena, intr>>
tvars == <<level, pc, lk, old, holds>>
vars == <<locked, lkcpu, cvars, tvars, panic>>

(* Kernel code starts with interrupts on.                                  *)
Init ==
    /\ locked = [l \in Locks |-> FALSE]
    /\ lkcpu = [l \in Locks |-> None]
    /\ noff = [c \in CPUs |-> 0]
    /\ intena = [c \in CPUs |-> FALSE]
    /\ intr = [c \in CPUs |-> TRUE]
    /\ level = [c \in CPUs |-> 0]
    /\ pc = [c \in CPUs |-> [v \in Levels |-> "run"]]
    /\ lk = [c \in CPUs |-> [v \in Levels |-> 1]]
    /\ old = [c \in CPUs |-> [v \in Levels |-> FALSE]]
    /\ holds = [c \in CPUs |-> [v \in Levels |-> {}]]
    /\ panic = FALSE

At(c, l) == pc[c][level[c]] = l
Goto(c, l) == pc' = [pc EXCEPT ![c][level[c]] = l]
Lk(c) == lk[c][level[c]]

Holding(c, l) == locked[l] /\ lkcpu[l] = c

-----------------------------------------------------------------------------
(* acquire() of a lock that comes after those this level holds; the mutant *)
(* nests locks in any order.                                               *)
acquire_unordered(c, l) ==
    /\ At(c, "run")
    /\ l \notin holds[c][level[c]]
    /\ lk' = [lk EXCEPT ![c][level[c]] = l]
    /\ Goto(c, "push_off")
    /\ UNCHANGED <<locked, lkcpu, cvars, level, old, holds, panic>>
acquire(c, l) ==
    /\ At(c, "run")
    /\ \A m \in holds[c][level[c]] : m < l
    /\ lk' = [lk EXCEPT ![c][level[c]] = l]
    /\ Goto(c, "push_off")
    /\ UNCHANGED <<locked, lkcpu, cvars, level, old, holds, panic>>

push_off_get(c) ==
    /\ At(c, "push_off")
    /\ old' = [old EXCEPT ![c][level[c]] = intr[c]]
    /\ Goto(c, "intr_off")
    /\ UNCHANGED <<locked, lkcpu, cvars, level, lk, holds, panic>>

intr_off(c) ==
    /\ At(c, "intr_off")
    /\ intr' = [intr EXCEPT ![c] = FALSE]
    /\ Goto(c, "count")
    /\ UNCHANGED <<locked, lkcpu, noff, intena, level, lk, old, holds, panic>>

(* The mutant records old at every depth, not only at the outermost.       *)
push_off_count_always(c) ==
    /\ At(c, "count")
    /\ intena' = [intena EXCEPT ![c] = old[c][level[c]]]
    /\ noff' = [noff EXCEPT ![c] = @ + 1]
    /\ old' = [old EXCEPT ![c][level[c]] = FALSE]
    /\ Goto(c, "check")
    /\ UNCHANGED <<locked, lkcpu, intr, level, lk, holds, panic>>
push_off_count(c) ==
    /\ At(c, "count")
    /\ intena' = [intena EXCEPT ![c] = IF noff[c] = 0 THEN old[c][level[c]] ELSE @]
    /\ noff' = [noff EXCEPT ![c] = @ + 1]
    /\ old' = [old EXCEPT ![c][level[c]] = FALSE]
    /\ Goto(c, "check")
    /\ UNCHANGED <<locked, lkcpu, intr, level, lk, holds, panic>>

acquire_check(c) ==
    /\ At(c, "check")
    /\ panic' = Holding(c, Lk(c))
    /\ Goto(c, "swap")
    /\ UNCHANGED <<locked, lkcpu, cvars, level, lk, old, holds>>

(* The atomic swap that finds the lock free; the mutant tests and sets in  *)
(* two steps and does not look again.                                      *)
test_and_set_blind(c) ==
    /\ At(c, "swap")
    /\ locked' = [locked EXCEPT ![Lk(c)] = TRUE]
    /\ Goto(c, "cpu")
    /\ UNCHANGED <<lkcpu, cvars, level, lk, old, holds, panic>>
test_and_set(c) ==
    /\ At(c, "swap")
    /\ ~locked[Lk(c)]
    /\ locked' = [locked EXCEPT ![Lk(c)] = TRUE]
    /\ Goto(c, "cpu")
    /\ UNCHANGED <<lkcpu, cvars, level, lk, old, holds, panic>>

acquired(c) ==
    /\ At(c, "cpu")
    /\ lkcpu' = [lkcpu EXCEPT ![Lk(c)] = c]
    /\ holds' = [holds EXCEPT ![c][level[c]] = @ \cup {Lk(c)}]
    /\ lk' = [lk EXCEPT ![c][level[c]] = 1]
    /\ Goto(c, "run")
    /\ UNCHANGED <<locked, cvars, level, old, panic>>

-----------------------------------------------------------------------------
(* release() of a lock this level holds, in any order.                     *)
release(c, l) ==
    /\ At(c, "run")
    /\ l \in holds[c][level[c]]
    /\ panic' = ~Holding(c, l)
    /\ lkcpu' = [lkcpu EXCEPT ![l] = None]
    /\ lk' = [lk EXCEPT ![c][level[c]] = l]
    /\ holds' = [holds EXCEPT ![c][level[c]] = @ \ {l}]
    /\ Goto(c, "unlock")
    /\ UNCHANGED <<locked, cvars, level, old>>

unlock(c) ==
    /\ At(c, "unlock")
    /\ locked' = [locked EXCEPT ![Lk(c)] = FALSE]
    /\ lk' = [lk EXCEPT ![c][level[c]] = 1]
    /\ Goto(c, "pop_off")
    /\ UNCHANGED <<lkcpu, cvars, level, old, holds, panic>>

(* pop_off() turns interrupts on at the outermost depth only.              *)
Reenable(c) == noff[c] = 1 /\ intena[c]

pop_off(c) ==
    /\ At(c, "pop_off")
    /\ IF intr[c] \/ noff[c] < 1
       THEN panic' = TRUE /\ UNCHANGED <<noff, intr>>
       ELSE /\ noff' = [noff EXCEPT ![c] = @ - 1]
            /\ intr' = [intr EXCEPT ![c] = Reenable(c)]
            /\ UNCHANGED panic
    /\ Goto(c, "run")
    /\ intena' = [intena EXCEPT ![c] = IF noff'[c] = 0 THEN FALSE ELSE @]
    /\ UNCHANGED <<locked, lkcpu, level, lk, old, holds>>

-----------------------------------------------------------------------------
(* An interrupt: the trap turns interrupts off, sret restores them.        *)
interrupt(c) ==
    /\ intr[c] /\ level[c] = 0
    /\ level' = [level EXCEPT ![c] = 1]
    /\ intr' = [intr EXCEPT ![c] = FALSE]
    /\ UNCHANGED <<locked, lkcpu, noff, intena, pc, lk, old, holds, panic>>

interrupt_return(c) ==
    /\ level[c] = 1 /\ At(c, "run") /\ holds[c][1] = {}
    /\ level' = [level EXCEPT ![c] = 0]
    /\ intr' = [intr EXCEPT ![c] = TRUE]
    /\ UNCHANGED <<locked, lkcpu, noff, intena, pc, lk, old, holds, panic>>

Next ==
    ~panic /\ \E c \in CPUs :
        \/ \E l \in Locks : acquire(c, l) \/ release(c, l)
        \/ push_off_get(c) \/ intr_off(c) \/ push_off_count(c)
        \/ acquire_check(c) \/ test_and_set(c) \/ acquired(c)
        \/ unlock(c) \/ pop_off(c)
        \/ interrupt(c) \/ interrupt_return(c)

Spec == Init /\ [][Next]_vars

-----------------------------------------------------------------------------
(* Every variable has one of its values.                                   *)
TypeOK ==
    /\ locked \in [Locks -> BOOLEAN] /\ lkcpu \in [Locks -> CPUs \cup {None}]
    /\ noff \in [CPUs -> Nat] /\ intena \in [CPUs -> BOOLEAN]
    /\ intr \in [CPUs -> BOOLEAN] /\ level \in [CPUs -> Levels]
    /\ pc \in [CPUs -> [Levels -> {"run", "push_off", "intr_off", "count", "check",
                                   "swap", "cpu", "unlock", "pop_off"}]]
    /\ lk \in [CPUs -> [Levels -> Locks]] /\ old \in [CPUs -> [Levels -> BOOLEAN]]
    /\ holds \in [CPUs -> [Levels -> SUBSET Locks]]
    /\ panic \in BOOLEAN
(* The locks a CPU owns, acquired by either level or just won by the swap. *)
Owns(c) ==
    holds[c][0] \cup holds[c][1]
        \cup {lk[c][v] : v \in {w \in Levels : pc[c][w] \in {"cpu", "unlock"}}}

(* Mutual exclusion, across CPUs and between a CPU's kernel code and its   *)
(* interrupt handler; and holding() answers for exactly the owner.         *)
MutualExclusion ==
    /\ \A c, d \in CPUs : c # d => Owns(c) \cap Owns(d) = {}
    /\ \A c \in CPUs : holds[c][0] \cap holds[c][1] = {}
    /\ \A c \in CPUs, l \in Locks : Holding(c, l) <=> l \in holds[c][0] \cup holds[c][1]

(* Interrupts are off while the CPU owns a lock or waits for one, so that  *)
(* no handler spins for a lock its own CPU holds; every lock counts in     *)
(* noff once.                                                              *)
OffWhileHeld ==
    \A c \in CPUs :
        /\ Owns(c) # {} \/ (\E v \in Levels : pc[c][v] \in {"check", "swap"}) => ~intr[c]
        /\ noff[c] = Cardinality(holds[c][0]) + Cardinality(holds[c][1])
             + Cardinality({v \in Levels : pc[c][v] \in {"check", "swap", "cpu", "unlock", "pop_off"}})

(* Matched push_off() and pop_off() restore the interrupt state: with no   *)
(* lock held, kernel code has interrupts on, as it started, and a handler  *)
(* has them off, though each handler's calls share noff and intena with    *)
(* the code it interrupted.                                                *)
InterruptsRestored ==
    \A c \in CPUs :
        /\ level[c] = 1 => ~intr[c]
        /\ level[c] = 0 /\ At(c, "run") /\ holds[c][0] = {} => intr[c]

(* No circle of waiting CPUs: whatever a CPU that spins on a lock owns, at *)
(* either level, comes before that lock, because a handler never runs on a *)
(* CPU that owns a lock.                                                   *)
WaitsInOrder ==
    \A c \in CPUs, v \in Levels :
        pc[c][v] = "swap" => \A m \in Owns(c) : m < lk[c][v]

(* None of the panics of acquire(), release() and pop_off() is reached.    *)
NoPanic == ~panic
=============================================================================
