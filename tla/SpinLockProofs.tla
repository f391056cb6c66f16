--------------------------- MODULE SpinLockProofs ---------------------------
(***************************************************************************)
(* Proofs that spinlocks exclude, keep interrupts off while they are held  *)
(* and restore them, for any number of CPUs and locks.                     *)
(*                                                                         *)
(* Three things are inductive, each with the ones before it: Exclusive,    *)
(* that a lock which is owned anywhere is locked; Ordered, that locks are  *)
(* taken in order; and Depth, that a handler runs only on top of code that *)
(* owns nothing, so that noff counts the locks of one level only.          *)
(***************************************************************************)
EXTENDS SpinLock, FiniteSetTheorems, TLAPS

(* Where a push_off() has counted and its pop_off() has not.               *)
Counted == {"check", "swap", "cpu", "unlock", "pop_off"}

OwnsAt(c, v) == holds[c][v] \cup (IF pc[c][v] \in {"cpu", "unlock"} THEN {lk[c][v]} ELSE {})

Exclusive ==
    /\ \A c, d \in CPUs, v, w \in Levels :
          c # d \/ v # w => OwnsAt(c, v) \cap OwnsAt(d, w) = {}
    /\ \A c \in CPUs, v \in Levels : \A l \in OwnsAt(c, v) : locked[l]
    /\ \A c \in CPUs, v \in Levels : pc[c][v] \in {"cpu", "unlock"} => lk[c][v] \notin holds[c][v]
    /\ \A c \in CPUs, l \in Locks : lkcpu[l] = c <=> \E v \in Levels : l \in holds[c][v]

Ordered ==
    \A c \in CPUs, v \in Levels :
        pc[c][v] \in {"push_off", "intr_off", "count", "check", "swap", "cpu"} =>
            \A m \in holds[c][v] : m < lk[c][v]

DepthAt(c) ==
    /\ level[c] = 0 => pc[c][1] = "run" /\ holds[c][1] = {}
    /\ level[c] = 1 => pc[c][0] \in {"run", "push_off", "intr_off"} /\ holds[c][0] = {} /\ ~intr[c]
    /\ intr[c] => holds[c][0] = {} /\ pc[c][0] \in {"run", "push_off", "intr_off"}
    /\ level[c] = 0 /\ ~intr[c] => holds[c][0] # {} \/ pc[c][0] \in Counted \cup {"count"}
    /\ \A v \in Levels : level[c] = v =>
          noff[c] = IF pc[c][v] \in Counted
                    THEN Cardinality(holds[c][v]) + 1 ELSE Cardinality(holds[c][v])
    /\ noff[c] > 0 => (intena[c] <=> level[c] = 0)
    /\ \A v \in Levels : pc[c][v] \in {"intr_off", "count"} /\ holds[c][v] = {} => (old[c][v] <=> v = 0)

Depth == \A c \in CPUs : DepthAt(c)

IInv == TypeOK /\ Exclusive /\ Ordered /\ Depth /\ ~panic

-----------------------------------------------------------------------------
(* What is needed of the size of a set of locks.                           *)
LEMMA CardFacts ==
    ASSUME NEW S \in SUBSET Locks
    PROVE  /\ Cardinality(S) \in Nat
           /\ S = {} <=> Cardinality(S) = 0
           /\ \A l \in Locks \ S : Cardinality(S \cup {l}) = Cardinality(S) + 1
           /\ \A l \in S : Cardinality(S \ {l}) = Cardinality(S) - 1
<1>1. IsFiniteSet(Locks)
  BY LocksAssumption, FS_Interval DEF Locks
<1>2. IsFiniteSet(S)
  BY <1>1, FS_Subset, Zenon
<1>3. Cardinality(S) \in Nat /\ (S = {} <=> Cardinality(S) = 0)
  BY <1>2, FS_CardinalityType, FS_EmptySet, Zenon
<1>4. \A l \in Locks \ S : Cardinality(S \cup {l}) = Cardinality(S) + 1
  BY <1>2, FS_AddElement, Zenon
<1>5. \A l \in S : Cardinality(S \ {l}) = Cardinality(S) - 1
  BY <1>2, FS_RemoveElement, Zenon
<1> QED
  BY <1>3, <1>4, <1>5, Zenon

(* Every action keeps the types; noff stays a natural number because       *)
(* pop_off() checks it.                                                    *)
LEMMA TypeStep ==
    ASSUME TypeOK, [Next]_vars
    PROVE  TypeOK'
<1> USE DEF At, Goto, Lk, cvars, TypeOK, Levels, Locks
<1> USE LocksAssumption, NamesAssumption
<1>1. ASSUME NEW c \in CPUs, NEW l \in Locks, acquire(c, l) PROVE TypeOK'
  BY <1>1, Zenon DEF acquire
<1>2. ASSUME NEW c \in CPUs, NEW l \in Locks, release(c, l) PROVE TypeOK'
  BY <1>2, SMTT(30) DEF release
<1>3. ASSUME NEW c \in CPUs, push_off_get(c) PROVE TypeOK'
  BY <1>3, Zenon DEF push_off_get
<1>4. ASSUME NEW c \in CPUs, intr_off(c) PROVE TypeOK'
  BY <1>4, Zenon DEF intr_off
<1>5. ASSUME NEW c \in CPUs, push_off_count(c) PROVE TypeOK'
  BY <1>5 DEF push_off_count
<1>6. ASSUME NEW c \in CPUs, acquire_check(c) PROVE TypeOK'
  BY <1>6, Zenon DEF acquire_check, Holding
<1>7. ASSUME NEW c \in CPUs, test_and_set(c) PROVE TypeOK'
  BY <1>7, Zenon DEF test_and_set
<1>8. ASSUME NEW c \in CPUs, acquired(c) PROVE TypeOK'
  BY <1>8 DEF acquired
<1>9. ASSUME NEW c \in CPUs, unlock(c) PROVE TypeOK'
  BY <1>9 DEF unlock
<1>10. ASSUME NEW c \in CPUs, pop_off(c) PROVE TypeOK'
  <2>1. noff' \in [CPUs -> Nat] /\ intr' \in [CPUs -> BOOLEAN] /\ panic' \in BOOLEAN
    <3>1. CASE intr[c] \/ noff[c] < 1
      BY <1>10, <3>1, Zenon DEF pop_off
    <3>2. CASE ~(intr[c] \/ noff[c] < 1)
      <4>1. Reenable(c) \in BOOLEAN /\ noff[c] - 1 \in Nat
        BY <3>2 DEF Reenable
      <4>2. /\ noff' = [noff EXCEPT ![c] = noff[c] - 1]
            /\ intr' = [intr EXCEPT ![c] = Reenable(c)]
            /\ panic' = panic
        BY <1>10, <3>2, Zenon DEF pop_off
      <4> HIDE DEF TypeOK
      <4>3. noff \in [CPUs -> Nat] /\ intr \in [CPUs -> BOOLEAN] /\ panic \in BOOLEAN
        BY Zenon DEF TypeOK
      <4> QED
        BY <4>1, <4>2, <4>3, Zenon
    <3> QED
      BY <3>1, <3>2, Zenon
  <2>2. intena' \in [CPUs -> BOOLEAN]
    BY <1>10, Zenon DEF pop_off
  <2>3. pc' \in [CPUs -> [Levels -> {"run", "push_off", "intr_off", "count", "check",
                                    "swap", "cpu", "unlock", "pop_off"}]]
    BY <1>10, Zenon DEF pop_off
  <2> QED
    BY <1>10, <2>1, <2>2, <2>3, Zenon DEF pop_off
<1>11. ASSUME NEW c \in CPUs, interrupt(c) PROVE TypeOK'
  BY <1>11, Zenon DEF interrupt
<1>12. ASSUME NEW c \in CPUs, interrupt_return(c) PROVE TypeOK'
  BY <1>12, Zenon DEF interrupt_return
<1>13. CASE UNCHANGED vars
  BY <1>13, Zenon DEF vars, tvars
<1> QED
  BY <1>1, <1>2, <1>3, <1>4, <1>5, <1>6, <1>7, <1>8, <1>9, <1>10, <1>11, <1>12, <1>13, Zenon
     DEF Next

-----------------------------------------------------------------------------
(* What a CPU's step changes is at its own entry, and there at its level.  *)
LEMMA Nested ==
    ASSUME NEW S, NEW f \in [CPUs -> [Levels -> S]], NEW c \in CPUs, NEW u \in Levels, NEW x,
           NEW g, g = [f EXCEPT ![c][u] = x]
    PROVE  /\ g[c][u] = x
           /\ \A d \in CPUs, v \in Levels : d # c \/ v # u => g[d][v] = f[d][v]
  BY Zenon

LEMMA AtLevel ==
    ASSUME TypeOK, NEW c \in CPUs, NEW l, Goto(c, l)
    PROVE  /\ pc'[c][level[c]] = l
           /\ \A d \in CPUs, v \in Levels : d # c \/ v # level[c] => pc'[d][v] = pc[d][v]
<1> DEFINE S == {"run", "push_off", "intr_off", "count", "check", "swap", "cpu", "unlock", "pop_off"}
<1>1. pc \in [CPUs -> [Levels -> S]] /\ level[c] \in Levels
  BY Zenon DEF TypeOK
<1> HIDE DEF S
<1> QED  BY <1>1, Nested DEF Goto

(* A step that leaves the locks, what is acquired and what is being        *)
(* acquired or released alone.                                             *)
LEMMA ExclusiveSame ==
    ASSUME Exclusive, UNCHANGED <<locked, lkcpu, holds>>,
           \A d \in CPUs, v \in Levels :
              /\ pc'[d][v] \in {"cpu", "unlock"} <=> pc[d][v] \in {"cpu", "unlock"}
              /\ pc[d][v] \in {"cpu", "unlock"} => lk'[d][v] = lk[d][v]
    PROVE  Exclusive'
<1>1. \A d \in CPUs, v \in Levels : OwnsAt(d, v)' = OwnsAt(d, v)
  BY Zenon DEF OwnsAt
<1>2. ASSUME NEW d \in CPUs, NEW v \in Levels, pc'[d][v] \in {"cpu", "unlock"}
      PROVE  lk'[d][v] \notin holds'[d][v]
  BY <1>2 DEF Exclusive
<1> QED  BY <1>1, <1>2 DEF Exclusive

(* Only the swap that finds a lock free adds an owner, and only unlock()   *)
(* clears locked.                                                          *)
LEMMA ExclusiveStep ==
    ASSUME TypeOK, Exclusive, [Next]_vars
    PROVE  Exclusive'
<1>a. \A c \in CPUs : level[c] \in Levels
  BY Zenon DEF TypeOK
<1>1. ASSUME NEW c \in CPUs, NEW l \in Locks, acquire(c, l) PROVE Exclusive'
  <2>1. Goto(c, "push_off") /\ pc[c][level[c]] = "run" /\ UNCHANGED <<locked, lkcpu, holds>>
        /\ lk' = [lk EXCEPT ![c][level[c]] = l]
    BY <1>1, Zenon DEF acquire, At
  <2>2. \A d \in CPUs, v \in Levels : d # c \/ v # level[c] => lk'[d][v] = lk[d][v]
    BY <1>a, <2>1, Nested DEF TypeOK
  <2> QED  BY <1>a, <2>1, <2>2, AtLevel, ExclusiveSame
<1>2. ASSUME NEW c \in CPUs, NEW l \in Locks, release(c, l) PROVE Exclusive'
  <2>1. PICK u \in Levels : u = level[c]
    BY <1>a, Zenon
  <2>2. /\ pc'[c][u] = "unlock" /\ pc[c][u] = "run" /\ l \in holds[c][u]
        /\ \A d \in CPUs, v \in Levels : d # c \/ v # u => pc'[d][v] = pc[d][v]
    BY <1>2, <2>1, AtLevel DEF release, At
  <2>3. /\ lk'[c][u] = l
        /\ \A d \in CPUs, v \in Levels : d # c \/ v # u => lk'[d][v] = lk[d][v]
    BY <1>2, <2>1, Nested DEF release, TypeOK
  <2>4. /\ holds'[c][u] = holds[c][u] \ {l}
        /\ \A d \in CPUs, v \in Levels : d # c \/ v # u => holds'[d][v] = holds[d][v]
    <3>1. holds' = [holds EXCEPT ![c][u] = holds[c][u] \ {l}]
      BY <1>2, <2>1, Zenon DEF release, TypeOK
    <3> QED  BY <2>1, <3>1, Nested DEF TypeOK
  <2>5. locked' = locked /\ lkcpu' = [lkcpu EXCEPT ![l] = None]
    BY <1>2, Zenon DEF release
  <2>6. \A d \in CPUs, v \in Levels : OwnsAt(d, v)' = OwnsAt(d, v)
    BY <2>2, <2>3, <2>4 DEF OwnsAt
  <2>7. ASSUME NEW d \in CPUs, NEW v \in Levels, pc'[d][v] \in {"cpu", "unlock"}
        PROVE  lk'[d][v] \notin holds'[d][v]
    BY <2>2, <2>3, <2>4, <2>7 DEF Exclusive
  <2>8. ASSUME NEW d \in CPUs, NEW m \in Locks
        PROVE  lkcpu'[m] = d <=> \E v \in Levels : m \in holds'[d][v]
    <3>1. CASE m # l
      <4>1. lkcpu'[m] = lkcpu[m]
        BY <2>5, <3>1, Zenon DEF TypeOK
      <4>2. \A v \in Levels : m \in holds'[d][v] <=> m \in holds[d][v]
        BY <2>4, <3>1, Zenon
      <4> QED  BY <4>1, <4>2 DEF Exclusive
    <3>2. CASE m = l
      <4>1. lkcpu'[m] # d
        BY <2>5, <3>2, NamesAssumption, Zenon DEF TypeOK
      <4>2. \A v \in Levels : (d # c \/ v # u) => l \notin holds[d][v]
        BY <2>2 DEF Exclusive, OwnsAt
      <4> QED  BY <2>4, <3>2, <4>1, <4>2, Zenon
    <3> QED  BY <3>1, <3>2, Zenon
  <2> QED  BY <2>5, <2>6, <2>7, <2>8 DEF Exclusive
<1>3. ASSUME NEW c \in CPUs,
             push_off_get(c) \/ intr_off(c) \/ push_off_count(c) \/ acquire_check(c) \/ pop_off(c)
      PROVE  Exclusive'
  <2>1. /\ \E l \in {"intr_off", "count", "check", "swap", "run"} : Goto(c, l)
        /\ pc[c][level[c]] \notin {"cpu", "unlock"} /\ UNCHANGED <<locked, lkcpu, holds, lk>>
    BY <1>3, Zenon DEF push_off_get, intr_off, push_off_count, acquire_check, pop_off, At
  <2> QED  BY <1>a, <2>1, AtLevel, ExclusiveSame
<1>7. ASSUME NEW c \in CPUs, test_and_set(c) PROVE Exclusive'
  <2>1. PICK u \in Levels : u = level[c]
    BY <1>a, Zenon
  <2>2. PICK l \in Locks : l = lk[c][u]
    BY <2>1 DEF TypeOK
  <2>3. /\ pc'[c][u] = "cpu" /\ pc[c][u] = "swap"
        /\ \A d \in CPUs, v \in Levels : d # c \/ v # u => pc'[d][v] = pc[d][v]
    BY <1>7, <2>1, AtLevel DEF test_and_set, At
  <2>4. /\ ~locked[l] /\ locked' = [locked EXCEPT ![l] = TRUE]
        /\ UNCHANGED <<lkcpu, lk, holds>>
    BY <1>7, <2>1, <2>2, Zenon DEF test_and_set, Lk
  <2>5. \A d \in CPUs, v \in Levels : l \notin OwnsAt(d, v)
    BY <2>4, Zenon DEF Exclusive
  <2>6. /\ OwnsAt(c, u)' = OwnsAt(c, u) \cup {l}
        /\ \A d \in CPUs, v \in Levels : d # c \/ v # u => OwnsAt(d, v)' = OwnsAt(d, v)
    BY <2>2, <2>3, <2>4, Zenon DEF OwnsAt
  <2>7. \A d \in CPUs, v \in Levels : \A m \in OwnsAt(d, v)' : locked'[m]
    <3>1. \A m \in Locks : locked[m] \/ m = l => locked'[m]
      BY <2>4, Zenon DEF TypeOK
    <3>2. \A d \in CPUs, v \in Levels : OwnsAt(d, v) \subseteq Locks
      BY DEF OwnsAt, TypeOK
    <3> QED  BY <2>6, <3>1, <3>2 DEF Exclusive
  <2>8. \A d, e \in CPUs, v, w \in Levels : d # e \/ v # w => OwnsAt(d, v)' \cap OwnsAt(e, w)' = {}
    BY <2>5, <2>6 DEF Exclusive
  <2>9. ASSUME NEW d \in CPUs, NEW v \in Levels, pc'[d][v] \in {"cpu", "unlock"}
        PROVE  lk'[d][v] \notin holds'[d][v]
    <3>1. l \notin holds[c][u]
      BY <2>5, Zenon DEF OwnsAt
    <3> QED  BY <2>2, <2>3, <2>4, <2>9, <3>1 DEF Exclusive
  <2> QED  BY <2>4, <2>7, <2>8, <2>9, Zenon DEF Exclusive
<1>8. ASSUME NEW c \in CPUs, acquired(c) PROVE Exclusive'
  <2>1. PICK u \in Levels : u = level[c]
    BY <1>a, Zenon
  <2>2. PICK l \in Locks : l = lk[c][u]
    BY <2>1 DEF TypeOK
  <2>3. /\ pc'[c][u] = "run" /\ pc[c][u] = "cpu"
        /\ \A d \in CPUs, v \in Levels : d # c \/ v # u => pc'[d][v] = pc[d][v]
    BY <1>8, <2>1, AtLevel DEF acquired, At
  <2>4. /\ holds'[c][u] = holds[c][u] \cup {l}
        /\ \A d \in CPUs, v \in Levels : d # c \/ v # u => holds'[d][v] = holds[d][v]
    <3>1. holds' = [holds EXCEPT ![c][u] = holds[c][u] \cup {l}]
      BY <1>8, <2>1, <2>2, Zenon DEF acquired, TypeOK, Lk
    <3> QED  BY <2>1, <3>1, Nested DEF TypeOK
  <2>5. \A d \in CPUs, v \in Levels : d # c \/ v # u => lk'[d][v] = lk[d][v]
    BY <1>8, <2>1, Nested DEF acquired, TypeOK
  <2>6. locked' = locked /\ lkcpu' = [lkcpu EXCEPT ![l] = c]
    BY <1>8, <2>1, <2>2, Zenon DEF acquired, Lk
  <2>7. \A d \in CPUs, v \in Levels : OwnsAt(d, v)' = OwnsAt(d, v)
    BY <2>2, <2>3, <2>4, <2>5 DEF OwnsAt
  <2>8. ASSUME NEW d \in CPUs, NEW v \in Levels, pc'[d][v] \in {"cpu", "unlock"}
        PROVE  lk'[d][v] \notin holds'[d][v]
    BY <2>3, <2>4, <2>5, <2>8 DEF Exclusive
  <2>9. ASSUME NEW d \in CPUs, NEW m \in Locks
        PROVE  lkcpu'[m] = d <=> \E v \in Levels : m \in holds'[d][v]
    <3>1. CASE m # l
      <4>1. lkcpu'[m] = lkcpu[m]
        BY <2>6, <3>1, Zenon DEF TypeOK
      <4>2. \A v \in Levels : m \in holds'[d][v] <=> m \in holds[d][v]
        BY <2>4, <3>1
      <4> QED  BY <4>1, <4>2, Zenon DEF Exclusive
    <3>2. CASE m = l
      <4>1. lkcpu'[m] = c
        BY <2>6, <3>2, Zenon DEF TypeOK
      <4>2. l \in OwnsAt(c, u)
        BY <2>2, <2>3, Zenon DEF OwnsAt
      <4>3. \A v \in Levels : d # c => l \notin holds[d][v]
        BY <4>2, Zenon DEF Exclusive, OwnsAt
      <4> QED  BY <2>4, <3>2, <4>1, <4>3, Zenon
    <3> QED  BY <3>1, <3>2, Zenon
  <2> QED  BY <2>6, <2>7, <2>8, <2>9 DEF Exclusive
<1>9. ASSUME NEW c \in CPUs, unlock(c) PROVE Exclusive'
  <2>1. PICK u \in Levels : u = level[c]
    BY <1>a, Zenon
  <2>2. PICK l \in Locks : l = lk[c][u]
    BY <2>1 DEF TypeOK
  <2>3. /\ pc'[c][u] = "pop_off" /\ pc[c][u] = "unlock"
        /\ \A d \in CPUs, v \in Levels : d # c \/ v # u => pc'[d][v] = pc[d][v]
    BY <1>9, <2>1, AtLevel DEF unlock, At
  <2>4. \A d \in CPUs, v \in Levels : d # c \/ v # u => lk'[d][v] = lk[d][v]
    BY <1>9, <2>1, Nested DEF unlock, TypeOK
  <2>5. locked' = [locked EXCEPT ![l] = FALSE] /\ UNCHANGED <<lkcpu, holds>>
    BY <1>9, <2>1, <2>2, Zenon DEF unlock, Lk
  <2>6. l \in OwnsAt(c, u) /\ l \notin holds[c][u]
    BY <2>2, <2>3, Zenon DEF OwnsAt, Exclusive
  <2>7. /\ OwnsAt(c, u)' = OwnsAt(c, u) \ {l}
        /\ \A d \in CPUs, v \in Levels : d # c \/ v # u => OwnsAt(d, v)' = OwnsAt(d, v)
    BY <2>2, <2>3, <2>4, <2>5, <2>6 DEF OwnsAt
  <2>8. \A d \in CPUs, v \in Levels : l \notin OwnsAt(d, v)'
    BY <2>6, <2>7 DEF Exclusive
  <2>9. \A d \in CPUs, v \in Levels : \A m \in OwnsAt(d, v)' : locked'[m]
    <3>1. \A m \in Locks : locked[m] /\ m # l => locked'[m]
      BY <2>5, Zenon DEF TypeOK
    <3>2. \A d \in CPUs, v \in Levels : OwnsAt(d, v) \subseteq Locks
      BY DEF OwnsAt, TypeOK
    <3> QED  BY <2>7, <2>8, <3>1, <3>2 DEF Exclusive
  <2>10. \A d, e \in CPUs, v, w \in Levels : d # e \/ v # w => OwnsAt(d, v)' \cap OwnsAt(e, w)' = {}
    BY <2>7 DEF Exclusive
  <2>11. ASSUME NEW d \in CPUs, NEW v \in Levels, pc'[d][v] \in {"cpu", "unlock"}
         PROVE  lk'[d][v] \notin holds'[d][v]
    BY <2>3, <2>4, <2>5, <2>11 DEF Exclusive
  <2> QED  BY <2>5, <2>9, <2>10, <2>11, Zenon DEF Exclusive
<1>11. ASSUME NEW c \in CPUs, interrupt(c) \/ interrupt_return(c) PROVE Exclusive'
  BY <1>11, ExclusiveSame, Zenon DEF interrupt, interrupt_return
<1>13. CASE UNCHANGED vars
  BY <1>13, ExclusiveSame, Zenon DEF vars, tvars
<1> QED
  BY <1>1, <1>2, <1>3, <1>7, <1>8, <1>9, <1>11, <1>13, Zenon DEF Next

(* acquire() starts above the locks that its level holds, and only         *)
(* release() and acquired() change those.                                  *)
LEMMA OrderedStep ==
    ASSUME TypeOK, Ordered, [Next]_vars
    PROVE  Ordered'
<1>a. \A c \in CPUs : level[c] \in Levels
  BY Zenon DEF TypeOK
<1>1. ASSUME NEW c \in CPUs, NEW l \in Locks, acquire(c, l) PROVE Ordered'
  <2>1. PICK u \in Levels : u = level[c]
    BY <1>a, Zenon
  <2>2. /\ lk'[c][u] = l /\ (\A m \in holds[c][u] : m < l) /\ holds' = holds
        /\ \A d \in CPUs, v \in Levels : d # c \/ v # u => lk'[d][v] = lk[d][v]
    BY <1>1, <2>1, Nested DEF acquire, TypeOK
  <2>3. \A d \in CPUs, v \in Levels : d # c \/ v # u => pc'[d][v] = pc[d][v]
    BY <1>1, <2>1, AtLevel DEF acquire
  <2> QED  BY <2>2, <2>3 DEF Ordered
<1>2. ASSUME NEW c \in CPUs, NEW l \in Locks, release(c, l) PROVE Ordered'
  <2>1. PICK u \in Levels : u = level[c]
    BY <1>a, Zenon
  <2>2. /\ pc'[c][u] = "unlock"
        /\ \A d \in CPUs, v \in Levels : d # c \/ v # u => pc'[d][v] = pc[d][v]
    BY <1>2, <2>1, AtLevel DEF release
  <2>3. \A d \in CPUs, v \in Levels : d # c \/ v # u => lk'[d][v] = lk[d][v]
    BY <1>2, <2>1, Nested DEF release, TypeOK
  <2>4. \A d \in CPUs, v \in Levels : d # c \/ v # u => holds'[d][v] = holds[d][v]
    BY <1>2, <2>1, Nested DEF release, TypeOK
  <2> QED  BY <2>2, <2>3, <2>4 DEF Ordered
<1>3. ASSUME NEW c \in CPUs,
             \/ push_off_get(c) \/ intr_off(c) \/ push_off_count(c)
             \/ acquire_check(c) \/ test_and_set(c) \/ pop_off(c)
      PROVE  Ordered'
  <2>1. /\ \E l \in {"intr_off", "count", "check", "swap", "cpu", "run"} :
              /\ Goto(c, l)
              /\ l # "run" => pc[c][level[c]] \in {"push_off", "intr_off", "count", "check", "swap"}
        /\ UNCHANGED <<holds, lk>>
    BY <1>3, Zenon DEF push_off_get, intr_off, push_off_count, acquire_check, test_and_set,
       pop_off, At
  <2>2. ASSUME NEW d \in CPUs, NEW v \in Levels,
               pc'[d][v] \in {"push_off", "intr_off", "count", "check", "swap", "cpu"}
        PROVE  pc[d][v] \in {"push_off", "intr_off", "count", "check", "swap", "cpu"}
    BY <1>a, <2>1, <2>2, AtLevel
  <2> QED  BY <2>1, <2>2, Zenon DEF Ordered
<1>8. ASSUME NEW c \in CPUs, acquired(c) PROVE Ordered'
  <2>1. PICK u \in Levels : u = level[c]
    BY <1>a, Zenon
  <2>2. /\ pc'[c][u] = "run"
        /\ \A d \in CPUs, v \in Levels : d # c \/ v # u => pc'[d][v] = pc[d][v]
    BY <1>8, <2>1, AtLevel DEF acquired
  <2>3. \A d \in CPUs, v \in Levels : d # c \/ v # u => lk'[d][v] = lk[d][v]
    BY <1>8, <2>1, Nested DEF acquired, TypeOK
  <2>4. \A d \in CPUs, v \in Levels : d # c \/ v # u => holds'[d][v] = holds[d][v]
    BY <1>8, <2>1, Nested DEF acquired, TypeOK
  <2> QED  BY <2>2, <2>3, <2>4 DEF Ordered
<1>9. ASSUME NEW c \in CPUs, unlock(c) PROVE Ordered'
  <2>1. PICK u \in Levels : u = level[c]
    BY <1>a, Zenon
  <2>2. /\ pc'[c][u] = "pop_off" /\ holds' = holds
        /\ \A d \in CPUs, v \in Levels : d # c \/ v # u => pc'[d][v] = pc[d][v]
    BY <1>9, <2>1, AtLevel DEF unlock
  <2>3. \A d \in CPUs, v \in Levels : d # c \/ v # u => lk'[d][v] = lk[d][v]
    BY <1>9, <2>1, Nested DEF unlock, TypeOK
  <2> QED  BY <2>2, <2>3 DEF Ordered
<1>11. ASSUME NEW c \in CPUs, interrupt(c) \/ interrupt_return(c) PROVE Ordered'
  BY <1>11, Zenon DEF interrupt, interrupt_return, Ordered
<1>13. CASE UNCHANGED vars
  BY <1>13, Zenon DEF vars, tvars, Ordered
<1> QED
  BY <1>1, <1>2, <1>3, <1>8, <1>9, <1>11, <1>13, Zenon DEF Next

LEMMA HeldFacts ==
    ASSUME TypeOK, NEW c \in CPUs, NEW v \in Levels
    PROVE  /\ Cardinality(holds[c][v]) \in Nat
           /\ holds[c][v] = {} <=> Cardinality(holds[c][v]) = 0
           /\ \A l \in Locks \ holds[c][v] :
                 Cardinality(holds[c][v] \cup {l}) = Cardinality(holds[c][v]) + 1
           /\ \A l \in holds[c][v] : Cardinality(holds[c][v] \ {l}) = Cardinality(holds[c][v]) - 1
<1>1. holds[c][v] \in SUBSET Locks
  BY DEF TypeOK
<1> QED
  BY <1>1, CardFacts, Zenon

(* Depth of a CPU that runs at level v, in two parts: its other level w,   *)
(* and the counts of its own.                                              *)
Below(c, v, w) ==
    /\ level[c] = v
    /\ holds[c][w] = {} /\ pc[c][w] \in {"run", "push_off", "intr_off"}
    /\ v = 0 => pc[c][w] = "run"
    /\ pc[c][w] = "intr_off" => (old[c][w] <=> w = 0)

Own(c, v) ==
    /\ v = 1 => ~intr[c]
    /\ intr[c] => holds[c][v] = {} /\ pc[c][v] \in {"run", "push_off", "intr_off"}
    /\ v = 0 /\ ~intr[c] => holds[c][v] # {} \/ pc[c][v] \in Counted \cup {"count"}
    /\ noff[c] = IF pc[c][v] \in Counted THEN Cardinality(holds[c][v]) + 1 ELSE Cardinality(holds[c][v])
    /\ noff[c] > 0 => (intena[c] <=> v = 0)
    /\ pc[c][v] \in {"intr_off", "count"} /\ holds[c][v] = {} => (old[c][v] <=> v = 0)

LEMMA ViewOfDepth ==
    ASSUME NEW c \in CPUs, NEW v \in Levels, NEW w \in Levels, v # w, level[c] = v, DepthAt(c)
    PROVE  Below(c, v, w) /\ Own(c, v)
<1>1. CASE v = 0 /\ w = 1
  BY <1>1, Zenon DEF DepthAt, Below, Own, Levels
<1>2. CASE v = 1 /\ w = 0
  BY <1>2, Zenon DEF DepthAt, Below, Own, Levels
<1> QED  BY <1>1, <1>2, Zenon DEF Levels

LEMMA DepthOfView ==
    ASSUME NEW c \in CPUs, NEW v \in Levels, NEW w \in Levels, v # w, Below(c, v, w)', Own(c, v)'
    PROVE  DepthAt(c)'
<1>1. CASE v = 0 /\ w = 1
  BY <1>1, Zenon DEF DepthAt, Below, Own, Levels
<1>2. CASE v = 1 /\ w = 0
  BY <1>2, Zenon DEF DepthAt, Below, Own, Levels
<1> QED  BY <1>1, <1>2, Zenon DEF Levels

(* The steps of a CPU c, and what they leave alone.                        *)
StepOf(c) ==
    \/ \E l \in Locks : acquire(c, l) \/ release(c, l)
    \/ push_off_get(c) \/ intr_off(c) \/ push_off_count(c)
    \/ acquire_check(c) \/ test_and_set(c) \/ acquired(c)
    \/ unlock(c) \/ pop_off(c)

LEMMA OtherCPUs ==
    ASSUME TypeOK, NEW c \in CPUs, StepOf(c) \/ interrupt(c) \/ interrupt_return(c),
           NEW d \in CPUs, d # c, DepthAt(d)
    PROVE  DepthAt(d)'
<1> DEFINE Same == /\ level'[d] = level[d] /\ noff'[d] = noff[d] /\ intena'[d] = intena[d]
                   /\ intr'[d] = intr[d] /\ pc'[d] = pc[d] /\ old'[d] = old[d]
                   /\ holds'[d] = holds[d]
<1> USE DEF TypeOK, Goto, cvars
<1>1. ASSUME NEW l \in Locks, acquire(c, l) \/ release(c, l) PROVE Same
  BY <1>1, Zenon DEF acquire, release
<1>2. ASSUME push_off_get(c) \/ intr_off(c) PROVE Same
  BY <1>2, Zenon DEF push_off_get, intr_off
<1>3. ASSUME push_off_count(c) PROVE Same
  BY <1>3, Zenon DEF push_off_count
<1>4. ASSUME acquire_check(c) \/ test_and_set(c) PROVE Same
  BY <1>4, Zenon DEF acquire_check, test_and_set
<1>5. ASSUME acquired(c) \/ unlock(c) PROVE Same
  BY <1>5, Zenon DEF acquired, unlock
<1>6. ASSUME pop_off(c) PROVE Same
  BY <1>6 DEF pop_off
<1>7. ASSUME interrupt(c) \/ interrupt_return(c) PROVE Same
  BY <1>7, Zenon DEF interrupt, interrupt_return
<1> HIDE DEF TypeOK, Same
<1>8. Same
  BY <1>1, <1>2, <1>3, <1>4, <1>5, <1>6, <1>7, Zenon DEF StepOf
<1> QED  BY <1>8, Zenon DEF Same, DepthAt

(* A handler starts only when interrupts are on, which is when the code    *)
(* below it owns nothing and has counted nothing; so noff, intena and old  *)
(* concern one level at a time.                                            *)
LEMMA ViewStep ==
    ASSUME TypeOK, Exclusive, NEW c \in CPUs, NEW v \in Levels, NEW w \in Levels, v # w,
           Below(c, v, w), Own(c, v), StepOf(c)
    PROVE  Below(c, v, w)' /\ Own(c, v)'
<1> DEFINE n == Cardinality(holds[c][v])
<1>a. n \in Nat /\ (holds[c][v] = {} <=> n = 0)
  BY HeldFacts, Zenon
<1>b. /\ level[c] = v /\ level[c] \in Levels /\ noff[c] \in Nat /\ intr[c] \in BOOLEAN
      /\ intena[c] \in BOOLEAN /\ old[c][v] \in BOOLEAN /\ old[c][w] \in BOOLEAN
  BY DEF TypeOK, Below
<1>c. ASSUME NEW l, Goto(c, l) PROVE pc'[c][v] = l /\ pc'[c][w] = pc[c][w]
  BY <1>b, <1>c, AtLevel
<1>d. ASSUME level'[c] = level[c], pc'[c][w] = pc[c][w], holds'[c][w] = holds[c][w],
             old'[c][w] = old[c][w]
      PROVE  Below(c, v, w)'
  BY <1>d, Zenon DEF Below
<1>1. ASSUME NEW l \in Locks, acquire(c, l) PROVE Below(c, v, w)' /\ Own(c, v)'
  <2>1. pc[c][v] = "run" /\ Goto(c, "push_off") /\ UNCHANGED <<cvars, level, old, holds>>
    BY <1>b, <1>1, Zenon DEF acquire, At
  <2>2. pc'[c][v] = "push_off" /\ pc'[c][w] = pc[c][w]
    BY <1>c, <2>1, Zenon
  <2>o. Own(c, v)'
    BY <2>1, <2>2, Zenon DEF Own, Counted, cvars
  <2> QED  BY <1>d, <2>o, <2>1, <2>2, Zenon DEF cvars
<1>2. ASSUME NEW l \in Locks, release(c, l) PROVE Below(c, v, w)' /\ Own(c, v)'
  <2>1. /\ pc[c][v] = "run" /\ Goto(c, "unlock") /\ UNCHANGED <<cvars, level, old>>
        /\ l \in holds[c][v] /\ holds' = [holds EXCEPT ![c][v] = holds[c][v] \ {l}]
    BY <1>b, <1>2, Zenon DEF release, At, TypeOK
  <2>2. pc'[c][v] = "unlock" /\ pc'[c][w] = pc[c][w]
    BY <1>c, <2>1, Zenon
  <2>3. holds'[c][v] = holds[c][v] \ {l} /\ holds'[c][w] = holds[c][w]
    BY <2>1, Nested, Zenon DEF TypeOK
  <2>4. Cardinality(holds'[c][v]) = n - 1
    BY <2>1, <2>3, HeldFacts
  <2>5. noff[c] = n /\ holds[c][v] # {} /\ ~intr[c]
    BY <2>1, Zenon DEF Own, Counted
  <2>6. noff'[c] = Cardinality(holds'[c][v]) + 1
    <3> HIDE DEF n
    <3> QED  BY <1>a, <2>1, <2>4, <2>5 DEF cvars
  <2>7. /\ level'[c] = level[c] /\ noff'[c] = noff[c] /\ intr'[c] = intr[c]
        /\ intena'[c] = intena[c] /\ old' = old
    BY <2>1, Zenon DEF cvars
  <2>o. Own(c, v)'
    BY <2>2, <2>3, <2>5, <2>6, <2>7, Zenon DEF Own, Counted
  <2> QED  BY <1>d, <2>o, <2>2, <2>3, <2>5, <2>6, <2>7, Zenon
<1>3. ASSUME push_off_get(c) PROVE Below(c, v, w)' /\ Own(c, v)'
  <2>1. /\ pc[c][v] = "push_off" /\ Goto(c, "intr_off") /\ UNCHANGED <<cvars, level, holds>>
        /\ old' = [old EXCEPT ![c][v] = intr[c]]
    BY <1>b, <1>3, Zenon DEF push_off_get, At
  <2>2. pc'[c][v] = "intr_off" /\ pc'[c][w] = pc[c][w]
    BY <1>c, <2>1, Zenon
  <2>3. old'[c][v] = intr[c] /\ old'[c][w] = old[c][w]
    BY <2>1, Nested DEF TypeOK
  <2>4. holds[c][v] = {} => (intr[c] <=> v = 0)
    BY <1>b, <2>1, Zenon DEF Own, Counted, Levels
  <2>o. Own(c, v)'
    BY <1>b, <2>1, <2>2, <2>3, <2>4, Zenon DEF Own, Counted, cvars
  <2> QED  BY <1>d, <2>o, <1>b, <2>1, <2>2, <2>3, <2>4, Zenon DEF cvars
<1>4. ASSUME intr_off(c) PROVE Below(c, v, w)' /\ Own(c, v)'
  <2>1. /\ pc[c][v] = "intr_off" /\ Goto(c, "count") /\ UNCHANGED <<noff, intena, level, old, holds>>
        /\ ~intr'[c]
    BY <1>b, <1>4, Zenon DEF intr_off, At, TypeOK
  <2>2. pc'[c][v] = "count" /\ pc'[c][w] = pc[c][w]
    BY <1>c, <2>1, Zenon
  <2>o. Own(c, v)'
    BY <2>1, <2>2, Zenon DEF Own, Counted
  <2> QED  BY <1>d, <2>o, <2>1, <2>2, Zenon
<1>5. ASSUME push_off_count(c) PROVE Below(c, v, w)' /\ Own(c, v)'
  <2>1. /\ pc[c][v] = "count" /\ Goto(c, "check") /\ UNCHANGED <<intr, level, holds>>
        /\ noff'[c] = noff[c] + 1
        /\ intena'[c] = IF noff[c] = 0 THEN old[c][v] ELSE intena[c]
        /\ old' = [old EXCEPT ![c][v] = FALSE]
    BY <1>b, <1>5, Zenon DEF push_off_count, At, TypeOK
  <2>2. pc'[c][v] = "check" /\ pc'[c][w] = pc[c][w]
    BY <1>c, <2>1, Zenon
  <2>3. old'[c][w] = old[c][w]
    BY <2>1, Nested, ZenonT(30) DEF TypeOK
  <2>4. noff[c] = n /\ ~intr[c]
    BY <2>1, Zenon DEF Own, Counted
  <2>5. intena'[c] <=> v = 0
    <3>1. CASE noff[c] = 0
      <4>1. old[c][v] <=> v = 0
        BY <1>a, <2>1, <2>4, <3>1, Zenon DEF Own
      <4> QED  BY <2>1, <3>1, <4>1, Zenon
    <3>2. CASE noff[c] # 0
      <4>1. intena[c] <=> v = 0
        BY <1>b, <3>2 DEF Own
      <4> QED  BY <2>1, <3>2, <4>1, Zenon
    <3> QED  BY <3>1, <3>2, Zenon
  <2>6. /\ level'[c] = level[c] /\ holds'[c] = holds[c] /\ ~intr'[c]
        /\ noff'[c] = Cardinality(holds'[c][v]) + 1
    BY <2>1, <2>4, Zenon
  <2>o. Own(c, v)'
    BY <2>2, <2>3, <2>5, <2>6, Zenon DEF Own, Counted
  <2> QED  BY <1>d, <2>o, <2>2, <2>3, <2>5, <2>6, Zenon
<1>6. ASSUME acquire_check(c) \/ test_and_set(c) PROVE Below(c, v, w)' /\ Own(c, v)'
  <2>1. /\ pc[c][v] \in {"check", "swap"} /\ (Goto(c, "swap") \/ Goto(c, "cpu"))
        /\ UNCHANGED <<cvars, level, old, holds>>
    BY <1>b, <1>6, Zenon DEF acquire_check, test_and_set, At
  <2>2. pc'[c][v] \in {"swap", "cpu"} /\ pc'[c][w] = pc[c][w]
    BY <1>c, <2>1, Zenon
  <2>o. Own(c, v)'
    BY <2>1, <2>2, Zenon DEF Own, Counted, cvars
  <2> QED  BY <1>d, <2>o, <2>1, <2>2, Zenon DEF cvars
<1>8. ASSUME acquired(c) PROVE Below(c, v, w)' /\ Own(c, v)'
  <2>1. /\ pc[c][v] = "cpu" /\ Goto(c, "run") /\ UNCHANGED <<cvars, level, old>>
        /\ holds' = [holds EXCEPT ![c][v] = holds[c][v] \cup {lk[c][v]}]
    BY <1>b, <1>8, Zenon DEF acquired, At, Lk, TypeOK
  <2>2. pc'[c][v] = "run" /\ pc'[c][w] = pc[c][w]
    BY <1>c, <2>1, Zenon
  <2>3. holds'[c][v] = holds[c][v] \cup {lk[c][v]} /\ holds'[c][w] = holds[c][w]
    BY <2>1, Nested DEF TypeOK
  <2>4. lk[c][v] \in Locks \ holds[c][v]
    BY <2>1, SMTT(30) DEF TypeOK, Exclusive
  <2>5. Cardinality(holds'[c][v]) = n + 1
    BY <2>3, <2>4, HeldFacts
  <2>6. noff[c] = n + 1 /\ ~intr[c]
    BY <2>1, Zenon DEF Own, Counted
  <2>7. /\ level'[c] = level[c] /\ noff'[c] = noff[c] /\ intr'[c] = intr[c]
        /\ intena'[c] = intena[c] /\ old' = old
    BY <2>1, Zenon DEF cvars
  <2>o. Own(c, v)'
    BY <2>2, <2>3, <2>5, <2>6, <2>7, Zenon DEF Own, Counted
  <2> QED  BY <1>d, <2>o, <2>2, <2>3, <2>5, <2>6, <2>7, Zenon
<1>9. ASSUME unlock(c) PROVE Below(c, v, w)' /\ Own(c, v)'
  <2>1. pc[c][v] = "unlock" /\ Goto(c, "pop_off") /\ UNCHANGED <<cvars, level, old, holds>>
    BY <1>b, <1>9, Zenon DEF unlock, At
  <2>2. pc'[c][v] = "pop_off" /\ pc'[c][w] = pc[c][w]
    BY <1>c, <2>1, Zenon
  <2>o. Own(c, v)'
    BY <2>1, <2>2, Zenon DEF Own, Counted, cvars
  <2> QED  BY <1>d, <2>o, <2>1, <2>2, Zenon DEF cvars
<1>10. ASSUME pop_off(c) PROVE Below(c, v, w)' /\ Own(c, v)'
  <2>1. pc[c][v] = "pop_off" /\ Goto(c, "run") /\ UNCHANGED <<level, old, holds>>
    BY <1>b, <1>10, Zenon DEF pop_off, At
  <2>2. pc'[c][v] = "run" /\ pc'[c][w] = pc[c][w]
    BY <1>c, <2>1, Zenon
  <2>3. noff[c] = n + 1 /\ ~intr[c]
    BY <2>1, Zenon DEF Own, Counted
  <2>4. (intena[c] <=> v = 0) /\ ~(noff[c] < 1)
    <3>1. noff[c] > 0
      <4> HIDE DEF n
      <4> QED  BY <1>a, <2>3
    <3>2. noff[c] > 0 => (intena[c] <=> v = 0)
      BY Zenon DEF Own
    <3> QED  BY <1>b, <3>1, <3>2
  <2>5. /\ noff'[c] = noff[c] - 1 /\ (intr'[c] <=> noff[c] = 1 /\ intena[c])
        /\ intena'[c] = IF noff'[c] = 0 THEN FALSE ELSE intena[c]
    <3>1. /\ noff' = [noff EXCEPT ![c] = @ - 1] /\ intr' = [intr EXCEPT ![c] = Reenable(c)]
          /\ intena' = [intena EXCEPT ![c] = IF noff'[c] = 0 THEN FALSE ELSE @]
      BY <1>10, <2>3, <2>4, Zenon DEF pop_off
    <3> QED  BY <3>1, Zenon DEF TypeOK, Reenable
  <2>6. noff'[c] = n /\ (noff[c] = 1 <=> holds[c][v] = {})
    <3> HIDE DEF n
    <3> QED  BY <1>a, <2>3, <2>5
  <2>7. intr'[c] <=> holds[c][v] = {} /\ v = 0
    BY <2>4, <2>5, <2>6, Zenon
  <2>8. noff'[c] > 0 => (intena'[c] <=> v = 0)
    <3>1. noff'[c] > 0 => noff'[c] # 0
      BY <1>a, <2>6
    <3> QED  BY <2>4, <2>5, <3>1, Zenon
  <2>9. /\ level'[c] = level[c] /\ holds'[c] = holds[c] /\ old' = old
        /\ noff'[c] = Cardinality(holds'[c][v])
    BY <2>1, <2>6, Zenon
  <2>10. v = 0 => v # 1
    OBVIOUS
  <2>o. Own(c, v)'
    BY <2>2, <2>7, <2>8, <2>9, <2>10, Zenon DEF Own, Counted
  <2> QED  BY <1>d, <2>o, <2>2, <2>9, Zenon
<1> QED
  BY <1>1, <1>2, <1>3, <1>4, <1>5, <1>6, <1>8, <1>9, <1>10, Zenon DEF StepOf

LEMMA DepthStep ==
    ASSUME TypeOK, Exclusive, Depth, [Next]_vars
    PROVE  Depth'
<1>1. ASSUME NEW c \in CPUs, StepOf(c) PROVE DepthAt(c)'
  <2>1. PICK v \in Levels : v = level[c]
    BY Zenon DEF TypeOK
  <2>2. PICK w \in Levels : w # v
    BY DEF Levels
  <2>3. Below(c, v, w) /\ Own(c, v)
    BY <2>1, <2>2, ViewOfDepth, Zenon DEF Depth
  <2> QED  BY <1>1, <2>2, <2>3, ViewStep, DepthOfView, Zenon
<1>2. ASSUME NEW c \in CPUs, interrupt(c) PROVE DepthAt(c)'
  <2>1. Below(c, 0, 1) /\ Own(c, 0) /\ intr[c]
    BY <1>2, ViewOfDepth DEF interrupt, Depth, Levels
  <2>2. /\ level'[c] = 1 /\ ~intr'[c] /\ UNCHANGED <<noff, intena, pc, old, holds>>
    BY <1>2, Zenon DEF interrupt, TypeOK
  <2>3. Cardinality(holds[c][0]) = 0 /\ Cardinality(holds[c][1]) = 0
    BY <2>1, FS_EmptySet, Zenon DEF Below, Own
  <2>4. noff[c] = 0 /\ pc[c][1] = "run"
    BY <2>1, <2>3, Zenon DEF Own, Below, Counted
  <2>5. Below(c, 1, 0)'
    BY <2>1, <2>2, Zenon DEF Below, Own
  <2>6. Own(c, 1)'
    <3>1. 1 # 0 /\ ~(0 > 0)
      OBVIOUS
    <3> QED  BY <2>1, <2>2, <2>3, <2>4, <3>1, Zenon DEF Own, Below, Counted
  <2> QED  BY <2>5, <2>6, DepthOfView DEF Levels
<1>3. ASSUME NEW c \in CPUs, interrupt_return(c) PROVE DepthAt(c)'
  <2>1. Below(c, 1, 0) /\ Own(c, 1) /\ pc[c][1] = "run" /\ holds[c][1] = {}
    BY <1>3, ViewOfDepth DEF interrupt_return, Depth, Levels, At
  <2>2. /\ level'[c] = 0 /\ intr'[c] /\ UNCHANGED <<noff, intena, pc, old, holds>>
    BY <1>3, Zenon DEF interrupt_return, TypeOK
  <2>3. Cardinality(holds[c][0]) = 0 /\ Cardinality(holds[c][1]) = 0
    BY <2>1, FS_EmptySet, Zenon DEF Below, Own
  <2>4. noff[c] = 0
    BY <2>1, <2>3, Zenon DEF Own, Below, Counted
  <2>5. Below(c, 0, 1)'
    BY <2>1, <2>2, Zenon DEF Below, Own
  <2>6. Own(c, 0)'
    <3>1. /\ holds[c][0] = {} /\ pc[c][0] \in {"run", "push_off", "intr_off"}
          /\ pc[c][0] = "intr_off" => old[c][0]
      BY <2>1, Zenon DEF Below
    <3>2. pc[c][0] \notin Counted /\ pc[c][0] # "count"
      BY <3>1, Zenon DEF Counted
    <3>3. 0 # 1 /\ ~(0 > 0)
      OBVIOUS
    <3> QED  BY <2>2, <2>3, <2>4, <3>1, <3>2, <3>3, Zenon DEF Own
  <2> QED  BY <2>5, <2>6, DepthOfView DEF Levels
<1>4. ASSUME NEW c \in CPUs, StepOf(c) \/ interrupt(c) \/ interrupt_return(c) PROVE Depth'
  BY <1>1, <1>2, <1>3, <1>4, OtherCPUs, Zenon DEF Depth
<1>5. CASE UNCHANGED vars
  <2>1. ASSUME NEW c \in CPUs PROVE DepthAt(c)'
    <3>1. DepthAt(c)
      BY Zenon DEF Depth
    <3> QED  BY <1>5, <3>1, Zenon DEF vars, tvars, cvars, DepthAt
  <2> QED  BY <2>1, Zenon DEF Depth
<1> QED  BY <1>4, <1>5, Zenon DEF Next, StepOf

(* acquire() and release() ask holding() of locks the CPU does not own and *)
(* owns; pop_off() comes with interrupts off and noff at least 1.          *)
LEMMA PanicStep ==
    ASSUME IInv, [Next]_vars
    PROVE  ~panic'
<1> USE DEF IInv, At, Goto, Lk, cvars
<1>1. ASSUME NEW c \in CPUs, NEW l \in Locks, acquire(c, l) PROVE ~panic'
  BY <1>1, Zenon DEF acquire
<1>2. ASSUME NEW c \in CPUs, NEW l \in Locks, release(c, l) PROVE ~panic'
  <2>1. level[c] \in Levels /\ l \in holds[c][level[c]]
    BY <1>2, Zenon DEF release, TypeOK
  <2>2. locked[l] /\ lkcpu[l] = c
    BY <2>1 DEF Exclusive, OwnsAt
  <2> QED
    BY <1>2, <2>2, Zenon DEF release, Holding
<1>3. ASSUME NEW c \in CPUs, push_off_get(c) PROVE ~panic'
  BY <1>3, Zenon DEF push_off_get
<1>4. ASSUME NEW c \in CPUs, intr_off(c) PROVE ~panic'
  BY <1>4, Zenon DEF intr_off
<1>5. ASSUME NEW c \in CPUs, push_off_count(c) PROVE ~panic'
  BY <1>5, Zenon DEF push_off_count
<1>6. ASSUME NEW c \in CPUs, acquire_check(c) PROVE ~panic'
  <2>1. PICK v \in Levels : v = level[c]
    BY Zenon DEF TypeOK
  <2>2. PICK w \in Levels : w # v
    BY DEF Levels
  <2>3. pc[c][v] = "check" /\ lk[c][v] \in Locks
    BY <1>6, <2>1 DEF acquire_check, TypeOK
  <2>4. \A m \in holds[c][v] : m < lk[c][v]
    BY <2>3, Zenon DEF Ordered
  <2>5. lk[c][v] \notin holds[c][v]
    BY <2>3, <2>4 DEF Locks
  <2>6. holds[c][w] = {}
    BY <2>1, <2>2, Zenon DEF Depth, DepthAt, Levels
  <2>7. lkcpu[lk[c][v]] # c
    BY <2>2, <2>3, <2>5, <2>6 DEF Exclusive, Levels
  <2> QED
    BY <1>6, <2>1, <2>7, ZenonT(30) DEF acquire_check, Holding
<1>7. ASSUME NEW c \in CPUs, test_and_set(c) PROVE ~panic'
  BY <1>7, Zenon DEF test_and_set
<1>8. ASSUME NEW c \in CPUs, acquired(c) PROVE ~panic'
  BY <1>8, Zenon DEF acquired
<1>9. ASSUME NEW c \in CPUs, unlock(c) PROVE ~panic'
  BY <1>9, Zenon DEF unlock
<1>10. ASSUME NEW c \in CPUs, pop_off(c) PROVE ~panic'
  <2>1. PICK v \in Levels : v = level[c]
    BY Zenon DEF TypeOK
  <2>2. pc[c][v] = "pop_off"
    BY <1>10, <2>1, Zenon DEF pop_off
  <2>3. noff[c] = Cardinality(holds[c][v]) + 1 /\ Cardinality(holds[c][v]) \in Nat
    BY <2>1, <2>2, HeldFacts, Zenon DEF Depth, DepthAt, Counted
  <2>4. ~intr[c]
    BY <2>1, <2>2, Zenon DEF Depth, DepthAt, Levels
  <2>5. ~(intr[c] \/ noff[c] < 1)
    BY <2>3, <2>4
  <2> QED
    BY <1>10, <2>5, Zenon DEF pop_off
<1>11. ASSUME NEW c \in CPUs, interrupt(c) PROVE ~panic'
  BY <1>11, Zenon DEF interrupt
<1>12. ASSUME NEW c \in CPUs, interrupt_return(c) PROVE ~panic'
  BY <1>12, Zenon DEF interrupt_return
<1>13. CASE UNCHANGED vars
  BY <1>13, Zenon DEF vars
<1> QED
  BY <1>1, <1>2, <1>3, <1>4, <1>5, <1>6, <1>7, <1>8, <1>9, <1>10, <1>11, <1>12, <1>13, Zenon
     DEF Next

LEMMA Start == Init => IInv
<1> SUFFICES ASSUME Init PROVE IInv
  BY Zenon
<1>1. TypeOK
  <2>1. 1 \in Locks
    BY LocksAssumption DEF Locks
  <2>2. lk \in [CPUs -> [Levels -> Locks]]
    BY <2>1, Zenon DEF Init
  <2> QED
    BY <2>2, Zenon DEF Init, TypeOK, Levels
<1>2. Exclusive
  BY NamesAssumption DEF Init, Exclusive, OwnsAt, Levels
<1>3. Ordered
  BY Zenon DEF Init, Ordered, Levels
<1>4. Depth
  <2>1. Cardinality({}) = 0
    BY FS_EmptySet, Zenon
  <2> QED
    BY <2>1 DEF Init, Depth, DepthAt, Levels, Counted
<1> QED
  BY <1>1, <1>2, <1>3, <1>4, Zenon DEF Init, IInv

LEMMA Invariance == Spec => []IInv
<1>1. IInv /\ [Next]_vars => IInv'
  BY TypeStep, ExclusiveStep, OrderedStep, DepthStep, PanicStep, Zenon DEF IInv
<1> QED
  BY Start, <1>1, PTL DEF Spec

-----------------------------------------------------------------------------
(* acquire() and release() give mutual exclusion, across CPUs and between  *)
(* a CPU's kernel code and its interrupt handler.                          *)
THEOREM Exclusion == Spec => []MutualExclusion
<1>1. IInv => MutualExclusion
  <2> SUFFICES ASSUME IInv PROVE MutualExclusion
    BY Zenon
  <2> USE DEF IInv
  <2>1. \A c \in CPUs : Owns(c) = OwnsAt(c, 0) \cup OwnsAt(c, 1)
    BY Zenon DEF Owns, OwnsAt, Levels
  <2>2. \A c, d \in CPUs : c # d => Owns(c) \cap Owns(d) = {}
    BY <2>1 DEF Exclusive, Levels
  <2>3. \A c \in CPUs : holds[c][0] \cap holds[c][1] = {}
    BY DEF Exclusive, OwnsAt, Levels
  <2>4. \A c \in CPUs, l \in Locks : Holding(c, l) <=> l \in holds[c][0] \cup holds[c][1]
    BY DEF Exclusive, OwnsAt, Levels, Holding
  <2> QED
    BY <2>2, <2>3, <2>4, Zenon DEF MutualExclusion
<1> QED
  BY Invariance, <1>1, PTL

(* push_off() and pop_off() bring back the interrupt state they found,     *)
(* though a handler shares noff and intena with the code it interrupts.    *)
THEOREM Restoring == Spec => []InterruptsRestored
<1>1. IInv => InterruptsRestored
  BY Zenon DEF IInv, InterruptsRestored, Depth, DepthAt, At, Counted
<1> QED
  BY Invariance, <1>1, PTL

(* A CPU that spins owns only locks before the one it waits for, at both   *)
(* levels: CPUs never wait for each other in a circle.                     *)
THEOREM NoCircle == Spec => []WaitsInOrder
<1>1. IInv => WaitsInOrder
  <2> SUFFICES ASSUME IInv, NEW c \in CPUs, NEW v \in Levels, pc[c][v] = "swap",
                      NEW m \in Owns(c)
               PROVE  m < lk[c][v]
    BY Zenon DEF WaitsInOrder
  <2>1. PICK w \in Levels : w # v
    BY DEF Levels
  <2>2. DepthAt(c) /\ level[c] \in Levels
    BY Zenon DEF IInv, TypeOK, Depth
  <2>3. holds[c][w] = {} /\ pc[c][w] \notin {"cpu", "unlock"}
    BY <2>1, <2>2 DEF DepthAt, Levels
  <2>4. m \in holds[c][v]
    BY <2>1, <2>3 DEF Owns, Levels
  <2> QED
    BY <2>4, Zenon DEF IInv, Ordered
<1> QED
  BY Invariance, <1>1, PTL

(* The panics of acquire(), release() and pop_off() are never reached.     *)
THEOREM Panicless == Spec => []NoPanic
<1>1. IInv => NoPanic
  BY Zenon DEF IInv, NoPanic
<1> QED
  BY Invariance, <1>1, PTL

(* Interrupts are off wherever a lock is owned or waited for, and noff is  *)
(* the number of locks that push_off() has counted.                        *)
THEOREM Off == Spec => []OffWhileHeld
<1>1. IInv => OffWhileHeld
  <2> SUFFICES ASSUME IInv, NEW c \in CPUs
               PROVE  /\ Owns(c) # {} \/ (\E v \in Levels : pc[c][v] \in {"check", "swap"}) => ~intr[c]
                      /\ noff[c] = Cardinality(holds[c][0]) + Cardinality(holds[c][1])
                           + Cardinality({v \in Levels : pc[c][v] \in Counted})
    BY Zenon DEF OffWhileHeld, Counted
  <2>1. PICK v \in Levels : v = level[c]
    BY Zenon DEF IInv, TypeOK
  <2>2. PICK w \in Levels : w # v
    BY DEF Levels
  <2>3. DepthAt(c)
    BY Zenon DEF IInv, Depth
  <2>4. holds[c][w] = {} /\ pc[c][w] \in {"run", "push_off", "intr_off"}
    BY <2>1, <2>2, <2>3, Zenon DEF DepthAt, Levels
  <2>5. Owns(c) # {} \/ (\E u \in Levels : pc[c][u] \in {"check", "swap"}) => ~intr[c]
    BY <2>1, <2>2, <2>3, <2>4, Zenon DEF DepthAt, Levels, Owns
  <2>6. Cardinality({u \in Levels : pc[c][u] \in Counted}) = IF pc[c][v] \in Counted THEN 1 ELSE 0
    <3>1. CASE pc[c][v] \in Counted
      <4>1. {u \in Levels : pc[c][u] \in Counted} = {v}
        BY <2>2, <2>4, <3>1 DEF Levels, Counted
      <4> QED
        BY <3>1, <4>1, FS_Singleton, Zenon
    <3>2. CASE pc[c][v] \notin Counted
      <4>1. {u \in Levels : pc[c][u] \in Counted} = {}
        BY <2>2, <2>4, <3>2, Zenon DEF Levels, Counted
      <4> QED
        BY <3>2, <4>1, FS_EmptySet, Zenon
    <3> QED
      BY <3>1, <3>2, Zenon
  <2>7. Cardinality(holds[c][w]) = 0 /\ Cardinality(holds[c][v]) \in Nat
    BY <2>4, HeldFacts, ZenonT(30) DEF IInv
  <2>8. noff[c] = IF pc[c][v] \in Counted THEN Cardinality(holds[c][v]) + 1 ELSE Cardinality(holds[c][v])
    BY <2>1, <2>3, Zenon DEF DepthAt
  <2>9. Cardinality(holds[c][0]) + Cardinality(holds[c][1]) = Cardinality(holds[c][v])
    BY <2>2, <2>7 DEF Levels
  <2>10. noff[c] = Cardinality(holds[c][0]) + Cardinality(holds[c][1])
                     + Cardinality({u \in Levels : pc[c][u] \in Counted})
    <3>1. CASE pc[c][v] \in Counted
      BY <2>6, <2>8, <2>9, <3>1, Zenon
    <3>2. CASE pc[c][v] \notin Counted
      BY <2>6, <2>7, <2>8, <2>9, <3>2
    <3> QED
      BY <3>1, <3>2, Zenon
  <2> QED
    BY <2>5, <2>10, Zenon
<1> QED
  BY Invariance, <1>1, PTL
=============================================================================
