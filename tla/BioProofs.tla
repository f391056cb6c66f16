----------------------------- MODULE BioProofs ------------------------------
(***************************************************************************)
(* Proofs about the buffer cache, for any number of buffers, blocks and    *)
(* processes.                                                              *)
(***************************************************************************)
EXTENDS Bio, FiniteSetTheorems, WellFoundedInduction, TLAPS

(* A set of positions in the list has a last one.                          *)
LEMMA Last ==
    ASSUME NEW n \in Nat, NEW S \in SUBSET (1 .. n), S # {}
    PROVE  \E i \in S : \A j \in S : j <= i
<1> DEFINE T == {n - i : i \in S}
<1>1. T \subseteq Nat /\ T # {}
  <2>1. \A i \in S : n - i \in Nat
    OBVIOUS
  <2>2. PICK i \in S : TRUE
    BY Zenon
  <2>3. n - i \in T
    BY Zenon
  <2> QED  BY <2>1, <2>3, Zenon
<1> DEFINE R == {ss \in Nat \X Nat : ss[1] < ss[2]}
<1>2. PICK x \in T : \A y \in T : <<y, x>> \notin R
  <2>1. IsWellFoundedOn(R, Nat)
    BY NatLessThanWellFounded, Zenon DEF OpToRel
  <2> HIDE DEF T, R
  <2> QED  BY <1>1, <2>1, WFMin, Zenon
<1>3. \A y \in T : x <= y
  <2>1. ASSUME NEW y \in T PROVE ~(y < x)
    <3>1. x \in Nat /\ y \in Nat
      BY <1>1, Zenon
    <3>2. <<y, x>> \notin R
      BY <1>2, Zenon
    <3> HIDE DEF T
    <3> QED  BY <3>1, <3>2, Zenon
  <2> HIDE DEF T
  <2> QED  BY <1>1, <2>1
<1>4. PICK i \in S : x = n - i
  BY <1>2, Zenon
<1>5. \A j \in S : n - i <= n - j
  BY <1>3, <1>4, Zenon
<1> QED  BY <1>5

LEMMA BufCount == Cardinality(Bufs) \in Nat /\ Cardinality(Procs) \in Nat
  BY CountsAssumption, FS_CardinalityType, Zenon

(* The buffer bget() recycles has no reference.                            *)
LEMMA VictimUnused ==
    ASSUME TypeOK, Listed, Unused # {}
    PROVE  Victim \in Bufs /\ refcnt[Victim] = 0
<1> DEFINE unused == {i \in DOMAIN lru : refcnt[lru[i]] = 0}
<1>1. unused \subseteq 1 .. Cardinality(Bufs) /\ unused # {}
  BY Zenon DEF Unused, Listed, TypeOK
<1>2. \E i \in unused : \A j \in unused : j <= i
  <2> HIDE DEF unused
  <2> QED  BY <1>1, BufCount, Last, Zenon
<1> DEFINE i == CHOOSE i \in unused : \A j \in unused : j <= i
<1>3. i \in unused
  <2> HIDE DEF unused
  <2> QED  BY <1>2, Zenon
<1>4. Victim = lru[i]
  BY Zenon DEF Victim
<1> HIDE DEF i
<1> QED  BY <1>3, <1>4, Zenon DEF TypeOK

(* Moving a buffer to the front loses none.                                *)
LEMMA FrontListed ==
    ASSUME TypeOK, Listed, NEW b \in Bufs
    PROVE  /\ ToFront(b) \in [1 .. Cardinality(Bufs) -> Bufs]
           /\ \A c \in Bufs : \E i \in DOMAIN ToFront(b) : ToFront(b)[i] = c
<1> DEFINE N == Cardinality(Bufs)
           at == CHOOSE i \in DOMAIN lru : lru[i] = b
           front == [i \in DOMAIN lru |->
                       IF i = 1 THEN b ELSE IF i <= at THEN lru[i - 1] ELSE lru[i]]
<1>1. at \in DOMAIN lru /\ lru[at] = b
  BY Zenon DEF Listed
<1>2. ToFront(b) = front
  BY Zenon DEF ToFront
<1>3. N \in Nat /\ DOMAIN lru = 1 .. N /\ lru \in [1 .. N -> Bufs]
  BY BufCount, Zenon DEF TypeOK
<1> HIDE DEF at, N
<1>4. front \in [1 .. N -> Bufs]
  BY <1>1, <1>3
<1>5. ASSUME NEW c \in Bufs PROVE \E i \in DOMAIN front : front[i] = c
  <2>1. PICK i \in 1 .. N : lru[i] = c
    BY <1>3, Zenon DEF Listed
  <2>2. CASE c = b
    BY <1>1, <1>3, <2>2
  <2>3. CASE c # b /\ i < at
    <3>1. i + 1 \in 1 .. N /\ i + 1 # 1 /\ i + 1 <= at /\ (i + 1) - 1 = i
      BY <1>1, <1>3, <2>3
    <3> QED  BY <1>3, <2>1, <3>1, Zenon
  <2>4. CASE c # b /\ i > at
    <3>1. i # 1 /\ ~(i <= at)
      BY <1>1, <1>3, <2>4
    <3> QED  BY <1>3, <2>1, <3>1, Zenon
  <2> QED  BY <1>1, <1>3, <2>1, <2>2, <2>3, <2>4
<1> QED  BY <1>2, <1>4, <1>5, Zenon DEF N

(* How many processes have a buffer.                                       *)
Count(f, b) == Cardinality({q \in Procs : f[q] = b})

LEMMA CountType ==
    ASSUME NEW f, NEW b
    PROVE  IsFiniteSet({q \in Procs : f[q] = b}) /\ Count(f, b) \in Nat
<1>1. IsFiniteSet({q \in Procs : f[q] = b})
  BY CountsAssumption, FS_Subset, Zenon
<1> QED  BY <1>1, FS_CardinalityType, Zenon DEF Count

LEMMA CountAdd ==
    ASSUME NEW f \in [Procs -> Bufs \cup {None}], NEW p \in Procs, NEW b \in Bufs,
           f[p] = None, NEW c \in Bufs
    PROVE  Count([f EXCEPT ![p] = b], c) = Count(f, c) + (IF c = b THEN 1 ELSE 0)
<1> DEFINE g == [f EXCEPT ![p] = b]
           S == {q \in Procs : f[q] = c}
<1>1. CASE c = b
  <2>1. {q \in Procs : g[q] = c} = S \cup {p} /\ p \notin S
    BY <1>1, NamesAssumption, Zenon
  <2>2. IsFiniteSet(S)
    BY CountType, Zenon
  <2> HIDE DEF S, g
  <2>3. Cardinality(S \cup {p}) = Cardinality(S) + 1
    BY <2>1, <2>2, FS_AddElement, Zenon
  <2> QED  BY <1>1, <2>1, <2>3, Zenon DEF Count, S, g
<1>2. CASE c # b
  <2>1. {q \in Procs : g[q] = c} = S
    BY <1>2, NamesAssumption, Zenon
  <2>2. Count(f, c) \in Nat
    BY CountType, Zenon
  <2> QED  BY <1>2, <2>1, <2>2 DEF Count
<1> QED  BY <1>1, <1>2, Zenon

LEMMA CountDrop ==
    ASSUME NEW f \in [Procs -> Bufs \cup {None}], NEW p \in Procs, NEW b \in Bufs,
           f[p] = b, NEW c \in Bufs
    PROVE  Count([f EXCEPT ![p] = None], c) = Count(f, c) - (IF c = b THEN 1 ELSE 0)
<1> DEFINE g == [f EXCEPT ![p] = None]
           S == {q \in Procs : f[q] = c}
<1>1. CASE c = b
  <2>1. {q \in Procs : g[q] = c} = S \ {p} /\ p \in S
    BY <1>1, NamesAssumption, Zenon
  <2>2. IsFiniteSet(S)
    BY CountType, Zenon
  <2> HIDE DEF S, g
  <2>3. Cardinality(S \ {p}) = Cardinality(S) - 1
    BY <2>1, <2>2, FS_RemoveElement, Zenon
  <2> QED  BY <1>1, <2>1, <2>3, Zenon DEF Count, S, g
<1>2. CASE c # b
  <2>1. {q \in Procs : g[q] = c} = S
    BY <1>2, NamesAssumption, Zenon
  <2>2. Count(f, c) \in Nat
    BY CountType, Zenon
  <2> QED  BY <1>2, <2>1, <2>2 DEF Count
<1> QED  BY <1>1, <1>2, Zenon

(* A buffer without references has no process and no pinned block.         *)
LEMMA Unreferenced ==
    ASSUME TypeOK, RefcntExact, NEW b \in Bufs, refcnt[b] = 0
    PROVE  /\ \A q \in Procs : buf[q] # b
           /\ Count(buf, b) = 0
           /\ blockno[b] \in Blocks => pins[blockno[b]] = 0
<1> DEFINE S == {q \in Procs : buf[q] = b}
           n == IF blockno[b] \in Blocks THEN pins[blockno[b]] ELSE 0
<1>1. n \in Nat
  BY CountsAssumption DEF TypeOK
<1>5. Cardinality(S) \in Nat /\ IsFiniteSet(S)
  BY CountType, Zenon DEF Count
<1>2. 0 = Cardinality(S) + n
  BY Zenon DEF RefcntExact
<1>3. Cardinality(S) = 0 /\ n = 0
  <2> HIDE DEF S, n
  <2> QED  BY <1>1, <1>2, <1>5
<1>4. S = {}
  <2> HIDE DEF S
  <2> QED  BY <1>3, <1>5, FS_EmptySet, Zenon
<1> QED  BY <1>3, <1>4, Zenon DEF Count

(* RefcntExact, with its parts named.                                      *)
Pinned(k) == IF k \in Blocks THEN pins[k] ELSE 0

LEMMA RefcntCount ==
    RefcntExact <=> \A b \in Bufs : refcnt[b] = Count(buf, b) + Pinned(blockno[b])
  BY Zenon DEF RefcntExact, Count, Pinned

LEMMA RefcntCountNext ==
    RefcntExact' <=> \A b \in Bufs : refcnt'[b] = Count(buf', b) + Pinned(blockno[b])'
  BY Zenon DEF RefcntExact, Count, Pinned

LEMMA PinnedType ==
    ASSUME TypeOK, NEW k PROVE Pinned(k) \in Nat
  BY CountsAssumption DEF TypeOK, Pinned

-----------------------------------------------------------------------------
(* The steps preserve the invariant, one after the other.                  *)

LEMMA InvInit == Init => Inv
<1> SUFFICES ASSUME Init PROVE Inv
  BY Zenon
<1>1. TypeOK
  <2>1. pins \in [Blocks -> 0 .. MaxPins]
    BY CountsAssumption DEF Init
  <2>2. lru \in [1 .. Cardinality(Bufs) -> Bufs] /\ refcnt \in [Bufs -> Nat]
    BY Zenon DEF Init
  <2> QED  BY <2>1, <2>2, Zenon DEF Init, TypeOK
<1>2. RefcntExact
  <2>1. ASSUME NEW b \in Bufs PROVE Count(buf, b) = 0
    <3>1. {q \in Procs : buf[q] = b} = {}
      BY NamesAssumption, Zenon DEF Init
    <3> QED  BY <3>1, FS_EmptySet, Zenon DEF Count
  <2>2. \A b \in Bufs : Pinned(blockno[b]) = 0 /\ refcnt[b] = 0
    BY NamesAssumption, Zenon DEF Init, Pinned
  <2> QED  BY <2>1, <2>2, RefcntCount
<1>3. NoPanic /\ Listed /\ OneBuffer
  BY Zenon DEF Init, NoPanic, Listed, OneBuffer
<1>4. Users /\ Contents
  BY DEF Init, Users, Contents
<1> QED  BY <1>1, <1>2, <1>3, <1>4, Zenon DEF Inv

LEMMA InvHit ==
    ASSUME Inv, ~panic, NEW p \in Procs, NEW k \in Blocks, NEW b \in Bufs, bget_hit(p, k, b)
    PROVE  Inv'
<1> USE DEF Goto
<1>1. TypeOK /\ RefcntExact /\ Users
  BY Zenon DEF Inv
<1>2. buf[p] = None /\ blockno[b] = k /\ pc[p] = "idle"
  BY <1>1, Zenon DEF bget_hit, Users
<1>3. TypeOK'
  BY <1>1, <1>2 DEF TypeOK, bget_hit
<1>4. RefcntExact'
  <2>1. ASSUME NEW c \in Bufs PROVE refcnt'[c] = Count(buf', c) + Pinned(blockno[c])'
    <3>1. Count(buf', c) = Count(buf, c) + (IF c = b THEN 1 ELSE 0)
      <4>1. buf' = [buf EXCEPT ![p] = b]
        BY Zenon DEF bget_hit
      <4>2. buf \in [Procs -> Bufs \cup {None}] /\ buf[p] = None
        BY <1>1, <1>2, Zenon DEF TypeOK
      <4>3. Count([buf EXCEPT ![p] = b], c) = Count(buf, c) + (IF c = b THEN 1 ELSE 0)
        BY <4>2, CountAdd, ZenonT(40)
      <4> QED  BY <4>1, <4>3, Zenon
    <3>2. Pinned(blockno[c])' = Pinned(blockno[c])
      BY Zenon DEF Pinned, bget_hit
    <3>3. refcnt'[c] = refcnt[c] + (IF c = b THEN 1 ELSE 0)
      BY <1>1 DEF TypeOK, bget_hit
    <3>4. refcnt[c] = Count(buf, c) + Pinned(blockno[c])
      BY <1>1, RefcntCount, Zenon
    <3>5. Count(buf, c) \in Nat /\ Pinned(blockno[c]) \in Nat
      BY <1>1, CountType, PinnedType, Zenon
    <3> QED  BY <3>1, <3>2, <3>3, <3>4, <3>5
  <2> QED  BY <2>1, RefcntCountNext, Zenon
<1>5. NoPanic' /\ Listed' /\ OneBuffer'
  BY Zenon DEF Inv, NoPanic, Listed, OneBuffer, bget_hit
<1>6. Users'
  BY <1>1, <1>2, NamesAssumption DEF Users, bget_hit, TypeOK
<1>7. Contents'
  BY <1>1, <1>2 DEF Inv, Contents, bget_hit, TypeOK
<1> QED  BY <1>3, <1>4, <1>5, <1>6, <1>7, Zenon DEF Inv

LEMMA InvRecycle ==
    ASSUME Inv, ~panic, NEW p \in Procs, NEW k \in Blocks, bget_recycle(p, k)
    PROVE  Inv'
<1> USE DEF Goto
<1>1. TypeOK /\ RefcntExact /\ Listed /\ OneBuffer /\ Users /\ Contents
  BY Zenon DEF Inv
<1>2. PICK v \in Bufs : v = Victim /\ refcnt[v] = 0
  BY <1>1, VictimUnused, Zenon DEF bget_recycle
<1>3. buf[p] = None /\ pc[p] = "idle" /\ \A b \in Bufs : blockno[b] # k
  BY <1>1, Zenon DEF bget_recycle, Users
<1>4. /\ blockno' = [blockno EXCEPT ![v] = k]
      /\ valid' = [valid EXCEPT ![v] = FALSE]
      /\ refcnt' = [refcnt EXCEPT ![v] = 1]
      /\ buf' = [buf EXCEPT ![p] = v]
      /\ pc' = [pc EXCEPT ![p] = "acquiresleep"]
      /\ UNCHANGED <<disk, lru, bdata, locked, pins, panic>>
  BY <1>2, Zenon DEF bget_recycle
<1>5. /\ \A q \in Procs : buf[q] # v
      /\ Count(buf, v) = 0
      /\ blockno[v] \in Blocks => pins[blockno[v]] = 0
  BY <1>1, <1>2, Unreferenced, Zenon
<1>6. pins[k] = 0
  <2>1. pins[k] \in Nat
    BY <1>1, CountsAssumption DEF TypeOK
  <2>2. ~(pins[k] > 0)
    BY <1>1, <1>3, Zenon DEF Contents
  <2> QED  BY <2>1, <2>2
<1>7. TypeOK'
  BY <1>1, <1>4, Zenon DEF TypeOK
<1>8. RefcntExact'
  <2>1. ASSUME NEW c \in Bufs PROVE refcnt'[c] = Count(buf', c) + Pinned(blockno[c])'
    <3>1. Count(buf', c) = Count(buf, c) + (IF c = v THEN 1 ELSE 0)
      <4>1. buf \in [Procs -> Bufs \cup {None}] /\ buf[p] = None
        BY <1>1, <1>3, Zenon DEF TypeOK
      <4>2. Count([buf EXCEPT ![p] = v], c) = Count(buf, c) + (IF c = v THEN 1 ELSE 0)
        BY <4>1, CountAdd, ZenonT(40)
      <4> QED  BY <1>4, <4>2, Zenon
    <3>2. Pinned(blockno[c])' = IF c = v THEN 0 ELSE Pinned(blockno[c])
      BY <1>1, <1>4, <1>6, Zenon DEF Pinned, TypeOK
    <3>3. refcnt'[c] = IF c = v THEN 1 ELSE refcnt[c]
      BY <1>1, <1>4, Zenon DEF TypeOK
    <3>4. refcnt[c] = Count(buf, c) + Pinned(blockno[c])
      BY <1>1, RefcntCount, Zenon
    <3>5. Count(buf, c) \in Nat /\ Pinned(blockno[c]) \in Nat
      BY <1>1, CountType, PinnedType, Zenon
    <3> QED  BY <1>5, <3>1, <3>2, <3>3, <3>4, <3>5
  <2> QED  BY <2>1, RefcntCountNext, Zenon
<1>9. NoPanic' /\ Listed'
  BY <1>1, <1>4, Zenon DEF NoPanic, Listed
<1>10. OneBuffer'
  BY <1>1, <1>3, <1>4, Zenon DEF OneBuffer, TypeOK
<1>11. Users'
  BY <1>1, <1>3, <1>4, <1>5, NamesAssumption DEF Users, TypeOK
<1>12. Contents'
  <2>1. \A b \in Bufs : valid'[b] => blockno'[b] \in Blocks /\ bdata'[b] \in Data
    BY <1>1, <1>4, Zenon DEF Contents, TypeOK
  <2>2. \A q \in Procs : /\ (pc'[q] = "held") => valid'[buf'[q]]
                         /\ (pc'[q] = "read") => ~valid'[buf'[q]]
    BY <1>1, <1>4, <1>5 DEF Contents, Users, TypeOK
  <2>3. ASSUME NEW j \in Blocks, pins[j] > 0
        PROVE  \E b \in Bufs : blockno'[b] = j /\ valid'[b]
    <3>1. PICK b \in Bufs : blockno[b] = j /\ valid[b]
      BY <1>1, <2>3, Zenon DEF Contents
    <3>2. b # v
      BY <1>5, <2>3, <3>1
    <3> QED  BY <1>1, <1>4, <3>1, <3>2, Zenon DEF TypeOK
  <2> QED  BY <1>4, <2>1, <2>2, <2>3, Zenon DEF Contents
<1> QED  BY <1>7, <1>8, <1>9, <1>10, <1>11, <1>12, Zenon DEF Inv

(* bget() finds no buffer only if there are too few: every buffer has a    *)
(* process other than the caller, or a pinned block of its own.            *)
LEMMA InvPanic ==
    ASSUME Inv, ~panic, NEW p \in Procs, NEW k \in Blocks, bget_panic(p, k)
    PROVE  Inv'
<1> DEFINE Pins == {j \in Blocks : pins[j] > 0}
           A == {b \in Bufs : \E q \in Procs \ {p} : buf[q] = b}
           B == {b \in Bufs : blockno[b] \in Pins}
<1>1. TypeOK /\ RefcntExact /\ OneBuffer /\ Users /\ Contents
  BY Zenon DEF Inv
<1>2. pc[p] = "idle" /\ buf[p] = None /\ \A b \in Bufs : refcnt[b] # 0
  BY <1>1, Zenon DEF bget_panic, Users, Unused
<1>3. Bufs = A \cup B
  <2>1. ASSUME NEW b \in Bufs, b \notin A, b \notin B PROVE FALSE
    <3>1. {q \in Procs : buf[q] = b} = {}
      BY <1>2, <2>1, NamesAssumption, Zenon
    <3>2. Count(buf, b) = 0
      BY <3>1, FS_EmptySet, Zenon DEF Count
    <3>3. Pinned(blockno[b]) = 0
      BY <1>1, <2>1, CountsAssumption DEF Pinned, TypeOK
    <3>4. refcnt[b] = 0
      BY <1>1, <3>2, <3>3, RefcntCount
    <3> QED  BY <1>2, <3>4, Zenon
  <2> QED  BY <2>1, Zenon
<1>4. IsFiniteSet(Procs \ {p}) /\ Cardinality(Procs \ {p}) = Cardinality(Procs) - 1
  BY CountsAssumption, FS_RemoveElement, Zenon
<1>5. IsFiniteSet(A) /\ Cardinality(A) <= Cardinality(Procs) - 1
  <2> DEFINE f == [b \in A |-> CHOOSE q \in Procs \ {p} : buf[q] = b]
  <2>1. \A b \in A : f[b] \in Procs \ {p} /\ buf[f[b]] = b
    BY Zenon
  <2>2. f \in [A -> Procs \ {p}]
    BY <2>1, Zenon
  <2>3. \A b, c \in A : f[b] = f[c] => b = c
    BY <2>1, Zenon
  <2> HIDE DEF f, A
  <2>4. f \in Injection(A, Procs \ {p})
    BY <2>2, <2>3, Zenon DEF Injection, IsInjective
  <2> QED  BY <1>4, <2>4, FS_Injection
<1>6. IsFiniteSet(Pins)
  <2> DEFINE g == [j \in Pins |-> CHOOSE b \in Bufs : blockno[b] = j /\ valid[b]]
  <2>1. \A j \in Pins : g[j] \in Bufs /\ blockno[g[j]] = j
    BY <1>1, Zenon DEF Contents
  <2>2. g \in [Pins -> Bufs]
    BY <2>1, Zenon
  <2>3. \A i, j \in Pins : g[i] = g[j] => i = j
    BY <2>1
  <2> HIDE DEF g, Pins
  <2>4. g \in Injection(Pins, Bufs)
    BY <2>2, <2>3, Zenon DEF Injection, IsInjective
  <2> QED  BY <2>4, CountsAssumption, FS_Injection, Zenon
<1>7. IsFiniteSet(B) /\ Cardinality(B) <= Cardinality(Pins)
  <2> DEFINE h == [b \in B |-> blockno[b]]
  <2>1. h \in [B -> Pins]
    BY Zenon
  <2>2. \A b, c \in B : h[b] = h[c] => b = c
    BY <1>1, NamesAssumption, Zenon DEF OneBuffer
  <2> HIDE DEF h, B, Pins
  <2>3. h \in Injection(B, Pins)
    BY <2>1, <2>2, Zenon DEF Injection, IsInjective
  <2> QED  BY <1>6, <2>3, FS_Injection, Zenon
<1>8. Cardinality(Bufs) < Cardinality(Procs) + Cardinality(Pins)
  <2> HIDE DEF A, B, Pins
  <2>1. Cardinality(A \cup B) = Cardinality(A) + Cardinality(B) - Cardinality(A \cap B)
    BY <1>5, <1>7, FS_Union, Zenon
  <2>2. Cardinality(A \cap B) \in Nat
    BY <1>5, FS_Intersection, FS_CardinalityType, Zenon
  <2>3. /\ Cardinality(A) \in Nat /\ Cardinality(B) \in Nat
        /\ Cardinality(Pins) \in Nat /\ Cardinality(Procs) \in Nat
    BY <1>5, <1>6, <1>7, BufCount, FS_CardinalityType, Zenon
  <2> QED  BY <1>3, <1>5, <1>7, <2>1, <2>2, <2>3
<1>9. NoPanic'
  <2>1. UNCHANGED pins
    BY Zenon DEF bget_panic
  <2>2. ~(Cardinality(Procs) + Cardinality(Pins) <= Cardinality(Bufs))
    <3> HIDE DEF Pins
    <3>1. Cardinality(Pins) \in Nat
      BY <1>6, FS_CardinalityType, Zenon
    <3> QED  BY <1>8, <3>1, BufCount
  <2> QED  BY <2>1, <2>2, Zenon DEF NoPanic
<1>10. TypeOK'
  BY <1>1, Zenon DEF TypeOK, bget_panic, bvars
<1>11. RefcntExact' /\ Listed' /\ OneBuffer' /\ Users' /\ Contents'
  <2>1. UNCHANGED <<disk, lru, blockno, valid, refcnt, bdata, locked, pc, buf, pins>>
    BY Zenon DEF bget_panic, bvars
  <2>2. RefcntExact'
    BY <2>1, Zenon DEF Inv, RefcntExact, Pinned
  <2>3. Listed' /\ OneBuffer'
    BY <2>1, Zenon DEF Inv, Listed, OneBuffer
  <2>4. Users' /\ Contents'
    BY <2>1, Zenon DEF Inv, Users, Contents
  <2> QED  BY <2>2, <2>3, <2>4, Zenon
<1> QED  BY <1>9, <1>10, <1>11, Zenon DEF Inv

(* What a step that leaves references, list and block numbers alone keeps. *)
LEMMA InvSame ==
    ASSUME Inv, ~panic, UNCHANGED <<lru, blockno, refcnt, buf, pins, panic>>
    PROVE  RefcntExact' /\ NoPanic' /\ Listed' /\ OneBuffer'
  BY DEF Inv, RefcntExact, NoPanic, Listed, OneBuffer

LEMMA InvAcquire ==
    ASSUME Inv, ~panic, NEW p \in Procs, acquiresleep(p)
    PROVE  Inv'
<1> USE DEF Goto
<1>1. TypeOK /\ Users /\ Contents
  BY Zenon DEF Inv
<1>2. pc[p] = "acquiresleep" /\ buf[p] \in Bufs
  BY <1>1, Zenon DEF Users, acquiresleep
<1>3. RefcntExact' /\ NoPanic' /\ Listed' /\ OneBuffer'
  BY InvSame, Zenon DEF acquiresleep
<1>4. CASE locked[buf[p]] # None
  <2>1. pc' = [pc EXCEPT ![p] = "asleep"] /\ UNCHANGED <<disk, bvars, buf, pins, panic>>
    BY <1>4, Zenon DEF acquiresleep, bvars
  <2>2. TypeOK'
    BY <1>1, <2>1, Zenon DEF TypeOK, bvars
  <2>3. Users' /\ Contents'
    BY <1>1, <1>2, <2>1 DEF Users, Contents, TypeOK, bvars
  <2> QED  BY <1>3, <2>2, <2>3, Zenon DEF Inv
<1>5. CASE locked[buf[p]] = None
  <2>1. /\ locked' = [locked EXCEPT ![buf[p]] = p]
        /\ pc' = [pc EXCEPT ![p] = IF valid[buf[p]] THEN "held" ELSE "read"]
        /\ UNCHANGED <<disk, lru, blockno, valid, refcnt, bdata, buf, pins, panic>>
    BY <1>5, Zenon DEF acquiresleep
  <2>2. TypeOK'
    BY <1>1, <1>2, <2>1, Zenon DEF TypeOK
  <2>3. Users'
    BY <1>1, <1>2, <1>5, <2>1, NamesAssumption DEF Users, TypeOK
  <2>4. Contents'
    BY <1>1, <1>2, <2>1, Zenon DEF Contents, TypeOK
  <2> QED  BY <1>3, <2>2, <2>3, <2>4, Zenon DEF Inv
<1> QED  BY <1>4, <1>5, Zenon

LEMMA InvRead ==
    ASSUME Inv, ~panic, NEW p \in Procs, bread_done(p)
    PROVE  Inv'
<1> USE DEF Goto
<1>1. TypeOK /\ Users /\ Contents
  BY Zenon DEF Inv
<1>2. pc[p] = "read" /\ buf[p] \in Bufs /\ blockno[buf[p]] \in Blocks /\ locked[buf[p]] = p
  BY <1>1, Zenon DEF Users, bread_done
<1>3. RefcntExact' /\ NoPanic' /\ Listed' /\ OneBuffer'
  BY InvSame, Zenon DEF bread_done
<1>4. TypeOK'
  BY <1>1, <1>2, Zenon DEF TypeOK, bread_done
<1>5. Users'
  BY <1>1, <1>2 DEF Users, TypeOK, bread_done
<1>6. Contents'
  <2>1. disk[blockno[buf[p]]] \in Data
    BY <1>1, <1>2, Zenon DEF TypeOK
  <2>2. \A b \in Bufs : valid'[b] => blockno'[b] \in Blocks /\ bdata'[b] \in Data
    BY <1>1, <1>2, <2>1, Zenon DEF Contents, TypeOK, bread_done
  <2>3. ASSUME NEW q \in Procs
        PROVE  /\ (pc'[q] = "held") => valid'[buf'[q]]
               /\ (pc'[q] = "read") => ~valid'[buf'[q]]
    <3>1. CASE q = p
      BY <1>1, <1>2, <3>1, Zenon DEF TypeOK, bread_done
    <3>2. CASE q # p
      <4>1. pc'[q] = pc[q] /\ buf'[q] = buf[q]
        BY <1>1, <3>2, Zenon DEF TypeOK, bread_done
      <4>2. pc[q] \in {"held", "read"} => buf[q] \in Bufs /\ buf[q] # buf[p]
        BY <1>1, <1>2, <3>2 DEF Users
      <4>3. pc[q] \in {"held", "read"} => valid'[buf[q]] = valid[buf[q]]
        BY <1>1, <4>2, Zenon DEF TypeOK, bread_done
      <4> QED  BY <1>1, <4>1, <4>3, Zenon DEF Contents
    <3> QED  BY <3>1, <3>2, Zenon
  <2>4. \A k \in Blocks : pins'[k] > 0 => \E b \in Bufs : blockno'[b] = k /\ valid'[b]
    BY <1>1, <1>2, Zenon DEF Contents, TypeOK, bread_done
  <2> QED  BY <2>2, <2>3, <2>4, Zenon DEF Contents
<1> QED  BY <1>3, <1>4, <1>5, <1>6, Zenon DEF Inv

LEMMA InvModify ==
    ASSUME Inv, ~panic, NEW p \in Procs, NEW d \in Data, modify(p, d)
    PROVE  Inv'
<1>1. TypeOK /\ Users /\ Contents
  BY Zenon DEF Inv
<1>2. RefcntExact' /\ NoPanic' /\ Listed' /\ OneBuffer'
  BY InvSame, Zenon DEF modify
<1>3. TypeOK'
  BY <1>1, Zenon DEF TypeOK, modify
<1>4. Users' /\ Contents'
  BY <1>1 DEF Users, Contents, TypeOK, modify
<1> QED  BY <1>2, <1>3, <1>4, Zenon DEF Inv

LEMMA InvWrite ==
    ASSUME Inv, ~panic, NEW p \in Procs, bwrite(p)
    PROVE  Inv'
<1>1. TypeOK /\ Users /\ Contents
  BY Zenon DEF Inv
<1>2. RefcntExact' /\ NoPanic' /\ Listed' /\ OneBuffer'
  BY InvSame, Zenon DEF bwrite, bvars
<1>3. bdata[buf[p]] \in Data
  BY <1>1, Zenon DEF Users, Contents, bwrite
<1>4. TypeOK'
  BY <1>1, <1>3, Zenon DEF TypeOK, bwrite, bvars
<1>5. Users' /\ Contents'
  BY <1>1, Zenon DEF Users, Contents, bwrite, bvars
<1> QED  BY <1>2, <1>4, <1>5, Zenon DEF Inv

(* bpin() and bunpin() change the pins of a block and the references of    *)
(* its buffer alike.                                                       *)
LEMMA InvPins ==
    ASSUME Inv, ~panic, NEW p \in Procs, pc[p] = "held",
           NEW n \in {1, -1},
           pins[blockno[buf[p]]] + n \in 0 .. MaxPins,
           refcnt' = [refcnt EXCEPT ![buf[p]] = @ + n],
           pins' = [pins EXCEPT ![blockno[buf[p]]] = @ + n],
           UNCHANGED <<disk, lru, blockno, valid, bdata, locked, pc, buf, panic>>
    PROVE  Inv'
<1> DEFINE b == buf[p]
           k == blockno[b]
<1>1. TypeOK /\ RefcntExact /\ OneBuffer /\ Users /\ Contents /\ Listed /\ NoPanic
  BY Zenon DEF Inv
<1>2. b \in Bufs /\ k \in Blocks /\ valid[b] /\ refcnt[b] \in Nat /\ pins[k] \in Nat
  BY <1>1, CountsAssumption DEF Users, Contents, TypeOK
<1>3. \A c \in Bufs : blockno[c] = k => c = b
  BY <1>1, <1>2, NamesAssumption, Zenon DEF OneBuffer
<1>4. ASSUME NEW c \in Bufs PROVE refcnt'[c] = Count(buf', c) + Pinned(blockno[c])'
  <2>1. refcnt[c] = Count(buf, c) + Pinned(blockno[c])
    BY <1>1, RefcntCount, Zenon
  <2>2. Count(buf, c) \in Nat /\ Pinned(blockno[c]) \in Nat
    BY <1>1, CountType, PinnedType, Zenon
  <2>3. CASE c = b
    <3>1. refcnt'[c] = refcnt[c] + n
      BY <1>1, <1>2, <2>3, Zenon DEF TypeOK
    <3>2. Pinned(blockno[c])' = Pinned(blockno[c]) + n
      BY <1>1, <1>2, <2>3, Zenon DEF TypeOK, Pinned
    <3> HIDE DEF b
    <3> QED  BY <2>1, <2>2, <3>1, <3>2
  <2>4. CASE c # b
    <3>1. refcnt'[c] = refcnt[c]
      BY <1>1, <2>4, Zenon DEF TypeOK
    <3>2. blockno[c] # k
      BY <1>3, <2>4, Zenon
    <3>3. Pinned(blockno[c])' = Pinned(blockno[c])
      BY <1>1, <3>2, Zenon DEF TypeOK, Pinned
    <3> QED  BY <2>1, <3>1, <3>3, Zenon
  <2> QED  BY <2>3, <2>4, Zenon
<1>5. RefcntExact'
  BY <1>4, RefcntCountNext, Zenon
<1>6. TypeOK'
  <2>1. ASSUME NEW c \in Bufs PROVE refcnt'[c] \in Nat
    <3>1. Count(buf', c) \in Nat
      BY CountType, Zenon
    <3>2. Pinned(blockno[c])' \in Nat
      BY <1>1, <1>2, CountsAssumption DEF Pinned, TypeOK
    <3>3. refcnt'[c] = Count(buf', c) + Pinned(blockno[c])'
      BY <1>4, Zenon
    <3> QED  BY <3>1, <3>2, <3>3
  <2>2. refcnt' \in [Bufs -> Nat]
    <3>1. refcnt' = [c \in Bufs |-> refcnt'[c]]
      BY <1>1, Zenon DEF TypeOK
    <3> QED  BY <2>1, <3>1, Zenon
  <2>3. pins' \in [Blocks -> 0 .. MaxPins]
    BY <1>1, <1>2, Zenon DEF TypeOK
  <2> QED  BY <1>1, <2>2, <2>3, Zenon DEF TypeOK
<1>7. Listed' /\ OneBuffer' /\ Users'
  BY <1>1, Zenon DEF Listed, OneBuffer, Users
<1>8. Contents'
  <2>1. \A j \in Blocks : j # k => pins'[j] = pins[j]
    BY <1>1, <1>2, Zenon DEF TypeOK
  <2> QED  BY <1>1, <1>2, <2>1, Zenon DEF Contents
<1>9. NoPanic'
  BY Zenon DEF NoPanic
<1> QED  BY <1>5, <1>6, <1>7, <1>8, <1>9, Zenon DEF Inv

LEMMA InvPin ==
    ASSUME Inv, ~panic, NEW p \in Procs, bpin(p)
    PROVE  Inv'
<1>1. blockno[buf[p]] \in Blocks /\ pc[p] = "held"
  BY Zenon DEF Inv, Users, bpin
<1>2. pins[blockno[buf[p]]] \in 0 .. MaxPins
  BY <1>1, Zenon DEF Inv, TypeOK
<1>3. pins[blockno[buf[p]]] + 1 \in 0 .. MaxPins
  BY <1>2, CountsAssumption DEF bpin
<1> QED  BY <1>1, <1>3, InvPins, Zenon DEF bpin

LEMMA InvUnpin ==
    ASSUME Inv, ~panic, NEW p \in Procs, bunpin(p)
    PROVE  Inv'
<1> DEFINE k == blockno[buf[p]]
<1>1. k \in Blocks /\ pc[p] = "held" /\ buf[p] \in Bufs
  BY Zenon DEF Inv, Users, bunpin
<1>2. pins[k] \in 0 .. MaxPins /\ refcnt[buf[p]] \in Nat
  BY <1>1, Zenon DEF Inv, TypeOK
<1>3. pins[k] + (-1) \in 0 .. MaxPins /\ pins[k] - 1 = pins[k] + (-1)
      /\ refcnt[buf[p]] - 1 = refcnt[buf[p]] + (-1)
  BY <1>2, CountsAssumption DEF bunpin
<1>4. /\ refcnt' = [refcnt EXCEPT ![buf[p]] = @ + (-1)]
      /\ pins' = [pins EXCEPT ![k] = @ + (-1)]
  BY <1>3, Zenon DEF bunpin
<1> QED  BY <1>1, <1>3, <1>4, InvPins, Zenon DEF bunpin

LEMMA InvRelease ==
    ASSUME Inv, ~panic, NEW p \in Procs, releasesleep(p)
    PROVE  Inv'
<1> DEFINE b == buf[p]
<1>1. TypeOK /\ Users /\ Contents
  BY Zenon DEF Inv
<1>2. pc[p] = "held" /\ b \in Bufs /\ locked[b] = p
  BY <1>1, Zenon DEF Users, releasesleep
<1>3. /\ locked' = [locked EXCEPT ![b] = None]
      /\ UNCHANGED <<disk, lru, blockno, valid, refcnt, bdata, buf, pins, panic>>
  BY Zenon DEF releasesleep
<1>4. ASSUME NEW q \in Procs
      PROVE  /\ q = p => pc'[q] = "brelse"
             /\ q # p => pc'[q] = IF pc[q] = "asleep" /\ buf[q] = b THEN "acquiresleep" ELSE pc[q]
  BY <1>1, <1>2, Zenon DEF TypeOK, releasesleep, Woken, Goto
<1>5. RefcntExact' /\ NoPanic' /\ Listed' /\ OneBuffer'
  BY <1>3, InvSame, Zenon
<1>6. TypeOK'
  <2>1. pc' \in [Procs -> {"idle", "acquiresleep", "asleep", "read", "held", "brelse"}]
    <3>1. pc' = [q \in Procs |-> pc'[q]]
      BY Zenon DEF releasesleep, Woken
    <3> QED  BY <1>1, <1>4, <3>1, Zenon DEF TypeOK
  <2> QED  BY <1>1, <1>3, <2>1, Zenon DEF TypeOK
<1>7. Users'
  <2>1. \A q \in Procs : (pc'[q] = "idle") = (pc[q] = "idle")
    BY <1>2, <1>4, Zenon
  <2>2. \A q \in Procs : pc'[q] \in {"read", "held"} => pc[q] \in {"read", "held"} /\ q # p
    BY <1>2, <1>4, Zenon
  <2>3. ASSUME NEW q \in Procs, pc'[q] \in {"read", "held"} PROVE locked'[buf'[q]] = q
    <3>1. locked[buf[q]] = q /\ buf[q] \in Bufs /\ q # p
      BY <1>1, <2>2, <2>3, Zenon DEF Users
    <3>2. buf[q] # b
      BY <1>2, <3>1, Zenon
    <3> QED  BY <1>1, <1>3, <3>1, <3>2, Zenon DEF TypeOK
  <2>4. ASSUME NEW c \in Bufs, locked'[c] # None
        PROVE  buf'[locked'[c]] = c /\ pc'[locked'[c]] \in {"read", "held"}
    <3>1. c # b /\ locked'[c] = locked[c]
      BY <1>1, <1>2, <1>3, <2>4, Zenon DEF TypeOK
    <3>2. buf[locked[c]] = c /\ pc[locked[c]] \in {"read", "held"} /\ locked[c] \in Procs
      BY <1>1, <2>4, <3>1 DEF Users, TypeOK
    <3>3. locked[c] # p
      BY <3>1, <3>2, Zenon
    <3> QED  BY <1>3, <1>4, <3>1, <3>2, <3>3, Zenon
  <2>5. \A q \in Procs : IF pc'[q] = "idle" THEN buf'[q] = None
                         ELSE buf'[q] \in Bufs /\ blockno'[buf'[q]] \in Blocks
    BY <1>1, <1>3, <2>1, Zenon DEF Users
  <2> QED  BY <2>3, <2>4, <2>5, Zenon DEF Users
<1>8. Contents'
  <2>1. \A q \in Procs : /\ pc'[q] = "held" => pc[q] = "held"
                         /\ pc'[q] = "read" => pc[q] = "read"
    BY <1>4, Zenon
  <2> QED  BY <1>1, <1>3, <2>1, Zenon DEF Contents
<1> QED  BY <1>5, <1>6, <1>7, <1>8, Zenon DEF Inv

LEMMA InvBrelse ==
    ASSUME Inv, ~panic, NEW p \in Procs, brelse(p)
    PROVE  Inv'
<1> DEFINE b == buf[p]
<1>1. TypeOK /\ RefcntExact /\ NoPanic /\ Listed /\ OneBuffer /\ Users /\ Contents
  BY Zenon DEF Inv
<1>2. pc[p] = "brelse" /\ b \in Bufs /\ blockno[b] \in Blocks
  BY <1>1, Zenon DEF Users, brelse
<1>3. /\ refcnt' = [refcnt EXCEPT ![b] = @ - 1]
      /\ lru' = IF refcnt'[b] = 0 THEN ToFront(b) ELSE lru
      /\ buf' = [buf EXCEPT ![p] = None]
      /\ pc' = [pc EXCEPT ![p] = "idle"]
      /\ UNCHANGED <<disk, blockno, valid, bdata, locked, pins, panic>>
  BY Zenon DEF brelse, Dropped, Goto
<1>4. ASSUME NEW c \in Bufs PROVE refcnt'[c] = Count(buf', c) + Pinned(blockno[c])'
  <2>1. refcnt[c] = Count(buf, c) + Pinned(blockno[c])
    BY <1>1, RefcntCount, Zenon
  <2>2. Count(buf, c) \in Nat /\ Pinned(blockno[c]) \in Nat
    BY <1>1, CountType, PinnedType, Zenon
  <2>3. Pinned(blockno[c])' = Pinned(blockno[c])
    BY <1>3, Zenon DEF Pinned
  <2>4. Count(buf', c) = Count(buf, c) - (IF c = b THEN 1 ELSE 0)
    BY <1>1, <1>2, <1>3, CountDrop, ZenonT(40) DEF TypeOK
  <2>5. refcnt'[c] = refcnt[c] - (IF c = b THEN 1 ELSE 0)
    BY <1>1, <1>3 DEF TypeOK
  <2> HIDE DEF b
  <2> QED  BY <2>1, <2>2, <2>3, <2>4, <2>5
<1>5. RefcntExact'
  BY <1>4, RefcntCountNext, Zenon
<1>6. lru' \in [1 .. Cardinality(Bufs) -> Bufs] /\ Listed'
  BY <1>1, <1>2, <1>3, FrontListed, Zenon DEF Listed, TypeOK
<1>7. TypeOK'
  <2>1. ASSUME NEW c \in Bufs PROVE refcnt'[c] \in Nat
    <3>1. Count(buf', c) \in Nat
      BY CountType, Zenon
    <3>2. Pinned(blockno[c])' \in Nat
      BY <1>1, <1>3, CountsAssumption DEF Pinned, TypeOK
    <3> QED  BY <1>4, <3>1, <3>2
  <2>2. refcnt' \in [Bufs -> Nat]
    <3>1. refcnt' = [c \in Bufs |-> refcnt'[c]]
      BY <1>1, <1>3, Zenon DEF TypeOK
    <3> QED  BY <2>1, <3>1, Zenon
  <2> QED  BY <1>1, <1>3, <1>6, <2>2, Zenon DEF TypeOK
<1>8. Users'
  BY <1>1, <1>2, <1>3 DEF Users, TypeOK
<1>9. Contents'
  BY <1>1, <1>2, <1>3 DEF Contents, TypeOK
<1>10. NoPanic' /\ OneBuffer'
  BY <1>1, <1>3, Zenon DEF NoPanic, OneBuffer
<1> QED  BY <1>5, <1>6, <1>7, <1>8, <1>9, <1>10, Zenon DEF Inv

LEMMA InvNext == Inv /\ [Next]_vars => Inv'
<1> SUFFICES ASSUME Inv, [Next]_vars PROVE Inv'
  BY Zenon
<1>1. CASE UNCHANGED vars
  <2>1. UNCHANGED <<disk, lru, blockno, valid, refcnt, bdata, locked, pc, buf, pins, panic>>
    BY <1>1, Zenon DEF vars, bvars
  <2>2. TypeOK'
    BY <2>1, Zenon DEF Inv, TypeOK
  <2>3. RefcntExact' /\ NoPanic'
    BY <2>1, Zenon DEF Inv, RefcntExact, NoPanic, Pinned
  <2>4. Listed' /\ OneBuffer'
    BY <2>1, Zenon DEF Inv, Listed, OneBuffer
  <2>5. Users' /\ Contents'
    BY <2>1, Zenon DEF Inv, Users, Contents
  <2> QED  BY <2>2, <2>3, <2>4, <2>5, Zenon DEF Inv
<1>2. ASSUME ~panic, NEW p \in Procs, Step(p) PROVE Inv'
  <2>1. ASSUME NEW k \in Blocks, bget(p, k) PROVE Inv'
    BY <1>2, <2>1, InvHit, InvRecycle, InvPanic, Zenon DEF bget
  <2> QED  BY <1>2, <2>1, InvAcquire, InvRead, InvModify, InvWrite, InvPin, InvUnpin,
              InvRelease, InvBrelse, Zenon DEF Step
<1> QED  BY <1>1, <1>2, Zenon DEF Next

(* The invariant of the cache: the reference count of each buffer is       *)
(* exactly its users and its pins, through all the steps of bget() and     *)
(* brelse(), a block has one buffer, and bget() finds one to recycle.      *)
THEOREM Invariant == Spec => []Inv
<1>1. Init => Inv
  BY InvInit, Zenon
<1>2. Inv /\ [Next]_vars => Inv'
  BY InvNext, Zenon
<1> QED  BY <1>1, <1>2, PTL DEF Spec

-----------------------------------------------------------------------------
(* The refinement mapping: the copy of a block is that of its one valid    *)
(* buffer, and its holder the one process in that buffer's critical        *)
(* section.                                                                *)
Mapping ==
    /\ Copies = [k \in Blocks |-> Copies[k]] /\ Holders = [k \in Blocks |-> Holders[k]]
    /\ \A b \in Bufs : valid[b] => Copies[blockno[b]] = bdata[b]
    /\ \A k \in Blocks : (\E b \in Bufs : blockno[b] = k /\ valid[b]) \/ Copies[k] = None
    /\ \A p \in Procs : pc[p] = "held" => Holders[blockno[buf[p]]] = p
    /\ \A k \in Blocks :
          (\E p \in Procs : pc[p] = "held" /\ blockno[buf[p]] = k) \/ Holders[k] = None

LEMMA MappingHolds == Inv => Mapping
<1> SUFFICES ASSUME Inv PROVE Mapping
  BY Zenon
<1>1. OneBuffer /\ Users /\ Contents /\ TypeOK
  BY Zenon DEF Inv
<1>2. ASSUME NEW b \in Bufs, valid[b] PROVE Copies[blockno[b]] = bdata[b]
  <2> DEFINE k == blockno[b]
             c == CHOOSE c \in Bufs : blockno[c] = k /\ valid[c]
  <2>1. c \in Bufs /\ blockno[c] = k /\ valid[c]
    BY <1>2, Zenon
  <2>2. k \in Blocks
    BY <1>1, <1>2, Zenon DEF Contents
  <2>3. c = b
    BY <1>1, <2>1, <2>2, NamesAssumption, Zenon DEF OneBuffer
  <2>4. Copies[k] = bdata[c]
    BY <1>2, <2>2, Zenon DEF Copies
  <2> QED  BY <2>3, <2>4, Zenon
<1>3. ASSUME NEW p \in Procs, pc[p] = "held" PROVE Holders[blockno[buf[p]]] = p
  <2> DEFINE k == blockno[buf[p]]
             q == CHOOSE q \in Procs : pc[q] = "held" /\ blockno[buf[q]] = k
  <2>1. q \in Procs /\ pc[q] = "held" /\ blockno[buf[q]] = k
    BY <1>3, Zenon
  <2>2. k \in Blocks
    BY <1>1, <1>3, Zenon DEF Users
  <2>3. Holders[k] = q
    BY <1>3, <2>2, Zenon DEF Holders
  <2> HIDE DEF q
  <2>4. buf[p] \in Bufs /\ buf[q] \in Bufs /\ locked[buf[p]] = p /\ locked[buf[q]] = q
    BY <1>1, <1>3, <2>1, Zenon DEF Users
  <2>5. buf[p] = buf[q]
    BY <1>1, <2>1, <2>2, <2>4, NamesAssumption, Zenon DEF OneBuffer
  <2> QED  BY <2>3, <2>4, <2>5, Zenon
<1>4. Copies = [k \in Blocks |-> Copies[k]] /\ Holders = [k \in Blocks |-> Holders[k]]
  BY Zenon DEF Copies, Holders
<1>5. \A k \in Blocks : (\E b \in Bufs : blockno[b] = k /\ valid[b]) \/ Copies[k] = None
  BY Zenon DEF Copies
<1>6. \A k \in Blocks :
         (\E p \in Procs : pc[p] = "held" /\ blockno[buf[p]] = k) \/ Holders[k] = None
  BY Zenon DEF Holders
<1> QED  BY <1>2, <1>3, <1>4, <1>5, <1>6, Zenon DEF Mapping

LEMMA MappingNext == Inv' => Mapping'
  BY MappingHolds, PTL

(* A block whose buffer stays valid or invalid, with the same data.        *)
LEMMA CopySame ==
    ASSUME Mapping, Mapping', NEW k \in Blocks,
           \A b \in Bufs : (blockno[b] = k /\ valid[b]) <=> (blockno'[b] = k /\ valid'[b]),
           \A b \in Bufs : blockno[b] = k /\ valid[b] => bdata'[b] = bdata[b]
    PROVE  Copies'[k] = Copies[k]
<1>1. ASSUME NEW b \in Bufs, blockno[b] = k, valid[b] PROVE Copies'[k] = Copies[k]
  <2>1. Copies[k] = bdata[b]
    BY <1>1, Zenon DEF Mapping
  <2>2. blockno'[b] = k /\ valid'[b] /\ bdata'[b] = bdata[b]
    BY <1>1, Zenon
  <2>3. Copies'[k] = bdata'[b]
    BY <2>2, Zenon DEF Mapping
  <2> QED  BY <2>1, <2>2, <2>3, Zenon
<1>2. CASE ~ \E b \in Bufs : blockno[b] = k /\ valid[b]
  <2>1. Copies[k] = None
    BY <1>2, Zenon DEF Mapping
  <2>2. ~ \E b \in Bufs : blockno'[b] = k /\ valid'[b]
    BY <1>2, Zenon
  <2>3. Copies'[k] = None
    BY <2>2, Zenon DEF Mapping
  <2> QED  BY <2>1, <2>3, Zenon
<1> QED  BY <1>1, <1>2, Zenon

(* A block whose buffer has the same holder.                               *)
LEMMA HolderSame ==
    ASSUME Mapping, Mapping', NEW k \in Blocks,
           \A p \in Procs : (pc[p] = "held" /\ blockno[buf[p]] = k)
                              <=> (pc'[p] = "held" /\ blockno'[buf'[p]] = k)
    PROVE  Holders'[k] = Holders[k]
<1>1. ASSUME NEW p \in Procs, pc[p] = "held", blockno[buf[p]] = k PROVE Holders'[k] = Holders[k]
  <2>1. Holders[k] = p
    BY <1>1, Zenon DEF Mapping
  <2>2. pc'[p] = "held" /\ blockno'[buf'[p]] = k
    BY <1>1, Zenon
  <2>3. Holders'[k] = p
    BY <2>2, Zenon DEF Mapping
  <2> QED  BY <2>1, <2>3, Zenon
<1>2. CASE ~ \E p \in Procs : pc[p] = "held" /\ blockno[buf[p]] = k
  <2>1. Holders[k] = None
    BY <1>2, Zenon DEF Mapping
  <2>2. ~ \E p \in Procs : pc'[p] = "held" /\ blockno'[buf'[p]] = k
    BY <1>2, Zenon
  <2>3. Holders'[k] = None
    BY <2>2, Zenon DEF Mapping
  <2> QED  BY <2>1, <2>3, Zenon
<1> QED  BY <1>1, <1>2, Zenon

(* Two functions of Blocks that differ at most in one value.               *)
LEMMA AllButOne ==
    ASSUME Mapping, Mapping', NEW k \in Blocks
    PROVE  /\ (\A j \in Blocks \ {k} : Copies'[j] = Copies[j])
                => Copies' = [Copies EXCEPT ![k] = Copies'[k]]
           /\ (\A j \in Blocks \ {k} : Holders'[j] = Holders[j])
                => Holders' = [Holders EXCEPT ![k] = Holders'[k]]
           /\ (\A j \in Blocks : Copies'[j] = Copies[j]) => Copies' = Copies
           /\ (\A j \in Blocks : Holders'[j] = Holders[j]) => Holders' = Holders
<1> DEFINE C == Copies
           H == Holders
<1>1. /\ C = [j \in Blocks |-> C[j]] /\ H = [j \in Blocks |-> H[j]]
      /\ C' = [j \in Blocks |-> C'[j]] /\ H' = [j \in Blocks |-> H'[j]]
  BY Zenon DEF Mapping
<1> HIDE DEF C, H
<1>2. (\A j \in Blocks \ {k} : C'[j] = C[j]) => C' = [C EXCEPT ![k] = C'[k]]
  BY <1>1, Zenon
<1>3. (\A j \in Blocks \ {k} : H'[j] = H[j]) => H' = [H EXCEPT ![k] = H'[k]]
  BY <1>1, Zenon
<1>4. (\A j \in Blocks : C'[j] = C[j]) => C' = C
  BY <1>1, Zenon
<1>5. (\A j \in Blocks : H'[j] = H[j]) => H' = H
  BY <1>1, Zenon
<1> QED  BY <1>2, <1>3, <1>4, <1>5, Zenon DEF C, H

(* The steps of the cache, seen from above.                                *)
AbsStep == Abstract!CacheNext \/ UNCHANGED <<disk, Copies, Holders, pins>>

(* bget() and brelse() change nothing, except that recycling forgets the   *)
(* block the buffer had, which nobody holds or has pinned.                 *)
LEMMA RefHit ==
    ASSUME Inv, Mapping, Mapping', NEW p \in Procs, NEW k \in Blocks, NEW b \in Bufs,
           bget_hit(p, k, b)
    PROVE  AbsStep
<1>1. TypeOK
  BY Zenon DEF Inv
<1>2. \A j \in Blocks : Copies'[j] = Copies[j]
  BY CopySame, Zenon DEF bget_hit
<1>3. \A q \in Procs : pc'[q] = "held" <=> pc[q] = "held" /\ q # p
  BY <1>1, Zenon DEF TypeOK, bget_hit, Goto
<1>4. pc[p] # "held" /\ \A q \in Procs : q # p => buf'[q] = buf[q]
  BY <1>1, Zenon DEF TypeOK, bget_hit
<1>5. \A j \in Blocks : Holders'[j] = Holders[j]
  BY <1>3, <1>4, HolderSame, Zenon DEF bget_hit
<1>6. Copies' = Copies /\ Holders' = Holders
  BY <1>2, <1>5, AllButOne, Zenon
<1> QED  BY <1>6, Zenon DEF AbsStep, bget_hit

LEMMA RefBrelse ==
    ASSUME Inv, Mapping, Mapping', NEW p \in Procs, brelse(p), NEW k \in Blocks
    PROVE  AbsStep
<1>1. TypeOK
  BY Zenon DEF Inv
<1>2. \A j \in Blocks : Copies'[j] = Copies[j]
  BY CopySame, Zenon DEF brelse
<1>3. \A q \in Procs : pc'[q] = "held" <=> pc[q] = "held" /\ q # p
  BY <1>1, Zenon DEF TypeOK, brelse, Goto
<1>4. pc[p] # "held" /\ \A q \in Procs : q # p => buf'[q] = buf[q]
  BY <1>1, Zenon DEF TypeOK, brelse
<1>5. \A j \in Blocks : Holders'[j] = Holders[j]
  BY <1>3, <1>4, HolderSame, Zenon DEF brelse
<1>6. Copies' = Copies /\ Holders' = Holders
  BY <1>2, <1>5, AllButOne, Zenon
<1> QED  BY <1>6, Zenon DEF AbsStep, brelse

LEMMA RefRecycle ==
    ASSUME Inv, Mapping, Mapping', NEW p \in Procs, NEW k \in Blocks, bget_recycle(p, k)
    PROVE  AbsStep
<1> DEFINE v == Victim
<1>1. TypeOK /\ Users /\ RefcntExact /\ Listed /\ OneBuffer /\ Contents
  BY Zenon DEF Inv
<1>2. v \in Bufs /\ refcnt[v] = 0
  BY <1>1, VictimUnused, Zenon DEF bget_recycle
<1>3. /\ \A q \in Procs : buf[q] # v
      /\ blockno[v] \in Blocks => pins[blockno[v]] = 0
  BY <1>1, <1>2, Unreferenced, Zenon
<1>4. PICK b \in Bufs : b = Victim
  BY <1>2, Zenon
<1> HIDE DEF v
<1>5. /\ blockno' = [blockno EXCEPT ![b] = k] /\ valid' = [valid EXCEPT ![b] = FALSE]
      /\ pc' = [pc EXCEPT ![p] = "acquiresleep"] /\ buf' = [buf EXCEPT ![p] = b]
      /\ pc[p] = "idle" /\ (\A c \in Bufs : blockno[c] # k)
      /\ UNCHANGED <<disk, bdata, pins>>
  BY <1>4, Zenon DEF bget_recycle, Goto
<1>6. ASSUME NEW q \in Procs, NEW j \in Blocks
      PROVE  (pc[q] = "held" /\ blockno[buf[q]] = j) <=> (pc'[q] = "held" /\ blockno'[buf'[q]] = j)
  <2>1. CASE q = p
    BY <1>1, <1>5, <2>1, Zenon DEF TypeOK
  <2>2. CASE q # p
    <3>1. pc'[q] = pc[q] /\ buf'[q] = buf[q]
      BY <1>1, <1>5, <2>2, Zenon DEF TypeOK
    <3>2. pc[q] = "held" => buf[q] \in Bufs /\ buf[q] # b
      BY <1>1, <1>3, <1>4, Zenon DEF Users, v
    <3>3. pc[q] = "held" => blockno'[buf[q]] = blockno[buf[q]]
      BY <1>1, <1>5, <3>2, Zenon DEF TypeOK
    <3> QED  BY <3>1, <3>3, Zenon
  <2> QED  BY <2>1, <2>2, Zenon
<1>7. \A j \in Blocks : Holders'[j] = Holders[j]
  BY <1>6, HolderSame
<1>8. Holders' = Holders
  BY <1>7, AllButOne, Zenon
<1>9. ASSUME NEW j \in Blocks, j # blockno[b] \/ ~valid[b] PROVE Copies'[j] = Copies[j]
  <2>1. ASSUME NEW c \in Bufs
        PROVE  (blockno[c] = j /\ valid[c]) <=> (blockno'[c] = j /\ valid'[c])
    <3>1. CASE c = b
      BY <1>1, <1>5, <1>9, <3>1, Zenon DEF TypeOK
    <3>2. CASE c # b
      BY <1>1, <1>5, <3>2, Zenon DEF TypeOK
    <3> QED  BY <3>1, <3>2, Zenon
  <2> QED  BY <1>5, <2>1, CopySame, Zenon
<1>10. CASE valid[b]
  <2>1. blockno[b] \in Blocks /\ pins[blockno[b]] = 0
    BY <1>1, <1>3, <1>4, <1>10, Zenon DEF Contents, v
  <2>2. Holders[blockno[b]] = None
    <3>1. ASSUME NEW q \in Procs, pc[q] = "held" PROVE blockno[buf[q]] # blockno[b]
      <4>1. buf[q] \in Bufs /\ buf[q] # b
        BY <1>1, <1>3, <1>4, <3>1, Zenon DEF Users, v
      <4> QED  BY <1>1, <2>1, <4>1, NamesAssumption, Zenon DEF OneBuffer
    <3> QED  BY <2>1, <3>1, Zenon DEF Mapping
  <2>3. Copies'[blockno[b]] = None
    <3>1. ASSUME NEW c \in Bufs PROVE ~(blockno'[c] = blockno[b] /\ valid'[c])
      <4>1. CASE c = b
        BY <1>1, <1>5, <4>1, Zenon DEF TypeOK
      <4>2. CASE c # b
        <5>1. blockno'[c] = blockno[c]
          BY <1>1, <1>5, <4>2, Zenon DEF TypeOK
        <5> QED  BY <1>1, <2>1, <4>2, <5>1, NamesAssumption, Zenon DEF OneBuffer
      <4> QED  BY <4>1, <4>2, Zenon
    <3>2. PICK j \in Blocks : j = blockno[b]
      BY <2>1, Zenon
    <3> QED  BY <3>1, <3>2, Zenon DEF Mapping
  <2>4. Copies' = [Copies EXCEPT ![blockno[b]] = None]
    <3>1. PICK j \in Blocks : j = blockno[b]
      BY <2>1, Zenon
    <3>2. \A i \in Blocks \ {j} : Copies'[i] = Copies[i]
      BY <1>9, <3>1, Zenon
    <3>3. Copies' = [Copies EXCEPT ![j] = Copies'[j]]
      BY <3>2, AllButOne, Zenon
    <3> QED  BY <2>3, <3>1, <3>3, Zenon
  <2>5. Abstract!Forget(blockno[b])
    BY <1>5, <1>8, <2>1, <2>2, <2>4, Zenon DEF Abstract!Forget
  <2> QED  BY <2>1, <2>5, Zenon DEF AbsStep, Abstract!CacheNext
<1>11. CASE ~valid[b]
  <2>1. Copies' = Copies
    BY <1>9, <1>11, AllButOne, Zenon
  <2> QED  BY <1>5, <1>8, <2>1, Zenon DEF AbsStep
<1> QED  BY <1>10, <1>11, Zenon

(* A process in front of the critical section of a buffer whose lock is    *)
(* its own or free: nobody holds the block ...                             *)
LEMMA NobodyHolds ==
    ASSUME Inv, Mapping, NEW p \in Procs, pc[p] \notin {"idle", "held"},
           locked[buf[p]] \in {None, p}
    PROVE  /\ buf[p] \in Bufs /\ blockno[buf[p]] \in Blocks
           /\ Holders[blockno[buf[p]]] = None
<1>1. Users /\ OneBuffer
  BY Zenon DEF Inv
<1>2. buf[p] \in Bufs /\ blockno[buf[p]] \in Blocks
  BY <1>1, Zenon DEF Users
<1>3. ASSUME NEW q \in Procs, pc[q] = "held" PROVE blockno[buf[q]] # blockno[buf[p]]
  <2>1. buf[q] \in Bufs /\ locked[buf[q]] = q /\ q # p
    BY <1>1, <1>3, Zenon DEF Users
  <2>2. buf[q] # buf[p]
    BY <2>1, NamesAssumption, Zenon
  <2> QED  BY <1>1, <1>2, <2>1, <2>2, NamesAssumption, Zenon DEF OneBuffer
<1> QED  BY <1>2, <1>3, Zenon DEF Mapping

(* ... and when it goes in, it is the holder.                              *)
LEMMA NewHolder ==
    ASSUME Inv, Mapping, Mapping', NEW p \in Procs, pc[p] # "held",
           blockno[buf[p]] \in Blocks,
           pc' = [pc EXCEPT ![p] = "held"], UNCHANGED <<blockno, buf>>
    PROVE  Holders' = [Holders EXCEPT ![blockno[buf[p]]] = p]
<1>1. TypeOK
  BY Zenon DEF Inv
<1>2. PICK k \in Blocks : k = blockno[buf[p]]
  BY Zenon
<1>3. \A q \in Procs : pc'[q] = "held" <=> pc[q] = "held" \/ q = p
  BY <1>1, Zenon DEF TypeOK
<1>4. \A j \in Blocks \ {k} : Holders'[j] = Holders[j]
  BY <1>2, <1>3, HolderSame, Zenon
<1>5. Holders'[k] = p
  <2>1. pc'[p] = "held" /\ blockno'[buf'[p]] = k
    BY <1>2, <1>3, Zenon
  <2> QED  BY <2>1, Zenon DEF Mapping
<1> QED  BY <1>2, <1>4, <1>5, AllButOne, Zenon

LEMMA RefAcquire ==
    ASSUME Inv, Mapping, Mapping', NEW p \in Procs, acquiresleep(p)
    PROVE  AbsStep
<1> DEFINE b == buf[p]
<1>1. TypeOK /\ Users /\ Contents
  BY Zenon DEF Inv
<1>2. pc[p] = "acquiresleep" /\ UNCHANGED <<disk, blockno, valid, bdata, buf, pins>>
  BY Zenon DEF acquiresleep
<1>3. b \in Bufs /\ blockno[b] \in Blocks
  BY <1>1, <1>2, Zenon DEF Users
<1>4. Copies' = Copies
  BY <1>2, Zenon DEF Copies
<1>5. CASE locked[b] = None /\ valid[b]
  <2>1. pc' = [pc EXCEPT ![p] = "held"]
    BY <1>5, Zenon DEF acquiresleep, Goto
  <2>2. Holders[blockno[b]] = None
    BY <1>2, <1>5, NobodyHolds, Zenon
  <2>3. Holders' = [Holders EXCEPT ![blockno[b]] = p]
    BY <1>2, <1>3, <2>1, NewHolder, Zenon
  <2>4. Copies[blockno[b]] # None
    <3>1. Copies[blockno[b]] = bdata[b]
      BY <1>3, <1>5, Zenon DEF Mapping
    <3>2. bdata[b] \in Data
      BY <1>1, <1>3, <1>5, Zenon DEF Contents
    <3> QED  BY <3>1, <3>2, NamesAssumption, Zenon
  <2>5. Abstract!Lock(p, blockno[b])
    BY <1>2, <1>4, <2>2, <2>3, <2>4, Zenon DEF Abstract!Lock
  <2> QED  BY <1>3, <2>5, Zenon DEF AbsStep, Abstract!CacheNext
<1>6. CASE ~(locked[b] = None /\ valid[b])
  <2>1. pc' = [pc EXCEPT ![p] = "asleep"] \/ pc' = [pc EXCEPT ![p] = "read"]
    BY <1>6, Zenon DEF acquiresleep, Goto
  <2>2. \A q \in Procs : pc'[q] = "held" <=> pc[q] = "held"
    BY <1>1, <1>2, <2>1, Zenon DEF TypeOK
  <2>3. \A j \in Blocks : Holders'[j] = Holders[j]
    BY <1>2, <2>2, HolderSame, Zenon
  <2>4. Holders' = Holders
    BY <1>3, <2>3, AllButOne, Zenon
  <2> QED  BY <1>2, <1>4, <2>4, Zenon DEF AbsStep
<1> QED  BY <1>5, <1>6, Zenon

LEMMA RefRead ==
    ASSUME Inv, Mapping, Mapping', NEW p \in Procs, bread_done(p)
    PROVE  AbsStep
<1> DEFINE b == buf[p]
           k == blockno[b]
<1>1. TypeOK /\ Users /\ Contents /\ OneBuffer
  BY Zenon DEF Inv
<1>2. /\ pc[p] = "read" /\ pc' = [pc EXCEPT ![p] = "held"]
      /\ bdata' = [bdata EXCEPT ![b] = disk[k]] /\ valid' = [valid EXCEPT ![b] = TRUE]
      /\ UNCHANGED <<disk, blockno, buf, pins>>
  BY Zenon DEF bread_done, Goto
<1>3. b \in Bufs /\ k \in Blocks /\ ~valid[b] /\ locked[b] = p
  BY <1>1, <1>2, Zenon DEF Users, Contents
<1>4. Holders[k] = None
  BY <1>2, <1>3, NobodyHolds, Zenon
<1>5. Holders' = [Holders EXCEPT ![k] = p]
  BY <1>2, <1>3, NewHolder, Zenon
<1>6. \A c \in Bufs : blockno[c] = k => c = b
  BY <1>1, <1>3, NamesAssumption, Zenon DEF OneBuffer
<1>7. Copies[k] = None
  BY <1>3, <1>6 DEF Mapping
<1>8. Copies'[k] = disk[k]
  <2>1. valid'[b] /\ blockno'[b] = k /\ bdata'[b] = disk[k]
    BY <1>1, <1>2, <1>3, Zenon DEF TypeOK
  <2>2. PICK c \in Bufs : c = b
    BY <1>3, Zenon
  <2>3. Copies'[blockno'[c]] = bdata'[c]
    BY <2>1, <2>2, Zenon DEF Mapping
  <2> QED  BY <2>1, <2>2, <2>3, Zenon
<1>9. ASSUME NEW j \in Blocks, j # k PROVE Copies'[j] = Copies[j]
  <2>1. \A c \in Bufs : blockno[c] = j => c # b /\ valid'[c] = valid[c] /\ bdata'[c] = bdata[c]
    BY <1>1, <1>2, <1>9, Zenon DEF TypeOK
  <2>2. blockno' = blockno
    BY <1>2, Zenon
  <2> QED  BY <2>1, <2>2, CopySame, Zenon
<1>10. Copies' = [Copies EXCEPT ![k] = disk[k]]
  <2>1. PICK j \in Blocks : j = k
    BY <1>3, Zenon
  <2> QED  BY <1>8, <1>9, <2>1, AllButOne, Zenon
<1>11. Abstract!Lock(p, k)
  BY <1>2, <1>4, <1>5, <1>7, <1>10, Zenon DEF Abstract!Lock, Abstract!Load
<1> QED  BY <1>3, <1>11, Zenon DEF AbsStep, Abstract!CacheNext

LEMMA RefModify ==
    ASSUME Inv, Mapping, Mapping', NEW p \in Procs, NEW d \in Data, modify(p, d)
    PROVE  AbsStep
<1> DEFINE b == buf[p]
           k == blockno[b]
<1>1. TypeOK /\ Users /\ Contents /\ OneBuffer
  BY Zenon DEF Inv
<1>2. /\ pc[p] = "held" /\ bdata' = [bdata EXCEPT ![b] = d]
      /\ UNCHANGED <<disk, blockno, valid, pc, buf, pins>>
  BY Zenon DEF modify
<1>3. b \in Bufs /\ k \in Blocks /\ valid[b]
  BY <1>1, <1>2, Zenon DEF Users, Contents
<1>4. Holders[k] = p /\ Holders' = Holders
  <2>1. Holders[k] = p
    BY <1>2, Zenon DEF Mapping
  <2>2. Holders' = Holders
    BY <1>2, Zenon DEF Holders
  <2> QED  BY <2>1, <2>2, Zenon
<1>5. Copies'[k] = d
  <2>1. valid'[b] /\ blockno'[b] = k /\ bdata'[b] = d
    BY <1>1, <1>2, <1>3, Zenon DEF TypeOK
  <2>2. PICK c \in Bufs : c = b
    BY <1>3, Zenon
  <2>3. Copies'[blockno'[c]] = bdata'[c]
    BY <2>1, <2>2, Zenon DEF Mapping
  <2> QED  BY <2>1, <2>2, <2>3, Zenon
<1>6. ASSUME NEW j \in Blocks, j # k PROVE Copies'[j] = Copies[j]
  <2>1. \A c \in Bufs : blockno[c] = j => bdata'[c] = bdata[c]
    BY <1>1, <1>2, <1>6, Zenon DEF TypeOK
  <2> QED  BY <1>2, <2>1, CopySame, Zenon
<1>7. Copies' = [Copies EXCEPT ![k] = d]
  <2>1. PICK j \in Blocks : j = k
    BY <1>3, Zenon
  <2> QED  BY <1>5, <1>6, <2>1, AllButOne, Zenon
<1>8. Abstract!Modify(p, k, d)
  BY <1>2, <1>4, <1>7, Zenon DEF Abstract!Modify
<1> QED  BY <1>3, <1>8, Zenon DEF AbsStep, Abstract!CacheNext

(* The steps of the holder that change neither the copies nor the holders. *)
LEMMA RefHeld ==
    ASSUME Inv, Mapping, NEW p \in Procs, bwrite(p) \/ bpin(p) \/ bunpin(p)
    PROVE  AbsStep
<1> DEFINE b == buf[p]
           k == blockno[b]
<1>1. Users /\ Contents
  BY Zenon DEF Inv
<1>2. pc[p] = "held" /\ UNCHANGED <<blockno, valid, bdata, pc, buf>>
  BY Zenon DEF bwrite, bpin, bunpin, bvars
<1>3. b \in Bufs /\ k \in Blocks /\ valid[b]
  BY <1>1, <1>2, Zenon DEF Users, Contents
<1>4. Holders[k] = p /\ Copies[k] = bdata[b]
  BY <1>2, <1>3, Zenon DEF Mapping
<1>5. Copies' = Copies /\ Holders' = Holders
  BY <1>2, Zenon DEF Copies, Holders
<1>6. CASE bwrite(p)
  <2>1. Abstract!WriteBack(p, k)
    BY <1>4, <1>5, <1>6, Zenon DEF Abstract!WriteBack, bwrite
  <2> QED  BY <1>3, <2>1, Zenon DEF AbsStep, Abstract!CacheNext
<1>7. CASE bpin(p)
  <2>1. Abstract!Pin(p, k)
    BY <1>4, <1>5, <1>7, Zenon DEF Abstract!Pin, bpin
  <2> QED  BY <1>3, <2>1, Zenon DEF AbsStep, Abstract!CacheNext
<1>8. CASE bunpin(p)
  <2>1. Abstract!Unpin(p, k)
    BY <1>4, <1>5, <1>8, Zenon DEF Abstract!Unpin, bunpin
  <2> QED  BY <1>3, <2>1, Zenon DEF AbsStep, Abstract!CacheNext
<1> QED  BY <1>6, <1>7, <1>8, Zenon

LEMMA RefRelease ==
    ASSUME Inv, Inv', Mapping, Mapping', NEW p \in Procs, releasesleep(p)
    PROVE  AbsStep
<1> DEFINE b == buf[p]
           k == blockno[b]
<1>1. TypeOK /\ Users
  BY Zenon DEF Inv
<1>2. pc[p] = "held" /\ UNCHANGED <<disk, blockno, valid, bdata, buf, pins>>
  BY Zenon DEF releasesleep
<1>3. b \in Bufs /\ k \in Blocks
  BY <1>1, <1>2, Zenon DEF Users
<1>4. Holders[k] = p
  BY <1>2, Zenon DEF Mapping
<1>5. Copies' = Copies
  BY <1>2, Zenon DEF Copies
<1>6. \A q \in Procs : pc'[q] = "held" <=> pc[q] = "held" /\ q # p
  BY <1>1, Zenon DEF TypeOK, releasesleep, Woken, Goto
<1>7. \A q \in Procs : pc[q] = "held" /\ q # p => blockno[buf[q]] # k
  BY <1>4, Zenon DEF Mapping
<1>8. ASSUME NEW j \in Blocks, j # k PROVE Holders'[j] = Holders[j]
  BY <1>2, <1>6, <1>8, HolderSame, Zenon
<1>9. Holders' = [Holders EXCEPT ![k] = None]
  <2>1. PICK j \in Blocks : j = k
    BY <1>3, Zenon
  <2>2. ~ \E q \in Procs : pc'[q] = "held" /\ blockno'[buf'[q]] = j
    BY <1>2, <1>6, <1>7, <2>1, Zenon
  <2>3. Holders'[j] = None
    BY <2>2, Zenon DEF Mapping
  <2> QED  BY <1>8, <2>1, <2>3, AllButOne, Zenon
<1>10. Abstract!Unlock(p, k)
  BY <1>2, <1>4, <1>5, <1>9, Zenon DEF Abstract!Unlock
<1> QED  BY <1>3, <1>10, Zenon DEF AbsStep, Abstract!CacheNext

LEMMA RefNext ==
    ASSUME Inv, Inv', Mapping, Mapping', [Next]_vars
    PROVE  AbsStep
<1>1. CASE UNCHANGED vars
  BY <1>1, Zenon DEF vars, bvars, AbsStep, Copies, Holders
<1>2. ASSUME NEW p \in Procs, NEW k \in Blocks, bget(p, k) PROVE AbsStep
  <2>1. CASE bget_panic(p, k)
    BY <2>1, Zenon DEF bget_panic, bvars, AbsStep, Copies, Holders
  <2> QED  BY <1>2, <2>1, RefHit, RefRecycle, Zenon DEF bget
<1>3. ASSUME NEW p \in Procs, Step(p) PROVE AbsStep
  <2>1. CASE brelse(p)
    <3>1. PICK k \in Blocks : k = blockno[buf[p]]
      BY <2>1, Zenon DEF brelse, Inv, Users
    <3> QED  BY <2>1, <3>1, RefBrelse, Zenon
  <2> QED
    BY <1>2, <1>3, <2>1, RefAcquire, RefRead, RefModify, RefHeld, RefRelease, Zenon DEF Step
<1> QED  BY <1>1, <1>3, Zenon DEF Next

(* The cache keeps its promise, for any number of buffers, blocks and      *)
(* processes: whatever the interleaving of bget(), acquiresleep(),         *)
(* bread(), bwrite(), brelse() and the pins of the log, a block has one    *)
(* copy, one process uses it at a time, and it is forgotten only when      *)
(* nobody holds or has pinned it.                                          *)
THEOREM Refinement == Spec => ImplementsBlockCache
<1>1. Init => Abstract!CacheInit
  <2> SUFFICES ASSUME Init PROVE Abstract!CacheInit
    BY Zenon
  <2>1. Copies = [k \in Blocks |-> None]
    BY Zenon DEF Init, Copies
  <2>2. Holders = [k \in Blocks |-> None]
    BY Zenon DEF Init, Holders
  <2> QED  BY <2>1, <2>2, Zenon DEF Init, Abstract!CacheInit
<1>2. Inv /\ Inv' /\ [Next]_vars => [Abstract!CacheNext]_(Abstract!bcvars)
  BY MappingHolds, MappingNext, RefNext, Zenon DEF AbsStep, Abstract!bcvars
<1> QED  BY <1>1, <1>2, Invariant, PTL DEF Spec, ImplementsBlockCache, Abstract!CacheSpec
=============================================================================
