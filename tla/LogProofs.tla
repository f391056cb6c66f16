------------------------------ MODULE LogProofs -----------------------------
(***************************************************************************)
(* Proofs about the log: the invariant of LogInv is preserved by the steps *)
(* on buffers, by the calls of the file system, and by commit, crash and   *)
(* recovery; what recovery would install follows the transactions of       *)
(* TxDisk; begin_op() forgets nobody and admits no more than fits.         *)
(***************************************************************************)
EXTENDS LogInv, TLAPS

USE DataAssumption, ProcsAssumption, LogAssumption
    DEF DataAssumption, ProcsAssumption, LogAssumption

(* A duplicate-free header names the slot of a block unambiguously.        *)
LEMMA SlotOf ==
    ASSUME NEW h \in Seq(Blocks), NoDup(h), NEW j \in 1 .. Len(h)
    PROVE  (CHOOSE i \in 1 .. Len(h) : h[i] = h[j]) = j
<1>1. \E i \in 1 .. Len(h) : h[i] = h[j]
  BY Zenon
<1>2. PICK i \in 1 .. Len(h) :
         /\ i = CHOOSE k \in 1 .. Len(h) : h[k] = h[j]
         /\ h[i] = h[j]
  BY <1>1, Zenon
<1> QED
  BY <1>2, Zenon DEF NoDup

(* The pinned blocks are blocks, and the loops still need them.            *)
LEMMA PinnedFacts ==
    ASSUME TypeOK
    PROVE  /\ Pinned \subseteq Blocks
           /\ pc = "install" => \A i \in tail + 1 .. Len(lh) : lh[i] \in Pinned
           /\ pc \in {"idle", "write_log", "write_head", "done"} =>
                 Pinned = Logged(lh)
           /\ pc = "erase" => Pinned = {}
           /\ Logged(lh) \subseteq Blocks
BY DEF TypeOK, Pinned, Recovering, Logged

(* Dropping a reference that is there.                                     *)
LEMMA UnrefType ==
    ASSUME NEW r \in [Blocks -> Nat], NEW c \in Blocks, r[c] # 0
    PROVE  Unref(r, c) \in [Blocks -> Nat]
BY DEF Unref

(* Writing one block.                                                      *)
LEMMA UpdateType ==
    ASSUME NEW S, NEW f \in [Blocks -> S], NEW c \in Blocks, NEW v \in S
    PROVE  [f EXCEPT ![c] = v] \in [Blocks -> S]
BY Zenon

(* What RefcntExact says of one buffer.                                    *)
LEMMA RefcntFacts ==
    ASSUME RefcntExact, ~Recovering, NEW b \in Blocks
    PROVE  /\ b \in Pinned /\ holder[b] # None => refcnt[b] = 2
           /\ b \in Pinned /\ holder[b] = None => refcnt[b] = 1
           /\ b \notin Pinned /\ holder[b] # None => refcnt[b] = 1
           /\ b \notin Pinned /\ holder[b] = None => refcnt[b] = 0
<1>1. refcnt[b] = (IF holder[b] = None THEN 0 ELSE 1)
                + (IF b \in Pinned THEN 1 ELSE 0)
  BY Zenon DEF RefcntExact
<1>2. CASE b \in Pinned
  BY <1>1, <1>2
<1>3. CASE b \notin Pinned
  BY <1>1, <1>3
<1> QED
  BY <1>2, <1>3, Zenon

(* Steps that write nothing to the disk and start no loop.                 *)
LEMMA OnDiskSame ==
    ASSUME OnDisk, UNCHANGED <<disk, dlog, dhead>>,
           pc' \in {"install", "reinstall"} => pc' = pc /\ lh' = lh /\ tail' = tail,
           pc' \in {"erase", "clear"} => pc' = pc
    PROVE  OnDisk'
<1>1. Logged(dhead)' = Logged(dhead)
  BY Zenon DEF Logged
<1>2. pc' \in {"install", "reinstall"} => \A i \in 1 .. tail' : disk'[lh'[i]] = dlog'[i]
  BY Zenon DEF OnDisk
<1>3. pc' \in {"erase", "clear"} => \A i \in 1 .. Len(dhead') : disk'[dhead'[i]] = dlog'[i]
  BY Zenon DEF OnDisk
<1>4. /\ \A i \in 1 .. Len(dhead') : dlog'[i] \in Data
      /\ \A b \in Blocks : b \notin Logged(dhead)' => disk'[b] \in Data
  BY <1>1, Zenon DEF OnDisk
<1> QED
  BY <1>2, <1>3, <1>4, Zenon DEF OnDisk

(* Steps that leave the headers and the loops alone.                       *)
LEMMA HeadersSame ==
    ASSUME Headers, UNCHANGED <<lh, dhead, pc, tail, writing>>,
           outstanding' = 0 => outstanding = 0
    PROVE  Headers'
<1>1. NoDup(lh)' = NoDup(lh) /\ NoDup(dhead)' = NoDup(dhead)
  BY Zenon DEF NoDup
<1> QED
  BY <1>1, Zenon DEF Headers

(* Steps that change the cache of none of the blocks commit() still needs. *)
LEMMA CachedSame ==
    ASSUME Cached, ~Recovering, ~panic, Pinned' = Pinned,
           UNCHANGED <<disk, dlog, lh, pc, tail, panic>>,
           \A c \in Pinned : cache'[c] = cache[c],
           \A c \in Blocks \ Pinned : cache'[c] \in {NotCached, disk'[c]},
           pc \in {"write_log", "write_head"} =>
              \A i \in 1 .. Len(lh) : cache'[lh[i]] = cache[lh[i]],
           pc = "install" => \A i \in tail + 1 .. Len(lh) : cache'[lh[i]] = cache[lh[i]],
           pc = "write_log" => \A i \in 1 .. tail : i \in 1 .. Len(lh)
    PROVE  Cached'
<1>1. /\ \A c \in Pinned' : cache'[c] \in Data
      /\ \A c \in Blocks \ Pinned' : disk'[c] \in Data /\ cache'[c] \in {NotCached, disk'[c]}
  BY Zenon DEF Cached
<1>2. pc' = "write_log" => \A i \in 1 .. tail' : dlog'[i] = cache'[lh'[i]]
  BY Zenon DEF Cached
<1>3. pc' = "write_head" => \A i \in 1 .. Len(lh') : dlog'[i] = cache'[lh'[i]]
  BY Zenon DEF Cached
<1>4. pc' = "install" => \A i \in tail' + 1 .. Len(lh') : dlog'[i] = cache'[lh'[i]]
  BY DEF Cached
<1> QED
  BY <1>1, <1>2, <1>3, <1>4, Zenon DEF Cached

(* The slot the loops of write_log() and install_trans() work on.          *)
LEMMA LoopFacts ==
    ASSUME Inv, pc \in {"write_log", "install", "reinstall"}
    PROVE  /\ tail \in Nat /\ Len(lh) \in Nat /\ tail + 1 \in 1 .. Len(lh)
           /\ tail + 1 \in Slots
           /\ lh[tail + 1] \in Blocks
           /\ \A i \in 1 .. Len(lh) : i # tail + 1 => lh[i] # lh[tail + 1]
           /\ pc # "reinstall" => lh[tail + 1] \in Pinned
<1>1. /\ tail \in Nat /\ Len(lh) \in Nat /\ tail + 1 \in 1 .. Len(lh)
      /\ tail + 1 \in Slots
      /\ lh[tail + 1] \in Blocks
  <2>1. tail < Len(lh) /\ Len(lh) <= LOGSIZE
    BY Zenon DEF Inv, Headers
  <2>2. tail \in Nat /\ lh \in Seq(Blocks)
    BY Zenon DEF Inv, TypeOK
  <2> QED
    BY <2>1, <2>2 DEF Slots
<1>2. \A i \in 1 .. Len(lh) : i # tail + 1 => lh[i] # lh[tail + 1]
  BY <1>1, Zenon DEF Inv, Headers, NoDup
<1>3. pc # "reinstall" => lh[tail + 1] \in Pinned
  BY <1>1, PinnedFacts DEF Inv, Logged
<1> QED
  BY <1>1, <1>2, <1>3, Zenon

LEMMA BreadInv ==
    ASSUME Inv, ~panic, NEW p \in Procs, NEW b \in Blocks, bread(p, b)
    PROVE  Inv'
<1> USE DEF bread, Inv, dvars, lvars, pvars, cvars
<1>1. TypeOK'
  BY DEF TypeOK, Ref
<1>2. Control' /\ Headers' /\ OnDisk'
  BY DEF Control, Headers, OnDisk, Active, Committing, Recovering, NoDup, Logged, TypeOK
<1>3. Pinned' = Pinned
  BY Zenon DEF Pinned, Recovering
<1>4. RefcntExact'
  BY <1>3 DEF RefcntExact, Recovering, TypeOK, Ref
<1>5. Cached'
  <2> SUFFICES ASSUME ~panic PROVE Cached'
    BY Zenon DEF Cached
  <2>1. \A c \in Pinned : c \in Blocks /\ cache'[c] = cache[c]
    BY PinnedFacts DEF Cached, TypeOK
  <2>2. \A c \in Blocks \ Pinned : disk'[c] \in Data /\ cache'[c] \in {NotCached, disk'[c]}
    BY Zenon DEF Cached, TypeOK
  <2>3. pc \in {"write_log", "write_head"} => \A i \in 1 .. Len(lh) : cache'[lh[i]] = cache[lh[i]]
    BY <2>1, PinnedFacts, Zenon DEF Logged
  <2>4. pc = "install" => \A i \in tail + 1 .. Len(lh) : cache'[lh[i]] = cache[lh[i]]
    BY <2>1, PinnedFacts, Zenon
  <2>5. pc = "write_log" => \A i \in 1 .. tail : i \in 1 .. Len(lh)
    BY DEF Headers, TypeOK
  <2> QED
    BY <1>3, <2>1, <2>2, <2>3, <2>4, <2>5, CachedSame, Zenon
<1>6. Recovered'
  BY Zenon DEF Recovered, Recovering
<1>20. InFlightHeld'
  BY LoopFacts, Zenon DEF InFlightHeld, Headers, Recovering, TypeOK
<1> QED
  BY <1>20, <1>1, <1>2, <1>4, <1>5, <1>6, Zenon

LEMMA BrelseInv ==
    ASSUME Inv, ~panic, NEW p \in Procs, NEW b \in Blocks, brelse(p, b)
    PROVE  Inv'
<1> USE DEF brelse, Inv, dvars, lvars, pvars, cvars
<1>0. ~Recovering
  BY Zenon DEF Control
<1>1. Pinned' = Pinned
  BY Zenon DEF Pinned, Recovering
<1>2. RefcntExact'
  BY <1>0, <1>1 DEF RefcntExact, Recovering, TypeOK, Unref
<1>3. TypeOK'
  <2>1. refcnt[b] \in Nat \ {0}
    BY <1>0, RefcntFacts
  <2> QED
    BY <2>1 DEF TypeOK, Unref
<1>4. Control' /\ Headers' /\ OnDisk'
  BY DEF Control, Headers, OnDisk, Active, Committing, Recovering, NoDup, Logged, TypeOK
<1>5. Cached' /\ Recovered'
  BY <1>0, <1>1, Zenon DEF Cached, Recovered, Recovering
<1>20. InFlightHeld'
  BY DEF InFlightHeld, Recovering, TypeOK
<1> QED
  BY <1>20, <1>2, <1>3, <1>4, <1>5, Zenon

LEMMA RecycleInv ==
    ASSUME Inv, ~panic, NEW b \in Blocks, Recycle(b)
    PROVE  Inv'
<1> USE DEF Recycle, Inv, dvars, lvars, pvars, cvars
<1>1. Pinned' = Pinned
  BY Zenon DEF Pinned, Recovering
<1>2. TypeOK'
  BY Zenon DEF TypeOK
<1>3. Control' /\ Headers' /\ OnDisk' /\ RefcntExact'
  <2>1. Control'
    BY Zenon DEF Control, Active, Committing, Recovering
  <2>2. Headers' /\ OnDisk'
    BY HeadersSame, OnDiskSame, Zenon
  <2>3. RefcntExact'
    BY <1>1, Zenon DEF RefcntExact, Recovering
  <2> QED
    BY <2>1, <2>2, <2>3, Zenon
<1>4. ~Recovering => b \notin Pinned
  BY RefcntFacts
<1>5. Cached'
  <2> SUFFICES ASSUME ~panic, ~Recovering PROVE Cached'
    BY Zenon DEF Cached, Recovering
  <2>1. \A c \in Pinned : c \in Blocks /\ cache'[c] = cache[c]
    BY <1>4, PinnedFacts, Zenon DEF TypeOK
  <2>2. \A c \in Blocks \ Pinned : disk'[c] \in Data /\ cache'[c] \in {NotCached, disk'[c]}
    BY Zenon DEF Cached, TypeOK
  <2>3. pc \in {"write_log", "write_head"} => \A i \in 1 .. Len(lh) : cache'[lh[i]] = cache[lh[i]]
    BY <2>1, PinnedFacts, Zenon DEF Logged
  <2>4. pc = "install" => \A i \in tail + 1 .. Len(lh) : cache'[lh[i]] = cache[lh[i]]
    BY <2>1, PinnedFacts, Zenon
  <2>5. pc = "write_log" => \A i \in 1 .. tail : i \in 1 .. Len(lh)
    BY DEF Headers, TypeOK
  <2> QED
    BY <1>1, <2>1, <2>2, <2>3, <2>4, <2>5, CachedSame, Zenon
<1>6. Recovered'
  BY DEF Recovered, Recovering, TypeOK
<1>20. InFlightHeld'
  BY Zenon DEF InFlightHeld, Recovering
<1> QED
  BY <1>20, <1>2, <1>3, <1>5, <1>6, Zenon

LEMMA WriteLogStartInv ==
    ASSUME Inv, ~panic, NEW p \in Procs, write_log_start(p)
    PROVE  Inv'
<1> DEFINE b == lh[tail + 1]
<1>1. /\ pc = "write_log" /\ pc' = pc /\ st[p] = "commit" /\ ~writing /\ writing' = TRUE
      /\ holder[b] = None /\ holder' = [holder EXCEPT ![b] = p]
      /\ refcnt' = Ref(refcnt, b)
      /\ cache' = [cache EXCEPT ![b] = IF @ = NotCached THEN disk[b] ELSE @]
      /\ dlog' = [dlog EXCEPT ![tail + 1] = Torn]
      /\ UNCHANGED <<disk, dhead, lh, outstanding, committing, st, wrote, tail, panic>>
  BY Zenon DEF write_log_start, lvars, pvars
<1>2. /\ tail + 1 \in 1 .. Len(lh) /\ tail + 1 \in Slots /\ b \in Blocks
      /\ b \in Pinned /\ tail \in Nat
  BY <1>1, LoopFacts, ZenonT(30)
<1> HIDE DEF b
<1>3. cache[b] \in Data /\ cache' = cache
  BY <1>1, <1>2, Zenon DEF Inv, Cached, Recovering, TypeOK
<1>4. Pinned' = Pinned
  BY <1>1, Zenon DEF Pinned, Recovering
<1> USE DEF Inv
<1>5. TypeOK'
  BY <1>1, <1>2, <1>3, SMTT(30) DEF TypeOK, Ref
<1>6. Control'
  BY <1>1, ZenonT(30) DEF Control, Active, Committing, Recovering
<1>11. Headers'
  BY <1>1, SMTT(30) DEF Headers, NoDup
<1>7. OnDisk'
  BY <1>1 DEF OnDisk, Headers, Logged
<1>8. RefcntExact'
  <2>1. /\ refcnt'[b] = refcnt[b] + 1 /\ holder'[b] # None /\ refcnt[b] \in Nat
        /\ \A c \in Blocks : c # b => refcnt'[c] = refcnt[c] /\ holder'[c] = holder[c]
    BY <1>1, <1>2, Zenon DEF TypeOK, Ref
  <2>2. ~Recovering
    BY <1>1, Zenon DEF Recovering
  <2>3. \A c \in Blocks : refcnt[c] = (IF holder[c] = None THEN 0 ELSE 1)
                                    + (IF c \in Pinned THEN 1 ELSE 0)
    BY <2>2, Zenon DEF RefcntExact
  <2> HIDE DEF Inv
  <2> QED
    BY <1>1, <1>2, <1>4, <2>1, <2>3 DEF RefcntExact
<1>9. Cached'
  BY <1>1, <1>2, <1>3, <1>4, SMTT(30) DEF Cached, Recovering, TypeOK
<1>10. Recovered'
  BY <1>1, Zenon DEF Recovered, Recovering
<1>20. InFlightHeld'
  BY <1>1, <1>2, Zenon DEF InFlightHeld, Control, TypeOK, b
<1> QED
  BY <1>20, <1>5, <1>6, <1>7, <1>8, <1>9, <1>10, <1>11, Zenon

LEMMA WriteLogEndInv ==
    ASSUME Inv, ~panic, NEW p \in Procs, write_log_end(p)
    PROVE  Inv'
<1> DEFINE b == lh[tail + 1]
<1>1. /\ pc = "write_log" /\ st[p] = "commit" /\ writing /\ writing' = FALSE
      /\ dlog' = [dlog EXCEPT ![tail + 1] = cache[b]]
      /\ holder' = [holder EXCEPT ![b] = None]
      /\ refcnt' = Unref(refcnt, b)
      /\ UNCHANGED <<disk, dhead, cache, lh, outstanding, committing, st, wrote, panic>>
      /\ \/ tail + 1 = Len(lh) /\ pc' = "write_head" /\ tail' = 0
         \/ tail + 1 # Len(lh) /\ pc' = "write_log" /\ tail' = tail + 1
  BY Zenon DEF write_log_end, lvars, pvars
<1>2. /\ tail + 1 \in 1 .. Len(lh) /\ tail + 1 \in Slots /\ b \in Blocks
      /\ b \in Pinned /\ tail \in Nat /\ Len(lh) \in Nat
  BY <1>1, LoopFacts, ZenonT(30)
<1> HIDE DEF b
<1> USE DEF Inv
<1>3. cache[b] \in Data
  BY <1>1, <1>2, Zenon DEF Cached, Recovering
<1>4. Pinned' = Pinned
  BY <1>1, Zenon DEF Pinned, Recovering
<1>5. holder[b] # None
  BY <1>1, <1>2, Zenon DEF InFlightHeld, Recovering, b
<1>6. refcnt[b] = 2
  BY <1>1, <1>2, <1>5, RefcntFacts, Zenon DEF Recovering
<1>7. TypeOK'
  <2>1. pc' \in PCs
    BY <1>1, Zenon DEF PCs
  <2>4. tail' \in Nat
    <3>1. tail' = 0 \/ tail' = tail + 1
      BY <1>1, Zenon
    <3> QED
      BY <1>2, <3>1
  <2>2. refcnt' \in [Blocks -> Nat] /\ dlog' \in [Slots -> Data \cup {Torn}]
    BY <1>1, <1>2, <1>3, <1>6 DEF TypeOK, Unref
  <2>3. holder' \in [Blocks -> Procs \cup {None}]
    BY <1>1, ZenonT(30) DEF TypeOK
  <2> QED
    BY <1>1, <2>1, <2>2, <2>3, <2>4, ZenonT(30) DEF TypeOK
<1>8. Control'
  BY <1>1, Zenon DEF Control, Active, Committing, Recovering
<1>9. Headers'
  BY <1>1, <1>2, SMTT(30) DEF Headers, NoDup
<1>10. OnDisk'
  BY <1>1, SMTT(30) DEF OnDisk, Headers, Logged
<1>11. RefcntExact'
  BY <1>1, <1>2, <1>4, <1>5, <1>6, SMTT(30) DEF RefcntExact, Recovering, TypeOK, Unref
<1>12. \A i \in 1 .. tail + 1 : dlog'[i] = cache'[lh'[i]]
  <2>1. \A i \in 1 .. tail : dlog[i] = cache[lh[i]]
    BY <1>1, Zenon DEF Cached, Recovering
  <2>2. dlog \in [Slots -> Data \cup {Torn}]
    BY Zenon DEF TypeOK
  <2>3. \A i \in 1 .. tail + 1 : i \in Slots
    BY <1>2 DEF Slots
  <2> HIDE DEF Inv
  <2> QED
    BY <1>1, <1>2, <2>1, <2>2, <2>3, SMTT(30) DEF b
<1>13. Cached'
  BY <1>1, <1>2, <1>4, <1>12, Zenon DEF Cached, Recovering
<1>14. Recovered'
  BY <1>1, Zenon DEF Recovered, Recovering
<1>20. InFlightHeld'
  BY <1>1, Zenon DEF InFlightHeld
<1> QED
  BY <1>20, <1>7, <1>8, <1>9, <1>10, <1>11, <1>13, <1>14, Zenon

LEMMA WriteHeadInv ==
    ASSUME Inv, ~panic, NEW p \in Procs, write_head(p)
    PROVE  Inv'
<1>1. /\ pc = "write_head" /\ pc' = "install" /\ dhead' = lh
      /\ UNCHANGED <<disk, dlog, cache, refcnt, holder, lh, outstanding, committing,
                     st, wrote, tail, writing, panic>>
  BY Zenon DEF write_head, bvars, lvars, pvars
<1> USE DEF Inv
<1>2. tail = 0 /\ ~writing /\ lh # <<>>
  BY <1>1, Zenon DEF Headers
<1>3. Pinned' = Pinned /\ Pinned = Logged(lh)
  BY <1>1, <1>2 DEF Pinned, Recovering, Logged
<1>4. TypeOK'
  BY <1>1, Zenon DEF TypeOK, PCs
<1>5. Control' /\ InFlightHeld'
  BY <1>1, <1>2, Zenon DEF Control, InFlightHeld, Active, Committing, Recovering
<1>6. Headers'
  BY <1>1, <1>2, SMTT(30) DEF Headers, NoDup, TypeOK
<1>7. \A i \in 1 .. Len(lh) : lh[i] \in Pinned /\ dlog[i] = cache[lh[i]] /\ dlog[i] \in Data
  BY <1>1, <1>3, SMTT(30) DEF Cached, Recovering, Logged
<1>8. OnDisk'
  BY <1>1, <1>2, <1>3, <1>7, SMTT(30) DEF OnDisk, Cached, Recovering, Logged
<1>9. RefcntExact' /\ Recovered'
  BY <1>1, <1>3, Zenon DEF RefcntExact, Recovered, Recovering
<1>10. Cached'
  BY <1>1, <1>2, <1>3, <1>7 DEF Cached, Recovering
<1> QED
  BY <1>4, <1>5, <1>6, <1>8, <1>9, <1>10, Zenon

LEMMA InstallStartInv ==
    ASSUME Inv, ~panic, NEW p \in Procs, install_start(p)
    PROVE  Inv'
<1> DEFINE b == lh[tail + 1]
<1>1. /\ pc = "install" /\ pc' = pc /\ st[p] = "commit" /\ ~writing /\ writing' = TRUE
      /\ holder[b] = None /\ holder' = [holder EXCEPT ![b] = p]
      /\ refcnt' = Ref(refcnt, b)
      /\ cache' = [cache EXCEPT ![b] = dlog[tail + 1]]
      /\ disk' = [disk EXCEPT ![b] = Torn]
      /\ UNCHANGED <<dlog, dhead, lh, outstanding, committing, st, wrote, tail, panic>>
  BY Zenon DEF install_start, lvars, pvars
<1>2. /\ tail + 1 \in 1 .. Len(lh) /\ tail + 1 \in Slots /\ b \in Blocks
      /\ b \in Pinned /\ tail \in Nat /\ Len(lh) \in Nat
      /\ \A i \in 1 .. Len(lh) : i # tail + 1 => lh[i] # b
  BY <1>1, LoopFacts, ZenonT(30)
<1>3. dlog[tail + 1] = cache[b]
  BY <1>1, <1>2, SMTT(30) DEF Inv, Cached, Recovering
<1>4. dhead = lh /\ b \in Logged(dhead)
  BY <1>1, <1>2, Zenon DEF Inv, Headers, Logged
<1> HIDE DEF b
<1> USE DEF Inv
<1>5. cache' = cache
  BY <1>1, <1>2, <1>3, Zenon DEF TypeOK
<1>6. Pinned' = Pinned
  BY <1>1, ZenonT(30) DEF Pinned, Recovering
<1>7. TypeOK'
  BY <1>1, <1>2, <1>5, SMTT(30) DEF TypeOK, Ref
<1>8. Control'
  BY <1>1, <1>2, ZenonT(30) DEF Control, Active, Committing, Recovering
<1>9. Headers'
  BY <1>1, SMTT(30) DEF Headers, NoDup
<1>10. InFlightHeld'
  BY <1>1, <1>2, Zenon DEF InFlightHeld, Control, TypeOK, b
<1>11. OnDisk'
  <2>1. Logged(dhead') = Logged(dhead)
    BY <1>1, Zenon DEF Logged
  <2>2. \A c \in Blocks : c # b => disk'[c] = disk[c]
    BY <1>1, Zenon DEF TypeOK
  <2>3. \A i \in 1 .. tail : lh[i] \in Blocks /\ lh[i] # b
    BY <1>2, SMTT(30) DEF TypeOK
  <2>4. /\ \A i \in 1 .. Len(dhead) : dlog[i] \in Data
        /\ \A c \in Blocks : c \notin Logged(dhead) => disk[c] \in Data
        /\ \A i \in 1 .. tail : disk[lh[i]] = dlog[i]
    BY <1>1, ZenonT(30) DEF OnDisk
  <2> HIDE DEF Inv
  <2> QED
    BY <1>1, <1>4, <2>1, <2>2, <2>3, <2>4, ZenonT(30) DEF OnDisk
<1>12. RefcntExact'
  <2>1. /\ refcnt'[b] = refcnt[b] + 1 /\ holder'[b] # None /\ refcnt[b] \in Nat
        /\ \A c \in Blocks : c # b => refcnt'[c] = refcnt[c] /\ holder'[c] = holder[c]
    BY <1>1, <1>2, Zenon DEF TypeOK, Ref
  <2>2. ~Recovering
    BY <1>1, Zenon DEF Recovering
  <2>3. \A c \in Blocks : refcnt[c] = (IF holder[c] = None THEN 0 ELSE 1)
                                    + (IF c \in Pinned THEN 1 ELSE 0)
    BY <2>2, Zenon DEF RefcntExact
  <2> HIDE DEF Inv
  <2> QED
    BY <1>1, <1>2, <1>6, <2>1, <2>3, SMTT(30) DEF RefcntExact
<1>13. Cached'
  BY <1>1, <1>2, <1>5, <1>6, SMTT(30) DEF Cached, Recovering, TypeOK
<1>14. Recovered'
  BY <1>1, Zenon DEF Recovered, Recovering
<1> QED
  BY <1>7, <1>8, <1>9, <1>10, <1>11, <1>12, <1>13, <1>14, Zenon

LEMMA InstallEndInv ==
    ASSUME Inv, ~panic, NEW p \in Procs, install_end(p)
    PROVE  Inv'
<1> DEFINE b == lh[tail + 1]
<1>1. /\ pc = "install" /\ st[p] = "commit" /\ writing /\ writing' = FALSE
      /\ disk' = [disk EXCEPT ![b] = cache[b]]
      /\ holder' = [holder EXCEPT ![b] = None]
      /\ refcnt' = Unref(bunpin(refcnt, b), b)
      /\ UNCHANGED <<dlog, dhead, cache, lh, outstanding, committing, st, wrote, panic>>
      /\ \/ tail + 1 = Len(lh) /\ pc' = "erase" /\ tail' = 0
         \/ tail + 1 # Len(lh) /\ pc' = "install" /\ tail' = tail + 1
  BY ZenonT(30) DEF install_end, lvars, pvars
<1>2. /\ tail + 1 \in 1 .. Len(lh) /\ tail + 1 \in Slots /\ b \in Blocks
      /\ b \in Pinned /\ tail \in Nat /\ Len(lh) \in Nat
      /\ \A i \in 1 .. Len(lh) : i # tail + 1 => lh[i] # b
  BY <1>1, LoopFacts, ZenonT(30)
<1>3. dlog[tail + 1] = cache[b]
  BY <1>1, <1>2, SMTT(30) DEF Inv, Cached, Recovering
<1>4. dhead = lh /\ b \in Logged(dhead)
  BY <1>1, <1>2, Zenon DEF Inv, Headers, Logged
<1>5. Pinned' = Pinned \ {b}
  <2>1. Pinned = {lh[i] : i \in tail + 1 .. Len(lh)}
    BY <1>1, Zenon DEF Pinned
  <2>2. Pinned' = {lh[i] : i \in tail + 2 .. Len(lh)}
    <3>1. CASE pc' = "erase"
      <4>1. tail + 2 .. Len(lh) = {}
        BY <1>1, <1>2, <3>1
      <4>2. Pinned' = {}
        BY <3>1, Zenon DEF Pinned, Recovering
      <4> QED
        BY <4>1, <4>2, Zenon
    <3>2. CASE pc' = "install"
      <4>1. tail' + 1 = tail + 2
        BY <1>1, <1>2, <3>2
      <4> QED
        BY <1>1, <3>2, <4>1, Zenon DEF Pinned
    <3> QED
      BY <1>1, <3>1, <3>2, Zenon
  <2>3. \A i \in tail + 2 .. Len(lh) : lh[i] # b /\ i \in tail + 1 .. Len(lh)
    BY <1>2
  <2>4. \A i \in tail + 1 .. Len(lh) : i = tail + 1 \/ i \in tail + 2 .. Len(lh)
    BY <1>2, SMTT(30)
  <2> QED
    BY <2>1, <2>2, <2>3, <2>4, Zenon
<1>6. holder[b] # None
  BY <1>1, Zenon DEF Inv, InFlightHeld, Recovering
<1> HIDE DEF b
<1> USE DEF Inv
<1>7. cache[b] \in Data
  BY <1>1, <1>2, ZenonT(30) DEF Cached, Recovering
<1>8. refcnt[b] = 2 /\ refcnt'[b] = 0 /\ refcnt' \in [Blocks -> Nat]
      /\ \A c \in Blocks : c # b => refcnt'[c] = refcnt[c]
  BY <1>1, <1>2, <1>6, RefcntFacts, SMTT(30) DEF Recovering, TypeOK, Unref, bunpin
<1>9. TypeOK'
  <2>1. pc' \in PCs
    BY <1>1, Zenon DEF PCs
  <2>4. tail' \in Nat
    <3>1. tail' = 0 \/ tail' = tail + 1
      BY <1>1, Zenon
    <3> QED
      BY <1>2, <3>1
  <2> QED
    BY <1>1, <1>2, <1>7, <1>8, <2>1, <2>4, Zenon DEF TypeOK
<1>10. Control' /\ InFlightHeld'
  BY <1>1, Zenon DEF Control, InFlightHeld, Active, Committing, Recovering
<1>11. Headers'
  BY <1>1, <1>2, SMTT(30) DEF Headers, NoDup
<1>12. OnDisk'
  <2>1. \A i \in 1 .. tail + 1 : disk'[lh[i]] = dlog[i]
    <3>1. lh[tail + 1] = b /\ \A i \in 1 .. tail : lh[i] \in Blocks /\ lh[i] # b
      BY <1>2, SMTT(30) DEF TypeOK, b
    <3>2. \A i \in 1 .. tail : disk[lh[i]] = dlog[i]
      BY <1>1, Zenon DEF OnDisk
    <3>3. disk'[b] = cache[b] /\ \A c \in Blocks : c # b => disk'[c] = disk[c]
      BY <1>1, <1>2, Zenon DEF TypeOK
    <3> HIDE DEF Inv
    <3> QED
      BY <1>2, <1>3, <3>1, <3>2, <3>3
  <2>2. \A c \in Blocks : c \notin Logged(dhead) => disk'[c] \in Data
    BY <1>1, <1>2, <1>4, Zenon DEF OnDisk, TypeOK
  <2>3. Logged(dhead') = Logged(dhead)
    BY <1>1, ZenonT(30) DEF Logged
  <2>4. \A i \in 1 .. Len(dhead) : dlog[i] \in Data
    BY ZenonT(30) DEF OnDisk
  <2> HIDE DEF Inv
  <2> QED
    BY <1>1, <1>2, <1>4, <2>1, <2>2, <2>3, <2>4, Zenon DEF OnDisk
<1>13. RefcntExact'
  <2>1. \A c \in Blocks : c # b => holder'[c] = holder[c] /\ (c \in Pinned' <=> c \in Pinned)
    BY <1>1, <1>5, Zenon DEF TypeOK
  <2>2. holder'[b] = None /\ b \notin Pinned'
    BY <1>1, <1>2, <1>5, Zenon DEF TypeOK
  <2>3. ~Recovering
    BY <1>1, Zenon DEF Recovering
  <2> QED
    BY <1>8, <2>1, <2>2, <2>3 DEF RefcntExact
<1>14. Cached'
  <2>1. \A c \in Blocks \ Pinned' : disk'[c] \in Data /\ cache'[c] \in {NotCached, disk'[c]}
    BY <1>1, <1>2, <1>5, <1>7, Zenon DEF Cached, Recovering, TypeOK
  <2>2. \A c \in Pinned' : cache'[c] \in Data
    BY <1>1, <1>5, ZenonT(30) DEF Cached, Recovering
  <2>3. pc' = "install" => \A i \in tail' + 1 .. Len(lh') : dlog'[i] = cache'[lh'[i]]
    <3>1. pc' = "install" => \A i \in tail' + 1 .. Len(lh) : i \in tail + 1 .. Len(lh)
      BY <1>1, <1>2, SMTT(30)
    <3> QED
      BY <1>1, <3>1, ZenonT(30) DEF Cached, Recovering
  <2> QED
    BY <1>1, <2>1, <2>2, <2>3, ZenonT(30) DEF Cached
<1>15. Recovered'
  BY <1>1, Zenon DEF Recovered, Recovering
<1> QED
  BY <1>9, <1>10, <1>11, <1>12, <1>13, <1>14, <1>15, Zenon

LEMMA EraseInv ==
    ASSUME Inv, ~panic, NEW p \in Procs, erase(p)
    PROVE  Inv'
<1>1. /\ pc = "erase" /\ pc' = "done" /\ lh' = <<>> /\ dhead' = <<>>
      /\ UNCHANGED <<disk, dlog, cache, refcnt, holder, outstanding, committing,
                     st, wrote, tail, writing, panic>>
  BY Zenon DEF erase, bvars, pvars
<1> USE DEF Inv
<1>2. Pinned = {} /\ Pinned' = {}
  BY <1>1, SMTT(30) DEF Pinned, Recovering
<1>3. TypeOK'
  BY <1>1, SMTT(30) DEF TypeOK, PCs
<1>4. Control' /\ InFlightHeld'
  BY <1>1, ZenonT(30) DEF Control, InFlightHeld, Headers, Active, Committing, Recovering
<1>5. Headers'
  BY <1>1, SMTT(30) DEF Headers, NoDup
<1>6. RefcntExact' /\ Recovered'
  BY <1>1, <1>2, ZenonT(30) DEF RefcntExact, Recovered, Recovering
<1>7. Cached'
  BY <1>1, <1>2, Zenon DEF Cached, Recovering
<1>8. OnDisk'
  BY <1>1, <1>2 DEF OnDisk, Cached, Recovering
<1> QED
  BY <1>3, <1>4, <1>5, <1>6, <1>7, <1>8, Zenon

LEMMA EndCommitInv ==
    ASSUME Inv, ~panic, NEW p \in Procs, end_commit(p)
    PROVE  Inv'
<1>1. /\ pc = "done" /\ pc' = "idle" /\ st[p] = "commit" /\ committing' = FALSE
      /\ st' = Woken([st EXCEPT ![p] = "out"])
      /\ UNCHANGED <<disk, dlog, dhead, cache, refcnt, holder, lh, outstanding,
                     wrote, tail, writing, panic>>
  BY Zenon DEF end_commit, dvars, bvars
<1> USE DEF Inv
<1>2. Pinned' = Pinned
  BY <1>1, Zenon DEF Pinned, Recovering
<1>3. TypeOK'
  BY <1>1, ZenonT(30) DEF TypeOK, PCs, Woken
<1>4. Control'
  <2>1. Active' = Active
    BY <1>1, Zenon DEF Active, Woken, TypeOK
  <2>2. \A q \in Procs : st'[q] # "commit"
    BY <1>1 DEF Control, Woken, TypeOK
  <2>3. Committing' = FALSE /\ ~Recovering'
    BY <1>1, SMTT(30) DEF Committing, Recovering
  <2> QED
    BY <1>1, <2>1, <2>2, <2>3, Zenon DEF Control
<1>5. Headers'
  BY <1>1 DEF Headers, NoDup
<1>6. OnDisk' /\ InFlightHeld'
  <2>1. OnDisk'
    BY <1>1, OnDiskSame, Zenon
  <2>2. InFlightHeld'
    BY <1>1, ZenonT(30) DEF InFlightHeld, Headers
  <2> QED
    BY <2>1, <2>2, Zenon
<1>7. RefcntExact' /\ Cached' /\ Recovered'
  BY <1>1, <1>2, ZenonT(30) DEF RefcntExact, Cached, Recovered, Recovering
<1> QED
  BY <1>3, <1>4, <1>5, <1>6, <1>7, Zenon

LEMMA ReadHeadInv ==
    ASSUME Inv, ~panic, read_head
    PROVE  Inv'
<1>1. /\ pc = "read_head" /\ lh' = dhead
      /\ \/ dhead = <<>> /\ pc' = "clear"
         \/ dhead # <<>> /\ pc' = "reinstall"
      /\ UNCHANGED <<disk, dlog, dhead, cache, refcnt, holder, outstanding,
                     committing, st, wrote, tail, writing, panic>>
  BY Zenon DEF read_head, dvars, bvars, pvars
<1>2. Recovering /\ Recovering'
  BY <1>1, Zenon DEF Recovering
<1> USE DEF Inv
<1>3. tail = 0 /\ ~writing
  BY <1>1, Zenon DEF Headers
<1>4. TypeOK'
  BY <1>1, Zenon DEF TypeOK, PCs
<1>5. Control'
  <2>1. Active' = Active /\ Committing' = Committing
    BY <1>1, SMTT(30) DEF Active, Committing
  <2> QED
    BY <1>1, <1>2, <2>1, ZenonT(30) DEF Control
<1>6. Headers'
  BY <1>1, <1>3 DEF Headers, NoDup, TypeOK
<1>7. OnDisk' /\ InFlightHeld'
  <2>1. InFlightHeld'
    BY <1>1, <1>3, Zenon DEF InFlightHeld
  <2>2. Logged(dhead') = Logged(dhead) /\ 1 .. tail' = {}
    BY <1>1, <1>3 DEF Logged
  <2>3. /\ \A i \in 1 .. Len(dhead) : dlog[i] \in Data
        /\ \A b \in Blocks : b \notin Logged(dhead) => disk[b] \in Data
    BY Zenon DEF OnDisk
  <2>4. pc' = "clear" => Len(dhead') = 0
    BY <1>1, Zenon
  <2> HIDE DEF Inv
  <2>5. OnDisk'
    BY <1>1, <2>2, <2>3, <2>4, SMTT(30) DEF OnDisk
  <2> QED
    BY <2>1, <2>5, Zenon
<1>8. RefcntExact' /\ Cached' /\ Recovered'
  BY <1>1, <1>2, <1>3, Zenon DEF RefcntExact, Cached, Recovered
<1> QED
  BY <1>4, <1>5, <1>6, <1>7, <1>8, Zenon

LEMMA ReinstallStartInv ==
    ASSUME Inv, ~panic, reinstall_start
    PROVE  Inv'
<1> DEFINE b == lh[tail + 1]
<1>1. /\ pc = "reinstall" /\ pc' = pc /\ ~writing /\ writing' = TRUE
      /\ cache' = [cache EXCEPT ![b] = dlog[tail + 1]]
      /\ refcnt' = Ref(refcnt, b)
      /\ disk' = [disk EXCEPT ![b] = Torn]
      /\ UNCHANGED <<dlog, dhead, holder, lh, outstanding, committing, st, wrote,
                     tail, panic>>
  BY Zenon DEF reinstall_start, lvars, pvars
<1>2. /\ tail + 1 \in 1 .. Len(lh) /\ tail + 1 \in Slots /\ b \in Blocks
      /\ tail \in Nat /\ Len(lh) \in Nat
      /\ \A i \in 1 .. Len(lh) : i # tail + 1 => lh[i] # b
  BY <1>1, LoopFacts, ZenonT(30)
<1>3. dhead = lh /\ b \in Logged(dhead)
  BY <1>1, <1>2, Zenon DEF Inv, Headers, Logged
<1>4. Recovering /\ Recovering' /\ lh'[tail' + 1] = b
  BY <1>1, Zenon DEF Recovering
<1> HIDE DEF b
<1> USE DEF Inv
<1>5. TypeOK'
  <2>1. dlog[tail + 1] \in Data \cup {Torn}
    BY <1>2, Zenon DEF TypeOK
  <2> QED
    BY <1>1, <1>2, <2>1, SMTT(30) DEF TypeOK, Ref
<1>6. Control' /\ InFlightHeld'
  BY <1>1, <1>4, Zenon DEF Control, InFlightHeld, Active, Committing
<1>7. Headers'
  BY <1>1, SMTT(30) DEF Headers, NoDup
<1>8. OnDisk'
  <2>1. Logged(dhead') = Logged(dhead)
    BY <1>1, Zenon DEF Logged
  <2>2. \A c \in Blocks : c # b => disk'[c] = disk[c]
    BY <1>1, Zenon DEF TypeOK
  <2>3. \A i \in 1 .. tail : lh[i] \in Blocks /\ lh[i] # b
    BY <1>2, SMTT(30) DEF TypeOK
  <2> QED
    BY <1>1, <1>3, <2>1, <2>2, <2>3, SMTT(30) DEF OnDisk
<1>9. RefcntExact' /\ Cached'
  BY <1>4, Zenon DEF RefcntExact, Cached
<1>10. Recovered'
  <2>1. refcnt'[b] = 1 /\ cache'[b] = dlog'[tail' + 1]
    BY <1>1, <1>2, <1>4, SMTT(30) DEF Recovered, TypeOK, Ref
  <2>2. \A c \in Blocks : c # b => refcnt'[c] = 0 /\ cache'[c] \in {NotCached, disk'[c]}
    BY <1>1, <1>2, <1>4, Zenon DEF Recovered, TypeOK, Ref
  <2> QED
    BY <1>1, <1>4, <2>1, <2>2, ZenonT(30) DEF Recovered
<1> QED
  BY <1>5, <1>6, <1>7, <1>8, <1>9, <1>10, Zenon

LEMMA ReinstallEndInv ==
    ASSUME Inv, ~panic, reinstall_end
    PROVE  Inv'
<1> DEFINE b == lh[tail + 1]
<1>1. /\ pc = "reinstall" /\ writing /\ writing' = FALSE
      /\ disk' = [disk EXCEPT ![b] = cache[b]]
      /\ refcnt' = Unref(refcnt, b)
      /\ UNCHANGED <<dlog, dhead, cache, holder, lh, outstanding, committing, st,
                     wrote, panic>>
      /\ \/ tail + 1 = Len(lh) /\ pc' = "clear" /\ tail' = 0
         \/ tail + 1 # Len(lh) /\ pc' = "reinstall" /\ tail' = tail + 1
  BY ZenonT(30) DEF reinstall_end, lvars, pvars
<1>2. /\ tail + 1 \in 1 .. Len(lh) /\ tail + 1 \in Slots /\ b \in Blocks
      /\ tail \in Nat /\ Len(lh) \in Nat
      /\ \A i \in 1 .. Len(lh) : i # tail + 1 => lh[i] # b
  BY <1>1, LoopFacts, ZenonT(30)
<1>3. dhead = lh /\ b \in Logged(dhead) /\ dlog[tail + 1] \in Data
  BY <1>1, <1>2, ZenonT(30) DEF Inv, Headers, Logged, OnDisk
<1>4. Recovering /\ Recovering'
  BY <1>1, Zenon DEF Recovering
<1>5. refcnt[b] = 1 /\ cache[b] = dlog[tail + 1]
  BY <1>1, <1>2, <1>4, ZenonT(30) DEF Inv, Recovered
<1> HIDE DEF b
<1> USE DEF Inv
<1>6. TypeOK'
  <2>1. pc' \in PCs
    BY <1>1, Zenon DEF PCs
  <2>4. tail' \in Nat
    <3>1. tail' = 0 \/ tail' = tail + 1
      BY <1>1, Zenon
    <3> QED
      BY <1>2, <3>1
  <2>2. disk' \in [Blocks -> Data \cup {Torn}]
    <3>1. disk \in [Blocks -> Data \cup {Torn}] /\ cache[b] \in Data \cup {Torn}
      BY <1>3, <1>5, Zenon DEF TypeOK
    <3> QED
      BY <1>1, <1>2, <3>1, UpdateType, Zenon
  <2>6. refcnt' \in [Blocks -> Nat]
    <3>1. refcnt \in [Blocks -> Nat] /\ refcnt[b] # 0
      BY <1>5, SMTT(30) DEF TypeOK
    <3> QED
      BY <1>1, <1>2, <3>1, UnrefType, Zenon
  <2> QED
    BY <1>1, <2>1, <2>2, <2>4, <2>6, Zenon DEF TypeOK
<1>7. Control' /\ InFlightHeld'
  <2>1. Active' = Active /\ Committing' = Committing
    BY <1>1, SMTT(30) DEF Active, Committing
  <2> QED
    BY <1>1, <1>4, <2>1, ZenonT(30) DEF Control, InFlightHeld
<1>8. Headers'
  BY <1>1, <1>2, SMTT(30) DEF Headers, NoDup
<1>9. OnDisk'
  <2>1. \A i \in 1 .. tail + 1 : disk'[lh[i]] = dlog[i]
    <3>1. lh[tail + 1] = b /\ \A i \in 1 .. tail : lh[i] \in Blocks /\ lh[i] # b
      BY <1>2, SMTT(30) DEF TypeOK, b
    <3>2. \A i \in 1 .. tail : disk[lh[i]] = dlog[i]
      BY <1>1, Zenon DEF OnDisk
    <3>3. disk'[b] = cache[b] /\ \A c \in Blocks : c # b => disk'[c] = disk[c]
      BY <1>1, <1>2, Zenon DEF TypeOK
    <3> HIDE DEF Inv
    <3> QED
      BY <1>2, <1>5, <3>1, <3>2, <3>3, SMTT(30)
  <2>2. \A c \in Blocks : c \notin Logged(dhead) => disk'[c] \in Data
    BY <1>1, <1>2, <1>3, Zenon DEF OnDisk, TypeOK
  <2>3. Logged(dhead') = Logged(dhead)
    BY <1>1, Zenon DEF Logged
  <2>4. \A i \in 1 .. Len(dhead) : dlog[i] \in Data
    BY Zenon DEF OnDisk
  <2> HIDE DEF Inv
  <2> QED
    BY <1>1, <1>2, <1>3, <2>1, <2>2, <2>3, <2>4, ZenonT(30) DEF OnDisk
<1>10. RefcntExact' /\ Cached'
  BY <1>4, Zenon DEF RefcntExact, Cached
<1>11. Recovered'
  <2>1. refcnt'[b] = 0 /\ cache'[b] = disk'[b]
    <3>1. refcnt \in [Blocks -> Nat] /\ disk \in [Blocks -> Data \cup {Torn}]
      BY Zenon DEF TypeOK
    <3> HIDE DEF Inv
    <3> QED
      BY <1>1, <1>2, <1>5, <3>1 DEF Unref
  <2>2. \A c \in Blocks : c # b => refcnt'[c] = 0 /\ cache'[c] \in {NotCached, disk'[c]}
    BY <1>1, <1>2, <1>4, Zenon DEF Recovered, TypeOK, Unref, b
  <2> QED
    BY <1>1, <2>1, <2>2, ZenonT(30) DEF Recovered
<1> QED
  BY <1>6, <1>7, <1>8, <1>9, <1>10, <1>11, Zenon

LEMMA ClearInv ==
    ASSUME Inv, ~panic, clear
    PROVE  Inv'
<1>1. /\ pc = "clear" /\ pc' = "idle" /\ lh' = <<>> /\ dhead' = <<>>
      /\ UNCHANGED <<disk, dlog, cache, refcnt, holder, outstanding, committing,
                     st, wrote, tail, writing, panic>>
  BY Zenon DEF clear, bvars, pvars
<1>2. Recovering /\ ~Recovering'
  BY <1>1, Zenon DEF Recovering
<1> USE DEF Inv
<1>3. ~writing /\ Pinned' = {}
  BY <1>1, <1>2, SMTT(30) DEF Headers, Pinned
<1>4. TypeOK'
  BY <1>1, SMTT(30) DEF TypeOK, PCs
<1>5. Control'
  <2>1. Active' = Active /\ Committing' = Committing
    BY <1>1, SMTT(30) DEF Active, Committing
  <2> QED
    BY <1>1, <1>2, <2>1, Zenon DEF Control
<1>6. Headers'
  BY <1>1, SMTT(30) DEF Headers, NoDup
<1>7. \A b \in Blocks : disk[b] \in Data
  BY <1>1, Zenon DEF OnDisk, Logged
<1>8. OnDisk' /\ InFlightHeld'
  <2>1. InFlightHeld'
    BY <1>1, <1>3, Zenon DEF InFlightHeld
  <2>2. Len(dhead') = 0
    BY <1>1, Zenon
  <2> HIDE DEF Inv
  <2>3. OnDisk'
    BY <1>1, <1>7, <2>2 DEF OnDisk
  <2> QED
    BY <2>1, <2>3, Zenon
<1>9. RefcntExact'
  <2>1. ASSUME NEW b \in Blocks PROVE refcnt'[b] = 0 /\ holder'[b] = None /\ b \notin Pinned'
    <3>1. refcnt[b] = 0
      BY <1>2, <1>3, Zenon DEF Recovered
    <3>2. holder[b] = None
      BY <1>2, Zenon DEF Control
    <3> QED
      BY <1>1, <1>3, <3>1, <3>2, Zenon
  <2> HIDE DEF Inv
  <2> QED
    BY <2>1, SMTT(30) DEF RefcntExact
<1>10. Cached' /\ Recovered'
  BY <1>1, <1>2, <1>3, <1>7, ZenonT(30) DEF Cached, Recovered
<1> QED
  BY <1>4, <1>5, <1>6, <1>8, <1>9, <1>10, Zenon

LEMMA LogWriteInv ==
    ASSUME Inv, ~panic, NEW p \in Procs, NEW b \in Blocks, NEW d \in Data,
           log_write(p, b, d), outstanding # 0
    PROVE  Inv'
<1> USE DEF log_write, Inv, dvars, cvars
<1>1. pc = "idle" /\ pc' = "idle"
  BY Zenon DEF Control, Active, Committing, Recovering, TypeOK, PCs
<1>2. Pinned = Logged(lh) /\ Pinned' = Logged(lh')
  BY <1>1, Zenon DEF Pinned, Logged, Recovering
<1>5. outstanding # 0
  BY Zenon
<1>3. CASE CannotLog \/ b \in Logged(lh)
  <2>1. lh' = lh /\ refcnt' = refcnt
    BY <1>3, Zenon
  <2>2. TypeOK'
    BY <2>1 DEF TypeOK
  <2>3. Control'
    BY <1>5, <2>1, Zenon DEF Control, Active, Committing, Recovering
  <2>6. Headers' /\ OnDisk'
    BY <2>1, HeadersSame, OnDiskSame, Zenon
  <2>4. RefcntExact' /\ Recovered'
    BY <1>1, <1>2, <2>1, Zenon DEF RefcntExact, Recovered, Recovering
  <2>5. Cached'
    <3>1. panic' \/ b \in Pinned
      BY <1>2, <1>3, Zenon
    <3>2. Pinned' = Pinned /\ Pinned \subseteq Blocks
      BY <1>2, <2>1, PinnedFacts, Zenon
    <3>3. cache'[b] = d /\ \A c \in Blocks : c # b => cache'[c] = cache[c]
      BY Zenon DEF TypeOK
    <3>4. ~Recovering /\ disk' = disk
      BY <1>1, Zenon DEF Recovering
    <3>5. /\ \A c \in Pinned : cache[c] \in Data
          /\ \A c \in Blocks \ Pinned : disk[c] \in Data /\ cache[c] \in {NotCached, disk[c]}
      BY <3>4, Zenon DEF Cached
    <3> HIDE DEF log_write, Inv, dvars, cvars
    <3> QED
      BY <1>1, <3>1, <3>2, <3>3, <3>4, <3>5, Zenon DEF Cached
  <2>20. InFlightHeld'
    BY <1>1, Zenon DEF InFlightHeld, Headers
  <2> QED
    BY <2>20, <2>2, <2>3, <2>4, <2>5, <2>6, Zenon
<1>4. CASE ~CannotLog /\ b \notin Logged(lh)
  <2>1. lh' = Append(lh, b) /\ refcnt' = bpin(refcnt, b)
    BY <1>4, Zenon
  <2>2. TypeOK'
    BY <2>1 DEF TypeOK, bpin, Ref
  <2>3. Len(lh) < LOGSIZE
    BY <1>4 DEF CannotLog, TypeOK
  <2>4. Logged(lh') = Logged(lh) \cup {b}
    <3>1. Len(lh') = Len(lh) + 1 /\ lh'[Len(lh) + 1] = b
      BY <2>1 DEF TypeOK
    <3>2. \A i \in 1 .. Len(lh) : lh'[i] = lh[i]
      BY <2>1 DEF TypeOK
    <3>3. 1 .. Len(lh') = 1 .. Len(lh) \cup {Len(lh) + 1}
      BY <3>1 DEF TypeOK
    <3>4. \A c : c \in Logged(lh') <=> \E i \in 1 .. Len(lh) \cup {Len(lh) + 1} : c = lh'[i]
      BY <3>3, Zenon DEF Logged
    <3>5. \A c : c \in Logged(lh) <=> \E i \in 1 .. Len(lh) : c = lh[i]
      BY Zenon DEF Logged
    <3> HIDE DEF log_write, Inv, dvars, cvars
    <3>6. \A c : c \in Logged(lh') <=> c \in Logged(lh) \/ c = b
      BY <3>1, <3>2, <3>4, <3>5
    <3> QED
      BY <3>6, Zenon
  <2>5. NoDup(lh')
    <3>1. NoDup(lh) /\ lh \in Seq(Blocks) /\ \A i \in 1 .. Len(lh) : lh[i] # b
      BY <1>4, Zenon DEF Headers, TypeOK, Logged
    <3> HIDE DEF log_write, Inv, dvars, cvars
    <3> QED
      BY <2>1, <3>1 DEF NoDup
  <2>7. Control'
    BY <1>5, Zenon DEF Control, Active, Committing, Recovering
  <2>8. Headers'
    <3>1. Len(lh') <= LOGSIZE /\ Len(dhead) <= LOGSIZE
      BY <2>1, <2>3 DEF Headers, TypeOK
    <3>2. dhead' = dhead /\ dhead = <<>> /\ NoDup(dhead)
      BY <1>1, Zenon DEF Headers
    <3>3. tail' = 0 /\ ~writing' /\ outstanding' # 0
      BY <1>1, <1>5, Zenon DEF Headers
    <3>4. NoDup(dhead')
      BY <3>2, Zenon
    <3> HIDE DEF log_write, Inv, dvars, cvars
    <3> QED
      BY <1>1, <2>5, <3>1, <3>2, <3>3, <3>4, Zenon DEF Headers
  <2>9. OnDisk' /\ Recovered'
    <3>1. OnDisk'
      BY <1>1, OnDiskSame, Zenon
    <3>2. Recovered'
      BY <1>1, Zenon DEF Recovered, Recovering
    <3> QED
      BY <3>1, <3>2, Zenon
  <2>10. RefcntExact'
    <3>1. /\ refcnt'[b] = refcnt[b] + 1 /\ refcnt[b] \in Nat
          /\ \A c \in Blocks : c # b => refcnt'[c] = refcnt[c]
      BY <2>1, Zenon DEF TypeOK, bpin, Ref
    <3>2. ~Recovering /\ holder' = holder
      BY <1>1, Zenon DEF Recovering
    <3>3. \A c \in Blocks : refcnt[c] = (IF holder[c] = None THEN 0 ELSE 1)
                                      + (IF c \in Pinned THEN 1 ELSE 0)
      BY <3>2, Zenon DEF RefcntExact
    <3>4. b \notin Pinned /\ Pinned' = Pinned \cup {b}
      BY <1>2, <1>4, <2>4, Zenon
    <3> HIDE DEF log_write, Inv, dvars, cvars
    <3>5. ASSUME NEW c \in Blocks
          PROVE  refcnt'[c] = (IF holder'[c] = None THEN 0 ELSE 1)
                              + (IF c \in Pinned' THEN 1 ELSE 0)
      <4>1. CASE c = b
        BY <3>1, <3>2, <3>3, <3>4, <4>1
      <4>2. CASE c # b
        BY <3>1, <3>2, <3>3, <3>4, <4>2, Zenon
      <4> QED
        BY <4>1, <4>2, Zenon
    <3> QED
      BY <3>5, Zenon DEF RefcntExact
  <2>11. Cached'
    <3>1. Pinned' = Pinned \cup {b} /\ Pinned \subseteq Blocks
      BY <1>2, <2>4, PinnedFacts, Zenon
    <3>2. cache'[b] = d /\ \A c \in Blocks : c # b => cache'[c] = cache[c]
      BY Zenon DEF TypeOK
    <3>3. ~Recovering /\ disk' = disk
      BY <1>1, Zenon DEF Recovering
    <3>4. /\ \A c \in Pinned : cache[c] \in Data
          /\ \A c \in Blocks \ Pinned : disk[c] \in Data /\ cache[c] \in {NotCached, disk[c]}
      BY <3>3, Zenon DEF Cached
    <3> HIDE DEF log_write, Inv, dvars, cvars
    <3> QED
      BY <1>1, <3>1, <3>2, <3>3, <3>4, Zenon DEF Cached
  <2>20. InFlightHeld'
    BY <1>1, Zenon DEF InFlightHeld, Headers
  <2> QED
    BY <2>20, <2>2, <2>7, <2>8, <2>9, <2>10, <2>11, Zenon
<1> QED
  BY <1>3, <1>4, Zenon

-----------------------------------------------------------------------------
(* The steps that change, or rest on, the number of open transactions.     *)

(* What they use about the number of processes in a set.                   *)
Counts ==
    /\ Cardinality({}) = 0
    /\ \A S \in SUBSET Procs :
          /\ Cardinality(S) \in Nat
          /\ Cardinality(S) = 0 => S = {}
          /\ \A p \in S : Cardinality(S \ {p}) = Cardinality(S) - 1
          /\ \A p \in Procs \ S : Cardinality(S \cup {p}) = Cardinality(S) + 1

(* A process inside a transaction is counted.                              *)
LEMMA Busy ==
    ASSUME Counts, Inv, NEW p \in Procs, p \in Active
    PROVE  outstanding # 0
<1>1. Active \in SUBSET Procs
  BY Zenon DEF Active
<1> QED
  BY <1>1, Zenon DEF Inv, Control, Counts

LEMMA InitInv ==
    ASSUME Counts, Init
    PROVE  Inv
<1> USE DEF Init
<1>1. TypeOK
  <2>1. dlog \in [Slots -> Data \cup {Torn}]
    BY Zenon
  <2>2. disk \in [Blocks -> Data \cup {Torn}]
    BY Zenon
  <2>3. lh \in Seq(Blocks) /\ dhead \in Seq(Blocks)
    OBVIOUS
  <2>4. cache \in [Blocks -> Data \cup {NotCached, Torn}]
    BY Zenon
  <2>5. refcnt \in [Blocks -> Nat] /\ outstanding \in Nat /\ tail \in Nat
    BY Zenon
  <2> QED
    BY <2>1, <2>2, <2>3, <2>4, <2>5, Zenon DEF TypeOK, PCs
<1>2. Active = {}
  BY Zenon DEF Active
<1>3. Control
  <2>1. outstanding = Cardinality(Active)
    BY <1>2, Zenon DEF Counts
  <2>2. Committing = FALSE
    BY DEF Committing
  <2> QED
    BY <1>2, <2>1, <2>2, Zenon DEF Control, Recovering
<1>4. Headers
  BY DEF Headers, NoDup
<1>5. OnDisk
  BY DEF OnDisk, Logged
<1>6. RefcntExact /\ Cached /\ Recovered
  BY Zenon DEF RefcntExact, Cached, Recovered, Recovering
<1>20. InFlightHeld
  BY Zenon DEF InFlightHeld
<1> QED
  BY <1>20, <1>1, <1>3, <1>4, <1>5, <1>6, Zenon DEF Inv

LEMMA BeginOpInv ==
    ASSUME Counts, Inv, ~panic, NEW p \in Procs, begin_op(p)
    PROVE  Inv'
<1>1. \/ st' = [st EXCEPT ![p] = "asleep"] /\ outstanding' = outstanding
      \/ /\ st' = [st EXCEPT ![p] = "in"] /\ outstanding' = outstanding + 1
         /\ ~committing
  BY Zenon DEF begin_op, MustWait
<1>2. /\ ~Recovering /\ st[p] \in {"out", "woken"}
      /\ UNCHANGED <<disk, dlog, dhead, cache, refcnt, holder, lh, committing,
                     wrote, pc, tail, writing, panic>>
  BY Zenon DEF begin_op, dvars, bvars, cvars
<1> USE DEF Inv
<1>3. TypeOK'
  <2>1. outstanding' \in Nat
    BY <1>1 DEF TypeOK
  <2>2. st' \in [Procs -> {"out", "woken", "asleep", "in", "commit"}]
    BY <1>1, ZenonT(30) DEF TypeOK
  <2> QED
    BY <1>2, <2>1, <2>2, Zenon DEF TypeOK
<1>4. Control'
  <2>1. Committing' = Committing /\ Recovering' = Recovering
    BY <1>2, Zenon DEF Committing, Recovering
  <2>2. \A q \in Procs : st'[q] = "commit" <=> st[q] = "commit"
    BY <1>1, <1>2, Zenon DEF TypeOK
  <2>3. outstanding' = Cardinality(Active') /\ (committing' => Active' = {})
    <3>1. CASE outstanding' = outstanding /\ st' = [st EXCEPT ![p] = "asleep"]
      <4>1. Active' = Active
        BY <1>2, <3>1, Zenon DEF Active, TypeOK
      <4> QED
        BY <1>2, <3>1, <4>1, Zenon DEF Control
    <3>2. CASE outstanding' = outstanding + 1 /\ ~committing /\ st' = [st EXCEPT ![p] = "in"]
      <4>1. Active' = Active \cup {p} /\ p \notin Active
        BY <1>2, <3>2 DEF Active, TypeOK
      <4>2. Cardinality(Active') = Cardinality(Active) + 1
        <5>1. Active \in SUBSET Procs
          BY Zenon DEF Active
        <5> QED
          BY <4>1, <5>1, Zenon DEF Counts
      <4> QED
        BY <1>2, <3>2, <4>2, Zenon DEF Control
    <3> QED
      BY <1>1, <3>1, <3>2, Zenon
  <2> QED
    BY <1>2, <2>1, <2>2, <2>3, Zenon DEF Control
<1>5. Headers' /\ OnDisk'
  <2>1. outstanding' = 0 => outstanding = 0
    BY <1>1 DEF TypeOK
  <2> QED
    BY <1>2, <2>1, HeadersSame, OnDiskSame, Zenon
<1>6. Pinned' = Pinned
  BY <1>2, Zenon DEF Pinned, Recovering
<1>7. RefcntExact' /\ Cached' /\ Recovered'
  BY <1>2, <1>6, Zenon DEF RefcntExact, Cached, Recovered, Recovering
<1>20. InFlightHeld'
  BY <1>1, <1>2, SMTT(30) DEF InFlightHeld, Recovering, TypeOK
<1> QED
  BY <1>20, <1>3, <1>4, <1>5, <1>7, Zenon

LEMMA EndOpInv ==
    ASSUME Counts, Inv, ~panic, NEW p \in Procs, end_op(p)
    PROVE  Inv'
<1> USE DEF end_op, Inv, dvars, bvars
<1>1. p \in Active /\ pc = "idle" /\ ~committing
  BY Zenon DEF Control, Active, Committing, Recovering, TypeOK, PCs
<1>2. Active' = Active \ {p}
  BY Zenon DEF Active, Woken, TypeOK
<1>3. Cardinality(Active') = outstanding - 1
  <2>1. Active \in SUBSET Procs
    BY Zenon DEF Active
  <2> QED
    BY <1>1, <1>2, <2>1, Zenon DEF Control, Counts
<1>4. outstanding' \in Nat
  <2>1. Active' \in SUBSET Procs
    BY Zenon DEF Active
  <2> QED
    BY <1>3, <2>1, Zenon DEF Counts
<1>5. Pinned' = Pinned
  BY <1>1, Zenon DEF Pinned, Recovering, commit_start
<1>6. TypeOK'
  BY <1>1, <1>4, Zenon DEF TypeOK, PCs, commit_start, Woken
<1>7. CASE outstanding' = 0
  <2>1. Active' = {}
    <3>1. Active' \in SUBSET Procs
      BY Zenon DEF Active
    <3> QED
      BY <1>3, <1>7, <3>1, Zenon DEF Counts
  <2>2. committing' = TRUE /\ Committing' = TRUE
    BY <1>7, Zenon DEF Committing, commit_start
  <2>3. st' = [st EXCEPT ![p] = "commit"] /\ ~Recovering'
    BY <1>7, Zenon DEF Recovering, commit_start
  <2>4. \A q \in Procs : st[q] # "commit"
    BY <1>1, Zenon DEF Control
  <2>5. Control'
    <3>1. st'[p] = "commit" /\ \A q \in Procs : st'[q] = "commit" => q = p
      BY <2>3, <2>4, Zenon DEF TypeOK
    <3>2. ~panic'
      BY <1>1, Zenon
    <3>3. \E q \in Procs : st'[q] = "commit"
      BY <3>1, Zenon
    <3>4. \A q, r \in Procs : st'[q] = "commit" /\ st'[r] = "commit" => q = r
      BY <3>1, Zenon
    <3>5. outstanding' = Cardinality(Active')
      BY <1>3, Zenon
    <3> HIDE DEF end_op, Inv
    <3> QED
      BY <2>1, <2>2, <2>3, <3>2, <3>3, <3>4, <3>5, Zenon DEF Control
  <2>6. Headers'
    <3>1. /\ NoDup(lh) /\ NoDup(dhead) /\ Len(lh) <= LOGSIZE /\ Len(dhead) <= LOGSIZE
          /\ dhead = <<>> /\ tail = 0 /\ ~writing
      BY <1>1, Zenon DEF Headers
    <3>2. lh' = lh /\ dhead' = dhead /\ tail' = tail /\ writing' = writing
      BY <1>1, Zenon
    <3>3. pc' = IF lh = <<>> THEN "done" ELSE "write_log"
      BY <1>7, ZenonT(30) DEF commit_start
    <3>4. lh # <<>> => 0 < Len(lh)
      BY DEF TypeOK
    <3>5. NoDup(lh') /\ NoDup(dhead')
      BY <3>1, <3>2, Zenon
    <3> HIDE DEF end_op, Inv
    <3> QED
      BY <3>1, <3>2, <3>3, <3>4, <3>5, Zenon DEF Headers
  <2>7. OnDisk'
    BY <1>1, <1>7, Zenon DEF OnDisk, Logged, commit_start
  <2>8. RefcntExact' /\ Recovered'
    BY <1>1, <1>5, <2>3, Zenon DEF RefcntExact, Recovered, Recovering
  <2>9. Cached'
    <3>1. ~panic' /\ pc' \in {"done", "write_log"} /\ tail' = 0
      BY <1>1, <1>7, Zenon DEF commit_start, Headers
    <3>2. ~Recovering /\ ~panic /\ cache' = cache /\ disk' = disk /\ 1 .. tail' = {}
      BY <1>1, <3>1 DEF Recovering
    <3>3. /\ \A b \in Pinned : cache[b] \in Data
          /\ \A b \in Blocks \ Pinned : disk[b] \in Data /\ cache[b] \in {NotCached, disk[b]}
      BY <3>2, Zenon DEF Cached
    <3> HIDE DEF end_op, Inv
    <3> QED
      BY <1>5, <3>1, <3>2, <3>3, Zenon DEF Cached
  <2>20. InFlightHeld'
    BY <1>1, Zenon DEF InFlightHeld, Headers
  <2> QED
    BY <2>20, <1>6, <2>5, <2>6, <2>7, <2>8, <2>9, Zenon
<1>8. CASE outstanding' # 0
  <2>1. pc' = pc /\ committing' = committing
    BY <1>8, Zenon
  <2>2. Control'
    <3>1. \A q \in Procs : st'[q] # "commit"
      BY <1>1, <1>8, ZenonT(30) DEF Control, Woken, TypeOK
    <3>2. Committing' = Committing /\ Recovering' = Recovering /\ ~Recovering
      BY <1>1, <2>1, Zenon DEF Committing, Recovering
    <3> QED
      BY <1>1, <1>3, <2>1, <3>1, <3>2, Zenon DEF Control
  <2>3. Headers' /\ OnDisk'
    BY <1>1, <1>8, <2>1, HeadersSame, OnDiskSame, Zenon
  <2>4. RefcntExact' /\ Recovered'
    BY <1>1, <1>5, <2>1, Zenon DEF RefcntExact, Recovered, Recovering
  <2>5. Cached'
    BY <1>1, <1>5, <2>1, Zenon DEF Cached, Recovering
  <2>20. InFlightHeld'
    BY <1>1, Zenon DEF InFlightHeld, Headers
  <2> QED
    BY <2>20, <1>6, <2>2, <2>3, <2>4, <2>5, Zenon
<1> QED
  BY <1>7, <1>8, Zenon

LEMMA CrashInv ==
    ASSUME Counts, Inv, Crash
    PROVE  Inv'
<1> USE DEF Crash, dvars
<1>1. Recovering'
  BY Zenon DEF Recovering
<1>2. TypeOK'
  <2>1. cache' \in [Blocks -> Data \cup {NotCached, Torn}]
    BY Zenon
  <2>2. refcnt' \in [Blocks -> Nat] /\ holder' \in [Blocks -> Procs \cup {None}]
    BY Zenon
  <2>3. lh' \in Seq(Blocks)
    OBVIOUS
  <2>4. wrote' \in [Procs -> SUBSET Blocks]
        /\ st' \in [Procs -> {"out", "woken", "asleep", "in", "commit"}]
    BY Zenon
  <2> QED
    BY <2>1, <2>2, <2>3, <2>4, Zenon DEF Inv, TypeOK, PCs
<1>3. Control'
  <2>1. Active' = {}
    BY Zenon DEF Active
  <2>2. Committing' = FALSE
    BY DEF Committing
  <2> QED
    BY <2>1, <2>2, Zenon DEF Control, Counts
<1>4. Headers'
  BY DEF Inv, Headers, NoDup
<1>5. OnDisk' /\ InFlightHeld'
  <2>1. OnDisk'
    BY OnDiskSame, Zenon DEF Inv
  <2>2. InFlightHeld'
    BY <1>1, Zenon DEF InFlightHeld
  <2> QED
    BY <2>1, <2>2, Zenon
<1>6. RefcntExact' /\ Cached' /\ Recovered'
  BY <1>1, Zenon DEF RefcntExact, Cached, Recovered
<1> QED
  BY <1>2, <1>3, <1>4, <1>5, <1>6, Zenon DEF Inv

LEMMA NextInv ==
    ASSUME Counts, Inv, [Next]_vars
    PROVE  Inv'
<1>1. CASE Step
  <2> USE <1>1 DEF Step
  <2>1. ASSUME NEW p \in Procs, NEW b \in Blocks, bread(p, b) PROVE Inv'
    BY <2>1, BreadInv, Zenon
  <2>2. ASSUME NEW p \in Procs, NEW b \in Blocks, brelse(p, b) PROVE Inv'
    BY <2>2, BrelseInv, Zenon
  <2>3. ASSUME NEW b \in Blocks, Recycle(b) PROVE Inv'
    BY <2>3, RecycleInv, Zenon
  <2>4. ASSUME NEW p \in Procs, begin_op(p) PROVE Inv'
    BY <2>4, BeginOpInv, Zenon
  <2>5. ASSUME NEW p \in Procs, end_op(p) PROVE Inv'
    BY <2>5, EndOpInv, Zenon
  <2>6. ASSUME NEW p \in Procs, NEW b \in Blocks, NEW d \in Data, log_write(p, b, d)
        PROVE  Inv'
    <3>1. outstanding # 0
      BY <2>6, Busy, Zenon DEF log_write, Active
    <3> QED
      BY <2>6, <3>1, LogWriteInv, Zenon
  <2>7. ASSUME NEW p \in Procs, commit(p) PROVE Inv'
    BY <2>7, WriteLogStartInv, WriteLogEndInv, WriteHeadInv, InstallStartInv,
       InstallEndInv, EraseInv, EndCommitInv, Zenon DEF commit
  <2>8. ASSUME recover_from_log PROVE Inv'
    BY <2>8, ReadHeadInv, ReinstallStartInv, ReinstallEndInv, ClearInv, Zenon
       DEF recover_from_log
  <2> QED
    BY <2>1, <2>2, <2>3, <2>4, <2>5, <2>6, <2>7, <2>8, Zenon
<1>2. CASE Crash
  BY <1>2, CrashInv, Zenon
<1>3. CASE UNCHANGED vars
  <2>1. UNCHANGED <<disk, dlog, dhead, cache, refcnt, holder, lh, outstanding, committing,
                    st, wrote, pc, tail, writing, panic>>
    BY <1>3, Zenon DEF vars, dvars, bvars, lvars, pvars, cvars
  <2>2. Recovering' = Recovering /\ Committing' = Committing /\ Active' = Active
    BY <2>1, Zenon DEF Recovering, Committing, Active
  <2>3. Pinned' = Pinned
    BY <2>1, <2>2, Zenon DEF Pinned
  <2>4. TypeOK'
    BY <2>1, Zenon DEF Inv, TypeOK
  <2>5. Control' /\ InFlightHeld'
    BY <2>1, <2>2, ZenonT(30) DEF Inv, Control, InFlightHeld
  <2>6. Headers' /\ OnDisk'
    BY <2>1, HeadersSame, OnDiskSame, Zenon DEF Inv
  <2>7. RefcntExact' /\ Cached' /\ Recovered'
    BY <2>1, <2>2, <2>3, Zenon DEF Inv, RefcntExact, Cached, Recovered
  <2> QED
    BY <2>4, <2>5, <2>6, <2>7, Zenon DEF Inv
<1> QED
  BY <1>1, <1>2, <1>3, Zenon DEF Next

-----------------------------------------------------------------------------
(* Refinement of TxDisk.                                                   *)

(* What a reboot would restore, block by block.                            *)
LEMMA DurableFacts ==
    ASSUME Inv
    PROVE  /\ \A i \in 1 .. Len(dhead) : dhead[i] \in Blocks /\ Durable[dhead[i]] = dlog[i]
           /\ \A b \in Blocks : b \notin Logged(dhead) => Durable[b] = disk[b]
           /\ Durable \in [Blocks -> Data]
<1>1. ASSUME NEW i \in 1 .. Len(dhead)
      PROVE  dhead[i] \in Blocks /\ Durable[dhead[i]] = dlog[i]
  <2>1. dhead[i] \in Blocks /\ \E j \in 1 .. Len(dhead) : dhead[j] = dhead[i]
    BY DEF Inv, TypeOK
  <2>2. (CHOOSE j \in 1 .. Len(dhead) : dhead[j] = dhead[i]) = i
    BY SlotOf DEF Inv, TypeOK, Headers
  <2> QED
    BY <2>1, <2>2, Zenon DEF Durable
<1>2. ASSUME NEW b \in Blocks, b \notin Logged(dhead) PROVE Durable[b] = disk[b]
  BY <1>2, Zenon DEF Durable, Logged
<1>3. ASSUME NEW b \in Blocks PROVE Durable[b] \in Data
  <2>1. CASE b \in Logged(dhead)
    <3>1. PICK i \in 1 .. Len(dhead) : dhead[i] = b
      BY <2>1, Zenon DEF Logged
    <3> QED
      BY <1>1, <3>1, Zenon DEF Inv, OnDisk
  <2>2. CASE b \notin Logged(dhead)
    BY <1>2, <2>2, Zenon DEF Inv, OnDisk
  <2> QED
    BY <2>1, <2>2, Zenon
<1>4. Durable = [b \in Blocks |-> Durable[b]]
  BY Zenon DEF Durable
<1> QED
  BY <1>1, <1>2, <1>3, <1>4, Zenon

(* Once all is installed, the disk is what a crash would leave.            *)
LEMMA InstalledAll ==
    ASSUME Inv, pc \in {"erase", "clear"}
    PROVE  \A c \in Blocks : Durable[c] = disk[c]
<1> TAKE c \in Blocks
<1>1. CASE c \notin Logged(dhead)
  BY <1>1, DurableFacts, Zenon
<1>2. CASE c \in Logged(dhead)
  <2>1. PICK i \in 1 .. Len(dhead) : dhead[i] = c
    BY <1>2, Zenon DEF Logged
  <2>2. disk[dhead[i]] = dlog[i]
    BY Zenon DEF Inv, OnDisk
  <2>3. Durable[dhead[i]] = dlog[i]
    BY DurableFacts, Zenon
  <2> QED
    BY <2>1, <2>2, <2>3, Zenon
<1> QED
  BY <1>1, <1>2, Zenon

(* Steps that change neither header nor slots named by it, nor the home    *)
(* of a block outside the header, change nothing a reboot restores.        *)
LEMMA DurableSame ==
    ASSUME Inv, dhead' = dhead,
           \A i \in 1 .. Len(dhead) : dlog'[i] = dlog[i],
           \A b \in Blocks : b \notin Logged(dhead) => disk'[b] = disk[b]
    PROVE  Durable' = Durable
<1> SUFFICES ASSUME NEW b \in Blocks PROVE Durable'[b] = Durable[b]
  BY Zenon DEF Durable
<1>1. CASE \E i \in 1 .. Len(dhead) : dhead[i] = b
  <2>1. PICK i \in 1 .. Len(dhead) : dhead[i] = b
    BY <1>1, Zenon
  <2>2. (CHOOSE j \in 1 .. Len(dhead) : dhead[j] = b) = i
    BY <2>1, SlotOf DEF Inv, TypeOK, Headers
  <2> QED
    BY <1>1, <2>2 DEF Durable
<1>2. CASE ~ \E i \in 1 .. Len(dhead) : dhead[i] = b
  BY <1>2, Zenon DEF Durable, Logged
<1> QED
  BY <1>1, <1>2, Zenon

(* With an empty header a reboot restores the home locations.              *)
LEMMA DurableHome ==
    ASSUME Inv, dhead = <<>>
    PROVE  Durable = [b \in Blocks |-> disk[b]]
BY DEF Durable

(* What processes read while the system runs.                              *)
LEMMA MemRunning ==
    ASSUME ~Recovering
    PROVE  Mem = [b \in Blocks |-> IF cache[b] = NotCached THEN disk[b] ELSE cache[b]]
BY Zenon DEF Mem

(* The steps on buffers are invisible.                                     *)
LEMMA RefineBuffers ==
    ASSUME Inv, ~panic, NEW b \in Blocks,
           Recycle(b) \/ \E p \in Procs : bread(p, b) \/ brelse(p, b)
    PROVE  UNCHANGED <<Mem, Durable, Active>>
<1>1. UNCHANGED <<disk, dlog, dhead, st, pc>>
  BY Zenon DEF Recycle, bread, brelse, dvars, pvars, cvars
<1>2. Durable' = Durable /\ Active' = Active
  BY <1>1, Zenon DEF Durable, Active
<1>3. CASE Recovering
  BY <1>1, <1>2, <1>3, Zenon DEF Mem, Recovering
<1>4. CASE ~Recovering
  <2>1. \A c \in Blocks : (IF cache'[c] = NotCached THEN disk'[c] ELSE cache'[c])
                        = (IF cache[c] = NotCached THEN disk[c] ELSE cache[c])
    <3>1. CASE Recycle(b)
      <4>1. b \notin Pinned
        BY <1>4, <3>1, RefcntFacts DEF Inv, Recycle
      <4>2. cache[b] \in {NotCached, disk[b]}
        BY <1>4, <4>1, Zenon DEF Inv, Cached
      <4> QED
        BY <1>1, <3>1, <4>2, Zenon DEF Recycle, Inv, TypeOK
    <3>2. ASSUME NEW p \in Procs, bread(p, b) \/ brelse(p, b)
          PROVE  \A c \in Blocks : cache'[c] = IF cache[c] = NotCached /\ cache'[c] # NotCached
                                               THEN disk[c] ELSE cache[c]
      BY <3>2 DEF bread, brelse, Inv, TypeOK
    <3> QED
      BY <1>1, <3>1, <3>2, Zenon
  <2> QED
    BY <1>1, <1>2, <1>4, <2>1, Zenon DEF Mem, Recovering
<1> QED
  BY <1>3, <1>4, Zenon

LEMMA RefineBegin ==
    ASSUME Inv, NEW p \in Procs, begin_op(p)
    PROVE  Tx!TxBegin(p) \/ UNCHANGED <<Mem, Durable, Active>>
<1>1. \/ st' = [st EXCEPT ![p] = "asleep"]
      \/ st' = [st EXCEPT ![p] = "in"]
  BY Zenon DEF begin_op
<1>2. UNCHANGED <<disk, dlog, dhead, cache, pc>> /\ st[p] \in {"out", "woken"}
  BY Zenon DEF begin_op, dvars, bvars, cvars
<1>3. Mem' = Mem /\ Durable' = Durable
  BY <1>2, Zenon DEF Mem, Durable, Recovering
<1>4. CASE st' = [st EXCEPT ![p] = "asleep"]
  <2>1. Active' = Active
    BY <1>2, <1>4, Zenon DEF Active, Inv, TypeOK
  <2> QED
    BY <1>3, <2>1, Zenon
<1>5. CASE st' = [st EXCEPT ![p] = "in"]
  <2>1. Active' = Active \cup {p} /\ p \notin Active
    BY <1>2, <1>5 DEF Active, Inv, TypeOK
  <2> QED
    BY <1>3, <2>1, Zenon DEF Tx!TxBegin
<1> QED
  BY <1>1, <1>4, <1>5, Zenon

LEMMA RefineWrite ==
    ASSUME Inv, NEW p \in Procs, NEW b \in Blocks, NEW d \in Data,
           log_write(p, b, d)
    PROVE  Tx!TxWrite(p)
<1>1. /\ UNCHANGED <<disk, dlog, dhead, st, pc>> /\ st[p] = "in"
      /\ cache' = [cache EXCEPT ![b] = d]
  BY Zenon DEF log_write, dvars, cvars
<1>2. ~Recovering /\ ~Recovering'
  BY <1>1, Zenon DEF Inv, Control, Recovering
<1>3. Durable' = Durable /\ Active' = Active /\ p \in Active
  BY <1>1, Zenon DEF Durable, Active
<1>4. Mem' = [Mem EXCEPT ![b] = d]
  BY <1>1, <1>2, Zenon DEF Mem, Inv, TypeOK
<1> QED
  BY <1>3, <1>4, Zenon DEF Tx!TxWrite

LEMMA RefineEnd ==
    ASSUME Inv, NEW p \in Procs, end_op(p)
    PROVE  Tx!TxEnd(p)
<1>1. UNCHANGED <<disk, dlog, dhead, cache>> /\ st[p] = "in"
  BY Zenon DEF end_op, dvars, bvars
<1>2. ~Recovering /\ ~Recovering'
  BY <1>1, Zenon DEF Inv, Control, Recovering, end_op, commit_start
<1>3. Mem' = Mem /\ Durable' = Durable
  BY <1>1, <1>2, Zenon DEF Mem, Durable
<1>4. Active' = Active \ {p} /\ p \in Active
  BY <1>1, Zenon DEF Active, end_op, Woken, Inv, TypeOK
<1> QED
  BY <1>3, <1>4, Zenon DEF Tx!TxEnd

(* write_head() is the commit point.                                       *)
LEMMA RefineWriteHead ==
    ASSUME Inv, ~panic, NEW p \in Procs, write_head(p)
    PROVE  Tx!TxCommit
<1>1. /\ pc = "write_head" /\ pc' = "install" /\ dhead' = lh
      /\ UNCHANGED <<disk, dlog, cache, st>>
  BY Zenon DEF write_head, bvars, pvars
<1>2. Inv'
  BY WriteHeadInv, Zenon
<1>3. ~Recovering /\ ~Recovering' /\ Pinned = Logged(lh)
  BY <1>1, Zenon DEF Recovering, Pinned, Logged
<1>4. Mem' = Mem /\ Active' = Active
  BY <1>1, <1>3, Zenon DEF Mem, Active
<1>5. Active = {}
  BY <1>1, Zenon DEF Inv, Control, Committing
<1>6. \A b \in Blocks : Durable'[b] = Mem[b]
  <2> TAKE b \in Blocks
  <2>1. CASE b \in Logged(lh)
    <3>1. PICK i \in 1 .. Len(lh) : lh[i] = b
      BY <2>1, Zenon DEF Logged
    <3>2. (CHOOSE j \in 1 .. Len(lh) : lh[j] = b) = i
      BY <3>1, SlotOf DEF Inv, TypeOK, Headers
    <3>3. Durable'[b] = dlog[i]
      BY <1>1, <3>1, <3>2, Zenon DEF Durable
    <3>4. dlog[i] = cache[b] /\ cache[b] # NotCached
      BY <1>1, <1>3, <2>1, <3>1, Zenon DEF Inv, Cached
    <3> QED
      BY <1>3, <3>3, <3>4, MemRunning, Zenon
  <2>2. CASE b \notin Logged(lh)
    <3>1. Durable'[b] = disk[b]
      BY <1>1, <2>2, Zenon DEF Durable, Logged
    <3>2. cache[b] \in {NotCached, disk[b]}
      BY <1>3, <2>2, Zenon DEF Inv, Cached
    <3> QED
      BY <1>3, <3>1, <3>2, MemRunning, Zenon
  <2> QED
    BY <2>1, <2>2, Zenon
<1>7. Durable' = Mem
  BY <1>3, <1>6, Zenon DEF Durable, Mem
<1> QED
  BY <1>4, <1>5, <1>7, Zenon DEF Tx!TxCommit

(* The other steps of commit() are invisible: they move data from the      *)
(* cache to the log, and from the log to its home.                         *)
LEMMA RefineCommit ==
    ASSUME Inv, ~panic, NEW p \in Procs,
           \/ write_log_start(p) \/ write_log_end(p) \/ install_start(p)
           \/ install_end(p) \/ erase(p) \/ end_commit(p)
    PROVE  UNCHANGED <<Mem, Durable, Active>>
<1> DEFINE b == lh[tail + 1]
<1>1. CASE write_log_start(p) \/ write_log_end(p)
  <2>1. /\ pc = "write_log" /\ pc' \in {"write_log", "write_head"}
        /\ UNCHANGED <<disk, dhead, st>>
        /\ cache' = cache \/ cache' = [cache EXCEPT ![b] = IF @ = NotCached THEN disk[b] ELSE @]
    BY <1>1, Zenon DEF write_log_start, write_log_end, pvars
  <2>2. dhead = <<>> /\ b \in Blocks /\ ~Recovering /\ ~Recovering'
    BY <2>1, LoopFacts, Zenon DEF Inv, Headers, Recovering
  <2>3. Durable' = Durable /\ Active' = Active
    BY <2>1, <2>2, DurableSame, SMTT(30) DEF Active
  <2>4. Mem' = Mem
    BY <2>1, <2>2 DEF Mem, Inv, TypeOK
  <2> QED
    BY <2>3, <2>4, Zenon
<1>2. CASE install_start(p) \/ install_end(p)
  <2>1. /\ pc = "install" /\ pc' \in {"install", "erase"}
        /\ UNCHANGED <<dlog, dhead, st>>
        /\ \/ cache' = [cache EXCEPT ![b] = dlog[tail + 1]]
           \/ cache' = cache
        /\ \E x : disk' = [disk EXCEPT ![b] = x]
    BY <1>2, Zenon DEF install_start, install_end, pvars
  <2>2. /\ dhead = lh /\ b \in Blocks /\ ~Recovering /\ ~Recovering' /\ b \in Pinned
        /\ tail + 1 \in 1 .. Len(lh) /\ tail + 1 \in tail + 1 .. Len(lh)
    BY <2>1, LoopFacts DEF Inv, Headers, Recovering
  <2>3. dlog[tail + 1] = cache[b] /\ cache[b] \in Data
    BY <2>1, <2>2, Zenon DEF Inv, Cached
  <2>4. cache' = cache
    BY <2>1, <2>3 DEF Inv, TypeOK
  <2>5. \A c \in Blocks : c # b => disk'[c] = disk[c]
    BY <2>1, Zenon DEF Inv, TypeOK
  <2>6. b \in Logged(dhead)
    BY <2>2, Zenon DEF Logged
  <2>7. Durable' = Durable
    BY <2>1, <2>5, <2>6, DurableSame, Zenon
  <2>8. Mem' = Mem
    BY <2>2, <2>3, <2>4, <2>5, Zenon DEF Mem
  <2> QED
    BY <2>1, <2>7, <2>8, Zenon DEF Active
<1>3. CASE erase(p)
  <2>1. /\ pc = "erase" /\ pc' = "done" /\ dhead' = <<>>
        /\ UNCHANGED <<disk, dlog, cache, st>>
    BY <1>3, Zenon DEF erase, bvars, pvars
  <2>2. Inv'
    BY <1>3, EraseInv, Zenon
  <2>3. \A c \in Blocks : Durable[c] = disk[c]
    BY <2>1, InstalledAll, Zenon
  <2>4. Durable' = [c \in Blocks |-> disk[c]]
    <3>1. 1 .. Len(dhead') = {}
      BY <2>1
    <3> QED
      BY <2>1, <3>1, Zenon DEF Durable
  <2>5. Durable' = Durable
    BY <2>3, <2>4, Zenon DEF Durable
  <2> QED
    BY <2>1, <2>5, Zenon DEF Mem, Recovering, Active
<1>4. CASE end_commit(p)
  <2>1. /\ pc = "done" /\ pc' = "idle" /\ st[p] = "commit"
        /\ st' = Woken([st EXCEPT ![p] = "out"])
        /\ UNCHANGED <<disk, dlog, dhead, cache>>
    BY <1>4, Zenon DEF end_commit, dvars, bvars
  <2>2. Active' = Active
    BY <2>1, Zenon DEF Active, Woken, Inv, TypeOK
  <2> QED
    BY <2>1, <2>2, Zenon DEF Mem, Durable, Recovering
<1> QED
  BY <1>1, <1>2, <1>3, <1>4, Zenon

(* Recovery is invisible, also when a crash interrupts it.                 *)
LEMMA RefineRecover ==
    ASSUME Inv, ~panic, recover_from_log
    PROVE  UNCHANGED <<Mem, Durable, Active>>
<1> DEFINE b == lh[tail + 1]
<1>1. Recovering /\ st' = st
  BY Zenon DEF recover_from_log, read_head, reinstall_start, reinstall_end, clear,
     Recovering, pvars
<1>2. CASE read_head
  <2>1. UNCHANGED <<disk, dlog, dhead>> /\ Recovering'
    BY <1>2, Zenon DEF read_head, dvars, Recovering
  <2>2. Durable' = Durable
    BY <2>1, Zenon DEF Durable
  <2> QED
    BY <1>1, <2>1, <2>2, Zenon DEF Mem, Active
<1>3. CASE reinstall_start \/ reinstall_end
  <2>1. /\ pc = "reinstall" /\ Recovering' /\ UNCHANGED <<dlog, dhead>>
        /\ \E x : disk' = [disk EXCEPT ![b] = x]
    BY <1>3, Zenon DEF reinstall_start, reinstall_end, Recovering
  <2>2. b \in Logged(dhead)
    BY <2>1, LoopFacts, Zenon DEF Inv, Headers, Logged
  <2>3. \A c \in Blocks : c # b => disk'[c] = disk[c]
    BY <2>1, Zenon DEF Inv, TypeOK
  <2>4. Durable' = Durable
    BY <2>1, <2>2, <2>3, DurableSame, Zenon
  <2> QED
    BY <1>1, <2>1, <2>4, Zenon DEF Mem, Active
<1>4. CASE clear
  <2>1. /\ pc = "clear" /\ pc' = "idle" /\ dhead' = <<>>
        /\ UNCHANGED <<disk, dlog, cache>>
    BY <1>4, Zenon DEF clear, bvars
  <2>2. \A c \in Blocks : Durable[c] = disk[c]
    BY <2>1, InstalledAll, Zenon
  <2>3. Durable' = [c \in Blocks |-> disk[c]]
    <3>1. 1 .. Len(dhead') = {}
      BY <2>1
    <3> QED
      BY <2>1, <3>1, Zenon DEF Durable
  <2>4. Durable' = Durable
    BY <2>2, <2>3, Zenon DEF Durable
  <2>5. ~writing /\ ~Recovering'
    BY <2>1, Zenon DEF Inv, Headers, Recovering
  <2>6. \A c \in Blocks : cache[c] \in {NotCached, disk[c]}
    BY <1>1, <2>5, Zenon DEF Inv, Recovered
  <2>7. Mem' = [c \in Blocks |-> disk[c]]
    BY <2>1, <2>5, <2>6, Zenon DEF Mem
  <2> QED
    BY <1>1, <2>3, <2>4, <2>7, Zenon DEF Mem, Active
<1> QED
  BY <1>2, <1>3, <1>4, Zenon DEF recover_from_log

LEMMA RefineCrash ==
    ASSUME Inv, Crash
    PROVE  Tx!TxCrash
<1>1. Durable' = Durable
  BY Zenon DEF Crash, dvars, Durable
<1>2. Mem' = Durable'
  BY Zenon DEF Crash, Mem, Recovering
<1>3. Active' = {}
  BY Zenon DEF Crash, Active
<1> QED
  BY <1>1, <1>2, <1>3, Zenon DEF Tx!TxCrash

LEMMA RefineNext == Inv /\ [Next]_vars => [Tx!TxNext]_(Tx!txvars)
<1> SUFFICES ASSUME Inv, [Next]_vars PROVE Tx!TxNext \/ UNCHANGED <<Mem, Durable, Active>>
  BY Zenon DEF Tx!txvars
<1>1. CASE Step
  <2> USE <1>1 DEF Step
  <2> DEFINE Goal == Tx!TxNext \/ UNCHANGED <<Mem, Durable, Active>>
  <2>1. ASSUME NEW b \in Blocks, Recycle(b) \/ \E p \in Procs : bread(p, b) \/ brelse(p, b)
        PROVE  Goal
    BY <2>1, RefineBuffers, Zenon
  <2>2. ASSUME NEW p \in Procs, begin_op(p) PROVE Goal
    BY <2>2, RefineBegin, Zenon DEF Tx!TxNext
  <2>3. ASSUME NEW p \in Procs, end_op(p) PROVE Goal
    BY <2>3, RefineEnd, Zenon DEF Tx!TxNext
  <2>4. ASSUME NEW p \in Procs, NEW b \in Blocks, NEW d \in Data, log_write(p, b, d)
        PROVE  Goal
    BY <2>4, RefineWrite, Zenon DEF Tx!TxNext
  <2>5. ASSUME NEW p \in Procs, commit(p) PROVE Goal
    BY <2>5, RefineCommit, RefineWriteHead, Zenon DEF commit, Tx!TxNext
  <2>6. ASSUME recover_from_log PROVE Goal
    BY <2>6, RefineRecover, Zenon
  <2> QED
    BY <2>1, <2>2, <2>3, <2>4, <2>5, <2>6, Zenon
<1>2. CASE Crash
  BY <1>2, RefineCrash, Zenon DEF Tx!TxNext
<1>3. CASE UNCHANGED vars
  BY <1>3, Zenon DEF vars, dvars, bvars, pvars, cvars, Mem, Durable, Active, Recovering
<1> QED
  BY <1>1, <1>2, <1>3, Zenon DEF Next

(* Only the install loops write home blocks, after the commit.             *)
LEMMA AheadStep ==
    ASSUME Inv, Next
    PROVE  \A b \in Blocks : disk'[b] # disk[b] =>
               \E i \in 1 .. Len(dhead) : dhead[i] = b /\ dlog[i] \in Data
<1>1. CASE disk' = disk
  BY <1>1, Zenon
<1>2. CASE disk' # disk
  <2>1. /\ pc \in {"install", "reinstall"}
        /\ \E x : disk' = [disk EXCEPT ![lh[tail + 1]] = x]
    BY <1>2 DEF Next, Step, bread, brelse, Recycle, begin_op, end_op, log_write,
       commit, recover_from_log, write_log_start, write_log_end, write_head,
       install_start, install_end, erase, end_commit, read_head, reinstall_start,
       reinstall_end, clear, Crash, dvars
  <2>2. dhead = lh /\ tail + 1 \in 1 .. Len(dhead) /\ dlog[tail + 1] \in Data
    <3>1. dhead = lh
      BY <2>1, Zenon DEF Inv, Headers
    <3>2. tail + 1 \in 1 .. Len(lh)
      BY <2>1, LoopFacts, Zenon
    <3> QED
      BY <3>1, <3>2, Zenon DEF Inv, OnDisk
  <2>3. disk \in [Blocks -> Data \cup {Torn}]
    BY Zenon DEF Inv, TypeOK
  <2>4. ASSUME NEW b \in Blocks, disk'[b] # disk[b] PROVE b = lh[tail + 1]
    BY <2>1, <2>3, <2>4, Zenon
  <2> QED
    BY <2>2, <2>4, Zenon
<1> QED
  BY <1>1, <1>2, Zenon

(* With nothing in the log, what is read is what a reboot would restore.   *)
LEMMA Quiescent == Inv => QuiescentDurable
<1> SUFFICES ASSUME Inv, pc = "idle", outstanding = 0
             PROVE  lh = <<>> /\ Mem = Durable
  BY Zenon DEF QuiescentDurable
<1>1. lh = <<>> /\ dhead = <<>>
  BY Zenon DEF Inv, Headers
<1>2. Pinned = {} /\ ~Recovering
  BY <1>1 DEF Pinned, Recovering
<1>3. ~panic
  BY ZenonT(40) DEF Inv, Control
<1> QED
  BY <1>1, <1>2, <1>3, MemRunning, DurableHome DEF Inv, Cached

-----------------------------------------------------------------------------
(* Admission: nobody is forgotten in begin_op().                           *)

(* The steps that leave alone all that admission depends on.               *)
LEMMA OtherSteps ==
    ASSUME Inv, Next
    PROVE  \/ UNCHANGED <<lh, outstanding, committing, st, wrote, panic>>
           \/ Crash
           \/ ~panic /\ \E p \in Procs : begin_op(p) \/ end_op(p) \/ end_commit(p) \/ erase(p)
           \/ ~panic /\ \E p \in Procs, b \in Blocks, d \in Data : log_write(p, b, d)
           \/ read_head
           \/ clear
BY DEF Next, Step, bread, brelse, Recycle, commit, recover_from_log, write_log_start,
   write_log_end, write_head, install_start, install_end, reinstall_start, reinstall_end,
   lvars, pvars

(* begin_op() admits the first operation at once.                          *)
LEMMA FirstAdmitted ==
    ASSUME Inv, ~Recovering, MustWait
    PROVE  outstanding > 0 \/ committing
<1> SUFFICES ASSUME outstanding = 0, ~committing PROVE FALSE
  BY DEF Inv, TypeOK
<1>1. pc = "idle"
  BY Zenon DEF Inv, TypeOK, PCs, Control, Committing, Recovering
<1>2. Len(lh) = 0
  BY <1>1, Zenon DEF Inv, Headers
<1>3. (outstanding + 1) * MAXOPBLOCKS = MAXOPBLOCKS
  OBVIOUS
<1> QED
  BY <1>2, <1>3 DEF MustWait

(* Every end_op() leaves an operation open, or commits and so wakes.       *)
LEMMA SleeperStep ==
    ASSUME Counts, Inv, SleeperHasWaker, [Next]_vars
    PROVE  SleeperHasWaker'
<1> SUFFICES ASSUME Next, NEW q \in Procs, st'[q] = "asleep"
             PROVE  outstanding' > 0 \/ committing'
  BY DEF SleeperHasWaker, vars, lvars, pvars
<1>1. CASE UNCHANGED <<lh, outstanding, committing, st, wrote, panic>>
  BY <1>1, Zenon DEF SleeperHasWaker
<1>2. CASE Crash
  BY <1>2, Zenon DEF Crash
<1>3. ASSUME NEW p \in Procs, begin_op(p) PROVE outstanding' > 0 \/ committing'
  <2>1. CASE MustWait
    BY <1>3, <2>1, FirstAdmitted, Zenon DEF begin_op
  <2>2. CASE ~MustWait
    <3>1. outstanding' = outstanding + 1
      BY <1>3, <2>2, Zenon DEF begin_op
    <3> QED
      BY <3>1 DEF Inv, TypeOK
  <2> QED
    BY <2>1, <2>2, Zenon
<1>4. ASSUME NEW p \in Procs, end_op(p) PROVE outstanding' > 0 \/ committing'
  <2>1. p \in Active
    BY <1>4, Zenon DEF end_op, Active
  <2>2. outstanding # 0
    BY <2>1, Busy, Zenon
  <2> QED
    BY <1>4, <2>2 DEF end_op, Inv, TypeOK
<1>5. ASSUME NEW p \in Procs, end_commit(p) PROVE FALSE
  BY <1>5, Zenon DEF end_commit, Woken, Inv, TypeOK
<1>6. ASSUME NEW p \in Procs, NEW b \in Blocks, NEW d \in Data, log_write(p, b, d)
      PROVE  outstanding' > 0 \/ committing'
  BY <1>6, Zenon DEF log_write, SleeperHasWaker
<1>7. CASE read_head \/ clear \/ \E p \in Procs : erase(p)
  BY <1>7 DEF read_head, clear, erase, pvars, SleeperHasWaker
<1> QED
  BY <1>1, <1>2, <1>3, <1>4, <1>5, <1>6, <1>7, OtherSteps, Zenon

-----------------------------------------------------------------------------
(* Admission: what begin_op() admits fits.                                 *)

(* At most MAXOPBLOCKS blocks are reserved for each open operation.        *)
Bounded ==
    /\ IsFiniteSet(Reserved) /\ Cardinality(Reserved) \in Nat
    /\ Cardinality(Reserved) <= outstanding * MAXOPBLOCKS

(* An open operation keeps what it has not used of its own reservation.    *)
Share ==
    \A p \in Active :
        Cardinality(wrote[p]) \in Nat /\ Cardinality(wrote[p]) <= OpBlocks =>
            MAXOPBLOCKS - OpBlocks <= Cardinality(Reserved)

(* What the steps use about finite sets.                                   *)
Sizes ==
    /\ IsFiniteSet({}) /\ Cardinality({}) = 0
    /\ \A S : IsFiniteSet(S) =>
          /\ Cardinality(S) \in Nat
          /\ \A x : /\ IsFiniteSet(S \cup {x})
                   /\ Cardinality(S \cup {x}) = IF x \in S THEN Cardinality(S) ELSE Cardinality(S) + 1
          /\ \A x \in S : IsFiniteSet(S \ {x}) /\ Cardinality(S \ {x}) = Cardinality(S) - 1
    /\ \A S, T : IsFiniteSet(S) /\ T \in SUBSET S => IsFiniteSet(T) /\ Cardinality(T) <= Cardinality(S)

(* No more is reserved after a step in which no process becomes active and *)
(* none gives up a block it wrote.                                         *)
LEMMA ReservedShrinks ==
    ASSUME Sizes, Bounded, NEW S, S \in SUBSET Reserved
    PROVE  Cardinality(S) \in Nat /\ Cardinality(S) <= Cardinality(Reserved)
BY Zenon DEF Bounded, Sizes

LEMMA SpaceBegin ==
    ASSUME Sizes, Bounded', Inv, Space, NEW p \in Procs, begin_op(p)
    PROVE  Space'
<1>1. UNCHANGED <<lh, wrote, panic>> /\ st[p] # "in"
  BY Zenon DEF begin_op
<1>2. CASE MustWait
  <2>1. st' = [st EXCEPT ![p] = "asleep"]
    BY <1>2, Zenon DEF begin_op
  <2>2. \A q \in Procs : st'[q] = "in" <=> st[q] = "in"
    BY <1>1, <2>1, Zenon DEF Inv, TypeOK
  <2>3. Active' = Active
    BY <2>2, Zenon DEF Active
  <2> QED
    BY <1>1, <2>2, <2>3, Zenon DEF Space, Reservation, Reserved
<1>3. CASE ~MustWait
  <2>1. st' = [st EXCEPT ![p] = "in"] /\ outstanding' = outstanding + 1
    BY <1>3, Zenon DEF begin_op
  <2>2. Cardinality(Reserved') \in Nat /\ Cardinality(Reserved') <= outstanding' * MAXOPBLOCKS
    BY Zenon DEF Bounded
  <2>3. Len(lh) + (outstanding + 1) * MAXOPBLOCKS <= LOGSIZE
    <3>1. outstanding \in Nat /\ Len(lh) \in Nat
      BY DEF Inv, TypeOK
    <3>2. (outstanding + 1) * MAXOPBLOCKS \in Nat
      BY <3>1
    <3> QED
      BY <1>3, <3>1, <3>2 DEF MustWait
  <2>4. Len(lh) + Cardinality(Reserved') <= LOGSIZE
    <3> DEFINE r == Cardinality(Reserved')
               m == (outstanding + 1) * MAXOPBLOCKS
    <3>1. outstanding \in Nat /\ Len(lh) \in Nat
      BY DEF Inv, TypeOK
    <3>2. r \in Nat /\ r <= m /\ Len(lh) + m <= LOGSIZE
      BY <2>1, <2>2, <2>3, Zenon
    <3>3. m \in Nat
      BY <3>1
    <3> HIDE DEF r, m
    <3>4. Len(lh) + r <= LOGSIZE
      BY <3>1, <3>2, <3>3
    <3> QED
      BY <3>4, Zenon DEF r
  <2>5. Reservation'
    BY <1>1, <2>4, Zenon DEF Space, Reservation
  <2>6. wrote[p] = {} /\ Cardinality({}) = 0
    BY <1>1, Zenon DEF Space, Sizes
  <2>7. ASSUME NEW q \in Procs
        PROVE  /\ IsFiniteSet(wrote'[q])
               /\ IF st'[q] = "in"
                  THEN wrote'[q] \subseteq Logged(lh') /\ Cardinality(wrote'[q]) <= OpBlocks
                  ELSE wrote'[q] = {}
    <3>1. CASE q = p
      <4>1. st'[q] = "in" /\ wrote'[q] = {}
        BY <1>1, <2>1, <2>6, <3>1, Zenon DEF Inv, TypeOK
      <4> QED
        BY <2>6, <4>1 DEF Sizes
    <3>2. CASE q # p
      <4>1. st'[q] = st[q] /\ wrote'[q] = wrote[q] /\ lh' = lh
        BY <1>1, <2>1, <3>2 DEF Inv, TypeOK
      <4> QED
        BY <4>1, Zenon DEF Space
    <3> QED
      BY <3>1, <3>2, Zenon
  <2> QED
    BY <2>5, <2>7, Zenon DEF Space
<1> QED
  BY <1>2, <1>3, Zenon

LEMMA SpaceWrite ==
    ASSUME Counts, Sizes, Bounded, Share, Inv, Space, ~panic,
           NEW p \in Procs, NEW b \in Blocks, NEW d \in Data, log_write(p, b, d)
    PROVE  Space'
<1> DEFINE w == wrote[p] \cup {b}
           n == Cardinality(wrote[p])
<1>1. /\ st[p] = "in" /\ st' = st /\ Cardinality(w) <= OpBlocks
      /\ wrote' = [wrote EXCEPT ![p] = w]
  BY Zenon DEF log_write
<1>2. /\ IsFiniteSet(wrote[p]) /\ n \in Nat /\ n <= OpBlocks
      /\ wrote[p] \subseteq Logged(lh)
  BY <1>1, Zenon DEF Space, Sizes
<1>3. IsFiniteSet(w) /\ Cardinality(w) = IF b \in wrote[p] THEN n ELSE n + 1
  BY <1>2, Zenon DEF Sizes
<1>4. p \in Active /\ Active' = Active
  BY <1>1, Zenon DEF Active
<1>5. ~CannotLog
  <2>1. Len(lh) + (MAXOPBLOCKS - OpBlocks) <= LOGSIZE
    <3>1. MAXOPBLOCKS - OpBlocks <= Cardinality(Reserved)
      BY <1>2, <1>4, Zenon DEF Share
    <3>2. Len(lh) \in Nat /\ Cardinality(Reserved) \in Nat
      BY DEF Bounded, Inv, TypeOK
    <3>3. Len(lh) + Cardinality(Reserved) <= LOGSIZE
      BY Zenon DEF Space, Reservation
    <3> QED
      BY <3>1, <3>2, <3>3
  <2>2. outstanding >= 1
    <3>1. outstanding # 0
      BY <1>4, Busy, Zenon
    <3> QED
      BY <3>1 DEF Inv, TypeOK
  <2>3. Len(lh) \in Nat /\ outstanding \in Nat
    BY DEF Inv, TypeOK
  <2>4. Len(lh) < LOGSIZE /\ Len(lh) < nlog - 1
    BY <2>1, <2>3, SpaceAssumption DEF SpaceAssumption
  <2> QED
    BY <2>2, <2>3, <2>4 DEF CannotLog
<1>6. ~panic' /\ lh' = IF b \in Logged(lh) THEN lh ELSE Append(lh, b)
  BY <1>5, Zenon DEF log_write
<1>7. Logged(lh) \subseteq Logged(lh') /\ b \in Logged(lh')
  <2>1. CASE b \in Logged(lh)
    BY <1>6, <2>1, Zenon
  <2>2. CASE b \notin Logged(lh)
    <3>1. /\ lh \in Seq(Blocks) /\ Len(lh') = Len(lh) + 1 /\ lh'[Len(lh) + 1] = b
          /\ \A i \in 1 .. Len(lh) : lh'[i] = lh[i]
      BY <1>6, <2>2, SMTT(30) DEF Inv, TypeOK
    <3>2. Len(lh) + 1 \in 1 .. Len(lh') /\ \A i \in 1 .. Len(lh) : i \in 1 .. Len(lh')
      BY <3>1
    <3> QED
      BY <3>1, <3>2, Zenon DEF Logged
  <2> QED
    BY <2>1, <2>2, Zenon
<1>8. wrote'[p] = w /\ \A q \in Procs : q # p => wrote'[q] = wrote[q]
  BY <1>1, Zenon DEF Inv, TypeOK
<1>9. ASSUME NEW q \in Procs
      PROVE  /\ IsFiniteSet(wrote'[q])
             /\ IF st'[q] = "in"
                THEN wrote'[q] \subseteq Logged(lh') /\ Cardinality(wrote'[q]) <= OpBlocks
                ELSE wrote'[q] = {}
  <2>1. CASE q = p
    BY <1>1, <1>2, <1>3, <1>7, <1>8, <2>1, Zenon
  <2>2. CASE q # p
    BY <1>1, <1>7, <1>8, <2>2, Zenon DEF Space
  <2> QED
    BY <2>1, <2>2, Zenon
<1>10. Reserved' \in SUBSET (IF b \in wrote[p] THEN Reserved ELSE Reserved \ {<<p, n + 1>>})
  <2> SUFFICES ASSUME NEW r \in Reserved'
               PROVE  r \in Reserved /\ (b \notin wrote[p] => r # <<p, n + 1>>)
    BY Zenon
  <2>1. /\ r \in Active \X (1 .. MAXOPBLOCKS) /\ r[1] \in Procs /\ r[2] \in Nat
        /\ r[2] > Cardinality(wrote'[r[1]])
    BY <1>4 DEF Reserved, Active
  <2>2. CASE r[1] = p
    <3>1. r[2] > Cardinality(w)
      BY <1>8, <2>1, <2>2, Zenon
    <3> HIDE DEF w, n
    <3>2. n \in Nat /\ r[2] \in Nat
      BY <1>2, <2>1, Zenon
    <3>3. r[2] > n /\ (b \notin wrote[p] => r[2] # n + 1)
      <4>1. CASE b \in wrote[p]
        <5>1. Cardinality(w) = n
          BY <1>3, <4>1, Zenon
        <5> QED
          BY <3>1, <4>1, <5>1, Zenon
      <4>2. CASE b \notin wrote[p]
        <5>1. Cardinality(w) = n + 1
          BY <1>3, <4>2, Zenon
        <5> QED
          BY <3>1, <3>2, <5>1
      <4> QED
        BY <4>1, <4>2, Zenon
    <3>4. r \in Reserved
      BY <2>1, <2>2, <3>3, Zenon DEF Reserved, n
    <3>5. <<p, n + 1>>[2] = n + 1
      BY Zenon
    <3> QED
      BY <3>3, <3>4, <3>5, Zenon
  <2>3. CASE r[1] # p
    <3>1. r[2] > Cardinality(wrote[r[1]])
      BY <1>8, <2>1, <2>3, Zenon
    <3>2. r \in Reserved
      BY <2>1, <3>1, Zenon DEF Reserved
    <3> QED
      BY <2>3, <3>2
  <2> QED
    BY <2>2, <2>3, Zenon
<1>11. Len(lh') + Cardinality(Reserved') <= LOGSIZE
  <2>1. /\ Len(lh) \in Nat /\ Cardinality(Reserved) \in Nat
        /\ Len(lh) + Cardinality(Reserved) <= LOGSIZE
    <3>1. Len(lh) \in Nat
      BY DEF Inv, TypeOK
    <3>2. Cardinality(Reserved) \in Nat
      BY Zenon DEF Bounded
    <3> QED
      BY <3>1, <3>2, Zenon DEF Space, Reservation
  <2>2. Reserved' \in SUBSET Reserved
    BY <1>10, Zenon
  <2>3. CASE b \in Logged(lh)
    BY <1>6, <2>1, <2>2, <2>3, ReservedShrinks
  <2>4. CASE b \notin Logged(lh)
    <3>1. b \notin wrote[p] /\ Len(lh') = Len(lh) + 1
      BY <1>2, <1>6, <2>4, SMTT(30) DEF Inv, TypeOK
    <3>2. <<p, n + 1>> \in Reserved
      BY <1>1, <1>2, <1>3, <1>4, <3>1, SpaceAssumption DEF Reserved, SpaceAssumption
    <3> DEFINE R == Reserved \ {<<p, n + 1>>}
    <3>3. IsFiniteSet(R) /\ Cardinality(R) = Cardinality(Reserved) - 1
      BY <3>2, Zenon DEF Bounded, Sizes
    <3>4. Cardinality(Reserved') <= Cardinality(R)
      BY <1>10, <3>1, <3>3, Zenon DEF Sizes
    <3>5. Cardinality(Reserved') \in Nat
      BY <2>2, ReservedShrinks, Zenon
    <3> QED
      BY <2>1, <3>1, <3>3, <3>4, <3>5, SMTT(30)
  <2> QED
    BY <2>3, <2>4, Zenon
<1> QED
  BY <1>6, <1>9, <1>11, Zenon DEF Space, Reservation

LEMMA SpaceEnd ==
    ASSUME Sizes, Bounded, Inv, Space, NEW p \in Procs, end_op(p)
    PROVE  Space'
<1>1. /\ st[p] = "in" /\ lh' = lh /\ panic' = committing
      /\ wrote' = [wrote EXCEPT ![p] = {}]
  BY Zenon DEF end_op
<1>2. st'[p] # "in" /\ \A q \in Procs : q # p => (st'[q] = "in" <=> st[q] = "in")
  BY DEF end_op, Woken, Inv, TypeOK
<1>3. ~panic'
  BY <1>1, Zenon DEF Inv, Control, Active
<1>4. wrote'[p] = {} /\ \A q \in Procs : q # p => wrote'[q] = wrote[q]
  BY <1>1, Zenon DEF Inv, TypeOK
<1>5. Reserved' \in SUBSET Reserved
  BY <1>2, <1>4, Zenon DEF Reserved, Active
<1>6. Len(lh') + Cardinality(Reserved') <= LOGSIZE
  <2>1. Len(lh) \in Nat /\ Cardinality(Reserved) \in Nat
    BY DEF Bounded, Inv, TypeOK
  <2>2. Len(lh) + Cardinality(Reserved) <= LOGSIZE
    BY Zenon DEF Space, Reservation
  <2>3. Cardinality(Reserved') \in Nat /\ Cardinality(Reserved') <= Cardinality(Reserved)
    BY <1>5, ReservedShrinks, Zenon
  <2> QED
    BY <1>1, <2>1, <2>2, <2>3, SMTT(30)
<1>7. IsFiniteSet({})
  BY Zenon DEF Sizes
<1>8. ASSUME NEW q \in Procs
      PROVE  /\ IsFiniteSet(wrote'[q])
             /\ IF st'[q] = "in"
                THEN wrote'[q] \subseteq Logged(lh') /\ Cardinality(wrote'[q]) <= OpBlocks
                ELSE wrote'[q] = {}
  <2>1. CASE q = p
    BY <1>2, <1>4, <1>7, <2>1, Zenon
  <2>2. CASE q # p
    BY <1>1, <1>2, <1>4, <2>2 DEF Space
  <2> QED
    BY <2>1, <2>2, Zenon
<1> QED
  BY <1>3, <1>6, <1>8, Zenon DEF Space, Reservation

(* While no operation is open nothing is reserved.                         *)
NoneOpen == ~panic /\ Active = {} /\ \A p \in Procs : wrote[p] = {}

LEMMA SpaceIdle ==
    ASSUME Sizes, Inv, NoneOpen
    PROVE  Space
<1> SUFFICES ASSUME ~panic, Active = {}, \A p \in Procs : wrote[p] = {}
             PROVE  Space
  BY Zenon DEF NoneOpen
<1>1. Reserved = {}
  BY Zenon DEF Reserved
<1>2. Cardinality(Reserved) = 0 /\ IsFiniteSet({})
  BY <1>1, SMTT(30) DEF Sizes
<1>3. Len(lh) <= LOGSIZE /\ Len(lh) \in Nat
  BY DEF Inv, Headers, TypeOK
<1>4. Reservation
  BY <1>2, <1>3 DEF Reservation
<1>5. ASSUME NEW p \in Procs PROVE IsFiniteSet(wrote[p]) /\ st[p] # "in" /\ wrote[p] = {}
  BY <1>2, Zenon DEF Active
<1> QED
  BY <1>4, <1>5, Zenon DEF Space

(* No step takes more than was reserved.                                   *)
LEMMA SpaceStep ==
    ASSUME Counts, Sizes, Bounded, Share, Inv, Space, [Next]_vars, Bounded', NoneOpen' => Space'
    PROVE  Space'
<1>2. CASE UNCHANGED <<lh, outstanding, committing, st, wrote, panic>>
  BY <1>2, Zenon DEF Space, Reservation, Reserved, Active
<1>4. CASE Crash
  <2>1. NoneOpen'
    BY <1>4, Zenon DEF Crash, Active, NoneOpen
  <2> QED
    BY <2>1, Zenon
<1>5. ASSUME NEW p \in Procs, begin_op(p) PROVE Space'
  BY <1>5, SpaceBegin, Zenon
<1>6. ASSUME NEW p \in Procs, end_op(p) PROVE Space'
  BY <1>6, SpaceEnd, Zenon
<1>7. ASSUME ~panic, NEW p \in Procs, NEW b \in Blocks, NEW d \in Data, log_write(p, b, d)
      PROVE  Space'
  BY <1>7, SpaceWrite, Zenon
<1>8. CASE read_head \/ clear \/ \E p \in Procs : erase(p) \/ end_commit(p)
  <2>1. Active = {}
    BY <1>8 DEF read_head, clear, erase, end_commit, Inv, Control, Recovering, Committing,
       Active
  <2>2. panic' = panic /\ wrote' = wrote /\ ~panic
    BY <1>8, Zenon DEF read_head, clear, erase, end_commit, pvars, Space, Reservation
  <2>3. \A q \in Procs : st'[q] # "in"
    BY <1>8, <2>1 DEF read_head, clear, erase, end_commit, pvars, Woken, Active, Inv, TypeOK
  <2>4. Active' = {}
    BY <2>3, Zenon DEF Active
  <2>5. \A q \in Procs : wrote'[q] = {}
    BY <2>1, <2>2, Zenon DEF Space, Active
  <2>6. NoneOpen'
    BY <2>2, <2>4, <2>5, Zenon DEF NoneOpen
  <2> QED
    BY <2>6, Zenon
<1>9. CASE UNCHANGED vars
  BY <1>2, <1>9, Zenon DEF vars, lvars, pvars
<1> QED
  BY <1>2, <1>4, <1>5, <1>6, <1>7, <1>8, <1>9, OtherSteps

-----------------------------------------------------------------------------
(* The theorems.                                                           *)
INSTANCE FiniteSetTheorems

LEMMA Counted == Counts
<1>1. Cardinality({}) = 0
  BY FS_EmptySet, Zenon
<1>2. ASSUME NEW S \in SUBSET Procs
      PROVE  /\ Cardinality(S) \in Nat
             /\ Cardinality(S) = 0 => S = {}
             /\ \A p \in S : Cardinality(S \ {p}) = Cardinality(S) - 1
             /\ \A p \in Procs \ S : Cardinality(S \cup {p}) = Cardinality(S) + 1
  <2>1. IsFiniteSet(S)
    BY FS_Subset, Zenon
  <2>2. Cardinality(S) \in Nat /\ (Cardinality(S) = 0 => S = {})
    BY <2>1, FS_CardinalityType, FS_EmptySet, Zenon
  <2>3. \A p \in S : Cardinality(S \ {p}) = Cardinality(S) - 1
    BY <2>1, FS_RemoveElement, Zenon
  <2>4. \A p \in Procs \ S : Cardinality(S \cup {p}) = Cardinality(S) + 1
    BY <2>1, FS_AddElement, Zenon
  <2> QED
    BY <2>2, <2>3, <2>4, Zenon
<1> QED
  BY <1>1, <1>2, Zenon DEF Counts

LEMMA Sized == Sizes
<1>1. IsFiniteSet({}) /\ Cardinality({}) = 0
  BY FS_EmptySet, Zenon
<1>2. ASSUME NEW S, IsFiniteSet(S)
      PROVE  /\ Cardinality(S) \in Nat
             /\ \A x : /\ IsFiniteSet(S \cup {x})
                      /\ Cardinality(S \cup {x}) = IF x \in S THEN Cardinality(S) ELSE Cardinality(S) + 1
             /\ \A x \in S : IsFiniteSet(S \ {x}) /\ Cardinality(S \ {x}) = Cardinality(S) - 1
  BY <1>2, FS_CardinalityType, FS_AddElement, FS_RemoveElement, SMTT(30)
<1>3. \A S, T : IsFiniteSet(S) /\ T \in SUBSET S => IsFiniteSet(T) /\ Cardinality(T) <= Cardinality(S)
  BY FS_Subset, Zenon
<1> QED
  BY <1>1, <1>2, <1>3, Zenon DEF Sizes

(* The two facts about reservations.                                       *)
LEMMA ReservedBound == Inv => Bounded
<1> SUFFICES ASSUME Inv PROVE Bounded
  BY Zenon
<1> DEFINE All == Active \X (1 .. MAXOPBLOCKS)
<1>1. IsFiniteSet(Active)
  BY FS_Subset, Zenon DEF Active
<1>2. IsFiniteSet(1 .. MAXOPBLOCKS) /\ Cardinality(1 .. MAXOPBLOCKS) = MAXOPBLOCKS
  BY FS_Interval
<1>3. IsFiniteSet(All) /\ Cardinality(All) = outstanding * MAXOPBLOCKS
  BY <1>1, <1>2, FS_Product, Zenon DEF Inv, Control
<1>4. Reserved \in SUBSET All
  BY Zenon DEF Reserved
<1>5. IsFiniteSet(Reserved) /\ Cardinality(Reserved) <= Cardinality(All)
  BY <1>3, <1>4, FS_Subset, Zenon
<1>6. Cardinality(Reserved) \in Nat
  BY <1>5, FS_CardinalityType, Zenon
<1> QED
  BY <1>3, <1>5, <1>6, Zenon DEF Bounded

LEMMA ReservedShare ==
    ASSUME Inv, NEW p \in Active, Cardinality(wrote[p]) \in Nat,
           Cardinality(wrote[p]) <= OpBlocks
    PROVE  MAXOPBLOCKS - OpBlocks <= Cardinality(Reserved)
<1> DEFINE I == OpBlocks + 1 .. MAXOPBLOCKS
           Own == {p} \X I
<1>1. IsFiniteSet(I) /\ Cardinality(I) = MAXOPBLOCKS - OpBlocks
  <2>1. OpBlocks + 1 \in Int /\ MAXOPBLOCKS \in Int /\ OpBlocks + 1 <= MAXOPBLOCKS
    BY SpaceAssumption DEF SpaceAssumption
  <2>2. /\ IsFiniteSet(I)
        /\ Cardinality(I) = IF OpBlocks + 1 > MAXOPBLOCKS THEN 0
                            ELSE MAXOPBLOCKS - (OpBlocks + 1) + 1
    BY <2>1, FS_Interval, Zenon
  <2> QED
    BY <2>1, <2>2, SMTT(30)
<1>2. IsFiniteSet({p}) /\ Cardinality({p}) = 1
  BY FS_Singleton, Zenon
<1>3. Cardinality(Own) = Cardinality({p}) * Cardinality(I)
  BY <1>1, <1>2, FS_Product, Zenon
<1>4. Cardinality(Own) = MAXOPBLOCKS - OpBlocks
  BY <1>1, <1>2, <1>3, SMTT(30)
<1>5. Own \in SUBSET Reserved
  BY DEF Reserved
<1>6. Cardinality(Own) <= Cardinality(Reserved)
  BY <1>5, ReservedBound, FS_Subset, Zenon DEF Bounded
<1> QED
  BY <1>4, <1>6, Zenon

(* The inductive invariant holds in every reachable state, whatever the    *)
(* number of blocks, processes and log slots.                              *)
THEOREM LogInvariant == Spec => []Inv
<1>1. Init => Inv
  BY Counted, InitInv, Zenon
<1>2. Inv /\ [Next]_vars => Inv'
  BY Counted, NextInv, Zenon
<1> QED
  BY <1>1, <1>2, PTL DEF Spec

(* Type correctness of the logging layer.                                  *)
THEOREM LogTypeOK == Spec => []TypeOK
BY LogInvariant, PTL DEF Inv

(* Pins and references balance: no pinned block can be recycled.           *)
THEOREM LogRefcntExact == Spec => []RefcntExact
BY LogInvariant, PTL DEF Inv

(* install_trans() overwrites a home block only after the header that      *)
(* names it, and the slot that holds it, are on the disk.                  *)
THEOREM LogWriteAhead == Spec => WriteAhead
<1> DEFINE Ahead == \A b \in Blocks : disk'[b] # disk[b] =>
                        \E i \in 1 .. Len(dhead) : dhead[i] = b /\ dlog[i] \in Data
<1>1. Inv /\ [Next]_vars => [Ahead]_vars
  BY AheadStep, Zenon
<1> QED
  BY <1>1, LogInvariant, PTL DEF Spec, WriteAhead

LEMMA RefineInit == Init => Tx!TxInit
<1> SUFFICES ASSUME Init PROVE Tx!TxInit
  BY Zenon
<1>1. Durable = [b \in Blocks |-> disk[b]]
  BY Counted, InitInv, DurableHome, Zenon DEF Init
<1>2. Mem = Durable
  BY Zenon DEF Init, Mem, Recovering
<1>3. Active = {}
  BY Zenon DEF Init, Active
<1> QED
  BY <1>1, <1>2, <1>3, Zenon DEF Tx!TxInit, Init

(* Crash atomicity of log.c for any number of blocks, processes and slots: *)
(* the logging layer implements the transactional disk, whatever the       *)
(* moments at which the machine loses power.                               *)
THEOREM LogImplementsTxDisk == Spec => ImplementsTxDisk
BY RefineInit, RefineNext, LogInvariant, PTL DEF Spec, ImplementsTxDisk, Tx!TxSpec

(* All that finished operations wrote is durable once the log is idle.     *)
THEOREM LogQuiescentDurable == Spec => []QuiescentDurable
BY LogInvariant, Quiescent, PTL

(* No wakeup of begin_op()'s sleepers is lost: the last end_op() of a      *)
(* group commits, and every other end_op() and every commit() wakes them.  *)
THEOREM LogNoLostWakeup == Spec => []SleeperHasWaker
<1>1. Init => SleeperHasWaker
  BY Zenon DEF Init, SleeperHasWaker
<1>2. Inv /\ SleeperHasWaker /\ [Next]_vars => SleeperHasWaker'
  BY Counted, SleeperStep, Zenon
<1> QED
  BY <1>1, <1>2, LogInvariant, PTL DEF Spec

(* The panics of log_write() and end_op() are never reached, and the log   *)
(* never holds more than begin_op() reserved, for any number of processes  *)
(* and blocks, across crashes and recovery.                                *)
THEOREM LogReservation == Spec => []Reservation
<1>1. Init => Space
  <2> SUFFICES ASSUME Init PROVE Space
    BY Zenon
  <2>1. Inv
    BY Counted, InitInv, Zenon
  <2>2. NoneOpen
    BY Zenon DEF Init, Active, NoneOpen
  <2> QED
    BY Sized, <2>1, <2>2, SpaceIdle, Zenon
<1>2. Inv /\ NoneOpen => Space
  BY Sized, SpaceIdle, Zenon
<1>3. Inv /\ Space /\ [Next]_vars => Space'
  <2> SUFFICES ASSUME Inv, Space, [Next]_vars PROVE Space'
    BY Zenon
  <2>1. Inv'
    BY Counted, NextInv, Zenon
  <2>2. Bounded'
    BY <2>1, ReservedBound, PTL
  <2>3. NoneOpen' => Space'
    BY <1>2, <2>1, PTL
  <2>4. Bounded /\ Share
    BY ReservedBound, ReservedShare, Zenon DEF Share
  <2> QED
    BY Counted, Sized, <2>2, <2>3, <2>4, SpaceStep, Zenon
<1>4. Space => Reservation
  BY Zenon DEF Space
<1> QED
  BY <1>1, <1>3, <1>4, LogInvariant, PTL DEF Spec
=============================================================================
