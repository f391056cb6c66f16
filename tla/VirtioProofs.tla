---------------------------- MODULE VirtioProofs ----------------------------
(***************************************************************************)
(* Proofs about the disk driver, for any number of descriptors, any width  *)
(* of the ring indices and any set of processes.                           *)
(*                                                                         *)
(* That chains are owned, that no completion is missed and that nobody     *)
(* sleeps too long all rest on Control, Layout, Queues and Performed of    *)
(* VirtioDisk.  Chains of two calls are disjoint because a descriptor      *)
(* names its request; the rings have room because their entries are heads  *)
(* of different chains, and of three descriptors only one is a head.       *)
(***************************************************************************)
EXTENDS VirtioDisk, Rings, TLAPS

IInv ==
    /\ TypeOK /\ CompletionSeen /\ Control /\ Layout /\ Queues /\ Performed
    /\ SleepersJustified

(* What the steps need to know about finite sets: fewer than three stay so *)
(* when some are taken; and different entries of a ring that two of the    *)
(* NUM descriptors are not among leave room for one more.                  *)
Counting ==
    /\ \A S, T : S \subseteq Desc /\ T \subseteq S /\ Cardinality(S) < 3 => Cardinality(T) < 3
    /\ \A r, w \in 0 .. Modulus - 1 : \A d : \A h, b \in Desc :
          Distinct(d, r, w) /\ h # b /\ Entries(d, r, w) \subseteq Desc \ {h, b} =>
             Dist(r, w, Modulus) + 1 < NUM

(* The sizes and names.                                                    *)
LEMMA Names ==
    /\ NUM \in Nat \ {0} /\ Modulus \in Nat \ {0} /\ Ring(NUM, Modulus) /\ NUM >= 3
    /\ Index(Modulus) = 0 .. Modulus - 1 /\ Desc = 0 .. NUM - 1
    /\ None \notin Desc /\ None \notin Procs /\ "intr" \notin Procs
    /\ None # "intr" /\ None # "read" /\ None # "write" /\ None # "other"
BY RingAssumption, NamesAssumption DEF Ring, Index, Desc

-----------------------------------------------------------------------------
(* The rings.                                                              *)

(* The entries and Distinct in the terms of Rings.                         *)
LEMMA InRings ==
    ASSUME NEW ring, NEW from, NEW to
    PROVE  /\ Entries(ring, from, to) = Window(ring, from, to, NUM, Modulus)
           /\ Distinct(ring, from, to) <=>
                 Dist(from, to, Modulus) < NUM /\ Apart(ring, from, to, NUM, Modulus)
BY Zenon DEF Entries, Window, Distinct, Apart, Dist

(* A store into the next place, while there is room.                       *)
LEMMA RingStore ==
    ASSUME NEW r \in 0 .. Modulus - 1, NEW w \in 0 .. Modulus - 1, NEW d, NEW e, Distinct(d, r, w),
           \A i \in Desc : i # w % NUM => e[i] = d[i]
    PROVE  Entries(e, r, w) = Entries(d, r, w) /\ Distinct(e, r, w)
<1>1. Dist(r, w, Modulus) < NUM /\ Apart(d, r, w, NUM, Modulus)
  BY InRings, Zenon
<1>2. NUM \in Nat /\ Modulus \in Nat /\ Agree(d, e, w % NUM, NUM)
      /\ Ring(NUM, Modulus) /\ r \in Index(Modulus) /\ w \in Index(Modulus)
  BY Names, Zenon DEF Agree
<1>3. /\ Window(e, r, w, NUM, Modulus) = Window(d, r, w, NUM, Modulus)
      /\ Apart(e, r, w, NUM, Modulus) <=> Apart(d, r, w, NUM, Modulus)
  BY <1>1, <1>2, WindowStore, ZenonT(30)
<1> QED
  BY <1>1, <1>3, InRings, Zenon

(* The index moves on: the entry is in.                                    *)
LEMMA RingWrite ==
    ASSUME NEW r \in 0 .. Modulus - 1, NEW w \in 0 .. Modulus - 1, NEW d, Distinct(d, r, w),
           d[w % NUM] \notin Entries(d, r, w), Dist(r, w, Modulus) + 1 < NUM
    PROVE  /\ \A h : h \in Entries(d, r, (w + 1) % Modulus) <=>
                     h \in Entries(d, r, w) \/ h = d[w % NUM]
           /\ Distinct(d, r, (w + 1) % Modulus)
           /\ (w + 1) % Modulus \in 0 .. Modulus - 1
<1>1. Apart(d, r, w, NUM, Modulus) /\ d[w % NUM] \notin Window(d, r, w, NUM, Modulus)
  BY InRings, Zenon
<1>2. NUM \in Nat /\ Modulus \in Nat /\ Modulus \in Nat \ {0} /\ Ring(NUM, Modulus)
      /\ r \in Index(Modulus) /\ w \in Index(Modulus)
  BY Names, Zenon
<1>3. Dist(r, w, Modulus) + 1 < Modulus
  <2>1. Dist(r, w, Modulus) \in Nat
    BY <1>2, DistFacts, Zenon
  <2>2. Modulus >= NUM
    BY Names, Zenon DEF Ring
  <2> QED
    BY <1>2, <2>1, <2>2
<1>4. /\ \A h : h \in Window(d, r, (w + 1) % Modulus, NUM, Modulus) <=>
                h \in Window(d, r, w, NUM, Modulus) \/ h = d[w % NUM]
      /\ Apart(d, r, (w + 1) % Modulus, NUM, Modulus)
  BY <1>1, <1>2, <1>3, WindowWrite, ZenonT(30)
<1>5. (w + 1) % Modulus \in Index(Modulus) /\ Dist(r, (w + 1) % Modulus, Modulus) = Dist(r, w, Modulus) + 1
  BY <1>2, <1>3, DistWrite, Zenon
<1> QED
  BY <1>4, <1>5, InRings, Names, Zenon

(* The other index moves on, and the entry is out and may be overwritten.  *)
LEMMA RingRead ==
    ASSUME NEW r \in 0 .. Modulus - 1, NEW w \in 0 .. Modulus - 1, NEW d, NEW e, Distinct(d, r, w),
           r # w, Agree(d, e, r % NUM, NUM)
    PROVE  /\ d[r % NUM] \in Entries(d, r, w)
           /\ \A h : h \in Entries(e, (r + 1) % Modulus, w) <=>
                     h \in Entries(d, r, w) /\ h # d[r % NUM]
           /\ Distinct(e, (r + 1) % Modulus, w)
           /\ (r + 1) % Modulus \in 0 .. Modulus - 1
           /\ e[w % NUM] = d[w % NUM]
<1>1. Apart(d, r, w, NUM, Modulus) /\ Dist(r, w, Modulus) < NUM
  BY InRings, Zenon
<1>2. /\ NUM \in Nat /\ Modulus \in Nat /\ Modulus \in Nat \ {0} /\ Ring(NUM, Modulus)
      /\ r \in Index(Modulus) /\ w \in Index(Modulus)
      /\ Agree(d, e, r % NUM, NUM)
  BY Names, Zenon DEF Agree
<1>3. /\ d[r % NUM] \in Window(d, r, w, NUM, Modulus)
      /\ \A h : h \in Window(d, (r + 1) % Modulus, w, NUM, Modulus) <=>
                h \in Window(d, r, w, NUM, Modulus) /\ h # d[r % NUM]
      /\ Apart(d, (r + 1) % Modulus, w, NUM, Modulus)
  BY <1>1, <1>2, WindowRead, ZenonT(30)
<1>4. /\ \A h : h \in Window(e, (r + 1) % Modulus, w, NUM, Modulus) <=>
                h \in Window(d, (r + 1) % Modulus, w, NUM, Modulus)
      /\ Apart(e, (r + 1) % Modulus, w, NUM, Modulus) <=> Apart(d, (r + 1) % Modulus, w, NUM, Modulus)
      /\ e[w % NUM] = d[w % NUM]
  <2>1. e[w % NUM] = d[w % NUM]
    BY <1>1, <1>2, WindowClear
  <2>2. ASSUME NEW h
        PROVE  h \in Window(e, (r + 1) % Modulus, w, NUM, Modulus) <=>
                  h \in Window(d, (r + 1) % Modulus, w, NUM, Modulus)
    BY <1>1, <1>2, WindowClear, Zenon
  <2>3. Apart(e, (r + 1) % Modulus, w, NUM, Modulus) <=> Apart(d, (r + 1) % Modulus, w, NUM, Modulus)
    BY <1>1, <1>2, WindowClear, Zenon
  <2> QED  BY <2>1, <2>2, <2>3, Zenon
<1>5. (r + 1) % Modulus \in Index(Modulus) /\ Dist((r + 1) % Modulus, w, Modulus) = Dist(r, w, Modulus) - 1
  BY <1>2, DistRead, Zenon
<1>6. Dist((r + 1) % Modulus, w, Modulus) < NUM
  <2>1. Dist(r, w, Modulus) \in Nat
    BY <1>2, DistFacts, Zenon
  <2> QED
    BY <1>1, <1>2, <1>5, <2>1
<1> QED
  BY <1>3, <1>4, <1>5, <1>6, InRings, Names, Zenon

-----------------------------------------------------------------------------
(* Chains.                                                                 *)

(* The three descriptors of a call are different, by what they point to.   *)
LEMMA Fields ==
    ASSUME TypeOK, NEW p \in Procs, NEW b \in Desc, NEW c \in Desc, Laid(p, b, c), idx[p] # None
    PROVE  /\ idx[p] \in Desc /\ idx[p] # b /\ idx[p] # c /\ b # c
           /\ desc[idx[p]].to = "ops" /\ desc[b].to = "data" /\ desc[c].to = "status"
           /\ desc[b].of = p /\ desc[c].of = idx[p]
           /\ Chain(idx[p]) = {idx[p], b, c} /\ desc[idx[p]].next = b /\ desc[b].next = c
           /\ ops[idx[p]].type = op[p] /\ ops[idx[p]].sector = p
<1>1. /\ desc[idx[p]].to = "ops" /\ desc[b].to = "data" /\ desc[c].to = "status"
      /\ desc[b].of = p /\ desc[c].of = idx[p] /\ desc[idx[p]].next = b /\ desc[b].next = c
      /\ ops[idx[p]].type = op[p] /\ ops[idx[p]].sector = p
  BY DEF Laid
<1>2. Chain(idx[p]) = {idx[p], b, c}
  BY <1>1, Zenon DEF Chain
<1>3. idx[p] \in Desc
  BY Zenon DEF TypeOK
<1> QED
  BY <1>1, <1>2, <1>3, Zenon

(* No two calls share a descriptor, as each names its request.             *)
LEMMA ChainsApart ==
    ASSUME TypeOK, Layout, NEW p \in Procs, NEW q \in Procs, p # q, idx[p] # None, idx[q] # None
    PROVE  Chain(idx[p]) \cap Chain(idx[q]) = {} /\ idx[p] # idx[q]
<1>1. PICK b, c \in Desc : Laid(p, b, c)
  BY Zenon DEF Layout
<1>2. PICK x, y \in Desc : Laid(q, x, y)
  BY Zenon DEF Layout
<1>3. idx[p] # idx[q]
  BY <1>1, <1>2, Zenon DEF Laid
<1>4. \A d \in {idx[p], b, c} : d \notin {idx[q], x, y}
  BY <1>1, <1>2, <1>3, Fields
<1> QED
  BY <1>1, <1>2, <1>3, <1>4, Fields

(* The second descriptor of a chain is the head of none.                   *)
LEMMA NotHead ==
    ASSUME TypeOK, Layout, NEW p \in Procs, idx[p] # None
    PROVE  \E b \in Desc : \A q \in Procs : idx[q] # b
<1>1. PICK b, c \in Desc : Laid(p, b, c)
  BY Zenon DEF Layout
<1>2. ASSUME NEW q \in Procs, idx[q] = b PROVE FALSE
  <2>1. idx[q] # None
    BY <1>2, Names, Zenon
  <2>2. PICK x, y \in Desc : Laid(q, x, y)
    BY <2>1, Zenon DEF Layout
  <2> QED  BY <1>1, <1>2, <2>1, <2>2, Fields
<1> QED
  BY <1>1, <1>2, Zenon

(* The chains of waiting calls, and one more, fit into a ring.             *)
LEMMA RoomForOne ==
    ASSUME Counting, TypeOK, Layout, NEW r \in 0 .. Modulus - 1, NEW w \in 0 .. Modulus - 1, NEW d,
           Distinct(d, r, w), NEW p \in Procs, idx[p] # None, idx[p] \notin Entries(d, r, w),
           \A h \in Entries(d, r, w) : \E q \in Procs : idx[q] = h /\ idx[q] # None
    PROVE  Dist(r, w, Modulus) + 1 < NUM
<1>1. PICK b \in Desc : \A q \in Procs : idx[q] # b
  BY NotHead, Zenon
<1>2. idx[p] \in Desc /\ idx[p] # b
  BY <1>1, Zenon DEF TypeOK
<1>3. Entries(d, r, w) \subseteq Desc \ {idx[p], b}
  <2> SUFFICES ASSUME NEW h \in Entries(d, r, w) PROVE h \in Desc \ {idx[p], b}
    BY Zenon
  <2>1. PICK q \in Procs : idx[q] = h /\ idx[q] # None
    BY Zenon
  <2> QED  BY <2>1, <1>1 DEF TypeOK
<1> QED
  BY <1>1, <1>2, <1>3, Zenon DEF Counting

-----------------------------------------------------------------------------
(* Steps that touch neither descriptors nor rings.                         *)

(* What they leave as it was.                                              *)
LEMMA Quiet ==
    ASSUME Layout, Queues, Performed, Control,
           UNCHANGED <<idx, bdisk, free, desc, ops, info, avail, avail_idx, used, used_dev,
                       used_idx, seen, inflight, done>>,
           \A p \in Procs : idx[p] # None => op'[p] = op[p],
           \A p \in Procs : bdisk[p] /\ pc[p] \in {"wait", "sleep_buf"} => pc'[p] \in {"wait", "sleep_buf"}
    PROVE  Layout' /\ Queues' /\ Performed' /\ FreeDesc' = FreeDesc
<1>1. Layout'
  <2> SUFFICES ASSUME NEW p \in Procs, idx[p] # None PROVE \E b, c \in Desc : Laid(p, b, c)'
    BY Zenon DEF Layout
  <2>1. PICK b, c \in Desc : Laid(p, b, c)
    BY Zenon DEF Layout
  <2>2. Laid(p, b, c)'
    BY <2>1, Zenon DEF Laid
  <2> QED  BY <2>2, Zenon
<1>2. /\ Published' = Published /\ Completed' = Completed /\ FreeDesc' = FreeDesc
      /\ Distinct(avail, seen, avail_idx)' <=> Distinct(avail, seen, avail_idx)
      /\ Distinct(used, used_idx, used_dev)' <=> Distinct(used, used_idx, used_dev)
  BY DEF Published, Completed, Entries, FreeDesc, Distinct
<1>3. Queues'
  BY <1>2, Zenon DEF Queues
<1>4. Performed'
  BY <1>2, Zenon DEF Performed
<1> QED
  BY <1>1, <1>2, <1>3, <1>4, Zenon

(* virtio_disk_rw() is called.                                             *)
LEMMA CallInv == ASSUME IInv, NEW p \in Procs, NEW o \in {"read", "write"}, call(p, o) PROVE IInv'
<1>1. /\ pc[p] = "idle" /\ op' = [op EXCEPT ![p] = o] /\ pc' = [pc EXCEPT ![p] = "lock"]
      /\ UNCHANGED <<lock, idx, bdisk, free, desc, ops, info, avail, avail_idx, used, used_dev,
                     used_idx, seen, inflight, due, irq, done>>
  BY Zenon DEF call, Goto, queue, rings, device
<1>2. TypeOK /\ CompletionSeen /\ Control /\ Layout /\ Queues /\ Performed /\ SleepersJustified
  BY Zenon DEF IInv
<1>3. TypeOK'
  BY <1>1, <1>2, Zenon DEF TypeOK
<1>4. CompletionSeen'
  BY <1>1, <1>2, Zenon DEF CompletionSeen
<1>5. Control'
  BY <1>1, <1>2, Names DEF Control, TypeOK
<1>6. Layout' /\ Queues' /\ Performed' /\ FreeDesc' = FreeDesc
  <2>1. idx[p] = None
    BY <1>1, <1>2, Zenon DEF Control
  <2> QED  BY <1>1, <1>2, <2>1, Quiet, Zenon DEF TypeOK
<1>7. SleepersJustified'
  BY <1>1, <1>2, <1>6, Zenon DEF SleepersJustified, TypeOK
<1> QED  BY <1>3, <1>4, <1>5, <1>6, <1>7, Zenon DEF IInv

(* alloc3_desc() finds fewer than three; who is woken tries again.         *)
LEMMA FailInv == ASSUME IInv, NEW p \in Procs, alloc3_fails(p) PROVE IInv'
<1>1. /\ pc[p] = "lock" /\ lock = None /\ Cardinality(FreeDesc) < 3
      /\ UNCHANGED <<lock, op, idx, bdisk, free, desc, ops, info, avail, avail_idx, used, used_dev,
                     used_idx, seen, inflight, due, irq, done>>
  BY Zenon DEF alloc3_fails, queue, rings, device
<1>2. TypeOK /\ CompletionSeen /\ Control /\ Layout /\ Queues /\ Performed /\ SleepersJustified
  BY Zenon DEF IInv
<1>3. /\ pc' \in [Procs -> {"idle", "lock", "sleep_desc", "ring", "publish",
                            "wait", "sleep_buf", "relock"}]
      /\ pc'[p] = "sleep_desc"
      /\ \A q \in Procs \ {p} : pc'[q] = pc[q] \/ (pc[q] = "sleep_desc" /\ pc'[q] = "lock")
  BY <1>2, Zenon DEF alloc3_fails, WakeForDesc, TypeOK
<1>4. TypeOK'
  BY <1>1, <1>2, <1>3, Zenon DEF TypeOK
<1>5. CompletionSeen'
  BY <1>1, <1>2, Zenon DEF CompletionSeen
<1>6. Control'
  BY <1>1, <1>2, <1>3 DEF Control
<1>7. Layout' /\ Queues' /\ Performed' /\ FreeDesc' = FreeDesc
  BY <1>1, <1>2, <1>3, Quiet, Zenon
<1>8. SleepersJustified'
  BY <1>1, <1>2, <1>3, <1>7, Zenon DEF SleepersJustified
<1> QED  BY <1>4, <1>5, <1>6, <1>7, <1>8, Zenon DEF IInv

(* sleep(b): the disk still has the buffer.                                *)
LEMMA SleepInv == ASSUME IInv, NEW p \in Procs, sleep_buf(p) PROVE IInv'
<1>1. /\ pc[p] = "wait" /\ bdisk[p] /\ lock' = None /\ pc' = [pc EXCEPT ![p] = "sleep_buf"]
      /\ UNCHANGED <<op, idx, bdisk, free, desc, ops, info, avail, avail_idx, used, used_dev,
                     used_idx, seen, inflight, due, irq, done>>
  BY Zenon DEF sleep_buf, Goto, queue, rings, device
<1>2. TypeOK /\ CompletionSeen /\ Control /\ Layout /\ Queues /\ Performed /\ SleepersJustified
  BY Zenon DEF IInv
<1>3. TypeOK'
  BY <1>1, <1>2, Zenon DEF TypeOK
<1>4. CompletionSeen'
  BY <1>1, <1>2, Names, Zenon DEF CompletionSeen, Control
<1>5. Control'
  <2>1. lock = p
    BY <1>1, <1>2, Zenon DEF Control
  <2> QED  BY <1>1, <1>2, <2>1, Names DEF Control, TypeOK
<1>6. Layout' /\ Queues' /\ Performed' /\ FreeDesc' = FreeDesc
  BY <1>1, <1>2, Quiet, Zenon DEF TypeOK
<1>7. SleepersJustified'
  BY <1>1, <1>2, <1>6, Zenon DEF SleepersJustified, TypeOK
<1> QED  BY <1>3, <1>4, <1>5, <1>6, <1>7, Zenon DEF IInv

(* ... and back, once woken.                                               *)
LEMMA RelockInv == ASSUME IInv, NEW p \in Procs, relock(p) PROVE IInv'
<1>1. /\ pc[p] = "relock" /\ lock = None /\ lock' = p /\ pc' = [pc EXCEPT ![p] = "wait"]
      /\ UNCHANGED <<op, idx, bdisk, free, desc, ops, info, avail, avail_idx, used, used_dev,
                     used_idx, seen, inflight, due, irq, done>>
  BY Zenon DEF relock, Goto, queue, rings, device
<1>2. TypeOK /\ CompletionSeen /\ Control /\ Layout /\ Queues /\ Performed /\ SleepersJustified
  BY Zenon DEF IInv
<1>3. TypeOK'
  BY <1>1, <1>2, Zenon DEF TypeOK
<1>4. CompletionSeen'
  BY <1>1, <1>2, Names, Zenon DEF CompletionSeen
<1>5. Control'
  BY <1>1, <1>2, Names DEF Control, TypeOK
<1>6. Layout' /\ Queues' /\ Performed' /\ FreeDesc' = FreeDesc
  BY <1>1, <1>2, Quiet, Zenon DEF TypeOK
<1>7. SleepersJustified'
  BY <1>1, <1>2, <1>6, Zenon DEF SleepersJustified, TypeOK
<1> QED  BY <1>3, <1>4, <1>5, <1>6, <1>7, Zenon DEF IInv

(* The interrupt is raised, acknowledged and ended.                        *)
LEMMA InterruptInv == ASSUME IInv, dev_interrupt \/ intr_ack \/ intr_end PROVE IInv'
<1>1. UNCHANGED <<pc, op, idx, bdisk, free, desc, ops, info, avail, avail_idx, used, used_dev,
                  used_idx, seen, inflight, done>>
  BY Zenon DEF dev_interrupt, intr_ack, intr_end, calls, queue, rings, device
<1>2. TypeOK /\ CompletionSeen /\ Control /\ Layout /\ Queues /\ Performed /\ SleepersJustified
  BY Zenon DEF IInv
<1>3. \/ due /\ due' = FALSE /\ irq' = TRUE /\ UNCHANGED lock
      \/ irq /\ lock = None /\ lock' = "intr" /\ irq' = FALSE /\ UNCHANGED due
      \/ lock = "intr" /\ used_idx = used_dev /\ lock' = None /\ UNCHANGED <<irq, due>>
  BY Zenon DEF dev_interrupt, intr_ack, intr_end, device
<1>4. TypeOK'
  BY <1>1, <1>2, <1>3, Zenon DEF TypeOK
<1>5. CompletionSeen'
  BY <1>1, <1>2, <1>3, Zenon DEF CompletionSeen
<1>6. Control'
  BY <1>1, <1>2, <1>3, Names, Zenon DEF Control
<1>7. Layout' /\ Queues' /\ Performed' /\ FreeDesc' = FreeDesc
  BY <1>1, <1>2, Quiet, Zenon
<1>8. SleepersJustified'
  BY <1>1, <1>2, <1>7, Zenon DEF SleepersJustified
<1> QED  BY <1>4, <1>5, <1>6, <1>7, <1>8, Zenon DEF IInv

-----------------------------------------------------------------------------
(* Steps on descriptors.                                                   *)

(* The rings and what is in them are the same.                             *)
LEMMA SameRings ==
    ASSUME UNCHANGED <<avail, avail_idx, used, used_dev, used_idx, seen>>
    PROVE  /\ Published' = Published /\ Completed' = Completed
           /\ Distinct(avail, seen, avail_idx)' <=> Distinct(avail, seen, avail_idx)
           /\ Distinct(used, used_idx, used_dev)' <=> Distinct(used, used_idx, used_dev)
BY DEF Published, Completed, Entries, Distinct

(* Everything in the rings is the chain of a call that waits.              *)
LEMMA Owner ==
    ASSUME TypeOK, Control, Queues, NEW h \in Published \cup inflight \cup Completed
    PROVE  /\ h \in Desc
           /\ \E p \in Procs : /\ idx[p] = h /\ idx[p] # None /\ bdisk[p]
                              /\ pc[p] \in {"wait", "sleep_buf"}
<1>1. PICK p \in Procs : idx[p] = h /\ bdisk[p] /\ pc[p] \in {"wait", "sleep_buf"}
  BY Zenon DEF Queues
<1>2. idx[p] # None
  BY <1>1, Zenon DEF Control
<1> QED
  BY <1>1, <1>2, Zenon DEF TypeOK

(* Three free descriptors become a request.                                *)
LEMMA AllocInv == ASSUME Counting, IInv, NEW p \in Procs, alloc3_desc(p) PROVE IInv'
<1>1. PICK a \in Desc, b \in Desc, c \in Desc :
         /\ free[a] /\ free[b] /\ free[c] /\ a # b /\ a # c /\ b # c
         /\ free' = [free EXCEPT ![a] = FALSE, ![b] = FALSE, ![c] = FALSE]
         /\ ops' = [ops EXCEPT ![a] = [type |-> op[p], sector |-> p]]
         /\ desc' = [desc EXCEPT ![a] = [to |-> "ops", of |-> a, next |-> b],
                                 ![b] = [to |-> "data", of |-> p, next |-> c],
                                 ![c] = [to |-> "status", of |-> a, next |-> None]]
         /\ info' = [info EXCEPT ![a] = [b |-> p, ok |-> FALSE]]
         /\ idx' = [idx EXCEPT ![p] = a]
  BY ZenonT(40) DEF alloc3_desc, First, FreeDesc
<1>2. /\ pc[p] = "lock" /\ lock = None /\ lock' = p /\ pc' = [pc EXCEPT ![p] = "ring"]
      /\ bdisk' = [bdisk EXCEPT ![p] = TRUE]
      /\ UNCHANGED <<op, avail, avail_idx, used, used_dev, used_idx, seen, inflight, due, irq, done>>
  BY Zenon DEF alloc3_desc, Goto, rings, device
<1>3. TypeOK /\ CompletionSeen /\ Control /\ Layout /\ Queues /\ Performed /\ SleepersJustified
  BY Zenon DEF IInv
<1>4. /\ desc'[a] = [to |-> "ops", of |-> a, next |-> b]
      /\ desc'[b] = [to |-> "data", of |-> p, next |-> c]
      /\ desc'[c] = [to |-> "status", of |-> a, next |-> None]
      /\ ops'[a] = [type |-> op[p], sector |-> p] /\ info'[a] = [b |-> p, ok |-> FALSE]
      /\ ~free'[a] /\ ~free'[b] /\ ~free'[c]
      /\ \A d \in Desc \ {a, b, c} :
            /\ desc'[d] = desc[d] /\ free'[d] = free[d] /\ ops'[d] = ops[d] /\ info'[d] = info[d]
  BY <1>1, <1>3 DEF TypeOK
<1>5. /\ idx'[p] = a /\ bdisk'[p] = TRUE /\ pc'[p] = "ring" /\ idx[p] = None /\ done[p] = None
      /\ \A q \in Procs \ {p} : idx'[q] = idx[q] /\ bdisk'[q] = bdisk[q] /\ pc'[q] = pc[q]
  <2>1. idx[p] = None /\ (idx[p] = None => done[p] = None)
    BY <1>2, <1>3, Zenon DEF Control, Performed
  <2> QED  BY <1>1, <1>2, <1>3, <2>1, Zenon DEF TypeOK
<1>6. TypeOK'
  <2>1. desc' \in [Desc -> [to : {"ops", "data", "status", None},
                            of : Desc \cup Procs \cup {None}, next : Desc \cup {None}]]
    BY <1>1, <1>3, Zenon DEF TypeOK
  <2>2. ops' \in [Desc -> [type : {"read", "write", None}, sector : Procs \cup {None}]]
    BY <1>1, <1>3, Zenon DEF TypeOK
  <2>3. info' \in [Desc -> [b : Procs \cup {None}, ok : BOOLEAN]]
    BY <1>1, <1>3, Zenon DEF TypeOK
  <2>4. /\ lock' \in Procs \cup {"intr", None} /\ idx' \in [Procs -> Desc \cup {None}]
        /\ bdisk' \in [Procs -> BOOLEAN] /\ free' \in [Desc -> BOOLEAN]
        /\ pc' \in [Procs -> {"idle", "lock", "sleep_desc", "ring", "publish",
                              "wait", "sleep_buf", "relock"}]
    BY <1>1, <1>2, <1>3, Zenon DEF TypeOK
  <2> QED  BY <1>2, <1>3, <2>1, <2>2, <2>3, <2>4, Zenon DEF TypeOK
<1>7. CompletionSeen'
  BY <1>2, <1>3, Names, Zenon DEF CompletionSeen
<1>8. Control'
  <2> SUFFICES ASSUME NEW q \in Procs
               PROVE  /\ pc'[q] = "idle" <=> op'[q] = None
                      /\ lock' = q <=> pc'[q] \in {"ring", "publish", "wait"}
                      /\ idx'[q] # None <=> pc'[q] \in {"ring", "publish", "wait", "sleep_buf", "relock"}
                      /\ pc'[q] \in {"ring", "publish"} => bdisk'[q]
                      /\ bdisk'[q] => pc'[q] \in {"ring", "publish", "wait", "sleep_buf"}
                      /\ pc'[q] = "publish" => avail'[avail_idx' % NUM] = idx'[q]
    BY Zenon DEF Control
  <2>1. CASE q = p
    BY <1>2, <1>3, <1>5, <2>1, Names, Zenon DEF Control
  <2>2. CASE q # p
    <3>1. lock # q /\ lock' # q
      BY <1>2, <2>2, Names, Zenon
    <3> QED  BY <1>2, <1>3, <1>5, <2>2, <3>1 DEF Control
  <2> QED  BY <2>1, <2>2, Zenon
<1>9. Layout'
  <2> SUFFICES ASSUME NEW q \in Procs, idx'[q] # None PROVE \E x, y \in Desc : Laid(q, x, y)'
    BY Zenon DEF Layout
  <2>1. CASE q = p
    <3>1. Laid(p, b, c)'
      BY <1>2, <1>4, <1>5 DEF Laid
    <3> QED  BY <2>1, <3>1, Zenon
  <2>2. CASE q # p
    <3>1. idx[q] # None /\ idx'[q] = idx[q]
      BY <1>5, <2>2, Zenon
    <3>2. PICK x, y \in Desc : Laid(q, x, y)
      BY <1>3, <3>1, Zenon DEF Layout
    <3>3. idx[q] \in Desc /\ idx[q] \notin {a, b, c} /\ x \notin {a, b, c} /\ y \notin {a, b, c}
      BY <1>1, <1>3, <3>1, <3>2, SMTT(30) DEF Laid, TypeOK
    <3>4. Laid(q, x, y)'
      BY <1>2, <1>4, <3>1, <3>2, <3>3, SMTT(30) DEF Laid
    <3> QED  BY <3>4, Zenon
  <2> QED  BY <2>1, <2>2, Zenon
<1>10. Queues'
  <2>1. Published' = Published /\ Completed' = Completed /\ inflight' = inflight
        /\ (Distinct(avail, seen, avail_idx)' <=> Distinct(avail, seen, avail_idx))
        /\ (Distinct(used, used_idx, used_dev)' <=> Distinct(used, used_idx, used_dev))
    BY <1>2, SameRings, Zenon
  <2>2. \A q \in Procs : pc[q] \in {"wait", "sleep_buf"} =>
           idx'[q] = idx[q] /\ bdisk'[q] = bdisk[q] /\ pc'[q] = pc[q]
    BY <1>2, <1>5, Zenon
  <2> QED  BY <1>3, <2>1, <2>2 DEF Queues
<1>11. Performed'
  <2>1. Completed' = Completed
    BY <1>2, SameRings, Zenon
  <2>2. a \notin Completed
    <3> SUFFICES ASSUME a \in Completed PROVE FALSE
      BY Zenon
    <3>1. PICK q \in Procs : idx[q] = a /\ idx[q] # None
      BY <1>3, Owner, Zenon
    <3> QED  BY <1>1, <1>3, <3>1, Zenon DEF Layout, Laid
  <2> SUFFICES ASSUME NEW q \in Procs
               PROVE  IF idx'[q] # None /\ (idx'[q] \in Completed \/ ~bdisk'[q])
                      THEN done[q] = op[q] /\ (bdisk'[q] => info'[idx'[q]].ok)
                      ELSE done[q] = None
    BY <1>2, <2>1, Zenon DEF Performed
  <2>3. CASE q = p
    BY <1>5, <2>2, <2>3, Zenon
  <2>4. CASE q # p
    <3>1. idx[q] # None => info'[idx[q]] = info[idx[q]]
      <4> SUFFICES ASSUME idx[q] # None PROVE info'[idx[q]] = info[idx[q]]
        BY Zenon
      <4>1. idx[q] \in Desc /\ ~free[idx[q]]
        <5>1. PICK x, y \in Desc : Laid(q, x, y)
          BY <1>3, Zenon DEF Layout
        <5> QED  BY <1>3, <5>1 DEF Laid, TypeOK
      <4> QED  BY <1>1, <1>4, <4>1, Zenon
    <3> QED  BY <1>3, <1>5, <2>4, <3>1 DEF Performed
  <2> QED  BY <2>3, <2>4, Zenon
<1>12. SleepersJustified'
  <2>1. FreeDesc' \subseteq FreeDesc
    BY <1>1, <1>3, Zenon DEF FreeDesc, TypeOK
  <2>2. Cardinality(FreeDesc) < 3 => Cardinality(FreeDesc') < 3
    BY <2>1, Zenon DEF Counting, FreeDesc
  <2> QED  BY <1>2, <1>3, <1>5, <2>2 DEF SleepersJustified
<1> QED  BY <1>6, <1>7, <1>8, <1>9, <1>10, <1>11, <1>12, Zenon DEF IInv

(* free_chain() frees the chain of a call the disk is done with.           *)
LEMMA FinishInv == ASSUME IInv, NEW p \in Procs, finish(p) PROVE IInv'
<1>1. /\ pc[p] = "wait" /\ ~bdisk[p] /\ lock' = None
      /\ free' = [d \in Desc |-> free[d] \/ d \in Chain(idx[p])]
      /\ desc' = [d \in Desc |-> IF d \in Chain(idx[p]) THEN NoDesc ELSE desc[d]]
      /\ info' = [info EXCEPT ![idx[p]] = NoInfo]
      /\ ops' = [ops EXCEPT ![idx[p]] = NoOp]
      /\ op' = [op EXCEPT ![p] = None]
      /\ idx' = [idx EXCEPT ![p] = None]
      /\ done' = [done EXCEPT ![p] = None]
      /\ UNCHANGED <<bdisk, avail, avail_idx, used, used_dev, used_idx, seen, inflight, due, irq>>
  BY Zenon DEF finish, rings
<1>2. TypeOK /\ CompletionSeen /\ Control /\ Layout /\ Queues /\ Performed /\ SleepersJustified
  BY Zenon DEF IInv
<1>3. /\ pc' \in [Procs -> {"idle", "lock", "sleep_desc", "ring", "publish",
                            "wait", "sleep_buf", "relock"}]
      /\ pc'[p] = "idle"
      /\ \A q \in Procs : pc'[q] # "sleep_desc"
      /\ \A q \in Procs \ {p} : pc'[q] = pc[q] \/ (pc[q] = "sleep_desc" /\ pc'[q] = "lock")
  BY <1>2, Zenon DEF finish, Goto, WakeForDesc, TypeOK
<1>4. lock = p /\ idx[p] # None /\ idx[p] \in Desc
  BY <1>1, <1>2 DEF Control, TypeOK
<1>5. /\ idx'[p] = None /\ done'[p] = None /\ op'[p] = None
      /\ \A q \in Procs \ {p} : idx'[q] = idx[q] /\ op'[q] = op[q] /\ done'[q] = done[q]
  BY <1>1, <1>2, Zenon DEF TypeOK
<1>6. TypeOK'
  <2>1. desc' \in [Desc -> [to : {"ops", "data", "status", None},
                            of : Desc \cup Procs \cup {None}, next : Desc \cup {None}]]
    BY <1>1, <1>2, Zenon DEF TypeOK, NoDesc
  <2>2. ops' \in [Desc -> [type : {"read", "write", None}, sector : Procs \cup {None}]]
    BY <1>1, <1>2, Zenon DEF TypeOK, NoOp
  <2>3. info' \in [Desc -> [b : Procs \cup {None}, ok : BOOLEAN]]
    BY <1>1, <1>2, Zenon DEF TypeOK, NoInfo
  <2>4. /\ lock' \in Procs \cup {"intr", None} /\ idx' \in [Procs -> Desc \cup {None}]
        /\ op' \in [Procs -> {"read", "write", None}]
        /\ done' \in [Procs -> {"read", "write", "other", None}]
    BY <1>1, <1>2, Zenon DEF TypeOK
  <2>5. free' \in [Desc -> BOOLEAN]
    BY <1>1, <1>2, Zenon DEF TypeOK
  <2> QED  BY <1>1, <1>2, <1>3, <2>1, <2>2, <2>3, <2>4, <2>5, Zenon DEF TypeOK
<1>7. CompletionSeen'
  BY <1>1, <1>2, <1>4, Names, Zenon DEF CompletionSeen
<1>8. Control'
  <2> SUFFICES ASSUME NEW q \in Procs
               PROVE  /\ pc'[q] = "idle" <=> op'[q] = None
                      /\ lock' = q <=> pc'[q] \in {"ring", "publish", "wait"}
                      /\ idx'[q] # None <=> pc'[q] \in {"ring", "publish", "wait", "sleep_buf", "relock"}
                      /\ pc'[q] \in {"ring", "publish"} => bdisk'[q]
                      /\ bdisk'[q] => pc'[q] \in {"ring", "publish", "wait", "sleep_buf"}
                      /\ pc'[q] = "publish" => avail'[avail_idx' % NUM] = idx'[q]
    BY Zenon DEF Control
  <2>1. CASE q = p
    BY <1>1, <1>3, <1>5, <2>1, Names, Zenon
  <2>2. CASE q # p
    <3>1. lock # q /\ lock' # q
      BY <1>1, <1>4, <2>2, Names, Zenon
    <3> QED  BY <1>1, <1>2, <1>3, <1>5, <2>2, <3>1 DEF Control
  <2> QED  BY <2>1, <2>2, Zenon
<1>9. ASSUME NEW q \in Procs, q # p, idx[q] # None
      PROVE  idx[q] \in Desc /\ info'[idx[q]] = info[idx[q]] /\ \E x, y \in Desc : Laid(q, x, y)'
  <2>1. PICK x, y \in Desc : Laid(q, x, y)
    BY <1>2, <1>9, Zenon DEF Layout
  <2>2. Chain(idx[q]) = {idx[q], x, y} /\ idx[q] \in Desc
    BY <1>2, <1>9, <2>1, Fields
  <2>3. Chain(idx[q]) \cap Chain(idx[p]) = {} /\ idx[q] # idx[p]
    BY <1>2, <1>4, <1>9, ChainsApart, Zenon
  <2>4. \A d \in {idx[q], x, y} : desc'[d] = desc[d] /\ free'[d] = free[d]
    BY <1>1, <1>2, <2>2, <2>3 DEF TypeOK
  <2>5. ops'[idx[q]] = ops[idx[q]] /\ info'[idx[q]] = info[idx[q]]
    BY <1>1, <1>2, <2>2, <2>3, Zenon DEF TypeOK
  <2>6. Laid(q, x, y)'
    BY <1>5, <1>9, <2>1, <2>4, <2>5 DEF Laid
  <2> QED  BY <2>2, <2>5, <2>6, Zenon
<1>10. Layout'
  BY <1>5, <1>9, Zenon DEF Layout
<1>11. /\ Published' = Published /\ Completed' = Completed /\ inflight' = inflight
       /\ (Distinct(avail, seen, avail_idx)' <=> Distinct(avail, seen, avail_idx))
       /\ (Distinct(used, used_idx, used_dev)' <=> Distinct(used, used_idx, used_dev))
  BY <1>1, SameRings, Zenon
<1>12. Queues'
  <2>1. \A q \in Procs : bdisk[q] /\ pc[q] \in {"wait", "sleep_buf"} =>
           idx'[q] = idx[q] /\ bdisk'[q] = bdisk[q] /\ pc'[q] = pc[q]
    BY <1>1, <1>3, <1>5, Zenon
  <2> QED  BY <1>2, <1>11, <2>1 DEF Queues
<1>13. Performed'
  <2> SUFFICES ASSUME NEW q \in Procs
               PROVE  IF idx'[q] # None /\ (idx'[q] \in Completed \/ ~bdisk[q])
                      THEN done'[q] = op'[q] /\ (bdisk[q] => info'[idx'[q]].ok)
                      ELSE done'[q] = None
    BY <1>1, <1>11, Zenon DEF Performed
  <2>1. CASE q = p
    BY <1>5, <2>1, Zenon
  <2>2. CASE q # p
    BY <1>2, <1>5, <1>9, <2>2 DEF Performed
  <2> QED  BY <2>1, <2>2, Zenon
<1>14. SleepersJustified'
  BY <1>1, <1>2, <1>3, Zenon DEF SleepersJustified
<1> QED  BY <1>6, <1>7, <1>8, <1>10, <1>12, <1>13, <1>14, Zenon DEF IInv
-----------------------------------------------------------------------------
(* Steps on the rings.                                                     *)

(* A place in a ring.                                                      *)
LEMMA Place == ASSUME NEW i \in 0 .. Modulus - 1 PROVE i % NUM \in Desc
<1>1. i \in Int /\ NUM \in Nat \ {0}
  BY Names
<1> QED  BY <1>1, Names, ModDef, Zenon

(* No step on the rings changes the layout of a request.                   *)
LEMMA LayoutKept ==
    ASSUME Layout, UNCHANGED <<op, idx, free, desc, ops>>,
           \A p \in Procs : idx[p] # None => info'[idx[p]].b = info[idx[p]].b
    PROVE  Layout' /\ FreeDesc' = FreeDesc
<1> SUFFICES ASSUME NEW p \in Procs, idx[p] # None PROVE \E b, c \in Desc : Laid(p, b, c)'
  BY Zenon DEF Layout, FreeDesc
<1>1. PICK b, c \in Desc : Laid(p, b, c)
  BY Zenon DEF Layout
<1>2. Laid(p, b, c)'
  BY <1>1, Zenon DEF Laid
<1> QED  BY <1>2, Zenon

(* What two calls wait for is different.                                   *)
LEMMA HeadsApart ==
    ASSUME TypeOK, Layout, NEW p \in Procs, NEW q \in Procs, idx[p] # None, idx[q] = idx[p]
    PROVE  p = q
BY ChainsApart, Zenon

(* A chain is put into the avail ring, where the device does not look yet. *)
LEMMA PutAvailInv == ASSUME IInv, NEW p \in Procs, put_avail(p) PROVE IInv'
<1>1. /\ pc[p] = "ring" /\ avail' = [avail EXCEPT ![avail_idx % NUM] = idx[p]]
      /\ pc' = [pc EXCEPT ![p] = "publish"]
      /\ UNCHANGED <<lock, op, idx, bdisk, free, desc, ops, info, avail_idx, used, used_dev,
                     used_idx, seen, inflight, due, irq, done>>
  BY Zenon DEF put_avail, Goto, queue, device
<1>2. TypeOK /\ CompletionSeen /\ Control /\ Layout /\ Queues /\ Performed /\ SleepersJustified
  BY Zenon DEF IInv
<1>3. /\ seen \in 0 .. Modulus - 1 /\ avail_idx \in 0 .. Modulus - 1 /\ avail_idx % NUM \in Desc
      /\ Distinct(avail, seen, avail_idx)
  BY <1>2, Place, Zenon DEF TypeOK, Queues
<1>4. /\ avail'[avail_idx % NUM] = idx[p]
      /\ \A i \in Desc : i # avail_idx % NUM => avail'[i] = avail[i]
  BY <1>1, <1>2, <1>3, Zenon DEF TypeOK
<1>5. /\ Published' = Published /\ Completed' = Completed
      /\ Distinct(avail, seen, avail_idx)' /\ Distinct(used, used_idx, used_dev)'
  <2>1. Entries(avail', seen, avail_idx) = Entries(avail, seen, avail_idx)
        /\ Distinct(avail', seen, avail_idx)
    BY <1>3, <1>4, RingStore, Zenon
  <2> QED  BY <1>1, <1>2, <2>1 DEF Published, Completed, Queues, Entries, Distinct
<1>6. TypeOK'
  BY <1>1, <1>2, <1>3, Zenon DEF TypeOK
<1>7. CompletionSeen'
  BY <1>1, <1>2, Zenon DEF CompletionSeen
<1>8. lock = p
  BY <1>1, <1>2, Zenon DEF Control
<1>9. pc'[p] = "publish" /\ \A q \in Procs \ {p} : pc'[q] = pc[q] /\ pc[q] # "publish"
  BY <1>1, <1>2, <1>8 DEF Control, TypeOK
<1>10. Control'
  BY <1>1, <1>2, <1>4, <1>9 DEF Control
<1>11. Layout' /\ FreeDesc' = FreeDesc
  BY <1>1, <1>2, LayoutKept, Zenon
<1>12. Queues'
  BY <1>1, <1>2, <1>5, <1>9 DEF Queues
<1>13. Performed'
  BY <1>1, <1>2, <1>5, Zenon DEF Performed
<1>14. SleepersJustified'
  BY <1>1, <1>2, <1>9, <1>11, Zenon DEF SleepersJustified
<1> QED  BY <1>6, <1>7, <1>10, <1>11, <1>12, <1>13, <1>14, Zenon DEF IInv

(* The index moves on, and the chain is the device's.                      *)
LEMMA PublishInv == ASSUME Counting, IInv, NEW p \in Procs, publish(p) PROVE IInv'
<1>1. /\ pc[p] = "publish" /\ avail_idx' = (avail_idx + 1) % Modulus
      /\ pc' = [pc EXCEPT ![p] = "wait"]
      /\ UNCHANGED <<lock, op, idx, bdisk, free, desc, ops, info, avail, used, used_dev,
                     used_idx, seen, inflight, due, irq, done>>
  BY Zenon DEF publish, Goto, queue, device
<1>2. TypeOK /\ CompletionSeen /\ Control /\ Layout /\ Queues /\ Performed /\ SleepersJustified
  BY Zenon DEF IInv
<1>3. /\ seen \in 0 .. Modulus - 1 /\ avail_idx \in 0 .. Modulus - 1
      /\ Distinct(avail, seen, avail_idx)
  BY <1>2, Zenon DEF TypeOK, Queues
<1>4. lock = p /\ idx[p] # None /\ bdisk[p] /\ avail[avail_idx % NUM] = idx[p]
  BY <1>1, <1>2, Zenon DEF Control
<1>5. idx[p] \notin Published \cup inflight \cup Completed
  <2> SUFFICES ASSUME idx[p] \in Published \cup inflight \cup Completed PROVE FALSE
    BY Zenon
  <2>1. PICK q \in Procs : idx[q] = idx[p] /\ pc[q] \in {"wait", "sleep_buf"}
    BY <1>2, Owner, Zenon
  <2>2. q = p
    BY <1>2, <1>4, <2>1, HeadsApart, Zenon
  <2> QED  BY <1>1, <2>1, <2>2, Zenon
<1>6. Dist(seen, avail_idx, Modulus) + 1 < NUM
  <2>1. \A h \in Published : \E q \in Procs : idx[q] = h /\ idx[q] # None
    BY <1>2, Owner, Zenon
  <2> QED  BY <1>2, <1>3, <1>4, <1>5, <2>1, RoomForOne, Zenon DEF Published
<1>7. /\ \A h : h \in Published' <=> h \in Published \/ h = idx[p]
      /\ Distinct(avail, seen, avail_idx)' /\ avail_idx' \in 0 .. Modulus - 1
  <2>1. /\ \A h : h \in Entries(avail, seen, (avail_idx + 1) % Modulus) <=>
                  h \in Entries(avail, seen, avail_idx) \/ h = avail[avail_idx % NUM]
        /\ Distinct(avail, seen, (avail_idx + 1) % Modulus)
        /\ (avail_idx + 1) % Modulus \in 0 .. Modulus - 1
    BY <1>3, <1>4, <1>5, <1>6, RingWrite, Zenon DEF Published
  <2>2. /\ Published' = Entries(avail, seen, (avail_idx + 1) % Modulus)
        /\ Distinct(avail, seen, avail_idx)' <=> Distinct(avail, seen, (avail_idx + 1) % Modulus)
    BY <1>1 DEF Published, Entries, Distinct
  <2> QED  BY <1>1, <1>4, <2>1, <2>2, Zenon DEF Published
<1>8. Completed' = Completed /\ Distinct(used, used_idx, used_dev)'
  BY <1>1, <1>2 DEF Completed, Entries, Distinct, Queues
<1>9. TypeOK'
  BY <1>1, <1>2, <1>7 DEF TypeOK
<1>10. CompletionSeen'
  BY <1>1, <1>2, Zenon DEF CompletionSeen
<1>11. pc'[p] = "wait" /\ \A q \in Procs \ {p} : pc'[q] = pc[q] /\ pc[q] # "publish"
  BY <1>1, <1>2, <1>4, Zenon DEF Control, TypeOK
<1>12. Control'
  BY <1>1, <1>2, <1>11 DEF Control
<1>13. Layout' /\ FreeDesc' = FreeDesc
  BY <1>1, <1>2, LayoutKept, Zenon
<1>14. Queues'
  BY <1>1, <1>2, <1>4, <1>5, <1>7, <1>8, <1>11 DEF Queues
<1>15. Performed'
  BY <1>1, <1>2, <1>8, Zenon DEF Performed
<1>16. SleepersJustified'
  BY <1>1, <1>2, <1>11, <1>13, Zenon DEF SleepersJustified
<1> QED  BY <1>9, <1>10, <1>12, <1>13, <1>14, <1>15, <1>16, Zenon DEF IInv
(* The device takes the oldest chain.                                      *)
LEMMA TakeInv == ASSUME IInv, dev_take PROVE IInv'
<1> DEFINE h == avail[seen % NUM]
<1>1. /\ seen # avail_idx /\ inflight' = inflight \cup {h}
      /\ avail' = [avail EXCEPT ![seen % NUM] = None] /\ seen' = (seen + 1) % Modulus
      /\ UNCHANGED <<lock, pc, op, idx, bdisk, free, desc, ops, info, avail_idx, used, used_dev,
                     used_idx, due, irq, done>>
  BY Zenon DEF dev_take, calls, queue
<1>2. TypeOK /\ CompletionSeen /\ Control /\ Layout /\ Queues /\ Performed /\ SleepersJustified
  BY Zenon DEF IInv
<1>3. /\ seen \in 0 .. Modulus - 1 /\ avail_idx \in 0 .. Modulus - 1 /\ seen % NUM \in Desc
      /\ Distinct(avail, seen, avail_idx)
  BY <1>2, Place, Zenon DEF TypeOK, Queues
<1>4. Agree(avail, avail', seen % NUM, NUM)
  BY <1>1, <1>2, <1>3, Zenon DEF TypeOK, Agree, Desc
<1>5. /\ h \in Published /\ avail'[avail_idx % NUM] = avail[avail_idx % NUM]
      /\ \A x : x \in Published' <=> x \in Published /\ x # h
      /\ Distinct(avail, seen, avail_idx)' /\ seen' \in 0 .. Modulus - 1
  <2>1. /\ h \in Entries(avail, seen, avail_idx) /\ avail'[avail_idx % NUM] = avail[avail_idx % NUM]
        /\ \A x : x \in Entries(avail', (seen + 1) % Modulus, avail_idx) <=>
                  x \in Entries(avail, seen, avail_idx) /\ x # h
        /\ Distinct(avail', (seen + 1) % Modulus, avail_idx)
        /\ (seen + 1) % Modulus \in 0 .. Modulus - 1
    <3>1. seen # avail_idx
      BY <1>1, Zenon
    <3>2. h \in Entries(avail, seen, avail_idx)
      BY <1>3, <1>4, <3>1, RingRead, Zenon
    <3>3. avail'[avail_idx % NUM] = avail[avail_idx % NUM]
      BY <1>3, <1>4, <3>1, RingRead
    <3>4. ASSUME NEW x
          PROVE  x \in Entries(avail', (seen + 1) % Modulus, avail_idx) <=>
                    x \in Entries(avail, seen, avail_idx) /\ x # h
      BY <1>3, <1>4, <3>1, RingRead
    <3>5. /\ Distinct(avail', (seen + 1) % Modulus, avail_idx)
          /\ (seen + 1) % Modulus \in 0 .. Modulus - 1
      BY <1>3, <1>4, <3>1, RingRead, Zenon
    <3> HIDE DEF h
    <3> QED  BY <3>2, <3>3, <3>4, <3>5, Zenon
  <2>2. /\ Published' = Entries(avail', (seen + 1) % Modulus, avail_idx)
        /\ Distinct(avail, seen, avail_idx)' <=> Distinct(avail', (seen + 1) % Modulus, avail_idx)
    BY <1>1 DEF Published, Entries, Distinct
  <2> HIDE DEF h
  <2> QED  BY <1>1, <2>1, <2>2, Zenon DEF Published
<1> HIDE DEF h
<1>6. Completed' = Completed /\ Distinct(used, used_idx, used_dev)'
  BY <1>1, <1>2 DEF Completed, Entries, Distinct, Queues
<1>7. h \in Desc
  BY <1>2, <1>5, Owner, Zenon
<1>8. TypeOK'
  BY <1>1, <1>2, <1>3, <1>5, <1>7 DEF TypeOK
<1>9. CompletionSeen' /\ Control'
  BY <1>1, <1>2, <1>5, Zenon DEF CompletionSeen, Control
<1>10. Layout' /\ FreeDesc' = FreeDesc
  BY <1>1, <1>2, LayoutKept, Zenon
<1>11. Queues'
  BY <1>1, <1>2, <1>5, <1>6 DEF Queues
<1>12. Performed' /\ SleepersJustified'
  BY <1>1, <1>2, <1>6, <1>10, Zenon DEF Performed, SleepersJustified
<1> QED  BY <1>8, <1>9, <1>10, <1>11, <1>12, Zenon DEF IInv

(* The device has performed the request of one call, for it and as asked.  *)
LEMMA CompleteStep ==
    ASSUME IInv, NEW h \in Desc, dev_complete(h)
    PROVE  \E p \in Procs :
              /\ idx[p] = h /\ idx[p] # None /\ bdisk[p] /\ pc[p] \in {"wait", "sleep_buf"}
              /\ op[p] # None /\ done[p] = None
              /\ done' = [done EXCEPT ![p] = op[p]] /\ info' = [info EXCEPT ![h].ok = TRUE]
<1>1. TypeOK /\ Control /\ Layout /\ Queues /\ Performed /\ h \in inflight
  BY Zenon DEF IInv, dev_complete
<1>2. PICK p \in Procs : idx[p] = h /\ idx[p] # None /\ bdisk[p] /\ pc[p] \in {"wait", "sleep_buf"}
  BY <1>1, Owner, Zenon
<1>3. PICK b, c \in Desc : Laid(p, b, c)
  BY <1>1, <1>2, Zenon DEF Layout
<1>4. /\ desc[h].next = b /\ desc[b].next = c /\ desc[b].of = p /\ desc[c].of = h
      /\ ops[h].type = op[p] /\ ops[h].sector = p
  BY <1>1, <1>2, <1>3, Fields
<1>5. done' = [done EXCEPT ![p] = op[p]] /\ info' = [info EXCEPT ![h].ok = TRUE]
  BY <1>4, Zenon DEF dev_complete
<1>6. op[p] # None /\ done[p] = None
  BY <1>1, <1>2, Zenon DEF Control, Performed, Queues
<1> QED  BY <1>2, <1>5, <1>6, Zenon

(* ... and tells the driver so.                                            *)
LEMMA CompleteInv == ASSUME Counting, IInv, NEW h \in Desc, dev_complete(h) PROVE IInv'
<1>1. /\ h \in inflight /\ used' = [used EXCEPT ![used_dev % NUM] = h]
      /\ used_dev' = (used_dev + 1) % Modulus /\ inflight' = inflight \ {h} /\ due' = TRUE
      /\ UNCHANGED <<lock, pc, op, idx, bdisk, free, desc, ops, avail, avail_idx, used_idx, seen, irq>>
  BY Zenon DEF dev_complete, calls
<1>2. TypeOK /\ CompletionSeen /\ Control /\ Layout /\ Queues /\ Performed /\ SleepersJustified
  BY Zenon DEF IInv
<1>3. PICK p \in Procs :
         /\ idx[p] = h /\ idx[p] # None /\ bdisk[p] /\ pc[p] \in {"wait", "sleep_buf"}
         /\ done' = [done EXCEPT ![p] = op[p]] /\ info' = [info EXCEPT ![h].ok = TRUE]
  BY CompleteStep, Zenon
<1>4. /\ used_idx \in 0 .. Modulus - 1 /\ used_dev \in 0 .. Modulus - 1 /\ used_dev % NUM \in Desc
      /\ Distinct(used, used_idx, used_dev) /\ h \notin Published /\ h \notin Completed
  BY <1>1, <1>2, Place, Zenon DEF TypeOK, Queues
<1>5. used'[used_dev % NUM] = h /\ \A i \in Desc : i # used_dev % NUM => used'[i] = used[i]
  BY <1>1, <1>2, <1>4, Zenon DEF TypeOK
<1>6. Dist(used_idx, used_dev, Modulus) + 1 < NUM
  <2>1. \A x \in Completed : \E q \in Procs : idx[q] = x /\ idx[q] # None
    BY <1>2, Owner, Zenon
  <2> QED  BY <1>2, <1>3, <1>4, <2>1, RoomForOne, Zenon DEF Completed
<1>7. /\ \A x : x \in Completed' <=> x \in Completed \/ x = h
      /\ Distinct(used, used_idx, used_dev)' /\ used_dev' \in 0 .. Modulus - 1
  <2>1. /\ Entries(used', used_idx, used_dev) = Entries(used, used_idx, used_dev)
        /\ Distinct(used', used_idx, used_dev)
    BY <1>4, <1>5, RingStore, Zenon
  <2>2. /\ \A x : x \in Entries(used', used_idx, (used_dev + 1) % Modulus) <=>
                  x \in Entries(used', used_idx, used_dev) \/ x = used'[used_dev % NUM]
        /\ Distinct(used', used_idx, (used_dev + 1) % Modulus)
        /\ (used_dev + 1) % Modulus \in 0 .. Modulus - 1
    BY <1>4, <1>5, <1>6, <2>1, RingWrite, Zenon DEF Completed
  <2>3. /\ Completed' = Entries(used', used_idx, (used_dev + 1) % Modulus)
        /\ Distinct(used, used_idx, used_dev)' <=> Distinct(used', used_idx, (used_dev + 1) % Modulus)
    BY <1>1, SMTT(30) DEF Completed, Entries, Distinct
  <2> QED  BY <1>1, <1>5, <2>1, <2>2, <2>3, Zenon DEF Completed
<1>8. Published' = Published /\ Distinct(avail, seen, avail_idx)'
  BY <1>1, <1>2 DEF Published, Entries, Distinct, Queues
<1>9. /\ done'[p] = op[p] /\ info'[h].ok /\ \A d \in Desc : info'[d].b = info[d].b
      /\ \A q \in Procs : idx[q] # None /\ q # p =>
            idx[q] # h /\ done'[q] = done[q] /\ info'[idx[q]] = info[idx[q]]
      /\ \A q \in Procs : idx[q] = None => done'[q] = done[q]
  <2>1. /\ done'[p] = op[p] /\ \A q \in Procs \ {p} : done'[q] = done[q]
    BY <1>2, <1>3, Zenon DEF TypeOK
  <2>2. /\ info'[h].ok /\ info'[h].b = info[h].b /\ \A d \in Desc \ {h} : info'[d] = info[d]
    BY <1>2, <1>3 DEF TypeOK
  <2>3. \A q \in Procs : idx[q] # None /\ q # p => idx[q] \in Desc /\ idx[q] # h
    BY <1>2, <1>3, HeadsApart, Zenon DEF TypeOK
  <2> QED  BY <1>3, <2>1, <2>2, <2>3, Zenon
<1>10. TypeOK'
  <2>1. info' \in [Desc -> [b : Procs \cup {None}, ok : BOOLEAN]]
    <3>1. info[h] \in [b : Procs \cup {None}, ok : BOOLEAN]
      BY <1>2, Zenon DEF TypeOK
    <3>2. [info[h] EXCEPT !.ok = TRUE] \in [b : Procs \cup {None}, ok : BOOLEAN]
      BY <3>1, Zenon
    <3>3. info' = [info EXCEPT ![h] = [info[h] EXCEPT !.ok = TRUE]]
      BY <1>3, Zenon
    <3> QED  BY <1>2, <3>2, <3>3, Zenon DEF TypeOK
  <2>2. used' \in [Desc -> Desc \cup {None}] /\ done' \in [Procs -> {"read", "write", "other", None}]
    BY <1>1, <1>2, <1>3, Zenon DEF TypeOK
  <2> QED  BY <1>1, <1>2, <1>7, <2>1, <2>2 DEF TypeOK
<1>11. CompletionSeen' /\ Control'
  BY <1>1, <1>2, Zenon DEF CompletionSeen, Control
<1>12. Layout' /\ FreeDesc' = FreeDesc
  <2>1. \A q \in Procs : idx[q] # None => info'[idx[q]].b = info[idx[q]].b
    BY <1>2, <1>9 DEF TypeOK
  <2> QED  BY <1>1, <1>2, <2>1, LayoutKept, Zenon
<1>13. Queues'
  BY <1>1, <1>2, <1>3, <1>4, <1>7, <1>8, SMTT(30) DEF Queues
<1>14. Performed'
  BY <1>1, <1>2, <1>3, <1>7, <1>9 DEF Performed
<1>15. SleepersJustified'
  BY <1>1, <1>2, <1>12, Zenon DEF SleepersJustified
<1> QED  BY <1>10, <1>11, <1>12, <1>13, <1>14, <1>15, Zenon DEF IInv
(* The handler passes one completed request on to who waits for it.        *)
LEMMA EntryInv == ASSUME IInv, intr_entry PROVE IInv'
<1> DEFINE h == used[used_idx % NUM]
<1>1. /\ lock = "intr" /\ used_idx # used_dev
      /\ used' = [used EXCEPT ![used_idx % NUM] = None] /\ used_idx' = (used_idx + 1) % Modulus
      /\ UNCHANGED <<lock, op, idx, free, desc, ops, info, avail, avail_idx, used_dev,
                     seen, inflight, due, irq, done>>
  BY Zenon DEF intr_entry, queue, device
<1>2. TypeOK /\ CompletionSeen /\ Control /\ Layout /\ Queues /\ Performed /\ SleepersJustified
  BY Zenon DEF IInv
<1>3. /\ used_idx \in 0 .. Modulus - 1 /\ used_dev \in 0 .. Modulus - 1 /\ used_idx % NUM \in Desc
      /\ Distinct(used, used_idx, used_dev)
  BY <1>2, Place, Zenon DEF TypeOK, Queues
<1>4. Agree(used, used', used_idx % NUM, NUM)
  BY <1>1, <1>2, <1>3, Zenon DEF TypeOK, Agree, Desc
<1>5. /\ h \in Completed /\ \A x : x \in Completed' <=> x \in Completed /\ x # h
      /\ Distinct(used, used_idx, used_dev)' /\ used_idx' \in 0 .. Modulus - 1
  <2>1. used_idx # used_dev
    BY <1>1, Zenon
  <2>2. h \in Entries(used, used_idx, used_dev)
    BY <1>3, <1>4, <2>1, RingRead, Zenon
  <2>3. ASSUME NEW x
        PROVE  x \in Entries(used', (used_idx + 1) % Modulus, used_dev) <=>
                  x \in Entries(used, used_idx, used_dev) /\ x # h
    BY <1>3, <1>4, <2>1, RingRead
  <2>4. /\ Distinct(used', (used_idx + 1) % Modulus, used_dev)
        /\ (used_idx + 1) % Modulus \in 0 .. Modulus - 1
    BY <1>3, <1>4, <2>1, RingRead, Zenon
  <2>5. /\ Completed' = Entries(used', (used_idx + 1) % Modulus, used_dev)
        /\ Distinct(used, used_idx, used_dev)' <=> Distinct(used', (used_idx + 1) % Modulus, used_dev)
    BY <1>1 DEF Completed, Entries, Distinct
  <2> HIDE DEF h
  <2> QED  BY <1>1, <2>2, <2>3, <2>4, <2>5, Zenon DEF Completed
<1>6. PICK p \in Procs : idx[p] = h /\ idx[p] # None /\ bdisk[p] /\ pc[p] = "sleep_buf"
  <2> HIDE DEF h
  <2>1. PICK p \in Procs : idx[p] = h /\ idx[p] # None /\ bdisk[p] /\ pc[p] \in {"wait", "sleep_buf"}
    BY <1>2, <1>5, Owner, Zenon
  <2>2. lock # p
    BY <1>1, Names, Zenon
  <2>3. pc[p] # "wait"
    BY <1>2, <2>2, Zenon DEF Control
  <2> QED  BY <2>1, <2>3, Zenon
<1>7. info[h].b = p
  <2> HIDE DEF h
  <2>1. PICK b, c \in Desc : Laid(p, b, c)
    BY <1>2, <1>6, Zenon DEF Layout
  <2> QED  BY <1>6, <2>1, Zenon DEF Laid
<1>8. /\ bdisk' \in [Procs -> BOOLEAN]
      /\ pc' \in [Procs -> {"idle", "lock", "sleep_desc", "ring", "publish",
                            "wait", "sleep_buf", "relock"}]
      /\ bdisk'[p] = FALSE /\ pc'[p] = "relock"
      /\ \A q \in Procs \ {p} : bdisk'[q] = bdisk[q] /\ pc'[q] = pc[q]
  BY <1>2, <1>6, <1>7, Zenon DEF intr_entry, WakeForBuf, UsedId, TypeOK
<1> HIDE DEF h
<1>9. Published' = Published /\ Distinct(avail, seen, avail_idx)'
  BY <1>1, <1>2, SMTT(30) DEF Published, Entries, Distinct, Queues
<1>10. TypeOK'
  <2>1. used' \in [Desc -> Desc \cup {None}]
    BY <1>1, <1>2, Zenon DEF TypeOK
  <2> QED  BY <1>1, <1>2, <1>5, <1>8, <2>1 DEF TypeOK
<1>11. CompletionSeen'
  BY <1>1, Zenon DEF CompletionSeen
<1>12. Control'
  BY <1>1, <1>2, <1>6, <1>8, Names DEF Control
<1>13. Layout' /\ FreeDesc' = FreeDesc
  BY <1>1, <1>2, LayoutKept, Zenon
<1>14. Queues'
  BY <1>1, <1>2, <1>5, <1>6, <1>8, <1>9, SMTT(30) DEF Queues
<1>15. Performed'
  <2>1. \A q \in Procs \ {p} : idx[q] # None => idx[q] # h
    BY <1>2, <1>6, HeadsApart, Zenon
  <2> QED  BY <1>1, <1>2, <1>5, <1>6, <1>8, <2>1 DEF Performed
<1>16. SleepersJustified'
  BY <1>1, <1>2, <1>8, <1>13, Zenon DEF SleepersJustified
<1> QED  BY <1>10, <1>11, <1>12, <1>13, <1>14, <1>15, <1>16, Zenon DEF IInv

(* virtio_disk_init() leaves empty rings.                                  *)
LEMMA InitInv == ASSUME Init PROVE IInv
<1>1. \A ring : Entries(ring, 0, 0) = {} /\ Distinct(ring, 0, 0)
  <2>1. 0 \in Index(Modulus)
    BY Names
  <2>2. Dist(0, 0, Modulus) = 0
    BY <2>1, DistFacts, Names, Zenon
  <2> QED  BY <2>2, Names DEF Entries, Distinct, Dist
<1>2. Published = {} /\ Completed = {} /\ Queues
  BY <1>1, Zenon DEF Init, Published, Completed, Queues
<1>3. TypeOK
  <2>1. 0 \in 0 .. Modulus - 1
    BY Names
  <2> QED  BY <2>1, Zenon DEF Init, TypeOK, NoDesc, NoOp, NoInfo
<1> QED
  BY <1>2, <1>3, Names, Zenon DEF Init, IInv, CompletionSeen, Control, Layout, Performed,
     SleepersJustified

LEMMA NextInv == ASSUME Counting, IInv, [Next]_vars PROVE IInv'
<1>1. CASE UNCHANGED vars
  <2>1. UNCHANGED <<lock, pc, op, idx, bdisk, free, desc, ops, info, avail, avail_idx, used, used_dev,
                    used_idx, seen, inflight, due, irq, done>>
    BY <1>1, Zenon DEF vars, calls, queue, rings, device
  <2>2. TypeOK /\ CompletionSeen /\ Control /\ Layout /\ Queues /\ Performed /\ SleepersJustified
    BY Zenon DEF IInv
  <2>3. Layout' /\ Queues' /\ Performed' /\ FreeDesc' = FreeDesc
    BY <2>1, <2>2, Quiet, Zenon
  <2>4. TypeOK' /\ CompletionSeen' /\ Control'
    BY <2>1, <2>2, Zenon DEF TypeOK, CompletionSeen, Control
  <2>5. SleepersJustified'
    BY <2>1, <2>2, <2>3, Zenon DEF SleepersJustified
  <2> QED  BY <2>3, <2>4, <2>5, Zenon DEF IInv
<1>2. ASSUME NEW p \in Procs, virtio_disk_rw(p) PROVE IInv'
  BY <1>2, AllocInv, FailInv, PutAvailInv, PublishInv, SleepInv, RelockInv, FinishInv, Zenon
     DEF virtio_disk_rw
<1>3. ASSUME virtio_disk_intr \/ Device PROVE IInv'
  BY <1>3, InterruptInv, EntryInv, TakeInv, CompleteInv, Zenon DEF virtio_disk_intr, Device
<1> QED
  BY <1>1, <1>2, <1>3, CallInv, Zenon DEF Next

-----------------------------------------------------------------------------
(* What the driver implements.                                             *)

LEMMA RefNext == ASSUME IInv, [Next]_vars PROVE [Requests!ReqNext]_(Requests!rvars)
<1>0. TypeOK /\ Control /\ Performed
  BY Zenon DEF IInv
<1>1. ASSUME UNCHANGED <<op, done>> PROVE [Requests!ReqNext]_(Requests!rvars)
  BY <1>1, Zenon DEF Requests!rvars
<1>2. ASSUME NEW p \in Procs, NEW o \in {"read", "write"}, call(p, o)
      PROVE  Requests!ReqNext
  <2>1. op[p] = None /\ op' = [op EXCEPT ![p] = o] /\ UNCHANGED done
    BY <1>0, <1>2, Zenon DEF call, device, Control
  <2>2. Requests!Ask(p, o)
    BY <2>1, Zenon DEF Requests!Ask
  <2> QED  BY <2>2, Zenon DEF Requests!ReqNext
<1>3. ASSUME NEW h \in Desc, dev_complete(h) PROVE Requests!ReqNext
  <2>1. PICK p \in Procs : op[p] # None /\ done[p] = None /\ done' = [done EXCEPT ![p] = op[p]]
    BY <1>3, CompleteStep, Zenon
  <2>2. Requests!Perform(p)
    BY <1>3, <2>1, Zenon DEF dev_complete, calls, Requests!Perform
  <2> QED  BY <2>2, Zenon DEF Requests!ReqNext
<1>4. ASSUME NEW p \in Procs, finish(p) PROVE Requests!ReqNext
  <2>1. pc[p] = "wait" /\ ~bdisk[p]
        /\ op' = [op EXCEPT ![p] = None] /\ done' = [done EXCEPT ![p] = None]
    BY <1>4, Zenon DEF finish
  <2>2. op[p] # None /\ idx[p] # None
    BY <1>0, <2>1, Zenon DEF Control
  <2>3. done[p] = op[p]
    BY <1>0, <2>1, <2>2, Zenon DEF Performed
  <2>4. Requests!Return(p)
    BY <2>1, <2>2, <2>3, Zenon DEF Requests!Return
  <2> QED  BY <2>4, Zenon DEF Requests!ReqNext
<1>5. ASSUME NEW p \in Procs,
             \/ alloc3_desc(p) \/ alloc3_fails(p) \/ put_avail(p) \/ publish(p)
             \/ sleep_buf(p) \/ relock(p)
      PROVE  UNCHANGED <<op, done>>
  BY <1>5, Zenon DEF alloc3_desc, alloc3_fails, put_avail, publish, sleep_buf, relock, device
<1>6. ASSUME virtio_disk_intr \/ dev_take \/ dev_interrupt \/ UNCHANGED vars
      PROVE  UNCHANGED <<op, done>>
  BY <1>6, Zenon DEF virtio_disk_intr, intr_ack, intr_entry, intr_end, dev_take, dev_interrupt,
              vars, calls, device
<1> QED
  BY <1>1, <1>2, <1>3, <1>4, <1>5, <1>6, Zenon DEF Next, virtio_disk_rw, Device

-----------------------------------------------------------------------------
(* Counting.                                                               *)
INSTANCE FiniteSetTheorems

(* Different entries are no more than what they are taken from.            *)
LEMMA WindowFits ==
    ASSUME NEW M \in Nat \ {0}, NEW N, NEW r \in Index(M), NEW w \in Index(M), NEW d,
           Apart(d, r, w, N, M), NEW S, IsFiniteSet(S), Window(d, r, w, N, M) \subseteq S
    PROVE  Dist(r, w, M) <= Cardinality(S)
<1> DEFINE L == Dist(r, w, M)
           D == 0 .. L - 1
           f == [k \in D |-> d[(r + k) % N]]
<1>1. L \in Nat
  BY DistFacts, Zenon
<1>2. IsFiniteSet(D) /\ Cardinality(D) = L
  <2> HIDE DEF L
  <2>1. 0 \in Int /\ L - 1 \in Int
    BY <1>1
  <2>2. IsFiniteSet(D) /\ Cardinality(D) = IF 0 > L - 1 THEN 0 ELSE (L - 1) - 0 + 1
    BY <2>1, FS_Interval, Zenon
  <2> QED  BY <1>1, <2>2
<1>3. f \in [D -> S]
  <2> SUFFICES ASSUME NEW k \in D PROVE d[(r + k) % N] \in S
    BY Zenon
  <2> QED  BY Zenon DEF Window
<1>4. ~\E x, y \in D : x # y /\ f[x] = f[y]
  BY Zenon DEF Apart
<1> HIDE DEF f, D
<1>5. ~(Cardinality(S) < Cardinality(D))
  BY <1>2, <1>3, <1>4, FS_PigeonHole, SMTT(30)
<1>6. Cardinality(S) \in Nat
  BY FS_CardinalityType, Zenon
<1> HIDE DEF L
<1>7. L <= Cardinality(S)
  BY <1>1, <1>2, <1>5, <1>6, SMTT(30)
<1> QED
  BY <1>7, Zenon DEF L

(* Of NUM descriptors two, h and b, are not in the ring: it has room for   *)
(* one more.                                                               *)
LEMMA RingRoom ==
    ASSUME NEW r \in 0 .. Modulus - 1, NEW w \in 0 .. Modulus - 1, NEW d, Distinct(d, r, w),
           NEW h \in Desc, NEW b \in Desc, h # b,
           Entries(d, r, w) \subseteq Desc \ {h, b}
    PROVE  Dist(r, w, Modulus) + 1 < NUM
<1> DEFINE S == (Desc \ {h}) \ {b}
<1>1. Apart(d, r, w, NUM, Modulus) /\ Window(d, r, w, NUM, Modulus) \subseteq S
  BY InRings, Zenon
<1>2. Modulus \in Nat \ {0} /\ r \in Index(Modulus) /\ w \in Index(Modulus)
  BY Names, Zenon
<1>3. IsFiniteSet(Desc) /\ Cardinality(Desc) = NUM
  <2>1. 0 \in Int /\ NUM - 1 \in Int
    BY Names
  <2>2. IsFiniteSet(Desc) /\ Cardinality(Desc) = IF 0 > NUM - 1 THEN 0 ELSE (NUM - 1) - 0 + 1
    BY <2>1, Names, FS_Interval, Zenon
  <2> QED  BY <2>2, Names, SMTT(30)
<1>4. IsFiniteSet(Desc \ {h}) /\ Cardinality(Desc \ {h}) = NUM - 1
  BY <1>3, FS_RemoveElement, Zenon
<1>5. b \in Desc \ {h}
  BY Zenon
<1>6. IsFiniteSet(S) /\ Cardinality(S) = (NUM - 1) - 1
  BY <1>4, <1>5, FS_RemoveElement, Zenon
<1> HIDE DEF S
<1>7. Dist(r, w, Modulus) <= Cardinality(S)
  BY <1>1, <1>2, <1>6, WindowFits, ZenonT(30)
<1>8. Dist(r, w, Modulus) \in Nat
  BY <1>2, DistFacts, Zenon
<1> QED
  BY <1>6, <1>7, <1>8, Names, SMTT(30)

(* Three descriptors.                                                      *)
LEMMA Three ==
    ASSUME NEW a, NEW b, NEW c, a # b, a # c, b # c PROVE Cardinality({a, b, c}) = 3
<1> DEFINE S == {c}
           T == S \cup {b}
<1>1. IsFiniteSet(S) /\ Cardinality(S) = 1
  BY FS_Singleton, Zenon
<1>2. b \notin S /\ a \notin T /\ T \cup {a} = {a, b, c}
  BY Zenon
<1> HIDE DEF S
<1>3. IsFiniteSet(T) /\ Cardinality(T) = Cardinality(S) + 1
  BY <1>1, <1>2, FS_AddElement, Zenon
<1> HIDE DEF T
<1>4. Cardinality(T \cup {a}) = Cardinality(T) + 1
  BY <1>2, <1>3, FS_AddElement, Zenon
<1> QED
  BY <1>1, <1>2, <1>3, <1>4, SMTT(30)

(* The two facts of Counting.                                              *)
LEMMA Counted == Counting
<1>1. ASSUME NEW S, NEW T, S \subseteq Desc, T \subseteq S, Cardinality(S) < 3
      PROVE  Cardinality(T) < 3
  <2>1. IsFiniteSet(Desc)
    BY Names, FS_Interval
  <2>2. IsFiniteSet(S)
    BY <1>1, <2>1, FS_Subset, Zenon
  <2>3. Cardinality(T) <= Cardinality(S) /\ Cardinality(T) \in Nat /\ Cardinality(S) \in Nat
    BY <1>1, <2>2, FS_Subset, FS_CardinalityType, SMTT(30)
  <2> QED  BY <1>1, <2>3, SMTT(30)
<1> QED
  BY <1>1, RingRoom, Zenon DEF Counting

(* What ChainsOwned says follows.                                          *)
LEMMA Owned == ASSUME IInv PROVE ChainsOwned
<1>0. TypeOK /\ Control /\ Layout /\ Queues /\ Performed
  BY Zenon DEF IInv
<1>1. ASSUME NEW h \in Published \cup inflight \cup Completed
      PROVE  \E p \in Procs : idx[p] = h /\ bdisk[p] /\ info[h].b = p /\ pc[p] \in {"wait", "sleep_buf"}
  <2>1. PICK p \in Procs : idx[p] = h /\ bdisk[p] /\ pc[p] \in {"wait", "sleep_buf"}
    BY <1>0, Zenon DEF Queues
  <2>2. idx[p] # None
    BY <1>0, <2>1, Zenon DEF Control
  <2>3. info[idx[p]].b = p
    BY <1>0, <2>2, Zenon DEF Layout, Laid
  <2> QED  BY <2>1, <2>3, Zenon
<1>2. ASSUME NEW h \in Completed PROVE info[h].ok
  <2>1. PICK p \in Procs : idx[p] = h /\ bdisk[p] /\ pc[p] \in {"wait", "sleep_buf"}
    BY <1>0, Zenon DEF Queues
  <2>2. idx[p] # None
    BY <1>0, <2>1, Zenon DEF Control
  <2> QED  BY <1>0, <2>1, <2>2, Zenon DEF Performed
<1>3. ASSUME NEW p \in Procs, idx[p] # None
      PROVE  /\ Cardinality(Chain(idx[p])) = 3
             /\ \A d \in Chain(idx[p]) : ~free[d]
  <2>1. PICK b, c \in Desc : Laid(p, b, c)
    BY <1>0, <1>3, Zenon DEF Layout
  <2>2. idx[p] # b /\ idx[p] # c /\ b # c /\ Chain(idx[p]) = {idx[p], b, c}
    BY <1>0, <1>3, <2>1, Fields, SMTT(30)
  <2>3. Cardinality({idx[p], b, c}) = 3
    BY <2>2, Three, Zenon
  <2> QED  BY <2>1, <2>2, <2>3, SMTT(30) DEF Laid
<1> QED
  BY <1>0, <1>1, <1>2, <1>3, ChainsApart, SMTT(30) DEF ChainsOwned

-----------------------------------------------------------------------------
(* The driver.                                                             *)

LEMMA Invariant == Spec => []IInv
<1>1. Init => IInv
  BY InitInv, Zenon
<1>2. IInv /\ [Next]_vars => IInv'
  BY Counted, NextInv, Zenon
<1> QED  BY <1>1, <1>2, PTL DEF Spec

(* The driver keeps its invariant with any number of descriptors, any ring *)
(* index width, any set of processes and a device that completes in any    *)
(* order: a chain belongs to one request until virtio_disk_rw() frees it,  *)
(* neither ring overflows as its index wraps, virtio_disk_intr() finds the *)
(* waiting buffer of every entry, and no completion is missed although     *)
(* the interrupt is acknowledged first.                                    *)
THEOREM DriverInvariant == Spec => []Inv
<1>1. IInv => Inv
  BY Owned, Zenon DEF IInv, Inv
<1> QED  BY <1>1, Invariant, PTL

(* No process of virtio_disk_rw() sleeps on a buffer the disk has given    *)
(* back, nor for descriptors while three are free, whoever holds the lock. *)
THEOREM DriverWakesSleepers == Spec => []SleepersJustified
<1>1. IInv => SleepersJustified
  BY Zenon DEF IInv
<1> QED  BY <1>1, Invariant, PTL

(* The driver keeps its promise: the device performs every request once    *)
(* and as asked, between call and return of its virtio_disk_rw().          *)
THEOREM DriverImplementsRequests == Spec => ImplementsRequests
<1>1. Init => Requests!ReqInit
  BY Zenon DEF Init, Requests!ReqInit
<1>2. IInv /\ [Next]_vars => [Requests!ReqNext]_(Requests!rvars)
  BY RefNext, Zenon
<1> QED  BY <1>1, <1>2, Invariant, PTL DEF Spec, ImplementsRequests, Requests!ReqSpec
=============================================================================
