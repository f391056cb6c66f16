------------------------------ MODULE MCMemory ------------------------------
(* An instance of Memory for TLC.                                          *)
EXTENDS Memory

Segment(memsz, avail) ==
    [vaddr |-> 0, memsz |-> memsz, filesz |-> 2, avail |-> avail, flags |-> {"X"}]

(* A program of one segment, and one whose file is too short.              *)
TwoPrograms ==
    {[number |-> initcode + 1, elf |-> TRUE, segs |-> <<Segment(3, 2)>>],
     [number |-> initcode + 2, elf |-> TRUE, segs |-> <<Segment(3, 1)>>]}

(* One argument fits on the stack, two do not; one cannot be fetched.      *)
ThreeArgvs == {<<0>>, <<0, 0>>, <<0, -1>>}

GrowAndShrink == {-6, 6}

(* The tree of tables below pagetable with what its leaves refer to.       *)
RECURSIVE Tree(_, _)
Tree(pagetable, level) ==
    [x \in 0 .. NPTE - 1 |->
        LET pte == mem.page[pagetable][x] IN
        IF pte = NoPTE \/ pte.pa = trampoline THEN pte
        ELSE IF level = 0 THEN <<pte.flags, mem.page[pte.pa]>>
        ELSE Tree(pte.pa, level - 1)]

(* States that differ in the names of their pages only are the same: no    *)
(* code depends on them.  Where pages are shared or lost, names count.     *)
(* (TLC evaluates a state in full when it compares it.)                    *)
View ==
    IF mem.panic \/ ~PagesAccounted \/ vars # vars THEN vars
    ELSE <<Cardinality(pipes),
           [q \in Procs |-> IF q \in Live THEN <<proc[q].sz, Tree(proc[q].pagetable, LEVELS - 1)>> ELSE <<>>]>>
=============================================================================
