------------------------------- MODULE Memory -------------------------------
(***************************************************************************)
(* Physical pages, page tables and user address spaces: kernel/kalloc.c,   *)
(* kernel/vm.c, kernel/exec.c and the memory side of kernel/proc.c.        *)
(*                                                                         *)
(* A C function is an operator on the memory m = [free, page, panic]: it   *)
(* yields the memory it leaves and, with R, what it returns.  A system     *)
(* call is one step.  Calls of several processes share only kmem, under    *)
(* its lock, and none allocates again after a failed kalloc(), so a call   *)
(* that loses a race for the last page ends as it does when a pipe took    *)
(* that page before it began.                                              *)
(***************************************************************************)
EXTENDS Integers, Sequences, SequencesExt, FiniteSets, FiniteSetsExt

CONSTANTS
    NPAGES,    \* pages between end and PHYSTOP
    PGSIZE,    \* bytes in a page
    NPTE,      \* entries of a page-table page (512)
    LEVELS,    \* levels of a page table (3)
    NPROC,
    Programs,  \* files one may exec()
    Argvs,     \* argument vectors: the length of each string
    Grows,     \* arguments of sbrk()
    MAXARG,
    ALIGN,     \* of the user stack pointer (16)
    U64,       \* modulus of uint64 arithmetic
    MaxSz,     \* bound: size a process grows to
    MaxPipes   \* bound: pipes open at once
ASSUME PagesAssumption == NPAGES \in Nat \ {0} /\ PGSIZE \in Nat \ {0, 1}
\* there is less memory than user address space
ASSUME TableAssumption == NPTE \in Nat \ {0, 1} /\ LEVELS \in Nat \ {0} /\ NPAGES < NPTE ^ LEVELS - 1

VARIABLES
    mem,       \* free: how often a page is on kmem.freelist; page: contents
    proc,      \* trapframe, pagetable and sz of every slot; trapframe 0: UNUSED
    pipes,     \* pages pipealloc() got for its pipes
    myproc     \* the process whose call was the last step

vars == <<mem, proc, pipes, myproc>>

Pages == 1 .. NPAGES
Procs == 1 .. NPROC
trampoline == 0         \* a page of kernel text, never allocated
MAXVA == PGSIZE * NPTE ^ LEVELS
TRAMPOLINE == MAXVA - PGSIZE
TRAPFRAME == TRAMPOLINE - PGSIZE

\* bytes: zero, of a program file, of exec()'s arguments, of read() input,
\* and what kalloc() and kfree() fill a page with
Text == 1
Arg == 2
Input == 3
Junk == [x \in 0 .. PGSIZE - 1 |-> 5]
Zeros == [x \in 0 .. PGSIZE - 1 |-> 0]
\* a trapframe, as the program of this number starts; initcode is the first
Regs(number) == [x \in 0 .. PGSIZE - 1 |-> number]
initcode == 6
NoPTE == [pa |-> 0, flags |-> {}]
ZeroTable == [x \in 0 .. NPTE - 1 |-> NoPTE]

PGROUNDUP(sz) == ((sz + PGSIZE - 1) \div PGSIZE) * PGSIZE
PGROUNDDOWN(a) == (a \div PGSIZE) * PGSIZE
PX(level, va) == (va \div (PGSIZE * NPTE ^ level)) % NPTE

(* The page-aligned addresses of a loop over [from, to).                   *)
AddrsFrom(from, to) ==
    [k \in 1 .. (IF from < to THEN PGROUNDUP(to - from) \div PGSIZE ELSE 0) |->
        from + (k - 1) * PGSIZE]

R(m, ret) == [m |-> m, ret |-> ret]
\* the code behind a call: F of the memory it left and of what it returned;
\* the set makes v the value of r before F looks at it
Then(r, F(_, _)) == CHOOSE y \in {F(v.m, v.ret) : v \in {r}} : TRUE
\* a loop whose body takes what the last round left, and the next value of s
Loop(body(_, _), base, s) ==
    LET after[k \in 0 .. Len(s)] ==
          IF k = 0 THEN base ELSE CHOOSE y \in {body(v, s[k]) : v \in {after[k - 1]}} : TRUE
    IN after[Len(s)]
Panic(m) == [m EXCEPT !.panic = TRUE]

-----------------------------------------------------------------------------
(* kalloc.c.  No code compares the addresses of pages, so any free page    *)
(* stands for the first of the list.                                       *)
kfree(m, pa) ==
    IF pa \in Pages THEN [m EXCEPT !.free[pa] = @ + 1, !.page[pa] = Junk] ELSE Panic(m)

kalloc(m) ==
    LET free == {pa \in Pages : m.free[pa] > 0} IN
    IF free = {} THEN R(m, 0)
    ELSE LET pa == Min(free) IN
         R([m EXCEPT !.free[pa] = @ - 1, !.page[pa] = Junk], pa)

-----------------------------------------------------------------------------
(* vm.c: page tables.                                                      *)

(* walk(): the last-level table with the PTE of va, or 0.                  *)
walk(m, pagetable, va, alloc) ==
    LET new(m1, t, x) ==
          Then(kalloc(m1), LAMBDA n, pa :
            IF pa = 0 THEN R(n, 0)
            ELSE R([n EXCEPT !.page[pa] = ZeroTable, !.page[t][x] = [pa |-> pa, flags |-> {"V"}]], pa))
        down(r, level) ==
          LET pte == r.m.page[r.ret][PX(level, va)] IN
          IF r.ret = 0 THEN r
          ELSE IF "V" \in pte.flags THEN R(r.m, pte.pa)
          ELSE IF alloc THEN new(r.m, r.ret, PX(level, va))
          ELSE R(r.m, 0)
    IN IF va >= MAXVA THEN R(Panic(m), 0)
       ELSE Loop(down, R(m, pagetable), [k \in 1 .. LEVELS - 1 |-> LEVELS - k])

(* The PTE of va, NoPTE when walk() returns 0.                             *)
PTE(m, pagetable, va) ==
    Then(walk(m, pagetable, va, FALSE), LAMBDA n, t : IF t = 0 THEN NoPTE ELSE n.page[t][PX(0, va)])

(* walkaddr() has a mutant that forgets to look at PTE_U.                  *)
walkaddr_anymode(m, pagetable, va) ==
    IF va >= MAXVA THEN 0 ELSE PTE(m, pagetable, va).pa
UserPage(pte) == IF {"V", "U"} \subseteq pte.flags THEN pte.pa ELSE 0
walkaddr(m, pagetable, va) ==
    IF va >= MAXVA THEN 0 ELSE UserPage(PTE(m, pagetable, va))

mappages(m, pagetable, va, size, pa, perm) ==
    LET a == PGROUNDDOWN(va)
        map(r, b) ==
          IF r.ret # 0 THEN r
          ELSE Then(walk(r.m, pagetable, b, TRUE), LAMBDA n, t :
            IF t = 0 THEN R(n, -1)
            ELSE IF "V" \in n.page[t][PX(0, b)].flags THEN R(Panic(n), 0)
            ELSE R([n EXCEPT !.page[t][PX(0, b)] =
                      [pa |-> pa + (b - a) \div PGSIZE, flags |-> perm \cup {"V"}]], 0))
    IN Loop(map, R(m, 0), AddrsFrom(a, va + size))

uvmunmap(m, pagetable, va, npages, do_free) ==
    LET unmap(m1, a) ==
          Then(walk(m1, pagetable, a, FALSE), LAMBDA n, t :
            LET pte == n.page[t][PX(0, a)] IN
            IF n.panic \/ t = 0 \/ "V" \notin pte.flags \/ pte.flags = {"V"} THEN Panic(n)
            ELSE [(IF do_free THEN kfree(n, pte.pa) ELSE n) EXCEPT !.page[t][PX(0, a)] = NoPTE])
    IN Loop(unmap, m, AddrsFrom(va, va + npages * PGSIZE))

uvmcreate(m) ==
    Then(kalloc(m), LAMBDA n, pa : IF pa = 0 THEN R(n, 0) ELSE R([n EXCEPT !.page[pa] = ZeroTable], pa))

(* uvmdealloc() has a mutant that rounds the new size down.                *)
uvmdealloc_down(m, pagetable, oldsz, newsz) ==
    IF newsz >= oldsz THEN R(m, oldsz)
    ELSE R(uvmunmap(m, pagetable, PGROUNDDOWN(newsz),
                    (PGROUNDUP(oldsz) - PGROUNDDOWN(newsz)) \div PGSIZE, TRUE), newsz)
uvmdealloc(m, pagetable, oldsz, newsz) ==
    IF newsz >= oldsz THEN R(m, oldsz)
    ELSE R(uvmunmap(m, pagetable, PGROUNDUP(newsz),
                    (PGROUNDUP(oldsz) - PGROUNDUP(newsz)) \div PGSIZE, TRUE), newsz)

(* What uvmalloc() undoes when it fails at a, the mutant nothing.          *)
uvmalloc_undo_nothing(m, pagetable, a, base) == m
uvmalloc_undo(m, pagetable, a, base) == uvmdealloc(m, pagetable, a, base).m

uvmalloc(m, pagetable, oldsz, newsz, xperm) ==
    LET base == PGROUNDUP(oldsz)
        grow(r, a) ==
          IF r.ret # newsz THEN r
          ELSE Then(kalloc(r.m), LAMBDA n, pa :
            IF pa = 0 THEN R(uvmalloc_undo(n, pagetable, a, base), 0)
            ELSE Then(mappages([n EXCEPT !.page[pa] = Zeros], pagetable, a, PGSIZE, pa, {"R", "U"} \cup xperm),
                      LAMBDA l, err :
              IF err # 0 THEN R(uvmalloc_undo(kfree(l, pa), pagetable, a, base), 0)
              ELSE R(l, newsz)))
    IN IF newsz < oldsz THEN R(m, oldsz)
       ELSE Loop(grow, R(m, newsz), AddrsFrom(base, newsz))

(* freewalk() frees the lower tables, then this one.                       *)
RECURSIVE freewalk(_, _)
freewalk(m, pagetable) ==
    LET entry(n, x) ==
          LET pte == n.page[pagetable][x] IN
          IF n.panic \/ "V" \notin pte.flags THEN n
          ELSE IF pte.flags \cap {"R", "W", "X"} # {} THEN Panic(n)
          ELSE [freewalk(n, pte.pa) EXCEPT !.page[pagetable][x] = NoPTE]
    IN kfree(Loop(entry, m, [k \in 1 .. NPTE |-> k - 1]), pagetable)

uvmfree(m, pagetable, sz) ==
    freewalk(uvmunmap(m, pagetable, 0, PGROUNDUP(sz) \div PGSIZE, TRUE), pagetable)

(* The error path of uvmcopy() at page i.                                  *)
uvmcopy_err(m, new, i) == uvmunmap(m, new, 0, i \div PGSIZE, TRUE)

(* The page that uvmcopy() maps for the child, new having the contents of  *)
(* pa; the mutant maps the page of the parent.                             *)
child_page_shared(new, pa) == pa
child_page(new, pa) == new

uvmcopy(m, old, new, sz) ==
    LET child(m1, pte, i) ==
          Then(kalloc(m1), LAMBDA n, pa :
            IF pa = 0 THEN R(uvmcopy_err(n, new, i), -1)
            ELSE Then(mappages([n EXCEPT !.page[pa] = n.page[pte.pa]], new, i, PGSIZE,
                               child_page(pa, pte.pa), pte.flags), LAMBDA l, err :
              IF err # 0 THEN R(uvmcopy_err(kfree(l, pa), new, i), -1) ELSE R(l, 0)))
        copy(r, i) ==
          IF r.ret # 0 THEN r
          ELSE LET pte == PTE(r.m, old, i) IN
               IF "V" \notin pte.flags THEN R(Panic(r.m), -1) ELSE child(r.m, pte, i)
    IN Loop(copy, R(m, 0), AddrsFrom(0, sz))

uvmclear(m, pagetable, va) ==
    Then(walk(m, pagetable, va, FALSE), LAMBDA n, t :
      IF t = 0 THEN Panic(n) ELSE [n EXCEPT !.page[t][PX(0, va)].flags = @ \ {"U"}])

-----------------------------------------------------------------------------
(* vm.c: copying between kernel and user space, a page at a time.          *)

(* The pieces of [va, va + len) in one page each: <<address, length>>.     *)
Pieces(va, len) ==
    [k \in 1 .. Len(AddrsFrom(PGROUNDDOWN(va), va + len)) |->
        LET lo == IF k = 1 THEN va ELSE PGROUNDDOWN(va) + (k - 1) * PGSIZE
            hi == PGROUNDDOWN(lo) + PGSIZE
        IN <<lo, (IF hi < va + len THEN hi ELSE va + len) - lo>>]

(* copyout() writes byte v, len times.                                     *)
copyout(m, pagetable, dstva, v, len) ==
    LET put(r, piece) ==
          LET pa0 == walkaddr(r.m, pagetable, PGROUNDDOWN(piece[1]))
              x == piece[1] % PGSIZE
          IN IF r.ret # 0 THEN r
             ELSE IF pa0 = 0 THEN R(r.m, -1)
             ELSE R([r.m EXCEPT !.page[pa0] =
                        [y \in DOMAIN @ |-> IF y \in x .. x + piece[2] - 1 THEN v ELSE @[y]]], 0)
    IN IF len = 0 THEN R(m, 0) ELSE Loop(put, R(m, 0), Pieces(dstva, len))

(* What copyin() brings to the kernel, or <<-1>>.                          *)
copyin(m, pagetable, srcva, len) ==
    LET get(dst, piece) ==
          LET pa0 == walkaddr(m, pagetable, PGROUNDDOWN(piece[1]))
              x == piece[1] % PGSIZE
          IN IF dst = <<-1>> \/ pa0 = 0 THEN <<-1>>
             ELSE dst \o [y \in 1 .. piece[2] |-> m.page[pa0][x + y - 1]]
    IN IF len = 0 THEN <<>> ELSE Loop(get, <<>>, Pieces(srcva, len))

(* copyinstr() stops behind the first zero byte; the pages after it need   *)
(* not be mapped.  The mutant stops with the page.                         *)
copyinstr(m, pagetable, srcva, max) ==
    LET get(dst, piece) ==
          LET pa0 == walkaddr(m, pagetable, PGROUNDDOWN(piece[1]))
              x == piece[1] % PGSIZE
              got == [y \in 1 .. piece[2] |-> m.page[pa0][x + y - 1]]
              nul == {y \in DOMAIN got : got[y] = 0}
          IN IF dst # <<>> /\ Last(dst) \in {0, -1} THEN dst
             ELSE IF pa0 = 0 THEN <<-1>>
             ELSE dst \o (IF nul = {} THEN got ELSE SubSeq(got, 1, Min(nul)))
        dst == IF max = 0 THEN <<>> ELSE Loop(get, <<>>, Pieces(srcva, max))
    IN IF dst # <<>> /\ Last(dst) = 0 THEN dst ELSE <<-1>>

-----------------------------------------------------------------------------
(* proc.c: the address space of a process.                                 *)

proc_pagetable(m, trapframe) ==
    Then(uvmcreate(m), LAMBDA m1, pagetable :
      IF pagetable = 0 THEN R(m1, 0)
      ELSE Then(mappages(m1, pagetable, TRAMPOLINE, PGSIZE, trampoline, {"R", "X"}), LAMBDA m2, err2 :
        IF err2 # 0 THEN R(uvmfree(m2, pagetable, 0), 0)
        ELSE Then(mappages(m2, pagetable, TRAPFRAME, PGSIZE, trapframe, {"R", "W"}), LAMBDA m3, err3 :
          IF err3 # 0 THEN R(uvmfree(uvmunmap(m3, pagetable, TRAMPOLINE, 1, FALSE), pagetable, 0), 0)
          ELSE R(m3, pagetable))))

proc_freepagetable(m, pagetable, sz) ==
    uvmfree(uvmunmap(uvmunmap(m, pagetable, TRAMPOLINE, 1, FALSE), pagetable, TRAPFRAME, 1, FALSE),
            pagetable, sz)

Unused == [trapframe |-> 0, pagetable |-> 0, sz |-> 0]

freeproc(m, p) ==
    LET n == IF p.trapframe # 0 THEN kfree(m, p.trapframe) ELSE m IN
    IF p.pagetable # 0 THEN proc_freepagetable(n, p.pagetable, p.sz) ELSE n

(* allocproc() once it has found an UNUSED slot; it returns Unused when    *)
(* there is no memory.                                                     *)
allocproc(m) ==
    Then(kalloc(m), LAMBDA m1, trapframe :
      IF trapframe = 0 THEN R(freeproc(m1, Unused), Unused)
      ELSE Then(proc_pagetable(m1, trapframe), LAMBDA m2, pagetable :
        LET p == [trapframe |-> trapframe, pagetable |-> pagetable, sz |-> 0] IN
        IF pagetable = 0 THEN R(freeproc(m2, p), Unused) ELSE R(m2, p)))

(* userinit(), with uvmfirst(): the first process has one page.            *)
userinit ==
    Then(allocproc([free |-> [pa \in Pages |-> 1], page |-> [pa \in Pages |-> Junk], panic |-> FALSE]),
         LAMBDA m1, p :
      Then(kalloc(m1), LAMBDA m2, pa :
        Then(mappages([m2 EXCEPT !.page[pa] = Zeros], p.pagetable, 0, PGSIZE, pa, {"R", "W", "X", "U"}),
             LAMBDA m3, err :
          R([m3 EXCEPT !.page[p.trapframe] = Regs(initcode)], [p EXCEPT !.sz = PGSIZE]))))

(* growproc(): sz + n is taken modulo the width of uint64.                 *)
growproc(m, p, n) ==
    Then(IF n > 0 THEN uvmalloc(m, p.pagetable, p.sz, p.sz + n, {"W"})
         ELSE IF n < 0 THEN uvmdealloc(m, p.pagetable, p.sz, (p.sz + n) % U64)
         ELSE R(m, p.sz),
         LAMBDA l, sz :
      IF n > 0 /\ sz = 0 THEN [m |-> l, ret |-> -1, p |-> p]
      ELSE [m |-> l, ret |-> p.sz, p |-> [p EXCEPT !.sz = sz]])

(* fork() into a free slot: the copy of p, or Unused.                      *)
fork(m, p) ==
    Then(allocproc(m), LAMBDA m1, np :
      IF np = Unused THEN R(m1, Unused)
      ELSE Then(uvmcopy(m1, p.pagetable, np.pagetable, p.sz), LAMBDA m2, err :
        IF err # 0 THEN R(freeproc(m2, np), Unused)
        ELSE R([m2 EXCEPT !.page[np.trapframe] = m2.page[p.trapframe]], [np EXCEPT !.sz = p.sz])))

-----------------------------------------------------------------------------
(* exec.c.  A program is [name, elf, segs]; a segment ph has the vaddr,    *)
(* memsz, filesz and flags of its header, and avail bytes in the file.     *)

loadseg(m, pagetable, ph) ==
    LET load(r, i) ==
          LET pa == walkaddr(r.m, pagetable, ph.vaddr + i)
              n == IF ph.filesz - i < PGSIZE THEN ph.filesz - i ELSE PGSIZE
          IN IF r.ret < 0 THEN r
             ELSE IF pa = 0 THEN R(Panic(r.m), -1)
             ELSE IF i + n > ph.avail THEN R(r.m, -1)
             ELSE R([r.m EXCEPT !.page[pa] = [y \in DOMAIN @ |-> IF y < n THEN Text ELSE @[y]]], 0)
    IN Loop(load, R(m, 0), AddrsFrom(0, ph.filesz))

BadHeader(ph) ==
    \/ ph.memsz < ph.filesz
    \/ (ph.vaddr + ph.memsz) % U64 < ph.vaddr
    \/ ph.vaddr % PGSIZE # 0

(* exec() yields [m, ret, p] with the process it leaves; here it fails.    *)
bad(m, p, pagetable, sz) ==
    [m |-> IF pagetable # 0 THEN proc_freepagetable(m, pagetable, sz) ELSE m, ret |-> -1, p |-> p]

(* The loop over the program headers: whether all went well, and sz.       *)
load_program(m, pagetable, segs) ==
    LET segment(r, ph) ==
          IF ~r.ret.ok \/ BadHeader(ph) THEN [r EXCEPT !.ret.ok = FALSE]
          ELSE Then(uvmalloc(r.m, pagetable, r.ret.sz, ph.vaddr + ph.memsz, ph.flags), LAMBDA n, sz :
            IF sz = 0 THEN R(n, [r.ret EXCEPT !.ok = FALSE])
            ELSE Then(loadseg(n, pagetable, ph), LAMBDA l, err : R(l, [ok |-> err = 0, sz |-> sz])))
    IN Loop(segment, R(m, [ok |-> TRUE, sz |-> 0]), segs)

(* The strings with their zeros, then argv[] with its null pointer.        *)
push_arguments(m, pagetable, sz, argv) ==
    LET push(r, len) ==
          LET sp == ((r.ret.sp - len) \div ALIGN) * ALIGN IN
          IF ~r.ret.ok \/ sp < sz - PGSIZE THEN [r EXCEPT !.ret.ok = FALSE]
          ELSE Then(copyout(r.m, pagetable, sp, Arg, len), LAMBDA n, err : R(n, [ok |-> err = 0, sp |-> sp]))
    IN Loop(push, R(m, [ok |-> TRUE, sp |-> sz]),
                [k \in 1 .. Len(argv) |-> argv[k] + 1] \o <<Len(argv) + 1>>)

exec(m, p, prog, argv) ==
    IF ~prog.elf THEN bad(m, p, 0, 0)
    ELSE Then(proc_pagetable(m, p.trapframe), LAMBDA m1, pagetable :
      IF pagetable = 0 THEN bad(m1, p, 0, 0)
      ELSE Then(load_program(m1, pagetable, prog.segs), LAMBDA m2, loaded :
        LET base == PGROUNDUP(loaded.sz) IN
        IF ~loaded.ok THEN bad(m2, p, pagetable, loaded.sz)
        ELSE Then(uvmalloc(m2, pagetable, base, base + 2 * PGSIZE, {"W"}), LAMBDA m3, sz :
          IF sz = 0 THEN bad(m3, p, pagetable, base)
          ELSE Then(push_arguments(uvmclear(m3, pagetable, sz - 2 * PGSIZE), pagetable, sz, argv),
                    LAMBDA m4, pushed :
            IF ~pushed.ok THEN bad(m4, p, pagetable, sz)
            ELSE [m |-> proc_freepagetable([m4 EXCEPT !.page[p.trapframe] = Regs(prog.number)], p.pagetable, p.sz),
                  ret |-> Len(argv), p |-> [p EXCEPT !.pagetable = pagetable, !.sz = sz]]))))

(* sys_exec() frees the arguments; the mutant does so only after success.  *)
free_argv_ok(m, argv, ok) == IF ok THEN Loop(kfree, m, argv) ELSE m
free_argv(m, argv, ok) == Loop(kfree, m, argv)

(* sys_exec(): a page for each argument, freed in the end; a string of     *)
(* length -1 cannot be fetched.                                            *)
sys_exec(m, p, prog, argv) ==
    LET fetch(r, len) ==
          IF ~r.ret.ok \/ Len(r.ret.argv) >= MAXARG THEN [r EXCEPT !.ret.ok = FALSE]
          ELSE Then(kalloc(r.m), LAMBDA n, pa :
            IF pa = 0 THEN [r EXCEPT !.ret.ok = FALSE]
            ELSE R(n, [argv |-> Append(r.ret.argv, pa), ok |-> len >= 0]))
        ended(r, fetched) == [r EXCEPT !.m = free_argv(r.m, fetched.argv, fetched.ok)]
    IN Then(Loop(fetch, R(m, [argv |-> <<>>, ok |-> TRUE]), argv), LAMBDA n, fetched :
         ended(IF fetched.ok /\ Len(argv) < MAXARG THEN exec(n, p, prog, argv)
               ELSE [m |-> n, ret |-> -1, p |-> p], fetched))

-----------------------------------------------------------------------------
Init ==
    /\ mem = userinit.m
    /\ proc = [q \in Procs |-> IF q = 1 THEN userinit.ret ELSE Unused]
    /\ pipes = {}
    /\ myproc = 1

Live == {q \in Procs : proc[q] # Unused}

sys_fork(p) ==
    /\ Live # Procs
    /\ \E r \in {fork(mem, proc[p])} :
        /\ mem' = r.m
        /\ proc' = [proc EXCEPT ![Min(Procs \ Live)] = r.ret]
    /\ UNCHANGED pipes

(* wait() frees a process that has exited; its memory is untouched since.  *)
wait(p, q) ==
    /\ q # p /\ q # 1 /\ q \in Live
    /\ mem' = freeproc(mem, proc[q])
    /\ proc' = [proc EXCEPT ![q] = Unused]
    /\ UNCHANGED pipes

Exec(p, prog, argv) ==
    /\ \E r \in {sys_exec(mem, proc[p], prog, argv)} :
        /\ mem' = r.m
        /\ proc' = [proc EXCEPT ![p] = r.p]
    /\ UNCHANGED pipes

sys_sbrk(p, n) ==
    /\ proc[p].sz + n <= MaxSz
    /\ \E r \in {growproc(mem, proc[p], n)} :
        /\ mem' = r.m
        /\ proc' = [proc EXCEPT ![p] = r.p]
    /\ UNCHANGED pipes

(* read() and the like store two bytes at va.                              *)
Store(p, va) ==
    /\ mem' = copyout(mem, proc[p].pagetable, va, Input, 2).m
    /\ UNCHANGED <<proc, pipes>>

(* pipealloc() and pipeclose() take and give a page.                       *)
pipealloc(p) ==
    /\ Cardinality(pipes) < MaxPipes
    /\ \E k \in {kalloc(mem)} :
        /\ mem' = k.m
        /\ pipes' = IF k.ret = 0 THEN pipes ELSE pipes \cup {k.ret}
    /\ UNCHANGED proc

pipeclose(p, pa) ==
    /\ pa \in pipes
    /\ mem' = kfree(mem, pa)
    /\ pipes' = pipes \ {pa}
    /\ UNCHANGED proc

Next ==
    /\ ~mem.panic
    /\ \E p \in Live : myproc' = p /\
       (\/ sys_fork(p)
        \/ \E q \in Procs : wait(p, q)
        \/ \E prog \in Programs, argv \in Argvs : Exec(p, prog, argv)
        \/ \E n \in Grows : sys_sbrk(p, n)
        \/ Store(p, PGSIZE - 1)
        \/ pipealloc(p)
        \/ \E pa \in pipes : pipeclose(p, pa))

Spec == Init /\ [][Next]_vars

-----------------------------------------------------------------------------
PageAddrs == {k * PGSIZE : k \in 0 .. NPTE ^ LEVELS - 1}
UserAddrs(p) == {a \in PageAddrs : a < p.sz}

(* The page-table pages of the tree at pagetable.                          *)
RECURSIVE Tables(_, _)
Tables(pagetable, level) ==
    {pagetable} \cup IF level = 0 THEN {}
                     ELSE UNION {Tables(pte.pa, level - 1) :
                                    pte \in Range(mem.page[pagetable]) \ {NoPTE}}

(* Every page is on the free list once, or it belongs to one owner once:   *)
(* to a pipe or, in one process, as trapframe, page-table page or memory.  *)
(* So nothing leaks or is shared, and nothing is freed twice, whichever    *)
(* allocation of fork(), exec() or sbrk() fails.                           *)
PagesAccounted ==
    LET free == {pa \in Pages : mem.free[pa] > 0}
        tables(q) == Tables(proc[q].pagetable, LEVELS - 1)
        memory(q) == {PTE(mem, proc[q].pagetable, a).pa : a \in UserAddrs(proc[q])}
        size(q) == 1 + Cardinality(tables(q)) + Cardinality(UserAddrs(proc[q]))
    IN /\ \A pa \in free : mem.free[pa] = 1
       /\ Pages = free \cup pipes \cup
             UNION {{proc[q].trapframe} \cup tables(q) \cup memory(q) : q \in Live}
       /\ NPAGES = Cardinality(free) + Cardinality(pipes) + MapThenSumSet(size, Live)

(* An address space has mappings exactly for [0, sz), the trapframe of its *)
(* process and the trampoline; the last two are not for user mode.  So     *)
(* uvmunmap(), mappages(), freewalk() and loadseg() never meet a mapping   *)
(* they do not expect, which would be a panic.                             *)
AddressSpace ==
    ~mem.panic /\ \A q \in Live :
        LET pte(a) == PTE(mem, proc[q].pagetable, a) IN
        /\ {a \in PageAddrs : pte(a) # NoPTE} = UserAddrs(proc[q]) \cup {TRAPFRAME, TRAMPOLINE}
        /\ pte(TRAPFRAME) = [pa |-> proc[q].trapframe, flags |-> {"R", "W", "V"}]
        /\ pte(TRAMPOLINE) = [pa |-> trampoline, flags |-> {"R", "X", "V"}]

(* What the user program of p sees: size, registers, memory, permissions.  *)
Image(m, p) ==
    [sz |-> p.sz, regs |-> m.page[p.trapframe],
     memory |-> [a \in UserAddrs(p) |-> LET pte == PTE(m, p.pagetable, a) IN <<m.page[pte.pa], pte.flags>>]]

(* A call leaves the image of every process but its caller as it was,      *)
(* whatever pages it allocates, frees or runs out of, and a process that   *)
(* fork() makes starts with the image of the caller (uvmcopy() copies, and *)
(* copyout() and uvmunmap() reach pages of one address space only).        *)
Isolation ==
    [][\A q \in Procs \ {myproc'} : proc'[q] # Unused =>
          Image(mem', proc'[q]) = Image(mem, proc[IF q \in Live THEN q ELSE myproc'])]_vars

(* Whichever fork(), exec() or sbrk() would fail now: it leaves the caller *)
(* its image and gives all memory back, but for the page-table pages that  *)
(* a failed sbrk() keeps.                                                  *)
FailureHarmless ==
    \A p \in Live :
        LET same(m) == Image(m, proc[p]) = Image(mem, proc[p]) IN
        /\ \A r \in {fork(mem, proc[p])} : r.ret = Unused => same(r.m) /\ r.m.free = mem.free
        /\ \A prog \in Programs, argv \in Argvs : \A r \in {sys_exec(mem, proc[p], prog, argv)} :
             r.ret < 0 => r.p = proc[p] /\ same(r.m) /\ r.m.free = mem.free
        /\ \A n \in Grows : \A r \in {growproc(mem, proc[p], n)} :
             r.ret < 0 => r.p = proc[p] /\ same(r.m)

(* copyin(), copyinstr() and copyout() agree with an access byte by byte,  *)
(* wherever the user pointer leads: copyin() succeeds if every byte is     *)
(* there for user mode, copyinstr() if the bytes up to the first zero are, *)
(* and copyout() stores up to the first byte that is not there.            *)
UserCopies ==
    \A q \in Live : \A va \in 0 .. proc[q].sz \cup {TRAPFRAME, MAXVA - 1, MAXVA}, len \in {2, PGSIZE + 1} :
        LET pte(a) == PTE(mem, proc[q].pagetable, PGROUNDDOWN(a))
            there(a) == a < MAXVA /\ "U" \in pte(a).flags
            byte(m, a) == m.page[pte(a).pa][a % PGSIZE]
            bytes == [k \in 1 .. len |-> IF there(va + k - 1) THEN byte(mem, va + k - 1) ELSE -1]
            ends == {k \in 1 .. len : bytes[k] \in {0, -1}}
            stop == Min({k \in 1 .. len : bytes[k] = -1} \cup {len + 1})
        IN /\ copyin(mem, proc[q].pagetable, va, len) = IF stop <= len THEN <<-1>> ELSE bytes
           /\ copyinstr(mem, proc[q].pagetable, va, len) =
                 IF ends # {} /\ bytes[Min(ends)] = 0 THEN SubSeq(bytes, 1, Min(ends)) ELSE <<-1>>
           /\ \A r \in {copyout(mem, proc[q].pagetable, va, Input, len)} :
                /\ r.ret = IF stop <= len THEN -1 ELSE 0
                /\ \A a \in 0 .. proc[q].sz - 1 :
                     byte(r.m, a) = IF a - va + 1 \in 1 .. stop - 1 THEN Input ELSE byte(mem, a)
=============================================================================
