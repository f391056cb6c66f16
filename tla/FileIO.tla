------------------------------- MODULE FileIO -------------------------------
(***************************************************************************)
(* Files: the block allocator and the contents of inodes (balloc() to      *)
(* writei() of kernel/fs.c), open files (kernel/file.c) and the file       *)
(* descriptors of processes (kernel/sysfile.c, fork() and exit()).         *)
(*                                                                         *)
(* What a call does with an inode between ilock() and iunlock() is one     *)
(* step: another process can meanwhile only take or free blocks of the     *)
(* bitmap, each under its buffer's lock, and nothing is allocated after a  *)
(* failed balloc().  A filewrite() is one step per transaction; the iput() *)
(* of a fileclose() is a step of its own.  Names are left to Inode: a file *)
(* is named by its inode.                                                  *)
(***************************************************************************)
EXTENDS Integers, Sequences, SequencesExt, FiniteSets, FiniteSetsExt

CONSTANTS
    Procs, initproc, Inodes,
    FSBLOCKS,     \* data blocks of the disk; their numbers start at 1
    Others,       \* sets of blocks that other files may have at the start
    BSIZE,        \* bytes in a block, and block numbers in an indirect block
    NDIRECT,
    BPB,          \* bits in a block of the bitmap
    MAXOPBLOCKS,  \* param.h
    NFILE, NOFILE,
    Opens,        \* the open() calls: <<process, file, mode, O_CREATE, O_TRUNC>>;
                  \* bound: what one of them gives is open once at a time
    Counts,       \* lengths of read() and write()
    Faulty,       \* bound: processes whose user buffers may fault
    MaxDescs      \* bound: descriptors open at once
ASSUME FsAssumption ==
    FSBLOCKS \in Nat /\ BSIZE \in Nat \ {0} /\ BPB \in Nat \ {0} /\ NDIRECT \in Nat
\* a transaction of filewrite() writes one block at least
ASSUME OpAssumption == MAXOPBLOCKS >= 6 /\ 0 \notin Inodes
ASSUME ProcAssumption == Procs \subseteq Nat \ {0} /\ initproc \in Procs
ASSUME OthersAssumption == Others \subseteq SUBSET (1 .. FSBLOCKS)

VARIABLES
    fs,      \* used: the bitmap, other: the part of other files; blk: what
             \* a bread() of a block finds; home: what it finds once the
             \* buffer has been recycled; inode; panic
    ftable,  \* file: the open files; pipe: the ends of each pipe that are
             \* open, a pipe being named by its reading file; panic
    ofile,   \* p->ofile, 0 where there is none
    st       \* where each process is

vars == <<fs, ftable, ofile, st>>

Blocks == 1 .. FSBLOCKS
Files == 1 .. NFILE
Fds == 0 .. NOFILE - 1
NINDIRECT == BSIZE
MAXFILE == NDIRECT + NINDIRECT
ZeroBlock == [x \in 0 .. BSIZE - 1 |-> 0]
NoFile == [type |-> "none", ref |-> 0, ip |-> 0, off |-> 0, mode |-> "r", pipe |-> 0]
FreeInode == [type |-> "free", nlink |-> 0, size |-> 0, addrs |-> [x \in 0 .. NDIRECT |-> 0]]

-----------------------------------------------------------------------------
(* fs.c.  d is a value of fs.  Operators that write yield the new d, what  *)
(* they return, and the blocks they gave to log_write(): data blocks, the  *)
(* inode's block 0, and below it those of the bitmap.                      *)
InodeBlock == 0
BBLOCK(b) == -1 - b \div BPB

(* log_write() of b, which then holds c: the buffer stays until the block  *)
(* is installed.                                                           *)
log_write(d, b, c) == [d EXCEPT !.blk[b] = c, !.home[b] = c]

R(d, ret, logged) == [d |-> d, ret |-> ret, logged |-> logged]
\* the code behind a call: F of the call's result
Then(r, F(_)) == F(r)

(* balloc(), with bzero(): the first free block, or 0.                     *)
balloc(d) ==
    IF Blocks \subseteq d.used THEN R(d, 0, {})
    ELSE LET b == Min(Blocks \ d.used) IN
         R(log_write([d EXCEPT !.used = @ \cup {b}], b, ZeroBlock), b, {BBLOCK(b), b})

(* bfree().  What a free block holds does not matter: balloc() zeroes it.  *)
bfree(d, b) ==
    log_write([d EXCEPT !.panic = @ \/ b \notin d.used, !.used = @ \ {b}], b, ZeroBlock)

(* bmap() through the indirect block; the mutant forgets to record there   *)
(* the block it allocated.                                                 *)
indirect_forgets(d, ind, bn) ==
    IF d.blk[ind][bn] # 0 THEN R(d, d.blk[ind][bn], {}) ELSE balloc(d)
indirect(d, ind, bn) ==
    IF d.blk[ind][bn] # 0 THEN R(d, d.blk[ind][bn], {})
    ELSE Then(balloc(d), LAMBDA a :
      IF a.ret = 0 THEN a
      ELSE R(log_write(a.d, ind, [a.d.blk[ind] EXCEPT ![bn] = a.ret]), a.ret, a.logged \cup {ind}))

bmap(d, i, bn) ==
    LET x == IF bn < NDIRECT THEN bn ELSE NDIRECT
        addr == d.inode[i].addrs[x]
        here(a) == R([a.d EXCEPT !.inode[i].addrs[x] = a.ret], a.ret, a.logged)
    IN Then(here(IF addr # 0 THEN R(d, addr, {}) ELSE balloc(d)), LAMBDA a :
         IF bn < NDIRECT \/ a.ret = 0 THEN a
         ELSE Then(indirect(a.d, a.ret, bn - NDIRECT), LAMBDA b : R(b.d, b.ret, a.logged \cup b.logged)))

(* itrunc(): the blocks, and then the block that lists the rest.           *)
BlocksOf(f, n) == SelectSeq([k \in 1 .. n |-> f[k - 1]], LAMBDA b : b # 0)
trunc_indirect(d, ind) == bfree(FoldLeft(bfree, d, BlocksOf(d.blk[ind], NINDIRECT)), ind)
itrunc(d, i) ==
    LET addrs == d.inode[i].addrs
        direct == FoldLeft(bfree, d, BlocksOf(addrs, NDIRECT))
        all == IF addrs[NDIRECT] # 0 THEN trunc_indirect(direct, addrs[NDIRECT]) ELSE direct
    IN [all EXCEPT !.inode[i].addrs = FreeInode.addrs, !.inode[i].size = 0]

(* The number of bytes readi() returns.                                    *)
readi(d, i, off, n) ==
    LET size == d.inode[i].size IN
    IF off > size THEN 0 ELSE IF off + n > size THEN size - off ELSE n

(* What programs write: each process, at each offset, a byte of its own.   *)
Datum(p, o) == p * MAXFILE * BSIZE + o

(* writei() of n bytes of p, of which either_copyin() can read avail: they *)
(* go to the file block by block, and log_write() follows each.  In the    *)
(* block where copyin() fails, the bytes it has copied by then stay in the *)
(* buffer, which is not logged, unless bmap() has just allocated the block *)
(* and bzero() has logged it, or (in_log) an earlier operation of the      *)
(* transaction has.  It returns the bytes written.                         *)
writei(d, i, off, n, p, avail, in_log) ==
    LET bytes(lo, hi, bn, old) ==
          [x \in 0 .. BSIZE - 1 |->
             IF bn * BSIZE + x \in lo .. hi - 1 THEN Datum(p, bn * BSIZE + x) ELSE old[x]]
        put(r, bn) ==
          LET lo == Max({off, bn * BSIZE})
              hi == Min({off + n, (bn + 1) * BSIZE})
          IN IF r.stop THEN r
             ELSE Then(bmap(r.d, i, bn), LAMBDA b :
               LET logged == r.logged \cup b.logged
                   got == bytes(lo, Min({hi, off + avail}), bn, b.d.blk[b.ret])
               IN IF b.ret = 0
                  THEN [r EXCEPT !.d = b.d, !.stop = TRUE, !.logged = logged]
                  ELSE IF hi > off + avail
                  THEN [r EXCEPT !.d = IF b.ret \in b.logged \/ in_log THEN log_write(b.d, b.ret, got)
                                       ELSE [b.d EXCEPT !.blk[b.ret] = got],
                                 !.stop = TRUE, !.logged = logged]
                  ELSE [d |-> log_write(b.d, b.ret, got), tot |-> r.tot + (hi - lo), stop |-> FALSE,
                        logged |-> logged \cup {b.ret}])
    IN IF off > d.inode[i].size \/ off + n > MAXFILE * BSIZE THEN R(d, -1, {})
       ELSE Then(FoldLeft(put, [d |-> d, tot |-> 0, stop |-> FALSE, logged |-> {InodeBlock}],
                          [k \in 1 .. (off + n - 1) \div BSIZE - off \div BSIZE + 1 |->
                             off \div BSIZE + k - 1]),
                 LAMBDA r :
         R([r.d EXCEPT !.inode[i].size = Max({@, off + r.tot})], r.tot, r.logged))

(* filewrite()'s limit for one transaction; the mutant counts the inode    *)
(* and the indirect block only, and not the bitmap.                        *)
max_nobitmap == (MAXOPBLOCKS - 1 - 1) * BSIZE
max == ((MAXOPBLOCKS - 1 - 1 - 2) \div 2) * BSIZE

-----------------------------------------------------------------------------
(* file.c.  t is a value of ftable.                                        *)

Free(t) == {f \in Files : t.file[f].ref = 0}
filealloc(t) ==
    IF Free(t) = {} THEN [t |-> t, f |-> 0]
    ELSE [t |-> [t EXCEPT !.file[Min(Free(t))].ref = 1], f |-> Min(Free(t))]

filedup(t, f) ==
    [t EXCEPT !.panic = @ \/ t.file[f].ref < 1, !.file[f].ref = @ + 1]

(* fileclose() up to the iput(); pipeclose() is part of it.                *)
fileclose(t, f) ==
    LET ff == t.file[f] IN
    IF ff.ref < 1 THEN [t EXCEPT !.panic = TRUE]
    ELSE IF ff.ref > 1 THEN [t EXCEPT !.file[f].ref = @ - 1]
    ELSE [t EXCEPT !.file[f] = NoFile, !.pipe[ff.pipe] = @ \ {ff.mode}]

(* The inode that fileclose() has to put, or 0.                            *)
ToPut(t, f) == IF t.file[f].ref = 1 THEN t.file[f].ip ELSE 0

(* What a write of n1 bytes adds to f->off if writei() returned r; the     *)
(* mutant takes the bytes asked for.                                       *)
advance_asked(r, n1) == n1
advance(r, n1) == IF r > 0 THEN r ELSE 0

-----------------------------------------------------------------------------
User == [pc |-> "user", f |-> 0, n |-> 0, ip |-> 0]
None == [User EXCEPT !.pc = "none"]

Init ==
    /\ \E other \in Others :
         fs = [used |-> other, other |-> other, blk |-> [b \in Blocks |-> ZeroBlock],
               home |-> [b \in Blocks |-> ZeroBlock],
               inode |-> [i \in Inodes |-> FreeInode], panic |-> FALSE]
    /\ ftable = [file |-> [f \in Files |-> NoFile], pipe |-> [f \in 0 .. NFILE |-> {}], panic |-> FALSE]
    /\ ofile = [p \in Procs |-> [fd \in Fds |-> 0]]
    /\ st = [p \in Procs |-> IF p = initproc THEN User ELSE None]

(* ip->ref, as Inode shows it to be: open files, and calls on their way to *)
(* iput().                                                                 *)
Ref(i) ==
    Cardinality({f \in Files : ftable.file[f].ip = i}) + Cardinality({p \in Procs : st[p].ip = i})

FreeFds(p) == {fd \in Fds : ofile[p][fd] = 0}

(* sys_open(), with create() of a new file: it fails when it gets no file  *)
(* or no descriptor, but the file it created stays.                        *)
sys_open(p, i, mode, create, trunc) ==
    LET made == IF fs.inode[i].type = "free"
                THEN [fs EXCEPT !.inode[i] = [FreeInode EXCEPT !.type = "file", !.nlink = 1]] ELSE fs
    IN /\ st[p] = User
       /\ fs.inode[i].nlink > 0 \/ (create /\ fs.inode[i].type = "free")
       /\ \E a \in {filealloc(ftable)} :
            IF a.f # 0 /\ FreeFds(p) # {}
            THEN /\ fs' = IF trunc THEN itrunc(made, i) ELSE made
                 /\ ftable' = [a.t EXCEPT !.file[a.f] =
                                   [@ EXCEPT !.type = "inode", !.ip = i, !.mode = mode]]
                 /\ ofile' = [ofile EXCEPT ![p][Min(FreeFds(p))] = a.f]
            ELSE /\ fs' = made
                 /\ ftable' = IF a.f # 0 THEN fileclose(a.t, a.f) ELSE a.t
                 /\ UNCHANGED ofile
       /\ UNCHANGED st

(* The end of sys_unlink(): the last link goes, then iunlockput().         *)
sys_unlink(p, i) ==
    /\ st[p] = User
    /\ fs.inode[i].nlink > 0
    /\ fs' = [fs EXCEPT !.inode[i].nlink = 0]
    /\ st' = [st EXCEPT ![p].pc = "put", ![p].ip = i]
    /\ UNCHANGED <<ftable, ofile>>

(* iput(): the last reference to a file without links frees it.            *)
iput(p) ==
    LET i == st[p].ip IN
    /\ i # 0
    /\ fs' = IF Ref(i) = 1 /\ fs.inode[i].nlink = 0
             THEN [itrunc(fs, i) EXCEPT !.inode[i].type = "free"] ELSE fs
    /\ st' = [st EXCEPT ![p].ip = 0, ![p].pc = IF @ = "put" THEN "user" ELSE @]
    /\ UNCHANGED <<ftable, ofile>>

(* p->ofile[fd] = 0 and fileclose(), of close() and in exit()'s loop.      *)
Close(p, fd, pc) ==
    /\ ofile[p][fd] # 0
    /\ ftable' = fileclose(ftable, ofile[p][fd])
    /\ ofile' = [ofile EXCEPT ![p][fd] = 0]
    /\ st' = [st EXCEPT ![p].ip = ToPut(ftable, ofile[p][fd]),
                        ![p].pc = IF ToPut(ftable, ofile[p][fd]) # 0 /\ pc = "user" THEN "put" ELSE pc]
    /\ UNCHANGED fs

sys_close(p, fd) == st[p] = User /\ Close(p, fd, "user")

sys_dup(p, fd) ==
    /\ st[p] = User
    /\ ofile[p][fd] # 0 /\ FreeFds(p) # {}
    /\ ofile' = [ofile EXCEPT ![p][Min(FreeFds(p))] = ofile[p][fd]]
    /\ ftable' = filedup(ftable, ofile[p][fd])
    /\ UNCHANGED <<fs, st>>

(* sys_pipe() when it has too few descriptors or cannot tell the caller:   *)
(* it takes the first descriptor back; the mutant does not.                *)
unset_not(of, p, fd0, rf) == [of EXCEPT ![p][fd0] = rf]
unset(of, p, fd0, rf) == of

(* pipealloc(): both files, or none.                                       *)
pipealloc(t, kalloc) ==
    LET End(rf, mode) == [NoFile EXCEPT !.type = "pipe", !.ref = 1, !.mode = mode, !.pipe = rf] IN
    Then(filealloc(t), LAMBDA r :
      IF r.f = 0 THEN [t |-> r.t, rf |-> 0, wf |-> 0]
      ELSE Then(filealloc(r.t), LAMBDA w :
        IF w.f # 0 /\ kalloc
        THEN [t |-> [w.t EXCEPT !.file[r.f] = End(r.f, "r"), !.file[w.f] = End(r.f, "w"),
                                !.pipe[r.f] = {"r", "w"}], rf |-> r.f, wf |-> w.f]
        ELSE Then(fileclose(w.t, r.f), LAMBDA t1 :
          [t |-> IF w.f # 0 THEN fileclose(t1, w.f) ELSE t1, rf |-> 0, wf |-> 0])))

(* sys_pipe(): each failure closes what it has opened.                     *)
sys_pipe(p, fault) ==
    LET fd0 == Min(FreeFds(p))
        fd1 == Min(FreeFds(p) \ {fd0})
    IN /\ st[p] = User
       /\ \E a \in {pipealloc(ftable, fault # "kalloc")} :
            IF a.rf = 0 THEN ftable' = a.t /\ UNCHANGED ofile
            ELSE IF Cardinality(FreeFds(p)) < 2 \/ fault = "copyout"
            THEN /\ ftable' = fileclose(fileclose(a.t, a.rf), a.wf)
                 /\ ofile' = IF FreeFds(p) = {} THEN ofile ELSE unset(ofile, p, fd0, a.rf)
            ELSE /\ ftable' = a.t
                 /\ ofile' = [ofile EXCEPT ![p][fd0] = a.rf, ![p][fd1] = a.wf]
       /\ UNCHANGED <<fs, st>>

(* fileread() of an inode; a pipe's is in Pipe.                            *)
sys_read(p, fd, n) ==
    LET f == ofile[p][fd]
        file == ftable.file[f]
    IN /\ st[p] = User
       /\ f # 0 /\ file.type = "inode" /\ file.mode # "w"
       /\ ftable' = [ftable EXCEPT !.file[f].off = @ + readi(fs, file.ip, file.off, n)]
       /\ UNCHANGED <<fs, ofile, st>>

(* A transaction of filewrite(), n bytes being left: the offset is read    *)
(* and moved under the inode's lock.  A short writei() ends the call.  Of  *)
(* what is left, avail bytes can be read from user memory.                 *)
Transaction(p, f, n, avail, in_log) ==
    LET file == ftable.file[f]
        n1 == Min({n, max})
    IN /\ \E r \in {writei(fs, file.ip, file.off, n1, p, avail, in_log)} :
            /\ fs' = r.d
            /\ ftable' = [ftable EXCEPT !.file[f].off = @ + advance(r.ret, n1)]
            /\ st' = [st EXCEPT ![p] = IF r.ret # n1 \/ n1 = n THEN User
                                        ELSE [User EXCEPT !.pc = "write", !.f = f, !.n = n - n1]]
       /\ UNCHANGED ofile

sys_write(p, fd, n, avail, in_log) ==
    LET f == ofile[p][fd] IN
    /\ st[p] = User
    /\ f # 0 /\ ftable.file[f].type = "inode" /\ ftable.file[f].mode # "r"
    /\ Transaction(p, f, n, avail, in_log)

filewrite(p, avail, in_log) ==
    st[p].pc = "write" /\ Transaction(p, st[p].f, st[p].n, avail, in_log)

(* bget() takes the buffer of b, which is not pinned, for another block:   *)
(* what was not logged is gone.                                            *)
recycle(b) ==
    /\ fs.blk[b] # fs.home[b]
    /\ fs' = [fs EXCEPT !.blk[b] = fs.home[b]]
    /\ UNCHANGED <<ftable, ofile, st>>

(* fork() shares the open files; exit() closes them one by one.            *)
fork(p, np) ==
    LET open == SelectSeq([k \in 1 .. NOFILE |-> ofile[p][k - 1]], LAMBDA f : f # 0) IN
    /\ st[p] = User /\ st[np] = None
    /\ ftable' = FoldLeft(filedup, ftable, open)
    /\ ofile' = [ofile EXCEPT ![np] = ofile[p]]
    /\ st' = [st EXCEPT ![np] = User]
    /\ UNCHANGED fs

exit(p) ==
    \/ /\ st[p] = User /\ p # initproc
       /\ st' = [st EXCEPT ![p].pc = "exit"]
       /\ UNCHANGED <<fs, ftable, ofile>>
    \/ /\ st[p].pc = "exit" /\ st[p].ip = 0
       /\ \/ FreeFds(p) # Fds /\ Close(p, Min(Fds \ FreeFds(p)), "exit")
          \/ FreeFds(p) = Fds /\ st' = [st EXCEPT ![p] = None] /\ UNCHANGED <<fs, ftable, ofile>>

Descs == {x \in Procs \X Fds : ofile[x[1]][x[2]] # 0}

IsOpen(o) == \E f \in Files : ftable.file[f].ip = o[2] /\ ftable.file[f].mode = o[3]

(* How many of n bytes either_copyin() can read from p's memory.           *)
Readable(p, n) == IF p \in Faulty THEN 0 .. n ELSE {n}

Next ==
    /\ \/ \E p \in Procs :
            \/ \E o \in Opens : o[1] = p /\ ~IsOpen(o) /\ sys_open(p, o[2], o[3], o[4], o[5])
            \/ \E i \in Inodes : sys_unlink(p, i)
            \/ \E fd \in Fds : sys_close(p, fd) \/ sys_dup(p, fd)
            \/ \E fault \in {"none", "kalloc", "copyout"} : sys_pipe(p, fault)
            \/ \E fd \in Fds, n \in Counts : sys_read(p, fd, n)
            \/ \E fd \in Fds, n \in Counts, in_log \in BOOLEAN :
                  \E avail \in Readable(p, Min({n, max})) : sys_write(p, fd, n, avail, in_log)
            \/ \E avail \in Readable(p, Min({st[p].n, max})), in_log \in BOOLEAN :
                  filewrite(p, avail, in_log)
            \/ iput(p)
            \/ \E np \in Procs : fork(p, np)
            \/ exit(p)
       \/ \E b \in Blocks : recycle(b)
    /\ Cardinality(Descs') <= MaxDescs

Spec == Init /\ [][Next]_vars

-----------------------------------------------------------------------------
(* Every block in use belongs to one place of one file, and all others are *)
(* free in the bitmap, also after a write() that ran out of blocks halfway *)
(* and after a truncation; bfree() never frees a free block.               *)
BlocksAccounted ==
    LET own(i) ==
          LET addrs == fs.inode[i].addrs IN
          BlocksOf(addrs, NDIRECT + 1) \o
            (IF addrs[NDIRECT] # 0 THEN BlocksOf(fs.blk[addrs[NDIRECT]], NINDIRECT) ELSE <<>>)
    IN /\ ~fs.panic
       /\ fs.used = fs.other \cup UNION {Range(own(i)) : i \in Inodes}
       /\ Cardinality(fs.used) = Cardinality(fs.other) + MapThenSumSet(LAMBDA i : Len(own(i)), Inodes)

(* f->ref counts the descriptors of all processes that refer to f, and a   *)
(* pipe's end is open while a file for it is.                              *)
FileRefs ==
    /\ \A f \in Files :
         /\ ftable.file[f].ref = Cardinality({x \in Descs : ofile[x[1]][x[2]] = f})
         /\ ftable.pipe[f] = {ftable.file[g].mode : g \in {h \in Files : ftable.file[h].pipe = f}}
    /\ ~ftable.panic

(* A transaction of filewrite() never logs more than the MAXOPBLOCKS that  *)
(* begin_op() set aside for it, wherever in the file it writes, even if    *)
(* every block it allocates has its bit in another block of the bitmap.    *)
TransactionFits ==
    \A i \in Inodes : \A off \in 0 .. fs.inode[i].size, n1 \in 1 .. max :
        Cardinality(writei(fs, i, off, n1, initproc, n1, FALSE).logged) <= MAXOPBLOCKS

(* The bytes of an inode when blocks hold blk: its direct blocks, then     *)
(* those its indirect block names.                                         *)
Contents(i, blk) ==
    LET ino == fs.inode[i]
        block(bn) == IF bn < NDIRECT THEN ino.addrs[bn] ELSE blk[ino.addrs[NDIRECT]][bn - NDIRECT]
    IN [k \in 1 .. ino.size |-> blk[block((k - 1) \div BSIZE)][(k - 1) % BSIZE]]

Bytes == INSTANCE FileBytes WITH
    Writers <- Procs,
    MaxLen <- MAXFILE * BSIZE,
    MaxRest <- BSIZE - 1,
    content <- [i \in Inodes |-> Contents(i, fs.blk)],
    kept <- [i \in Inodes |-> Contents(i, fs.home)],
    off <- [f \in Files |-> ftable.file[f].off],
    ip <- [f \in Files |-> ftable.file[f].ip]

(* Blocks, indirect blocks, the bitmap and the split into transactions are *)
(* invisible: files are byte sequences, offsets shared by fork() and dup() *)
(* move by what was written, and no write is lost or misplaced.  Only a    *)
(* write() whose user buffer faults leaves, behind what it reports, bytes  *)
(* of its own that may vanish again: less than a block of them.            *)
ImplementsFiles == Bytes!Spec
=============================================================================
