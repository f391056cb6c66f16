# A verification project for xv6-riscv

The repository is xv6 for RISC-V: a small multiprocessor Unix kernel in C, with
its user programs and the tool that builds its file system. This directory
holds TLA+ modules that model the kernel and parts of its user side, the
configurations with which TLC checks them, and proofs that TLAPS checks. Line
numbers refer to `src/kernel/` unless a path is given. `PROJECT.json` lists for
every definition the lines it models, for every run its properties, for every
property a mutation of the model that breaks it, and the hazards of the code
with the properties that would catch them.

## The system and its parts

| part | source | state | operations |
|---|---|---|---|
| spinlocks | spinlock.c | `locked`, `cpu`, per-CPU `noff`, `intena` | acquire, release, push_off, pop_off |
| processes | proc.c, swtch.S | the table `proc[]`, `wait_lock`, `c->proc` | fork, exit, wait, kill, yield, sleep, wakeup, scheduler |
| sleep-locks, buffer cache | sleeplock.c, bio.c | buffers on an LRU list | bget, bread, bwrite, brelse, bpin, bunpin |
| disk driver | virtio_disk.c | descriptors, avail and used rings | virtio_disk_rw, virtio_disk_intr |
| redo log | log.c | in-memory and on-disk header, slots | begin_op, log_write, end_op, commit, recovery |
| inodes, directories, paths | fs.c | `itable`, dinodes, directory contents | iget, ilock, iput, ialloc, dirlookup, dirlink, namex |
| data blocks | fs.c | bitmap, `addrs[]` | balloc, bfree, bmap, itrunc, readi, writei |
| file system calls | sysfile.c | descriptors, cwd | open, link, unlink, mkdir, mknod, chdir, dup, pipe |
| file table | file.c | `ftable` | filealloc, filedup, fileclose, fileread, filewrite |
| pipes | pipe.c | ring, two counters, two open flags | pipewrite, piperead, pipeclose |
| console, UART | console.c, uart.c, plic.c | input ring, transmit ring | consoleread, consoleintr, uartputc, uartstart |
| memory | kalloc.c, vm.c, exec.c | free list, page tables | kalloc, kfree, uvmalloc, uvmcopy, exec |
| shell, init, tests | src/user | | parsecmd, runcmd, the tests of usertests |

They are layered. Spinlocks protect everything. `sleep()` and `wakeup()` of
proc.c carry every blocking wait above: sleep-locks, the log, the disk, pipes
and the console. The buffer cache moves blocks through the disk driver; the log
sits on the cache and gives the file system calls their transactions; inodes
and directories are changed inside those transactions; user programs see only
system calls.

Each layer is modelled over the interface of the one below:

* a critical section of a spinlock is one step in every module except
  `SpinLock`, `Proc` and the parts of `Pipe`, `VirtioDisk` and `Console` that
  race with the holder. `SpinLock` shows that sections exclude each other and
  that an interrupt handler cannot run inside one;
* `sleep(chan, lk)` releases the lock and blocks in one step, and `wakeup`
  wakes every sleeper of its channel. `Proc` models the two with their locks
  and shows that no wakeup is lost in between;
* `Log` sees the cache as `BlockCache` describes it (one exclusive copy per
  block, kept while held or pinned), which `Bio` implements;
* `Bio` sees a disk read as one step, which is what `DiskRequests` promises and
  `VirtioDisk` implements;
* `Inode` and `FileIO` run each call, or each piece of a large write, inside
  one transaction, as `TxDisk` allows and `Log` implements;
* `Syscalls` makes each system call one step, which is what `Proc`, `Pipe`,
  `Inode` and `FileIO` are about.

## Modules

| module | role |
|---|---|
| `SpinLock`, `SpinLockProofs` | spinlock.c, one memory access per step; proofs |
| `Proc`, `ProcProofs` | proc.c: process life cycle and context switch; proofs |
| `ByteStream`, `Pipe`, `PipeProofs` | the promise of a pipe; pipe.c; proofs |
| `DiskRequests`, `VirtioDisk`, `VirtioProofs` | the promise of the disk driver; virtio_disk.c; proofs |
| `BlockCache`, `Bio`, `BioProofs` | the promise of the cache; bio.c and sleeplock.c; proofs |
| `TxDisk`, `Log`, `LogInv`, `LogProofs` | the promise of the log; log.c with crashes; its inductive invariant; proofs |
| `Inode` | fs.c inodes and directories under the calls of sysfile.c |
| `FileBytes`, `FileIO` | the promise of open files; data blocks, file.c and descriptors |
| `Terminal`, `Console`, `ConsoleProofs` | the promise of a terminal; console.c, uart.c and the interrupt; proofs |
| `Rings` | lemmas about ring buffers with wrapping indices, for the proofs of `Pipe`, `VirtioDisk` and `Console` |
| `Memory` | kalloc.c, vm.c, exec.c and the memory side of proc.c |
| `Syscalls`, `UserTests`, `Shell`, `UserPrograms` | system calls as programs see them; usertests.c; sh.c; what init starts |
| `MC...` | instances for TLC: symmetry sets, sets of calls, programs and command lines |

Operators named `<name>_<word>` in front of a definition `<name>` are its
mutants: the form a plausible bug would give it. No specification uses them.

### SpinLock

State: `locked` and `cpu` of each lock; `noff`, `intena` and the interrupt flag
of each CPU; a program counter for kernel code and one for an interrupt
handler. Reading the interrupt flag, clearing it, the counter update, the
atomic swap, setting `lk->cpu`, clearing it and the release store are steps of
their own, so a device interrupt can come between any two while interrupts are
on. CPUs take locks in increasing order, as the kernel's lock order prescribes;
`WaitsInOrder` shows what that buys. Saving `intena` across `sched()` (lines
496-498 of proc.c) is not in this module.

### Proc

A CPU executes its scheduler or the kernel thread of one process, and
spinlocks belong to CPUs: a `p->lock` taken in `yield()` is released by the
scheduler. Sections under one lock are one step; taking a second lock, and each
iteration of the loops of `wait()`, `reparent()` and `wakeup()`, is a step of
its own. Slots stand for processes because pids do not repeat. `exit()` of init
is the panic of line 352; a killed init reaches it.

### Pipe

Counters wrap at `Modulus`, a multiple of `PIPESIZE` as 2^32 is of 512. The
loops of `pipewrite()` and `piperead()` go one byte per step under `pi->lock`,
with `killed()`, closing ends and failing user copies at each point the code
tests them. `ByteStream` is a FIFO from which a byte may be dropped only by a
failing copy to user memory (`ch` is taken at line 123 before `copyout`).

### VirtioDisk

The driver writes the available ring, then its index; the device (external)
takes entries, completes them in any order and raises an interrupt; the handler
acknowledges, then scans the used ring. Ring indices wrap at `Modulus` and are
used modulo `NUM`. `virtio_disk_init()` is left out.

### Bio

`bget()` hit, recycle and panic, `acquiresleep()`, the disk read, and the two
halves of `brelse()` (sleep-lock first, reference and LRU list second) are
steps. A process works on one buffer at a time. Pins stand for `bpin()` and
`bunpin()` of the log.

### Log

Processes read blocks at any time and write them between `begin_op()` and
`end_op()`. The last `end_op()` commits: each block copied to its slot, the
header, each block home, the header again. A crash may come between any two
steps. A block write takes two steps, and a crash between them leaves the block
torn; the header fits in one sector and is written in one. Recovery may crash
too. `OpBlocks` is the number of distinct blocks an operation really writes.
A process holds one buffer at a time.

### Inode

The state is the dinodes with the contents of directories (`dinode`), the
in-memory table (`itable`) and, for each process, its call, descriptor and
current directory (`proc`). Calls are cut at each `ilock()`, each section under
`itable.lock` and each release of a dinode block. `puts` holds the entries a
call has let go of and still has to `iput()`; a call goes on when it is empty,
so `iput()`, which frees an inode in four separate steps, runs where the code
calls it. A missing disk block in `dirlink()` and a failing `filealloc()` or
`fdalloc()` are nondeterministic. Paths are relative, as `idup(cwd)` starts
them. Files have no contents here; a descriptor per process is enough because
two would only hold two references. What the processes call is one of several
loads, and some entries of the table may belong to processes outside the model;
both are chosen in the initial state. A failed assertion sets `panic`, after
which nothing happens: `panic()` loops for ever, and what other CPUs still do
is not described. `strayed` records that a process has looked `..` up in a
removed directory; `NoPanic` is weaker from then on.

### FileIO

`fs` holds the bitmap, the blocks and the addresses and sizes of inodes;
`ftable` the open files; each process has descriptors and its place in a call.
Between `ilock()` and `iunlock()` a call is one step: another process can
meanwhile only take or free blocks, each under the lock of a bitmap buffer, and
nothing is allocated after a failed `balloc()`. `filewrite()` takes one step
per transaction, so writers to one file interleave between its pieces; the
`iput()` of `fileclose()` is a step of its own. `writei()` also yields the set
of blocks it logged, which `TransactionFits` compares with the reservation.
The memory that a write comes from may end after any number of bytes. Then the
bytes of the last, incomplete piece are in the cached buffer (`blk`) but in no
transaction (`home`), until `bget()` recycles the buffer; if an earlier
operation of the transaction has logged the block, they are kept with it
(`in_log`, either way possible). `FileBytes` is the
promise: a file is a sequence of bytes, descriptors that share an open file
share its offset, and a write stores what it returns, followed by less than a
block of bytes that are not counted and may vanish again. The bytes say which
process wrote them.

### Console

Processes read, write and print on CPUs of their own. The PLIC lets one UART
interrupt be served at a time. The handler's steps are the claim, each
character with the editing of the line, each echoed character, `uartstart()`
and the completion. `uartputc_sync()` polls and writes without a lock, and
races with the transmit ring. The device (external) has received characters and
a transmit FIFO, which the driver asks only whether it is empty. Indices wrap.
`Terminal` is the promise: lines come out as they were edited, and output
leaves in the order in which it was accepted.

### Memory

A C function is an operator on the memory `m = [free, page, panic]`, which
yields the memory it leaves and, with `R`, what it returns; a system call is
one step. Processes share only `kmem`, and no call allocates again after a
failed `kalloc()`, so a call that loses a race for the last page ends as if a
pipe had taken that page earlier. Pipes therefore take and give back pages at
any time, and every allocation of every call fails in some state. Page tables
have `LEVELS` levels of `NPTE` entries, as `walk()` sees them. `myproc` is the
process whose call the last step was, so that `Isolation` can say whose image a
call may change.

### Syscalls, UserTests, Shell, UserPrograms

A program is a sequence of calls over registers, with what it requires of each
result. `Syscalls` makes every call one step over processes, descriptors, pipes
and a file tree. `UserTests` writes thirty-six tests of usertests.c in that
form, with the counts of their loops cut to `REPEAT`, `ROUNDS`, `NCHILD` and
`SZ`. `ROUNDS` is for `reparent` and `reparent2`, and large enough for their
orphans to fill the process table before init has reaped them: `verdict` tells
a test that `fork()` starves in this way from one that fails. Inode tables and
transactions are not in `Syscalls`, so `iref` and `iputtest`, which look for
lost references and missing transactions in the kernel, only check the results
of their calls here.
`Shell` has the recursive descent of sh.c over tokens, `runcmd()` as a
translation of trees to calls, and, as references, a grammar that says which
trees a line can stand for and the wires that a tree asks for. `UserPrograms`
lets init start any one of the tests or command lines; its next round begins
when all processes of the last are gone.

## Runs

| run | question | bounds |
|---|---|---|
| `spinlock` | exclusion, interrupt state, circular waits | 3 CPUs, 2 locks |
| `proc_safety` | context switch, reaping, orphans, lost wakeups | 3 slots, 2 CPUs |
| `proc_live` | init reaps what it inherits | 3 slots, 1 CPU |
| `pipe` | byte stream, sleepers | ring of 2, counters mod 4, 2 readers, 2 writers, calls of up to 2 bytes |
| `virtio` | each request once, descriptors owned once, no lost completion or wakeup | 8 descriptors, indices mod 16, 3 callers |
| `bio` | one copy per block, exact references, `bread()` returns | 2 buffers, 3 blocks, 2 processes, 1 pin |
| `log_crash` | crash atomicity, write-ahead, durability, log space, sleepers | 3 blocks, 2 processes, 8 slots, 4 reserved and 2 used per operation |
| `inode` | counts, table, directories, open files | 2 processes, 2 names, 2 inodes besides the root, 3 entries of which 1 may be taken, two loads |
| `memory` | page ownership, address spaces, copies, failed calls, isolation | 23 pages of 4 bytes, 2 processes of up to 16 bytes, tables of 3 entries |
| `fileio` | block and reference accounting, transaction size, shared offsets | 2 processes, 1 inode, 3 blocks of 2 bytes of which 1 may be taken, 1 direct address, writes of 3 bytes, 3 descriptors, the child's buffers may fault |
| `console` | editing, output order, sleepers, transmitter | input ring of 3, output ring of 2, 2 processes, three loads |
| `user` | usertests, parser, wiring of pipelines, nobody stuck | 7 processes, 4 rounds of orphans, pipes of 2 bytes, lines of up to 3 tokens, three sessions |

`PROJECT.json` says what each run shows; the comment in front of each property
says what it means. All runs pass.

Why the bounds are enough for the interesting cases. Two CPUs and three slots
let a parent, a child and init race on both sides of a context switch. A ring
of two entries is full and empty all the time, and its counters wrap after four
bytes. Eight descriptors hold two chains, so the third caller waits. Two
buffers for three blocks make `bget()` recycle over and over. The log admits
two operations only until blocks are logged, so `begin_op()` sleeps for space
as well as for a commit. With two inode numbers besides the root, an `ialloc()`
takes the number another process may just be freeing; the table is large enough
for the three inodes, unless one of its entries is taken. Twenty-three pages are
less than two processes and their copies in `fork()` and `exec()` need. A write
of three bytes needs the indirect block and takes two transactions; the disk is
full after it, or has no block left for the entries of the indirect block. The
writes of the child may fault anywhere, between those of its parent to the same
open file; with `Faulty = {1, 2}` the run passes as well, but takes four times
as long. The console's indices wrap inside one line. Two readers and two
writers, two processes or two CPUs give each race both orders; `Pipe`, `Proc`,
`Bio`, `Log`, `SpinLock`, `VirtioDisk` and `Console` are also proved for any
number of them.

`MCInode` lists the calls of each process (call, path, new path). In one load
creating, linking, unlinking, opening and changing directory race on the same
names; in the other a process is left in a directory whose parent is removed as
well. A process makes its calls in any order and any number of times.
`MCMemory` identifies states that differ only in the names of pages, which no
code compares. Symmetry is used for sets whose members are interchangeable, in
runs without liveness only.

### Fairness

Two runs check liveness. In `proc_live` a thread in the kernel that can take a
step takes it: interrupts that delay it return. A lock that is free again and
again is acquired (strong fairness): the atomic swap has no queue, but with
finitely many contenders starvation needs an unbounded coincidence. The
scheduler loop picks a process that is RUNNABLE again and again, because it
scans the table round-robin. The timer keeps interrupting. Nothing is assumed
of user code, except that init calls `wait()` again, which `user/init.c` does.
In `bio` a disk read ends, a holder releases (weak fairness), and a process
that finds the sleep-lock free again and again gets it (strong fairness, for
the same reason).

Properties are as strong as the code allows. `ZombieReaped` excepts a ZOMBIE
child in a lower slot, since `wait()` scans from slot 0. `SleepersJustified` of
`Pipe` excepts bytes left by a killed writer, which returns at lines 84-87
without a wakeup. The console has no liveness property: endless typing can keep
the handler in its input loop; `SleepersJustified` and `OutputMoves` say
instead that whoever sleeps has a waker on its way.

## Proofs

Theorems hold for every value of the constants under the assumptions named in
the modules that declare them (sizes are positive, special values differ from
data and processes, finite sets are finite, and the ones mentioned below). Each
inductive invariant is preserved by one lemma or step per action, with a step
per conjunct that the action can disturb.

### SpinLockProofs

For any number of CPUs and locks. The invariant is `TypeOK`, `Exclusive` (who
owns which lock, from the swap to the store that gives it up), `Ordered` (both
levels of a CPU take locks upwards), `Depth` (interrupts are off from
`push_off()` on, and `noff` counts the locks of the CPU), and no panic.
Exclusion alone is not inductive: a handler could interrupt a CPU that owns a
lock, unless `noff` and the interrupt flag are known to agree.
`Exclusion`, `Restoring`, `NoCircle`, `Off` and `Panicless` follow from it.

### ProcProofs

For any number of slots and CPUs. `Invariant` is inductive with `Table`, which
ties the table to what CPUs execute:

* `Dispatched`: a process belongs to one CPU from the scheduler's choice to the
  switch back, whatever `sched()` has made of its state, and one that has
  exited never gets past `sched()`; without it two CPUs could share a kernel
  stack;
* `LocksHeld`: who holds `p->lock` and `wait_lock` at each code point, across
  `swtch` too;
* `Forks`: the slot that a `fork()` took is USED, and its own, until that ends;
* `Family`: init lives, parents live, and `reparent()` has passed to init the
  children below its loop variable;
* `Sleepers`: a sleeper has no ZOMBIE unless `reparent()` is about to wake it,
  `wait()` has passed none, and the parent is awake once `exit()`'s `wakeup()`
  has passed it.

`NoLostWakeup` says that no process sleeps in `wait()` with a ZOMBIE child
while `wait_lock` is free: `exit()` wakes the parent first and becomes a ZOMBIE
afterwards, which is right only because both hold `wait_lock`. `Recycled` says
who may free a slot, and when.

### PipeProofs

For any number of readers and writers and any `PIPESIZE` that divides the range
of the counters. The invariant says that a caller keeps its end open (`Ends`),
that a sleeper has its reason or is about to be woken by the holder of
`pi->lock` (`Asleep`), that a reader without a byte came past the wait
(`NotYet`), and that the counters, modulo their range, are at most `PIPESIZE`
apart (`Fits`). `Rings` shows that a counter that wraps keeps its place in the
ring. `NoLostWakeup`, `EndOfFile` (a read returns 0 only from an empty pipe
without writers) and `Refinement` (of `ByteStream`) follow.

### BioProofs

For any number of buffers, blocks and processes. `Inv` has exact reference
counts, one buffer per block (`Listed`, `OneBuffer`), who uses which buffer
(`Users`) and that its data are there (`Contents`). That `bget()` does not
panic is a counting argument: with no more processes and pinned blocks than
buffers, a caller leaves one buffer unreferenced. `Refinement` maps the copy of
a block to the valid buffer that has it, if any, and its holder to the holder
of that buffer's sleep-lock; recycling an unused buffer is a stutter or the
drop of an unused copy.

### LogProofs

For any number of processes, blocks, contents and log slots.

* `LogInvariant`: `Spec => []Inv`. `TypeOK` and `RefcntExact` are not
  inductive: what a step may do to the disk depends on the phase. `Inv` ties
  the phases to the data. `Control` says who may be where (one committer, no
  operation open while it runs, nobody before recovery is over). `Headers`
  relates the two headers and the loop variable. `OnDisk` says which slots are
  complete and which home blocks are already installed. `Cached` and
  `Recovered` relate cache and disk; `InFlightHeld` keeps the buffer being
  written locked. `LogTypeOK` and `LogRefcntExact` follow.
* `LogWriteAhead`: a home block changes only while the on-disk header lists a
  complete copy of it.
* `LogImplementsTxDisk`: the refinement. `mem` is the cache over the disk;
  `durable` is what recovery would install, the slots named by the on-disk
  header over the home blocks. The header write is the commit; each install
  step and the erasure stutter, because slots and home blocks agree by then.
* `LogQuiescentDurable`: with no operation open and no commit running, memory
  and durable contents agree.
* `LogNoLostWakeup`: with no operation open and no commit running the log is
  empty, so `begin_op()` admits at once; hence one that sleeps has a waker.
* `LogReservation`: the blocks logged and those that open operations may still
  log fit together. `Space` adds that the blocks an operation wrote are in the
  log and within its share; reserved blocks are counted as pairs of a process
  and a number, so that a sum over processes is a cardinality. It needs
  `SpaceAssumption`, because `log_write()` panics at `log.size - 1` blocks
  (line 220) while `begin_op()` admits operations up to `LOGSIZE` (line 133):
  `OpBlocks < MAXOPBLOCKS` and
  `LOGSIZE + OpBlocks + 1 < nlog + MAXOPBLOCKS`. With the sizes of param.h
  (`nlog = LOGSIZE = 30`, `MAXOPBLOCKS = 10`) that is `OpBlocks <= 8`; the
  largest operation of this kernel, a piece of `filewrite()` of three unaligned
  blocks, writes four data blocks, a bitmap block, the inode and the indirect
  block, seven in all.

The module goes through the calls of the file system and the steps on buffers,
then commit, crash and recovery, then the refinement and the admission to the
log. What the lemmas need about cardinalities is a named hypothesis (`Counts`,
`Sizes`) that the end of the module shows from the library's theorems;
`VirtioProofs` does the same with `Counting`.

### Rings

The pipe, the console, the transmit ring and the virtio queues are all rings of
`N` places whose indices run freely, wrap at `M` and are used modulo `N`, where
`N` divides `M`. `Rings` states once what the code relies on: the distance of
two indices, `(w - r) % M`, grows and shrinks by one as they advance, wherever
they wrap (`DistWrite`, `DistRead`, `DistBack`); indices less than `N` apart
name different places (`Outside`, `PlaceWrite`); so the contents between two
indices, as a sequence (`Segment`) or as a set (`Window`), change only at the
end that a step works on. With three indices, as in the console, two segments
join to one (`SegmentJoin`).

### VirtioProofs

For any number of descriptors from three on, any index range that `NUM`
divides, and any number of callers.

* `DriverInvariant`: `Spec => []Inv`. `ChainsOwned` and `CompletionSeen` are
  not inductive. `Control` says who holds `vdisk_lock`, who has a chain and who
  waits; `Layout` that the descriptors of each request are still as
  `virtio_disk_rw()` laid them out; `Queues` that a chain is in one of
  the avail ring, the device and the used ring, and once; `Performed` what the
  device has done. Chains are disjoint because each of the three descriptors
  points to something of its own request. The rings cannot overflow: entries
  are heads of different chains, and only one descriptor of a chain is a head.
* `DriverWakesSleepers`: a caller sleeps on its buffer only while the disk has
  it, and for descriptors only while fewer than three are free. This holds at
  every moment, since `free_desc()` and the handler wake before they let go of
  `vdisk_lock`.
* `DriverImplementsRequests`: the refinement of `DiskRequests`. The step of the
  device that completes a chain is the operation of the call, by `Layout` the
  one that was asked for.

### ConsoleProofs

For rings of any size that divides their index range, any number of processes
and any loads.

* `ConsoleWakesSleepers`. The invariant adds who holds which lock (`Locks`) and
  that a reader on its way to `sleep()` has seen an empty buffer that cannot
  change while it holds `cons.lock` (`Sleeping`).
* `ConsoleOutputMoves`: it is inductive with `Locks`. `uartputc()` and the
  handler may both leave output behind, but only with the transmitter busy or
  its interrupt still to be served.
* `ConsoleImplementsTerminal`: the refinement. The line being edited is what is
  between `w` and `e`, what can be read is between `r` and `w`. It needs that
  both fit in the buffer together (`InputFits`) and that what can be edited
  holds no end of line (`OneLine`): otherwise backspace or kill-line could
  erase across a line. When a line ends, the two segments join.
* `ConsoleNoOverrun`: under `IsFiniteSet(Procs)` and
  `Cardinality(Procs) < FIFO`. Each writer looks at the register before it
  writes, without a lock; `RoomLeft` says that what the FIFO holds and those
  who are about to write are together no more than there are actors. Interrupts
  are off from the look to the write, so in the kernel the writers are as many
  as there are CPUs (`NCPU` is 8, the FIFO of a 16550 has 16 places).

### Only model-checked

* `BreadReturns` and `ZombieReaped`: liveness under fairness, and ENABLED, are
  out of the prover's reach.
* `Memory`, `Shell`, `Syscalls`, `UserTests` and `UserPrograms`: trees of page
  tables, loops over pages and parsing are RECURSIVE operators, and what a
  recursion computes for every input needs an induction that the installed
  provers cannot do.
* `FileIO`: `readi()`, `writei()` and `itrunc()` loop over blocks with folds,
  and what a fold yields for every length needs the same induction.
* `Inode`: `RefExact` counts references over all half-done calls, and
  `NoDangling` rests on link counts that match the entries of all directories.
  An inductive invariant would have to say, for every point of every call, which
  references and links the call still owes; it has not been written.

## Observations

What the code does that a reader may not expect. Where a property makes room
for it, this is said.

The inode layer:

* `iput()` drops its reference after freeing the inode without testing again
  (fs.c:360). If the number is allocated again meanwhile, and its new owner
  unlinks it and lets it go first, nobody frees it.
* `create()` and `sys_link()` lock the parent after `nameiparent()` has
  unlocked it, and do not test that it still has a link (sysfile.c:254). An
  entry made in a removed directory leaves a link count too high. No property
  covers this: `NoDangling` only says that no count is too low.
* `..` of a removed current directory is not counted as a link to the parent
  (sysfile.c:226), which may have been freed when it is followed (fs.c:672);
  `ilock()` then meets a free inode and panics. If the number has just been
  allocated again, between the two halves of `ialloc()`, the process that
  followed `..` may even lock the new inode, find no links, and free it under
  the one that is creating it, which panics then. The `inode` run reaches both;
  `NoPanic` excepts "ilock: no type" once a `..` of a removed directory has been
  looked up.
* The table has fewer entries (`NINODE`, 50) than there can be open files
  (`NFILE`, 100), and `iget()` panics when it is full (fs.c:266). `NoPanic`
  excepts this panic too, and says that all entries are in use then.
* An inode that is unlinked while open stays allocated if the machine stops
  before it is closed (fs.c:341): there is no list of orphans.

Files and memory:

* If `either_copyin()` fails in the middle of a piece, `writei()` leaves the
  cached buffer changed without logging it. The bytes are visible until the
  buffer is recycled, unless another operation logs the block;
  `FileBytes` makes room for them.
* A failed `sbrk()` keeps the page-table pages it made; they belong to the
  process and are freed with it, as `PagesAccounted` says.

Buffers and processes:

* `bget()` panics when every buffer is in use (bio.c:88), and there may be more
  processes than buffers. `NoPanic` of `Bio` says that the panic needs that many
  users and pins.
* `killed()` is tested before `sleep()` in `wait()`, `consoleread()` and the
  others. A `kill()` in between finds the process RUNNING and wakes nobody, so
  the victim sleeps until its channel is woken. `Proc` and `Console` allow this;
  `kill()` promises only that the victim exits when it next returns to user
  space.

Console: characters of `printf()` and of the echo go out between those of the
transmit ring, and both writers may see the transmitter empty at the same time.
`NoOverrun` holds because the UART's FIFO takes more than the writers that can
do so at once.

Shell and tests:

* Of several output redirections of a command the first wins, as it is the
  innermost and is opened last.
* `>>` opens without truncation and writes from offset 0.
* `a & b` is a syntax error: `&` ends a line or a block, or comes
  before `;` or another `&`.
* `reparent` and `reparent2` fail when init is slower to reap orphans than they
  are to make them and `fork()` finds no free slot (usertests.c:922, 1036):
  nothing makes them wait for init. In `reparent` it is the child that meets
  this, and kills the test. `NoTestFails` excepts these two tests then.
* The last loop of `createdelete` in usertests.c removes names made with
  `'p' + i`, and leaves files that the first loop made.

## Not modelled

Traps and the timer: preemption is `yield()` in `Proc`, and interrupts are
handlers in `SpinLock` and `Console`; `clockintr()` and `sys_sleep()` are a
counter and a channel. Registers (swtch.S, trampoline.S, kernelvec.S): swtch
appears as the step that changes what a CPU executes. System call dispatch and
the kernel library have no state. Boot is straight-line code. ramdisk.c is not
built. `malloc()` of user programs is sequential pointer arithmetic over
`sbrk()`. Of usertests.c the tests of bad addresses and of memory limits, those
that fill the disk or the inode table, `forkforkfork`, `bigwrite` and
`drivetests()` are left out, as are forktest, grind and stressfs.

The memory model is sequential consistency: the fences of acquire and release
(lines 39 and 60 of spinlock.c) and of the virtio driver are taken to work.
