------------------------------ MODULE Syscalls ------------------------------
(***************************************************************************)
(* System calls as user programs see them, and processes that make them.   *)
(*                                                                         *)
(* A program is a sequence of calls; each names the registers (local       *)
(* variables) it uses, and says what the program requires of its result.   *)
(* A call is one step: that the kernel makes it look so is the subject of  *)
(* Proc, Pipe, Inode and FileIO.  File data and pipes are sequences, files *)
(* and pipes that nothing refers to any more are gone, and the kernel runs *)
(* out of processes, open files or inodes when its tables are full.        *)
(***************************************************************************)
EXTENDS Integers, Sequences, SequencesExt, FiniteSets, FiniteSetsExt

CONSTANTS NPROC, NFILE, NOFILE, NINODES, PIPESIZE, MAXFILE, DIRSIZ,
          Programs  \* what init may run: <<name, program>>

VARIABLES
    proc,    \* processes: code is what each still has to do, argv what it last exec'd
    file,    \* open files
    pipe,    \* contents of pipes
    inode,   \* files and directories
    verdict, \* "ok", "starved" if fork() failed for lack of a slot that an
             \* orphan holds, "failed" if a requirement was missed without that
    prog     \* what init runs, one of Programs

vars == <<proc, file, pipe, inode, verdict, prog>>

Procs == 1 .. NPROC
initproc == 1
Files == 1 .. NFILE
Fds == 0 .. NOFILE - 1
Inodes == 1 .. NINODES
ROOT == 1
CONSOLE == 1  \* the open file on the console

Regs == {"0", "1", "2", "fd", "fd1", "fd2", "fd3", "p0", "p1", "n", "pid", "pid1", "pid2", "st", "master_pid", "_"}
NoRegs == [r \in Regs |-> IF r = "1" THEN 1 ELSE IF r = "2" THEN 2 ELSE 0]

NoFile == [type |-> "none", ip |-> 0, off |-> 0, rd |-> FALSE, wr |-> FALSE, pipe |-> 0]
NoInode == [type |-> "free", nlink |-> 0, data |-> <<>>, ents |-> {}, dotdot |-> 0]
NoProc == [st |-> "unused", parent |-> 0, code |-> <<>>, argv |-> <<>>, ofile |-> [fd \in Fds |-> 0], cwd |-> 0,
           reg |-> NoRegs, buf |-> <<>>, done |-> 0, killed |-> FALSE, xstate |-> 0]

-----------------------------------------------------------------------------
(* Calls.  must is what the program requires of the result: "ok", "fail",  *)
(* "any", the pid in register pid, or "is" the number n; a program that    *)
(* gives up when the call fails says "or_exit".                            *)
I(op, a, to, must, n) == [op |-> op, a |-> a, to |-> to, must |-> must, n |-> n]
Ok(op, a) == I(op, a, "_", "ok", 0)
Fail(op, a) == I(op, a, "_", "fail", 0)
Try(op, a) == I(op, a, "_", "any", 0)
Is(op, a, n) == I(op, a, "_", "is", n)
OrExit(op, a) == I(op, a, "_", "or_exit", 0)
To(r, i) == [i EXCEPT !.to = r]

Meets(p, i, ret) ==
    CASE i.must = "ok" -> ret >= 0
      [] i.must = "or_exit" -> ret >= 0
      [] i.must = "fail" -> ret < 0
      [] i.must = "is" -> ret = i.n
      [] i.must = "pid" -> ret = proc[p].reg["pid"]
      [] OTHER -> TRUE

Exit(r) == Try("exit", <<r>>)

Instr(p) == Head(proc[p].code)
Arg(p, k) == Instr(p).a[k]
Reg(p, r) == proc[p].reg[r]

(* p may make the call op.                                                 *)
Calls(p, op) ==
    proc[p].st = "run" /\ ~proc[p].killed /\ proc[p].code # <<>> /\ Instr(p).op = op

Children(p) == {q \in Procs : proc[q].st # "unused" /\ proc[q].parent = p}

(* fork() finds no slot, and init has children besides the program it runs:*)
(* orphans that have not exited yet, or that it has not reaped.            *)
Starves(p, ret) ==
    /\ Instr(p).op = "fork" /\ Instr(p).must # "or_exit" /\ ret = -1
    /\ Cardinality(Children(initproc)) > 1

(* p's call returns ret, pr being the processes otherwise: p goes on, or   *)
(* gives up with exit(1) if it required something else.                    *)
Return(p, pr, ret) ==
    LET good == Meets(p, Instr(p), ret) IN
    /\ proc' = [pr EXCEPT ![p].reg[Instr(p).to] = IF Instr(p).to = "_" THEN 0 ELSE ret,
                          ![p].code = IF good THEN Tail(@) ELSE <<Exit("1")>>]
    /\ verdict' = IF verdict # "ok" THEN verdict
                  ELSE IF Starves(p, ret) THEN "starved"
                  ELSE IF ~good /\ Instr(p).must # "or_exit" THEN "failed" ELSE "ok"

-----------------------------------------------------------------------------
(* What nothing refers to any more goes away, for processes pr and open    *)
(* files fl.                                                               *)
OpenIn(pr, fl) ==
    LET used == UNION {Range(pr[p].ofile) : p \in Procs} \cup {CONSOLE} IN
    [f \in Files |-> IF f \in used THEN fl[f] ELSE NoFile]

Collected(pr, fl, ino) ==
    LET used == {fl[f].ip : f \in Files} \cup {pr[p].cwd : p \in Procs} IN
    [i \in Inodes |-> IF ino[i].nlink = 0 /\ i \notin used THEN NoInode ELSE ino[i]]

Close(pr) ==
    /\ file' = OpenIn(pr, file)
    /\ inode' = Collected(pr, file', inode)
    /\ pipe' = [q \in Files |-> IF \E f \in Files : file'[f].pipe = q THEN pipe[q] ELSE <<>>]

(* The first free number of a set, or 0.                                   *)
First(S) == IF S = {} THEN 0 ELSE Min(S)
FreeProc == First({q \in Procs : proc[q].st = "unused"})
FreeFiles == {f \in Files : file[f].type = "none"}
FreeInode == First({i \in Inodes : inode[i].type = "free"})
FreeFds(p) == {fd \in Fds : proc[p].ofile[fd] = 0}

(* argfd(): the open file of the descriptor in register r, or 0.           *)
argfd(p, r) == IF Reg(p, r) \in Fds THEN proc[p].ofile[Reg(p, r)] ELSE 0

-----------------------------------------------------------------------------
(* Processes.                                                              *)

(* The child goes on with the code given, or with that of its parent.      *)
sys_fork(p) ==
    LET np == FreeProc
        rest == Tail(proc[p].code)
        child == [proc[p] EXCEPT !.parent = p, !.reg[Instr(p).to] = 0,
                                 !.code = IF Instr(p).a = <<>> THEN rest ELSE Arg(p, 1)]
    IN /\ Calls(p, "fork")
       /\ IF np = 0 THEN Return(p, proc, -1) ELSE Return(p, [proc EXCEPT ![np] = child], np)
       /\ UNCHANGED <<file, pipe, inode, prog>>

(* exit() with status x: files are closed, children go to init.            *)
reparent(q, p) == [proc[q] EXCEPT !.parent = IF @ = p THEN initproc ELSE @]

exit(p, x) ==
    LET gone == [NoProc EXCEPT !.st = "zombie", !.parent = proc[p].parent, !.xstate = x]
        pr == [q \in Procs |-> IF q = p THEN gone ELSE reparent(q, p)]
    IN /\ proc' = pr
       /\ verdict' = IF p = initproc THEN "failed" ELSE verdict
       /\ Close(pr)
       /\ UNCHANGED prog

sys_exit(p) == Calls(p, "exit") /\ exit(p, Reg(p, Arg(p, 1)))

(* A process that was killed exits when it next enters the kernel.         *)
usertrap(p) == proc[p].st = "run" /\ proc[p].killed /\ exit(p, -1)

Zombies(p) == {q \in Children(p) : proc[q].st = "zombie"}

wait_sleeps(p) == Children(p) # {} /\ Zombies(p) = {}

(* wait() stores the status in the register that is its argument.          *)
sys_wait(p) ==
    LET q == First(Zombies(p)) IN
    /\ Calls(p, "wait")
    /\ ~wait_sleeps(p)
    /\ IF q = 0 THEN Return(p, proc, -1)
       ELSE Return(p, [proc EXCEPT ![q] = NoProc, ![p].reg[Arg(p, 1)] = proc[q].xstate], q)
    /\ UNCHANGED <<file, pipe, inode, prog>>

sys_kill(p) ==
    LET q == Reg(p, Arg(p, 1)) IN
    /\ Calls(p, "kill")
    /\ IF q \in Procs /\ proc[q].st # "unused"
       THEN Return(p, [proc EXCEPT ![q].killed = TRUE], 0)
       ELSE Return(p, proc, -1)
    /\ UNCHANGED <<file, pipe, inode, prog>>

sys_getpid(p) ==
    /\ Calls(p, "getpid")
    /\ Return(p, proc, p)
    /\ UNCHANGED <<file, pipe, inode, prog>>

-----------------------------------------------------------------------------
(* Names.  A path is a sequence of elements, after "/" if it is absolute.  *)
skipelem(n) == SubSeq(n, 1, Min({DIRSIZ, Len(n)}))

dirlookup(i, n) ==
    CASE n = "." -> i
      [] n = ".." -> inode[i].dotdot
      [] OTHER -> First({e[2] : e \in {x \in inode[i].ents : x[1] = n}})

(* From inode i along the elements, 0 if one of them is not there.         *)
Walk(i, elems) ==
    FoldLeft(LAMBDA d, n : IF d = 0 THEN 0
                           ELSE IF inode[d].type # "dir" THEN 0 ELSE dirlookup(d, skipelem(n)),
             i, elems)

Absolute(path) == path # <<>> /\ Head(path) = "/"
Elems(path) == IF Absolute(path) THEN Tail(path) ELSE path
Start(p, path) == IF Absolute(path) THEN ROOT ELSE proc[p].cwd

namei(p, path) == Walk(Start(p, path), Elems(path))
nameiparent(p, path) ==
    LET d == Walk(Start(p, path), Front(Elems(path))) IN
    IF Elems(path) = <<>> THEN 0 ELSE IF d = 0 THEN 0
    ELSE IF inode[d].type = "dir" THEN d ELSE 0
LastElem(path) == skipelem(Last(path))

isdirempty(i) == inode[i].ents = {}

(* The inodes after dirlink(dp, n, i).                                     *)
dirlink(ino, dp, n, i) == [ino EXCEPT ![dp].ents = @ \cup {<<n, i>>}]

(* create(): the inode and the inodes after it; i is 0 if it fails.        *)
create(p, path, type) ==
    LET dp == nameiparent(p, path)
        old == IF dp = 0 THEN 0 ELSE dirlookup(dp, LastElem(path))
        new == FreeInode
        made == [NoInode EXCEPT !.type = type, !.nlink = 1,
                                !.dotdot = IF type = "dir" THEN dp ELSE 0]
        up == IF type = "dir" THEN 1 ELSE 0
    IN IF dp = 0 THEN [i |-> 0, ino |-> inode]
       ELSE IF old # 0 THEN [i |-> IF type = "file" /\ inode[old].type # "dir" THEN old ELSE 0,
                             ino |-> inode]
       ELSE IF new = 0 THEN [i |-> 0, ino |-> inode]
       ELSE [i |-> new, ino |-> dirlink([inode EXCEPT ![new] = made, ![dp].nlink = @ + up],
                                        dp, LastElem(path), new)]

sys_open(p) ==
    LET path == Arg(p, 1)
        omode == Arg(p, 2)
        c == IF "CREATE" \in omode THEN create(p, path, "file")
             ELSE [i |-> namei(p, path), ino |-> inode]
        f == First(FreeFiles)
        fd == First(FreeFds(p))
        bad == \/ c.i = 0
               \/ c.i # 0 /\ c.ino[c.i].type = "dir" /\ omode # {}
               \/ FreeFiles = {} \/ FreeFds(p) = {}
    IN /\ Calls(p, "open")
       /\ IF bad THEN Return(p, proc, -1) /\ inode' = c.ino /\ UNCHANGED file
          ELSE /\ Return(p, [proc EXCEPT ![p].ofile[fd] = f], fd)
               /\ file' = [file EXCEPT ![f] = [type |-> c.ino[c.i].type, ip |-> c.i, off |-> 0,
                                               rd |-> "WRONLY" \notin omode,
                                               wr |-> omode \cap {"WRONLY", "RDWR"} # {},
                                               pipe |-> 0]]
               /\ inode' = IF "TRUNC" \in omode /\ c.ino[c.i].type = "file"
                           THEN [c.ino EXCEPT ![c.i].data = <<>>] ELSE c.ino
       /\ UNCHANGED <<pipe, prog>>

sys_close(p) ==
    LET f == argfd(p, Arg(p, 1))
        pr == [proc EXCEPT ![p].ofile[Reg(p, Arg(p, 1))] = 0]
    IN /\ Calls(p, "close")
       /\ IF f = 0 THEN Return(p, proc, -1) /\ UNCHANGED <<file, pipe, inode>>
          ELSE Return(p, pr, 0) /\ Close(pr)
       /\ UNCHANGED prog

sys_dup(p) ==
    LET f == argfd(p, Arg(p, 1))
        fd == First(FreeFds(p))
    IN /\ Calls(p, "dup")
       /\ IF f = 0 \/ FreeFds(p) = {} THEN Return(p, proc, -1)
          ELSE Return(p, [proc EXCEPT ![p].ofile[fd] = f], fd)
       /\ UNCHANGED <<file, pipe, inode, prog>>

sys_pipe(p) ==
    LET f0 == First(FreeFiles)
        f1 == First(FreeFiles \ {f0})
        fd0 == First(FreeFds(p))
        fd1 == First(FreeFds(p) \ {fd0})
        end == [NoFile EXCEPT !.type = "pipe", !.pipe = f0]
    IN /\ Calls(p, "pipe")
       /\ IF Cardinality(FreeFiles) < 2 \/ Cardinality(FreeFds(p)) < 2
          THEN Return(p, proc, -1) /\ UNCHANGED file
          ELSE /\ Return(p, [proc EXCEPT ![p].ofile = [@ EXCEPT ![fd0] = f0, ![fd1] = f1],
                                         ![p].reg = [@ EXCEPT !["p0"] = fd0, !["p1"] = fd1]], 0)
               /\ file' = [file EXCEPT ![f0] = [end EXCEPT !.rd = TRUE],
                                       ![f1] = [end EXCEPT !.wr = TRUE]]
       /\ UNCHANGED <<pipe, inode, prog>>

ReadOpen(q) == \E f \in Files : file[f].pipe = q /\ file[f].rd
WriteOpen(q) == \E f \in Files : file[f].pipe = q /\ file[f].wr

read_sleeps(p) ==
    LET f == argfd(p, Arg(p, 1)) IN
    f # 0 /\ file[f].type = "pipe" /\ file[f].rd /\ pipe[file[f].pipe] = <<>> /\ WriteOpen(file[f].pipe)
write_sleeps(p) ==
    LET f == argfd(p, Arg(p, 1)) IN
    f # 0 /\ file[f].type = "pipe" /\ file[f].wr /\ Len(pipe[file[f].pipe]) = PIPESIZE
          /\ ReadOpen(file[f].pipe)

(* read(fd, n): replaces the buffer, or extends it.  The console is at end *)
(* of file.                                                                *)
sys_read(p) ==
    LET f == argfd(p, Arg(p, 1))
        q == file[f].pipe
        src == IF file[f].type = "pipe" THEN pipe[q]
               ELSE IF file[f].type = "console" THEN <<>>
               ELSE SubSeq(inode[file[f].ip].data, file[f].off + 1, Len(inode[file[f].ip].data))
        got == SubSeq(src, 1, Min({Arg(p, 2), Len(src)}))
        buf == IF Arg(p, 3) = "more" THEN proc[p].buf \o got ELSE got
    IN /\ Calls(p, "read")
       /\ ~read_sleeps(p)
       /\ IF f = 0 THEN Return(p, proc, -1) /\ UNCHANGED <<file, pipe>>
          ELSE IF ~file[f].rd THEN Return(p, proc, -1) /\ UNCHANGED <<file, pipe>>
          ELSE /\ Return(p, [proc EXCEPT ![p].buf = buf], Len(got))
               /\ file' = IF file[f].type \in {"file", "dir"} THEN [file EXCEPT ![f].off = @ + Len(got)] ELSE file
               /\ pipe' = IF file[f].type = "pipe"
                          THEN [pipe EXCEPT ![q] = SubSeq(@, Len(got) + 1, Len(@))] ELSE pipe
       /\ UNCHANGED <<inode, prog>>

(* The file data after data is written at offset off, which is at most its *)
(* length.                                                                 *)
Written(old, off, data) ==
    SubSeq(old, 1, off) \o data \o SubSeq(old, off + Len(data) + 1, Len(old))

(* write(fd, data), to an inode; data "buf" is what was last read.         *)
Data(p) == IF Arg(p, 2) = <<"buf">> THEN proc[p].buf ELSE Arg(p, 2)

sys_write(p) ==
    LET f == argfd(p, Arg(p, 1))
        ip == file[f].ip
        off == file[f].off
    IN /\ Calls(p, "write")
       /\ IF f = 0 THEN Return(p, proc, -1) /\ UNCHANGED <<file, inode>>
          ELSE IF ~file[f].wr THEN Return(p, proc, -1) /\ UNCHANGED <<file, inode>>
          ELSE IF file[f].type = "console" THEN Return(p, proc, Len(Data(p))) /\ UNCHANGED <<file, inode>>
          ELSE /\ file[f].type \in {"file", "dir"}
               /\ IF off > Len(inode[ip].data) \/ off + Len(Data(p)) > MAXFILE
                  THEN Return(p, proc, -1) /\ UNCHANGED <<file, inode>>
                  ELSE /\ Return(p, proc, Len(Data(p)))
                       /\ file' = [file EXCEPT ![f].off = @ + Len(Data(p))]
                       /\ inode' = [inode EXCEPT ![ip].data = Written(@, off, Data(p))]
       /\ UNCHANGED <<pipe, prog>>

(* write(fd, data), to a pipe: what fits goes in, the rest waits for a     *)
(* reader to make room; without a reader the call fails.                   *)
pipewrite(p) ==
    LET f == argfd(p, Arg(p, 1))
        q == file[f].pipe
        k == Min({Len(Data(p)), PIPESIZE - Len(pipe[q])})
        rest == SubSeq(Data(p), k + 1, Len(Data(p)))
    IN /\ Calls(p, "write")
       /\ f # 0
       /\ file[f].type = "pipe" /\ file[f].wr
       /\ ~write_sleeps(p)
       /\ IF ~ReadOpen(q) THEN Return(p, [proc EXCEPT ![p].done = 0], -1) /\ UNCHANGED pipe
          ELSE /\ pipe' = [pipe EXCEPT ![q] = @ \o SubSeq(Data(p), 1, k)]
               /\ IF rest = <<>> THEN Return(p, [proc EXCEPT ![p].done = 0], proc[p].done + k)
                  ELSE /\ proc' = [proc EXCEPT ![p].done = @ + k, ![p].code[1].a[2] = rest]
                       /\ UNCHANGED verdict
       /\ UNCHANGED <<file, inode, prog>>

sys_link(p) ==
    LET ip == namei(p, Arg(p, 1))
        new == Arg(p, 2)
        dp == nameiparent(p, new)
        ok == /\ ip # 0
              /\ inode[ip].type # "dir"
              /\ dp # 0
              /\ dirlookup(dp, LastElem(new)) = 0
    IN /\ Calls(p, "link")
       /\ Return(p, proc, IF ok THEN 0 ELSE -1)
       /\ inode' = IF ok THEN dirlink([inode EXCEPT ![ip].nlink = @ + 1], dp, LastElem(new), ip)
                   ELSE inode
       /\ UNCHANGED <<file, pipe, prog>>

(* An entry may go; the mutant forgets that a directory must be empty.     *)
may_unlink_dir(dp, n) == dirlookup(dp, n) # 0
may_unlink(dp, n) ==
    LET ip == dirlookup(dp, n) IN ip # 0 /\ (inode[ip].type = "dir" => isdirempty(ip))

sys_unlink(p) ==
    LET path == Arg(p, 1)
        dp == nameiparent(p, path)
        ok == dp # 0 /\ LastElem(path) \notin {".", ".."} /\ may_unlink(dp, LastElem(path))
        ip == dirlookup(dp, LastElem(path))
        down == IF inode[ip].type = "dir" THEN 1 ELSE 0
        gone == [inode EXCEPT ![dp].ents = {e \in @ : e[1] # LastElem(path)},
                              ![dp].nlink = @ - down, ![ip].nlink = @ - 1]
    IN /\ Calls(p, "unlink")
       /\ Return(p, proc, IF ok THEN 0 ELSE -1)
       /\ inode' = IF ok THEN Collected(proc, file, gone) ELSE inode
       /\ UNCHANGED <<file, pipe, prog>>

sys_mkdir(p) ==
    LET c == create(p, Arg(p, 1), "dir") IN
    /\ Calls(p, "mkdir")
    /\ Return(p, proc, IF c.i = 0 THEN -1 ELSE 0)
    /\ inode' = c.ino
    /\ UNCHANGED <<file, pipe, prog>>

sys_chdir(p) ==
    LET ip == namei(p, Arg(p, 1))
        ok == ip # 0 /\ inode[ip].type = "dir"
        pr == IF ok THEN [proc EXCEPT ![p].cwd = ip] ELSE proc
    IN /\ Calls(p, "chdir")
       /\ Return(p, pr, IF ok THEN 0 ELSE -1)
       /\ inode' = Collected(pr, file, inode)
       /\ UNCHANGED <<file, pipe, prog>>

is_program(i) == i # 0 /\ inode[i].type = "file" /\ inode[i].data = <<"ELF">>

(* exec(path) of a program with that code, and with those arguments.       *)
sys_exec(p) ==
    /\ Calls(p, "exec")
    /\ IF ~is_program(namei(p, Arg(p, 1))) THEN Return(p, proc, -1)
       ELSE /\ proc' = [proc EXCEPT ![p].code = Arg(p, 2), ![p].argv = Arg(p, 3), ![p].reg = NoRegs, ![p].buf = <<>>]
            /\ UNCHANGED verdict
    /\ UNCHANGED <<file, pipe, inode, prog>>

-----------------------------------------------------------------------------
(* What a program does between its calls.                                  *)

(* while(r > 0) body                                                       *)
while(p) ==
    /\ Calls(p, "while")
    /\ proc' = [proc EXCEPT ![p].code = IF Reg(p, Arg(p, 1)) > 0 THEN Arg(p, 2) \o @ ELSE Tail(@)]
    /\ UNCHANGED <<file, pipe, inode, verdict, prog>>

(* if(r < 0) body                                                          *)
if_negative(p) ==
    /\ Calls(p, "if")
    /\ proc' = [proc EXCEPT ![p].code = IF Reg(p, Arg(p, 1)) < 0 THEN Arg(p, 2) \o Tail(@) ELSE Tail(@)]
    /\ UNCHANGED <<file, pipe, inode, verdict, prog>>

(* One of several things to do.                                            *)
choose(p) ==
    /\ Calls(p, "choose")
    /\ \E k \in DOMAIN Instr(p).a : proc' = [proc EXCEPT ![p].code = Arg(p, k) \o Tail(@)]
    /\ UNCHANGED <<file, pipe, inode, verdict, prog>>

(* r += k                                                                  *)
add(p) ==
    /\ Calls(p, "add")
    /\ proc' = [proc EXCEPT ![p].reg[Arg(p, 1)] = @ + Arg(p, 2), ![p].code = Tail(@)]
    /\ UNCHANGED <<file, pipe, inode, verdict, prog>>

(* A test of a register, or of what is in the buffer.                      *)
check(p) ==
    /\ Calls(p, "check")
    /\ Return(p, proc, Reg(p, Arg(p, 1)))
    /\ UNCHANGED <<file, pipe, inode, prog>>

check_buf(p) ==
    /\ Calls(p, "buf")
    /\ Return(p, [proc EXCEPT ![p].buf = <<>>], IF proc[p].buf \in Arg(p, 1) THEN 0 ELSE -1)
    /\ UNCHANGED <<file, pipe, inode, prog>>

-----------------------------------------------------------------------------
(* How many entries of the current directory have one of these names.      *)
listing(p) ==
    /\ Calls(p, "ls")
    /\ Return(p, proc, Cardinality({e \in inode[proc[p].cwd].ents : e[1] \in Arg(p, 1)}))
    /\ UNCHANGED <<file, pipe, inode, prog>>

-----------------------------------------------------------------------------
(* init runs the program, reaps it and whatever else becomes its child,    *)
(* and runs it again.  NPROC is small, so the next round waits for every   *)
(* process of this one to be gone.                                         *)
init(p) ==
    LET q == First(Zombies(p))
        child == [proc[p] EXCEPT !.parent = p, !.code = prog[2]]
    IN /\ p = initproc
       /\ IF q # 0 THEN proc' = [proc EXCEPT ![q] = NoProc]
          ELSE /\ \A r \in Procs \ {p} : proc[r].st = "unused"
               /\ proc' = [proc EXCEPT ![FreeProc] = child]
       /\ UNCHANGED <<file, pipe, inode, verdict, prog>>

Init ==
    LET Dir(es) == [NoInode EXCEPT !.type = "dir", !.nlink = 1, !.ents = es, !.dotdot = ROOT]
        Data1 == [NoInode EXCEPT !.type = "file", !.nlink = 1, !.data = <<"x">>]
    IN /\ prog \in Programs
       /\ proc = [p \in Procs |-> IF p = initproc
                                  THEN [NoProc EXCEPT !.st = "run", !.cwd = ROOT,
                                            !.ofile = [fd \in Fds |-> IF fd < 3 THEN CONSOLE ELSE 0]]
                                  ELSE NoProc]
       /\ file = [f \in Files |-> IF f = CONSOLE
                                  THEN [NoFile EXCEPT !.type = "console", !.ip = 5, !.rd = TRUE, !.wr = TRUE]
                                  ELSE NoFile]
       /\ pipe = [q \in Files |-> <<>>]
       /\ inode = [i \in Inodes |-> CASE i = ROOT -> Dir({<<"README", 2>>, <<"cat", 3>>, <<"echo", 4>>, <<"console", 5>>})
                                      [] i = 2 -> Data1
                                      [] i \in {3, 4} -> [Data1 EXCEPT !.data = <<"ELF">>]
                                      [] i = 5 -> [Data1 EXCEPT !.type = "console", !.data = <<>>]
                                      [] OTHER -> NoInode]
       /\ verdict = "ok"

(* p is in a call that does not return for now; a program that only spins  *)
(* does no call at all.                                                    *)
Sleeps(p) ==
    \/ p = initproc /\ Children(p) # {} /\ Zombies(p) = {}
    \/ Calls(p, "wait") /\ wait_sleeps(p)
    \/ Calls(p, "read") /\ read_sleeps(p)
    \/ Calls(p, "write") /\ write_sleeps(p)
    \/ Calls(p, "spin")

Step(p) ==
    \/ sys_fork(p) \/ sys_exit(p) \/ usertrap(p) \/ sys_wait(p) \/ sys_kill(p) \/ sys_getpid(p)
    \/ sys_open(p) \/ sys_close(p) \/ sys_dup(p) \/ sys_pipe(p) \/ sys_read(p) \/ sys_write(p)
    \/ pipewrite(p) \/ sys_link(p) \/ sys_unlink(p) \/ sys_mkdir(p) \/ sys_chdir(p) \/ sys_exec(p)
    \/ while(p) \/ if_negative(p) \/ choose(p) \/ add(p) \/ listing(p) \/ check(p) \/ check_buf(p) \/ init(p)

Next == \E p \in {q \in Procs : proc[q].st = "run"} : Step(p)

Spec == Init /\ [][Next]_vars
=============================================================================
