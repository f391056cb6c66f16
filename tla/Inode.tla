------------------------------- MODULE Inode --------------------------------
(***************************************************************************)
(* The inode layer of kernel/fs.c (in-memory table, sleep-locks, link and  *)
(* reference counts, directories, path walk) under the calls of            *)
(* kernel/sysfile.c that use it.  Each call is cut where another process   *)
(* can come in: at every ilock(), at every section under itable.lock, and  *)
(* at every release of a dinode block.  File contents, and the data blocks *)
(* of files, are left out; each call runs in a transaction of its own.     *)
(***************************************************************************)
EXTENDS Integers, Sequences, FiniteSets

CONSTANTS Procs, Names,
          NInodes,    \* dinodes 1 .. NInodes; 1 is the root directory
          NINODE,     \* entries of the in-memory table
          Loads,      \* alternatives for what each process calls: <<call, path, new path>>
          Helds,      \* sets of entries that processes outside the model may have
          None

DotDot == ".."
ROOTINO == 1
Inums == 1 .. NInodes
Slots == 1 .. NINODE

ASSUME SizeAssumption == NInodes \in Nat \ {0} /\ NINODE \in Nat \ {0}
ASSUME NoneAssumption == None \notin Procs /\ IsFiniteSet(Procs)
ASSUME CallAssumption ==
    \A load \in Loads : \A p \in Procs : \A c \in load[p] :
        /\ c[1] \in {"open", "create", "mkdir", "mknod", "link", "unlink", "chdir"}
        /\ c[2] \in Seq(Names \cup {DotDot}) /\ c[2] # <<>>
        /\ c[3] \in Seq(Names \cup {DotDot}) /\ (c[1] = "link") = (c[3] # <<>>)
ASSUME HeldAssumption == \A h \in Helds : h \subseteq Slots \ {1}

VARIABLES
    dinode,   \* the inodes on disk, with what a directory contains
    itable,   \* struct inode of each table entry
    proc,     \* of each process: its call, fd and cwd
    panic,    \* the assertion that failed, or "none"
    strayed,  \* a ".." of a removed directory has been looked up
    calls     \* the load

vars == <<dinode, itable, proc, panic, strayed, calls>>

Outside == NInodes + 1    \* stands for inodes that only other processes use

NoEnts == [n \in Names |-> 0]
FreeDinode == [type |-> "free", nlink |-> 0, ents |-> NoEnts, dotdot |-> 0]

(* mkfs leaves the root directory; every process has it as its cwd.        *)
(* Processes outside the model may have some entries of the table.         *)
Init ==
    /\ calls \in Loads
    /\ dinode = [i \in Inums |->
                   IF i # ROOTINO THEN FreeDinode
                   ELSE [type |-> "dir", nlink |-> 1, ents |-> NoEnts, dotdot |-> ROOTINO]]
    /\ \E held \in Helds : itable =
         [t \in Slots |->
            [inum |-> IF t = 1 THEN ROOTINO ELSE IF t \in held THEN Outside ELSE 0,
             ref |-> IF t = 1 THEN Cardinality(Procs) ELSE IF t \in held THEN 1 ELSE 0,
             valid |-> FALSE, type |-> "free", nlink |-> 0, lock |-> None]]
    /\ proc = [p \in Procs |->
                 [pc |-> "idle", call |-> "none", path |-> <<>>, new |-> <<>>, inum |-> 0,
                  ip |-> 0, dp |-> 0, puts |-> <<>>, freeing |-> "no", fd |-> 0, cwd |-> 1]]
    /\ panic = "none" /\ strayed = FALSE

At(p, l) == proc[p].pc = l /\ proc[p].puts = <<>>
Ip(p) == proc[p].ip
Dp(p) == proc[p].dp
Name(p) == proc[p].path[Len(proc[p].path)]

-----------------------------------------------------------------------------
(* iget(): the entry of inode i, or the first empty one, or 0.             *)
Slot(i) ==
    LET has == {t \in Slots : itable[t].ref > 0 /\ itable[t].inum = i}
        empty == {t \in Slots : itable[t].ref = 0}
    IN  IF has # {} THEN CHOOSE t \in has : TRUE
        ELSE IF empty # {} THEN CHOOSE t \in empty : \A u \in empty : t <= u ELSE 0

(* What iget() leaves in the table.                                        *)
iget(i) ==
    [t \in Slots |->
       IF t # Slot(i) THEN itable[t]
       ELSE IF itable[t].ref > 0 THEN [itable[t] EXCEPT !.ref = @ + 1]
       ELSE [itable[t] EXCEPT !.ref = 1, !.inum = i, !.valid = FALSE]]

(* The step that gets inode i: it leaves table and procs, unless iget()    *)
(* finds no entry.                                                         *)
Gets(i, table, procs) ==
    IF Slot(i) = 0
    THEN panic' = "iget: no inodes" /\ UNCHANGED <<dinode, itable, proc>>
    ELSE itable' = table /\ proc' = procs /\ UNCHANGED <<dinode, panic>>

(* ilock(): entry t with its lock, read from the disk if it must be.       *)
LockFree(t) == itable[t].lock = None
ilock(p, t) ==
    LET d == dinode[itable[t].inum] IN
    [itable EXCEPT ![t].lock = p, ![t].valid = TRUE,
                   ![t].type = IF itable[t].valid THEN @ ELSE d.type,
                   ![t].nlink = IF itable[t].valid THEN @ ELSE d.nlink]
ilock_panic(t) ==
    IF itable[t].ref < 1 THEN "ilock"
    ELSE IF ~itable[t].valid /\ dinode[itable[t].inum].type = "free" THEN "ilock: no type"
    ELSE "none"

iunlock(t) == [itable EXCEPT ![t].lock = None]

(* iupdate() of entry t once its nlink is n.                               *)
iupdate(t, n) ==
    [dinode EXCEPT ![itable[t].inum].nlink = n, ![itable[t].inum].type = itable[t].type]

(* dirlookup() of e in the locked directory of entry t; 0 if absent.       *)
dirlookup(t, e) ==
    LET d == dinode[itable[t].inum] IN IF e = DotDot THEN d.dotdot ELSE d.ents[e]

-----------------------------------------------------------------------------
(* iput() of the entries a call has let go of, in their order.             *)
Putting(p) == Head(proc[p].puts)

(* The test of iput() under itable.lock; the mutant forgets ip->ref.       *)
LastPut_anyref(e) == e.valid /\ e.nlink = 0
LastPut(e) == e.ref = 1 /\ e.valid /\ e.nlink = 0

(* Others still use the inode, or it has links: only the count changes.    *)
iput_drop(p) ==
    /\ proc[p].puts # <<>> /\ proc[p].freeing = "no"
    /\ ~LastPut(itable[Putting(p)])
    /\ itable' = [itable EXCEPT ![Putting(p)].ref = @ - 1]
    /\ proc' = [proc EXCEPT ![p].puts = Tail(@)]
    /\ UNCHANGED <<dinode, panic>>

(* The last of an unlinked inode.  Its lock must be free: acquiresleep()   *)
(* is called under itable.lock, and sleeping there would panic.            *)
iput_last(p) ==
    /\ proc[p].puts # <<>> /\ proc[p].freeing = "no"
    /\ LastPut(itable[Putting(p)])
    /\ panic' = IF LockFree(Putting(p)) THEN "none" ELSE "sched locks"
    /\ itable' = [itable EXCEPT ![Putting(p)].lock = p]
    /\ proc' = [proc EXCEPT ![p].freeing = "trunc"]
    /\ UNCHANGED dinode

(* itrunc(), type = 0, iupdate(): ialloc() may take the dinode from here.  *)
iput_trunc(p) ==
    /\ proc[p].freeing = "trunc"
    /\ itable' = [itable EXCEPT ![Putting(p)].type = "free"]
    /\ dinode' = [dinode EXCEPT ![itable[Putting(p)].inum] = FreeDinode]
    /\ proc' = [proc EXCEPT ![p].freeing = "free"]
    /\ UNCHANGED panic

(* valid = 0, releasesleep(); the mutant leaves valid set.                 *)
iput_free_valid(p) ==
    /\ proc[p].freeing = "free"
    /\ itable' = [itable EXCEPT ![Putting(p)].lock = None]
    /\ proc' = [proc EXCEPT ![p].freeing = "drop"]
    /\ UNCHANGED <<dinode, panic>>
iput_free(p) ==
    /\ proc[p].freeing = "free"
    /\ itable' = [itable EXCEPT ![Putting(p)].lock = None, ![Putting(p)].valid = FALSE]
    /\ proc' = [proc EXCEPT ![p].freeing = "drop"]
    /\ UNCHANGED <<dinode, panic>>

(* The count, under itable.lock again.                                     *)
iput_freed(p) ==
    /\ proc[p].freeing = "drop"
    /\ itable' = [itable EXCEPT ![Putting(p)].ref = @ - 1]
    /\ proc' = [proc EXCEPT ![p].puts = Tail(@), ![p].freeing = "no"]
    /\ UNCHANGED <<dinode, panic>>

iput(p) == iput_drop(p) \/ iput_last(p) \/ iput_trunc(p) \/ iput_free(p) \/ iput_freed(p)

-----------------------------------------------------------------------------
(* A call begins: with a descriptor to close, or the walk of its path from *)
(* cwd (idup()); two descriptors of a process would add nothing.           *)
Begin(p, call, q, new) ==
    /\ At(p, "idle")
    /\ call \in {"open", "create"} => proc[p].fd = 0
    /\ itable' = [itable EXCEPT ![proc[p].cwd].ref = @ + 1]
    /\ proc' = [proc EXCEPT ![p].call = call, ![p].path = q, ![p].new = new,
         ![p].pc = IF call \in {"open", "link", "chdir"} THEN "namei" ELSE "nameiparent",
         ![p].ip = IF call \in {"open", "link", "chdir"} THEN proc[p].cwd ELSE 0,
         ![p].dp = IF call \in {"open", "link", "chdir"} THEN 0 ELSE proc[p].cwd]
    /\ UNCHANGED <<dinode, panic>>

sys_close(p) ==
    /\ At(p, "idle") /\ proc[p].fd # 0
    /\ proc' = [proc EXCEPT ![p].fd = 0, ![p].puts = <<proc[p].fd>>]
    /\ UNCHANGED <<dinode, itable, panic>>

(* The state of p when its call is over but for the iput() of puts.        *)
Return(p, puts) ==
    [proc EXCEPT ![p].pc = "idle", ![p].call = "none", ![p].path = <<>>, ![p].new = <<>>,
                 ![p].ip = 0, ![p].dp = 0, ![p].puts = puts]

(* p takes the lock of the inode in field w and goes on at l.              *)
Lock(p, w, from, l) ==
    LET t == proc[p][w] IN
    /\ At(p, from) /\ LockFree(t)
    /\ panic' = ilock_panic(t)
    /\ itable' = ilock(p, t)
    /\ proc' = [proc EXCEPT ![p].pc = l]
    /\ UNCHANGED dinode

(* namex() with its inode, in field w, locked.  The walk is over; or the   *)
(* next element is absent (link undoes its nlink++ then); or it goes on.   *)
Walked(p, w) == w = "dp" /\ Len(proc[p].path) = 1
NotDir(p, w) == itable[proc[p][w]].type # "dir"
Failed(p, w) ==
    IF proc[p].call = "link" /\ w = "dp"
    THEN [proc EXCEPT ![p].pc = "link_bad", ![p].dp = 0, ![p].puts = <<Dp(p)>>]
    ELSE Return(p, <<proc[p][w]>>)

namex_parent(p) ==
    /\ At(p, "nameiparent_in") /\ Walked(p, "dp") /\ ~NotDir(p, "dp")
    /\ itable' = iunlock(Dp(p))
    /\ proc' = [proc EXCEPT ![p].pc = CASE proc[p].call = "unlink" -> "unlink"
                                        [] proc[p].call = "link" -> "link_dp"
                                        [] OTHER -> "create"]
    /\ UNCHANGED <<dinode, panic>>

namex_fails(p, w, l) ==
    /\ At(p, l)
    /\ NotDir(p, w) \/ (~Walked(p, w) /\ dirlookup(proc[p][w], Head(proc[p].path)) = 0)
    /\ itable' = iunlock(proc[p][w])
    /\ proc' = Failed(p, w)
    /\ UNCHANGED <<dinode, panic>>

(* iget() of dirlookup() comes before the iunlock() of the directory.      *)
namex_next(p, w, l, from) ==
    LET t == proc[p][w]
        i == dirlookup(t, Head(proc[p].path))
    IN  /\ At(p, l) /\ ~NotDir(p, w) /\ ~Walked(p, w) /\ i # 0
        /\ Gets(i, [iget(i) EXCEPT ![t].lock = None],
                [proc EXCEPT ![p][w] = Slot(i), ![p].path = Tail(@), ![p].puts = <<t>>,
                             ![p].pc = IF w = "ip" /\ Len(proc[p].path) = 1
                                       THEN proc[p].call ELSE from])

namex(p) ==
    \/ Lock(p, "ip", "namei", "namei_in") \/ Lock(p, "dp", "nameiparent", "nameiparent_in")
    \/ namex_parent(p)
    \/ namex_fails(p, "ip", "namei_in") \/ namex_fails(p, "dp", "nameiparent_in")
    \/ namex_next(p, "ip", "namei_in", "namei")
    \/ namex_next(p, "dp", "nameiparent_in", "nameiparent")

-----------------------------------------------------------------------------
(* sys_open() with ip locked: a descriptor, unless filealloc() or fdalloc()*)
(* fails, or a directory is to be written.                                 *)
sys_open(p) ==
    /\ At(p, "opened")
    /\ itable' = iunlock(Ip(p))
    /\ \/ proc' = [Return(p, <<>>) EXCEPT ![p].fd = Ip(p)]
       \/ proc' = Return(p, <<Ip(p)>>)
    /\ UNCHANGED <<dinode, panic>>

(* sys_chdir() with ip locked.                                             *)
sys_chdir(p) ==
    /\ At(p, "chdir_in")
    /\ itable' = iunlock(Ip(p))
    /\ proc' = IF NotDir(p, "ip") THEN Return(p, <<Ip(p)>>)
               ELSE [Return(p, <<proc[p].cwd>>) EXCEPT ![p].cwd = Ip(p)]
    /\ UNCHANGED <<dinode, panic>>

-----------------------------------------------------------------------------
(* create() with dp locked, the name taken: dp is let go before ip is      *)
(* locked.                                                                 *)
create_exists(p) ==
    LET i == dirlookup(Dp(p), Name(p)) IN
    /\ At(p, "create_in") /\ i # 0
    /\ Gets(i, [iget(i) EXCEPT ![Dp(p)].lock = None],
            [proc EXCEPT ![p].ip = Slot(i), ![p].dp = 0, ![p].puts = <<Dp(p)>>,
                         ![p].pc = "create_old"])

(* The old inode, locked: only O_CREATE of a file or device succeeds.      *)
create_old(p) ==
    /\ At(p, "create_old_in")
    /\ IF proc[p].call = "create" /\ itable[Ip(p)].type # "dir"
       THEN proc' = [proc EXCEPT ![p].pc = "opened"] /\ UNCHANGED itable
       ELSE proc' = Return(p, <<Ip(p)>>) /\ itable' = iunlock(Ip(p))
    /\ UNCHANGED <<dinode, panic>>

(* ialloc(): the first free dinode, if any, gets its type; iget() comes    *)
(* after the release of the block.                                         *)
NewType(call) ==
    CASE call = "mkdir" -> "dir" [] call = "mknod" -> "dev" [] call = "create" -> "file"
FreeInums == {i \in Inums : dinode[i].type = "free"}
ialloc(p) ==
    LET i == CHOOSE j \in FreeInums : \A k \in FreeInums : j <= k IN
    /\ At(p, "create_in") /\ dirlookup(Dp(p), Name(p)) = 0
    /\ FreeInums # {}
    /\ dinode' = [dinode EXCEPT ![i] =
                    [FreeDinode EXCEPT !.type = NewType(proc[p].call)]]
    /\ proc' = [proc EXCEPT ![p].inum = i, ![p].pc = "ialloc_iget"]
    /\ UNCHANGED <<itable, panic>>
ialloc_fails(p) ==
    /\ At(p, "create_in") /\ dirlookup(Dp(p), Name(p)) = 0
    /\ FreeInums = {}
    /\ itable' = iunlock(Dp(p))
    /\ proc' = Return(p, <<Dp(p)>>)
    /\ UNCHANGED <<dinode, panic>>
ialloc_iget(p) ==
    /\ At(p, "ialloc_iget")
    /\ Gets(proc[p].inum, iget(proc[p].inum),
            [proc EXCEPT ![p].ip = Slot(proc[p].inum), ![p].inum = 0, ![p].pc = "create_new"])

(* The new inode, locked: nlink = 1, "." and "..", and the entry in dp.    *)
create_new(p) ==
    LET i == itable[Ip(p)].inum
        d == itable[Dp(p)].inum
        dlinks == itable[Dp(p)].nlink + 1
    IN  /\ At(p, "create_new_in")
        /\ IF proc[p].call = "mkdir"
           THEN /\ dinode' = [dinode EXCEPT ![i].nlink = 1, ![i].dotdot = d,
                                ![d].ents[Name(p)] = i, ![d].nlink = dlinks]
                /\ itable' = [itable EXCEPT ![Ip(p)].nlink = 1,
                                ![Dp(p)].nlink = dlinks, ![Dp(p)].lock = None]
           ELSE /\ dinode' = [dinode EXCEPT ![i].nlink = 1, ![d].ents[Name(p)] = i]
                /\ itable' = [itable EXCEPT ![Ip(p)].nlink = 1, ![Dp(p)].lock = None]
        /\ proc' = [proc EXCEPT ![p].dp = 0, ![p].puts = <<Dp(p)>>,
                      ![p].pc = IF proc[p].call = "create" THEN "opened" ELSE "put_ip"]
        /\ UNCHANGED panic

(* dirlink() found no disk block: the new inode goes, then dp.             *)
create_fail(p) ==
    /\ At(p, "create_new_in")
    /\ dinode' = iupdate(Ip(p), 0)
    /\ itable' = [itable EXCEPT ![Ip(p)].nlink = 0, ![Ip(p)].lock = None]
    /\ proc' = [proc EXCEPT ![p].ip = 0, ![p].puts = <<Ip(p)>>, ![p].pc = "put_dp"]
    /\ UNCHANGED panic

(* iunlockput() of the inode in field w, the last thing a call does.       *)
iunlockput(p, w, l) ==
    /\ At(p, l)
    /\ itable' = iunlock(proc[p][w])
    /\ proc' = Return(p, <<proc[p][w]>>)
    /\ UNCHANGED <<dinode, panic>>

create(p) ==
    \/ Lock(p, "dp", "create", "create_in")
    \/ create_exists(p) \/ Lock(p, "ip", "create_old", "create_old_in") \/ create_old(p)
    \/ ialloc(p) \/ ialloc_fails(p) \/ ialloc_iget(p)
    \/ Lock(p, "ip", "create_new", "create_new_in") \/ create_new(p) \/ create_fail(p)

-----------------------------------------------------------------------------
(* sys_unlink() with dp locked: ".." is refused, and an absent name.       *)
unlink_absent(p) ==
    /\ At(p, "unlink_in")
    /\ Name(p) = DotDot \/ dirlookup(Dp(p), Name(p)) = 0
    /\ itable' = iunlock(Dp(p))
    /\ proc' = Return(p, <<Dp(p)>>)
    /\ UNCHANGED <<dinode, panic>>

unlink_found(p) ==
    LET i == dirlookup(Dp(p), Name(p)) IN
    /\ At(p, "unlink_in") /\ Name(p) # DotDot /\ i # 0
    /\ Gets(i, iget(i), [proc EXCEPT ![p].ip = Slot(i), ![p].pc = "unlink_ip"])

isdirempty(t) == dinode[itable[t].inum].ents = NoEnts

unlink_notempty(p) ==
    /\ At(p, "unlink_ip_in")
    /\ itable[Ip(p)].type = "dir" /\ ~isdirempty(Ip(p))
    /\ panic' = IF itable[Ip(p)].nlink < 1 THEN "unlink: nlink < 1" ELSE "none"
    /\ itable' = iunlock(Ip(p))
    /\ proc' = [proc EXCEPT ![p].ip = 0, ![p].puts = <<Ip(p)>>, ![p].pc = "put_dp"]
    /\ UNCHANGED dinode

(* The entry goes, and the link of a directory's ".."; then dp is let go.  *)
unlink_entry(p) ==
    LET d == itable[Dp(p)].inum
        dlinks == itable[Dp(p)].nlink - (IF itable[Ip(p)].type = "dir" THEN 1 ELSE 0)
    IN  /\ At(p, "unlink_ip_in")
        /\ itable[Ip(p)].type = "dir" => isdirempty(Ip(p))
        /\ panic' = IF itable[Ip(p)].nlink < 1 THEN "unlink: nlink < 1" ELSE "none"
        /\ dinode' = [dinode EXCEPT ![d].ents[Name(p)] = 0, ![d].nlink = dlinks]
        /\ itable' = [itable EXCEPT ![Dp(p)].nlink = dlinks, ![Dp(p)].lock = None]
        /\ proc' = [proc EXCEPT ![p].dp = 0, ![p].puts = <<Dp(p)>>, ![p].pc = "unlink_ip_drop"]

(* One link less for ip; then it is let go.                                *)
drop_link(p, l) ==
    /\ At(p, l)
    /\ dinode' = iupdate(Ip(p), itable[Ip(p)].nlink - 1)
    /\ itable' = [itable EXCEPT ![Ip(p)].nlink = @ - 1, ![Ip(p)].lock = None]
    /\ proc' = Return(p, <<Ip(p)>>)
    /\ UNCHANGED panic

sys_unlink(p) ==
    \/ Lock(p, "dp", "unlink", "unlink_in")
    \/ unlink_absent(p) \/ unlink_found(p)
    \/ Lock(p, "ip", "unlink_ip", "unlink_ip_in")
    \/ unlink_notempty(p) \/ unlink_entry(p) \/ drop_link(p, "unlink_ip_drop")

-----------------------------------------------------------------------------
(* sys_link() with ip locked: nlink++ before the walk to the new name; the *)
(* mutant leaves nlink for later.                                          *)
link_count_late(p) == itable[Ip(p)].nlink
link_count(p) == itable[Ip(p)].nlink + 1

link_up(p) ==
    /\ At(p, "link_in") /\ NotDir(p, "ip")
    /\ dinode' = iupdate(Ip(p), link_count(p))
    /\ itable' = [itable EXCEPT ![Ip(p)].nlink = link_count(p), ![Ip(p)].lock = None,
                                ![proc[p].cwd].ref = @ + 1]
    /\ proc' = [proc EXCEPT ![p].dp = proc[p].cwd, ![p].path = proc[p].new,
                            ![p].new = <<>>, ![p].pc = "nameiparent"]
    /\ UNCHANGED panic

link_dir(p) ==
    /\ At(p, "link_in") /\ ~NotDir(p, "ip")
    /\ itable' = iunlock(Ip(p))
    /\ proc' = Return(p, <<Ip(p)>>)
    /\ UNCHANGED <<dinode, panic>>

(* dirlink(): done; or the name exists, and what dirlookup() got is put    *)
(* back before dp; or there is no disk block.                              *)
link_done(p) ==
    /\ At(p, "link_dp_in") /\ dirlookup(Dp(p), Name(p)) = 0
    /\ dinode' = [dinode EXCEPT ![itable[Dp(p)].inum].ents[Name(p)] = itable[Ip(p)].inum]
    /\ itable' = iunlock(Dp(p))
    /\ proc' = Return(p, <<Dp(p), Ip(p)>>)
    /\ UNCHANGED panic

link_exists(p) ==
    LET i == dirlookup(Dp(p), Name(p)) IN
    /\ At(p, "link_dp_in") /\ i # 0
    /\ Gets(i, iget(i), [proc EXCEPT ![p].puts = <<Slot(i)>>, ![p].pc = "link_fail"])

link_noblock(p) ==
    /\ At(p, "link_dp_in") /\ dirlookup(Dp(p), Name(p)) = 0
    /\ proc' = [proc EXCEPT ![p].pc = "link_fail"]
    /\ UNCHANGED <<dinode, itable, panic>>

link_fail(p) ==
    /\ At(p, "link_fail")
    /\ itable' = iunlock(Dp(p))
    /\ proc' = [proc EXCEPT ![p].dp = 0, ![p].puts = <<Dp(p)>>, ![p].pc = "link_bad"]
    /\ UNCHANGED <<dinode, panic>>

sys_link(p) ==
    \/ Lock(p, "ip", "link", "link_in") \/ link_up(p) \/ link_dir(p)
    \/ Lock(p, "dp", "link_dp", "link_dp_in")
    \/ link_done(p) \/ link_exists(p) \/ link_noblock(p) \/ link_fail(p)
    \/ Lock(p, "ip", "link_bad", "link_bad_in") \/ drop_link(p, "link_bad_in")

-----------------------------------------------------------------------------
Syscall(p) == sys_close(p) \/ \E c \in calls[p] : Begin(p, c[1], c[2], c[3])

Step(p) ==
    \/ Syscall(p) \/ namex(p) \/ iput(p)
    \/ Lock(p, "ip", "open", "opened") \/ sys_open(p)
    \/ Lock(p, "ip", "chdir", "chdir_in") \/ sys_chdir(p)
    \/ create(p) \/ sys_unlink(p) \/ sys_link(p)
    \/ iunlockput(p, "ip", "put_ip") \/ iunlockput(p, "dp", "put_dp")

(* p is looking ".." up in a directory without links, which it has locked. *)
Strays(p) ==
    /\ proc[p].path # <<>> /\ Head(proc[p].path) = DotDot
    /\ \E w \in {"ip", "dp"} :
         proc[p][w] # 0 /\ itable[proc[p][w]].lock = p /\ itable[proc[p][w]].nlink = 0

(* panic() loops for ever; what other CPUs would do is left out.           *)
panicked == panic # "none" /\ UNCHANGED vars

Next ==
    \/ /\ panic = "none" /\ UNCHANGED calls
       /\ \E p \in Procs : Step(p) /\ strayed' = (strayed \/ Strays(p))
    \/ panicked

Spec == Init /\ [][Next]_vars

-----------------------------------------------------------------------------
Types == {"free", "file", "dir", "dev"}

(* Every variable has one of its values.                                   *)
TypeOK ==
    /\ dinode \in [Inums -> [type : Types, nlink : Nat, ents : [Names -> 0 .. NInodes],
                             dotdot : 0 .. NInodes]]
    /\ itable \in [Slots -> [inum : 0 .. Outside, ref : Nat, valid : BOOLEAN, type : Types,
                             nlink : Nat, lock : Procs \cup {None}]]
    /\ \A p \in Procs : {Ip(p), Dp(p), proc[p].fd, proc[p].cwd} \subseteq 0 .. NINODE
    /\ panic \in {"none", "iget: no inodes", "ilock", "ilock: no type", "sched locks",
                 "unlink: nlink < 1"}
    /\ strayed \in BOOLEAN /\ calls \in Loads

(* Two entries in use are never of one inode, so each has one lock.        *)
OneEntry ==
    \A t, u \in Slots : itable[t].ref > 0 /\ itable[u].ref > 0 /\ t # u =>
        itable[t].inum # itable[u].inum \/ itable[t].inum = Outside

(* The assertions of the layer: iput() never waits for a lock under        *)
(* itable.lock, an inode found by name has a link, and only inodes with a  *)
(* reference are locked.  Two panics are left: "iget: no inodes", when all *)
(* the NINODE entries are in use; and "ilock: no type", but only after a   *)
(* process has looked ".." up in a directory that was removed.             *)
NoPanic ==
    \/ panic = "none"
    \/ panic = "iget: no inodes" /\ \A t \in Slots : itable[t].ref > 0
    \/ panic = "ilock: no type" /\ strayed

(* Every reference is some pointer of some process: iput() gives up the    *)
(* table lock, and then the inode's, before it gives up its reference.     *)
RefExact ==
    \A t \in Slots : itable[t].inum # Outside =>
        itable[t].ref =
            Cardinality({x \in Procs \X {"ip", "dp", "fd", "cwd"} : proc[x[1]][x[2]] = t})
            + Cardinality({x \in Procs \X {1, 2} :
                             x[2] \in DOMAIN proc[x[1]].puts /\ proc[x[1]].puts[x[2]] = t})

(* An entry that is valid, unlocked and in use agrees with the disk, also  *)
(* when its inode was freed and allocated again meanwhile.                 *)
Coherent ==
    \A t \in Slots :
        itable[t].ref > 0 /\ itable[t].valid /\ itable[t].lock = None =>
            LET d == dinode[itable[t].inum] IN
            itable[t].type = d.type /\ itable[t].nlink = d.nlink

(* The invariant of the inode table: it has its types, an inode has one    *)
(* entry, reference counts are exact, entries agree with the disk, and no  *)
(* assertion fails but those two.                                          *)
Inv == TypeOK /\ OneEntry /\ RefExact /\ Coherent /\ NoPanic

(* At any time, an entry of a directory that can still be reached names an *)
(* allocated inode.                                                        *)
NoDangling ==
    \A i \in Inums, n \in Names :
        dinode[i].ents[n] # 0 => dinode[dinode[i].ents[n]].type # "free"

(* An inode stays the same inode while a process has it open or as cwd.    *)
OpenStays ==
    [][\A p \in Procs, w \in {"fd", "cwd"} :
         LET t == proc[p][w] IN
         t # 0 /\ proc'[p][w] = t =>
            /\ itable'[t].inum = itable[t].inum
            /\ dinode'[itable[t].inum].type = dinode[itable[t].inum].type]_vars
=============================================================================
