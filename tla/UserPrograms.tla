---------------------------- MODULE UserPrograms ----------------------------
(***************************************************************************)
(* What init may start, and what must hold while it runs: the tests of     *)
(* usertests, and the shell with one command line, or with a command line  *)
(* that leaves its output in a file.                                       *)
(***************************************************************************)
EXTENDS UserTests, Shell

CONSTANTS Lines,     \* command lines, each run by a shell of its own
          Sessions,  \* [lines, file, result]: what the file holds in the end
          Tokens,    \* what may follow on a line that is only parsed,
          MaxTokens  \* and how much of it

Session(s) ==
    sh(s.lines) \o <<open("fd", <<s.file>>, RDONLY)>> \o read_all("fd", BIG)
    \o <<holds({s.result}), close("fd"), unlink(<<s.file>>), Exit("0")>>

AllPrograms ==
    {<<<<"test", t>>, runtests[t]>> : t \in DOMAIN runtests}
    \cup {<<<<"sh">> \o l, sh(<<l>>) \o <<Exit("0")>>>> : l \in Lines}
    \cup {<<<<"sh">> \o s.lines[1], Session(s)>> : s \in Sessions}

(* The command line of this program, if it is not a test.                  *)
IsTest == Head(prog[1]) = "test"
Line == Tail(prog[1])

-----------------------------------------------------------------------------
(* However the processes are interleaved, the output of every session is   *)
(* what the command line says, and every test passes (the printf()s before *)
(* exit(1) in usertests.c are not reached), with one exception: reparent   *)
(* and reparent2 leave orphans to init as fast as they can, and may fail   *)
(* once their fork() finds no slot because init has not reaped them yet.   *)
NoTestFails ==
    \/ verdict = "ok"
    \/ verdict = "starved" /\ prog[1] \in {<<"test", "reparent">>, <<"test", "reparent2">>}

(* Some process can always go on: no command line and no test leaves its   *)
(* processes waiting for each other, such as a reader for the end of a     *)
(* pipe that its own shell keeps open (sh.c closes both ends in parent and *)
(* children).                                                              *)
NeverStuck == \E p \in Procs : proc[p].st = "run" /\ ~Sleeps(p)

(* The recursive descent of sh.c accepts exactly the lines of the grammar, *)
(* each of which has one tree, and builds that tree: so for the line that  *)
(* the next shell will be given, and for that line with more tokens.       *)
ParsesGrammar ==
    ~IsTest /\ Children(initproc) = {} =>
        \A more \in BoundedSeq(Tokens, MaxTokens) :
            LET r == parsecmd(Line \o more) IN
            LineTrees(Line \o more) = IF r.ok THEN {r.cmd} ELSE {}

(* The wires of the line that the shell was given.                         *)
Wires ==
    LET r == parsecmd(Line) IN
    IF r.ok THEN Plumbing(r.cmd, <<"console">>, <<"console">>, <<>>) ELSE {}

OpenFile(p, fd) == file[proc[p].ofile[fd]]
Leads(p, fd, to) ==
    /\ proc[p].ofile[fd] # 0
    /\ CASE to = <<"console">> -> OpenFile(p, fd).type = "console"
         [] Head(to) = "pipe" -> /\ OpenFile(p, fd).type = "pipe"
                                 /\ IF fd = 0 THEN OpenFile(p, fd).rd ELSE OpenFile(p, fd).wr
         [] OTHER -> <<Head(to), OpenFile(p, fd).ip>> \in inode[ROOT].ents

(* The programs that a command line started can be matched with its        *)
(* commands: each reads from where its command says and writes to where it *)
(* says, at the right ends of pipes, holds no other end of one, and two    *)
(* share a pipe if their commands do: runcmd()'s close() and dup() get the *)
(* lowest free descriptors they count on.                                  *)
WiredAsWritten ==
    LET running == {p \in Procs : proc[p].st = "run" /\ proc[p].argv # <<>>} IN
    ~IsTest /\ running # {} => \A wires \in {Wires} :
         \E at \in [running -> wires] : \A p \in running :
            /\ at[p].argv = proc[p].argv /\ Leads(p, 0, at[p].in) /\ Leads(p, 1, at[p].out)
            /\ \A fd \in Fds \ {0, 1} : proc[p].ofile[fd] # 0 => OpenFile(p, fd).type # "pipe"
            /\ \A q \in running : Head(at[p].out) = "pipe" =>
                  /\ (at[p].out = at[q].in) <=> (OpenFile(p, 1).pipe = OpenFile(q, 0).pipe)
                  /\ p # q => at[p] # at[q]
=============================================================================
