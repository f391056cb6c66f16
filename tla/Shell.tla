------------------------------- MODULE Shell --------------------------------
(***************************************************************************)
(* The shell, user/sh.c: the parser, from the tokens of a line to a tree   *)
(* of commands, and runcmd(), from the tree to system calls.  A line is a  *)
(* sequence of tokens: words, the symbols, and "+" for >>.                 *)
(***************************************************************************)
EXTENDS Syscalls

CONSTANT MAXARGS

symbols == {"<", "|", ">", "+", "&", ";", "(", ")"}
redirs == {"<", ">", "+"}

execcmd(argv) == [type |-> "EXEC", argv |-> argv]
redircmd(cmd, file_, mode, fd) == [type |-> "REDIR", cmd |-> cmd, file |-> file_, mode |-> mode, fd |-> fd]
pipecmd(l, r) == [type |-> "PIPE", left |-> l, right |-> r]
listcmd(l, r) == [type |-> "LIST", left |-> l, right |-> r]
backcmd(c) == [type |-> "BACK", cmd |-> c]

-----------------------------------------------------------------------------
(* A parsing function takes the tokens that are left and gives a command   *)
(* and the tokens after it, or panics.                                     *)
Parsed(cmd, s) == [ok |-> TRUE, cmd |-> cmd, s |-> s]
panic == [ok |-> FALSE, cmd |-> execcmd(<<>>), s |-> <<>>]

peek(s, toks) == s # <<>> /\ Head(s) \in toks
isword(s) == s # <<>> /\ Head(s) \notin symbols

redir(cmd, tok, q) ==
    CASE tok = "<" -> redircmd(cmd, q, {}, "0")
      [] tok = ">" -> redircmd(cmd, q, {"WRONLY", "CREATE", "TRUNC"}, "1")
      [] tok = "+" -> redircmd(cmd, q, {"WRONLY", "CREATE"}, "1")

RECURSIVE parseredirs(_, _)
parseredirs(cmd, s) ==
    IF ~peek(s, redirs) THEN Parsed(cmd, s)
    ELSE IF ~isword(Tail(s)) THEN panic
    ELSE parseredirs(redir(cmd, Head(s), s[2]), Tail(Tail(s)))

(* cmd->argv grows while redirections are put around cmd: so with argv in  *)
(* place of what is at the bottom of ret.                                  *)
RECURSIVE WithArgv(_, _)
WithArgv(ret, argv) ==
    IF ret.type = "REDIR" THEN [ret EXCEPT !.cmd = WithArgv(@, argv)] ELSE execcmd(argv)

RECURSIVE args(_, _)
args(r, argv) ==
    IF ~r.ok THEN panic
    ELSE IF r.s = <<>> \/ peek(r.s, {"|", ")", "&", ";"}) THEN Parsed(WithArgv(r.cmd, argv), r.s)
    ELSE IF ~isword(r.s) \/ Len(argv) + 1 >= MAXARGS THEN panic
    ELSE args(parseredirs(r.cmd, Tail(r.s)), Append(argv, Head(r.s)))

RECURSIVE parseline(_)

parseblock(s) ==
    LET r == parseline(Tail(s)) IN
    IF ~r.ok \/ ~peek(r.s, {")"}) THEN panic ELSE parseredirs(r.cmd, Tail(r.s))

parseexec(s) ==
    IF peek(s, {"("}) THEN parseblock(s) ELSE args(parseredirs(execcmd(<<>>), s), <<>>)

RECURSIVE parsepipe(_)
parsepipe(s) ==
    LET l == parseexec(s)
        r == parsepipe(Tail(l.s))
    IN IF ~l.ok \/ ~peek(l.s, {"|"}) THEN l
       ELSE IF ~r.ok THEN panic ELSE Parsed(pipecmd(l.cmd, r.cmd), r.s)

(* while(peek(ps, es, "&")) cmd = backcmd(cmd); the mutant takes one &.    *)
backs_one(r) == IF peek(r.s, {"&"}) THEN Parsed(backcmd(r.cmd), Tail(r.s)) ELSE r
RECURSIVE backs(_)
backs(r) == IF peek(r.s, {"&"}) THEN backs(Parsed(backcmd(r.cmd), Tail(r.s))) ELSE r

parseline(s) ==
    LET l == backs(parsepipe(s))
        r == parseline(Tail(l.s))
    IN IF ~l.ok \/ ~peek(l.s, {";"}) THEN l
       ELSE IF ~r.ok THEN panic ELSE Parsed(listcmd(l.cmd, r.cmd), r.s)

parsecmd(s) ==
    LET r == parseline(s) IN IF r.s # <<>> THEN panic ELSE r

-----------------------------------------------------------------------------
(* What runs once the arguments are loaded: cat and echo, by their calls.  *)
cat(r) ==
    LET more == To("n", OrExit("read", <<r, 2, "">>)) IN
    <<more, Try("while", <<"n", <<OrExit("write", <<"1", <<"buf">>>>), more>>>>)>>

cat_file(name) == <<To("fd", OrExit("open", <<<<name>>, {}>>))>> \o cat("fd") \o <<Try("close", <<"fd">>)>>

echo(words) ==
    FlattenSeq([i \in DOMAIN words |-> <<Try("write", <<"1", <<words[i]>>>>),
                                         Try("write", <<"1", <<IF i < Len(words) THEN " " ELSE "\n">>>>)>>])

main(argv) ==
    (CASE argv[1] = "echo" -> echo(Tail(argv))
       [] argv = <<"cat">> -> cat("0")
       [] OTHER -> FlattenSeq([i \in 1 .. Len(argv) - 1 |-> cat_file(argv[i + 1])]))
    \o <<Exit("0")>>

(* The parent of a pipeline closes both ends; the mutant keeps one.        *)
close_pipe_one == <<Try("close", <<"p0">>)>>
close_pipe == <<Try("close", <<"p0">>), Try("close", <<"p1">>)>>

(* The left side of a pipe writes to it; the mutant forgets to close the   *)
(* descriptors that it has duplicated.                                     *)
left_end_keeps == <<Try("close", <<"1">>), Try("dup", <<"p1">>)>>
left_end == <<Try("close", <<"1">>), Try("dup", <<"p1">>), Try("close", <<"p0">>), Try("close", <<"p1">>)>>
right_end == <<Try("close", <<"0">>), Try("dup", <<"p0">>), Try("close", <<"p0">>), Try("close", <<"p1">>)>>

fork1(code) == OrExit("fork", <<code>>)
wait0 == Try("wait", <<"_">>)

RECURSIVE runcmd(_)
runcmd(cmd) ==
    CASE cmd.type = "EXEC" ->
             IF cmd.argv = <<>> THEN <<Exit("1")>>
             ELSE <<Try("exec", <<<<cmd.argv[1]>>, main(cmd.argv), cmd.argv>>), Exit("0")>>
      [] cmd.type = "REDIR" ->
             <<Try("close", <<cmd.fd>>), OrExit("open", <<<<cmd.file>>, cmd.mode>>)>> \o runcmd(cmd.cmd)
      [] cmd.type = "LIST" ->
             <<fork1(runcmd(cmd.left)), wait0>> \o runcmd(cmd.right)
      [] cmd.type = "PIPE" ->
             <<OrExit("pipe", <<>>), fork1(left_end \o runcmd(cmd.left)), fork1(right_end \o runcmd(cmd.right))>>
             \o close_pipe \o <<wait0, wait0, Exit("0")>>
      [] cmd.type = "BACK" ->
             <<fork1(runcmd(cmd.cmd)), Exit("0")>>

(* One line of main()'s loop: cd in the shell itself, anything else in a   *)
(* child that parses and runs it.                                          *)
Command(line) ==
    LET r == parsecmd(line) IN
    IF Len(line) > 1 /\ line[1] = "cd" THEN <<Try("chdir", <<Tail(line)>>)>>
    ELSE <<fork1(IF r.ok THEN runcmd(r.cmd) ELSE <<Exit("1")>>), wait0>>

(* main() makes sure of descriptors 0, 1 and 2, and reads lines until end  *)
(* of file.                                                                *)
sh(lines) ==
    <<To("fd", Try("open", <<<<"console">>, {"RDWR"}>>)), Try("close", <<"fd">>)>>
    \o FlattenSeq([i \in DOMAIN lines |-> Command(lines[i])])

-----------------------------------------------------------------------------
(* The grammar of a line, without an order of reading: the set of trees    *)
(* that the tokens s can stand for.                                        *)
Before(s, i) == SubSeq(s, 1, i - 1)
After(s, i) == SubSeq(s, i + 1, Len(s))

(* Words and redirections only, each redirection with its file.            *)
IsSimple(s) ==
    \A i \in DOMAIN s : s[i] \in symbols => s[i] \in redirs /\ i < Len(s) /\ isword(After(s, i))
Args(s) ==
    LET at == {i \in DOMAIN s : s[i] \notin symbols /\ (i > 1 => s[i - 1] \notin redirs)} IN
    [k \in 1 .. Cardinality(at) |-> s[SetToSortSeq(at, <)[k]]]
Redirected(cmd, s) ==
    LET at == SetToSortSeq({i \in DOMAIN s : s[i] \in redirs}, <) IN
    FoldLeft(LAMBDA c, i : redir(c, s[i], s[i + 1]), cmd, at)

RECURSIVE LineTrees(_)
ExecTrees(s) ==
    IF IsSimple(s) /\ Len(Args(s)) < MAXARGS THEN {Redirected(execcmd(Args(s)), s)}
    ELSE UNION {IF s[1] = "(" /\ s[i] = ")" /\ IsSimple(After(s, i)) /\ Args(After(s, i)) = <<>>
                THEN {Redirected(c, After(s, i)) : c \in LineTrees(Tail(Before(s, i)))}
                ELSE {} : i \in 2 .. Len(s)}

RECURSIVE PipeTrees(_)
PipeTrees(s) ==
    ExecTrees(s) \cup
    UNION {{pipecmd(l, r) : l \in ExecTrees(Before(s, i)), r \in PipeTrees(After(s, i))} :
              i \in {j \in DOMAIN s : s[j] = "|"}}

RECURSIVE BackTrees(_)
BackTrees(s) ==
    PipeTrees(s) \cup
    IF s # <<>> /\ Last(s) = "&" THEN {backcmd(c) : c \in BackTrees(Front(s))} ELSE {}

LineTrees(s) ==
    BackTrees(s) \cup
    UNION {{listcmd(l, r) : l \in BackTrees(Before(s, i)), r \in LineTrees(After(s, i))} :
              i \in {j \in DOMAIN s : s[j] = ";"}}

(* Where descriptors 0 and 1 of each program of a command lead, when those *)
(* of the command lead to in and out; at names the place in the tree.      *)
RECURSIVE Plumbing(_, _, _, _)
Plumbing(cmd, in, out, at) ==
    CASE cmd.type = "EXEC" -> IF cmd.argv = <<>> THEN {} ELSE {[argv |-> cmd.argv, in |-> in, out |-> out]}
      [] cmd.type = "REDIR" -> IF cmd.fd = "0" THEN Plumbing(cmd.cmd, <<cmd.file>>, out, at)
                               ELSE Plumbing(cmd.cmd, in, <<cmd.file>>, at)
      [] cmd.type = "LIST" -> Plumbing(cmd.left, in, out, at \o <<"l">>) \cup Plumbing(cmd.right, in, out, at \o <<"r">>)
      [] cmd.type = "PIPE" -> LET p == <<"pipe">> \o at IN
                              Plumbing(cmd.left, in, p, at \o <<"l">>) \cup Plumbing(cmd.right, p, out, at \o <<"r">>)
      [] cmd.type = "BACK" -> Plumbing(cmd.cmd, in, out, at)
=============================================================================
