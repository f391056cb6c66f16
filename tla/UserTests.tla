----------------------------- MODULE UserTests ------------------------------
(***************************************************************************)
(* The tests of user/usertests.c that are about processes, pipes, names    *)
(* and files, as programs of Syscalls.  The counts of their loops are cut  *)
(* to the bounds below, and what printf() would say is left out.  What     *)
(* iref and iputtest try to provoke inside the kernel, lost references to  *)
(* inodes, is the subject of Inode; here they only see their results.      *)
(***************************************************************************)
EXTENDS Syscalls, TLC

CONSTANTS REPEAT,  \* how often a loop goes round
          ROUNDS,  \* how often reparent and reparent2 do, which leave orphans behind
          NCHILD,  \* how many children work at the same time
          SZ       \* how much a call writes

RDONLY == {}
RDWR == {"RDWR"}
WRONLY == {"WRONLY"}
CREATE == {"CREATE"}
TRUNC == {"TRUNC"}
BIG == MAXFILE + 1  \* room for any read

open(r, path, omode) == To(r, Ok("open", <<path, omode>>))
close(r) == Try("close", <<r>>)
close_open(path, omode) == <<To("fd", Try("open", <<path, omode>>)), close("fd")>>
write(r, data) == Is("write", <<r, data>>, Len(data))
read(r, n, got) == Is("read", <<r, n, "">>, got)
unlink(path) == Try("unlink", <<path>>)
fork(r, child) == To(r, Ok("fork", <<child>>))
wait(r) == Try("wait", <<r>>)
exited(r, n) == Is("check", <<r>>, n)
wait_pid(r) == I("wait", <<r>>, "_", "pid", 0)
spin == Try("spin", <<>>)

(* for(i = 0; i < n; i++) body(i)                                          *)
Loop(n, body(_)) == FlattenSeq([i \in 1 .. n |-> body(i - 1)])
Name(c, i) == <<c \o ToString(i)>>
Fill(c) == [k \in 1 .. SZ |-> c]
(* while((n = read(r, buf, k)) > 0), collecting what is read.              *)
read_all(r, k) ==
    LET more == To("n", Ok("read", <<r, k, "more">>)) IN
    <<more, Try("while", <<"n", <<more>>>>)>>
holds(strings) == Ok("buf", <<strings>>)

-----------------------------------------------------------------------------
truncate1 ==
    <<unlink(<<"truncfile">>),
      open("fd1", <<"truncfile">>, CREATE \cup WRONLY \cup TRUNC),
      write("fd1", <<"a", "b", "c", "d">>),
      close("fd1"),
      open("fd2", <<"truncfile">>, RDONLY),
      read("fd2", BIG, 4),
      open("fd1", <<"truncfile">>, WRONLY \cup TRUNC),
      open("fd3", <<"truncfile">>, RDONLY),
      read("fd3", BIG, 0),
      read("fd2", BIG, 0),
      write("fd1", <<"a", "b", "c", "d", "e", "f">>),
      read("fd3", BIG, 6),
      read("fd2", BIG, 2),
      unlink(<<"truncfile">>),
      close("fd1"), close("fd2"), close("fd3")>>

truncate2 ==
    <<unlink(<<"truncfile">>),
      open("fd1", <<"truncfile">>, CREATE \cup WRONLY \cup TRUNC),
      write("fd1", <<"a", "b", "c", "d">>),
      open("fd2", <<"truncfile">>, TRUNC \cup WRONLY),
      Fail("write", <<"fd1", <<"x">>>>),
      unlink(<<"truncfile">>),
      close("fd1"), close("fd2")>>

truncate3 ==
    LET child(i) == <<open("fd", <<"truncfile">>, WRONLY), write("fd", Fill("1") \o Fill("2")), close("fd"),
                      open("fd", <<"truncfile">>, RDONLY), Ok("read", <<"fd", BIG, "">>), close("fd")>>
        parent(i) == <<open("fd", <<"truncfile">>, CREATE \cup WRONLY \cup TRUNC),
                       write("fd", Fill("x")), close("fd")>>
    IN close_open(<<"truncfile">>, CREATE \cup TRUNC \cup WRONLY)
       \o <<fork("pid", Loop(REPEAT, child) \o <<Exit("0")>>)>>
       \o Loop(REPEAT + 1, parent)
       \o <<wait("st"), unlink(<<"truncfile">>), Exit("st")>>

RemoveFromInside ==
    <<Ok("mkdir", <<<<"iputdir">>>>), Ok("chdir", <<<<"iputdir">>>>), Ok("unlink", <<<<"..", "iputdir">>>>)>>

iputtest == RemoveFromInside \o <<Ok("chdir", <<<<"/">>>>)>>

exitiputtest == <<fork("pid", RemoveFromInside \o <<Exit("0")>>), wait("st"), Exit("st")>>

openiputtest ==
    <<Ok("mkdir", <<<<"oidir">>>>),
      fork("pid", <<Fail("open", <<<<"oidir">>, RDWR>>), Exit("0")>>),
      Ok("unlink", <<<<"oidir">>>>),
      wait("st"), Exit("st")>>

opentest == <<open("fd", <<"echo">>, RDONLY), close("fd"), Fail("open", <<<<"doesnotexist">>, RDONLY>>)>>

writetest ==
    LET body(i) == <<write("fd", Fill("a")), write("fd", Fill("b"))>> IN
    <<open("fd", <<"small">>, CREATE \cup RDWR)>> \o Loop(REPEAT, body)
    \o <<close("fd"), open("fd", <<"small">>, RDONLY), read("fd", REPEAT * SZ * 2, REPEAT * SZ * 2),
         close("fd"), Ok("unlink", <<<<"small">>>>)>>

writebig ==
    LET put(i) == <<write("fd", <<ToString(i)>>)>>
        get(i) == <<read("fd", 1, 1), holds({<<ToString(i)>>})>>
    IN <<open("fd", <<"big">>, CREATE \cup RDWR)>> \o Loop(MAXFILE, put)
       \o <<close("fd"), open("fd", <<"big">>, RDONLY)>> \o Loop(MAXFILE, get)
       \o <<read("fd", 1, 0), close("fd"), Ok("unlink", <<<<"big">>>>)>>

createtest ==
    LET make(i) == <<To("fd", Try("open", <<Name("a", i), CREATE \cup RDWR>>)), close("fd")>>
        drop(i) == <<unlink(Name("a", i))>>
    IN Loop(REPEAT, make) \o Loop(REPEAT, drop)

dirtest == <<Ok("mkdir", <<<<"dir0">>>>), Ok("chdir", <<<<"dir0">>>>), Ok("chdir", <<<<"..">>>>),
             Ok("unlink", <<<<"dir0">>>>)>>

exectest ==
    <<unlink(<<"echo-ok">>),
      fork("pid", <<close("1"), Is("open", <<<<"echo-ok">>, CREATE \cup WRONLY>>, 1),
                    Ok("exec", <<<<"echo">>, <<write("1", <<"O", "K">>), Exit("0")>>, <<"echo", "OK">>>>)>>),
      wait("st"), exited("st", 0),
      open("fd", <<"echo-ok">>, RDONLY), read("fd", 2, 2), unlink(<<"echo-ok">>),
      holds({<<"O", "K">>}), Exit("0")>>

pipe1 ==
    LET chunk(n) == [k \in 1 .. SZ |-> ToString(n * SZ + k)]
        put(n) == <<write("p1", chunk(n))>>
    IN <<Ok("pipe", <<>>),
         fork("pid", <<close("p0")>> \o Loop(REPEAT, put) \o <<Exit("0")>>),
         close("p1")>>
       \o read_all("p0", 2)
       \o <<holds({FlattenSeq([n \in 1 .. REPEAT |-> chunk(n - 1)])}), close("p0"), wait("st"), Exit("st")>>

killstatus ==
    LET body(i) == <<fork("pid1", <<spin>>), Try("kill", <<"pid1">>), wait("st"), exited("st", -1)>> IN
    Loop(REPEAT, body) \o <<Exit("0")>>

preempt ==
    <<fork("pid1", <<spin>>), fork("pid2", <<spin>>), Ok("pipe", <<>>),
      fork("pid", <<close("p0"), write("p1", <<"x">>), close("p1"), spin>>),
      close("p1"), read("p0", BIG, 1), close("p0"),
      Try("kill", <<"pid1">>), Try("kill", <<"pid2">>), Try("kill", <<"pid">>),
      wait("_"), wait("_"), wait("_")>>

exitwait ==
    LET r(i) == IF i = 0 THEN "0" ELSE "1"
        body(i) == <<fork("pid", <<Exit(r(i))>>), wait_pid("st"), exited("st", i)>>
    IN Loop(2, body)

reparent1 ==
    LET child == <<To("pid2", Try("fork", <<<<Exit("0")>>>>)),
                   Try("if", <<"pid2", <<Try("kill", <<"master_pid">>), Exit("1")>>>>), Exit("0")>>
        body(i) == <<fork("pid", child), wait_pid("_")>>
    IN <<To("master_pid", Try("getpid", <<>>))>> \o Loop(ROUNDS, body) \o <<Exit("0")>>

twochildren ==
    LET body(i) == <<fork("pid1", <<Exit("0")>>), fork("pid2", <<Exit("0")>>), wait("_"), wait("_")>> IN
    Loop(REPEAT, body)

forkfork ==
    LET grand(j) == <<fork("pid1", <<Exit("0")>>), wait("_")>>
        child(i) == <<fork("pid", Loop(REPEAT, grand) \o <<Exit("0")>>)>>
        reap(i) == <<wait("st"), exited("st", 0)>>
    IN Loop(2, child) \o Loop(2, reap)

reparent2 ==
    LET body(i) == <<fork("pid1", <<Try("fork", <<>>), Try("fork", <<>>), Exit("0")>>), wait("_")>> IN
    Loop(ROUNDS, body) \o <<Exit("0")>>

forktest ==
    LET try == To("pid", Try("fork", <<<<Exit("0")>>>>))
        reap == Ok("wait", <<"_">>)
    IN <<try, Ok("check", <<"pid">>),
         Try("while", <<"pid", <<Try("add", <<"n", 1>>), try>>>>),
         Try("while", <<"n", <<reap, Try("add", <<"n", -1>>)>>>>),
         Is("wait", <<"_">>, -1)>>

-----------------------------------------------------------------------------
sharedfd ==
    LET put(c) == [i \in 1 .. REPEAT |-> write("fd", Fill(c))]
        mixes == {FlattenSeq([i \in 1 .. 2 * REPEAT |-> Fill(f[i])]) :
                     f \in {g \in [1 .. 2 * REPEAT -> {"c", "p"}] :
                               Cardinality({i \in 1 .. 2 * REPEAT : g[i] = "c"}) = REPEAT}}
    IN <<unlink(<<"sharedfd">>),
         open("fd", <<"sharedfd">>, CREATE \cup RDWR),
         fork("pid", put("c") \o <<Exit("0")>>)>>
       \o put("p")
       \o <<wait("st"), exited("st", 0), close("fd"), open("fd", <<"sharedfd">>, RDONLY)>>
       \o read_all("fd", SZ)
       \o <<holds(mixes), close("fd"), unlink(<<"sharedfd">>), Exit("0")>>

fourfiles ==
    LET put(c) == [i \in 1 .. REPEAT |-> write("fd", Fill(c))]
        start(pi) == <<unlink(Name("f", pi)),
                       fork("pid", <<open("fd", Name("f", pi), CREATE \cup RDWR)>>
                                   \o put(ToString(pi)) \o <<Exit("0")>>)>>
        reap(pi) == <<wait("st"), exited("st", 0)>>
        look(i) == <<open("fd", Name("f", i), RDONLY)>> \o read_all("fd", BIG)
                   \o <<holds({[k \in 1 .. REPEAT * SZ |-> ToString(i)]}), close("fd"), unlink(Name("f", i))>>
    IN Loop(NCHILD, start) \o Loop(NCHILD, reap) \o Loop(NCHILD, look)

createdelete ==
    LET N == 2 * REPEAT
        letter == <<"p", "q", "r", "s", "t", "u">>
        work(pi, i) == <<open("fd", Name(letter[pi + 1], i), CREATE \cup RDWR), close("fd")>>
                       \o IF i > 0 /\ i % 2 = 0
                          THEN <<Ok("unlink", <<Name(letter[pi + 1], i \div 2)>>)>> ELSE <<>>
        start(pi) == <<fork("pid", Loop(N, LAMBDA i : work(pi, i)) \o <<Exit("0")>>)>>
        reap(pi) == <<wait("st"), exited("st", 0)>>
        look(pi, i) == IF i = 0 \/ i >= N \div 2
                       THEN <<open("fd", Name(letter[pi + 1], i), RDONLY), close("fd")>>
                       ELSE <<Fail("open", <<Name(letter[pi + 1], i), RDONLY>>)>>
        drop(pi, i) == <<unlink(Name(letter[i + 1], i))>>
    IN Loop(NCHILD, start) \o Loop(NCHILD, reap)
       \o Loop(N, LAMBDA i : Loop(NCHILD, LAMBDA pi : look(pi, i)))
       \o Loop(N, LAMBDA i : Loop(NCHILD, LAMBDA pi : drop(pi, i)))

unlinkread ==
    LET hello == <<"h", "e", "l", "l", "o">>
        f == <<"unlinkread">>
    IN <<open("fd", f, CREATE \cup RDWR), write("fd", hello), close("fd"),
         open("fd", f, RDWR), Ok("unlink", <<f>>),
         open("fd1", f, CREATE \cup RDWR), write("fd1", <<"y", "y", "y">>), close("fd1"),
         read("fd", BIG, Len(hello)), holds({hello}), write("fd", hello \o hello),
         close("fd"), unlink(f)>>

linktest ==
    LET hello == <<"h", "e", "l", "l", "o">> IN
    <<unlink(<<"lf1">>), unlink(<<"lf2">>),
      open("fd", <<"lf1">>, CREATE \cup RDWR), write("fd", hello), close("fd"),
      Ok("link", <<<<"lf1">>, <<"lf2">>>>), unlink(<<"lf1">>),
      Fail("open", <<<<"lf1">>, RDONLY>>),
      open("fd", <<"lf2">>, RDONLY), read("fd", BIG, Len(hello)), close("fd"),
      Fail("link", <<<<"lf2">>, <<"lf2">>>>),
      unlink(<<"lf2">>),
      Fail("link", <<<<"lf2">>, <<"lf1">>>>), Fail("link", <<<<".">>, <<"lf1">>>>)>>

(* Three files: the second is made by link() in parent and child, the      *)
(* others by open() in both.                                               *)
concreate ==
    LET N == 3
        make(i) == IF i % 3 = 1 THEN <<Try("link", <<Name("C", 0), Name("C", i)>>)>>
                   ELSE <<open("fd", Name("C", i), CREATE \cup RDWR), close("fd")>>
        round(i) == <<unlink(Name("C", i)), fork("pid", make(i) \o <<Exit("0")>>)>>
                    \o make(i) \o <<wait("st"), exited("st", 0)>>
        opens(i) == Loop(REPEAT, LAMBDA k : close_open(Name("C", i), RDONLY))
        drops(i) == Loop(REPEAT, LAMBDA k : <<unlink(Name("C", i))>>)
        clean(i) == <<fork("pid", (IF i % 3 = 0 THEN opens(i) ELSE drops(i)) \o <<Exit("0")>>)>>
                    \o (IF i % 3 = 1 THEN opens(i) ELSE drops(i)) \o <<wait("_")>>
    IN Loop(N, round) \o <<Is("ls", <<{"C0", "C1", "C2"}>>, N)>> \o Loop(N, clean)

(* Any sequence of the three operations, in parent and child.              *)
linkunlink ==
    LET some == Try("choose", <<close_open(<<"x">>, RDWR \cup CREATE),
                                <<Try("link", <<<<"cat">>, <<"x">>>>)>>,
                                <<unlink(<<"x">>)>>>>)
        work == [i \in 1 .. REPEAT |-> some]
    IN <<unlink(<<"x">>), fork("pid", work \o <<Exit("0")>>)>> \o work \o <<wait("_")>>

bigdir ==
    LET tie(i) == <<Ok("link", <<<<"bd">>, Name("x", i)>>)>>
        drop(i) == <<Ok("unlink", <<Name("x", i)>>)>>
    IN <<unlink(<<"bd">>), open("fd", <<"bd">>, CREATE), close("fd")>>
       \o Loop(REPEAT, tie) \o <<unlink(<<"bd">>)>> \o Loop(REPEAT, drop)

manywrites ==
    LET once(ci) == <<open("fd", Name("b", ci), CREATE \cup RDWR), write("fd", Fill("z")), close("fd")>>
        iter(ci) == Loop(ci + 1, LAMBDA i : once(ci)) \o <<unlink(Name("b", ci))>>
        child(ci) == <<fork("pid", <<unlink(Name("b", ci))>> \o Loop(REPEAT, LAMBDA k : iter(ci))
                                   \o <<unlink(Name("b", ci)), Exit("0")>>)>>
        reap(ci) == <<wait("st"), exited("st", 0)>>
    IN Loop(NCHILD, child) \o Loop(NCHILD, reap) \o <<Exit("0")>>

-----------------------------------------------------------------------------
subdir ==
    <<unlink(<<"ff">>),
      Ok("mkdir", <<<<"dd">>>>),
      open("fd", <<"dd", "ff">>, CREATE \cup RDWR), write("fd", <<"f", "f">>), close("fd"),
      Fail("unlink", <<<<"dd">>>>),
      Ok("mkdir", <<<<"/", "dd", "dd">>>>),
      open("fd", <<"dd", "dd", "ff">>, CREATE \cup RDWR), write("fd", <<"F", "F">>), close("fd"),
      open("fd", <<"dd", "dd", "..", "ff">>, RDONLY), read("fd", BIG, 2), holds({<<"f", "f">>}), close("fd"),
      Ok("link", <<<<"dd", "dd", "ff">>, <<"dd", "dd", "ffff">>>>),
      Ok("unlink", <<<<"dd", "dd", "ff">>>>),
      Fail("open", <<<<"dd", "dd", "ff">>, RDONLY>>),
      Ok("chdir", <<<<"dd">>>>),
      Ok("chdir", <<<<"dd", "..", "..", "dd">>>>),
      Ok("chdir", <<<<"dd", "..", "..", "..", "dd">>>>),
      Ok("chdir", <<<<".", "..">>>>),
      open("fd", <<"dd", "dd", "ffff">>, RDONLY), read("fd", BIG, 2), close("fd"),
      Fail("open", <<<<"dd", "dd", "ff">>, RDONLY>>),
      Fail("open", <<<<"dd", "ff", "ff">>, CREATE \cup RDWR>>),
      Fail("open", <<<<"dd", "xx", "ff">>, CREATE \cup RDWR>>),
      Fail("open", <<<<"dd">>, CREATE>>),
      Fail("open", <<<<"dd">>, RDWR>>),
      Fail("open", <<<<"dd">>, WRONLY>>),
      Fail("link", <<<<"dd", "ff", "ff">>, <<"dd", "dd", "xx">>>>),
      Fail("link", <<<<"dd", "xx", "ff">>, <<"dd", "dd", "xx">>>>),
      Fail("link", <<<<"dd", "ff">>, <<"dd", "dd", "ffff">>>>),
      Fail("mkdir", <<<<"dd", "ff", "ff">>>>),
      Fail("mkdir", <<<<"dd", "xx", "ff">>>>),
      Fail("mkdir", <<<<"dd", "dd", "ffff">>>>),
      Fail("unlink", <<<<"dd", "xx", "ff">>>>),
      Fail("unlink", <<<<"dd", "ff", "ff">>>>),
      Fail("chdir", <<<<"dd", "ff">>>>),
      Fail("chdir", <<<<"dd", "xx">>>>),
      Ok("unlink", <<<<"dd", "dd", "ffff">>>>),
      Ok("unlink", <<<<"dd", "ff">>>>),
      Fail("unlink", <<<<"dd">>>>),
      Ok("unlink", <<<<"dd", "dd">>>>),
      Ok("unlink", <<<<"dd">>>>)>>

bigfile ==
    LET f == <<"bigfile.dat">>
        chunk(i) == [k \in 1 .. 2 |-> ToString(i)]
        put(i) == <<write("fd", chunk(i))>>
        get(i) == <<read("fd", 1, 1), holds({<<ToString(i \div 2)>>})>>
    IN <<unlink(f), open("fd", f, CREATE \cup RDWR)>> \o Loop(REPEAT, put)
       \o <<close("fd"), open("fd", f, RDONLY)>> \o Loop(2 * REPEAT, get)
       \o <<read("fd", 1, 0), close("fd"), unlink(f)>>

fourteen ==
    LET d14 == "12345678901234"
        d15 == "123456789012345"
    IN <<Ok("mkdir", <<<<d14>>>>),
         Ok("mkdir", <<<<d14, d15>>>>),
         open("fd", <<d15, d15, d15>>, CREATE), close("fd"),
         open("fd", <<d14, d14, d14>>, RDONLY), close("fd"),
         Fail("mkdir", <<<<d14, d14>>>>),
         Fail("mkdir", <<<<d15, d14>>>>),
         unlink(<<d15, d14>>), unlink(<<d14, d14>>), unlink(<<d14, d14, d14>>),
         unlink(<<d15, d15, d15>>), unlink(<<d14, d15>>), unlink(<<d14>>)>>

rmdot ==
    <<Ok("mkdir", <<<<"dots">>>>), Ok("chdir", <<<<"dots">>>>),
      Fail("unlink", <<<<".">>>>), Fail("unlink", <<<<"..">>>>),
      Ok("chdir", <<<<"/">>>>),
      Fail("unlink", <<<<"dots", ".">>>>), Fail("unlink", <<<<"dots", "..">>>>),
      Ok("unlink", <<<<"dots">>>>)>>

dirfile ==
    <<open("fd", <<"dirfile">>, CREATE), close("fd"),
      Fail("chdir", <<<<"dirfile">>>>),
      Fail("open", <<<<"dirfile", "xx">>, RDONLY>>),
      Fail("open", <<<<"dirfile", "xx">>, CREATE>>),
      Fail("mkdir", <<<<"dirfile", "xx">>>>),
      Fail("unlink", <<<<"dirfile", "xx">>>>),
      Fail("link", <<<<"README">>, <<"dirfile", "xx">>>>),
      Ok("unlink", <<<<"dirfile">>>>),
      Fail("open", <<<<".">>, RDWR>>),
      open("fd", <<".">>, RDONLY), Fail("write", <<"fd", <<"x">>>>), close("fd")>>

iref ==
    LET down(i) == <<Ok("mkdir", <<<<"irefd">>>>), Ok("chdir", <<<<"irefd">>>>),
                     Try("mkdir", <<<<>>>>), Try("link", <<<<"README">>, <<>>>>)>>
                   \o close_open(<<>>, CREATE) \o close_open(<<"xx">>, CREATE) \o <<unlink(<<"xx">>)>>
        up(i) == <<Try("chdir", <<<<"..">>>>), unlink(<<"irefd">>)>>
    IN Loop(REPEAT, down) \o Loop(REPEAT, up) \o <<Try("chdir", <<<<"/">>>>)>>

-----------------------------------------------------------------------------
(* run(): each test in its own process, which must end with status 0.      *)
run(f) == <<fork("pid", f \o <<Exit("0")>>), wait("st"), exited("st", 0), Exit("0")>>

quicktests ==
    [truncate1 |-> truncate1, truncate2 |-> truncate2, truncate3 |-> truncate3, openiput |-> openiputtest,
     exitiput |-> exitiputtest, iput |-> iputtest, opentest |-> opentest, writetest |-> writetest,
     writebig |-> writebig, createtest |-> createtest, dirtest |-> dirtest, exectest |-> exectest,
     pipe1 |-> pipe1, killstatus |-> killstatus, preempt |-> preempt, exitwait |-> exitwait,
     reparent |-> reparent1, twochildren |-> twochildren, forkfork |-> forkfork, reparent2 |-> reparent2,
     sharedfd |-> sharedfd, fourfiles |-> fourfiles, createdelete |-> createdelete,
     unlinkread |-> unlinkread, linktest |-> linktest, concreate |-> concreate, linkunlink |-> linkunlink,
     subdir |-> subdir, bigfile |-> bigfile, fourteen |-> fourteen, rmdot |-> rmdot, dirfile |-> dirfile,
     iref |-> iref, forktest |-> forktest]

slowtests == [bigdir |-> bigdir, manywrites |-> manywrites]

(* runtests() of one test by its name.                                     *)
runtests ==
    LET tests == quicktests @@ slowtests IN [t \in DOMAIN tests |-> run(tests[t])]
=============================================================================
