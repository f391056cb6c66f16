------------------------------ MODULE MCInode -------------------------------
(* An instance of Inode for TLC.                                             *)
EXTENDS Inode, TLC

CONSTANTS p1, p2, a, b

TwoProcs == {p1, p2}

Call(call, path) == <<call, path, <<>>>>

(* p1 makes and removes a directory a and a file in it; p2 opens and links *)
(* the file, makes and removes a device, and may work inside a.            *)
MakeAndUse ==
    (p1 :> {Call("mkdir", <<a>>), Call("unlink", <<a>>),
            Call("create", <<a, b>>)}) @@
    (p2 :> {Call("open", <<a, b>>), Call("mknod", <<b>>), Call("unlink", <<b>>),
            Call("chdir", <<a>>), <<"link", <<a, b>>, <<b>>>>, <<"link", <<a>>, <<b>>>>})

(* p1 makes and removes a directory a, with a directory in it, where p2    *)
(* works and looks ".." up; p1 then may reuse the inodes.                  *)
RemovedCwd ==
    (p1 :> {Call("mkdir", <<a>>), Call("mkdir", <<a, b>>), Call("unlink", <<a, b>>),
            Call("unlink", <<a>>), Call("create", <<b>>)}) @@
    (p2 :> {Call("chdir", <<a, b>>), Call("open", <<DotDot>>)})

TwoLoads == {MakeAndUse, RemovedCwd}
=============================================================================
