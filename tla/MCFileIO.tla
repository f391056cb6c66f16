------------------------------ MODULE MCFileIO ------------------------------
(* An instance of FileIO for TLC.                                          *)
EXTENDS FileIO

p1 == 1
p2 == 2

(* p1 writes a file and shares it with its child, which may also truncate  *)
(* it and read it through an open file of its own.                         *)
OneFile == {<<p1, 1, "w", TRUE, FALSE>>, <<p2, 1, "r", TRUE, TRUE>>}
=============================================================================
