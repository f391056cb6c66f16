----------------------------- MODULE MCConsole ------------------------------
(* An instance of Console for TLC.                                         *)
EXTENDS Console

CONSTANTS p1, p2

(* One process reads what is typed and edited, and may be killed; or two   *)
(* wait for the end of input; or two write while characters are echoed,    *)
(* and one of them also prints.                                            *)
InputAndOutput ==
    {[readers |-> {p1}, writers |-> {}, printers |-> {}, keys |-> {"x", "cr", "D", "U", "H", "nul"}],
     [readers |-> {p1, p2}, writers |-> {}, printers |-> {}, keys |-> {"D"}],
     [readers |-> {}, writers |-> {p1, p2}, printers |-> {p1}, keys |-> {"P"}]}
=============================================================================
