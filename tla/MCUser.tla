------------------------------- MODULE MCUser -------------------------------
EXTENDS UserPrograms

ShortLines == BoundedSeq({"cat", "f", "<", ">", "|", "&", ";", "(", ")"}, 3)
    \cup {<<"(", "cat", "|", "cat", ")", "&">>,
          <<"echo", "a", ">", "f", "&", ";", "cat", "f">>,
          <<"cat", "README", "|", "nosuch">>,
          <<"cd", "..">>}

To_f(line, result) == [lines |-> <<line>>, file |-> "f", result |-> result]
SomeSessions ==
    {To_f(<<"echo", "a", "|", "cat", "|", "cat", ">", "f">>, <<"a", "\n">>),
     To_f(<<"(", "echo", "a", ";", "echo", "b", ")", "|", "cat", ">", "f">>, <<"a", "\n", "b", "\n">>),
     To_f(<<"echo", "a", ">", "f", ";", "cat", "<", "f", "|", "cat", "+", "f">>, <<"a", "\n">>)}

Alphabet == {"a", "<", ">", "|", "&", ";", "(", ")"}
=============================================================================
