--------------------------- MODULE MCSyslogWriter ---------------------------
(* Events for TLC, with values of every shape that the code or a receiver    *)
(* treats differently.                                                       *)
EXTENDS SyslogWriter

Event(msg, src) ==
    [time |-> "time",
     extension |-> [key \in ToSet(Keys) |-> IF key = "msg" THEN msg ELSE src]]

Ordinary == Event(<<"a", "space", "src", "=", "a">>, <<"a">>)

Shapes ==
    {Event(<<>>, <<>>),
     Event(<<>>, <<"=">>),
     Event(<<"|">>, <<"CEF", "|">>),
     Event(<<"a", "|", "CEF">>, <<"a">>),
     Event(<<"a", "newline", "a">>, <<"a">>),
     Event(<<"a">>, <<"space", "a", "space">>),
     [Ordinary EXCEPT !.time = NoTime]}

\* A page of four events, for what becomes of one after the other, and each
\* shape by itself.
MCBatches == {<<Ordinary, Event(<<>>, <<"=">>), Ordinary, Event(<<>>, <<>>)>>}
               \cup {<<shape>> : shape \in Shapes}
=============================================================================
