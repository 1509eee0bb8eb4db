--------------------------- MODULE MCCommandLine ---------------------------
(***************************************************************************)
(* The arguments and the lines to check CommandLine on.                    *)
(***************************************************************************)
EXTENDS CommandLineProperties

Args == {Help, Other, LogLevel("bad")} \cup {LogLevel(v) : v \in DOMAIN Levels}
MCArgLists == SeqOf(Args, 3)

Words ==
    {<<k>> : k \in {"open", "server", "client", "ipc", "close", "label", "status", "x"}}
    \cup {<<"8", "0">>, <<"0", "8">>, <<"+", "8">>, <<"f">>, <<"0", "A">>}
    \cup {<<"6", "5", "5", "3", "5">>, <<"6", "5", "5", "3", "6">>}

\* Words of one digit and of two, and one that is no payload.
Digits == {<<"f">>, <<"0", "A">>, <<"8", "0">>, <<"x">>}

Remotes == SeqOf({"[", "]", ":", "h", "8"}, 5) \ {<<>>}

MCLines ==
    SeqOf(Words, 3)
    \cup {<<<<"open">>, v>> \o w : v \in {<<"ipc">>, <<"client">>}, w \in TupleOf(Words, 2)}
    \cup {<<<<"x">>, u, v, w>> : u, v, w \in Digits}
    \cup {<<<<"open">>, <<"client">>, <<"8", "0">>, w>> : w \in Remotes}
=============================================================================
