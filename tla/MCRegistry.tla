----------------------------- MODULE MCRegistry -----------------------------
(***************************************************************************)
(* Instances of the registry task for TLC.  Each cfg takes one of the sets *)
(* of commands below; the ids of the collisions run need one server, those *)
(* of the ids run need every kind of id.                                   *)
(***************************************************************************)
EXTENDS RegistryProperties, TLC

OneWord  == {[shape |-> "word", name |-> "ssh"]}

Absolute == [shape |-> "path", name |-> "/s", absolute |-> TRUE]
OnePath  == {Absolute}

Close_(token)       == [op |-> "Close", token |-> token]
Send_(token)        == [op |-> "Send", token |-> token]
Label_(token, name) == [op |-> "Label", token |-> token, name |-> name]
TcpServer_(port)    == [op |-> "OpenTcpServer", port |-> port]
TcpClient_(port)    == [op |-> "OpenTcpClient", port |-> port]
IpcServer_(path)    == [op |-> "OpenIpcServer", path |-> path]
IpcClient_          == [op |-> "OpenIpcClient"]
Status_             == [op |-> "Status"]

\* One TCP server whose peers share a remote port.  The user opens and closes
\* it, closes its first connection, and labels the first or the second.
CollisionCommands ==
    LET accepted(n) == {Dotted(port, key, n) : port \in TcpPorts, key \in PeerKeys}
        servers     == {Number(port) : port \in TcpPorts}
    IN  {TcpServer_(port) : port \in TcpPorts}
          \cup {Close_(t) : t \in servers \cup accepted(NoSuffix)}
          \cup {Label_(t, name) : t \in accepted(NoSuffix) \cup accepted(2), name \in Labels}

\* The same on a server that stays open.
StayingOpen == {cmd \in CollisionCommands :
                  cmd.op # "Close" \/ cmd.token \notin {Number(port) : port \in TcpPorts}}

\* Every kind of server and client, and labels that move between them.
IdCommands ==
    LET tokens == {Number(port) : port \in TcpPorts} \cup IpcPaths
                    \cup {IpcSeq(n) : n \in 1..SeqMax} \cup Labels
    IN  {TcpServer_(port) : port \in TcpPorts} \cup {TcpClient_(port) : port \in TcpPorts}
          \cup {IpcServer_(path) : path \in IpcPaths} \cup {IpcClient_, Status_}
          \cup {Close_(t) : t \in tokens}
          \cup {Send_(name) : name \in Labels}
          \cup {Label_(t, name) : t \in tokens, name \in Labels}

Interchangeable == Permutations(Conns)
=============================================================================
