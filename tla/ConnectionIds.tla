--------------------------- MODULE ConnectionIds ---------------------------
(***************************************************************************)
(* Connection identifiers, the text they are displayed as, and the texts a *)
(* user may type to designate one (src/domain/id.rs and the token parser   *)
(* of src/domain/registry.rs).                                             *)
(*                                                                         *)
(* A text is modelled by what distinguishes it from other texts, a record  *)
(* whose "shape" says how the token parser reads it:                       *)
(*   number    3000                     dotted   3000.10015, 3000.10015#2  *)
(*   ipcseq    ipc:1                    pathdot  /tmp/s.41, /tmp/s.41#2    *)
(*   path      /tmp/s  or  s            word     anything else (a label)   *)
(* An IPC path is identified with its text, so an IPC server may be bound  *)
(* to a path that reads like the id of a connection of another server.     *)
(***************************************************************************)
EXTENDS Integers, Sequences

CONSTANTS
    TcpPorts,   \* local ports the user opens servers and clients on
    IpcPaths,   \* texts of the socket paths the user opens IPC servers on
    PeerKeys,   \* what tells peers of one server apart: remote port, or pid
    Labels,     \* texts the user gives as labels
    None        \* Rust's Option::None

(***************************************************************************)
(* Identifiers.  AcceptedTcp and AcceptedIpc are one kind here: the kind   *)
(* of "parent" tells them apart, "key" is the remote port or the pid.      *)
(***************************************************************************)
NoSuffix == 0   \* disambig = None; Some(n) is n, and n starts at 1

TcpServerId(p)          == [kind |-> "TcpServer", at |-> p]
IpcServerId(path)       == [kind |-> "IpcServer", at |-> path]
TcpClientId(p)          == [kind |-> "TcpClient", at |-> p]
IpcClientId(seq)        == [kind |-> "IpcClient", at |-> seq]
AcceptedId(sid, key, n) ==
    [kind |-> "Accepted", parent |-> sid, key |-> key, disambig |-> n]

TcpServerIds == [kind : {"TcpServer"}, at : TcpPorts]
IpcServerIds == [kind : {"IpcServer"}, at : IpcPaths]
ServerIds    == TcpServerIds \cup IpcServerIds
ClientIds    == [kind : {"TcpClient"}, at : TcpPorts]
                  \cup [kind : {"IpcClient"}, at : Nat]
AcceptedIds  == [kind : {"Accepted"}, parent : ServerIds,
                 key : PeerKeys, disambig : Nat]
StreamIds    == ClientIds \cup AcceptedIds
ConnectionId == StreamIds \cup ServerIds

ASSUME PortAssumption == TcpPorts \subseteq 0..65535
ASSUME NoneAssumption == None \notin Labels \cup ConnectionId

IsServer(id) == id.kind \in {"TcpServer", "IpcServer"}

\* The id a connection of peer key has while no other one shares that key.
BaseId(sid, key) == AcceptedId(sid, key, NoSuffix)

(***************************************************************************)
(* The text of an id (impl Display).                                       *)
(***************************************************************************)
Number(p)  == [shape |-> "number", port |-> p]
IpcSeq(n)  == [shape |-> "ipcseq", seq |-> n]
Dotted(p, key, n) == [shape |-> "dotted", port |-> p, key |-> key, suffix |-> n]
PathDot(path, key, n) ==
    [shape |-> "pathdot", path |-> path, key |-> key, suffix |-> n,
     absolute |-> path.absolute]

Render(id) ==
    CASE id.kind \in {"TcpServer", "TcpClient"} -> Number(id.at)
      [] id.kind = "IpcServer" -> id.at
      [] id.kind = "IpcClient" -> IpcSeq(id.at)
      [] id.kind = "Accepted"  ->
            IF id.parent.kind = "TcpServer"
            THEN Dotted(id.parent.at, id.key, id.disambig)
            ELSE PathDot(id.parent.at, id.key, id.disambig)


AsTcpPort(token) == <<TcpServerId(token.port), TcpClientId(token.port)>>

AsIpcServer(token) == IF token.absolute THEN <<IpcServerId(token)>> ELSE <<>>

DefaultTokenParser(token) ==
    CASE token.shape = "ipcseq" -> <<IpcClientId(token.seq)>>
      [] token.shape = "number" -> AsTcpPort(token)
      [] token.shape = "dotted" ->
            <<AcceptedId(TcpServerId(token.port), token.key, token.suffix)>>
      [] token.shape = "path" -> AsIpcServer(token)
      [] token.shape = "pathdot" ->
            (IF token.absolute /\ token.suffix = NoSuffix
             THEN <<BaseId(IpcServerId(token.path), token.key)>> ELSE <<>>)
            \o AsIpcServer(token)
      [] OTHER -> <<>>
=============================================================================
