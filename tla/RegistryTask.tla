---------------------------- MODULE RegistryTask ----------------------------
(***************************************************************************)
(* The registry task and the tasks that feed it (src/repl/runtime.rs), with*)
(* what the REPL, the remote peers and the operating system may do.        *)
(*                                                                         *)
(* One bounded FIFO channel, the inbox, carries the user's commands, the   *)
(* events of the read tasks and the connections handed over by the accept  *)
(* tasks.  The registry task takes one message at a time and runs its      *)
(* handler to the end; nothing else touches the registry, so a handler is  *)
(* one step.  Between the moment a task sends a message and the moment the *)
(* handler runs, any number of other messages may be handled.              *)
(***************************************************************************)
EXTENDS Registry

CONSTANTS
    Commands,   \* the commands the user may type
    InboxCap    \* capacity of the mpsc channel (1024 in main.rs)

ASSUME TaskAssumption ==
    /\ InboxCap \in Nat \ {0}
    /\ \A cmd \in Commands :
          \/ cmd.op = "OpenTcpServer" /\ cmd.port \in TcpPorts
          \/ cmd.op = "OpenIpcServer" /\ cmd.path \in IpcPaths
          \/ cmd.op = "OpenTcpClient" /\ cmd.port \in TcpPorts
          \/ cmd.op = "Label" /\ cmd.name \in Labels
          \/ cmd.op \in {"OpenIpcClient", "Close", "Send", "Status"}

VARIABLES
    reg,         \* the registry, owned by the registry task
    inbox,       \* messages sent to the registry task and not yet taken
    regTask,     \* the registry task itself
    repl,        \* the REPL: reading, sending, waiting for a reply, or gone
    sigint,      \* main's signal handler: no signal yet, raised, passed on
    task,        \* for each connection, the task that holds its read side
    peerClosed,  \* the connections whose remote end is closed
    sockFiles,   \* what is at each socket path on disk
    announced    \* the ids that the screen shows as open

vars == <<reg, inbox, regTask, repl, sigint, task, peerClosed, sockFiles, announced>>
outside == <<sigint, peerClosed>>   \* what no handler of the registry changes

(***************************************************************************)
(* Where the read side of a connection is:                                 *)
(*   fresh     not established yet                                         *)
(*   accepted  with the accept task of its server, about to be sent        *)
(*   queued    in an Accepted message                                      *)
(*   reading   with its own read task, in the read loop                    *)
(*   failing   with its read task, which has sent Error but not yet Closed *)
(*   ended     nowhere: its task has ended                                 *)
(* "id" is the id its task reports events under.  A task that is aborted   *)
(* while it is being polled runs on until it next waits: "aborted" says    *)
(* so, and the task may still send what finds room in the inbox.           *)
(***************************************************************************)
NoTask == [pc |-> "fresh", id |-> None, aborted |-> FALSE]
Tasks ==
    {NoTask} \cup [pc : {"accepted", "queued"}, id : AcceptedIds, aborted : BOOLEAN]
      \cup [pc : {"reading", "failing", "ended"}, id : StreamIds, aborted : BOOLEAN]

Running(c) == task[c].pc \in {"reading", "failing"}

CommandMessage(cmd)    == [type |-> "Command", cmd |-> cmd]
EventMessage(kind, id) == [type |-> "Event", kind |-> kind, id |-> id]
AcceptedMessage(c, id) == [type |-> "Accepted", conn |-> c, child |-> id]
ShutdownMessage        == [type |-> "Shutdown"]

Messages ==
    {CommandMessage(cmd) : cmd \in Commands}
      \cup [type : {"Event"}, kind : {"Received", "Error", "Closed"}, id : ConnectionId]
      \cup [type : {"Accepted"}, conn : Conns, child : AcceptedIds]
      \cup {ShutdownMessage}

Init ==
    /\ reg = New
    /\ inbox = <<>>
    /\ regTask = "running"
    /\ repl = "prompt"
    /\ sigint = "none"
    /\ task = [c \in Conns |-> NoTask]
    /\ peerClosed = {}
    /\ sockFiles \in [IpcPaths -> {"absent", "stale"}]
    /\ announced = {}

-----------------------------------------------------------------------------
(***************************************************************************)
(* Senders.  A send waits while the inbox is full, and is lost on a closed *)
(* channel: what is sent once the registry task is gone is left out.       *)
(***************************************************************************)
Post(m) ==
    /\ regTask = "running"
    /\ Len(inbox) < InboxCap
    /\ inbox' = Append(inbox, m)

(***************************************************************************)
(* The REPL: a line is read, its command is sent, its reply is awaited.    *)
(* Which command it is matters when it is sent.  Once the registry task is *)
(* gone the reply is dropped, and the next send fails and ends the REPL.   *)
(***************************************************************************)
UserEnters ==
    /\ repl = "prompt"
    /\ repl' \in {"sending", "quitting"}
    /\ UNCHANGED <<reg, inbox, regTask, task, sockFiles, announced, outside>>

ReplSends ==
    /\ \/ /\ repl = "sending"
          /\ \E cmd \in Commands : Post(CommandMessage(cmd))
          /\ repl' = "waiting"
       \/ /\ repl = "quitting"
          /\ Post(ShutdownMessage)
          /\ repl' = "exited"
    /\ UNCHANGED <<reg, regTask, task, sockFiles, announced, outside>>

ReplNoticesEnd ==
    /\ regTask # "running"
    /\ \/ repl = "waiting" /\ repl' = "prompt"
       \/ repl \in {"sending", "quitting"} /\ repl' = "exited"
    /\ UNCHANGED <<reg, inbox, regTask, task, sockFiles, announced, outside>>

(***************************************************************************)
(* main's signal handler, which handles one signal.                        *)
(***************************************************************************)
CtrlC ==
    /\ regTask = "running"
    /\ sigint = "none"
    /\ sigint' = "raised"
    /\ UNCHANGED <<reg, inbox, regTask, repl, task, peerClosed, sockFiles, announced>>

\* try_send in the place of send().await.
MainTriesToSend ==
    /\ sigint = "raised"
    /\ Post(ShutdownMessage) \/ (Len(inbox) = InboxCap /\ UNCHANGED inbox)
    /\ sigint' = "sent"
    /\ UNCHANGED <<reg, regTask, repl, task, peerClosed, sockFiles, announced>>

MainSends ==
    /\ sigint = "raised"
    /\ Post(ShutdownMessage)
    /\ sigint' = "sent"
    /\ UNCHANGED <<reg, regTask, repl, task, peerClosed, sockFiles, announced>>

(***************************************************************************)
(* The accept task of a server holds one connection at a time; more peers  *)
(* wait in the kernel.  An accept error is reported under the server's id. *)
(***************************************************************************)
Accept(c, sid, key) ==
    /\ regTask = "running"
    /\ task[c].pc = "fresh"
    /\ sid \in DOMAIN reg.servers
    /\ \A d \in Conns : task[d].pc = "accepted" /\ ~task[d].aborted
                           => task[d].id.parent # sid
    /\ task' = [task EXCEPT ![c] = [pc |-> "accepted", id |-> BaseId(sid, key),
                                    aborted |-> FALSE]]
    /\ UNCHANGED <<reg, inbox, regTask, repl, sockFiles, announced, outside>>

AcceptSends(c) ==
    /\ task[c].pc = "accepted"
    /\ Post(AcceptedMessage(c, task[c].id))
    /\ task' = [task EXCEPT ![c].pc = "queued", ![c].aborted = FALSE]
    /\ UNCHANGED <<reg, regTask, repl, sockFiles, announced, outside>>

AcceptFails(sid) ==
    /\ sid \in DOMAIN reg.servers
    /\ Post(EventMessage("Error", sid))
    /\ UNCHANGED <<reg, regTask, repl, task, sockFiles, announced, outside>>

(***************************************************************************)
(* The read task of a connection.  A peer that closes before the task reads*)
(* is seen no earlier than one that closes just then.                      *)
(***************************************************************************)
PeerCloses(c) ==
    /\ regTask = "running"
    /\ task[c].pc = "reading"
    /\ peerClosed' = peerClosed \cup {c}
    /\ UNCHANGED <<reg, inbox, regTask, repl, sigint, task, sockFiles, announced>>

ReadData(c) ==
    /\ task[c].pc = "reading"
    /\ Post(EventMessage("Received", task[c].id))
    /\ UNCHANGED <<reg, regTask, repl, task, sockFiles, announced, outside>>

EofNotReported(c) ==
    /\ task[c].pc = "reading"
    /\ c \in peerClosed
    /\ task' = [task EXCEPT ![c].pc = "ended"]
    /\ UNCHANGED <<reg, inbox, regTask, repl, sockFiles, announced, outside>>

ReadEof(c) ==
    /\ task[c].pc = "reading"
    /\ c \in peerClosed
    /\ Post(EventMessage("Closed", task[c].id))
    /\ task' = [task EXCEPT ![c].pc = "ended"]
    /\ UNCHANGED <<reg, regTask, repl, sockFiles, announced, outside>>

ReadError(c) ==
    /\ task[c].pc = "reading"
    /\ Post(EventMessage("Error", task[c].id))
    /\ task' = [task EXCEPT ![c].pc = "failing"]
    /\ UNCHANGED <<reg, regTask, repl, sockFiles, announced, outside>>

ErrorWithoutClosed(c) ==
    /\ task[c].pc = "failing"
    /\ task' = [task EXCEPT ![c].pc = "ended"]
    /\ UNCHANGED <<reg, inbox, regTask, repl, sockFiles, announced, outside>>

ReadErrorCloses(c) ==
    /\ task[c].pc = "failing"
    /\ Post(EventMessage("Closed", task[c].id))
    /\ task' = [task EXCEPT ![c].pc = "ended"]
    /\ UNCHANGED <<reg, regTask, repl, sockFiles, announced, outside>>

\* An aborted task reaches a point where it waits.
AbortedEnds(c) ==
    /\ task[c].aborted
    /\ task[c].pc # "ended"
    /\ task' = [task EXCEPT ![c].pc = "ended"]
    /\ UNCHANGED <<reg, inbox, regTask, repl, sockFiles, announced, outside>>

-----------------------------------------------------------------------------
(***************************************************************************)
(* The registry task.                                                      *)
(***************************************************************************)
Message == Head(inbox)

Takes(type) ==
    /\ regTask = "running"
    /\ inbox # <<>>
    /\ Message.type = type

Handles(type) ==
    /\ Takes(type)
    /\ inbox' = Tail(inbox)
    /\ regTask' = regTask
    /\ UNCHANGED outside

Command == Message.cmd

ReplyForgotten(op) ==
    /\ Handles("Command")
    /\ Command.op = op
    /\ repl' = repl

Executes(op) ==
    /\ Handles("Command")
    /\ Command.op = op
    /\ repl' = "prompt"

Spawn(c, id) ==
    task' = [task EXCEPT ![c] = [pc |-> "reading", id |-> id, aborted |-> FALSE]]

\* A socket from outside: the OS gives port 0 a port of its own choice, and
\* any other port to one socket only.
PortFree(port) ==
    port = 0 \/ {TcpServerId(port), TcpClientId(port)} \cap Registered(reg) = {}

\* A listener is bound to the port on every address, a client's socket before
\* it connects; the peer of the client may refuse.
ListenerBinds(port) == PortFree(port)
ClientConnects(port, c) == PortFree(port) /\ task[c].pc = "fresh"

\* What is at the path is unlinked, then the socket file created; the second
\* may fail, and so may the first.
FileBound(path)   == sockFiles' = [sockFiles EXCEPT ![path] = "ours"]
BindFailed(path)  == sockFiles' \in {sockFiles, [sockFiles EXCEPT ![path] = "absent"]}

(***************************************************************************)
(* What goes with the handles that r2 no longer has: their tasks are       *)
(* aborted, those in "polled" in the middle of a poll, and the socket file *)
(* of an IPC server is removed.                                            *)
(***************************************************************************)
NotAborted(t, polled) == t

Aborted(t, polled) ==
    IF polled THEN [t EXCEPT !.aborted = TRUE] ELSE [t EXCEPT !.pc = "ended"]

FilesLeft(servers) == {}

RemovedFiles(servers) == {path \in IpcPaths : IpcServerId(path) \in servers}

Release(r2) ==
    LET streams == DOMAIN reg.streams \ DOMAIN r2.streams
        servers == DOMAIN reg.servers \ DOMAIN r2.servers
        Held(c) == \/ Running(c) /\ \E id \in streams : reg.streams[id].conn = c
                   \/ task[c].pc = "accepted" /\ task[c].id.parent \in servers
    IN  /\ reg' = r2
        /\ \E polled \in SUBSET {c \in Conns : Held(c)} :
              task' = [c \in Conns |-> IF Held(c) THEN Aborted(task[c], c \in polled)
                                                  ELSE task[c]]
        /\ sockFiles' = [path \in IpcPaths |->
              IF path \in RemovedFiles(servers) THEN "absent" ELSE sockFiles[path]]

(***************************************************************************)
(* Command handlers.  A handler that fails leaves the registry as it was,  *)
(* except that OpenIpcServer has unlinked what it found at the path and    *)
(* OpenIpcClient has used a sequence number.                               *)
(***************************************************************************)
Listen(id) ==
    /\ id \notin Registered(reg)
    /\ reg' = [reg EXCEPT !.servers = Put(@, id, NewServer)]
    /\ announced' = announced \cup {id}

OpenTcpServer ==
    /\ Executes("OpenTcpServer")
    /\ \/ ListenerBinds(Command.port) /\ Listen(TcpServerId(Command.port))
       \/ UNCHANGED <<reg, announced>>
    /\ UNCHANGED <<task, sockFiles>>

OpenIpcServer ==
    /\ Executes("OpenIpcServer")
    /\ LET path == Command.path
       IN  \/ /\ Listen(IpcServerId(path))
              /\ FileBound(path)
           \/ /\ IpcServerId(path) \notin DOMAIN reg.servers
              /\ BindFailed(path)
              /\ UNCHANGED <<reg, announced>>
           \/ /\ IpcServerId(path) \in DOMAIN reg.servers
              /\ UNCHANGED <<reg, announced, sockFiles>>
    /\ UNCHANGED task

ConnectedSilently(r, id, c) ==
    /\ task[c].pc = "fresh"
    /\ reg' = InsertStream(r, id, NewConnected(None, c))
    /\ Spawn(c, id)
    /\ announced' = announced

Connected(r, id, c) ==
    /\ task[c].pc = "fresh"
    /\ reg' = InsertStream(r, id, NewConnected(None, c))
    /\ Spawn(c, id)
    /\ announced' = announced \cup {id}

OpenTcpClient ==
    /\ Executes("OpenTcpClient")
    /\ LET id == TcpClientId(Command.port)
       IN  \/ /\ id \notin Registered(reg)
              /\ \E c \in Conns : ClientConnects(Command.port, c) /\ Connected(reg, id, c)
           \/ UNCHANGED <<reg, task, announced>>
    /\ UNCHANGED sockFiles

OpenIpcClient ==
    /\ Executes("OpenIpcClient")
    /\ LET next == AllocIpcClientSeq(reg)
       IN  \/ \E c \in Conns : Connected(next.reg, IpcClientId(next.seq), c)
           \/ reg' = next.reg /\ UNCHANGED <<task, announced>>
    /\ UNCHANGED sockFiles

Close ==
    /\ Executes("Close")
    /\ LET id == ResolveId(reg, Command.token)
       IN  \/ /\ id \in DOMAIN reg.servers
              /\ Release(DropServer(reg, id))
              /\ announced' = announced \ {id}
           \/ /\ id \in DOMAIN reg.streams \ DOMAIN reg.servers
              /\ Release(DropStream(reg, id))
              /\ announced' = announced \ {id}
           \/ /\ id \notin Registered(reg)
              /\ UNCHANGED <<reg, task, sockFiles, announced>>

Label ==
    /\ Executes("Label")
    /\ LET id == ResolveId(reg, Command.token)
       IN  reg' = IF id = None THEN reg ELSE ApplyLabel(reg, id, Command.name)
    /\ UNCHANGED <<task, sockFiles, announced>>

\* Send writes to the connections SendTargets names, Status reads.
SendOrStatus ==
    /\ Executes("Send") \/ Executes("Status")
    /\ UNCHANGED <<reg, task, sockFiles, announced>>

(***************************************************************************)
(* Event handlers.  Closed for an id that is not registered is ignored.    *)
(***************************************************************************)
OnReceivedOrError ==
    /\ Handles("Event")
    /\ Message.kind \in {"Received", "Error"}
    /\ UNCHANGED <<reg, repl, task, sockFiles, announced>>

OnClosed ==
    /\ Handles("Event")
    /\ Message.kind = "Closed"
    /\ \/ /\ Message.id \in DOMAIN reg.streams
          /\ Release(DropStream(reg, Message.id))
          /\ announced' = announced \ {Message.id}
       \/ /\ Message.id \notin DOMAIN reg.streams
          /\ UNCHANGED <<reg, task, sockFiles, announced>>
    /\ UNCHANGED repl

(***************************************************************************)
(* handle_accepted.  The allocation panics when the server is gone, which  *)
(* ends the registry task: its state is dropped, nothing is aborted and no *)
(* socket file is removed.                                                 *)
(***************************************************************************)
OnAccepted ==
    /\ Handles("Accepted")
    /\ LET c   == Message.conn
           sid == Message.child.parent
           key == Message.child.key
           new == AllocateAcceptedId(reg, sid, key)
           closedName == IF new.renamed THEN {BaseId(sid, key)} ELSE {}
           openName   == IF new.renamed THEN {AcceptedId(sid, key, 1)} ELSE {}
       IN  /\ sid \in DOMAIN reg.servers
           /\ reg' = InsertStream(new.reg, new.id, NewConnected(sid, c))
           /\ Spawn(c, new.id)
           /\ announced' = (announced \ closedName) \cup openName \cup {new.id}
    /\ UNCHANGED <<repl, sockFiles>>

OnAcceptedPanics ==
    /\ Takes("Accepted")
    /\ Message.child.parent \notin DOMAIN reg.servers
    /\ regTask' = "panicked"
    /\ reg' = New
    /\ inbox' = <<>>
    /\ UNCHANGED <<repl, task, sockFiles, announced, outside>>

OnShutdown ==
    /\ Takes("Shutdown")
    /\ regTask' = "stopped"
    /\ Release(Shutdown(reg))
    /\ inbox' = <<>>
    /\ UNCHANGED <<repl, announced, outside>>

RegistryStep ==
    \/ OpenTcpServer \/ OpenIpcServer \/ OpenTcpClient \/ OpenIpcClient
    \/ Close \/ Label \/ SendOrStatus
    \/ OnReceivedOrError \/ OnClosed
    \/ OnAccepted \/ OnAcceptedPanics \/ OnShutdown

-----------------------------------------------------------------------------
UserStep == UserEnters \/ ReplSends \/ ReplNoticesEnd \/ CtrlC \/ MainSends

AcceptStep ==
    \/ \E c \in Conns, sid \in DOMAIN reg.servers, key \in PeerKeys : Accept(c, sid, key)
    \/ \E c \in Conns : AcceptSends(c)
    \/ \E sid \in DOMAIN reg.servers : AcceptFails(sid)

ReadStep ==
    \E c \in Conns :
        \/ PeerCloses(c) \/ ReadData(c) \/ ReadEof(c)
        \/ ReadError(c) \/ ReadErrorCloses(c) \/ AbortedEnds(c)

\* Registry task and REPL are gone: the process exits.
Exited ==
    /\ regTask # "running"
    /\ repl = "exited"
    /\ UNCHANGED vars

Next == RegistryStep \/ UserStep \/ AcceptStep \/ ReadStep \/ Exited

Spec == Init /\ [][Next]_vars

(***************************************************************************)
(* The runtime polls every ready task again and again, and a channel gives *)
(* room to waiting senders in the order they came, so none is overtaken for*)
(* ever: one condition for each task that has to get its message through.  *)
(* Nothing makes peers send, close or fail, or users type, and nothing says*)
(* here that a handler ends: one that waits for a peer, or for room on the *)
(* way to the screen, may not (Console).                                   *)
(***************************************************************************)
Fairness ==
    /\ SF_vars(ReplSends \/ ReplNoticesEnd)
    /\ SF_vars(MainSends)
    /\ \A c \in Conns : SF_vars(ReadEof(c) \/ ReadErrorCloses(c))

FairSpec == Spec /\ Fairness
=============================================================================
