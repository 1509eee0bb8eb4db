------------------------- MODULE RegistryProperties -------------------------
(***************************************************************************)
(* What the registry task promises.  The properties come in two groups:    *)
(* those the code keeps, and those that its documents state and that it    *)
(* breaks in the way the runs named in the README show.                    *)
(***************************************************************************)
EXTENDS RegistryTask

ParentOf(id) == IF id.kind = "Accepted" THEN id.parent ELSE None

\* The id a stream had before it got id: the one without suffix, or its own.
FormerId(id) ==
    IF id.kind = "Accepted" /\ id.disambig = 1 THEN BaseId(id.parent, id.key) ELSE id

(***************************************************************************)
(* The table that the registry promises, read off its maps.                *)
(***************************************************************************)
Table == INSTANCE ConnectionTable WITH
    servers <- DOMAIN reg.servers,
    streams <- [id \in DOMAIN reg.streams |-> reg.streams[id].conn],
    label   <- [id \in Registered(reg) |-> CurrentLabel(reg, id)],
    up      <- (regTask = "running")

(***************************************************************************)
(* Every variable holds a value of its type.                               *)
(***************************************************************************)
RegistryOK(r) ==
    /\ DOMAIN r = {"streams", "servers", "labels", "next_ipc_client_seq"}
    /\ IsMap(r.streams, StreamIds, StreamHandles)
    /\ IsMap(r.servers, ServerIds, ServerHandles)
    /\ IsMap(r.labels, Labels, ConnectionId)
    /\ r.next_ipc_client_seq \in 1..SeqMax

TypeOK ==
    /\ RegistryOK(reg)
    /\ inbox \in Seq(Messages)
    /\ regTask \in {"running", "stopped", "panicked"}
    /\ repl \in {"prompt", "sending", "quitting", "waiting", "exited"}
    /\ sigint \in {"none", "raised", "sent"}
    /\ task \in [Conns -> Tasks]
    /\ peerClosed \subseteq Conns
    /\ sockFiles \in [IpcPaths -> {"absent", "stale", "ours"}]
    /\ announced \subseteq ConnectionId

(***************************************************************************)
(* Streams and servers name each other: an accepted stream is among the    *)
(* children of the server in its id, which is registered as long as it is, *)
(* and a server has no child that is not a stream of its own.  The code    *)
(* keeps the two maps in step in insert_stream, drop_stream, drop_server   *)
(* and rename_accepted_tcp.                                                *)
(***************************************************************************)
ParentsKnowChildren(r) ==
    \A id \in DOMAIN r.streams :
        /\ r.streams[id].parent = ParentOf(id)
        /\ ParentOf(id) # None => /\ ParentOf(id) \in DOMAIN r.servers
                                  /\ id \in r.servers[ParentOf(id)].children

ChildrenKnowParents(r) ==
    \A sid \in DOMAIN r.servers : \A id \in r.servers[sid].children :
        id \in DOMAIN r.streams /\ id.parent = sid

FamilyConsistent == ParentsKnowChildren(reg) /\ ChildrenKnowParents(reg)

(***************************************************************************)
(* The suffix tables of a server (base_no_suffix, disambig_next) agree with*)
(* the streams: a key is in one table at most, a stream without suffix has *)
(* its key in the first, and a stream with a suffix got it from the second,*)
(* so a number that the table is to hand out next is free, #2 excepted.    *)
(***************************************************************************)
SuffixDiscipline ==
    \A sid \in DOMAIN reg.servers :
        LET srv == reg.servers[sid]
        IN  /\ \A key \in srv.base_no_suffix : srv.disambig_next[key] = 0
            /\ \A id \in srv.children :
                  IF id.disambig = NoSuffix
                  THEN id.key \in srv.base_no_suffix
                  ELSE \/ id.disambig < srv.disambig_next[id.key]
                       \/ id.disambig = 2 /\ srv.disambig_next[id.key] = 2

(***************************************************************************)
(* The label a handle shows is in the label map, where it still designates *)
(* the handle or the id it had before it was renamed, and no two handles   *)
(* show the same label (apply_label, drop_stream, drop_server).            *)
(***************************************************************************)
LabelsHeld ==
    /\ \A id \in Registered(reg) :
          LET name == CurrentLabel(reg, id)
          IN  name # None => /\ name \in DOMAIN reg.labels
                             /\ reg.labels[name] \in {id, FormerId(id)}
    /\ \A id1, id2 \in Registered(reg) :
          CurrentLabel(reg, id1) = CurrentLabel(reg, id2)
             => id1 = id2 \/ CurrentLabel(reg, id1) = None

(***************************************************************************)
(* A label is freed with the handle that shows it: whatever a step closes, *)
(* relabels or renames, a name of the label map that some handle showed    *)
(* before it, or that it added, is shown after it.  Only a step that puts  *)
(* another connection under the id of the handle that showed the name      *)
(* leaves it without a handle (drop_stream, drop_server, apply_label,      *)
(* insert_stream).                                                         *)
(***************************************************************************)
Shows(r, name) == \E id \in Registered(r) : CurrentLabel(r, id) = name

Replaced(r, r2, name) ==
    \E id \in DOMAIN r.streams \cap DOMAIN r2.streams :
        r.streams[id].label = name /\ r2.streams[id].conn # r.streams[id].conn

LabelsFreed ==
    [][ \A name \in DOMAIN reg'.labels :
            \/ Shows(reg', name)
            \/ name \in DOMAIN reg.labels /\ ~Shows(reg, name)
            \/ Replaced(reg, reg', name) ]_vars

(***************************************************************************)
(* The text of an id designates it: what the screen shows for a registered *)
(* connection, typed in a command, finds this connection and no other,     *)
(* unless a user has made a label of it.  A number is the text of a server *)
(* and of a client, and only the bind keeps the two from being there at    *)
(* once, which port 0 escapes.  Not read back are the suffix of an accepted*)
(* IPC connection and a path that does not start with '/' (Display,        *)
(* default_token_parser, resolve_id).                                      *)
(***************************************************************************)
NotReadBack(id) ==
    \/ id.kind \in {"TcpServer", "TcpClient"} /\ id.at = 0
    \/ id.kind = "IpcServer" /\ ~id.at.absolute
    \/ /\ id.kind = "Accepted" /\ id.parent.kind = "IpcServer"
       /\ id.disambig # NoSuffix \/ ~id.parent.at.absolute


(***************************************************************************)
(* A connection is registered under one id at most, by its own read task,  *)
(* which was not aborted and reports under that id or the one it had when  *)
(* it was spawned (spawn_stream, insert_stream).                           *)
(***************************************************************************)
HandlesOwnTheirReaders ==
    \A id \in DOMAIN reg.streams :
        LET c == reg.streams[id].conn
        IN  /\ task[c].pc \in {"reading", "failing", "ended"}
            /\ ~task[c].aborted
            /\ task[c].id \in {id, FormerId(id)}
            /\ \A other \in DOMAIN reg.streams : reg.streams[other].conn = c => other = id

(***************************************************************************)
(* No connection goes on being read once its handle is gone: its read task *)
(* was aborted with the handle, also when a whole server or the registry   *)
(* was torn down.  The exception is a handle under one of the ids that are *)
(* handed out twice, which the second holder replaces without an abort.    *)
(***************************************************************************)
NoReaderLeftBehind ==
    regTask # "panicked" =>
        \A c \in Conns :
            Running(c) /\ ~task[c].aborted /\ ~Table!HandedOutTwice(task[c].id)
                => \E id \in DOMAIN reg.streams :
                       reg.streams[id].conn = c /\ task[c].id \in {id, FormerId(id)}

(***************************************************************************)
(* The end of a connection is never lost: when its read task has ended and *)
(* it is still registered, the Closed event is on its way, unless the      *)
(* handle was renamed since.                                               *)
(***************************************************************************)
CloseOnItsWay ==
    \A id \in DOMAIN reg.streams :
        LET c == reg.streams[id].conn
        IN  task[c].pc = "ended" /\ task[c].id = id
              => \E i \in DOMAIN inbox : inbox[i] = EventMessage("Closed", id)

(***************************************************************************)
(* A socket file of WireDock's is on disk exactly while its server is      *)
(* registered; none is left when the registry task has stopped             *)
(* (OpenIpcServer, drop_server, shutdown).                                 *)
(***************************************************************************)
FilesMatchServers ==
    regTask # "panicked" =>
        \A path \in IpcPaths :
            sockFiles[path] = "ours" <=> IpcServerId(path) \in DOMAIN reg.servers

(***************************************************************************)
(* The screen shows as open every id the registry holds: whatever is       *)
(* registered was announced, under that id, and not said to be closed.     *)
(***************************************************************************)
RegisteredAreAnnounced == Registered(reg) \subseteq announced

(***************************************************************************)
(* Status lists every stream once, under CLIENTS or under its server, and  *)
(* a broadcast to a server reaches exactly the streams listed under it     *)
(* (render_status, send_bytes).                                            *)
(***************************************************************************)
BroadcastMatchesStatus ==
    LET listed == [sid \in DOMAIN reg.servers |-> StatusChildren(reg, sid)]
    IN  /\ DOMAIN reg.streams
              = StatusClients(reg) \cup UNION {listed[sid] : sid \in DOMAIN listed}
        /\ \A sid \in DOMAIN listed :
              /\ listed[sid] \cap StatusClients(reg) = {}
              /\ \A other \in DOMAIN listed \ {sid} : listed[sid] \cap listed[other] = {}
              /\ SendTargets(reg, sid) = listed[sid]

(***************************************************************************)
(* Every handler, with everything it does to the three maps, is one step of*)
(* the table or none: a connection enters under a free id or one that is   *)
(* handed out twice, a second one of its key makes the first #1 and leaves *)
(* its socket and label with it, a close takes one connection or one server*)
(* with its group, a label is shown by one entry, and nothing outlives the *)
(* registry task (handle_command, handle_accepted, on_closed_event).       *)
(***************************************************************************)
ImplementsTable == Table!Spec

(***************************************************************************)
(* What the user learned about an id stays true: a connection stays under  *)
(* its id until it is closed, or becomes #1 of its key, and an id passes to*)
(* another connection in a single step only if it is handed out twice      *)
(* (insert_stream, rename_accepted_tcp).                                   *)
(***************************************************************************)
IdsStayWithConnections ==
    [][/\ \A id \in DOMAIN reg.streams, id2 \in DOMAIN reg'.streams :
             reg'.streams[id2].conn = reg.streams[id].conn => id \in {id2, FormerId(id2)}
       /\ \A id \in DOMAIN reg.streams \cap DOMAIN reg'.streams :
             reg'.streams[id].conn = reg.streams[id].conn \/ Table!HandedOutTwice(id)]_vars

-----------------------------------------------------------------------------
(***************************************************************************)
(* The condition of what must happen in the end: no handler waits for ever,*)
(* so the registry task takes message after message.  The code does not    *)
(* guarantee it: HandlersFinish (ConsoleProperties) says on what it depends*)
(* and the runs frozen_console and stuck_broadcast show it fail.           *)
(***************************************************************************)
HandlersEnd == WF_vars(RegistryStep)

(***************************************************************************)
(* As long as handlers end, every command the user enters is answered, or  *)
(* the REPL is told that the registry task has ended, however full the     *)
(* inbox is and even if peers send and connect without end (spawn_repl,    *)
(* run_registry).                                                          *)
(***************************************************************************)
CommandsAnswered ==
    HandlersEnd => (repl \in {"sending", "waiting"} ~> repl \in {"prompt", "exited"})

(***************************************************************************)
(* As long as handlers end, a request to shut down, from the REPL or from  *)
(* the signal handler, ends the registry task, however full the inbox is   *)
(* when it is made and even if peers keep filling it (main, spawn_repl).   *)
(***************************************************************************)
ShutdownEnds ==
    HandlersEnd => ((sigint # "none" \/ repl = "quitting") ~> regTask # "running")

(***************************************************************************)
(* As long as handlers end, a connection whose peer has closed it does not *)
(* stay registered under the id that its read task reports, even if the    *)
(* other peers keep the inbox full (spawn_stream, on_closed_event).        *)
(***************************************************************************)
KnownAs(c, id) == id \in DOMAIN reg.streams /\ reg.streams[id].conn = c

PeerCloseSeen ==
    HandlersEnd =>
        \A c \in Conns :
            (c \in peerClosed /\ KnownAs(c, task[c].id))
               ~> ~KnownAs(c, task[c].id)

-----------------------------------------------------------------------------
(***************************************************************************)
(* What the documents and comments of the code say and the code does not   *)
(* keep.  Each is checked by a run that ends in a counterexample.          *)
(***************************************************************************)

(***************************************************************************)
(* Connections that share a remote port are told apart by their suffix     *)
(* (README "Identifier System"): the id of a registered connection is not  *)
(* given to another one.  The second and the third of a key both get #2.   *)
(***************************************************************************)
IdDesignatesOneConnection ==
    [][\A id \in DOMAIN reg.streams \cap DOMAIN reg'.streams :
          reg.streams[id].conn = reg'.streams[id].conn]_vars

(***************************************************************************)
(* The retro-rename updates "streams map key, children set, label map"     *)
(* (allocate_accepted_tcp_id): a label designates the handle that shows it.*)
(* The label map is not updated.                                           *)
(***************************************************************************)
LabelsDesignateHolders ==
    \A id \in Registered(reg) :
        CurrentLabel(reg, id) \in DOMAIN reg.labels
           => reg.labels[CurrentLabel(reg, id)] = id

(***************************************************************************)
(* "Apply a close event: ... remove the stream" (on_closed_event): once its*)
(* peer has closed, a connection is unregistered.  The read task of a      *)
(* renamed one reports the old id, which is ignored, although handlers end.*)
(***************************************************************************)
RegisteredConn(c) == \E id \in DOMAIN reg.streams : reg.streams[id].conn = c

PeerCloseUnregisters ==
    HandlersEnd =>
        \A c \in Conns : (c \in peerClosed /\ RegisteredConn(c)) ~> ~RegisteredConn(c)

(***************************************************************************)
(* "All network resources and IPC socket files are explicitly cleaned up"  *)
(* (README, "Clean Shutdown"): when the registry task has ended, it leaves *)
(* no socket file of its own on disk.  An Accepted message may wait behind *)
(* the command that closes its server; it then meets the expect "invariant:*)
(* parent server exists when allocating accepted id", and when the registry*)
(* task has panicked nobody removes the file of an IPC server.             *)
(***************************************************************************)
NoFileLeftBehind ==
    regTask # "running" => \A path \in IpcPaths : sockFiles[path] # "ours"
=============================================================================
