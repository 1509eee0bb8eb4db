----------------------------- MODULE NameProofs -----------------------------
(***************************************************************************)
(* What ids, suffixes and labels promise in every reachable registry.      *)
(***************************************************************************)
EXTENDS RegistryEffects

(***************************************************************************)
(* Steps that are not the registry task's leave the registry alone.        *)
(***************************************************************************)
LEMMA OtherSteps ==
  ASSUME [Next]_vars
  PROVE  RegistryStep \/ UNCHANGED <<reg, regTask, sockFiles, announced>>
<1>1. CASE UserStep
  BY <1>1 DEF UserStep, UserEnters, ReplSends, ReplNoticesEnd, CtrlC, MainSends
<1>2. CASE AcceptStep
  BY <1>2 DEF AcceptStep, Accept, AcceptSends, AcceptFails
<1>3. CASE ReadStep
  BY <1>3 DEF ReadStep, PeerCloses, ReadData, ReadEof, ReadError, ReadErrorCloses, AbortedEnds
<1>4. CASE UNCHANGED vars
  BY <1>4 DEF vars
<1> QED
  BY <1>1, <1>2, <1>3, <1>4 DEF Next, Exited

(***************************************************************************)
(* Types and families, together: what the proofs below start from.         *)
(***************************************************************************)
WellFormed == TypeOK /\ Family(reg)

LEMMA WellFormedAlways == Spec => []WellFormed
<1>1. TypeOK /\ FamilyConsistent => WellFormed
  BY DEF WellFormed, Family, FamilyConsistent
<1> QED
  BY <1>1, TypeCorrect, FamilyTheorem, PTL

LEMMA NewMaps ==
  /\ DOMAIN New.streams = {} /\ DOMAIN New.servers = {} /\ DOMAIN New.labels = {}
  /\ New.next_ipc_client_seq = 1
  BY DEF New, EmptyMap

-----------------------------------------------------------------------------
(***************************************************************************)
(* What the screen says.                                                   *)
(***************************************************************************)
LEMMA RegistryStepAnnounced ==
  ASSUME WellFormed, RegisteredAreAnnounced, RegistryStep
  PROVE  RegisteredAreAnnounced'
<1> USE DEF RegisteredAreAnnounced, Registered
<1>1. CASE ChangesNothing
  BY <1>1 DEF ChangesNothing
<1>2. CASE UsesSequenceNumber
  <2>1. reg'.streams = reg.streams /\ reg'.servers = reg.servers
    BY <1>2, AllocIpcClientSeqOK DEF UsesSequenceNumber, WellFormed, TypeOK
  <2> QED
    BY <1>2, <2>1 DEF UsesSequenceNumber
<1>3. ASSUME NEW sid \in ServerIds, Registers(sid) PROVE RegisteredAreAnnounced'
  BY <1>3 DEF Registers, Listening
<1>4. ASSUME NEW id \in ClientIds, NEW c \in Conns, Connects(id, c)
      PROVE  RegisteredAreAnnounced'
  BY <1>4 DEF Connects, StreamPut, SameServers
<1>5. ASSUME NEW id, NEW ids, Closes(id, ids) PROVE RegisteredAreAnnounced'
  BY <1>5 DEF Closes, Left
<1>6. ASSUME NEW id, NEW name, Relabels(id, name) PROVE RegisteredAreAnnounced'
  BY <1>6 DEF Relabels, Relabelled
<1>7. ASSUME NEW c \in Conns, NEW sid \in ServerIds, NEW key \in PeerKeys, Accepts(c, sid, key)
      PROVE  RegisteredAreAnnounced'
  <2> DEFINE base  == BaseId(sid, key)
             first == AcceptedId(sid, key, 1)
             secnd == AcceptedId(sid, key, 2)
             later == AcceptedId(sid, key, reg.servers[sid].disambig_next[key])
             h     == NewConnected(sid, c)
  <2>1. CASE AcceptedFirst(reg, reg', sid, key, h) /\ announced' = announced \cup {base}
    BY <2>1 DEF AcceptedFirst, StreamPut, TablesSet
  <2>2. CASE /\ AcceptedSecond(reg, reg', sid, key, h)
             /\ announced' = (announced \ {base}) \cup {first, secnd}
    <3>1. DOMAIN reg'.servers = DOMAIN reg.servers
      BY <2>2 DEF AcceptedSecond, TablesSet
    <3>2. base \notin DOMAIN reg.servers
      <4>1. base.kind = "Accepted"
        BY DEF BaseId, AcceptedId
      <4>2. DOMAIN reg.servers \subseteq ServerIds
        BY KindsDisjoint DEF WellFormed, TypeOK
      <4> QED
        BY <4>1, <4>2 DEF ServerIds, TcpServerIds, IpcServerIds
    <3>3. /\ DOMAIN reg'.streams \subseteq (DOMAIN reg.streams \ {base}) \cup {first, secnd}
      BY <2>2 DEF AcceptedSecond, StreamPut
    <3> HIDE DEF base, first, secnd
    <3> QED
      BY <2>2, <3>1, <3>2, <3>3
  <2>3. CASE AcceptedLater(reg, reg', sid, key, h) /\ announced' = announced \cup {later}
    BY <2>3 DEF AcceptedLater, StreamPut, TablesSet
  <2> QED
    BY <1>7, <2>1, <2>2, <2>3 DEF Accepts
<1>8. CASE Panics
  BY <1>8, NewMaps DEF Panics, OnAcceptedPanics
<1>9. CASE Stops
  BY <1>9 DEF Stops, Left
<1> QED
  BY <1>1, <1>2, <1>3, <1>4, <1>5, <1>6, <1>7, <1>8, <1>9, StepKinds DEF WellFormed

(***************************************************************************)
(* The screen shows as open every id that is registered: every handler that*)
(* enters a connection or a server announces it under the id it enters     *)
(* under, the one that renames announces the new name, and none says of a  *)
(* registered id that it is closed (handle_command, handle_accepted,       *)
(* on_closed_event).                                                       *)
(***************************************************************************)
THEOREM AnnouncedTheorem == Spec => []RegisteredAreAnnounced
<1>1. Init => RegisteredAreAnnounced
  BY NewMaps DEF Init, RegisteredAreAnnounced, Registered
<1>2. WellFormed /\ RegisteredAreAnnounced /\ [Next]_vars => RegisteredAreAnnounced'
  BY OtherSteps, RegistryStepAnnounced DEF RegisteredAreAnnounced, Registered
<1> QED
  BY <1>1, <1>2, WellFormedAlways, PTL DEF Spec

-----------------------------------------------------------------------------
(***************************************************************************)
(* What Status lists and a broadcast reaches.  No handle is ever stored    *)
(* with another status than Connected, so a child of a server is writable. *)
(***************************************************************************)
AllConnected(r) == \A id \in DOMAIN r.streams : r.streams[id].status = "Connected"

LEMMA RegistryStepConnected ==
  ASSUME WellFormed, AllConnected(reg), RegistryStep
  PROVE  AllConnected(reg)'
<1> USE DEF AllConnected
<1>1. CASE ChangesNothing
  BY <1>1 DEF ChangesNothing
<1>2. CASE UsesSequenceNumber
  <2>1. reg'.streams = reg.streams
    BY <1>2, AllocIpcClientSeqOK DEF UsesSequenceNumber, WellFormed, TypeOK
  <2> QED
    BY <2>1
<1>3. ASSUME NEW sid \in ServerIds, Registers(sid) PROVE AllConnected(reg)'
  BY <1>3 DEF Registers, Listening
<1>4. ASSUME NEW id \in ClientIds, NEW c \in Conns, Connects(id, c)
      PROVE  AllConnected(reg)'
  BY <1>4 DEF Connects, StreamPut, NewConnected
<1>5. ASSUME NEW id, NEW ids, Closes(id, ids) PROVE AllConnected(reg)'
  BY <1>5 DEF Closes, Left
<1>6. ASSUME NEW id, NEW name, Relabels(id, name) PROVE AllConnected(reg)'
  BY <1>6 DEF Relabels, Relabelled
<1>7. ASSUME NEW c \in Conns, NEW sid \in ServerIds, NEW key \in PeerKeys, Accepts(c, sid, key)
      PROVE  AllConnected(reg)'
  <2> DEFINE h == NewConnected(sid, c)
  <2>1. h.status = "Connected"
    BY DEF NewConnected
  <2> HIDE DEF h
  <2>2. CASE AcceptedFirst(reg, reg', sid, key, h)
    BY <2>1, <2>2 DEF AcceptedFirst, StreamPut
  <2>3. CASE AcceptedSecond(reg, reg', sid, key, h)
    BY <2>1, <2>3 DEF AcceptedSecond, StreamPut
  <2>4. CASE AcceptedLater(reg, reg', sid, key, h)
    BY <2>1, <2>4 DEF AcceptedLater, StreamPut
  <2> QED
    BY <1>7, <2>2, <2>3, <2>4 DEF Accepts, h
<1>8. CASE Panics
  BY <1>8, NewMaps DEF Panics, OnAcceptedPanics
<1>9. CASE Stops
  BY <1>9 DEF Stops, Left
<1> QED
  BY <1>1, <1>2, <1>3, <1>4, <1>5, <1>6, <1>7, <1>8, <1>9, StepKinds DEF WellFormed

LEMMA ChildrenAreStreams ==
  ASSUME NEW r, RegistryOK(r), Family(r), NEW sid \in DOMAIN r.servers
  PROVE  r.servers[sid].children = {x \in DOMAIN r.streams : ParentOf(x) = sid}
<1>1. ASSUME NEW x \in r.servers[sid].children
      PROVE  x \in DOMAIN r.streams /\ ParentOf(x) = sid
  <2>1. x \in DOMAIN r.streams /\ x.parent = sid
    BY <1>1 DEF Family, ChildrenKnowParents
  <2>2. x \in AcceptedIds
    <3>1. IsMap(r.servers, ServerIds, ServerHandles)
      BY MapsOf
    <3>2. r.servers[sid] \in ServerHandles
      BY <3>1, EntryInRange
    <3> QED
      BY <1>1, <3>2 DEF ServerHandles
  <2> QED
    BY <2>1, <2>2, ParentOfId DEF StreamIds
<1>2. ASSUME NEW x \in DOMAIN r.streams, ParentOf(x) = sid
      PROVE  x \in r.servers[sid].children
  <2>1. sid # None
    BY NoneIsNoServer
  <2> QED
    BY <1>2, <2>1 DEF Family, ParentsKnowChildren
<1> QED
  BY <1>1, <1>2

LEMMA BroadcastHolds ==
  ASSUME WellFormed, AllConnected(reg)
  PROVE  BroadcastMatchesStatus
<1>0. RegistryOK(reg) /\ Family(reg)
  BY DEF WellFormed, TypeOK
<1>1. \A sid \in DOMAIN reg.servers :
         reg.servers[sid].children = {x \in DOMAIN reg.streams : ParentOf(x) = sid}
  BY <1>0, ChildrenAreStreams
<1>2. \A x \in DOMAIN reg.streams :
         /\ reg.streams[x].parent = ParentOf(x)
         /\ ParentOf(x) = None \/ ParentOf(x) \in DOMAIN reg.servers
  BY <1>0 DEF Family, ParentsKnowChildren
<1>3. None \notin DOMAIN reg.servers
  BY <1>0, NoneIsNoServer
<1> DEFINE listed == [sid \in DOMAIN reg.servers |-> StatusChildren(reg, sid)]
<1>4. \A sid \in DOMAIN reg.servers :
         listed[sid] = {x \in DOMAIN reg.streams : ParentOf(x) = sid}
  BY <1>1 DEF StatusChildren
<1>5. StatusClients(reg) = {x \in DOMAIN reg.streams : ParentOf(x) = None}
  BY <1>2 DEF StatusClients
<1>6. DOMAIN listed = DOMAIN reg.servers
  OBVIOUS
<1>7. \A sid \in DOMAIN reg.servers :
         SendTargets(reg, sid) = {x \in DOMAIN reg.streams : ParentOf(x) = sid}
  BY <1>1 DEF SendTargets, Writable, AllConnected
<1> HIDE DEF listed
<1>8. DOMAIN reg.streams
         = StatusClients(reg) \cup UNION {listed[sid] : sid \in DOMAIN listed}
  <2>1. \A x \in DOMAIN reg.streams :
           x \in StatusClients(reg) \/ \E sid \in DOMAIN reg.servers : x \in listed[sid]
    BY <1>2, <1>4, <1>5
  <2> QED
    BY <1>4, <1>5, <1>6, <2>1
<1>9. \A sid \in DOMAIN listed :
         /\ listed[sid] \cap StatusClients(reg) = {}
         /\ \A other \in DOMAIN listed \ {sid} : listed[sid] \cap listed[other] = {}
         /\ SendTargets(reg, sid) = listed[sid]
  <2> SUFFICES ASSUME NEW sid \in DOMAIN reg.servers
               PROVE  /\ listed[sid] \cap StatusClients(reg) = {}
                      /\ \A other \in DOMAIN reg.servers \ {sid} :
                            listed[sid] \cap listed[other] = {}
                      /\ SendTargets(reg, sid) = listed[sid]
    BY <1>6
  <2>1. listed[sid] \cap StatusClients(reg) = {}
    BY <1>3, <1>4, <1>5
  <2>2. \A other \in DOMAIN reg.servers \ {sid} : listed[sid] \cap listed[other] = {}
    BY <1>4
  <2>3. SendTargets(reg, sid) = listed[sid]
    BY <1>4, <1>7
  <2> QED
    BY <2>1, <2>2, <2>3
<1> QED
  BY <1>8, <1>9, Zenon DEF BroadcastMatchesStatus, listed

(***************************************************************************)
(* Status lists every stream exactly once, and a broadcast to a server     *)
(* reaches exactly the streams listed under it: the children sets that     *)
(* send_bytes and render_status read are always the streams of the server. *)
(***************************************************************************)
THEOREM BroadcastTheorem == Spec => []BroadcastMatchesStatus
<1>1. Init => AllConnected(reg)
  BY NewMaps DEF Init, AllConnected
<1>2. WellFormed /\ AllConnected(reg) /\ [Next]_vars => AllConnected(reg)'
  BY OtherSteps, RegistryStepConnected DEF AllConnected
<1>3. WellFormed /\ AllConnected(reg) => BroadcastMatchesStatus
  BY BroadcastHolds
<1> QED
  BY <1>1, <1>2, <1>3, WellFormedAlways, PTL DEF Spec

-----------------------------------------------------------------------------
(***************************************************************************)
(* The socket files.                                                       *)
(***************************************************************************)
LEMMA FilesReleased ==
  ASSUME FilesMatchServers, regTask # "panicked", NEW r2, Release(r2),
         DOMAIN r2.servers \subseteq DOMAIN reg.servers
  PROVE  FilesMatchServers'
  BY DEF FilesMatchServers, Release, RemovedFiles

LEMMA FilesKept ==
  ASSUME FilesMatchServers, sockFiles' = sockFiles, DOMAIN reg'.servers = DOMAIN reg.servers,
         regTask # "panicked"
  PROVE  FilesMatchServers'
  BY DEF FilesMatchServers

LEMMA RegistryStepFiles ==
  ASSUME WellFormed, FilesMatchServers, RegistryStep
  PROVE  FilesMatchServers'
<1>a. RegistryOK(reg) /\ sockFiles \in [IpcPaths -> {"absent", "stale", "ours"}]
  BY DEF WellFormed, TypeOK
<1>b. regTask # "panicked" /\ inbox \in Seq(Messages)
  BY DEF RegistryStep, OpenTcpServer, OpenIpcServer, OpenTcpClient, OpenIpcClient, Close, Label,
         SendOrStatus, OnReceivedOrError, OnClosed, OnAccepted, OnAcceptedPanics, OnShutdown,
         Executes, Handles, Takes, WellFormed, TypeOK
<1>c. ASSUME NEW id, Listen(id)
      PROVE  DOMAIN reg'.servers = DOMAIN reg.servers \cup {id}
  <2>1. reg'.servers = Put(reg.servers, id, NewServer)
    BY <1>a, <1>c DEF Listen, RegistryOK
  <2> QED
    BY <2>1 DEF Put
<1>d. ASSUME NEW r, RegistryOK(r), NEW id, NEW c, Connected(r, id, c)
      PROVE  DOMAIN reg'.servers = DOMAIN r.servers
  BY <1>d, InsertStreamEffect DEF Connected
<1>1. CASE OpenTcpServer
  <2>1. TcpServerId(Command.port).kind = "TcpServer"
        /\ \A path \in IpcPaths : IpcServerId(path).kind = "IpcServer"
    BY DEF TcpServerId, IpcServerId
  <2>2. \A path \in IpcPaths : IpcServerId(path) # TcpServerId(Command.port)
    BY <2>1
  <2>3. sockFiles' = sockFiles /\ (Listen(TcpServerId(Command.port)) \/ reg' = reg)
    BY <1>1 DEF OpenTcpServer
  <2>4. \A path \in IpcPaths :
           IpcServerId(path) \in DOMAIN reg'.servers <=> IpcServerId(path) \in DOMAIN reg.servers
    BY <1>c, <2>2, <2>3
  <2> QED
    BY <1>b, <2>3, <2>4 DEF FilesMatchServers
<1>2. CASE OpenIpcServer
  <2> DEFINE bound == Command.path
  <2>1. \A path \in IpcPaths : IpcServerId(path) = IpcServerId(bound) <=> path = bound
    BY DEF IpcServerId
  <2>2. CASE Listen(IpcServerId(bound)) /\ FileBound(bound)
    <3>1. \A path \in IpcPaths : sockFiles'[path] = IF path = bound THEN "ours" ELSE sockFiles[path]
      BY <1>a, <2>2 DEF FileBound
    <3> HIDE DEF bound
    <3> QED
      BY <1>b, <1>c, <2>1, <2>2, <3>1 DEF FilesMatchServers
  <2>3. CASE IpcServerId(bound) \notin DOMAIN reg.servers /\ BindFailed(bound) /\ reg' = reg
    <3>1. \A path \in IpcPaths : \/ sockFiles'[path] = sockFiles[path]
                                 \/ path = bound /\ sockFiles'[path] = "absent"
      BY <1>a, <2>3 DEF BindFailed
    <3> HIDE DEF bound
    <3> QED
      BY <1>b, <2>3, <3>1 DEF FilesMatchServers
  <2>4. CASE sockFiles' = sockFiles /\ reg' = reg
    BY <1>b, <2>4, FilesKept
  <2> QED
    BY <1>2, <2>2, <2>3, <2>4 DEF OpenIpcServer
<1>3. CASE OpenTcpClient
  <2>1. sockFiles' = sockFiles /\ DOMAIN reg'.servers = DOMAIN reg.servers
    BY <1>3, <1>a, <1>d DEF OpenTcpClient
  <2> QED
    BY <1>b, <2>1, FilesKept
<1>4. CASE OpenIpcClient
  <2> DEFINE next == AllocIpcClientSeq(reg)
  <2>1. RegistryOK(next.reg) /\ next.reg.servers = reg.servers
    BY <1>a, AllocIpcClientSeqOK
  <2>2. \/ \E c \in Conns : Connected(next.reg, IpcClientId(next.seq), c)
        \/ reg' = next.reg
    BY <1>4 DEF OpenIpcClient
  <2> HIDE DEF next
  <2>3. sockFiles' = sockFiles /\ DOMAIN reg'.servers = DOMAIN reg.servers
    BY <1>4, <1>d, <2>1, <2>2 DEF OpenIpcClient
  <2> QED
    BY <1>b, <2>3, FilesKept
<1>5. CASE Close \/ OnClosed
  <2>1. \/ \E id \in DOMAIN reg.servers : Release(DropServers(reg, {id}))
        \/ \E id : Release(DropStreams(reg, {id}))
        \/ reg' = reg /\ sockFiles' = sockFiles
    BY <1>5 DEF Close, OnClosed, DropServer, DropStream
  <2>2. ASSUME NEW ids PROVE DOMAIN DropStreams(reg, ids).servers = DOMAIN reg.servers
    BY <1>a, DropStreamsEffect
  <2>3. ASSUME NEW id \in DOMAIN reg.servers
        PROVE  DOMAIN DropServers(reg, {id}).servers \subseteq DOMAIN reg.servers
    <3> DEFINE ids == {x \in DOMAIN reg.streams : ParentOf(x) \in {id}}
    <3>0. ids = {x \in DOMAIN reg.streams : ParentOf(x) \in {id}}
      OBVIOUS
    <3> HIDE DEF ids
    <3>1. Left(reg, DropServers(reg, {id}), {id} \cup ids)
      BY <1>a, <3>0, DropServersLeaves DEF WellFormed
    <3> QED
      BY <3>1 DEF Left
  <2> QED
    BY <1>b, <2>1, <2>2, <2>3, FilesReleased, FilesKept
<1>6. CASE Label
  <2> DEFINE id == ResolveId(reg, Command.token)
  <2>1. Command.name \in Labels
    BY <1>6, CommandTyped, TaskAssumption DEF Label, WellFormed
  <2>2. reg' = reg \/ reg' = ApplyLabel(reg, id, Command.name)
    BY <1>6 DEF Label
  <2> HIDE DEF id
  <2>3. reg' = reg \/ /\ id \in Registered(reg) /\ ~LabelTaken(reg, id, Command.name)
                      /\ reg' = ApplyLabel(reg, id, Command.name)
    BY <2>2 DEF ApplyLabel
  <2>4. DOMAIN reg'.servers = DOMAIN reg.servers
    BY <1>a, <2>1, <2>3, ApplyLabelRelabels DEF Relabelled
  <2>5. sockFiles' = sockFiles
    BY <1>6 DEF Label
  <2> QED
    BY <1>b, <2>4, <2>5, FilesKept
<1>7. CASE SendOrStatus \/ OnReceivedOrError
  <2>1. sockFiles' = sockFiles /\ reg' = reg
    BY <1>7 DEF SendOrStatus, OnReceivedOrError
  <2> QED
    BY <1>b, <2>1, FilesKept
<1>8. CASE OnAccepted
  <2>1. PICK c \in Conns, sid \in ServerIds, key \in PeerKeys : Accepts(c, sid, key)
    BY <1>8, AcceptedAccepts DEF WellFormed
  <2>2. DOMAIN reg'.servers = DOMAIN reg.servers
    BY <2>1 DEF Accepts, AcceptedFirst, AcceptedSecond, AcceptedLater, TablesSet
  <2>3. sockFiles' = sockFiles
    BY <1>8 DEF OnAccepted
  <2> QED
    BY <1>b, <2>2, <2>3, FilesKept
<1>9. CASE OnAcceptedPanics
  BY <1>9 DEF OnAcceptedPanics, FilesMatchServers
<1>10. CASE OnShutdown
  <2>1. Left(reg, Shutdown(reg), Registered(reg))
    BY <1>a, ShutdownLeaves DEF WellFormed
  <2>2. DOMAIN Shutdown(reg).servers \subseteq DOMAIN reg.servers
    BY <2>1 DEF Left
  <2> QED
    BY <1>10, <1>b, <2>2, FilesReleased DEF OnShutdown
<1> QED
  BY <1>1, <1>2, <1>3, <1>4, <1>5, <1>6, <1>7, <1>8, <1>9, <1>10 DEF RegistryStep

(***************************************************************************)
(* A socket file of WireDock's is on disk exactly while its server is      *)
(* registered, whichever way the server goes and also when a bind fails    *)
(* half way; only a panic of the registry task leaves one behind           *)
(* (OpenIpcServer, drop_server, shutdown, remove_file_best_effort).        *)
(***************************************************************************)
THEOREM FilesTheorem == Spec => []FilesMatchServers
<1>1. Init => FilesMatchServers
  BY NewMaps DEF Init, FilesMatchServers
<1>2. WellFormed /\ FilesMatchServers /\ [Next]_vars => FilesMatchServers'
  BY OtherSteps, RegistryStepFiles DEF FilesMatchServers
<1> QED
  BY <1>1, <1>2, WellFormedAlways, PTL DEF Spec

-----------------------------------------------------------------------------
(***************************************************************************)
(* The suffix tables, said of the streams in the place of the children.    *)
(***************************************************************************)
Numbered(srv, key, n) ==
    IF n = NoSuffix
    THEN key \in srv.base_no_suffix
    ELSE n < srv.disambig_next[key] \/ (n = 2 /\ srv.disambig_next[key] = 2)

Suffixes(r) ==
    /\ \A sid \in DOMAIN r.servers : \A key \in r.servers[sid].base_no_suffix :
          r.servers[sid].disambig_next[key] = 0
    /\ \A id \in DOMAIN r.streams :
          id.kind = "Accepted" => Numbered(r.servers[id.parent], id.key, id.disambig)

LEMMA AcceptedStream ==
  ASSUME NEW r, RegistryOK(r), Family(r), NEW id \in DOMAIN r.streams, id.kind = "Accepted"
  PROVE  /\ id \in AcceptedIds /\ id.parent \in DOMAIN r.servers
         /\ id = AcceptedId(id.parent, id.key, id.disambig)
         /\ id.key \in PeerKeys /\ id.disambig \in Nat
<1>1. id \in AcceptedIds
  BY KindsDisjoint, ParentOfId
<1>2. id.parent \in DOMAIN r.servers
  <2>1. id \in StreamIds
    BY KindsDisjoint
  <2>2. ParentOf(id) = id.parent /\ id.parent \in ServerIds
    BY <1>1, <2>1, ParentOfId
  <2>3. None \notin ServerIds
    BY NoneAssumption DEF ConnectionId
  <2> QED
    BY <2>2, <2>3 DEF Family, ParentsKnowChildren
<1> QED
  BY <1>1, <1>2 DEF AcceptedIds, AcceptedId

LEMMA SuffixesSaid ==
  ASSUME WellFormed
  PROVE  Suffixes(reg) <=> SuffixDiscipline
<1>0. RegistryOK(reg) /\ Family(reg)
  BY DEF WellFormed, TypeOK
<1>1. \A sid \in DOMAIN reg.servers : \A id \in reg.servers[sid].children :
         id \in DOMAIN reg.streams /\ id.kind = "Accepted" /\ id.parent = sid
  <2> SUFFICES ASSUME NEW sid \in DOMAIN reg.servers, NEW id \in reg.servers[sid].children
               PROVE  id \in DOMAIN reg.streams /\ id.kind = "Accepted" /\ id.parent = sid
    OBVIOUS
  <2>1. id \in DOMAIN reg.streams /\ ParentOf(id) = sid
    BY <1>0, ChildrenAreStreams
  <2>2. sid # None
    BY <1>0, NoneIsNoServer
  <2> QED
    BY <2>1, <2>2 DEF ParentOf
<1>2. \A id \in DOMAIN reg.streams : id.kind = "Accepted" =>
         id.parent \in DOMAIN reg.servers /\ id \in reg.servers[id.parent].children
  <2> SUFFICES ASSUME NEW id \in DOMAIN reg.streams, id.kind = "Accepted"
               PROVE  id.parent \in DOMAIN reg.servers /\ id \in reg.servers[id.parent].children
    OBVIOUS
  <2>1. id.parent \in DOMAIN reg.servers /\ ParentOf(id) = id.parent
    BY <1>0, AcceptedStream DEF ParentOf
  <2> QED
    BY <1>0, <2>1, ChildrenAreStreams
<1> QED
  BY <1>1, <1>2 DEF Suffixes, SuffixDiscipline, Numbered

\* What leaves the streams and the tables as they were, or without some of them.
LEMMA SuffixesKept ==
  ASSUME NEW r, NEW r2, Suffixes(r), RegistryOK(r2), Family(r2),
         \A id \in DOMAIN r2.streams : id.kind = "Accepted" => id \in DOMAIN r.streams,
         \A s \in DOMAIN r2.servers :
            /\ s \in DOMAIN r.servers
            /\ r2.servers[s].base_no_suffix = r.servers[s].base_no_suffix
            /\ r2.servers[s].disambig_next = r.servers[s].disambig_next
  PROVE  Suffixes(r2)
<1>1. \A id \in DOMAIN r2.streams : id.kind = "Accepted" => id.parent \in DOMAIN r2.servers
  BY AcceptedStream
<1> QED
  BY <1>1 DEF Suffixes, Numbered

\* What a collision does to the numbers: the tables of one server change, and
\* the ids of its key that are registered afterwards agree with them.
LEMMA SuffixesSet ==
  ASSUME NEW r, RegistryOK(r), Family(r), Suffixes(r), NEW sid \in DOMAIN r.servers,
         NEW key \in PeerKeys, NEW r2, RegistryOK(r2), Family(r2),
         NEW base, NEW next, TablesSet(r, r2, sid, base, next),
         \A k \in base : next[k] = 0,
         \A k \in PeerKeys \ {key} :
            /\ k \in base <=> k \in r.servers[sid].base_no_suffix
            /\ next[k] = r.servers[sid].disambig_next[k],
         \A id \in DOMAIN r2.streams :
            id.kind = "Accepted" /\ ~(id.parent = sid /\ id.key = key) => id \in DOMAIN r.streams,
         \A n \in Nat : AcceptedId(sid, key, n) \in DOMAIN r2.streams =>
            IF n = NoSuffix THEN key \in base
                            ELSE n < next[key] \/ (n = 2 /\ next[key] = 2)
  PROVE  Suffixes(r2)
<1>1. ASSUME NEW s \in DOMAIN r2.servers, NEW k \in r2.servers[s].base_no_suffix
      PROVE  r2.servers[s].disambig_next[k] = 0
  BY <1>1 DEF Suffixes, TablesSet, SameServer
<1>2. ASSUME NEW id \in DOMAIN r2.streams, id.kind = "Accepted"
      PROVE  Numbered(r2.servers[id.parent], id.key, id.disambig)
  <2>1. /\ id = AcceptedId(id.parent, id.key, id.disambig)
        /\ id.key \in PeerKeys /\ id.disambig \in Nat /\ id.parent \in DOMAIN r2.servers
    BY <1>2, AcceptedStream
  <2>2. CASE id.parent = sid /\ id.key = key
    BY <2>1, <2>2 DEF Numbered, TablesSet
  <2>3. CASE ~(id.parent = sid /\ id.key = key)
    <3>1. Numbered(r.servers[id.parent], id.key, id.disambig)
      BY <1>2, <2>3 DEF Suffixes
    <3> QED
      BY <2>1, <2>3, <3>1 DEF Numbered, TablesSet, SameServer
  <2> QED
    BY <2>2, <2>3
<1> QED
  BY <1>1, <1>2 DEF Suffixes

\* The numbers of a key that are registered before the step.
LEMMA NumbersOf ==
  ASSUME NEW r, Suffixes(r), NEW sid \in ServerIds, NEW key \in PeerKeys, NEW n \in Nat,
         AcceptedId(sid, key, n) \in DOMAIN r.streams
  PROVE  Numbered(r.servers[sid], key, n)
  BY AcceptedIdTyped DEF Suffixes

LEMMA SuffixesAccepted ==
  ASSUME NEW r, RegistryOK(r), Family(r), Suffixes(r), NEW sid \in DOMAIN r.servers,
         NEW key \in PeerKeys, NEW h, NEW r2, RegistryOK(r2), Family(r2),
         \/ AcceptedFirst(r, r2, sid, key, h)
         \/ AcceptedSecond(r, r2, sid, key, h)
         \/ AcceptedLater(r, r2, sid, key, h)
  PROVE  Suffixes(r2)
<1> DEFINE srv  == r.servers[sid]
           next == srv.disambig_next
           base == srv.base_no_suffix
           Id(n) == AcceptedId(sid, key, n)
<1>1. sid \in ServerIds /\ base \subseteq PeerKeys /\ next \in [PeerKeys -> Nat]
  <2>1. IsMap(r.servers, ServerIds, ServerHandles)
    BY MapsOf
  <2>2. sid \in ServerIds /\ srv \in ServerHandles
    BY <2>1, EntryInRange
  <2> QED
    BY <2>2 DEF ServerHandles
<1>2. \A n \in Nat : Id(n) \in DOMAIN r.streams =>
         IF n = NoSuffix THEN key \in base ELSE n < next[key] \/ (n = 2 /\ next[key] = 2)
  BY <1>1, NumbersOf DEF Numbered
<1>3. \A n \in Nat : /\ Id(n).kind = "Accepted" /\ Id(n).parent = sid
                     /\ Id(n).key = key /\ Id(n).disambig = n
  BY <1>1, AcceptedIdTyped
<1>4. \A k \in base : next[k] = 0
  BY DEF Suffixes
<1> HIDE DEF next, base, Id
<1>5. CASE AcceptedFirst(r, r2, sid, key, h)
  <2>1. /\ key \notin base /\ next[key] = 0
        /\ DOMAIN r2.streams = DOMAIN r.streams \cup {Id(0)}
        /\ TablesSet(r, r2, sid, base \cup {key}, next)
    BY <1>5 DEF AcceptedFirst, FirstOfKey, StreamPut, BaseId, NoSuffix, base, next, Id
  <2> DEFINE base2 == base \cup {key}
  <2>2. /\ \A k \in base2 : next[k] = 0
        /\ \A k \in PeerKeys \ {key} : (k \in base2 <=> k \in base) /\ next[k] = next[k]
    BY <1>4, <2>1
  <2>3. \A id \in DOMAIN r2.streams :
           id.kind = "Accepted" /\ ~(id.parent = sid /\ id.key = key) => id \in DOMAIN r.streams
    BY <1>3, <2>1
  <2>4. \A n \in Nat : Id(n) \in DOMAIN r2.streams =>
           IF n = NoSuffix THEN key \in base2 ELSE n < next[key] \/ (n = 2 /\ next[key] = 2)
    BY <1>2, <1>3, <2>1 DEF NoSuffix
  <2> HIDE DEF base2
  <2> QED
    BY <2>1, <2>2, <2>3, <2>4, SuffixesSet DEF base2, base, next, Id
<1>6. CASE AcceptedSecond(r, r2, sid, key, h)
  <2> DEFINE base2 == base \ {key}
             next2 == [next EXCEPT ![key] = 2]
  <2>1. /\ key \in base
        /\ DOMAIN r2.streams \subseteq (DOMAIN r.streams \ {Id(0)}) \cup {Id(1), Id(2)}
        /\ TablesSet(r, r2, sid, base2, next2)
    BY <1>6 DEF AcceptedSecond, StreamPut, BaseId, NoSuffix, base, next, Id
  <2>2. next[key] = 0 /\ next2[key] = 2
    BY <1>1, <1>4, <2>1
  <2>3. /\ \A k \in base2 : next2[k] = 0
        /\ \A k \in PeerKeys \ {key} : (k \in base2 <=> k \in base) /\ next2[k] = next[k]
    BY <1>1, <1>4
  <2>4. \A id \in DOMAIN r2.streams :
           id.kind = "Accepted" /\ ~(id.parent = sid /\ id.key = key) => id \in DOMAIN r.streams
    BY <1>3, <2>1
  <2>5. \A n \in Nat : Id(n) \in DOMAIN r2.streams =>
           IF n = NoSuffix THEN key \in base2 ELSE n < next2[key] \/ (n = 2 /\ next2[key] = 2)
    BY <1>2, <1>3, <2>1, <2>2 DEF NoSuffix
  <2> HIDE DEF base2, next2
  <2> QED
    BY <2>1, <2>3, <2>4, <2>5, SuffixesSet DEF base, next, Id
<1>7. CASE AcceptedLater(r, r2, sid, key, h)
  <2> DEFINE next2 == [next EXCEPT ![key] = next[key] + 1]
  <2>1. /\ key \notin base /\ next[key] # 0
        /\ DOMAIN r2.streams = DOMAIN r.streams \cup {Id(next[key])}
        /\ TablesSet(r, r2, sid, base, next2)
    BY <1>7 DEF AcceptedLater, StreamPut, base, next, Id
  <2>2. next[key] \in Nat /\ next2[key] = next[key] + 1
    BY <1>1
  <2>3. /\ \A k \in base : next2[k] = 0
        /\ \A k \in PeerKeys \ {key} : next2[k] = next[k]
    BY <1>1, <1>4, <2>1
  <2>4. \A id \in DOMAIN r2.streams :
           id.kind = "Accepted" /\ ~(id.parent = sid /\ id.key = key) => id \in DOMAIN r.streams
    BY <1>3, <2>1, <2>2
  <2>5. \A n \in Nat : Id(n) \in DOMAIN r2.streams =>
           IF n = NoSuffix THEN key \in base ELSE n < next2[key] \/ (n = 2 /\ next2[key] = 2)
    BY <1>2, <1>3, <2>1, <2>2 DEF NoSuffix
  <2> HIDE DEF next2
  <2> QED
    BY <2>1, <2>3, <2>4, <2>5, SuffixesSet DEF base, next, Id
<1> QED
  BY <1>5, <1>6, <1>7

LEMMA RegistryStepSuffixes ==
  ASSUME WellFormed, WellFormed', Suffixes(reg), RegistryStep
  PROVE  Suffixes(reg)'
<1>a. RegistryOK(reg) /\ Family(reg) /\ RegistryOK(reg') /\ Family(reg')
  BY DEF WellFormed, TypeOK
<1>1. CASE ChangesNothing
  BY <1>1 DEF ChangesNothing
<1>2. CASE UsesSequenceNumber
  <2>1. reg'.streams = reg.streams /\ reg'.servers = reg.servers
    BY <1>a, <1>2, AllocIpcClientSeqOK DEF UsesSequenceNumber
  <2> QED
    BY <1>a, <2>1, SuffixesKept
<1>3. ASSUME NEW sid \in ServerIds, Registers(sid) PROVE Suffixes(reg')
  <2>1. /\ reg'.streams = reg.streams /\ DOMAIN reg'.servers = DOMAIN reg.servers \cup {sid}
        /\ \A s \in DOMAIN reg.servers : reg'.servers[s] = reg.servers[s]
        /\ reg'.servers[sid].base_no_suffix = {}
    BY <1>3 DEF Registers, Listening, NewServer
  <2>2. \A id \in DOMAIN reg.streams : id.kind = "Accepted" => id.parent \in DOMAIN reg.servers
    BY <1>a, AcceptedStream
  <2> QED
    BY <2>1, <2>2 DEF Suffixes, Numbered
<1>4. ASSUME NEW id \in ClientIds, NEW c \in Conns, Connects(id, c) PROVE Suffixes(reg')
  <2>1. id.kind # "Accepted"
    BY DEF ClientIds
  <2>2. /\ DOMAIN reg'.streams = DOMAIN reg.streams \cup {id}
        /\ SameServers(reg, reg')
    BY <1>4 DEF Connects, StreamPut
  <2> QED
    BY <1>a, <2>1, <2>2, SuffixesKept DEF SameServers, SameServer
<1>5. ASSUME NEW id, NEW ids, Closes(id, ids) PROVE Suffixes(reg')
  BY <1>a, <1>5, SuffixesKept DEF Closes, Left, SameServer
<1>6. ASSUME NEW id, NEW name, Relabels(id, name) PROVE Suffixes(reg')
  BY <1>a, <1>6, SuffixesKept DEF Relabels, Relabelled
<1>7. ASSUME NEW c \in Conns, NEW sid \in ServerIds, NEW key \in PeerKeys, Accepts(c, sid, key)
      PROVE  Suffixes(reg')
  BY <1>a, <1>7, SuffixesAccepted DEF Accepts
<1>8. CASE Panics
  BY <1>8, NewMaps DEF Panics, OnAcceptedPanics, Suffixes
<1>9. CASE Stops
  BY <1>a, <1>9, SuffixesKept DEF Stops, Left, SameServer
<1> QED
  BY <1>1, <1>2, <1>3, <1>4, <1>5, <1>6, <1>7, <1>8, <1>9, StepKinds DEF WellFormed

LEMMA SuffixesAlways == Spec => []Suffixes(reg)
<1>1. Init => Suffixes(reg)
  BY NewMaps DEF Init, Suffixes
<1>2. WellFormed /\ WellFormed' /\ Suffixes(reg) /\ [Next]_vars => Suffixes(reg)'
  BY OtherSteps, RegistryStepSuffixes DEF Suffixes
<1> QED
  BY <1>1, <1>2, WellFormedAlways, PTL DEF Spec

(***************************************************************************)
(* The tables behind the suffixes agree with the streams in every reachable*)
(* state: a stream without suffix has its key in base_no_suffix, no key is *)
(* in both tables, and the next number is above every number in use, except*)
(* that #2 may be handed out again (allocate_accepted_tcp_id,              *)
(* allocate_accepted_ipc_id).                                              *)
(***************************************************************************)
THEOREM SuffixTheorem == Spec => []SuffixDiscipline
<1>1. WellFormed /\ Suffixes(reg) => SuffixDiscipline
  BY SuffixesSaid
<1> QED
  BY <1>1, WellFormedAlways, SuffixesAlways, PTL

-----------------------------------------------------------------------------
(***************************************************************************)
(* Labels.                                                                 *)
(***************************************************************************)
LabelKept(r) ==
    \A id \in Registered(r) : CurrentLabel(r, id) # None =>
        /\ CurrentLabel(r, id) \in DOMAIN r.labels
        /\ r.labels[CurrentLabel(r, id)] \in {id, FormerId(id)}

LabelsDiffer(r) ==
    \A id1, id2 \in Registered(r) :
        CurrentLabel(r, id1) = CurrentLabel(r, id2)
           => id1 = id2 \/ CurrentLabel(r, id1) = None

LabelsWell(r) == LabelKept(r) /\ LabelsDiffer(r)

\* The first connection of a key is not registered under two ids.
LEMMA NeverBoth ==
  ASSUME NEW r, RegistryOK(r), Family(r), Suffixes(r), NEW id \in DOMAIN r.streams,
         FormerId(id) # id
  PROVE  FormerId(id) \notin DOMAIN r.streams
<1>1. id.kind = "Accepted" /\ id.disambig = 1 /\ FormerId(id) = BaseId(id.parent, id.key)
  BY DEF FormerId
<1>2. id.parent \in DOMAIN r.servers /\ id.key \in PeerKeys /\ id.parent \in ServerIds
  BY <1>1, AcceptedStream, KindsDisjoint
<1>3. Numbered(r.servers[id.parent], id.key, 1)
  BY <1>1 DEF Suffixes
<1>4. ASSUME BaseId(id.parent, id.key) \in DOMAIN r.streams PROVE FALSE
  <2>1. Numbered(r.servers[id.parent], id.key, 0)
    BY <1>2, <1>4, NumbersOf DEF BaseId, NoSuffix
  <2>2. r.servers[id.parent].disambig_next[id.key] = 0
    BY <1>2, <2>1 DEF Suffixes, Numbered, NoSuffix
  <2> QED
    BY <1>3, <2>2 DEF Numbered, NoSuffix
<1> QED
  BY <1>1, <1>4

\* Handles that stay as they are, while the label map keeps what they show and
\* the handles that enter show none.
LEMMA LabelsStay ==
  ASSUME NEW r, NEW r2, LabelsWell(r),
         \A x \in Registered(r2) :
            CurrentLabel(r2, x) # None =>
               /\ x \in Registered(r) /\ CurrentLabel(r2, x) = CurrentLabel(r, x)
               /\ CurrentLabel(r, x) \in DOMAIN r2.labels
               /\ r2.labels[CurrentLabel(r, x)] = r.labels[CurrentLabel(r, x)]
  PROVE  LabelsWell(r2)
  BY DEF LabelsWell, LabelKept, LabelsDiffer

LEMMA LabelsEntered ==
  ASSUME NEW r, RegistryOK(r), NEW r2, RegistryOK(r2), LabelsWell(r), NEW id, NEW parent, NEW c,
         StreamPut(r, r2, id, NewConnected(parent, c)),
         DOMAIN r2.servers = DOMAIN r.servers,
         \A s \in DOMAIN r.servers : r2.servers[s].label = r.servers[s].label,
         r2.labels = r.labels
  PROVE  LabelsWell(r2)
<1>1. \A x \in DOMAIN r2.streams :
         \/ r2.streams[x].label = None
         \/ x \in DOMAIN r.streams /\ r2.streams[x] = r.streams[x]
  BY DEF StreamPut, NewConnected
<1>2. \A x \in Registered(r2) : CurrentLabel(r2, x) # None =>
         x \in Registered(r) /\ CurrentLabel(r2, x) = CurrentLabel(r, x)
  BY <1>1, LabelOf DEF Registered
<1> QED
  BY <1>2, LabelsStay DEF LabelsWell, LabelKept

LEMMA LabelsLeft ==
  ASSUME NEW r, RegistryOK(r), NEW r2, RegistryOK(r2), LabelsWell(r), NEW ids, Left(r, r2, ids)
  PROVE  LabelsWell(r2)
<1>1. \A x \in Registered(r2) :
         x \in Registered(r) /\ x \notin ids /\ CurrentLabel(r2, x) = CurrentLabel(r, x)
  BY LabelOf DEF Registered, Left, SameServer
<1>2. ASSUME NEW x \in Registered(r2), CurrentLabel(r2, x) # None
      PROVE  /\ CurrentLabel(r, x) \in DOMAIN r2.labels
             /\ r2.labels[CurrentLabel(r, x)] = r.labels[CurrentLabel(r, x)]
  <2>1. /\ x \in Registered(r) /\ x \notin ids /\ CurrentLabel(r, x) # None
        /\ CurrentLabel(r, x) \in DOMAIN r.labels
    BY <1>1, <1>2 DEF LabelsWell, LabelKept
  <2>2. \A y \in ids \cap Registered(r) : CurrentLabel(r, y) # CurrentLabel(r, x)
    BY <2>1 DEF LabelsWell, LabelsDiffer
  <2> QED
    BY <2>1, <2>2 DEF Left
<1> QED
  BY <1>1, <1>2, LabelsStay

LEMMA LabelsRelabelled ==
  ASSUME NEW r, RegistryOK(r), Family(r), Suffixes(r), NEW r2, RegistryOK(r2), LabelsWell(r),
         NEW id \in Registered(r), NEW name \in Labels, ~LabelTaken(r, id, name),
         Relabelled(r, r2, id, name)
  PROVE  LabelsWell(r2)
<1>1. /\ Registered(r2) = Registered(r)
      /\ \A x \in Registered(r) :
            CurrentLabel(r2, x) = IF x = id THEN name ELSE CurrentLabel(r, x)
      /\ DOMAIN r2.labels = (DOMAIN r.labels \ {CurrentLabel(r, id)}) \cup {name}
      /\ r2.labels[name] = id
      /\ \A n \in DOMAIN r2.labels \ {name} : r2.labels[n] = r.labels[n]
  BY DEF Relabelled, Registered
<1>2. ASSUME NEW x \in Registered(r), x # id, CurrentLabel(r, x) # None
      PROVE  /\ CurrentLabel(r, x) # name
             /\ CurrentLabel(r, x) \in DOMAIN r2.labels
             /\ r2.labels[CurrentLabel(r, x)] \in {x, FormerId(x)}
  <2> DEFINE shown == CurrentLabel(r, x)
  <2>1. shown \in DOMAIN r.labels /\ r.labels[shown] \in {x, FormerId(x)}
    BY <1>2 DEF LabelsWell, LabelKept
  <2>2. shown # CurrentLabel(r, id)
    BY <1>2 DEF LabelsWell, LabelsDiffer
  <2>3. shown # name
    <3> SUFFICES ASSUME shown = name PROVE FALSE
      OBVIOUS
    <3>1. r.labels[name] = id
      BY <2>1 DEF LabelTaken
    <3>2. FormerId(x) = id /\ FormerId(x) # x
      BY <1>2, <2>1, <3>1
    <3>3. x.kind = "Accepted" /\ FormerId(x) = BaseId(x.parent, x.key)
      BY <3>2 DEF FormerId
    <3>4. \A s \in DOMAIN r.servers : s.kind # "Accepted"
      BY KindsDisjoint DEF ServerIds, TcpServerIds, IpcServerIds
    <3>5. x \in DOMAIN r.streams
      BY <3>3, <3>4 DEF Registered
    <3>6. id \notin DOMAIN r.streams
      BY <3>2, <3>5, NeverBoth
    <3>7. id.kind = "Accepted"
      BY <3>2, <3>3 DEF BaseId, AcceptedId
    <3> QED
      BY <3>4, <3>6, <3>7 DEF Registered
  <2> QED
    BY <1>1, <2>1, <2>2, <2>3
<1>3. name # None
  BY NoneAssumption
<1>4. LabelKept(r2)
  BY <1>1, <1>2, <1>3 DEF LabelKept
<1>5. LabelsDiffer(r2)
  BY <1>1, <1>2, <1>3 DEF LabelsWell, LabelsDiffer
<1> QED
  BY <1>4, <1>5 DEF LabelsWell

\* The renamed handle keeps its label, which designates the id it had.
LEMMA LabelsRenamed ==
  ASSUME NEW r, RegistryOK(r), NEW r2, RegistryOK(r2), LabelsWell(r), NEW sid \in DOMAIN r.servers,
         NEW key \in PeerKeys, NEW c, AcceptedSecond(r, r2, sid, key, NewConnected(sid, c))
  PROVE  LabelsWell(r2)
<1> DEFINE base  == BaseId(sid, key)
           first == AcceptedId(sid, key, 1)
           secnd == AcceptedId(sid, key, 2)
           h     == NewConnected(sid, c)
<1>1. DOMAIN r2.servers = DOMAIN r.servers /\ r2.labels = r.labels
      /\ \A s \in DOMAIN r.servers : r2.servers[s].label = r.servers[s].label
  BY DEF AcceptedSecond, TablesSet, SameServer, SameLabels
<1>2. CASE StreamPut(r, r2, secnd, h)
  BY <1>1, <1>2, LabelsEntered
<1>3. CASE base \in DOMAIN r.streams
  <2>1. sid \in ServerIds
    BY KindsDisjoint
  <2>2. /\ base.kind = "Accepted" /\ base.disambig = 0
        /\ first.kind = "Accepted" /\ first.parent = sid /\ first.key = key /\ first.disambig = 1
    BY <2>1, AcceptedIdTyped DEF BaseId, NoSuffix
  <2>3. FormerId(base) = base /\ FormerId(first) = base
    BY <2>2 DEF FormerId
  <2>4. base \notin DOMAIN r.servers /\ first \notin DOMAIN r.servers
    BY <2>2, KindsDisjoint DEF ServerIds, TcpServerIds, IpcServerIds
  <2>5. CASE ~StreamPut(r, r2, secnd, h)
    <3>1. /\ DOMAIN r2.streams = (DOMAIN r.streams \ {base}) \cup {first, secnd}
          /\ \A x \in DOMAIN r.streams \ {base, first, secnd} : r2.streams[x] = r.streams[x]
          /\ r2.streams[first] = r.streams[base]
          /\ r2.streams[secnd] = h
      BY <1>3, <2>5 DEF AcceptedSecond
    <3>2. h.label = None
      BY DEF NewConnected
    <3> DEFINE Was(x) == IF x = first THEN base ELSE x
    <3>3. base # first /\ first # secnd /\ base # secnd
      BY AcceptedIdsDiffer DEF BaseId, NoSuffix
    <3> HIDE DEF base, first, secnd, h
    <3>4. \A x \in DOMAIN r2.streams :
             \/ r2.streams[x].label = None
             \/ Was(x) \in DOMAIN r.streams /\ r2.streams[x] = r.streams[Was(x)]
      BY <1>3, <3>1, <3>2
    <3>5. \A x \in Registered(r2) : CurrentLabel(r2, x) # None =>
             Was(x) \in Registered(r) /\ CurrentLabel(r2, x) = CurrentLabel(r, Was(x))
      BY <1>1, <2>4, <3>4, LabelOf DEF Registered
    <3>6. \A x \in Registered(r2) : x # base
      BY <1>1, <2>4, <3>1, <3>3 DEF Registered
    <3>7. LabelKept(r2)
      BY <1>1, <2>3, <3>5 DEF LabelsWell, LabelKept
    <3>8. LabelsDiffer(r2)
      BY <3>5, <3>6 DEF LabelsWell, LabelsDiffer
    <3> QED
      BY <3>7, <3>8 DEF LabelsWell
  <2> QED
    BY <1>2, <2>5
<1> QED
  BY <1>2, <1>3 DEF AcceptedSecond

LEMMA RegistryStepLabels ==
  ASSUME WellFormed, WellFormed', Suffixes(reg), LabelsWell(reg), RegistryStep
  PROVE  LabelsWell(reg)'
<1>a. RegistryOK(reg) /\ Family(reg) /\ RegistryOK(reg') /\ Family(reg')
  BY DEF WellFormed, TypeOK
<1>1. CASE ChangesNothing
  BY <1>1 DEF ChangesNothing
<1>2. CASE UsesSequenceNumber
  <2>1. reg'.streams = reg.streams /\ reg'.servers = reg.servers /\ reg'.labels = reg.labels
    BY <1>a, <1>2, AllocatedSeq DEF UsesSequenceNumber
  <2> QED
    BY <2>1 DEF LabelsWell, LabelKept, LabelsDiffer, CurrentLabel, Registered
<1>3. ASSUME NEW sid \in ServerIds, Registers(sid) PROVE LabelsWell(reg')
  <2>1. /\ reg'.streams = reg.streams /\ DOMAIN reg'.servers = DOMAIN reg.servers \cup {sid}
        /\ \A s \in DOMAIN reg.servers : reg'.servers[s] = reg.servers[s]
        /\ reg'.servers[sid].label = None /\ reg'.labels = reg.labels
    BY <1>3 DEF Registers, Listening, NewServer, SameLabels
  <2>2. \A x \in Registered(reg') : CurrentLabel(reg', x) # None =>
           x \in Registered(reg) /\ CurrentLabel(reg', x) = CurrentLabel(reg, x)
    BY <1>a, <2>1, LabelOf DEF Registered
  <2> QED
    BY <2>1, <2>2, LabelsStay DEF LabelsWell, LabelKept
<1>4. ASSUME NEW id \in ClientIds, NEW c \in Conns, Connects(id, c) PROVE LabelsWell(reg')
  BY <1>a, <1>4, LabelsEntered DEF Connects, SameServers, SameServer
<1>5. ASSUME NEW id, NEW ids, Closes(id, ids) PROVE LabelsWell(reg')
  BY <1>a, <1>5, LabelsLeft DEF Closes
<1>6. ASSUME NEW id, NEW name, Relabels(id, name) PROVE LabelsWell(reg')
  BY <1>a, <1>6, LabelsRelabelled DEF Relabels
<1>7. ASSUME NEW c \in Conns, NEW sid \in ServerIds, NEW key \in PeerKeys, Accepts(c, sid, key)
      PROVE  LabelsWell(reg')
  <2> DEFINE h == NewConnected(sid, c)
  <2>1. sid \in DOMAIN reg.servers
    BY <1>7 DEF Accepts
  <2>2. CASE AcceptedSecond(reg, reg', sid, key, h)
    BY <1>a, <2>1, <2>2, LabelsRenamed
  <2>3. CASE AcceptedFirst(reg, reg', sid, key, h)
    BY <1>a, <2>1, <2>3, LabelsEntered DEF AcceptedFirst, TablesSet, SameServer, SameLabels
  <2>4. CASE AcceptedLater(reg, reg', sid, key, h)
    BY <1>a, <2>1, <2>4, LabelsEntered DEF AcceptedLater, TablesSet, SameServer, SameLabels
  <2> QED
    BY <1>7, <2>2, <2>3, <2>4 DEF Accepts
<1>8. CASE Panics
  BY <1>8, NewMaps DEF Panics, OnAcceptedPanics, LabelsWell, LabelKept, LabelsDiffer, Registered
<1>9. CASE Stops
  BY <1>a, <1>9, LabelsLeft DEF Stops
<1> QED
  BY <1>1, <1>2, <1>3, <1>4, <1>5, <1>6, <1>7, <1>8, <1>9, StepKinds DEF WellFormed

LEMMA LabelsAlways == Spec => []LabelsWell(reg)
<1>1. Init => LabelsWell(reg)
  BY NewMaps DEF Init, LabelsWell, LabelKept, LabelsDiffer, Registered
<1>2. WellFormed /\ WellFormed' /\ Suffixes(reg) /\ LabelsWell(reg) /\ [Next]_vars
         => LabelsWell(reg)'
  BY OtherSteps, RegistryStepLabels
     DEF LabelsWell, LabelKept, LabelsDiffer, CurrentLabel, Registered
<1> QED
  BY <1>1, <1>2, WellFormedAlways, SuffixesAlways, PTL DEF Spec

(***************************************************************************)
(* The label a handle shows is its own: it is in the label map, where it   *)
(* designates the handle or the id it had before a collision renamed it,   *)
(* and no other handle shows it (apply_label, drop_stream, drop_server,    *)
(* rename_accepted_tcp).                                                   *)
(***************************************************************************)
THEOREM LabelTheorem == Spec => []LabelsHeld
<1>1. LabelsWell(reg) => LabelsHeld
  BY DEF LabelsWell, LabelKept, LabelsDiffer, LabelsHeld
<1> QED
  BY <1>1, LabelsAlways, PTL
=============================================================================
