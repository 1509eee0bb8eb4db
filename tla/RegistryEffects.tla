--------------------------- MODULE RegistryEffects ---------------------------
(***************************************************************************)
(* What each method of the registry does to the three maps, stated as a    *)
(* relation between the registry before and after it.  The children of a   *)
(* server are left out: RegistryProofs shows they are the streams whose    *)
(* id names it.                                                            *)
(***************************************************************************)
EXTENDS RegistryProofs

SameServer(srv, srv2) ==
    /\ srv2.label = srv.label
    /\ srv2.base_no_suffix = srv.base_no_suffix
    /\ srv2.disambig_next = srv.disambig_next

SameServers(r, r2) ==
    /\ DOMAIN r2.servers = DOMAIN r.servers
    /\ \A s \in DOMAIN r.servers : SameServer(r.servers[s], r2.servers[s])

SameLabels(r, r2) ==
    r2.labels = r.labels /\ r2.next_ipc_client_seq = r.next_ipc_client_seq

\* A handle enters the streams, perhaps in the place of another one.
StreamPut(r, r2, id, h) ==
    /\ DOMAIN r2.streams = DOMAIN r.streams \cup {id}
    /\ \A x \in DOMAIN r.streams \ {id} : r2.streams[x] = r.streams[x]
    /\ r2.streams[id] = h

Entered(r, r2, id, h) == StreamPut(r, r2, id, h) /\ SameServers(r, r2) /\ SameLabels(r, r2)

\* The ids of a set, streams and servers, leave with their labels.
Left(r, r2, ids) ==
    /\ DOMAIN r2.streams = DOMAIN r.streams \ ids
    /\ \A x \in DOMAIN r.streams \ ids : r2.streams[x] = r.streams[x]
    /\ DOMAIN r2.servers = DOMAIN r.servers \ ids
    /\ \A s \in DOMAIN r.servers \ ids : SameServer(r.servers[s], r2.servers[s])
    /\ DOMAIN r2.labels = DOMAIN r.labels \ {CurrentLabel(r, x) : x \in ids \cap Registered(r)}
    /\ \A name \in DOMAIN r2.labels : r2.labels[name] = r.labels[name]
    /\ r2.next_ipc_client_seq = r.next_ipc_client_seq

\* A server without connections enters.
Listening(r, r2, sid) ==
    /\ r2.streams = r.streams
    /\ DOMAIN r2.servers = DOMAIN r.servers \cup {sid}
    /\ \A s \in DOMAIN r.servers : r2.servers[s] = r.servers[s]
    /\ r2.servers[sid] = NewServer
    /\ SameLabels(r, r2)

\* An id is shown under another label.
Relabelled(r, r2, id, name) ==
    /\ DOMAIN r2.streams = DOMAIN r.streams
    /\ \A x \in DOMAIN r.streams : /\ r2.streams[x].parent = r.streams[x].parent
                                   /\ r2.streams[x].conn = r.streams[x].conn
                                   /\ r2.streams[x].status = r.streams[x].status
    /\ DOMAIN r2.servers = DOMAIN r.servers
    /\ \A s \in DOMAIN r.servers :
          /\ r2.servers[s].base_no_suffix = r.servers[s].base_no_suffix
          /\ r2.servers[s].disambig_next = r.servers[s].disambig_next
    /\ \A x \in Registered(r) :
          CurrentLabel(r2, x) = IF x = id THEN name ELSE CurrentLabel(r, x)
    /\ DOMAIN r2.labels = (DOMAIN r.labels \ {CurrentLabel(r, id)}) \cup {name}
    /\ r2.labels[name] = id
    /\ \A n \in DOMAIN r2.labels \ {name} : r2.labels[n] = r.labels[n]
    /\ r2.next_ipc_client_seq = r.next_ipc_client_seq

\* The suffix tables of one server are updated.
TablesSet(r, r2, sid, base, next) ==
    /\ DOMAIN r2.servers = DOMAIN r.servers
    /\ \A s \in DOMAIN r.servers \ {sid} : SameServer(r.servers[s], r2.servers[s])
    /\ r2.servers[sid].label = r.servers[sid].label
    /\ r2.servers[sid].base_no_suffix = base
    /\ r2.servers[sid].disambig_next = next

(***************************************************************************)
(* The kinds of ids, and the label of one.                                 *)
(***************************************************************************)
LEMMA KindsDisjoint ==
  ASSUME NEW r, RegistryOK(r)
  PROVE  /\ DOMAIN r.streams \cap DOMAIN r.servers = {}
         /\ DOMAIN r.streams \subseteq StreamIds
         /\ DOMAIN r.servers \subseteq ServerIds
<1>1. DOMAIN r.streams \subseteq StreamIds /\ DOMAIN r.servers \subseteq ServerIds
  BY MapsOf DEF IsMap
<1>2. StreamIds \cap ServerIds = {}
  BY DEF StreamIds, ClientIds, AcceptedIds, ServerIds, TcpServerIds, IpcServerIds
<1> QED
  BY <1>1, <1>2

LEMMA LabelOf ==
  ASSUME NEW r, RegistryOK(r)
  PROVE  /\ \A x \in DOMAIN r.streams : CurrentLabel(r, x) = r.streams[x].label
         /\ \A s \in DOMAIN r.servers : CurrentLabel(r, s) = r.servers[s].label
  BY KindsDisjoint DEF CurrentLabel

(***************************************************************************)
(* insert_stream.                                                          *)
(***************************************************************************)
LEMMA AddChildSame ==
  ASSUME NEW f, IsMap(f, ServerIds, ServerHandles), NEW sid, NEW id
  PROVE  /\ DOMAIN AddChild(f, sid, id) = DOMAIN f
         /\ \A s \in DOMAIN f : SameServer(f[s], AddChild(f, sid, id)[s])
<1>1. CASE sid \notin DOMAIN f
  BY <1>1 DEF AddChild, SameServer
<1>2. CASE sid \in DOMAIN f
  <2> DEFINE kids == f[sid].children \cup {id}
             srv  == [f[sid] EXCEPT !.children = kids]
  <2>1. f[sid] \in ServerHandles
    BY <1>2, EntryInRange
  <2>2. SameServer(f[sid], srv)
    BY <2>1 DEF ServerHandles, SameServer
  <2>3. AddChild(f, sid, id) = Put(f, sid, srv)
    BY <1>2 DEF AddChild
  <2> HIDE DEF srv
  <2> QED
    BY <1>2, <2>2, <2>3 DEF Put, SameServer
<1> QED
  BY <1>1, <1>2

LEMMA InsertStreamEnters ==
  ASSUME NEW r, RegistryOK(r), NEW id, NEW h
  PROVE  Entered(r, InsertStream(r, id, h), id, h)
<1> DEFINE r2 == InsertStream(r, id, h)
<1>1. /\ r2.streams = Put(r.streams, id, h)
      /\ r2.servers = AddChild(r.servers, h.parent, id)
      /\ r2.labels = r.labels
      /\ r2.next_ipc_client_seq = r.next_ipc_client_seq
  BY DEF InsertStream, RegistryOK
<1> HIDE DEF r2
<1>2. StreamPut(r, r2, id, h)
  BY <1>1 DEF StreamPut, Put
<1>3. SameServers(r, r2)
  BY <1>1, MapsOf, AddChildSame DEF SameServers
<1> QED
  BY <1>1, <1>2, <1>3 DEF Entered, SameLabels, r2

(***************************************************************************)
(* drop_stream, drop_server and shutdown.                                  *)
(***************************************************************************)
LEMMA WithoutChildrenSame ==
  ASSUME NEW srv \in ServerHandles, NEW ids
  PROVE  SameServer(srv, WithoutChildren(srv, ids))
  BY DEF SameServer, WithoutChildren, ServerHandles

LEMMA DropStreamsMaps ==
  ASSUME NEW r, RegistryOK(r), NEW ids
  PROVE  LET r2 == DropStreams(r, ids)
         IN  /\ DOMAIN r2.streams = DOMAIN r.streams \ ids
             /\ \A x \in DOMAIN r.streams \ ids : r2.streams[x] = r.streams[x]
             /\ SameServers(r, r2)
             /\ r2.labels = Without(r.labels, {r.streams[x].label : x \in ids \cap DOMAIN r.streams})
             /\ r2.next_ipc_client_seq = r.next_ipc_client_seq
<1> DEFINE gone == ids \cap DOMAIN r.streams
           GoneOf(s) == {id \in gone : r.streams[id].parent = s}
           sv == [s \in DOMAIN r.servers |-> WithoutChildren(r.servers[s], GoneOf(s))]
           names == {r.streams[x].label : x \in gone}
           r2 == DropStreams(r, ids)
<1>1. /\ r2.servers = sv
      /\ r2.labels = Without(r.labels, names)
      /\ r2.next_ipc_client_seq = r.next_ipc_client_seq
  BY DEF DropStreams, RegistryOK
<1>2. /\ DOMAIN r2.streams = DOMAIN r.streams \ ids
      /\ \A x \in DOMAIN r.streams \ ids : r2.streams[x] = r.streams[x]
  BY DropStreamsEffect
<1>3. IsMap(r.servers, ServerIds, ServerHandles)
  BY MapsOf
<1>4. ASSUME NEW s \in DOMAIN r.servers
      PROVE  SameServer(r.servers[s], sv[s])
  <2>1. r.servers[s] \in ServerHandles
    BY <1>3, EntryInRange
  <2> QED
    BY <2>1, WithoutChildrenSame
<1>5. DOMAIN sv = DOMAIN r.servers
  OBVIOUS
<1> HIDE DEF sv, r2
<1>6. SameServers(r, r2)
  BY <1>1, <1>4, <1>5 DEF SameServers
<1> QED
  BY <1>1, <1>2, <1>6 DEF r2

LEMMA DropStreamsLeaves ==
  ASSUME NEW r, RegistryOK(r), NEW ids, ids \cap DOMAIN r.servers = {}
  PROVE  Left(r, DropStreams(r, ids), ids)
<1> DEFINE r2 == DropStreams(r, ids)
           names == {r.streams[x].label : x \in ids \cap DOMAIN r.streams}
<1>1. /\ DOMAIN r2.streams = DOMAIN r.streams \ ids
      /\ \A x \in DOMAIN r.streams \ ids : r2.streams[x] = r.streams[x]
      /\ SameServers(r, r2)
      /\ r2.labels = Without(r.labels, names)
      /\ r2.next_ipc_client_seq = r.next_ipc_client_seq
  BY DropStreamsMaps
<1>2. names = {CurrentLabel(r, x) : x \in ids \cap Registered(r)}
  BY LabelOf DEF Registered
<1>3. DOMAIN r.servers \ ids = DOMAIN r.servers
  OBVIOUS
<1> HIDE DEF r2, names
<1>4. /\ DOMAIN r2.labels = DOMAIN r.labels \ names
      /\ \A name \in DOMAIN r2.labels : r2.labels[name] = r.labels[name]
  BY <1>1 DEF Without, Restrict
<1>5. Left(r, r2, ids)
  BY <1>1, <1>2, <1>3, <1>4 DEF Left, SameServers
<1> QED
  BY <1>5 DEF r2

LEMMA DropServersLeaves ==
  ASSUME NEW r, RegistryOK(r), Family(r), NEW sids, sids \subseteq DOMAIN r.servers,
         NEW ids, ids = {x \in DOMAIN r.streams : ParentOf(x) \in sids}
  PROVE  Left(r, DropServers(r, sids), sids \cup ids)
<1> DEFINE gone     == sids \cap DOMAIN r.servers
           children == UNION {r.servers[s].children : s \in gone}
           r1       == [r EXCEPT !.servers = Without(@, gone)]
           r2       == DropStreams(r1, children)
           names    == {r.servers[s].label : s \in gone}
           below    == {r.streams[x].label : x \in children \cap DOMAIN r.streams}
           r3       == [r2 EXCEPT !.labels = Without(@, names)]
<1>1. gone = sids
  OBVIOUS
<1>2. children = ids
  <2>1. None \notin sids
    BY NoneIsNoServer
  <2>2. ASSUME NEW x \in children PROVE x \in ids
    <3>1. PICK s \in sids : x \in r.servers[s].children
      BY <2>2
    <3>2. x \in DOMAIN r.streams /\ x.parent = s
      BY <3>1 DEF Family, ChildrenKnowParents
    <3>3. x \in AcceptedIds
      <4>1. IsMap(r.servers, ServerIds, ServerHandles)
        BY MapsOf
      <4>2. r.servers[s] \in ServerHandles
        BY <3>1, <4>1, EntryInRange
      <4> QED
        BY <3>1, <4>2 DEF ServerHandles
    <3>4. ParentOf(x) = s
      BY <3>2, <3>3, ParentOfId DEF StreamIds
    <3> QED
      BY <3>1, <3>2, <3>4
  <2>3. ASSUME NEW x \in ids PROVE x \in children
    BY <2>1, <2>3 DEF Family, ParentsKnowChildren
  <2> QED
    BY <2>2, <2>3
<1>3. /\ RegistryOK(r1) /\ r1.streams = r.streams /\ r1.labels = r.labels
      /\ r1.next_ipc_client_seq = r.next_ipc_client_seq
      /\ DOMAIN r1.servers = DOMAIN r.servers \ sids
      /\ \A s \in DOMAIN r.servers \ sids : r1.servers[s] = r.servers[s]
  <2>1. IsMap(Without(r.servers, gone), ServerIds, ServerHandles)
    BY MapsOf, WithoutIsMap
  <2> QED
    BY <2>1, ServersOK DEF RegistryOK, Without, Restrict
<1> HIDE DEF r1, children
<1>4. /\ DOMAIN r2.streams = DOMAIN r.streams \ ids
      /\ \A x \in DOMAIN r.streams \ ids : r2.streams[x] = r.streams[x]
      /\ SameServers(r1, r2)
      /\ r2.labels = Without(r.labels, below)
      /\ r2.next_ipc_client_seq = r.next_ipc_client_seq
  <2>1. /\ DOMAIN r2.streams = DOMAIN r1.streams \ children
        /\ \A x \in DOMAIN r1.streams \ children : r2.streams[x] = r1.streams[x]
        /\ SameServers(r1, r2)
        /\ r2.labels = Without(r1.labels,
                               {r1.streams[x].label : x \in children \cap DOMAIN r1.streams})
        /\ r2.next_ipc_client_seq = r1.next_ipc_client_seq
    BY <1>3, DropStreamsMaps
  <2> HIDE DEF r2
  <2> QED
    BY <1>2, <1>3, <2>1
<1>5. RegistryOK(r2)
  BY <1>3, DropStreamsOK
<1> HIDE DEF r2
<1>6. /\ r3.streams = r2.streams /\ r3.servers = r2.servers
      /\ r3.labels = Without(r2.labels, names)
      /\ r3.next_ipc_client_seq = r2.next_ipc_client_seq
      /\ DropServers(r, sids) = r3
  BY <1>5 DEF RegistryOK, DropServers, r1, r2, children
<1> HIDE DEF r3
<1>7. names \cup below = {CurrentLabel(r, x) : x \in (sids \cup ids) \cap Registered(r)}
  BY <1>2, LabelOf DEF Registered
<1>8. /\ DOMAIN r3.labels = DOMAIN r.labels \ (names \cup below)
      /\ \A name \in DOMAIN r3.labels : r3.labels[name] = r.labels[name]
  <2> HIDE DEF names, below
  <2> QED
    BY <1>4, <1>6 DEF Without, Restrict
<1>9. /\ DOMAIN r.streams \ (sids \cup ids) = DOMAIN r.streams \ ids
      /\ DOMAIN r.servers \ (sids \cup ids) = DOMAIN r.servers \ sids
  BY KindsDisjoint
<1> HIDE DEF names, below, gone
<1>10. \A s \in DOMAIN r.servers \ sids : SameServer(r.servers[s], r3.servers[s])
  BY <1>3, <1>4, <1>6 DEF SameServers, SameServer
<1> QED
  BY <1>3, <1>4, <1>6, <1>7, <1>8, <1>9, <1>10 DEF Left, SameServers

LEMMA ShutdownLeaves ==
  ASSUME NEW r, RegistryOK(r), Family(r)
  PROVE  Left(r, Shutdown(r), Registered(r))
<1> DEFINE sids == DOMAIN r.servers
           ids  == {x \in DOMAIN r.streams : ParentOf(x) \in sids}
           r1   == DropServers(r, sids)
           rest == DOMAIN r1.streams
           r2   == DropStreams(r1, rest)
<1>1. Left(r, r1, sids \cup ids)
  BY DropServersLeaves
<1>2. RegistryOK(r1)
  BY DropServersOK
<1> HIDE DEF r1
<1>3. rest \cap DOMAIN r1.servers = {} /\ DOMAIN r1.servers = {}
  BY <1>1 DEF Left
<1>4. Left(r1, r2, rest)
  BY <1>2, <1>3, DropStreamsLeaves
<1> HIDE DEF r2
<1>5. rest = DOMAIN r.streams \ (sids \cup ids)
  BY <1>1 DEF Left
<1>6. /\ DOMAIN r2.streams = {} /\ DOMAIN r2.servers = {}
      /\ r2.next_ipc_client_seq = r.next_ipc_client_seq
  BY <1>1, <1>3, <1>4 DEF Left
<1>7. \A x \in rest : CurrentLabel(r1, x) = CurrentLabel(r, x)
  BY <1>1, <1>2, <1>5, LabelOf DEF Left
<1>8. /\ DOMAIN r2.labels = DOMAIN r.labels \ {CurrentLabel(r, x) : x \in Registered(r)}
      /\ \A name \in DOMAIN r2.labels : r2.labels[name] = r.labels[name]
  <2>1. {CurrentLabel(r1, x) : x \in rest \cap Registered(r1)} = {CurrentLabel(r, x) : x \in rest}
    BY <1>7 DEF Registered
  <2>2. (sids \cup ids) \cap Registered(r) = sids \cup ids
    BY DEF Registered
  <2>3. DOMAIN r2.labels = DOMAIN r1.labels \ {CurrentLabel(r, x) : x \in rest}
    BY <1>4, <2>1 DEF Left
  <2>4. DOMAIN r1.labels = DOMAIN r.labels \ {CurrentLabel(r, x) : x \in sids \cup ids}
    BY <1>1, <2>2 DEF Left
  <2>5. Registered(r) = (sids \cup ids) \cup rest
    BY <1>5 DEF Registered
  <2> HIDE DEF sids, ids, rest
  <2>6. DOMAIN r2.labels = DOMAIN r.labels \ {CurrentLabel(r, x) : x \in Registered(r)}
    BY <2>3, <2>4, <2>5
  <2> QED
    BY <1>1, <1>4, <2>3, <2>6 DEF Left
<1>9. Left(r, r2, Registered(r))
  <2> HIDE DEF sids, ids, rest
  <2> QED
    BY <1>6, <1>8 DEF Left, Registered
<1> QED
  BY <1>9 DEF Shutdown, r1, r2, rest, sids

(***************************************************************************)
(* alloc_ipc_client_seq, apply_label, and the registration of a server.    *)
(***************************************************************************)
LEMMA ListenEnters ==
  ASSUME NEW r, RegistryOK(r), NEW sid, sid \notin DOMAIN r.servers
  PROVE  Listening(r, [r EXCEPT !.servers = Put(r.servers, sid, NewServer)], sid)
<1> DEFINE r2 == [r EXCEPT !.servers = Put(r.servers, sid, NewServer)]
<1>1. /\ r2.streams = r.streams /\ r2.servers = Put(r.servers, sid, NewServer)
      /\ r2.labels = r.labels /\ r2.next_ipc_client_seq = r.next_ipc_client_seq
  BY DEF RegistryOK
<1> HIDE DEF r2
<1>2. Listening(r, r2, sid)
  BY <1>1 DEF Listening, SameLabels, Put
<1> QED
  BY <1>2 DEF r2

LEMMA RelabelEffect ==
  ASSUME NEW h, NEW name
  PROVE  /\ h \in StreamHandles =>
              LET h2 == [h EXCEPT !.label = name]
              IN  /\ h2.label = name /\ h2.parent = h.parent
                  /\ h2.conn = h.conn /\ h2.status = h.status
         /\ h \in ServerHandles =>
              LET h2 == [h EXCEPT !.label = name]
              IN  /\ h2.label = name /\ h2.base_no_suffix = h.base_no_suffix
                  /\ h2.disambig_next = h.disambig_next
  BY DEF StreamHandles, ServerHandles

LEMMA ApplyLabelRelabels ==
  ASSUME NEW r, RegistryOK(r), NEW id \in Registered(r), NEW name \in Labels,
         ~LabelTaken(r, id, name)
  PROVE  Relabelled(r, ApplyLabel(r, id, name), id, name)
<1> DEFINE lb    == Put(Without(r.labels, {CurrentLabel(r, id)}), name, id)
           named == [r EXCEPT !.labels = lb]
           st    == [r.streams EXCEPT ![id].label = name]
           sv    == [r.servers EXCEPT ![id].label = name]
           r2    == ApplyLabel(r, id, name)
<1>1. IsMap(r.streams, StreamIds, StreamHandles) /\ IsMap(r.servers, ServerIds, ServerHandles)
  BY MapsOf
<1>2. /\ named.streams = r.streams /\ named.servers = r.servers /\ named.labels = lb
      /\ named.next_ipc_client_seq = r.next_ipc_client_seq
      /\ DOMAIN named = {"streams", "servers", "labels", "next_ipc_client_seq"}
  BY DEF RegistryOK
<1>3. /\ DOMAIN lb = (DOMAIN r.labels \ {CurrentLabel(r, id)}) \cup {name}
      /\ lb[name] = id
      /\ \A n \in DOMAIN lb \ {name} : lb[n] = r.labels[n]
  BY DEF Put, Without, Restrict
<1>4. RegistryOK(r2)
  BY ApplyLabelOK
<1>5. CASE id \in DOMAIN r.streams
  <2>1. /\ DOMAIN st = DOMAIN r.streams
        /\ \A x \in DOMAIN r.streams : /\ st[x].parent = r.streams[x].parent
                                       /\ st[x].conn = r.streams[x].conn
                                       /\ st[x].status = r.streams[x].status
                                       /\ x # id => st[x].label = r.streams[x].label
        /\ st[id].label = name
    BY <1>1, <1>5, RelabelEffect, EntryInRange
  <2>2. r2 = [named EXCEPT !.streams = st]
    BY <1>2, <1>5 DEF ApplyLabel, Registered
  <2> HIDE DEF named, st, lb, r2
  <2>3. /\ r2.streams = st /\ r2.servers = r.servers /\ r2.labels = lb
        /\ r2.next_ipc_client_seq = r.next_ipc_client_seq
    BY <1>2, <2>2
  <2>4. \A x \in Registered(r) :
           CurrentLabel(r2, x) = IF x = id THEN name ELSE CurrentLabel(r, x)
    BY <1>4, <1>5, <2>1, <2>3, LabelOf, KindsDisjoint DEF Registered
  <2>5. Relabelled(r, r2, id, name)
    BY <1>3, <2>1, <2>3, <2>4 DEF Relabelled
  <2> QED
    BY <2>5 DEF r2
<1>6. CASE id \notin DOMAIN r.streams
  <2>0. id \in DOMAIN r.servers
    BY <1>6 DEF Registered
  <2>1. /\ DOMAIN sv = DOMAIN r.servers
        /\ \A s \in DOMAIN r.servers :
              /\ sv[s].base_no_suffix = r.servers[s].base_no_suffix
              /\ sv[s].disambig_next = r.servers[s].disambig_next
              /\ s # id => sv[s].label = r.servers[s].label
        /\ sv[id].label = name
    BY <1>1, <2>0, RelabelEffect, EntryInRange
  <2>2. r2 = [named EXCEPT !.servers = sv]
    BY <1>2, <1>6, <2>0 DEF ApplyLabel, Registered
  <2> HIDE DEF named, sv, lb, r2
  <2>3. /\ r2.streams = r.streams /\ r2.servers = sv /\ r2.labels = lb
        /\ r2.next_ipc_client_seq = r.next_ipc_client_seq
    BY <1>2, <2>2
  <2>4. \A x \in Registered(r) :
           CurrentLabel(r2, x) = IF x = id THEN name ELSE CurrentLabel(r, x)
    BY <1>4, <1>6, <2>0, <2>1, <2>3, LabelOf, KindsDisjoint DEF Registered
  <2>5. Relabelled(r, r2, id, name)
    BY <1>3, <2>1, <2>3, <2>4 DEF Relabelled
  <2> QED
    BY <2>5 DEF r2
<1> QED
  BY <1>5, <1>6

(***************************************************************************)
(* rename_accepted_tcp and allocate_accepted_tcp_id.                       *)
(***************************************************************************)
LEMMA TakeOutMaps ==
  ASSUME NEW r, RegistryOK(r), NEW id
  PROVE  LET r2 == TakeOut(r, id)
         IN  /\ DOMAIN r2.streams = DOMAIN r.streams \ {id}
             /\ \A x \in DOMAIN r.streams \ {id} : r2.streams[x] = r.streams[x]
             /\ SameServers(r, r2)
             /\ SameLabels(r, r2)
<1> DEFINE Leaves(s) == IF s = r.streams[id].parent THEN {id} ELSE {}
           sv == [s \in DOMAIN r.servers |-> WithoutChildren(r.servers[s], Leaves(s))]
           r2 == TakeOut(r, id)
<1>1. /\ r2.streams = Without(r.streams, {id}) /\ r2.servers = sv
      /\ r2.labels = r.labels /\ r2.next_ipc_client_seq = r.next_ipc_client_seq
  BY DEF TakeOut, RegistryOK
<1>2. IsMap(r.servers, ServerIds, ServerHandles)
  BY MapsOf
<1>3. ASSUME NEW s \in DOMAIN r.servers
      PROVE  SameServer(r.servers[s], sv[s])
  <2>1. r.servers[s] \in ServerHandles
    BY <1>2, EntryInRange
  <2> QED
    BY <2>1, WithoutChildrenSame
<1>4. DOMAIN sv = DOMAIN r.servers
  OBVIOUS
<1> HIDE DEF sv, r2
<1>5. /\ DOMAIN r2.streams = DOMAIN r.streams \ {id}
      /\ \A x \in DOMAIN r.streams \ {id} : r2.streams[x] = r.streams[x]
  BY <1>1 DEF Without, Restrict
<1>6. SameServers(r, r2) /\ SameLabels(r, r2)
  BY <1>1, <1>3, <1>4 DEF SameServers, SameLabels
<1> QED
  BY <1>5, <1>6 DEF r2

\* The handle of "old" is under "new".
Renamed(r, r2, old, new) ==
    /\ DOMAIN r2.streams = (DOMAIN r.streams \ {old}) \cup {new}
    /\ \A x \in DOMAIN r.streams \ {old, new} : r2.streams[x] = r.streams[x]
    /\ r2.streams[new] = r.streams[old]
    /\ SameServers(r, r2) /\ SameLabels(r, r2)

LEMMA RenameAcceptedRenames ==
  ASSUME NEW r, RegistryOK(r), NEW old \in DOMAIN r.streams, NEW new
  PROVE  Renamed(r, RenameAccepted(r, old, new), old, new)
<1> DEFINE r1 == TakeOut(r, old)
           h  == r.streams[old]
           r2 == InsertStream(r1, new, h)
<1>1. /\ DOMAIN r1.streams = DOMAIN r.streams \ {old}
      /\ \A x \in DOMAIN r.streams \ {old} : r1.streams[x] = r.streams[x]
      /\ SameServers(r, r1)
      /\ SameLabels(r, r1)
  BY TakeOutMaps
<1>2. RegistryOK(r1)
  BY TakeOutOK
<1> HIDE DEF r1, h
<1>3. Entered(r1, r2, new, h)
  BY <1>2, InsertStreamEnters
<1>4. RenameAccepted(r, old, new) = r2
  BY DEF RenameAccepted, r1, h
<1> HIDE DEF r2
<1>5. Renamed(r, r2, old, new)
  BY <1>1, <1>3 DEF Entered, StreamPut, SameServers, SameServer, SameLabels, Renamed, h
<1> QED
  BY <1>4, <1>5

(***************************************************************************)
(* handle_accepted: the allocation and the insertion under the new id.  The*)
(* first connection of a key has no suffix, the second makes it #1, if it  *)
(* is still there, and the later ones take the next number.                *)
(***************************************************************************)
AcceptedFirst(r, r2, sid, key, h) ==
    LET srv == r.servers[sid]
    IN  /\ FirstOfKey(srv, key)
        /\ StreamPut(r, r2, BaseId(sid, key), h)
        /\ TablesSet(r, r2, sid, srv.base_no_suffix \cup {key}, srv.disambig_next)
        /\ SameLabels(r, r2)

AcceptedSecond(r, r2, sid, key, h) ==
    LET srv    == r.servers[sid]
        base   == BaseId(sid, key)
        first  == AcceptedId(sid, key, 1)
        second == AcceptedId(sid, key, 2)
    IN  /\ key \in srv.base_no_suffix
        /\ \/ /\ base \in DOMAIN r.streams
              /\ DOMAIN r2.streams = (DOMAIN r.streams \ {base}) \cup {first, second}
              /\ \A x \in DOMAIN r.streams \ {base, first, second} :
                    r2.streams[x] = r.streams[x]
              /\ r2.streams[first] = r.streams[base]
              /\ r2.streams[second] = h
           \/ /\ base \notin DOMAIN r.streams
              /\ StreamPut(r, r2, second, h)
        /\ TablesSet(r, r2, sid, srv.base_no_suffix \ {key}, [srv.disambig_next EXCEPT ![key] = 2])
        /\ SameLabels(r, r2)

AcceptedLater(r, r2, sid, key, h) ==
    LET srv == r.servers[sid]
        n   == srv.disambig_next[key]
    IN  /\ key \notin srv.base_no_suffix /\ n # 0
        /\ StreamPut(r, r2, AcceptedId(sid, key, n), h)
        /\ TablesSet(r, r2, sid, srv.base_no_suffix, [srv.disambig_next EXCEPT ![key] = n + 1])
        /\ SameLabels(r, r2)

\* The registry with the suffix tables of one server replaced.
WithTables(r, sid, base, next) ==
    [r EXCEPT !.servers = Put(r.servers, sid,
        [r.servers[sid] EXCEPT !.base_no_suffix = base, !.disambig_next = next])]

LEMMA TablesWritten ==
  ASSUME NEW r, RegistryOK(r), NEW sid \in DOMAIN r.servers,
         NEW base \in SUBSET PeerKeys, NEW next \in [PeerKeys -> Nat]
  PROVE  /\ RegistryOK(WithTables(r, sid, base, next))
         /\ WithTables(r, sid, base, next).streams = r.streams
         /\ TablesSet(r, WithTables(r, sid, base, next), sid, base, next)
         /\ SameLabels(r, WithTables(r, sid, base, next))
<1> DEFINE srv == [r.servers[sid] EXCEPT !.base_no_suffix = base, !.disambig_next = next]
           r2  == [r EXCEPT !.servers = Put(r.servers, sid, srv)]
<1>0. WithTables(r, sid, base, next) = r2
  BY DEF WithTables
<1>1. sid \in ServerIds /\ r.servers[sid] \in ServerHandles
  <2>1. IsMap(r.servers, ServerIds, ServerHandles)
    BY MapsOf
  <2> QED
    BY <2>1, EntryInRange
<1>2. srv \in ServerHandles
  BY <1>1, TablesOK
<1>3. RegistryOK(r2)
  <2> HIDE DEF srv
  <2> QED
    BY <1>1, <1>2, ServerPutOK
<1>4. /\ srv.label = r.servers[sid].label /\ srv.base_no_suffix = base
      /\ srv.disambig_next = next
  BY <1>1 DEF ServerHandles
<1> HIDE DEF srv
<1>5. /\ r2.streams = r.streams /\ r2.servers = Put(r.servers, sid, srv)
      /\ r2.labels = r.labels /\ r2.next_ipc_client_seq = r.next_ipc_client_seq
  BY DEF RegistryOK
<1> HIDE DEF r2
<1>6. TablesSet(r, r2, sid, base, next)
  BY <1>4, <1>5 DEF TablesSet, SameServer, Put
<1> QED
  BY <1>0, <1>3, <1>5, <1>6 DEF SameLabels

LEMMA AcceptedIdsDiffer ==
  ASSUME NEW sid, NEW key, NEW m, NEW n, m # n
  PROVE  AcceptedId(sid, key, m) # AcceptedId(sid, key, n)
<1>1. AcceptedId(sid, key, m).disambig = m /\ AcceptedId(sid, key, n).disambig = n
  BY DEF AcceptedId
<1> QED
  BY <1>1

LEMMA AllocateAccepts ==
  ASSUME NEW r, RegistryOK(r), NEW sid \in DOMAIN r.servers, NEW key \in PeerKeys, NEW h,
         NEW new, new = AllocateAcceptedId(r, sid, key),
         NEW r2, r2 = InsertStream(new.reg, new.id, h)
  PROVE  /\ ~new.renamed /\ new.id = BaseId(sid, key) /\ AcceptedFirst(r, r2, sid, key, h)
         \/ /\ new.renamed /\ new.id = AcceptedId(sid, key, 2)
            /\ AcceptedSecond(r, r2, sid, key, h)
         \/ /\ ~new.renamed
            /\ new.id = AcceptedId(sid, key, r.servers[sid].disambig_next[key])
            /\ AcceptedLater(r, r2, sid, key, h)
<1> DEFINE srv  == r.servers[sid]
           base == srv.base_no_suffix
           next == srv.disambig_next
           Tables(b, n) == [srv EXCEPT !.base_no_suffix = b, !.disambig_next = n]
           With(b, n)   == [r EXCEPT !.servers = Put(r.servers, sid, Tables(b, n))]
<1>1. base \in SUBSET PeerKeys /\ next \in [PeerKeys -> Nat]
  <2>1. srv \in ServerHandles
    BY MapsOf, EntryInRange
  <2> QED
    BY <2>1 DEF ServerHandles
<1>2. ASSUME NEW b \in SUBSET PeerKeys, NEW n \in [PeerKeys -> Nat]
      PROVE  /\ RegistryOK(With(b, n)) /\ With(b, n).streams = r.streams
             /\ TablesSet(r, With(b, n), sid, b, n) /\ SameLabels(r, With(b, n))
  <2>1. With(b, n) = WithTables(r, sid, b, n)
    BY DEF WithTables
  <2> HIDE DEF With
  <2> QED
    BY <2>1, TablesWritten
<1>3. RegistryOK(new.reg)
  BY AllocateAcceptedIdOK
<1>4. Entered(new.reg, r2, new.id, h)
  BY <1>3, InsertStreamEnters
<1>5. CASE FirstOfKey(srv, key)
  <2> DEFINE r1 == With(base \cup {key}, next)
  <2>1. /\ new.reg = r1 /\ new.id = BaseId(sid, key) /\ new.renamed = FALSE
    BY <1>5 DEF AllocateAcceptedId, FirstOfKey
  <2>2. base \cup {key} \in SUBSET PeerKeys
    BY <1>1
  <2>3. /\ r1.streams = r.streams /\ TablesSet(r, r1, sid, base \cup {key}, next)
        /\ SameLabels(r, r1)
    BY <1>1, <1>2, <2>2
  <2> HIDE DEF With, r1
  <2>4. StreamPut(r, r2, BaseId(sid, key), h)
    BY <1>4, <2>1, <2>3 DEF Entered, StreamPut
  <2>5. TablesSet(r, r2, sid, base \cup {key}, next) /\ SameLabels(r, r2)
    BY <1>4, <2>1, <2>3 DEF Entered, TablesSet, SameServers, SameServer, SameLabels
  <2>6. AcceptedFirst(r, r2, sid, key, h)
    BY <1>5, <2>4, <2>5, Zenon DEF AcceptedFirst
  <2> QED
    BY <2>1, <2>6
<1>6. CASE ~FirstOfKey(srv, key) /\ key \in base
  <2> DEFINE b     == base \ {key}
             n     == [next EXCEPT ![key] = 2]
             r1    == With(b, n)
             old   == BaseId(sid, key)
             first == AcceptedId(sid, key, 1)
             secnd == AcceptedId(sid, key, 2)
  <2>1. /\ new.reg = RenameAccepted(r1, old, first)
        /\ new.id = secnd /\ new.renamed = TRUE
    BY <1>6 DEF AllocateAcceptedId
  <2>2. b \in SUBSET PeerKeys /\ n \in [PeerKeys -> Nat]
    BY <1>1
  <2> HIDE DEF With, b, n
  <2>3. /\ RegistryOK(r1) /\ r1.streams = r.streams /\ TablesSet(r, r1, sid, b, n)
        /\ SameLabels(r, r1)
    BY <1>2, <2>2
  <2>4. old # first /\ old # secnd /\ first # secnd
    BY AcceptedIdsDiffer DEF BaseId, NoSuffix
  <2> HIDE DEF old, first, secnd, r1
  <2>5. CASE old \in DOMAIN r.streams
    <3>1. Renamed(r1, new.reg, old, first)
      BY <2>1, <2>3, <2>5, RenameAcceptedRenames
    <3>2. /\ DOMAIN r2.streams = (DOMAIN r.streams \ {old}) \cup {first, secnd}
          /\ \A x \in DOMAIN r.streams \ {old, first, secnd} : r2.streams[x] = r.streams[x]
          /\ r2.streams[first] = r.streams[old]
          /\ r2.streams[secnd] = h
      BY <1>4, <2>1, <2>3, <2>4, <2>5, <3>1 DEF Renamed, Entered, StreamPut
    <3>3. TablesSet(r, r2, sid, b, n) /\ SameLabels(r, r2)
      BY <1>4, <2>3, <3>1 DEF Renamed, Entered, TablesSet, SameServers, SameServer, SameLabels
    <3>4. TablesSet(r, r2, sid, base \ {key}, [next EXCEPT ![key] = 2]) /\ SameLabels(r, r2)
      BY <3>3 DEF b, n
    <3>5. AcceptedSecond(r, r2, sid, key, h)
      <4> HIDE DEF base, next
      <4> QED
        BY <1>6, <2>5, <3>2, <3>4, Zenon DEF AcceptedSecond, old, first, secnd, base, next
    <3> QED
      BY <2>1, <3>5 DEF secnd
  <2>6. CASE old \notin DOMAIN r.streams
    <3>1. new.reg = r1
      BY <2>1, <2>3, <2>6 DEF RenameAccepted
    <3>2. StreamPut(r, r2, secnd, h) /\ TablesSet(r, r2, sid, b, n) /\ SameLabels(r, r2)
      BY <1>4, <2>1, <2>3, <3>1
         DEF Entered, StreamPut, TablesSet, SameServers, SameServer, SameLabels
    <3>3. AcceptedSecond(r, r2, sid, key, h)
      BY <1>6, <2>6, <3>2 DEF AcceptedSecond, old, secnd, b, n
    <3> QED
      BY <2>1, <3>3 DEF secnd
  <2> QED
    BY <2>5, <2>6
<1>7. CASE ~FirstOfKey(srv, key) /\ key \notin base
  <2> DEFINE n  == [next EXCEPT ![key] = next[key] + 1]
             r1 == With(base, n)
  <2>1. /\ new.reg = r1 /\ new.id = AcceptedId(sid, key, next[key]) /\ new.renamed = FALSE
    BY <1>7 DEF AllocateAcceptedId
  <2>2. n \in [PeerKeys -> Nat]
    BY <1>1
  <2>3. /\ r1.streams = r.streams /\ TablesSet(r, r1, sid, base, n) /\ SameLabels(r, r1)
    BY <1>1, <1>2, <2>2
  <2>4. next[key] # 0
    BY <1>7 DEF FirstOfKey
  <2> HIDE DEF With, n, r1
  <2>5. StreamPut(r, r2, AcceptedId(sid, key, next[key]), h)
    BY <1>4, <2>1, <2>3 DEF Entered, StreamPut
  <2>6. TablesSet(r, r2, sid, base, n) /\ SameLabels(r, r2)
    BY ZenonT(60), <1>4, <2>1, <2>3 DEF Entered, TablesSet, SameServers, SameServer, SameLabels
  <2>7. AcceptedLater(r, r2, sid, key, h)
    BY <1>7, <2>4, <2>5, <2>6 DEF AcceptedLater, n
  <2> QED
    BY <2>1, <2>7
<1> QED
  BY <1>5, <1>6, <1>7

-----------------------------------------------------------------------------
(***************************************************************************)
(* The steps of the registry task, by what they do.  A handler runs to its *)
(* end and its message is gone; a Closed event leaves nothing registered   *)
(* under the id that it names.                                             *)
(***************************************************************************)
Handled ==
    /\ regTask = "running" /\ regTask' = "running"
    /\ inbox # <<>> /\ inbox' = Tail(inbox)
    /\ \A id \in DOMAIN reg'.streams : Head(inbox) # EventMessage("Closed", id)

ChangesNothing ==
    Handled /\ reg' = reg /\ task' = task /\ announced' = announced

UsesSequenceNumber ==
    Handled /\ reg' = AllocIpcClientSeq(reg).reg /\ task' = task /\ announced' = announced

Registers(sid) ==
    /\ Handled
    /\ sid \in ServerIds /\ sid \notin Registered(reg)
    /\ Listening(reg, reg', sid)
    /\ announced' = announced \cup {sid}
    /\ task' = task

Connects(id, c) ==
    /\ Handled
    /\ id \in ClientIds /\ c \in Conns /\ task[c].pc = "fresh"
    /\ StreamPut(reg, reg', id, NewConnected(None, c))
    /\ SameServers(reg, reg')
    /\ reg'.labels = reg.labels
    /\ \/ /\ id.kind = "TcpClient" /\ id \notin Registered(reg)
          /\ reg'.next_ipc_client_seq = reg.next_ipc_client_seq
       \/ /\ id = IpcClientId(reg.next_ipc_client_seq)
          /\ reg'.next_ipc_client_seq = IF reg.next_ipc_client_seq < SeqMax
                                        THEN reg.next_ipc_client_seq + 1
                                        ELSE reg.next_ipc_client_seq
    /\ Spawn(c, id)
    /\ announced' = announced \cup {id}

\* A task that reads for a handle that is gone, or accepts for a server that is.
Orphan(c) ==
    \/ /\ Running(c)
       /\ \E id \in DOMAIN reg.streams \ DOMAIN reg'.streams : reg.streams[id].conn = c
    \/ /\ task[c].pc = "accepted"
       /\ task[c].id.parent \in DOMAIN reg.servers \ DOMAIN reg'.servers

OrphansReleased ==
    /\ DOMAIN task' = Conns
    /\ \A c \in Conns :
          IF Orphan(c)
          THEN \/ task'[c] = [task[c] EXCEPT !.aborted = TRUE]
               \/ task'[c] = [task[c] EXCEPT !.pc = "ended"]
          ELSE task'[c] = task[c]

Closes(id, ids) ==
    /\ Handled
    /\ \/ id \in DOMAIN reg.streams /\ ids = {id}
       \/ /\ id \in DOMAIN reg.servers
          /\ ids = {id} \cup {x \in DOMAIN reg.streams : ParentOf(x) = id}
    /\ Left(reg, reg', ids)
    /\ OrphansReleased
    /\ announced' = announced \ {id}

Relabels(id, name) ==
    /\ Handled
    /\ id \in Registered(reg) /\ name \in Labels /\ ~LabelTaken(reg, id, name)
    /\ Relabelled(reg, reg', id, name)
    /\ task' = task /\ announced' = announced

Accepts(c, sid, key) ==
    /\ Handled
    /\ Head(inbox) \in Messages /\ Head(inbox).type = "Accepted" /\ Head(inbox).conn = c
    /\ c \in Conns /\ sid \in ServerIds /\ sid \in DOMAIN reg.servers /\ key \in PeerKeys
    /\ \/ /\ AcceptedFirst(reg, reg', sid, key, NewConnected(sid, c))
          /\ Spawn(c, BaseId(sid, key))
          /\ announced' = announced \cup {BaseId(sid, key)}
       \/ /\ AcceptedSecond(reg, reg', sid, key, NewConnected(sid, c))
          /\ Spawn(c, AcceptedId(sid, key, 2))
          /\ announced' = (announced \ {BaseId(sid, key)})
                             \cup {AcceptedId(sid, key, 1), AcceptedId(sid, key, 2)}
       \/ LET id == AcceptedId(sid, key, reg.servers[sid].disambig_next[key])
          IN  /\ AcceptedLater(reg, reg', sid, key, NewConnected(sid, c))
              /\ Spawn(c, id)
              /\ announced' = announced \cup {id}

Panics == regTask = "running" /\ OnAcceptedPanics

Stops ==
    /\ regTask = "running" /\ regTask' = "stopped"
    /\ inbox' = <<>>
    /\ Left(reg, reg', Registered(reg))
    /\ OrphansReleased
    /\ announced' = announced

LEMMA ReleaseOrphans ==
  ASSUME TypeOK, NEW r2, Release(r2)
  PROVE  reg' = r2 /\ OrphansReleased
<1> DEFINE streams == DOMAIN reg.streams \ DOMAIN r2.streams
           servers == DOMAIN reg.servers \ DOMAIN r2.servers
           Held(c) == \/ Running(c) /\ \E id \in streams : reg.streams[id].conn = c
                      \/ task[c].pc = "accepted" /\ task[c].id.parent \in servers
<1>1. reg' = r2
  BY DEF Release
<1>2. PICK polled \in SUBSET {c \in Conns : Held(c)} :
         task' = [c \in Conns |-> IF Held(c) THEN Aborted(task[c], c \in polled) ELSE task[c]]
  BY DEF Release
<1>3. \A c \in Conns : Held(c) <=> Orphan(c)
  BY <1>1 DEF Orphan
<1> HIDE DEF Held
<1> QED
  BY <1>1, <1>2, <1>3 DEF OrphansReleased, Aborted

LEMMA HandlerEnds ==
  ASSUME TypeOK, NEW type, Handles(type),
         type = "Event" /\ Message.kind = "Closed" => Message.id \notin DOMAIN reg'.streams
  PROVE  Handled
<1>1. /\ regTask = "running" /\ regTask' = "running" /\ inbox # <<>> /\ inbox' = Tail(inbox)
      /\ Head(inbox).type = type
  BY DEF Handles, Takes, Message
<1>2. ASSUME NEW id \in DOMAIN reg'.streams, Head(inbox) = EventMessage("Closed", id)
      PROVE  FALSE
  BY <1>1, <1>2 DEF Message, EventMessage
<1> QED
  BY <1>1, <1>2 DEF Handled

LEMMA CommandEnds ==
  ASSUME TypeOK, NEW op, Executes(op)
  PROVE  Handled
  BY HandlerEnds DEF Executes

LEMMA ConnectedConnects ==
  ASSUME TypeOK, Handled, NEW r, RegistryOK(r), r.streams = reg.streams, r.servers = reg.servers,
         r.labels = reg.labels, NEW id \in ClientIds, NEW c \in Conns, Connected(r, id, c),
         \/ /\ id.kind = "TcpClient" /\ id \notin Registered(reg)
            /\ r.next_ipc_client_seq = reg.next_ipc_client_seq
         \/ /\ id = IpcClientId(reg.next_ipc_client_seq)
            /\ r.next_ipc_client_seq = IF reg.next_ipc_client_seq < SeqMax
                                       THEN reg.next_ipc_client_seq + 1
                                       ELSE reg.next_ipc_client_seq
  PROVE  Connects(id, c)
<1> DEFINE h == NewConnected(None, c)
<1>1. task[c].pc = "fresh" /\ reg' = InsertStream(r, id, h) /\ Spawn(c, id)
      /\ announced' = announced \cup {id}
  BY DEF Connected
<1> HIDE DEF h
<1>2. Entered(r, reg', id, h)
  BY <1>1, InsertStreamEnters
<1>3. /\ StreamPut(reg, reg', id, h) /\ SameServers(reg, reg') /\ reg'.labels = reg.labels
      /\ reg'.next_ipc_client_seq = r.next_ipc_client_seq
  BY <1>2 DEF Entered, StreamPut, SameServers, SameServer, SameLabels
<1> QED
  BY <1>1, <1>3 DEF Connects, h

LEMMA AllocatedSeq ==
  ASSUME NEW r, RegistryOK(r), NEW next, next = AllocIpcClientSeq(r)
  PROVE  /\ next.seq = r.next_ipc_client_seq
         /\ next.reg.streams = r.streams /\ next.reg.servers = r.servers
         /\ next.reg.labels = r.labels
         /\ next.reg.next_ipc_client_seq = IF r.next_ipc_client_seq < SeqMax
                                           THEN r.next_ipc_client_seq + 1
                                           ELSE r.next_ipc_client_seq
  BY DEF AllocIpcClientSeq, RegistryOK

LEMMA AcceptedAccepts ==
  ASSUME TypeOK, OnAccepted
  PROVE  \E c \in Conns, sid \in ServerIds, key \in PeerKeys : Accepts(c, sid, key)
<1> DEFINE c   == Message.conn
           sid == Message.child.parent
           key == Message.child.key
           h   == NewConnected(sid, c)
           new == AllocateAcceptedId(reg, sid, key)
<1>1. /\ Handles("Accepted") /\ Message \in Messages /\ Message.type = "Accepted"
      /\ Message.conn \in Conns /\ Message.child \in AcceptedIds
  BY HandlesOK, MessageFields DEF OnAccepted, TypeOK
<1>2. Handled
  BY <1>1, HandlerEnds
<1>3. /\ sid \in DOMAIN reg.servers
      /\ reg' = InsertStream(new.reg, new.id, NewConnected(sid, c))
      /\ Spawn(c, new.id)
  BY DEF OnAccepted
<1>4. announced' = (announced \ (IF new.renamed THEN {BaseId(sid, key)} ELSE {}))
                     \cup (IF new.renamed THEN {AcceptedId(sid, key, 1)} ELSE {}) \cup {new.id}
  BY DEF OnAccepted
<1>5. c \in Conns /\ sid \in ServerIds /\ key \in PeerKeys
  BY <1>1 DEF AcceptedIds
<1>6. RegistryOK(reg)
  BY DEF TypeOK
<1>7. Head(inbox) \in Messages /\ Head(inbox).type = "Accepted" /\ Head(inbox).conn = c
  BY <1>1 DEF Message
<1> HIDE DEF c, sid, key, h, new
<1>8. \/ /\ ~new.renamed /\ new.id = BaseId(sid, key) /\ AcceptedFirst(reg, reg', sid, key, h)
      \/ /\ new.renamed /\ new.id = AcceptedId(sid, key, 2)
         /\ AcceptedSecond(reg, reg', sid, key, h)
      \/ /\ ~new.renamed
         /\ new.id = AcceptedId(sid, key, reg.servers[sid].disambig_next[key])
         /\ AcceptedLater(reg, reg', sid, key, h)
  BY <1>3, <1>5, <1>6, AllocateAccepts DEF new, h
<1>9. Accepts(c, sid, key)
  <2>1. CASE /\ ~new.renamed /\ new.id = BaseId(sid, key)
             /\ AcceptedFirst(reg, reg', sid, key, h)
    <3>1. announced' = announced \cup {BaseId(sid, key)}
      BY <1>4, <2>1
    <3> QED
      BY <1>2, <1>3, <1>5, <1>7, <2>1, <3>1 DEF Accepts, h
  <2>2. CASE /\ new.renamed /\ new.id = AcceptedId(sid, key, 2)
             /\ AcceptedSecond(reg, reg', sid, key, h)
    <3>1. announced' = (announced \ {BaseId(sid, key)})
                          \cup {AcceptedId(sid, key, 1), AcceptedId(sid, key, 2)}
      BY <1>4, <2>2
    <3> QED
      BY <1>2, <1>3, <1>5, <1>7, <2>2, <3>1 DEF Accepts, h
  <2>3. CASE /\ ~new.renamed
             /\ new.id = AcceptedId(sid, key, reg.servers[sid].disambig_next[key])
             /\ AcceptedLater(reg, reg', sid, key, h)
    <3>1. announced' = announced \cup {new.id}
      BY <1>4, <2>3
    <3> QED
      BY <1>2, <1>3, <1>5, <1>7, <2>3, <3>1 DEF Accepts, h
  <2> QED
    BY <1>8, <2>1, <2>2, <2>3
<1> QED
  BY <1>5, <1>9

LEMMA CloseCloses ==
  ASSUME TypeOK, Family(reg), NEW id, Handled,
         \/ id \in DOMAIN reg.servers /\ Release(DropServer(reg, id))
         \/ id \in DOMAIN reg.streams /\ Release(DropStream(reg, id)),
         announced' = announced \ {id}
  PROVE  \E ids : Closes(id, ids)
<1>1. RegistryOK(reg)
  BY DEF TypeOK
<1>2. CASE id \in DOMAIN reg.servers /\ Release(DropServer(reg, id))
  <2> DEFINE below == {x \in DOMAIN reg.streams : ParentOf(x) = id}
             ids   == {id} \cup below
  <2>1. below = {x \in DOMAIN reg.streams : ParentOf(x) \in {id}}
    OBVIOUS
  <2> HIDE DEF below
  <2>2. Left(reg, DropServers(reg, {id}), ids)
    BY <1>1, <1>2, <2>1, DropServersLeaves
  <2>3. reg' = DropServers(reg, {id}) /\ OrphansReleased
    BY <1>2, ReleaseOrphans DEF DropServer
  <2>4. Left(reg, reg', ids)
    BY <2>2, <2>3
  <2>5. Closes(id, ids)
    BY <1>2, <2>3, <2>4 DEF Closes, below
  <2> QED
    BY <2>5
<1>3. CASE id \in DOMAIN reg.streams /\ Release(DropStream(reg, id))
  <2>1. {id} \cap DOMAIN reg.servers = {}
    BY <1>1, <1>3, KindsDisjoint
  <2>2. Left(reg, DropStreams(reg, {id}), {id})
    BY <1>1, <2>1, DropStreamsLeaves
  <2>3. reg' = DropStreams(reg, {id}) /\ OrphansReleased
    BY <1>3, ReleaseOrphans DEF DropStream
  <2>4. Left(reg, reg', {id})
    BY <2>2, <2>3
  <2>5. Closes(id, {id})
    BY <1>3, <2>3, <2>4 DEF Closes
  <2> QED
    BY <2>5
<1> QED
  BY <1>2, <1>3

(***************************************************************************)
(* Every step of the registry task is one of these.                        *)
(***************************************************************************)
LEMMA StepKinds ==
  ASSUME TypeOK, Family(reg), RegistryStep
  PROVE  \/ ChangesNothing
         \/ UsesSequenceNumber
         \/ \E sid \in ServerIds : Registers(sid)
         \/ \E id \in ClientIds, c \in Conns : Connects(id, c)
         \/ \E id, ids : Closes(id, ids)
         \/ \E id, name : Relabels(id, name)
         \/ \E c \in Conns, sid \in ServerIds, key \in PeerKeys : Accepts(c, sid, key)
         \/ Panics
         \/ Stops
<1>a. RegistryOK(reg)
  BY DEF TypeOK
<1>b. ASSUME NEW id \in ServerIds, Handled, Listen(id), task' = task
      PROVE  Registers(id)
  <2>1. id \notin DOMAIN reg.servers
    BY <1>b DEF Listen, Registered
  <2>2. Listening(reg, [reg EXCEPT !.servers = Put(reg.servers, id, NewServer)], id)
    BY <1>a, <2>1, ListenEnters
  <2>3. Listening(reg, reg', id)
    BY <1>b, <2>2 DEF Listen
  <2> QED
    BY <1>b, <2>3 DEF Listen, Registers
<1>1. CASE OpenTcpServer
  <2>1. Handled /\ Command.port \in TcpPorts
    BY <1>1, CommandEnds, CommandTyped, TaskAssumption DEF OpenTcpServer
  <2>2. TcpServerId(Command.port) \in ServerIds
    BY <2>1 DEF TcpServerId, ServerIds, TcpServerIds
  <2>3. Listen(TcpServerId(Command.port)) \/ UNCHANGED <<reg, announced>>
    BY <1>1 DEF OpenTcpServer
  <2>4. task' = task
    BY <1>1 DEF OpenTcpServer
  <2> QED
    BY <1>b, <2>1, <2>2, <2>3, <2>4 DEF ChangesNothing
<1>2. CASE OpenIpcServer
  <2>1. Handled /\ Command.path \in IpcPaths
    BY <1>2, CommandEnds, CommandTyped, TaskAssumption DEF OpenIpcServer
  <2>2. IpcServerId(Command.path) \in ServerIds
    BY <2>1 DEF IpcServerId, ServerIds, IpcServerIds
  <2>3. Listen(IpcServerId(Command.path)) \/ UNCHANGED <<reg, announced>>
    BY <1>2 DEF OpenIpcServer
  <2>4. task' = task
    BY <1>2 DEF OpenIpcServer
  <2> QED
    BY <1>b, <2>1, <2>2, <2>3, <2>4 DEF ChangesNothing
<1>3. CASE OpenTcpClient
  <2> DEFINE id == TcpClientId(Command.port)
  <2>1. Handled /\ Command.port \in TcpPorts
    BY <1>3, CommandEnds, CommandTyped, TaskAssumption DEF OpenTcpClient
  <2>2. id \in ClientIds /\ id.kind = "TcpClient"
    BY <2>1 DEF TcpClientId, ClientIds
  <2>3. \/ id \notin Registered(reg) /\ \E c \in Conns : Connected(reg, id, c)
        \/ UNCHANGED <<reg, task, announced>>
    BY <1>3 DEF OpenTcpClient
  <2> HIDE DEF id
  <2>4. ASSUME NEW c \in Conns, id \notin Registered(reg), Connected(reg, id, c)
        PROVE  Connects(id, c)
    BY <1>a, <2>1, <2>2, <2>4, ConnectedConnects
  <2> QED
    BY <2>1, <2>2, <2>3, <2>4 DEF ChangesNothing
<1>4. CASE OpenIpcClient
  <2> DEFINE next == AllocIpcClientSeq(reg)
             id   == IpcClientId(next.seq)
  <2>1. Handled
    BY <1>4, CommandEnds DEF OpenIpcClient
  <2>2. RegistryOK(next.reg) /\ next.seq \in 1..SeqMax
    BY <1>a, AllocIpcClientSeqOK
  <2>3. id \in ClientIds
    BY <2>2, SeqAssumption DEF IpcClientId, ClientIds
  <2>4. \/ \E c \in Conns : Connected(next.reg, id, c)
        \/ reg' = next.reg /\ UNCHANGED <<task, announced>>
    BY <1>4 DEF OpenIpcClient
  <2>5. /\ next.seq = reg.next_ipc_client_seq
        /\ next.reg.streams = reg.streams /\ next.reg.servers = reg.servers
        /\ next.reg.labels = reg.labels
        /\ next.reg.next_ipc_client_seq = IF reg.next_ipc_client_seq < SeqMax
                                          THEN reg.next_ipc_client_seq + 1
                                          ELSE reg.next_ipc_client_seq
    BY <1>a, AllocatedSeq
  <2> HIDE DEF next
  <2>6. ASSUME NEW c \in Conns, Connected(next.reg, id, c) PROVE Connects(id, c)
    BY <2>1, <2>2, <2>3, <2>5, <2>6, ConnectedConnects
  <2> HIDE DEF id
  <2> QED
    BY <2>1, <2>3, <2>4, <2>6 DEF UsesSequenceNumber, next
<1>5. CASE Close
  <2> DEFINE id == ResolveId(reg, Command.token)
  <2>1. Handled
    BY <1>5, CommandEnds DEF Close
  <2>2. \/ /\ \/ id \in DOMAIN reg.servers /\ Release(DropServer(reg, id))
              \/ id \in DOMAIN reg.streams /\ Release(DropStream(reg, id))
           /\ announced' = announced \ {id}
        \/ UNCHANGED <<reg, task, announced>>
    BY <1>5 DEF Close
  <2> HIDE DEF id
  <2> QED
    BY <2>1, <2>2, CloseCloses DEF ChangesNothing
<1>6. CASE Label
  <2> DEFINE id == ResolveId(reg, Command.token)
  <2>1. Handled /\ Command.name \in Labels
    BY <1>6, CommandEnds, CommandTyped, TaskAssumption DEF Label
  <2>2. reg' = reg \/ reg' = ApplyLabel(reg, id, Command.name)
    BY <1>6 DEF Label
  <2>3. task' = task /\ announced' = announced
    BY <1>6 DEF Label
  <2> HIDE DEF id
  <2>4. reg' = reg \/ /\ id \in Registered(reg) /\ ~LabelTaken(reg, id, Command.name)
                      /\ reg' = ApplyLabel(reg, id, Command.name)
    BY <2>2 DEF ApplyLabel
  <2>5. reg' = reg \/ /\ id \in Registered(reg) /\ ~LabelTaken(reg, id, Command.name)
                      /\ Relabelled(reg, reg', id, Command.name)
    BY <1>a, <2>1, <2>4, ApplyLabelRelabels
  <2> QED
    BY <2>1, <2>3, <2>5 DEF ChangesNothing, Relabels
<1>7. CASE SendOrStatus
  BY <1>7, CommandEnds DEF SendOrStatus, ChangesNothing
<1>8. CASE OnReceivedOrError
  BY <1>8, HandlerEnds DEF OnReceivedOrError, ChangesNothing
<1>9. CASE OnClosed
  <2> DEFINE id == Message.id
  <2>1. \/ /\ id \in DOMAIN reg.streams /\ Release(DropStream(reg, id))
           /\ announced' = announced \ {id}
        \/ id \notin DOMAIN reg.streams /\ UNCHANGED <<reg, task, announced>>
    BY <1>9 DEF OnClosed
  <2>2. id \notin DOMAIN reg'.streams
    <3>1. CASE id \in DOMAIN reg.streams
      <4>1. reg' = DropStreams(reg, {id})
        BY <2>1, <3>1 DEF Release, DropStream
      <4> HIDE DEF id
      <4> QED
        BY <1>a, <4>1, DropStreamsEffect
    <3> QED
      BY <2>1, <3>1
  <2>3. Handled
    BY <1>9, <2>2, HandlerEnds DEF OnClosed
  <2> HIDE DEF id
  <2> QED
    BY <2>1, <2>3, CloseCloses DEF ChangesNothing
<1>10. CASE OnAccepted
  BY <1>10, AcceptedAccepts
<1>11. CASE OnAcceptedPanics
  BY <1>11 DEF OnAcceptedPanics, Takes, Panics
<1>12. CASE OnShutdown
  <2>1. Left(reg, Shutdown(reg), Registered(reg))
    BY <1>a, ShutdownLeaves
  <2>2. reg' = Shutdown(reg) /\ OrphansReleased
    BY <1>12, ReleaseOrphans DEF OnShutdown
  <2>3. /\ regTask = "running" /\ regTask' = "stopped" /\ inbox' = <<>>
        /\ announced' = announced
    BY <1>12 DEF OnShutdown, Takes
  <2>4. Left(reg, reg', Registered(reg))
    BY <2>1, <2>2
  <2> QED
    BY <2>2, <2>3, <2>4 DEF Stops
<1> QED
  BY <1>1, <1>2, <1>3, <1>4, <1>5, <1>6, <1>7, <1>8, <1>9, <1>10, <1>11, <1>12 DEF RegistryStep
=============================================================================
