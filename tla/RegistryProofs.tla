--------------------------- MODULE RegistryProofs ---------------------------
(***************************************************************************)
(* Theorems about the registry task, for every set of connections, ports,  *)
(* paths, labels and commands and every capacity of the inbox.  First what *)
(* the methods of the registry do to the types of its maps, for every      *)
(* registry, then the type invariant, then the links of streams and servers.*)
(***************************************************************************)
EXTENDS RegistryProperties, TLAPS

-----------------------------------------------------------------------------
(***************************************************************************)
(* HashMap::insert and remove keep a map a map.                            *)
(***************************************************************************)
LEMMA EmptyMapIsMap == ASSUME NEW D, NEW R PROVE IsMap(EmptyMap, D, R)
  BY DEF IsMap, EmptyMap

LEMMA PutIsMap ==
  ASSUME NEW D, NEW R, NEW f, IsMap(f, D, R), NEW k \in D, NEW v \in R
  PROVE  /\ IsMap(Put(f, k, v), D, R)
         /\ DOMAIN Put(f, k, v) = DOMAIN f \cup {k}
         /\ \A x \in DOMAIN f \cup {k} : Put(f, k, v)[x] = IF x = k THEN v ELSE f[x]
  BY DEF IsMap, Put

LEMMA WithoutIsMap ==
  ASSUME NEW D, NEW R, NEW f, IsMap(f, D, R), NEW ks
  PROVE  /\ IsMap(Without(f, ks), D, R)
         /\ DOMAIN Without(f, ks) = DOMAIN f \ ks
         /\ \A x \in DOMAIN f \ ks : Without(f, ks)[x] = f[x]
  BY DEF IsMap, Without, Restrict

LEMMA EntryInRange ==
  ASSUME NEW D, NEW R, NEW f, IsMap(f, D, R), NEW k \in DOMAIN f
  PROVE  k \in D /\ f[k] \in R
  BY DEF IsMap

(***************************************************************************)
(* A registry whose maps are well typed is well typed.                     *)
(***************************************************************************)
LEMMA NewOK == RegistryOK(New)
<1>1. New.streams = EmptyMap /\ New.servers = EmptyMap /\ New.labels = EmptyMap
      /\ New.next_ipc_client_seq = 1
      /\ DOMAIN New = {"streams", "servers", "labels", "next_ipc_client_seq"}
  BY DEF New
<1> QED
  BY <1>1, EmptyMapIsMap, SeqAssumption DEF RegistryOK

LEMMA StreamsOK ==
  ASSUME NEW r, RegistryOK(r), NEW f, IsMap(f, StreamIds, StreamHandles)
  PROVE  RegistryOK([r EXCEPT !.streams = f])
  BY DEF RegistryOK

LEMMA ServersOK ==
  ASSUME NEW r, RegistryOK(r), NEW f, IsMap(f, ServerIds, ServerHandles)
  PROVE  RegistryOK([r EXCEPT !.servers = f])
  BY DEF RegistryOK

LEMMA LabelsOK ==
  ASSUME NEW r, RegistryOK(r), NEW f, IsMap(f, Labels, ConnectionId)
  PROVE  RegistryOK([r EXCEPT !.labels = f])
  BY DEF RegistryOK

LEMMA ServerPutOK ==
  ASSUME NEW r, RegistryOK(r), NEW sid \in ServerIds, NEW srv \in ServerHandles
  PROVE  RegistryOK([r EXCEPT !.servers = Put(r.servers, sid, srv)])
<1>1. IsMap(Put(r.servers, sid, srv), ServerIds, ServerHandles)
  BY PutIsMap DEF RegistryOK
<1> QED
  BY <1>1, ServersOK

(***************************************************************************)
(* insert_stream.                                                          *)
(***************************************************************************)
LEMMA ChildrenOK ==
  ASSUME NEW srv \in ServerHandles, NEW kids \in SUBSET AcceptedIds
  PROVE  /\ [srv EXCEPT !.children = kids] \in ServerHandles
         /\ [srv EXCEPT !.children = kids].children = kids
  BY DEF ServerHandles

LEMMA AddChildOK ==
  ASSUME NEW f, IsMap(f, ServerIds, ServerHandles), NEW sid, NEW id \in AcceptedIds
  PROVE  IsMap(AddChild(f, sid, id), ServerIds, ServerHandles)
<1>1. CASE sid \notin DOMAIN f
  BY <1>1 DEF AddChild
<1>2. CASE sid \in DOMAIN f
  <2> DEFINE kids == f[sid].children \cup {id}
             srv  == [f[sid] EXCEPT !.children = kids]
  <2>1. sid \in ServerIds /\ f[sid] \in ServerHandles
    BY <1>2, EntryInRange
  <2>2. kids \in SUBSET AcceptedIds
    BY <2>1 DEF ServerHandles
  <2>3. AddChild(f, sid, id) = Put(f, sid, srv)
    BY <1>2 DEF AddChild
  <2> HIDE DEF kids
  <2>4. srv \in ServerHandles
    BY <2>1, <2>2, ChildrenOK
  <2> HIDE DEF srv
  <2>5. IsMap(Put(f, sid, srv), ServerIds, ServerHandles)
    BY <2>1, <2>4, PutIsMap
  <2> QED
    BY <2>3, <2>5
<1> QED
  BY <1>1, <1>2

LEMMA InsertStreamOK ==
  ASSUME NEW r, RegistryOK(r), NEW id \in StreamIds, NEW h \in StreamHandles,
         h.parent \in ServerIds => id \in AcceptedIds
  PROVE  RegistryOK(InsertStream(r, id, h))
<1> DEFINE st == Put(r.streams, id, h)
           sv == AddChild(r.servers, h.parent, id)
<1>0. IsMap(r.streams, StreamIds, StreamHandles) /\ IsMap(r.servers, ServerIds, ServerHandles)
  BY DEF RegistryOK
<1>1. IsMap(st, StreamIds, StreamHandles)
  BY <1>0, PutIsMap
<1>2. IsMap(sv, ServerIds, ServerHandles)
  <2>1. CASE id \in AcceptedIds
    BY <1>0, <2>1, AddChildOK
  <2>2. CASE id \notin AcceptedIds
    BY <1>0, <2>2 DEF AddChild, IsMap
  <2> QED
    BY <2>1, <2>2
<1>3. InsertStream(r, id, h) = [[r EXCEPT !.streams = st] EXCEPT !.servers = sv]
  BY DEF InsertStream, RegistryOK
<1> HIDE DEF st, sv
<1>4. RegistryOK([r EXCEPT !.streams = st])
  BY <1>1, StreamsOK
<1> DEFINE r1 == [r EXCEPT !.streams = st]
<1> HIDE DEF r1
<1>5. RegistryOK([r1 EXCEPT !.servers = sv])
  BY <1>2, <1>4, ServersOK DEF r1
<1> QED
  BY <1>3, <1>5 DEF r1

(***************************************************************************)
(* drop_stream, drop_server and shutdown.                                  *)
(***************************************************************************)
LEMMA WithoutChildrenOK ==
  ASSUME NEW srv \in ServerHandles, NEW ids
  PROVE  WithoutChildren(srv, ids) \in ServerHandles
<1>1. srv.children \ ids \in SUBSET AcceptedIds
  BY DEF ServerHandles
<1> QED
  BY <1>1, ChildrenOK DEF WithoutChildren

LEMMA ThreeMapsOK ==
  ASSUME NEW r, RegistryOK(r),
         NEW st, IsMap(st, StreamIds, StreamHandles),
         NEW sv, IsMap(sv, ServerIds, ServerHandles),
         NEW lb, IsMap(lb, Labels, ConnectionId)
  PROVE  RegistryOK([r EXCEPT !.streams = st, !.servers = sv, !.labels = lb])
  BY DEF RegistryOK

LEMMA MapsOf ==
  ASSUME NEW r, RegistryOK(r)
  PROVE  /\ IsMap(r.streams, StreamIds, StreamHandles)
         /\ IsMap(r.servers, ServerIds, ServerHandles)
         /\ IsMap(r.labels, Labels, ConnectionId)
         /\ r.next_ipc_client_seq \in 1..SeqMax
  BY DEF RegistryOK

LEMMA DropStreamsOK ==
  ASSUME NEW r, RegistryOK(r), NEW ids
  PROVE  RegistryOK(DropStreams(r, ids))
<1> DEFINE gone == ids \cap DOMAIN r.streams
           GoneOf(s) == {id \in gone : r.streams[id].parent = s}
           st == Without(r.streams, gone)
           sv == [s \in DOMAIN r.servers |-> WithoutChildren(r.servers[s], GoneOf(s))]
           lb == Without(r.labels, {r.streams[id].label : id \in gone})
<1>1. IsMap(st, StreamIds, StreamHandles)
  BY MapsOf, WithoutIsMap
<1>2. IsMap(sv, ServerIds, ServerHandles)
  <2>1. IsMap(r.servers, ServerIds, ServerHandles)
    BY MapsOf
  <2>2. ASSUME NEW s \in DOMAIN r.servers
        PROVE  WithoutChildren(r.servers[s], GoneOf(s)) \in ServerHandles
    <3>1. r.servers[s] \in ServerHandles
      BY <2>1, EntryInRange
    <3> QED
      BY <3>1, WithoutChildrenOK
  <2> QED
    BY <2>1, <2>2 DEF IsMap
<1>3. IsMap(lb, Labels, ConnectionId)
  BY MapsOf, WithoutIsMap
<1>4. DropStreams(r, ids) = [r EXCEPT !.streams = st, !.servers = sv, !.labels = lb]
  BY DEF DropStreams
<1> HIDE DEF st, sv, lb
<1>5. RegistryOK([r EXCEPT !.streams = st, !.servers = sv, !.labels = lb])
  BY <1>1, <1>2, <1>3, ThreeMapsOK
<1> QED
  BY <1>4, <1>5

LEMMA DropServersOK ==
  ASSUME NEW r, RegistryOK(r), NEW sids
  PROVE  RegistryOK(DropServers(r, sids))
<1> DEFINE gone     == sids \cap DOMAIN r.servers
           children == UNION {r.servers[s].children : s \in gone}
           r1       == [r EXCEPT !.servers = Without(@, gone)]
           r2       == DropStreams(r1, children)
           names    == {r.servers[s].label : s \in gone}
<1>1. RegistryOK(r1)
  <2>1. IsMap(Without(r.servers, gone), ServerIds, ServerHandles)
    BY MapsOf, WithoutIsMap
  <2> QED
    BY <2>1, ServersOK
<1> HIDE DEF r1
<1>2. RegistryOK(r2)
  BY <1>1, DropStreamsOK
<1> HIDE DEF r2
<1>3. IsMap(Without(r2.labels, names), Labels, ConnectionId)
  BY <1>2, MapsOf, WithoutIsMap
<1>4. RegistryOK([r2 EXCEPT !.labels = Without(@, names)])
  BY <1>2, <1>3, LabelsOK
<1> QED
  BY <1>4 DEF DropServers, r1, r2

LEMMA ShutdownOK ==
  ASSUME NEW r, RegistryOK(r)
  PROVE  RegistryOK(Shutdown(r))
  BY DropServersOK, DropStreamsOK DEF Shutdown

(***************************************************************************)
(* alloc_ipc_client_seq, apply_label and resolve_id.                       *)
(***************************************************************************)
LEMMA AllocIpcClientSeqOK ==
  ASSUME NEW r, RegistryOK(r)
  PROVE  /\ AllocIpcClientSeq(r).seq \in 1..SeqMax
         /\ RegistryOK(AllocIpcClientSeq(r).reg)
         /\ AllocIpcClientSeq(r).reg.streams = r.streams
         /\ AllocIpcClientSeq(r).reg.servers = r.servers
  BY SeqAssumption DEF RegistryOK, AllocIpcClientSeq

LEMMA RelabelOK ==
  ASSUME NEW h, h \in StreamHandles \/ h \in ServerHandles, NEW name \in Labels
  PROVE  /\ h \in StreamHandles => [h EXCEPT !.label = name] \in StreamHandles
         /\ h \in ServerHandles => [h EXCEPT !.label = name] \in ServerHandles
  BY DEF StreamHandles, ServerHandles, MaybeLabel

LEMMA ApplyLabelOK ==
  ASSUME NEW r, RegistryOK(r), NEW id, NEW name \in Labels
  PROVE  RegistryOK(ApplyLabel(r, id, name))
<1> DEFINE lb    == Put(Without(r.labels, {CurrentLabel(r, id)}), name, id)
           named == [r EXCEPT !.labels = lb]
           st    == [r.streams EXCEPT ![id].label = name]
           sv    == [r.servers EXCEPT ![id].label = name]
<1> SUFFICES ASSUME ~LabelTaken(r, id, name), id \in Registered(r)
             PROVE  RegistryOK(ApplyLabel(r, id, name))
  BY DEF ApplyLabel
<1>1. IsMap(r.streams, StreamIds, StreamHandles) /\ IsMap(r.servers, ServerIds, ServerHandles)
  BY MapsOf
<1>2. IsMap(lb, Labels, ConnectionId)
  <2>1. id \in ConnectionId
    BY <1>1 DEF Registered, IsMap, ConnectionId
  <2>2. IsMap(Without(r.labels, {CurrentLabel(r, id)}), Labels, ConnectionId)
    BY MapsOf, WithoutIsMap
  <2> QED
    BY <2>1, <2>2, PutIsMap
<1> HIDE DEF lb
<1>3. RegistryOK(named) /\ named.streams = r.streams /\ named.servers = r.servers
  BY <1>2, LabelsOK DEF RegistryOK
<1>5. CASE id \in DOMAIN r.streams
  <2>1. IsMap(st, StreamIds, StreamHandles)
    BY <1>1, <1>5, RelabelOK, EntryInRange DEF IsMap
  <2>2. ApplyLabel(r, id, name) = [named EXCEPT !.streams = st]
    BY <1>3, <1>5 DEF ApplyLabel, Registered, lb
  <2> HIDE DEF named, st
  <2>3. RegistryOK([named EXCEPT !.streams = st])
    BY <1>3, <2>1, StreamsOK
  <2> QED
    BY <2>2, <2>3
<1>6. CASE id \notin DOMAIN r.streams
  <2>0. id \in DOMAIN r.servers
    BY <1>6 DEF Registered
  <2>1. IsMap(sv, ServerIds, ServerHandles)
    BY <1>1, <2>0, RelabelOK, EntryInRange DEF IsMap
  <2>2. ApplyLabel(r, id, name) = [named EXCEPT !.servers = sv]
    BY <1>3, <1>6, <2>0 DEF ApplyLabel, Registered, lb
  <2> HIDE DEF named, sv
  <2>3. RegistryOK([named EXCEPT !.servers = sv])
    BY <1>3, <2>1, ServersOK
  <2> QED
    BY <2>2, <2>3
<1> QED
  BY <1>5, <1>6

(***************************************************************************)
(* rename_accepted_tcp and allocate_accepted_tcp_id.                       *)
(***************************************************************************)
LEMMA AcceptedIdTyped ==
  ASSUME NEW sid \in ServerIds, NEW key \in PeerKeys, NEW n \in Nat
  PROVE  /\ AcceptedId(sid, key, n) \in AcceptedIds
         /\ AcceptedId(sid, key, n) \in StreamIds
         /\ AcceptedId(sid, key, n).kind = "Accepted"
         /\ AcceptedId(sid, key, n).parent = sid
         /\ AcceptedId(sid, key, n).key = key
         /\ AcceptedId(sid, key, n).disambig = n
  BY DEF AcceptedId, AcceptedIds, StreamIds

\* What TakeOut leaves of the two maps; TakeOutOK adds that they keep their types.
ChildrenWithout(r, id, s) ==
    IF s = r.streams[id].parent THEN r.servers[s].children \ {id} ELSE r.servers[s].children

LEMMA TakeOutShape ==
  ASSUME NEW r, RegistryOK(r), NEW id
  PROVE  /\ TakeOut(r, id).streams = Without(r.streams, {id})
         /\ DOMAIN TakeOut(r, id).servers = DOMAIN r.servers
         /\ \A s \in DOMAIN r.servers :
               TakeOut(r, id).servers[s].children = ChildrenWithout(r, id, s)
<1> DEFINE Leaves(s) == IF s = r.streams[id].parent THEN {id} ELSE {}
           sv == [s \in DOMAIN r.servers |-> WithoutChildren(r.servers[s], Leaves(s))]
<1>1. ASSUME NEW s \in DOMAIN r.servers
      PROVE  WithoutChildren(r.servers[s], Leaves(s)).children = r.servers[s].children \ Leaves(s)
  <2>1. IsMap(r.servers, ServerIds, ServerHandles)
    BY MapsOf
  <2>2. r.servers[s] \in ServerHandles
    BY <2>1, EntryInRange
  <2> QED
    BY <2>2 DEF WithoutChildren, ServerHandles
<1>2. TakeOut(r, id).streams = Without(r.streams, {id}) /\ TakeOut(r, id).servers = sv
  BY DEF TakeOut, RegistryOK
<1>3. /\ DOMAIN sv = DOMAIN r.servers
      /\ \A s \in DOMAIN r.servers : sv[s].children = ChildrenWithout(r, id, s)
  BY <1>1 DEF ChildrenWithout
<1> HIDE DEF sv
<1> QED
  BY <1>2, <1>3

LEMMA TakeOutOK ==
  ASSUME NEW r, RegistryOK(r), NEW id
  PROVE  RegistryOK(TakeOut(r, id))
<1> DEFINE st == Without(r.streams, {id})
           Leaves(s) == IF s = r.streams[id].parent THEN {id} ELSE {}
           sv == [s \in DOMAIN r.servers |-> WithoutChildren(r.servers[s], Leaves(s))]
           r1 == [r EXCEPT !.streams = st]
           r2 == [r1 EXCEPT !.servers = sv]
<1>1. IsMap(r.streams, StreamIds, StreamHandles) /\ IsMap(r.servers, ServerIds, ServerHandles)
  BY MapsOf
<1>2. IsMap(st, StreamIds, StreamHandles)
  BY <1>1, WithoutIsMap
<1>3. ASSUME NEW s \in DOMAIN r.servers
      PROVE  WithoutChildren(r.servers[s], Leaves(s)) \in ServerHandles
  <2>1. r.servers[s] \in ServerHandles
    BY <1>1, EntryInRange
  <2> QED
    BY <2>1, WithoutChildrenOK
<1>4. IsMap(sv, ServerIds, ServerHandles)
  BY <1>1, <1>3 DEF IsMap
<1>5. TakeOut(r, id) = r2
  BY DEF TakeOut, RegistryOK
<1> HIDE DEF st, sv
<1>6. RegistryOK(r1)
  BY <1>2, StreamsOK
<1> HIDE DEF r1
<1>7. RegistryOK(r2)
  BY <1>4, <1>6, ServersOK
<1> HIDE DEF r2
<1> QED
  BY <1>5, <1>7

LEMMA RenameAcceptedOK ==
  ASSUME NEW r, RegistryOK(r), NEW old, NEW new \in AcceptedIds
  PROVE  RegistryOK(RenameAccepted(r, old, new))
<1>1. CASE old \notin DOMAIN r.streams
  BY <1>1 DEF RenameAccepted
<1>2. CASE old \in DOMAIN r.streams
  <2> DEFINE r1 == TakeOut(r, old)
  <2>1. IsMap(r.streams, StreamIds, StreamHandles)
    BY MapsOf
  <2>2. r.streams[old] \in StreamHandles /\ new \in StreamIds
    BY <1>2, <2>1, EntryInRange DEF StreamIds
  <2>3. RegistryOK(r1)
    BY TakeOutOK
  <2> HIDE DEF r1
  <2>4. RegistryOK(InsertStream(r1, new, r.streams[old]))
    BY <2>2, <2>3, InsertStreamOK
  <2> QED
    BY <1>2, <2>4 DEF RenameAccepted, r1
<1> QED
  BY <1>1, <1>2

LEMMA TablesOK ==
  ASSUME NEW srv \in ServerHandles, NEW base \in SUBSET PeerKeys, NEW next \in [PeerKeys -> Nat]
  PROVE  [srv EXCEPT !.base_no_suffix = base, !.disambig_next = next] \in ServerHandles
  BY DEF ServerHandles

LEMMA AllocateAcceptedIdOK ==
  ASSUME NEW r, RegistryOK(r), NEW sid \in DOMAIN r.servers, NEW key \in PeerKeys
  PROVE  /\ AllocateAcceptedId(r, sid, key).id \in AcceptedIds
         /\ AllocateAcceptedId(r, sid, key).id.parent = sid
         /\ RegistryOK(AllocateAcceptedId(r, sid, key).reg)
<1> DEFINE srv  == r.servers[sid]
           base == srv.base_no_suffix
           next == srv.disambig_next
           Tables(b, n) == [srv EXCEPT !.base_no_suffix = b, !.disambig_next = n]
           With(b, n)   == [r EXCEPT !.servers = Put(r.servers, sid, Tables(b, n))]
<1>1. sid \in ServerIds /\ srv \in ServerHandles
  <2>1. IsMap(r.servers, ServerIds, ServerHandles)
    BY MapsOf
  <2> QED
    BY <2>1, EntryInRange
<1>2. base \in SUBSET PeerKeys /\ next \in [PeerKeys -> Nat]
  BY <1>1 DEF ServerHandles
<1>3. ASSUME NEW b \in SUBSET PeerKeys, NEW n \in [PeerKeys -> Nat]
      PROVE  RegistryOK(With(b, n))
  <2>1. Tables(b, n) \in ServerHandles
    BY <1>1, TablesOK
  <2> HIDE DEF Tables
  <2> QED
    BY <1>1, <2>1, ServerPutOK
<1>4. CASE FirstOfKey(srv, key)
  <2>1. /\ AllocateAcceptedId(r, sid, key).id = AcceptedId(sid, key, 0)
        /\ AllocateAcceptedId(r, sid, key).reg = With(base \cup {key}, next)
    BY <1>4 DEF AllocateAcceptedId, FirstOfKey, BaseId, NoSuffix
  <2> HIDE DEF With, base, next
  <2>2. RegistryOK(With(base \cup {key}, next))
    BY <1>2, <1>3
  <2> QED
    BY <1>1, <2>1, <2>2, AcceptedIdTyped
<1>5. CASE ~FirstOfKey(srv, key) /\ key \in base
  <2> DEFINE collided == With(base \ {key}, [next EXCEPT ![key] = 2])
  <2>1. /\ AllocateAcceptedId(r, sid, key).id = AcceptedId(sid, key, 2)
        /\ AllocateAcceptedId(r, sid, key).reg
             = RenameAccepted(collided, BaseId(sid, key), AcceptedId(sid, key, 1))
    BY <1>5 DEF AllocateAcceptedId
  <2> HIDE DEF With, base, next
  <2>2. RegistryOK(collided)
    BY <1>2, <1>3
  <2> HIDE DEF collided
  <2>3. RegistryOK(RenameAccepted(collided, BaseId(sid, key), AcceptedId(sid, key, 1)))
    BY <1>1, <2>2, RenameAcceptedOK, AcceptedIdTyped
  <2> QED
    BY <1>1, <2>1, <2>3, AcceptedIdTyped
<1>6. CASE ~FirstOfKey(srv, key) /\ key \notin base
  <2> DEFINE n == [next EXCEPT ![key] = next[key] + 1]
  <2>1. /\ AllocateAcceptedId(r, sid, key).id = AcceptedId(sid, key, next[key])
        /\ AllocateAcceptedId(r, sid, key).reg = With(base, n)
    BY <1>6 DEF AllocateAcceptedId
  <2>2. n \in [PeerKeys -> Nat] /\ next[key] \in Nat
    BY <1>2
  <2> HIDE DEF With, base, next, n
  <2>3. RegistryOK(With(base, n))
    BY <1>2, <1>3, <2>2
  <2> QED
    BY <1>1, <2>1, <2>2, <2>3, AcceptedIdTyped
<1> QED
  BY <1>4, <1>5, <1>6

-----------------------------------------------------------------------------
(***************************************************************************)
(* What the methods do to the streams and to the children of the servers.  *)
(***************************************************************************)
LEMMA AddChildEffect ==
  ASSUME NEW f, IsMap(f, ServerIds, ServerHandles), NEW sid, NEW id
  PROVE  /\ DOMAIN AddChild(f, sid, id) = DOMAIN f
         /\ \A s \in DOMAIN f :
               AddChild(f, sid, id)[s].children
                 = IF s = sid THEN f[s].children \cup {id} ELSE f[s].children
<1>1. CASE sid \notin DOMAIN f
  BY <1>1 DEF AddChild
<1>2. CASE sid \in DOMAIN f
  <2> DEFINE kids == f[sid].children \cup {id}
             srv  == [f[sid] EXCEPT !.children = kids]
  <2>1. f[sid] \in ServerHandles
    BY <1>2, EntryInRange
  <2>2. srv.children = kids
    BY <2>1 DEF ServerHandles
  <2>3. AddChild(f, sid, id) = Put(f, sid, srv)
    BY <1>2 DEF AddChild
  <2> HIDE DEF srv
  <2> QED
    BY <1>2, <2>2, <2>3 DEF Put
<1> QED
  BY <1>1, <1>2

LEMMA InsertStreamEffect ==
  ASSUME NEW r, RegistryOK(r), NEW id, NEW h
  PROVE  LET r2 == InsertStream(r, id, h)
         IN  /\ r2.streams = Put(r.streams, id, h)
             /\ DOMAIN r2.servers = DOMAIN r.servers
             /\ \A s \in DOMAIN r.servers :
                   r2.servers[s].children = IF s = h.parent THEN r.servers[s].children \cup {id}
                                                            ELSE r.servers[s].children
<1>1. /\ InsertStream(r, id, h).streams = Put(r.streams, id, h)
      /\ InsertStream(r, id, h).servers = AddChild(r.servers, h.parent, id)
  BY DEF InsertStream, RegistryOK
<1>2. IsMap(r.servers, ServerIds, ServerHandles)
  BY MapsOf
<1> QED
  BY <1>1, <1>2, AddChildEffect

LEMMA WithoutChildrenEffect ==
  ASSUME NEW srv \in ServerHandles, NEW ids
  PROVE  WithoutChildren(srv, ids).children = srv.children \ ids
  BY DEF WithoutChildren, ServerHandles

LEMMA DropStreamsEffect ==
  ASSUME NEW r, RegistryOK(r), NEW ids
  PROVE  LET r2 == DropStreams(r, ids)
         IN  /\ DOMAIN r2.streams = DOMAIN r.streams \ ids
             /\ \A id \in DOMAIN r.streams \ ids : r2.streams[id] = r.streams[id]
             /\ DOMAIN r2.servers = DOMAIN r.servers
             /\ \A s \in DOMAIN r.servers :
                   r2.servers[s].children = r.servers[s].children
                      \ {id \in ids \cap DOMAIN r.streams : r.streams[id].parent = s}
<1> DEFINE gone == ids \cap DOMAIN r.streams
           GoneOf(s) == {id \in gone : r.streams[id].parent = s}
           sv == [s \in DOMAIN r.servers |-> WithoutChildren(r.servers[s], GoneOf(s))]
           r2 == DropStreams(r, ids)
<1>1. r2.streams = Without(r.streams, gone) /\ r2.servers = sv
  BY DEF DropStreams, RegistryOK
<1>2. ASSUME NEW s \in DOMAIN r.servers
      PROVE  sv[s].children = r.servers[s].children \ GoneOf(s)
  <2>1. r.servers[s] \in ServerHandles
    BY MapsOf, EntryInRange
  <2> QED
    BY <2>1, WithoutChildrenEffect
<1>3. /\ DOMAIN Without(r.streams, gone) = DOMAIN r.streams \ ids
      /\ \A id \in DOMAIN r.streams \ ids : Without(r.streams, gone)[id] = r.streams[id]
  BY DEF Without, Restrict
<1> HIDE DEF r2
<1> QED
  BY <1>1, <1>2, <1>3 DEF r2

-----------------------------------------------------------------------------

(***************************************************************************)
(* A send appends a message, a handler takes the first one.                *)
(***************************************************************************)
LEMMA PostOK ==
  ASSUME inbox \in Seq(Messages), NEW m \in Messages, Post(m)
  PROVE  inbox' \in Seq(Messages) /\ regTask = "running"
  BY DEF Post

LEMMA HandlesOK ==
  ASSUME inbox \in Seq(Messages), NEW type, Handles(type)
  PROVE  /\ inbox' \in Seq(Messages)
         /\ Message \in Messages
         /\ Message.type = type
         /\ UNCHANGED <<regTask, sigint, peerClosed>>
  BY DEF Handles, Takes, Message, outside

LEMMA MessagesTyped ==
  /\ \A cmd \in Commands : CommandMessage(cmd) \in Messages
  /\ \A kind \in {"Received", "Error", "Closed"}, id \in ConnectionId :
        EventMessage(kind, id) \in Messages
  /\ \A c \in Conns, id \in AcceptedIds : AcceptedMessage(c, id) \in Messages
  /\ ShutdownMessage \in Messages
  BY DEF Messages, CommandMessage, EventMessage, AcceptedMessage, ShutdownMessage

LEMMA MessageFields ==
  ASSUME NEW m \in Messages
  PROVE  /\ m.type = "Command" => m.cmd \in Commands
         /\ m.type = "Event" => m.id \in ConnectionId
         /\ m.type = "Accepted" => m.conn \in Conns /\ m.child \in AcceptedIds
  BY DEF Messages, CommandMessage, EventMessage, AcceptedMessage, ShutdownMessage

(***************************************************************************)
(* Where a task may be.                                                    *)
(***************************************************************************)
LEMMA TaskKinds ==
  ASSUME NEW t \in Tasks
  PROVE  \/ t = NoTask
         \/ t \in [pc : {"accepted", "queued"}, id : AcceptedIds, aborted : BOOLEAN]
         \/ t \in [pc : {"reading", "failing", "ended"}, id : StreamIds, aborted : BOOLEAN]
  BY DEF Tasks

LEMMA TaskFields ==
  ASSUME NEW t \in Tasks
  PROVE  /\ t.pc = "accepted" => t.id \in AcceptedIds
         /\ t.pc \in {"reading", "failing", "ended"} => t.id \in StreamIds
         /\ t.aborted \in BOOLEAN
         /\ t.aborted => t.pc \in {"accepted", "queued", "reading", "failing", "ended"}
<1>1. CASE t = NoTask
  BY <1>1 DEF NoTask
<1>2. CASE t \in [pc : {"accepted", "queued"}, id : AcceptedIds, aborted : BOOLEAN]
  BY <1>2
<1>3. CASE t \in [pc : {"reading", "failing", "ended"}, id : StreamIds, aborted : BOOLEAN]
  BY <1>3
<1> QED
  BY <1>1, <1>2, <1>3, TaskKinds

LEMMA TaskMoves ==
  ASSUME NEW t \in Tasks
  PROVE  /\ t.pc = "accepted" =>
              [[t EXCEPT !.pc = "queued"] EXCEPT !.aborted = FALSE] \in Tasks
         /\ t.pc = "reading" => [t EXCEPT !.pc = "failing"] \in Tasks
         /\ t.pc \in {"accepted", "reading", "failing"} =>
              /\ [t EXCEPT !.pc = "ended"] \in Tasks
              /\ [t EXCEPT !.aborted = TRUE] \in Tasks
         /\ t.aborted => [t EXCEPT !.pc = "ended"] \in Tasks
<1>1. CASE t = NoTask
  BY <1>1 DEF NoTask
<1>2. CASE t \in [pc : {"accepted", "queued"}, id : AcceptedIds, aborted : BOOLEAN]
  BY <1>2 DEF Tasks, StreamIds
<1>3. CASE t \in [pc : {"reading", "failing", "ended"}, id : StreamIds, aborted : BOOLEAN]
  BY <1>3 DEF Tasks
<1> QED
  BY <1>1, <1>2, <1>3, TaskKinds

LEMMA TaskSpawns ==
  ASSUME NEW id \in StreamIds
  PROVE  [pc |-> "reading", id |-> id, aborted |-> FALSE] \in Tasks
  BY DEF Tasks

LEMMA SpawnOK ==
  ASSUME task \in [Conns -> Tasks], NEW c \in Conns, NEW id \in StreamIds, Spawn(c, id)
  PROVE  task' \in [Conns -> Tasks]
  BY TaskSpawns DEF Spawn

LEMMA ReleaseOK ==
  ASSUME TypeOK, NEW r2, RegistryOK(r2), Release(r2)
  PROVE  /\ RegistryOK(reg)'
         /\ task' \in [Conns -> Tasks]
         /\ sockFiles' \in [IpcPaths -> {"absent", "stale", "ours"}]
<1> DEFINE streams == DOMAIN reg.streams \ DOMAIN r2.streams
           servers == DOMAIN reg.servers \ DOMAIN r2.servers
           Held(c) == \/ Running(c) /\ \E id \in streams : reg.streams[id].conn = c
                      \/ task[c].pc = "accepted" /\ task[c].id.parent \in servers
<1>1. PICK polled \in SUBSET {c \in Conns : Held(c)} :
         task' = [c \in Conns |-> IF Held(c) THEN Aborted(task[c], c \in polled) ELSE task[c]]
  BY DEF Release
<1>2. ASSUME NEW c \in Conns, Held(c)
      PROVE  Aborted(task[c], c \in polled) \in Tasks
  <2>1. task[c] \in Tasks /\ task[c].pc \in {"accepted", "reading", "failing"}
    BY <1>2 DEF TypeOK, Running
  <2> QED
    BY <2>1, TaskMoves DEF Aborted
<1>3. task' \in [Conns -> Tasks]
  <2> HIDE DEF Held
  <2> QED
    BY <1>1, <1>2 DEF TypeOK
<1> QED
  BY <1>3 DEF Release, TypeOK

-----------------------------------------------------------------------------
(***************************************************************************)
(* Type correctness: the steps of the senders.                             *)
(***************************************************************************)
LEMMA UserStepTyped == TypeOK /\ UserStep => TypeOK'
<1> SUFFICES ASSUME TypeOK, UserStep PROVE TypeOK'
  OBVIOUS
<1> USE MessagesTyped
<1>1. CASE UserEnters
  BY <1>1 DEF UserEnters, TypeOK, outside
<1>2. CASE ReplSends
  <2>1. \/ \E cmd \in Commands : Post(CommandMessage(cmd))
        \/ Post(ShutdownMessage)
    BY <1>2 DEF ReplSends
  <2>2. inbox' \in Seq(Messages)
    BY <2>1, PostOK DEF TypeOK
  <2> QED
    BY <1>2, <2>2 DEF ReplSends, TypeOK, outside
<1>3. CASE ReplNoticesEnd
  BY <1>3 DEF ReplNoticesEnd, TypeOK, outside
<1>4. CASE CtrlC
  BY <1>4 DEF CtrlC, TypeOK
<1>5. CASE MainSends
  <2>1. inbox' \in Seq(Messages)
    BY <1>5, PostOK DEF MainSends, TypeOK
  <2> QED
    BY <1>5, <2>1 DEF MainSends, TypeOK
<1> QED
  BY <1>1, <1>2, <1>3, <1>4, <1>5 DEF UserStep

LEMMA AcceptStepTyped == TypeOK /\ AcceptStep => TypeOK'
<1> SUFFICES ASSUME TypeOK, AcceptStep PROVE TypeOK'
  OBVIOUS
<1>0. IsMap(reg.servers, ServerIds, ServerHandles)
  BY MapsOf DEF TypeOK
<1>1. ASSUME NEW c \in Conns, NEW sid \in DOMAIN reg.servers, NEW key \in PeerKeys,
             Accept(c, sid, key)
      PROVE  TypeOK'
  <2>1. sid \in ServerIds
    BY <1>0, EntryInRange
  <2>2. BaseId(sid, key) \in AcceptedIds
    BY <2>1, AcceptedIdTyped DEF BaseId, NoSuffix
  <2>3. [pc |-> "accepted", id |-> BaseId(sid, key), aborted |-> FALSE] \in Tasks
    BY <2>2 DEF Tasks
  <2>4. task' \in [Conns -> Tasks]
    BY <1>1, <2>3 DEF Accept, TypeOK
  <2> QED
    BY <1>1, <2>4 DEF Accept, TypeOK, outside
<1>2. ASSUME NEW c \in Conns, AcceptSends(c) PROVE TypeOK'
  <2> DEFINE t == [[task[c] EXCEPT !.pc = "queued"] EXCEPT !.aborted = FALSE]
  <2>1. task[c] \in Tasks /\ task[c].pc = "accepted"
    BY <1>2 DEF TypeOK, AcceptSends
  <2>2. task[c].id \in AcceptedIds /\ t \in Tasks
    BY <2>1, TaskFields, TaskMoves
  <2>3. inbox' \in Seq(Messages)
    BY <1>2, <2>2, MessagesTyped, PostOK DEF AcceptSends, TypeOK
  <2>4. task' = [task EXCEPT ![c] = t]
    BY <1>2 DEF AcceptSends, TypeOK
  <2>5. task' \in [Conns -> Tasks]
    BY <2>2, <2>4 DEF TypeOK
  <2> QED
    BY <1>2, <2>3, <2>5 DEF AcceptSends, TypeOK, outside
<1>3. ASSUME NEW sid \in DOMAIN reg.servers, AcceptFails(sid) PROVE TypeOK'
  <2>1. EventMessage("Error", sid) \in Messages
    BY <1>0, EntryInRange, MessagesTyped DEF ConnectionId
  <2>2. inbox' \in Seq(Messages)
    BY <1>3, <2>1, PostOK DEF AcceptFails, TypeOK
  <2> QED
    BY <1>3, <2>2 DEF AcceptFails, TypeOK, outside
<1> QED
  BY <1>1, <1>2, <1>3 DEF AcceptStep

LEMMA ReadStepTyped == TypeOK /\ ReadStep => TypeOK'
<1> SUFFICES ASSUME TypeOK, NEW c \in Conns,
                    \/ PeerCloses(c) \/ ReadData(c) \/ ReadEof(c)
                    \/ ReadError(c) \/ ReadErrorCloses(c) \/ AbortedEnds(c)
             PROVE  TypeOK'
  BY DEF ReadStep
<1>1. task[c] \in Tasks
  BY DEF TypeOK
<1>2. ASSUME task[c].pc \in {"reading", "failing"}
      PROVE  /\ EventMessage("Received", task[c].id) \in Messages
             /\ EventMessage("Error", task[c].id) \in Messages
             /\ EventMessage("Closed", task[c].id) \in Messages
  BY <1>1, <1>2, TaskFields, MessagesTyped DEF ConnectionId
<1>3. ASSUME NEW t \in Tasks, task' = [task EXCEPT ![c] = t]
      PROVE  task' \in [Conns -> Tasks]
  BY <1>3 DEF TypeOK
<1>4. CASE PeerCloses(c)
  BY <1>4 DEF PeerCloses, TypeOK
<1>5. CASE ReadData(c)
  <2>1. inbox' \in Seq(Messages)
    BY <1>2, <1>5, PostOK DEF ReadData, TypeOK
  <2> QED
    BY <1>5, <2>1 DEF ReadData, TypeOK, outside
<1>6. CASE ReadEof(c)
  <2>1. inbox' \in Seq(Messages)
    BY <1>2, <1>6, PostOK DEF ReadEof, TypeOK
  <2>2. task' \in [Conns -> Tasks]
    BY <1>1, <1>3, <1>6, TaskMoves DEF ReadEof
  <2> QED
    BY <1>6, <2>1, <2>2 DEF ReadEof, TypeOK, outside
<1>7. CASE ReadError(c)
  <2>1. inbox' \in Seq(Messages)
    BY <1>2, <1>7, PostOK DEF ReadError, TypeOK
  <2>2. task' \in [Conns -> Tasks]
    BY <1>1, <1>3, <1>7, TaskMoves DEF ReadError
  <2> QED
    BY <1>7, <2>1, <2>2 DEF ReadError, TypeOK, outside
<1>8. CASE ReadErrorCloses(c)
  <2>1. inbox' \in Seq(Messages)
    BY <1>2, <1>8, PostOK DEF ReadErrorCloses, TypeOK
  <2>2. task' \in [Conns -> Tasks]
    BY <1>1, <1>3, <1>8, TaskMoves DEF ReadErrorCloses
  <2> QED
    BY <1>8, <2>1, <2>2 DEF ReadErrorCloses, TypeOK, outside
<1>9. CASE AbortedEnds(c)
  <2>1. task' \in [Conns -> Tasks]
    BY <1>1, <1>3, <1>9, TaskMoves DEF AbortedEnds
  <2> QED
    BY <1>9, <2>1 DEF AbortedEnds, TypeOK, outside
<1> QED
  BY <1>4, <1>5, <1>6, <1>7, <1>8, <1>9

(***************************************************************************)
(* Type correctness: the steps of the registry task.                       *)
(***************************************************************************)
LEMMA CommandTyped ==
  ASSUME TypeOK, NEW op, Executes(op)
  PROVE  /\ inbox' \in Seq(Messages)
         /\ Command \in Commands /\ Command.op = op
         /\ UNCHANGED <<regTask, sigint, peerClosed>>
         /\ repl' = "prompt"
<1>1. Handles("Command") /\ inbox \in Seq(Messages)
  BY DEF Executes, TypeOK
<1> QED
  BY <1>1, HandlesOK, MessageFields DEF Executes, Command

LEMMA CommandStepTyped ==
  TypeOK /\ (\/ OpenTcpServer \/ OpenIpcServer \/ OpenTcpClient \/ OpenIpcClient
             \/ Close \/ Label \/ SendOrStatus) => TypeOK'
<1> SUFFICES ASSUME TypeOK,
                    \/ OpenTcpServer \/ OpenIpcServer \/ OpenTcpClient \/ OpenIpcClient
                    \/ Close \/ Label \/ SendOrStatus
             PROVE  TypeOK'
  OBVIOUS
<1>a. RegistryOK(reg) /\ task \in [Conns -> Tasks] /\ announced \subseteq ConnectionId
      /\ sockFiles \in [IpcPaths -> {"absent", "stale", "ours"}]
  BY DEF TypeOK
<1>b. ASSUME NEW op, Executes(op), RegistryOK(reg)', task' \in [Conns -> Tasks],
             announced' \subseteq ConnectionId,
             sockFiles' \in [IpcPaths -> {"absent", "stale", "ours"}]
      PROVE  TypeOK'
  BY <1>b, CommandTyped DEF TypeOK
<1>c. ASSUME NEW id \in ServerIds, Listen(id)
      PROVE  RegistryOK(reg)' /\ announced' \subseteq ConnectionId
  <2>1. NewServer \in ServerHandles
    BY DEF NewServer, ServerHandles, MaybeLabel, Status
  <2>2. RegistryOK([reg EXCEPT !.servers = Put(reg.servers, id, NewServer)])
    BY <1>a, <2>1, ServerPutOK
  <2> QED
    BY <1>a, <1>c, <2>2 DEF Listen, ConnectionId
<1>d. ASSUME NEW r, RegistryOK(r), NEW id \in ClientIds, NEW c \in Conns, Connected(r, id, c)
      PROVE  /\ RegistryOK(reg)' /\ task' \in [Conns -> Tasks]
             /\ announced' \subseteq ConnectionId
  <2>1. id \in StreamIds /\ id \in ConnectionId
    BY DEF StreamIds, ConnectionId
  <2>2. NewConnected(None, c) \in StreamHandles /\ NewConnected(None, c).parent \notin ServerIds
    BY NoneAssumption DEF NewConnected, StreamHandles, MaybeLabel, Status, ConnectionId
  <2>3. RegistryOK(InsertStream(r, id, NewConnected(None, c)))
    BY <1>d, <2>1, <2>2, InsertStreamOK
  <2>4. task' \in [Conns -> Tasks]
    BY <1>a, <1>d, <2>1, SpawnOK DEF Connected
  <2> QED
    BY <1>a, <1>d, <2>1, <2>3, <2>4 DEF Connected
<1>1. CASE OpenTcpServer
  <2>1. Command.port \in TcpPorts
    BY <1>1, CommandTyped, TaskAssumption DEF OpenTcpServer
  <2>2. TcpServerId(Command.port) \in ServerIds
    BY <2>1 DEF TcpServerId, ServerIds, TcpServerIds
  <2> QED
    BY <1>1, <1>a, <1>b, <1>c, <2>2 DEF OpenTcpServer
<1>2. CASE OpenIpcServer
  <2>1. Command.path \in IpcPaths
    BY <1>2, CommandTyped, TaskAssumption DEF OpenIpcServer
  <2>2. IpcServerId(Command.path) \in ServerIds
    BY <2>1 DEF IpcServerId, ServerIds, IpcServerIds
  <2>3. sockFiles' \in [IpcPaths -> {"absent", "stale", "ours"}]
    BY <1>2, <1>a, <2>1 DEF OpenIpcServer, FileBound, BindFailed
  <2>4. RegistryOK(reg)' /\ announced' \subseteq ConnectionId
    BY <1>2, <1>a, <1>c, <2>2 DEF OpenIpcServer, FileBound, BindFailed
  <2> QED
    BY <1>2, <1>a, <1>b, <2>3, <2>4 DEF OpenIpcServer, FileBound, BindFailed
<1>3. CASE OpenTcpClient
  <2>1. Command.port \in TcpPorts
    BY <1>3, CommandTyped, TaskAssumption DEF OpenTcpClient
  <2>2. TcpClientId(Command.port) \in ClientIds
    BY <2>1 DEF TcpClientId, ClientIds
  <2> QED
    BY <1>3, <1>a, <1>b, <1>d, <2>2 DEF OpenTcpClient
<1>4. CASE OpenIpcClient
  <2> DEFINE next == AllocIpcClientSeq(reg)
  <2>1. RegistryOK(next.reg) /\ next.seq \in 1..SeqMax
    BY <1>a, AllocIpcClientSeqOK
  <2>2. IpcClientId(next.seq) \in ClientIds
    BY <2>1, SeqAssumption DEF IpcClientId, ClientIds
  <2>3. \/ \E c \in Conns : Connected(next.reg, IpcClientId(next.seq), c)
        \/ reg' = next.reg /\ UNCHANGED <<task, announced>>
    BY <1>4 DEF OpenIpcClient
  <2> HIDE DEF next
  <2>4. RegistryOK(reg)' /\ task' \in [Conns -> Tasks] /\ announced' \subseteq ConnectionId
    BY <1>a, <1>d, <2>1, <2>2, <2>3
  <2> QED
    BY <1>4, <1>a, <1>b, <2>4 DEF OpenIpcClient
<1>5. CASE Close
  <2>1. RegistryOK(reg)' /\ task' \in [Conns -> Tasks]
        /\ sockFiles' \in [IpcPaths -> {"absent", "stale", "ours"}]
    BY <1>5, <1>a, ReleaseOK, DropServersOK, DropStreamsOK DEF Close, DropServer, DropStream
  <2>2. announced' \subseteq ConnectionId
    BY <1>5, <1>a DEF Close
  <2> QED
    BY <1>5, <1>b, <2>1, <2>2 DEF Close
<1>6. CASE Label
  <2>1. Command.name \in Labels
    BY <1>6, CommandTyped, TaskAssumption DEF Label
  <2>2. RegistryOK(reg)'
    BY <1>6, <1>a, <2>1, ApplyLabelOK DEF Label
  <2> QED
    BY <1>6, <1>a, <1>b, <2>2 DEF Label
<1>7. CASE SendOrStatus
  BY <1>7, <1>a, <1>b DEF SendOrStatus
<1> QED
  BY <1>1, <1>2, <1>3, <1>4, <1>5, <1>6, <1>7

LEMMA AllocatedTyped ==
  ASSUME TypeOK, NEW c \in Conns, NEW child \in AcceptedIds, child.parent \in DOMAIN reg.servers,
         NEW new, new = AllocateAcceptedId(reg, child.parent, child.key)
  PROVE  /\ child.parent \in ServerIds /\ child.key \in PeerKeys
         /\ new.id \in AcceptedIds
         /\ RegistryOK(InsertStream(new.reg, new.id, NewConnected(child.parent, c)))
<1>1. child.parent \in ServerIds /\ child.key \in PeerKeys
  BY DEF AcceptedIds
<1>2. new.id \in AcceptedIds /\ RegistryOK(new.reg)
  BY <1>1, AllocateAcceptedIdOK DEF TypeOK
<1>3. NewConnected(child.parent, c) \in StreamHandles
  BY <1>1 DEF NewConnected, StreamHandles, MaybeLabel, Status
<1>4. new.id \in StreamIds
  BY <1>2 DEF StreamIds
<1> QED
  BY <1>1, <1>2, <1>3, <1>4, InsertStreamOK

LEMMA EventStepTyped ==
  TypeOK /\ (\/ OnReceivedOrError \/ OnClosed
             \/ OnAccepted \/ OnAcceptedPanics \/ OnShutdown) => TypeOK'
<1> SUFFICES ASSUME TypeOK,
                    \/ OnReceivedOrError \/ OnClosed
                    \/ OnAccepted \/ OnAcceptedPanics \/ OnShutdown
             PROVE  TypeOK'
  OBVIOUS
<1>a. RegistryOK(reg) /\ inbox \in Seq(Messages)
  BY DEF TypeOK
<1>b. ASSUME NEW type, Handles(type)
      PROVE  /\ inbox' \in Seq(Messages) /\ Message \in Messages /\ Message.type = type
             /\ UNCHANGED <<regTask, sigint, peerClosed>>
  BY <1>a, <1>b, HandlesOK
<1>1. CASE OnReceivedOrError
  BY <1>1, <1>b DEF OnReceivedOrError, TypeOK
<1>2. CASE OnClosed
  <2>1. RegistryOK(reg)' /\ task' \in [Conns -> Tasks]
        /\ sockFiles' \in [IpcPaths -> {"absent", "stale", "ours"}]
    BY <1>2, <1>a, ReleaseOK, DropStreamsOK DEF OnClosed, DropStream, TypeOK
  <2> QED
    BY <1>2, <1>b, <2>1 DEF OnClosed, TypeOK
<1>3. CASE OnAccepted
  <2> DEFINE c   == Message.conn
             sid == Message.child.parent
             key == Message.child.key
             new == AllocateAcceptedId(reg, sid, key)
  <2>1. c \in Conns /\ Message.child \in AcceptedIds /\ sid \in DOMAIN reg.servers
    BY <1>3, <1>b, MessageFields DEF OnAccepted
  <2>2. /\ sid \in ServerIds /\ key \in PeerKeys /\ new.id \in AcceptedIds
        /\ RegistryOK(InsertStream(new.reg, new.id, NewConnected(sid, c)))
    BY <2>1, AllocatedTyped
  <2>3. RegistryOK(reg)'
    BY <1>3, <2>2 DEF OnAccepted
  <2>4. task' \in [Conns -> Tasks]
    <3>1. new.id \in StreamIds /\ task \in [Conns -> Tasks]
      BY <2>2 DEF StreamIds, TypeOK
    <3>2. Spawn(c, new.id)
      BY <1>3 DEF OnAccepted
    <3> HIDE DEF c, new
    <3> QED
      BY <2>1, <3>1, <3>2, SpawnOK
  <2>5. announced' \subseteq announced \cup {AcceptedId(sid, key, 1), new.id}
    BY <1>3 DEF OnAccepted
  <2>6. announced' \subseteq ConnectionId
    BY <2>2, <2>5, AcceptedIdTyped DEF TypeOK, ConnectionId, StreamIds
  <2> HIDE DEF c, sid, key, new
  <2> QED
    BY <1>3, <1>b, <2>3, <2>4, <2>6 DEF OnAccepted, TypeOK
<1>4. CASE OnAcceptedPanics
  BY <1>4, NewOK DEF OnAcceptedPanics, TypeOK, outside
<1>5. CASE OnShutdown
  <2>1. RegistryOK(reg)' /\ task' \in [Conns -> Tasks]
        /\ sockFiles' \in [IpcPaths -> {"absent", "stale", "ours"}]
    BY <1>5, <1>a, ReleaseOK, ShutdownOK DEF OnShutdown
  <2> QED
    BY <1>5, <2>1 DEF OnShutdown, TypeOK, outside
<1> QED
  BY <1>1, <1>2, <1>3, <1>4, <1>5

(***************************************************************************)
(* Type correctness: whatever users, peers and tasks do, and in whatever   *)
(* order the registry task takes their messages, every variable holds a    *)
(* value of its type; the handlers of run_registry keep the three maps and *)
(* the sequence counter well formed.                                       *)
(***************************************************************************)
THEOREM TypeCorrect == Spec => []TypeOK
<1>1. Init => TypeOK
  <2> SUFFICES ASSUME Init PROVE TypeOK
    OBVIOUS
  <2>1. task \in [Conns -> Tasks]
    BY DEF Init, Tasks
  <2>2. sockFiles \in [IpcPaths -> {"absent", "stale", "ours"}]
    BY DEF Init
  <2>3. RegistryOK(reg)
    BY NewOK DEF Init
  <2>4. inbox \in Seq(Messages)
    BY DEF Init
  <2> QED
    BY <2>1, <2>2, <2>3, <2>4 DEF Init, TypeOK
<1>2. TypeOK /\ [Next]_vars => TypeOK'
  <2> SUFFICES ASSUME TypeOK, [Next]_vars PROVE TypeOK'
    OBVIOUS
  <2>1. CASE RegistryStep
    BY <2>1, CommandStepTyped, EventStepTyped DEF RegistryStep
  <2>2. CASE UserStep \/ AcceptStep \/ ReadStep
    BY <2>2, UserStepTyped, AcceptStepTyped, ReadStepTyped
  <2>3. CASE UNCHANGED vars
    BY <2>3 DEF vars, TypeOK
  <2> QED
    BY <2>1, <2>2, <2>3 DEF Next, Exited
<1> QED
  BY <1>1, <1>2, PTL DEF Spec

-----------------------------------------------------------------------------
(***************************************************************************)
(* Streams and servers name each other in every reachable registry.  The   *)
(* invariant is inductive once types are known: each method of the registry*)
(* keeps the two directions together, one lemma per method.                *)
(***************************************************************************)
Family(r) == ParentsKnowChildren(r) /\ ChildrenKnowParents(r)

LEMMA NewFamily == Family(New)
  BY DEF New, EmptyMap, Family, ParentsKnowChildren, ChildrenKnowParents

LEMMA NoneIsNoServer ==
  ASSUME NEW r, RegistryOK(r)
  PROVE  None \notin DOMAIN r.servers
<1>1. IsMap(r.servers, ServerIds, ServerHandles)
  BY MapsOf
<1>2. DOMAIN r.servers \subseteq ServerIds
  BY <1>1 DEF IsMap
<1>3. None \notin ServerIds
  BY NoneAssumption DEF ConnectionId
<1> QED
  BY <1>2, <1>3

LEMMA ParentOfId ==
  ASSUME NEW id \in StreamIds
  PROVE  /\ id \in AcceptedIds => ParentOf(id) = id.parent /\ id.parent \in ServerIds
         /\ id \in ClientIds => ParentOf(id) = None
         /\ id.kind = "Accepted" => id \in AcceptedIds
         /\ ParentOf(id) # None => id \in AcceptedIds /\ ParentOf(id) = id.parent
  BY DEF ParentOf, StreamIds, ClientIds, AcceptedIds

(***************************************************************************)
(* insert_stream, for a client and for an accepted connection.             *)
(***************************************************************************)
LEMMA InsertStreamFamily ==
  ASSUME NEW r, RegistryOK(r), Family(r), NEW id \in StreamIds, NEW h,
         h.parent = ParentOf(id), h.parent # None => h.parent \in DOMAIN r.servers
  PROVE  Family(InsertStream(r, id, h))
<1> DEFINE r2 == InsertStream(r, id, h)
<1>1. /\ DOMAIN r2.streams = DOMAIN r.streams \cup {id}
      /\ \A x \in DOMAIN r.streams \cup {id} :
            r2.streams[x] = IF x = id THEN h ELSE r.streams[x]
      /\ DOMAIN r2.servers = DOMAIN r.servers
      /\ \A s \in DOMAIN r.servers :
            r2.servers[s].children = IF s = h.parent THEN r.servers[s].children \cup {id}
                                                     ELSE r.servers[s].children
  <2>1. /\ r2.streams = Put(r.streams, id, h)
        /\ DOMAIN r2.servers = DOMAIN r.servers
        /\ \A s \in DOMAIN r.servers :
              r2.servers[s].children = IF s = h.parent THEN r.servers[s].children \cup {id}
                                                       ELSE r.servers[s].children
    BY InsertStreamEffect
  <2> HIDE DEF r2
  <2> QED
    BY <2>1 DEF Put
<1>2. None \notin DOMAIN r.servers
  BY NoneIsNoServer
<1> HIDE DEF r2
<1>3. ParentsKnowChildren(r2)
  BY <1>1 DEF Family, ParentsKnowChildren
<1>4. ASSUME NEW sid \in DOMAIN r2.servers, NEW x \in r2.servers[sid].children
      PROVE  x \in DOMAIN r2.streams /\ x.parent = sid
  <2>1. sid \in DOMAIN r.servers /\ sid # None
    BY <1>1, <1>2
  <2>2. CASE x \in r.servers[sid].children
    BY <1>1, <2>1, <2>2 DEF Family, ChildrenKnowParents
  <2>3. CASE x = id /\ sid = h.parent
    BY <1>1, <2>1, <2>3, ParentOfId
  <2> QED
    BY <1>1, <1>4, <2>1, <2>2, <2>3
<1> QED
  BY <1>3, <1>4 DEF Family, ChildrenKnowParents, r2

(***************************************************************************)
(* drop_stream, drop_server and shutdown.                                  *)
(***************************************************************************)
LEMMA DropStreamsFamily ==
  ASSUME NEW r, RegistryOK(r), Family(r), NEW ids
  PROVE  Family(DropStreams(r, ids))
<1> DEFINE r2 == DropStreams(r, ids)
<1>1. /\ DOMAIN r2.streams = DOMAIN r.streams \ ids
      /\ \A id \in DOMAIN r.streams \ ids : r2.streams[id] = r.streams[id]
      /\ DOMAIN r2.servers = DOMAIN r.servers
      /\ \A s \in DOMAIN r.servers :
            r2.servers[s].children = r.servers[s].children
               \ {id \in ids \cap DOMAIN r.streams : r.streams[id].parent = s}
  BY DropStreamsEffect
<1>2. None \notin DOMAIN r.servers
  BY NoneIsNoServer
<1> HIDE DEF r2
<1>3. ParentsKnowChildren(r2)
  BY <1>1 DEF Family, ParentsKnowChildren
<1>4. ASSUME NEW sid \in DOMAIN r2.servers, NEW id \in r2.servers[sid].children
      PROVE  id \in DOMAIN r2.streams /\ id.parent = sid
  <2>1. id \in DOMAIN r.streams /\ id.parent = sid
    BY <1>1, <1>4 DEF Family, ChildrenKnowParents
  <2>2. id \in AcceptedIds
    <3>1. r.servers[sid] \in ServerHandles
      BY <1>1, MapsOf, EntryInRange
    <3> QED
      BY <1>1, <1>4, <3>1 DEF ServerHandles
  <2>3. r.streams[id].parent = sid
    BY <2>1, <2>2, ParentOfId DEF Family, ParentsKnowChildren, StreamIds
  <2> QED
    BY <1>1, <1>4, <2>1, <2>3
<1> QED
  BY <1>3, <1>4 DEF Family, ChildrenKnowParents, r2

LEMMA DropServersFamily ==
  ASSUME NEW r, RegistryOK(r), Family(r), NEW sids
  PROVE  Family(DropServers(r, sids))
<1> DEFINE gone     == sids \cap DOMAIN r.servers
           children == UNION {r.servers[s].children : s \in gone}
           r1       == [r EXCEPT !.servers = Without(@, gone)]
           r2       == DropStreams(r1, children)
           names    == {r.servers[s].label : s \in gone}
           r3       == [r2 EXCEPT !.labels = Without(@, names)]
<1>0. IsMap(Without(r.servers, gone), ServerIds, ServerHandles)
  BY MapsOf, WithoutIsMap
<1>1. /\ RegistryOK(r1) /\ r1.streams = r.streams
      /\ DOMAIN r1.servers = DOMAIN r.servers \ gone
      /\ \A s \in DOMAIN r.servers \ gone : r1.servers[s] = r.servers[s]
  BY <1>0, ServersOK DEF RegistryOK, Without, Restrict
<1> HIDE DEF r1
<1>2. /\ DOMAIN r2.streams = DOMAIN r.streams \ children
      /\ \A id \in DOMAIN r.streams \ children : r2.streams[id] = r.streams[id]
      /\ DOMAIN r2.servers = DOMAIN r.servers \ gone
      /\ \A s \in DOMAIN r.servers \ gone :
            r2.servers[s].children = r.servers[s].children
               \ {id \in children \cap DOMAIN r.streams : r.streams[id].parent = s}
  BY <1>1, DropStreamsEffect
<1>3. RegistryOK(r2)
  BY <1>1, DropStreamsOK
<1> HIDE DEF r2
<1>4. r3.streams = r2.streams /\ r3.servers = r2.servers /\ DropServers(r, sids) = r3
  BY <1>3 DEF RegistryOK, DropServers, r1, r2
<1>5. ParentsKnowChildren(r2)
  <2> SUFFICES ASSUME NEW id \in DOMAIN r2.streams
               PROVE  /\ r2.streams[id].parent = ParentOf(id)
                      /\ ParentOf(id) # None => /\ ParentOf(id) \in DOMAIN r2.servers
                                                /\ id \in r2.servers[ParentOf(id)].children
    BY DEF ParentsKnowChildren
  <2>1. id \in DOMAIN r.streams /\ id \notin children
    BY <1>2
  <2> HIDE DEF children
  <2>2. /\ r.streams[id].parent = ParentOf(id)
        /\ ParentOf(id) # None => /\ ParentOf(id) \in DOMAIN r.servers
                                  /\ id \in r.servers[ParentOf(id)].children
    BY <2>1 DEF Family, ParentsKnowChildren
  <2>3. ParentOf(id) # None => ParentOf(id) \notin gone
    BY <2>1, <2>2 DEF children
  <2> QED
    BY <1>2, <2>1, <2>2, <2>3
<1>6. ASSUME NEW sid \in DOMAIN r2.servers, NEW id \in r2.servers[sid].children
      PROVE  id \in DOMAIN r2.streams /\ id.parent = sid
  <2>1. id \in r.servers[sid].children /\ sid \in DOMAIN r.servers /\ sid \notin gone
    BY <1>2, <1>6
  <2>2. id \in DOMAIN r.streams /\ id.parent = sid
    BY <2>1 DEF Family, ChildrenKnowParents
  <2>3. id \notin children
    BY <2>1, <2>2 DEF Family, ChildrenKnowParents
  <2> HIDE DEF children, gone
  <2> QED
    BY <1>2, <2>2, <2>3
<1> HIDE DEF r3
<1> QED
  BY <1>4, <1>5, <1>6 DEF Family, ParentsKnowChildren, ChildrenKnowParents

LEMMA ShutdownFamily ==
  ASSUME NEW r, RegistryOK(r), Family(r)
  PROVE  Family(Shutdown(r))
  BY DropServersOK, DropServersFamily, DropStreamsFamily DEF Shutdown

(***************************************************************************)
(* Methods that leave the keys of the maps, the parents and the children   *)
(* alone: alloc_ipc_client_seq, apply_label and the suffix tables.         *)
(***************************************************************************)
SameFamily(r, r2) ==
    /\ DOMAIN r2.streams = DOMAIN r.streams
    /\ \A id \in DOMAIN r.streams : r2.streams[id].parent = r.streams[id].parent
    /\ DOMAIN r2.servers = DOMAIN r.servers
    /\ \A s \in DOMAIN r.servers : r2.servers[s].children = r.servers[s].children

LEMMA SameFamilyKept ==
  ASSUME NEW r, NEW r2, Family(r), SameFamily(r, r2)
  PROVE  Family(r2)
  BY DEF SameFamily, Family, ParentsKnowChildren, ChildrenKnowParents

LEMMA RelabelSame ==
  ASSUME NEW h, NEW name
  PROVE  /\ h \in StreamHandles => [h EXCEPT !.label = name].parent = h.parent
         /\ h \in ServerHandles => [h EXCEPT !.label = name].children = h.children
  BY DEF StreamHandles, ServerHandles

LEMMA ApplyLabelFamily ==
  ASSUME NEW r, RegistryOK(r), Family(r), NEW id, NEW name
  PROVE  Family(ApplyLabel(r, id, name))
<1> DEFINE lb    == Put(Without(r.labels, {CurrentLabel(r, id)}), name, id)
           named == [r EXCEPT !.labels = lb]
           st    == [r.streams EXCEPT ![id].label = name]
           sv    == [r.servers EXCEPT ![id].label = name]
<1> SUFFICES ASSUME ~LabelTaken(r, id, name), id \in Registered(r)
             PROVE  Family(ApplyLabel(r, id, name))
  BY DEF ApplyLabel
<1>1. IsMap(r.streams, StreamIds, StreamHandles) /\ IsMap(r.servers, ServerIds, ServerHandles)
  BY MapsOf
<1>2. /\ named.streams = r.streams /\ named.servers = r.servers
      /\ DOMAIN named = {"streams", "servers", "labels", "next_ipc_client_seq"}
  BY DEF RegistryOK
<1>3. CASE id \in DOMAIN r.streams
  <2>1. /\ DOMAIN st = DOMAIN r.streams
        /\ \A x \in DOMAIN r.streams : st[x].parent = r.streams[x].parent
    BY <1>1, <1>3, RelabelSame, EntryInRange
  <2>2. ApplyLabel(r, id, name) = [named EXCEPT !.streams = st]
    BY <1>2, <1>3 DEF ApplyLabel, Registered
  <2> HIDE DEF named, st
  <2>3. [named EXCEPT !.streams = st].streams = st
        /\ [named EXCEPT !.streams = st].servers = r.servers
    BY <1>2
  <2> QED
    BY <2>1, <2>2, <2>3, SameFamilyKept DEF SameFamily
<1>4. CASE id \notin DOMAIN r.streams
  <2>0. id \in DOMAIN r.servers
    BY <1>4 DEF Registered
  <2>1. /\ DOMAIN sv = DOMAIN r.servers
        /\ \A s \in DOMAIN r.servers : sv[s].children = r.servers[s].children
    BY <1>1, <2>0, RelabelSame, EntryInRange
  <2>2. ApplyLabel(r, id, name) = [named EXCEPT !.servers = sv]
    BY <1>2, <1>4, <2>0 DEF ApplyLabel, Registered
  <2> HIDE DEF named, sv
  <2>3. [named EXCEPT !.servers = sv].streams = r.streams
        /\ [named EXCEPT !.servers = sv].servers = sv
    BY <1>2
  <2> QED
    BY <2>1, <2>2, <2>3, SameFamilyKept DEF SameFamily
<1> QED
  BY <1>3, <1>4

LEMMA NextSeqFamily ==
  ASSUME NEW r, RegistryOK(r), Family(r)
  PROVE  Family(AllocIpcClientSeq(r).reg)
  BY AllocIpcClientSeqOK, SameFamilyKept DEF SameFamily

(***************************************************************************)
(* OpenTcpServer and OpenIpcServer register a server without children.     *)
(***************************************************************************)
LEMMA ListenFamily ==
  ASSUME NEW r, RegistryOK(r), Family(r), NEW sid, sid \notin DOMAIN r.servers
  PROVE  Family([r EXCEPT !.servers = Put(r.servers, sid, NewServer)])
<1> DEFINE r2 == [r EXCEPT !.servers = Put(r.servers, sid, NewServer)]
<1>1. r2.streams = r.streams /\ r2.servers = Put(r.servers, sid, NewServer)
  BY DEF RegistryOK
<1>2. /\ DOMAIN r2.servers = DOMAIN r.servers \cup {sid}
      /\ \A s \in DOMAIN r.servers : r2.servers[s] = r.servers[s]
      /\ r2.servers[sid].children = {}
  BY <1>1 DEF Put, NewServer
<1> HIDE DEF r2
<1>3. ParentsKnowChildren(r2)
  BY <1>1, <1>2 DEF Family, ParentsKnowChildren
<1>4. ChildrenKnowParents(r2)
  BY <1>1, <1>2 DEF Family, ChildrenKnowParents
<1> QED
  BY <1>3, <1>4 DEF Family, r2

(***************************************************************************)
(* rename_accepted_tcp: the handle moves among the children of the server  *)
(* that both its ids name.                                                 *)
(***************************************************************************)
LEMMA TakeOutFamily ==
  ASSUME NEW r, RegistryOK(r), Family(r), NEW old \in DOMAIN r.streams
  PROVE  Family(TakeOut(r, old))
<1> DEFINE r1 == TakeOut(r, old)
<1>1. /\ r1.streams = Without(r.streams, {old})
      /\ DOMAIN r1.servers = DOMAIN r.servers
      /\ \A s \in DOMAIN r.servers : r1.servers[s].children = ChildrenWithout(r, old, s)
  BY TakeOutShape
<1>2. /\ DOMAIN r1.streams = DOMAIN r.streams \ {old}
      /\ \A id \in DOMAIN r.streams \ {old} : r1.streams[id] = r.streams[id]
  BY <1>1 DEF Without, Restrict
<1> HIDE DEF r1
<1>3. ParentsKnowChildren(r1)
  BY <1>1, <1>2 DEF Family, ParentsKnowChildren, ChildrenWithout
<1>4. ASSUME NEW sid \in DOMAIN r1.servers, NEW id \in r1.servers[sid].children
      PROVE  id \in DOMAIN r1.streams /\ id.parent = sid
  <2>1. sid \in DOMAIN r.servers /\ id \in r.servers[sid].children
    BY <1>1, <1>4 DEF ChildrenWithout
  <2>2. id \in DOMAIN r.streams /\ id.parent = sid
    BY <2>1 DEF Family, ChildrenKnowParents
  <2>3. id \in AcceptedIds
    <3>1. IsMap(r.servers, ServerIds, ServerHandles)
      BY MapsOf
    <3>2. r.servers[sid] \in ServerHandles
      BY <2>1, <3>1, EntryInRange
    <3> QED
      BY <2>1, <3>2 DEF ServerHandles
  <2>4. r.streams[id].parent = sid
    BY <2>2, <2>3, ParentOfId DEF Family, ParentsKnowChildren, StreamIds
  <2>5. id # old
    BY <1>1, <1>4, <2>1, <2>4 DEF ChildrenWithout
  <2> QED
    BY <1>2, <2>2, <2>5
<1> QED
  BY <1>3, <1>4 DEF Family, ChildrenKnowParents, r1

LEMMA RenameFamily ==
  ASSUME NEW r, RegistryOK(r), Family(r),
         NEW old \in AcceptedIds, NEW new \in AcceptedIds, new.parent = old.parent
  PROVE  /\ Family(RenameAccepted(r, old, new))
         /\ DOMAIN RenameAccepted(r, old, new).servers = DOMAIN r.servers
<1>1. CASE old \notin DOMAIN r.streams
  BY <1>1 DEF RenameAccepted
<1>2. CASE old \in DOMAIN r.streams
  <2> DEFINE r1 == TakeOut(r, old)
             h  == r.streams[old]
  <2>1. RegistryOK(r1) /\ DOMAIN r1.servers = DOMAIN r.servers
    BY TakeOutOK, TakeOutShape
  <2>2. Family(r1)
    BY <1>2, TakeOutFamily
  <2>3. h.parent = ParentOf(old) /\ (h.parent # None => h.parent \in DOMAIN r.servers)
    BY <1>2 DEF Family, ParentsKnowChildren
  <2>4. new \in StreamIds /\ ParentOf(old) = ParentOf(new)
    BY ParentOfId DEF StreamIds
  <2> HIDE DEF r1, h
  <2>5. Family(InsertStream(r1, new, h))
    BY <2>1, <2>2, <2>3, <2>4, InsertStreamFamily
  <2>6. DOMAIN InsertStream(r1, new, h).servers = DOMAIN r1.servers
    BY <2>1, InsertStreamEffect
  <2>7. RenameAccepted(r, old, new) = InsertStream(r1, new, h)
    BY <1>2 DEF RenameAccepted, r1, h
  <2> QED
    BY <2>1, <2>5, <2>6, <2>7
<1> QED
  BY <1>1, <1>2

(***************************************************************************)
(* allocate_accepted_tcp_id: in its three cases the parent stays a server, *)
(* so that the handle inserted next finds it.                              *)
(***************************************************************************)
LEMMA TablesFamily ==
  ASSUME NEW r, RegistryOK(r), Family(r), NEW sid \in DOMAIN r.servers,
         NEW srv, srv.children = r.servers[sid].children
  PROVE  LET r2 == [r EXCEPT !.servers = Put(r.servers, sid, srv)]
         IN  Family(r2) /\ DOMAIN r2.servers = DOMAIN r.servers
<1> DEFINE r2 == [r EXCEPT !.servers = Put(r.servers, sid, srv)]
<1>1. r2.streams = r.streams /\ r2.servers = Put(r.servers, sid, srv)
  BY DEF RegistryOK
<1>2. SameFamily(r, r2)
  BY <1>1 DEF SameFamily, Put
<1> HIDE DEF r2
<1>3. Family(r2) /\ DOMAIN r2.servers = DOMAIN r.servers
  BY <1>2, SameFamilyKept DEF SameFamily
<1> QED
  BY <1>3 DEF r2

LEMMA AllocateFamily ==
  ASSUME NEW r, RegistryOK(r), Family(r), NEW sid \in DOMAIN r.servers, NEW key \in PeerKeys
  PROVE  LET new == AllocateAcceptedId(r, sid, key)
         IN  Family(new.reg) /\ DOMAIN new.reg.servers = DOMAIN r.servers
<1> DEFINE srv  == r.servers[sid]
           base == srv.base_no_suffix
           next == srv.disambig_next
           Tables(b, n) == [srv EXCEPT !.base_no_suffix = b, !.disambig_next = n]
           With(b, n)   == [r EXCEPT !.servers = Put(r.servers, sid, Tables(b, n))]
<1>1. sid \in ServerIds /\ srv \in ServerHandles
  <2>1. IsMap(r.servers, ServerIds, ServerHandles)
    BY MapsOf
  <2> QED
    BY <2>1, EntryInRange
<1>2. ASSUME NEW b, NEW n
      PROVE  Family(With(b, n)) /\ DOMAIN With(b, n).servers = DOMAIN r.servers
  <2>1. Tables(b, n).children = r.servers[sid].children
    BY <1>1 DEF ServerHandles
  <2> HIDE DEF Tables
  <2> QED
    BY <2>1, TablesFamily
<1>3. CASE FirstOfKey(srv, key)
  <2>1. AllocateAcceptedId(r, sid, key).reg = With(base \cup {key}, next)
    BY <1>3 DEF AllocateAcceptedId, FirstOfKey
  <2> HIDE DEF With
  <2> QED
    BY <1>2, <2>1
<1>4. CASE ~FirstOfKey(srv, key) /\ key \in base
  <2> DEFINE b == base \ {key}
             n == [next EXCEPT ![key] = 2]
             collided == With(b, n)
             old == BaseId(sid, key)
             new == AcceptedId(sid, key, 1)
  <2>1. AllocateAcceptedId(r, sid, key).reg = RenameAccepted(collided, old, new)
    BY <1>4 DEF AllocateAcceptedId
  <2>2. b \in SUBSET PeerKeys /\ n \in [PeerKeys -> Nat]
    BY <1>1 DEF ServerHandles
  <2> HIDE DEF b, n
  <2>3. RegistryOK(collided)
    <3>1. Tables(b, n) \in ServerHandles
      BY <1>1, <2>2, TablesOK
    <3> HIDE DEF Tables
    <3> QED
      BY <1>1, <3>1, ServerPutOK
  <2> HIDE DEF With
  <2>4. Family(collided) /\ DOMAIN collided.servers = DOMAIN r.servers
    BY <1>2
  <2> HIDE DEF collided
  <2>5. old \in AcceptedIds /\ new \in AcceptedIds /\ new.parent = old.parent
    BY <1>1, AcceptedIdTyped DEF BaseId, NoSuffix
  <2> HIDE DEF old, new
  <2>6. /\ Family(RenameAccepted(collided, old, new))
        /\ DOMAIN RenameAccepted(collided, old, new).servers = DOMAIN r.servers
    BY <2>3, <2>4, <2>5, RenameFamily
  <2> QED
    BY <2>1, <2>6
<1>5. CASE ~FirstOfKey(srv, key) /\ key \notin base
  <2>1. AllocateAcceptedId(r, sid, key).reg
           = With(base, [next EXCEPT ![key] = next[key] + 1])
    BY <1>5 DEF AllocateAcceptedId
  <2> HIDE DEF With
  <2> QED
    BY <1>2, <2>1
<1> QED
  BY <1>3, <1>4, <1>5

(***************************************************************************)
(* The handlers of the registry task, one case each.                       *)
(***************************************************************************)
LEMMA NewStreamFamily ==
  ASSUME NEW r, RegistryOK(r), Family(r), NEW id \in StreamIds, NEW c,
         ParentOf(id) # None => ParentOf(id) \in DOMAIN r.servers
  PROVE  Family(InsertStream(r, id, NewConnected(ParentOf(id), c)))
<1>1. NewConnected(ParentOf(id), c).parent = ParentOf(id)
  BY DEF NewConnected
<1> DEFINE h == NewConnected(ParentOf(id), c)
<1> HIDE DEF h
<1>2. Family(InsertStream(r, id, h))
  BY <1>1, InsertStreamFamily DEF h
<1> QED
  BY <1>2 DEF h

LEMMA RegistryStepFamily ==
  ASSUME TypeOK, Family(reg), RegistryStep
  PROVE  Family(reg)'
<1>a. RegistryOK(reg)
  BY DEF TypeOK
<1>b. ASSUME NEW id, Listen(id) PROVE Family(reg')
  <2>1. id \notin DOMAIN reg.servers
    BY <1>b DEF Listen, Registered
  <2>2. Family([reg EXCEPT !.servers = Put(reg.servers, id, NewServer)])
    BY <1>a, <2>1, ListenFamily
  <2> QED
    BY <1>b, <2>2 DEF Listen
<1>c. ASSUME NEW r, RegistryOK(r), Family(r), NEW id \in ClientIds, NEW c, Connected(r, id, c)
      PROVE  Family(reg')
  <2>1. id \in StreamIds /\ ParentOf(id) = None
    BY ParentOfId DEF StreamIds
  <2>2. Family(InsertStream(r, id, NewConnected(None, c)))
    BY <1>c, <2>1, NewStreamFamily
  <2> QED
    BY <1>c, <2>2 DEF Connected
<1>1. CASE OpenTcpServer
  BY <1>1, <1>b DEF OpenTcpServer
<1>2. CASE OpenIpcServer
  BY <1>2, <1>b DEF OpenIpcServer
<1>3. CASE OpenTcpClient
  <2>1. Command.port \in TcpPorts
    BY <1>3, CommandTyped, TaskAssumption DEF OpenTcpClient
  <2>2. TcpClientId(Command.port) \in ClientIds
    BY <2>1 DEF TcpClientId, ClientIds
  <2> QED
    BY <1>3, <1>a, <1>c, <2>2 DEF OpenTcpClient
<1>4. CASE OpenIpcClient
  <2> DEFINE next == AllocIpcClientSeq(reg)
  <2>1. RegistryOK(next.reg) /\ next.seq \in 1..SeqMax
    BY <1>a, AllocIpcClientSeqOK
  <2>2. Family(next.reg)
    BY <1>a, NextSeqFamily
  <2>3. IpcClientId(next.seq) \in ClientIds
    BY <2>1, SeqAssumption DEF IpcClientId, ClientIds
  <2>4. \/ \E c \in Conns : Connected(next.reg, IpcClientId(next.seq), c)
        \/ reg' = next.reg
    BY <1>4 DEF OpenIpcClient
  <2> HIDE DEF next
  <2> QED
    BY <1>c, <2>1, <2>2, <2>3, <2>4
<1>5. CASE Close
  BY SMTT(60), <1>5, <1>a, DropServersFamily, DropStreamsFamily
     DEF Close, Release, DropServer, DropStream
<1>6. CASE Label
  BY <1>6, <1>a, ApplyLabelFamily DEF Label
<1>7. CASE SendOrStatus \/ OnReceivedOrError
  BY <1>7 DEF SendOrStatus, OnReceivedOrError
<1>8. CASE OnClosed
  BY <1>8, <1>a, DropStreamsFamily DEF OnClosed, Release, DropStream
<1>9. CASE OnAccepted
  <2> DEFINE c   == Message.conn
             sid == Message.child.parent
             key == Message.child.key
             new == AllocateAcceptedId(reg, sid, key)
  <2>1. sid \in DOMAIN reg.servers /\ Message.child \in AcceptedIds
    BY <1>9, HandlesOK, MessageFields DEF OnAccepted, TypeOK
  <2>2. key \in PeerKeys /\ sid \in ServerIds
    BY <2>1 DEF AcceptedIds
  <2>3. reg' = InsertStream(new.reg, new.id, NewConnected(sid, c))
    BY <1>9 DEF OnAccepted
  <2> HIDE DEF c, sid, key
  <2>4. /\ new.id \in AcceptedIds /\ new.id.parent = sid /\ RegistryOK(new.reg)
        /\ Family(new.reg) /\ DOMAIN new.reg.servers = DOMAIN reg.servers
    BY <1>a, <2>1, <2>2, AllocateAcceptedIdOK, AllocateFamily
  <2> HIDE DEF new
  <2>5. new.id \in StreamIds /\ ParentOf(new.id) = sid
    BY <2>4, ParentOfId DEF StreamIds
  <2>6. Family(InsertStream(new.reg, new.id, NewConnected(ParentOf(new.id), c)))
    BY <2>1, <2>4, <2>5, NewStreamFamily
  <2> QED
    BY <2>3, <2>5, <2>6
<1>10. CASE OnAcceptedPanics
  BY <1>10, NewFamily DEF OnAcceptedPanics
<1>11. CASE OnShutdown
  BY <1>11, <1>a, ShutdownFamily DEF OnShutdown, Release
<1> QED
  BY <1>1, <1>2, <1>3, <1>4, <1>5, <1>6, <1>7, <1>8, <1>9, <1>10, <1>11 DEF RegistryStep

(***************************************************************************)
(* In every reachable state, an accepted stream is a child of the server   *)
(* its id names, that server is registered, and every child of a server is *)
(* a registered stream whose id names it: insert_stream, drop_stream,      *)
(* drop_server and rename_accepted_tcp never let the two maps diverge, in  *)
(* whatever order connections, closures, labels and collisions arrive.     *)
(***************************************************************************)
THEOREM FamilyTheorem == Spec => []FamilyConsistent
<1>1. Init => Family(reg)
  BY NewFamily DEF Init
<1>2. TypeOK /\ Family(reg) /\ [Next]_vars => Family(reg)'
  <2> SUFFICES ASSUME TypeOK, Family(reg), [Next]_vars PROVE Family(reg)'
    OBVIOUS
  <2>1. CASE RegistryStep
    BY <2>1, RegistryStepFamily
  <2>2. CASE UserStep
    BY <2>2 DEF UserStep, UserEnters, ReplSends, ReplNoticesEnd, CtrlC, MainSends
  <2>3. CASE AcceptStep
    BY <2>3 DEF AcceptStep, Accept, AcceptSends, AcceptFails
  <2>4. CASE ReadStep
    BY <2>4 DEF ReadStep, PeerCloses, ReadData, ReadEof, ReadError, ReadErrorCloses, AbortedEnds
  <2>5. CASE UNCHANGED vars
    BY <2>5 DEF vars
  <2> QED
    BY <2>1, <2>2, <2>3, <2>4, <2>5 DEF Next, Exited
<1>3. Family(reg) => FamilyConsistent
  BY DEF Family, FamilyConsistent
<1> QED
  BY <1>1, <1>2, <1>3, TypeCorrect, PTL DEF Spec

=============================================================================
