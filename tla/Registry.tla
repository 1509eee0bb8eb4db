------------------------------ MODULE Registry ------------------------------
(***************************************************************************)
(* The registry: the maps of live streams, servers and labels, and the     *)
(* methods that update them (src/domain/registry.rs).  A registry is a     *)
(* value owned by one task; a method is an operator from a registry to the *)
(* registry it leaves behind.  What the methods do outside the maps (abort *)
(* tasks, remove socket files, display lines) is in RegistryTask.          *)
(*                                                                         *)
(* A HashMap is a function whose domain is the set of its keys.            *)
(*                                                                         *)
(* An operator named after a fault stands before the one it distorts.  No  *)
(* specification uses it: the README lists which property notices which.   *)
(***************************************************************************)
EXTENDS ConnectionIds, FiniteSets, Functions

CONSTANT Conns   \* the sockets: one value per established connection

(***************************************************************************)
(* HashMap::new, insert and remove.                                        *)
(***************************************************************************)
EmptyMap        == [k \in {} |-> None]
Put(f, k, v)    == [x \in DOMAIN f \cup {k} |-> IF x = k THEN v ELSE f[x]]
Without(f, ks)  == Restrict(f, DOMAIN f \ ks)
IsMap(f, D, R)  == DOMAIN f \subseteq D /\ f \in [DOMAIN f -> R]

(***************************************************************************)
(* StreamHandle, ServerHandle and Registry.  The id stored in a handle is  *)
(* its key in the map, and is left out.  base_no_suffix maps a peer key to *)
(* its BaseId, so its keys say it all; disambig_next holds 0 for a key     *)
(* that is not in the map.                                                 *)
(***************************************************************************)
Status   == {"Connected", "Closing", "Closed"}
MaybeLabel == Labels \cup {None}

StreamHandles == [label : MaybeLabel, status : Status,
                  parent : ServerIds \cup {None}, conn : Conns]
ServerHandles == [label : MaybeLabel, status : Status, children : SUBSET AcceptedIds,
                  disambig_next : [PeerKeys -> Nat], base_no_suffix : SUBSET PeerKeys]

NewConnected(parent, c) ==
    [label |-> None, status |-> "Connected", parent |-> parent, conn |-> c]
NewServer ==
    [label |-> None, status |-> "Connected", children |-> {},
     disambig_next |-> [k \in PeerKeys |-> 0], base_no_suffix |-> {}]

New == [streams |-> EmptyMap, servers |-> EmptyMap, labels |-> EmptyMap,
        next_ipc_client_seq |-> 1]

Registered(r) == DOMAIN r.streams \cup DOMAIN r.servers

(***************************************************************************)
(* Lookups.  resolve_id prefers a label, then the first registered id the  *)
(* parser proposes.                                                        *)
(***************************************************************************)
ResolveId(r, token) ==
    LET proposed == DefaultTokenParser(token)
        live     == {i \in DOMAIN proposed : proposed[i] \in Registered(r)}
    IN  IF token \in DOMAIN r.labels THEN r.labels[token]
        ELSE IF live = {} THEN None
        ELSE proposed[CHOOSE i \in live : \A j \in live : i <= j]

CurrentLabel(r, id) ==
    CASE id \in DOMAIN r.streams -> r.streams[id].label
      [] id \in DOMAIN r.servers -> r.servers[id].label
      [] OTHER -> None

(***************************************************************************)
(* apply_label: refused when the name designates another id; otherwise the *)
(* id's previous label is freed and the name now designates the id.        *)
(***************************************************************************)
NeverTaken(r, id, name) == FALSE

LabelTaken(r, id, name) == name \in DOMAIN r.labels /\ r.labels[name] # id

ApplyLabel(r, id, name) ==
    IF LabelTaken(r, id, name) \/ id \notin Registered(r) THEN r
    ELSE LET named == [r EXCEPT !.labels =
                          Put(Without(@, {CurrentLabel(r, id)}), name, id)]
         IN  IF id \in DOMAIN r.streams
             THEN [named EXCEPT !.streams[id].label = name]
             ELSE [named EXCEPT !.servers[id].label = name]

(***************************************************************************)
(* insert_stream and drop_stream.  Inserting under an id that is already   *)
(* there replaces the handle, as HashMap::insert does.  DropStreams drops  *)
(* the streams of a set one by one; their order does not matter.           *)
(***************************************************************************)
AddChild(servers, sid, id) ==
    IF sid \notin DOMAIN servers THEN servers
    ELSE Put(servers, sid, [servers[sid] EXCEPT !.children = @ \cup {id}])

InsertStream(r, id, h) ==
    [r EXCEPT !.streams = Put(@, id, h), !.servers = AddChild(@, h.parent, id)]

WithoutChildren(srv, ids) == [srv EXCEPT !.children = @ \ ids]

\* Leaves the labels where they are.
DropUnlabelled(r, ids) ==
    [r EXCEPT !.streams = Without(@, ids),
              !.servers = [s \in DOMAIN @ |-> WithoutChildren(@[s], ids)]]

DropStreams(r, ids) ==
    LET gone       == ids \cap DOMAIN r.streams
        GoneOf(s)  == {id \in gone : r.streams[id].parent = s}
    IN  [r EXCEPT
           !.streams = Without(@, gone),
           !.servers = [s \in DOMAIN r.servers |->
                           WithoutChildren(r.servers[s], GoneOf(s))],
           !.labels  = Without(@, {r.streams[id].label : id \in gone})]

\* Takes the siblings along.
DropWithSiblings(r, id) ==
    DropStreams(r, {i \in DOMAIN r.streams :
                      id \in DOMAIN r.streams /\ r.streams[i].parent = r.streams[id].parent})

DropStream(r, id) == DropStreams(r, {id})

(***************************************************************************)
(* drop_server takes the server out of the map, drops its children, and    *)
(* frees its own label.  shutdown does so for every server, then drops the *)
(* streams that are left.                                                  *)
(***************************************************************************)
ForgettingChildren(r, sids) ==
    [r EXCEPT !.servers = Without(@, sids),
              !.labels  = Without(@, {r.servers[s].label : s \in sids \cap DOMAIN r.servers})]

DropServers(r, sids) ==
    LET gone     == sids \cap DOMAIN r.servers
        children == UNION {r.servers[s].children : s \in gone}
        without  == DropStreams([r EXCEPT !.servers = Without(@, gone)], children)
    IN  [without EXCEPT !.labels = Without(@, {r.servers[s].label : s \in gone})]

DropServer(r, sid) == DropServers(r, {sid})

Shutdown(r) ==
    LET serverless == DropServers(r, DOMAIN r.servers)
    IN  DropStreams(serverless, DOMAIN serverless.streams)

(***************************************************************************)
(* alloc_ipc_client_seq: a saturating u32 counter, of width SeqMax here.   *)
(***************************************************************************)
CONSTANT SeqMax   \* u32::MAX
ASSUME SeqAssumption == SeqMax \in Nat \ {0}

SeqNotSaturated(r) ==
    [seq |-> r.next_ipc_client_seq,
     reg |-> [r EXCEPT !.next_ipc_client_seq = IF @ <= SeqMax THEN @ + 1 ELSE @]]

AllocIpcClientSeq(r) ==
    [seq |-> r.next_ipc_client_seq,
     reg |-> [r EXCEPT !.next_ipc_client_seq = IF @ < SeqMax THEN @ + 1 ELSE @]]

(***************************************************************************)
(* rename_accepted_tcp: the handle moves to the new key, in the stream map *)
(* and among its parent's children.  The label map keeps the old id.       *)
(***************************************************************************)
ChildNotRenamed(r, old, new) ==
    IF old \notin DOMAIN r.streams THEN r
    ELSE [r EXCEPT !.streams = Put(Without(@, {old}), new, r.streams[old])]

OldNameKept(r, old, new) ==
    IF old \notin DOMAIN r.streams THEN r ELSE InsertStream(r, new, r.streams[old])

TakeOut(r, id) ==
    LET Leaves(s) == IF s = r.streams[id].parent THEN {id} ELSE {}
    IN  [r EXCEPT !.streams = Without(@, {id}),
                  !.servers = [s \in DOMAIN r.servers |->
                                  WithoutChildren(r.servers[s], Leaves(s))]]

RenameAccepted(r, old, new) ==
    IF old \in DOMAIN r.streams THEN InsertStream(TakeOut(r, old), new, r.streams[old]) ELSE r

(***************************************************************************)
(* allocate_accepted_tcp_id, and allocate_accepted_ipc_id which has the    *)
(* same text with the pid in the place of the remote port.  "renamed" says *)
(* whether a Renamed event comes with the id.                              *)
(***************************************************************************)
NoSuffixSeeded(srv, key) == key \notin srv.base_no_suffix
NoSuffixFree(srv, key)   == srv.disambig_next[key] = 0

FirstOfKey(srv, key) == key \notin srv.base_no_suffix /\ srv.disambig_next[key] = 0

AllocateAcceptedId(r, sid, key) ==
    LET srv == r.servers[sid]
        base == srv.base_no_suffix
        next == srv.disambig_next
        Tables(b, n) == [srv EXCEPT !.base_no_suffix = b, !.disambig_next = n]
        With(b, n)   == [r EXCEPT !.servers = Put(r.servers, sid, Tables(b, n))]
        collided     == With(base \ {key}, [next EXCEPT ![key] = 2])
    IN  CASE FirstOfKey(srv, key) ->
               [id |-> BaseId(sid, key), renamed |-> FALSE,
                reg |-> With(base \cup {key}, next)]
          [] key \in base ->
               [id |-> AcceptedId(sid, key, 2), renamed |-> TRUE,
                reg |-> RenameAccepted(collided, BaseId(sid, key), AcceptedId(sid, key, 1))]
          [] OTHER ->
               [id |-> AcceptedId(sid, key, next[key]), renamed |-> FALSE,
                reg |-> With(base, [next EXCEPT ![key] = next[key] + 1])]

(***************************************************************************)
(* send_bytes: a server id stands for all its children; whoever is no      *)
(* longer registered or not connected is not written to.                   *)
(***************************************************************************)
Writable(r, id) == id \in DOMAIN r.streams /\ r.streams[id].status = "Connected"

SendTargets(r, id) ==
    LET group == IF id \in DOMAIN r.servers THEN r.servers[id].children
                 ELSE IF IsServer(id) THEN {} ELSE {id}
    IN  {i \in group : Writable(r, i)}

(***************************************************************************)
(* render_status: the streams without parent under CLIENTS, and under each *)
(* server those of its children that are in the stream map.                *)
(***************************************************************************)
StatusClients(r)       == {id \in DOMAIN r.streams : r.streams[id].parent = None}
StatusChildren(r, sid) == r.servers[sid].children \cap DOMAIN r.streams
=============================================================================
