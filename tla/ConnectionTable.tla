-------------------------- MODULE ConnectionTable --------------------------
(***************************************************************************)
(* What the registry promises to its user, without its maps, tables, tasks *)
(* and messages: a table of open servers and connections.  A connection is *)
(* a socket under an id, and each entry shows one label at most, its own.  *)
(*                                                                         *)
(* RegistryTask implements this table (RegistryProperties, Table).         *)
(***************************************************************************)
EXTENDS ConnectionIds, Functions

CONSTANTS Conns, SeqMax

VARIABLES
    servers,   \* the ids of the open servers
    streams,   \* the connections: from an id to the socket it stands for
    label,     \* the label each of them shows, or None
    up         \* the registry has not been torn down

table == <<servers, streams, label, up>>

Entries  == servers \cup DOMAIN streams
Group(s) == {id \in DOMAIN streams : id.kind = "Accepted" /\ id.parent = s}

\* Ids that the allocators of the registry may hand out a second time.
HandedOutTwice(id) ==
    \/ id.kind = "Accepted" /\ id.disambig = 2
    \/ id = IpcClientId(SeqMax)

Available(id) == id \notin Entries \/ HandedOutTwice(id)
Unused(c)     == \A id \in DOMAIN streams : streams[id] # c

\* The entries that are in the table afterwards keep their labels, "new" has none.
Keeping(ids, new) == [id \in ids |-> IF id \in new THEN None ELSE label[id]]

Init ==
    /\ servers = {}
    /\ streams = [id \in {} |-> None]
    /\ label = [id \in {} |-> None]
    /\ up = TRUE

Listen ==
    /\ servers \subseteq servers' /\ servers' # servers
    /\ \E sid \in servers' \ servers :
          /\ sid \notin Entries
          /\ servers' = servers \cup {sid}
          /\ label' = Keeping(Entries \cup {sid}, {sid})
    /\ UNCHANGED <<streams, up>>

(***************************************************************************)
(* A connection enters under an id that is free, or is one of those that   *)
(* are handed out twice, whose first holder then leaves the table.         *)
(***************************************************************************)
Enter(id, c) ==
    /\ Available(id) /\ Unused(c)
    /\ streams' = [x \in DOMAIN streams \cup {id} |-> IF x = id THEN c ELSE streams[x]]
    /\ label' = Keeping(Entries \cup {id}, {id})

Connect ==
    /\ \E id \in DOMAIN streams' : id.kind # "Accepted" /\ Enter(id, streams'[id])
    /\ UNCHANGED <<servers, up>>

(***************************************************************************)
(* An accepted connection enters so while no connection of its peer key is *)
(* there without a suffix: next to one without, the ids would not tell the *)
(* user which of the two is the first.                                     *)
(***************************************************************************)
Accept ==
    /\ \E id \in DOMAIN streams' :
          /\ id.kind = "Accepted" /\ id.parent \in servers
          /\ BaseId(id.parent, id.key) \notin DOMAIN streams
          /\ Enter(id, streams'[id])
    /\ UNCHANGED <<servers, up>>

(***************************************************************************)
(* A second connection of a peer key enters while the first is there with  *)
(* no suffix: the first one becomes #1 in the same step, and keeps its     *)
(* socket and its label.                                                   *)
(***************************************************************************)
AcceptSecond ==
    /\ \E id \in DOMAIN streams' \ DOMAIN streams :
          LET base  == BaseId(id.parent, id.key)
              first == AcceptedId(id.parent, id.key, 1)
              Was(x) == IF x = first THEN base ELSE x
              ids   == (DOMAIN streams \ {base}) \cup {first, id}
          IN  /\ id.kind = "Accepted" /\ id.disambig = 2 /\ id.parent \in servers
              /\ base \in DOMAIN streams /\ first \notin DOMAIN streams
              /\ Unused(streams'[id])
              /\ streams' = [x \in ids |-> IF x = id THEN streams'[id] ELSE streams[Was(x)]]
              /\ label' = [x \in servers \cup ids |-> IF x = id THEN None ELSE label[Was(x)]]
    /\ UNCHANGED <<servers, up>>

(***************************************************************************)
(* A connection leaves alone, a server with its group, and all at the end. *)
(***************************************************************************)
Leave(sids, ids) ==
    /\ servers' = servers \ sids
    /\ streams' = Restrict(streams, DOMAIN streams \ ids)
    /\ label' = Restrict(label, Entries \ (sids \cup ids))

CloseStream == \E id \in DOMAIN streams \ DOMAIN streams' : Leave({}, {id}) /\ UNCHANGED up
CloseServer == \E sid \in servers \ servers' : Leave({sid}, Group(sid)) /\ UNCHANGED up
TearDown    == up /\ up' = FALSE /\ Leave(servers, DOMAIN streams)

(***************************************************************************)
(* An entry is given a label that no other entry shows.                    *)
(***************************************************************************)
Name ==
    /\ UNCHANGED <<servers, streams, up>>
    /\ \E id \in Entries :
          /\ \A other \in Entries \ {id} : label[other] # label'[id]
          /\ label' = [label EXCEPT ![id] = label'[id]]

Next ==
    \/ Listen \/ Connect \/ Accept \/ AcceptSecond
    \/ CloseStream \/ CloseServer \/ TearDown \/ Name

Spec == Init /\ [][Next]_table
=============================================================================
