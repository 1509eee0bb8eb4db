-------------------------- MODULE RefinementProofs --------------------------
(***************************************************************************)
(* The registry task implements the connection table: every step of a      *)
(* handler is one step of the table, or none.                              *)
(***************************************************************************)
EXTENDS ReaderProofs

\* The table as the registry shows it.
SocketsOf(r) == [id \in DOMAIN r.streams |-> r.streams[id].conn]
ShownBy(r)   == [id \in Registered(r) |-> CurrentLabel(r, id)]

LEMMA TableShown ==
  /\ Table!Entries = Registered(reg)
  /\ Table!table = <<DOMAIN reg.servers, SocketsOf(reg), ShownBy(reg), regTask = "running">>
  BY DEF Table!Entries, Table!table, SocketsOf, ShownBy, Registered

LEMMA SameTable ==
  ASSUME DOMAIN reg'.servers = DOMAIN reg.servers, SocketsOf(reg') = SocketsOf(reg),
         ShownBy(reg') = ShownBy(reg), regTask' = regTask
  PROVE  UNCHANGED Table!table
  BY DEF Table!table, SocketsOf, ShownBy

LEMMA RegistersListens ==
  ASSUME WellFormed, WellFormed', NEW sid \in ServerIds, Registers(sid)
  PROVE  Table!Listen
<1>a. RegistryOK(reg) /\ RegistryOK(reg')
  BY DEF WellFormed, TypeOK
<1>1. /\ sid \notin Registered(reg) /\ regTask' = regTask
      /\ reg'.streams = reg.streams /\ DOMAIN reg'.servers = DOMAIN reg.servers \cup {sid}
      /\ \A s \in DOMAIN reg.servers : reg'.servers[s] = reg.servers[s]
      /\ reg'.servers[sid].label = None
  BY DEF Registers, Handled, Listening, NewServer
<1>2. SocketsOf(reg') = SocketsOf(reg)
  BY <1>1 DEF SocketsOf
<1>3. Registered(reg') = Registered(reg) \cup {sid}
  BY <1>1 DEF Registered
<1>4. \A x \in Registered(reg') :
         CurrentLabel(reg', x) = IF x \in {sid} THEN None ELSE CurrentLabel(reg, x)
  BY <1>a, <1>1, LabelOf DEF Registered
<1>5. ShownBy(reg') = [x \in Registered(reg) \cup {sid} |->
                         IF x \in {sid} THEN None ELSE ShownBy(reg)[x]]
  BY <1>3, <1>4 DEF ShownBy
<1>6. sid \in DOMAIN reg'.servers \ DOMAIN reg.servers
  BY <1>1 DEF Registered
<1>7. ShownBy(reg') = Table!Keeping(Table!Entries \cup {sid}, {sid})
  BY <1>5, TableShown, Zenon DEF Table!Keeping, ShownBy
<1> QED
  BY <1>1, <1>2, <1>6, <1>7, TableShown DEF Table!Listen, SocketsOf, ShownBy

(***************************************************************************)
(* Connections that enter.                                                 *)
(***************************************************************************)
LEMMA PutIsEnter ==
  ASSUME RegistryOK(reg), RegistryOK(reg'), NEW id \in StreamIds, NEW c, NEW parent,
         StreamPut(reg, reg', id, NewConnected(parent, c)),
         DOMAIN reg'.servers = DOMAIN reg.servers,
         \A s \in DOMAIN reg.servers : reg'.servers[s].label = reg.servers[s].label,
         Free(reg, id), \A x \in DOMAIN reg.streams : reg.streams[x].conn # c
  PROVE  id \in DOMAIN (SocketsOf(reg)') /\ Table!Enter(id, (SocketsOf(reg)')[id])
<1>1. /\ DOMAIN reg'.streams = DOMAIN reg.streams \cup {id}
      /\ \A x \in DOMAIN reg.streams \ {id} : reg'.streams[x] = reg.streams[x]
      /\ reg'.streams[id].conn = c /\ reg'.streams[id].label = None
  BY DEF StreamPut, NewConnected
<1>2. id \notin DOMAIN reg.servers
  <2>1. StreamIds \cap ServerIds = {}
    BY DEF StreamIds, ClientIds, AcceptedIds, ServerIds, TcpServerIds, IpcServerIds
  <2> QED
    BY <2>1, KindsDisjoint
<1>3. Table!Available(id)
  BY <1>2, TableShown DEF Free, Table!Available, Registered
<1>4. Table!Unused(c)
  BY DEF Table!Unused
<1>5. SocketsOf(reg') = [x \in DOMAIN SocketsOf(reg) \cup {id} |->
                           IF x = id THEN c ELSE SocketsOf(reg)[x]]
  BY <1>1 DEF SocketsOf
<1>6. Registered(reg') = Registered(reg) \cup {id}
  BY <1>1 DEF Registered
<1>7. \A x \in Registered(reg') :
         CurrentLabel(reg', x) = IF x \in {id} THEN None ELSE CurrentLabel(reg, x)
  BY <1>1, <1>2, LabelOf DEF Registered
<1>8. ShownBy(reg') = [x \in Registered(reg) \cup {id} |->
                         IF x \in {id} THEN None ELSE ShownBy(reg)[x]]
  BY <1>6, <1>7 DEF ShownBy
<1>9. ShownBy(reg') = Table!Keeping(Table!Entries \cup {id}, {id})
  BY <1>8, TableShown, Zenon DEF Table!Keeping, ShownBy
<1>10. Table!Enter(id, c)
  BY <1>3, <1>4, <1>5, <1>9, Zenon DEF Table!Enter, SocketsOf, ShownBy
<1>11. id \in DOMAIN (SocketsOf(reg)') /\ (SocketsOf(reg)')[id] = c
  BY <1>1 DEF SocketsOf
<1>12. Table!Enter(id, (SocketsOf(reg)')[id])
  BY <1>10, <1>11 DEF Table!Enter
<1> QED
  BY <1>11, <1>12

LEMMA ConnectsIsConnect ==
  ASSUME Founded, Founded', Owners, NEW id \in ClientIds, NEW c \in Conns, Connects(id, c)
  PROVE  Table!Connect
<1>1. /\ RegistryOK(reg) /\ RegistryOK(reg') /\ TypeOK /\ Handled /\ id \in StreamIds
      /\ id.kind # "Accepted"
  BY DEF Founded, WellFormed, TypeOK, Connects, StreamIds, ClientIds
<1>2. Free(reg, id) /\ ReadsUnder(c, id)
  BY ConnectsFree DEF Founded
<1>3. \A x \in DOMAIN reg.streams : reg.streams[x].conn # c
  BY <1>1, <1>2, NewReader
<1>4. /\ DOMAIN reg'.servers = DOMAIN reg.servers
      /\ \A s \in DOMAIN reg.servers : reg'.servers[s].label = reg.servers[s].label
  BY DEF Connects, SameServers, SameServer
<1>5. id \in DOMAIN (SocketsOf(reg)') /\ Table!Enter(id, (SocketsOf(reg)')[id])
  BY <1>1, <1>2, <1>3, <1>4, PutIsEnter DEF Connects
<1>6. UNCHANGED <<DOMAIN reg.servers, regTask = "running">>
  BY <1>1, <1>4 DEF Handled
<1> QED
  BY <1>1, <1>5, <1>6 DEF Table!Connect, SocketsOf

\* A connection accepted under an id that is free, or handed out again.
LEMMA PutIsAccept ==
  ASSUME Founded, Founded', Owners, Handled, NEW c, NEW sid \in DOMAIN reg.servers,
         NEW key \in PeerKeys, NEW n \in Nat, NEW id, id = AcceptedId(sid, key, n),
         StreamPut(reg, reg', id, NewConnected(sid, c)),
         DOMAIN reg'.servers = DOMAIN reg.servers,
         \A s \in DOMAIN reg.servers : reg'.servers[s].label = reg.servers[s].label,
         Free(reg, id), \A x \in DOMAIN reg.streams : reg.streams[x].conn # c,
         BaseId(sid, key) \notin DOMAIN reg.streams
  PROVE  Table!Accept
<1>1. RegistryOK(reg) /\ RegistryOK(reg')
  BY DEF Founded, WellFormed, TypeOK
<1>2. id \in StreamIds /\ id.kind = "Accepted" /\ id.parent \in DOMAIN reg.servers
  BY <1>1, KindsDisjoint, AcceptedIdTyped
<1>2a. Table!BaseId(id.parent, id.key) \notin DOMAIN SocketsOf(reg)
  <2>1. Table!BaseId(sid, key) = BaseId(sid, key)
    BY DEF Table!BaseId, BaseId, Table!AcceptedId, AcceptedId, Table!NoSuffix, NoSuffix
  <2>2. id.parent = sid /\ id.key = key
    BY DEF AcceptedId
  <2> QED
    BY <2>1, <2>2 DEF SocketsOf
<1>3. id \in DOMAIN (SocketsOf(reg)') /\ Table!Enter(id, (SocketsOf(reg)')[id])
  BY <1>1, <1>2, PutIsEnter
<1>4. UNCHANGED <<DOMAIN reg.servers, regTask = "running">>
  BY DEF Handled
<1> QED
  BY <1>2, <1>2a, <1>3, <1>4 DEF Table!Accept, SocketsOf

(***************************************************************************)
(* The second connection of a key, while the first is there.               *)
(***************************************************************************)
LEMMA RenameIsAcceptSecond ==
  ASSUME Founded, Founded', Owners, Handled, NEW c, NEW sid \in DOMAIN reg.servers,
         NEW key \in PeerKeys, BaseId(sid, key) \in DOMAIN reg.streams,
         AcceptedSecond(reg, reg', sid, key, NewConnected(sid, c)),
         \A x \in DOMAIN reg.streams : reg.streams[x].conn # c
  PROVE  Table!AcceptSecond
<1> DEFINE base  == BaseId(sid, key)
           first == AcceptedId(sid, key, 1)
           id    == AcceptedId(sid, key, 2)
           h     == NewConnected(sid, c)
           Was(x) == IF x = first THEN base ELSE x
           ids   == (DOMAIN reg.streams \ {base}) \cup {first, id}
<1>0. base \in DOMAIN reg.streams
  OBVIOUS
<1>1. RegistryOK(reg) /\ RegistryOK(reg') /\ sid \in ServerIds
  BY KindsDisjoint DEF Founded, WellFormed, TypeOK
<1>2. first \notin DOMAIN reg.streams /\ id \notin DOMAIN reg.streams
  BY <1>1, FreeIds DEF AcceptedSecond, Founded
<1>3. /\ DOMAIN reg'.streams = ids
      /\ \A x \in DOMAIN reg.streams \ {base, first, id} : reg'.streams[x] = reg.streams[x]
      /\ reg'.streams[first] = reg.streams[base]
      /\ reg'.streams[id] = h
      /\ DOMAIN reg'.servers = DOMAIN reg.servers
      /\ \A s \in DOMAIN reg.servers : reg'.servers[s].label = reg.servers[s].label
  <2>1. /\ DOMAIN reg'.servers = DOMAIN reg.servers
        /\ \A s \in DOMAIN reg.servers : reg'.servers[s].label = reg.servers[s].label
    BY DEF AcceptedSecond, TablesSet, SameServer
  <2>2. base \in DOMAIN reg.streams /\ AcceptedSecond(reg, reg', sid, key, h)
    OBVIOUS
  <2> HIDE DEF h
  <2>3. /\ DOMAIN reg'.streams = (DOMAIN reg.streams \ {base}) \cup {first, id}
        /\ \A x \in DOMAIN reg.streams \ {base, first, id} : reg'.streams[x] = reg.streams[x]
        /\ reg'.streams[first] = reg.streams[base]
        /\ reg'.streams[id] = h
    BY <2>2 DEF AcceptedSecond
  <2> QED
    BY <2>1, <2>3
<1>4. h.conn = c /\ h.label = None
  BY DEF NewConnected
<1>5. first # id /\ base # id /\ base # first
  BY AcceptedIdsDiffer DEF BaseId, NoSuffix
<1>6. /\ id.kind = "Accepted" /\ id.disambig = 2 /\ id.parent = sid /\ id.key = key
      /\ id \in StreamIds /\ first \in StreamIds /\ base \in StreamIds
  BY <1>1, AcceptedIdTyped DEF BaseId, NoSuffix
<1>7. first = Table!AcceptedId(sid, key, 1) /\ base = Table!BaseId(sid, key)
  BY DEF Table!AcceptedId, Table!BaseId, Table!NoSuffix, BaseId, AcceptedId, NoSuffix
<1>8. \A x \in {base, first, id} : x \notin DOMAIN reg.servers
  <2>1. StreamIds \cap ServerIds = {}
    BY DEF StreamIds, ClientIds, AcceptedIds, ServerIds, TcpServerIds, IpcServerIds
  <2> QED
    BY <1>1, <1>6, <2>1, KindsDisjoint
<1> HIDE DEF base, first, id, h
<1>9. \A x \in ids \ {id} : Was(x) \in DOMAIN reg.streams /\ reg'.streams[x] = reg.streams[Was(x)]
  BY <1>0, <1>2, <1>3
<1>10. (SocketsOf(reg)') = [x \in ids |-> IF x = id THEN c ELSE SocketsOf(reg)[Was(x)]]
  BY <1>3, <1>4, <1>9 DEF SocketsOf
<1>11. Registered(reg') = DOMAIN reg.servers \cup ids
  BY <1>3 DEF Registered
<1>12. \A x \in DOMAIN reg.servers \cup ids :
          CurrentLabel(reg', x) = IF x = id THEN None ELSE CurrentLabel(reg, Was(x))
  <2>1. \A x \in ids : CurrentLabel(reg', x) = reg'.streams[x].label
    BY <1>1, <1>3, LabelOf
  <2>2. \A x \in DOMAIN reg.servers : CurrentLabel(reg', x) = CurrentLabel(reg, x)
    BY <1>1, <1>3, LabelOf
  <2>3. \A x \in ids \ {id} : CurrentLabel(reg', x) = CurrentLabel(reg, Was(x))
    BY <1>1, <1>9, <2>1, LabelOf
  <2> QED
    BY <1>3, <1>4, <1>8, <2>1, <2>2, <2>3
<1>13. \A x \in DOMAIN reg.servers \cup ids : x # id => Was(x) \in Registered(reg)
  BY <1>8, <1>9 DEF Registered
<1>14. (ShownBy(reg)') = [x \in DOMAIN reg.servers \cup ids |->
                            IF x = id THEN None ELSE ShownBy(reg)[Was(x)]]
  BY <1>11, <1>12, <1>13 DEF ShownBy
<1>15. /\ DOMAIN (SocketsOf(reg)') = ids /\ (SocketsOf(reg)')[id] = c
       /\ DOMAIN SocketsOf(reg) = DOMAIN reg.streams
       /\ id \in DOMAIN (SocketsOf(reg)') \ DOMAIN SocketsOf(reg)
  BY <1>2, <1>10 DEF SocketsOf
<1>16. Table!Unused((SocketsOf(reg)')[id])
  BY <1>15 DEF Table!Unused
<1>17. UNCHANGED <<DOMAIN reg.servers, regTask = "running">>
  BY <1>3 DEF Handled
<1>18. /\ (SocketsOf(reg)') = [x \in ids |-> IF x = id THEN (SocketsOf(reg)')[id]
                                             ELSE SocketsOf(reg)[Was(x)]]
  BY <1>10, <1>15
<1>19. first = Table!AcceptedId(id.parent, id.key, 1) /\ base = Table!BaseId(id.parent, id.key)
  BY <1>6, <1>7
<1>20. base \in DOMAIN SocketsOf(reg) /\ first \notin DOMAIN SocketsOf(reg)
  BY <1>0, <1>2, <1>15
<1> QED
  <2> DEFINE ids2 == (DOMAIN SocketsOf(reg) \ {base}) \cup {first, id}
  <2>1. ids2 = ids
    BY <1>15
  <2>2. /\ (SocketsOf(reg))' = [x \in ids2 |-> IF x = id THEN (SocketsOf(reg)')[id]
                                ELSE SocketsOf(reg)[IF x = first THEN base ELSE x]]
        /\ (ShownBy(reg))' = [x \in DOMAIN reg.servers \cup ids2 |->
                                IF x = id THEN None ELSE ShownBy(reg)[IF x = first THEN base ELSE x]]
    BY <1>14, <1>18, <2>1
  <2>3. id.parent \in DOMAIN reg.servers
    BY <1>6
  <2> DEFINE old == SocketsOf(reg)
             new == (SocketsOf(reg))'
             lab == ShownBy(reg)
             lb2 == (ShownBy(reg))'
             Entering(x) ==
               LET b == Table!BaseId(x.parent, x.key)
                   f == Table!AcceptedId(x.parent, x.key, 1)
                   W(y) == IF y = f THEN b ELSE y
                   is == (DOMAIN old \ {b}) \cup {f, x}
               IN  /\ x.kind = "Accepted" /\ x.disambig = 2 /\ x.parent \in DOMAIN reg.servers
                   /\ b \in DOMAIN old /\ f \notin DOMAIN old
                   /\ Table!Unused(new[x])
                   /\ new = [y \in is |-> IF y = x THEN new[x] ELSE old[W(y)]]
                   /\ lb2 = [y \in DOMAIN reg.servers \cup is |->
                               IF y = x THEN None ELSE lab[W(y)]]
  <2>4. Entering(id)
    <3> HIDE DEF ids, Was, old, new, lab, lb2
    <3>1. id.kind = "Accepted" /\ id.disambig = 2
      BY <1>6
    <3>2. base \in DOMAIN old /\ first \notin DOMAIN old /\ Table!Unused(new[id])
      BY <1>16, <1>20 DEF old, new
    <3>3. /\ new = [x \in ids2 |-> IF x = id THEN new[id] ELSE old[IF x = first THEN base ELSE x]]
          /\ lb2 = [x \in DOMAIN reg.servers \cup ids2 |->
                      IF x = id THEN None ELSE lab[IF x = first THEN base ELSE x]]
      BY <2>2 DEF old, new, lab, lb2
    <3>4. ids2 = (DOMAIN old \ {base}) \cup {first, id}
      BY DEF old
    <3> HIDE DEF ids2
    <3> QED
      BY <1>19, <2>3, <3>1, <3>2, <3>3, <3>4
  <2>5. id \in DOMAIN new \ DOMAIN old
    BY <1>15
  <2>6. \E x \in DOMAIN new \ DOMAIN old : Entering(x)
    <3> HIDE DEF Entering, new, old
    <3> QED
      BY <2>4, <2>5
  <2> QED
    BY <1>17, <2>6, Zenon DEF Table!AcceptSecond, SocketsOf, ShownBy

\* A connection without suffix has its key in base_no_suffix.
LEMMA BaseInTable ==
  ASSUME WellFormed, Suffixes(reg), NEW sid \in DOMAIN reg.servers, NEW key \in PeerKeys,
         key \notin reg.servers[sid].base_no_suffix
  PROVE  BaseId(sid, key) \notin DOMAIN reg.streams
<1>1. sid \in ServerIds
  BY KindsDisjoint DEF WellFormed, TypeOK
<1>2. ASSUME BaseId(sid, key) \in DOMAIN reg.streams PROVE FALSE
  BY <1>1, <1>2, NumbersOf DEF BaseId, NoSuffix, Suffixes, Numbered
<1> QED
  BY <1>2

LEMMA AcceptsIsAccept ==
  ASSUME Founded, Founded', Owners, NEW c \in Conns, NEW sid \in ServerIds, NEW key \in PeerKeys,
         Accepts(c, sid, key)
  PROVE  Table!Accept \/ Table!AcceptSecond
<1> DEFINE h     == NewConnected(sid, c)
           srv   == reg.servers[sid]
           n     == srv.disambig_next[key]
           base  == BaseId(sid, key)
           secnd == AcceptedId(sid, key, 2)
           later == AcceptedId(sid, key, n)
<1>1. /\ RegistryOK(reg) /\ TypeOK /\ Suffixes(reg) /\ Handled /\ sid \in DOMAIN reg.servers
      /\ Head(inbox).type = "Accepted" /\ Head(inbox).conn = c
  BY DEF Founded, WellFormed, TypeOK, Accepts
<1>2. /\ FirstOfKey(srv, key) => base \notin DOMAIN reg.streams
      /\ key \in srv.base_no_suffix => secnd \notin DOMAIN reg.streams
      /\ key \notin srv.base_no_suffix /\ n # 0 => Free(reg, later)
  BY <1>1, FreeIds
<1>3. n \in Nat
  <2>1. IsMap(reg.servers, ServerIds, ServerHandles)
    BY <1>1, MapsOf
  <2>2. srv \in ServerHandles
    BY <1>1, <2>1, EntryInRange
  <2> QED
    BY <2>2 DEF ServerHandles
<1>4. \A x \in DOMAIN reg.streams : reg.streams[x].conn # c
  <2>1. \E id : Spawn(c, id)
    BY DEF Accepts
  <2>2. \E id : ReadsUnder(c, id)
    BY <1>1, <2>1, SpawnReads
  <2> QED
    BY <1>1, <2>2, NewReader
<1>5. ASSUME NEW b, NEW m, TablesSet(reg, reg', sid, b, m)
      PROVE  /\ DOMAIN reg'.servers = DOMAIN reg.servers
             /\ \A s \in DOMAIN reg.servers : reg'.servers[s].label = reg.servers[s].label
  BY <1>5 DEF TablesSet, SameServer
<1>6. CASE AcceptedFirst(reg, reg', sid, key, h)
  <2>1. StreamPut(reg, reg', base, h) /\ Free(reg, base) /\ base \notin DOMAIN reg.streams
    BY <1>2, <1>6 DEF AcceptedFirst, Free
  <2>2. base = AcceptedId(sid, key, NoSuffix) /\ NoSuffix \in Nat
    BY DEF BaseId, NoSuffix
  <2>3. /\ DOMAIN reg'.servers = DOMAIN reg.servers
        /\ \A s \in DOMAIN reg.servers : reg'.servers[s].label = reg.servers[s].label
    BY <1>5, <1>6 DEF AcceptedFirst
  <2> HIDE DEF base
  <2> QED
    BY <1>1, <1>4, <2>1, <2>2, <2>3, PutIsAccept DEF base
<1>7. CASE AcceptedSecond(reg, reg', sid, key, h)
  <2>1. /\ DOMAIN reg'.servers = DOMAIN reg.servers
        /\ \A s \in DOMAIN reg.servers : reg'.servers[s].label = reg.servers[s].label
    BY <1>5, <1>7 DEF AcceptedSecond
  <2>2. CASE base \in DOMAIN reg.streams
    BY <1>1, <1>4, <1>7, <2>2, RenameIsAcceptSecond
  <2>3. CASE base \notin DOMAIN reg.streams
    <3>1. StreamPut(reg, reg', secnd, h) /\ Free(reg, secnd)
      BY <1>2, <1>7, <2>3 DEF AcceptedSecond, Free
    <3> HIDE DEF secnd
    <3> QED
      BY <1>1, <1>4, <2>1, <2>3, <3>1, PutIsAccept DEF secnd
  <2> QED
    BY <2>2, <2>3
<1>8. CASE AcceptedLater(reg, reg', sid, key, h)
  <2>1. StreamPut(reg, reg', later, h) /\ Free(reg, later)
    BY <1>2, <1>8 DEF AcceptedLater
  <2>1a. base \notin DOMAIN reg.streams
    BY <1>1, <1>8, BaseInTable DEF AcceptedLater, Founded
  <2>2. /\ DOMAIN reg'.servers = DOMAIN reg.servers
        /\ \A s \in DOMAIN reg.servers : reg'.servers[s].label = reg.servers[s].label
    BY <1>5, <1>8 DEF AcceptedLater
  <2>3. later = AcceptedId(sid, key, n)
    OBVIOUS
  <2> HIDE DEF later, n
  <2> QED
    BY <1>1, <1>3, <1>4, <2>1, <2>1a, <2>2, <2>3, PutIsAccept
<1> QED
  BY <1>6, <1>7, <1>8 DEF Accepts

(***************************************************************************)
(* What leaves.                                                            *)
(***************************************************************************)
LEMMA LeftIsLeave ==
  ASSUME RegistryOK(reg), RegistryOK(reg'), NEW sids, NEW ids, Left(reg, reg', sids \cup ids),
         sids \subseteq DOMAIN reg.servers, ids \subseteq DOMAIN reg.streams
  PROVE  Table!Leave(sids, ids)
<1>1. sids \cap DOMAIN reg.streams = {} /\ ids \cap DOMAIN reg.servers = {}
  BY KindsDisjoint
<1>2. /\ DOMAIN reg'.streams = DOMAIN reg.streams \ ids
      /\ \A x \in DOMAIN reg.streams \ ids : reg'.streams[x] = reg.streams[x]
      /\ DOMAIN reg'.servers = DOMAIN reg.servers \ sids
      /\ \A s \in DOMAIN reg.servers \ sids : reg'.servers[s].label = reg.servers[s].label
  BY <1>1 DEF Left, SameServer
<1>3. (SocketsOf(reg)') = [x \in DOMAIN SocketsOf(reg) \ ids |-> SocketsOf(reg)[x]]
  BY <1>2 DEF SocketsOf
<1>4. Registered(reg') = Registered(reg) \ (sids \cup ids)
  BY <1>1, <1>2 DEF Registered
<1>5. \A x \in Registered(reg') : CurrentLabel(reg', x) = CurrentLabel(reg, x)
  BY <1>1, <1>2, LabelOf DEF Registered
<1>6. (ShownBy(reg)') = [x \in Registered(reg) \ (sids \cup ids) |-> ShownBy(reg)[x]]
  BY <1>4, <1>5 DEF ShownBy
<1>7. /\ DOMAIN SocketsOf(reg) \ ids \subseteq DOMAIN SocketsOf(reg)
      /\ Registered(reg) \ (sids \cup ids) \subseteq DOMAIN ShownBy(reg)
  BY DEF ShownBy
<1>8. (SocketsOf(reg)') = Restrict(SocketsOf(reg), DOMAIN SocketsOf(reg) \ ids)
  BY <1>3, Zenon DEF Restrict
<1>9. (ShownBy(reg)') = Restrict(ShownBy(reg), Registered(reg) \ (sids \cup ids))
  BY <1>6, Zenon DEF Restrict
<1>10. (DOMAIN reg.servers)' = DOMAIN reg.servers \ sids
  BY <1>2
<1> QED
  BY <1>8, <1>9, <1>10, TableShown, Zenon DEF Table!Leave, Table!Restrict, Restrict, SocketsOf, ShownBy

LEMMA ClosesIsClose ==
  ASSUME WellFormed, WellFormed', NEW id, NEW ids, Closes(id, ids)
  PROVE  Table!CloseStream \/ Table!CloseServer
<1>1. RegistryOK(reg) /\ RegistryOK(reg') /\ Left(reg, reg', ids)
  BY DEF WellFormed, TypeOK, Closes
<1>2. UNCHANGED (regTask = "running")
  BY DEF Closes, Handled
<1>3. CASE id \in DOMAIN reg.streams /\ ids = {id}
  <2>1. Left(reg, reg', {} \cup {id}) /\ {} \subseteq DOMAIN reg.servers
        /\ {id} \subseteq DOMAIN reg.streams
    BY <1>1, <1>3
  <2>2. Table!Leave({}, {id})
    BY <1>1, <2>1, LeftIsLeave
  <2>3. id \in DOMAIN SocketsOf(reg) \ DOMAIN (SocketsOf(reg)')
    BY <1>1, <1>3 DEF Left, SocketsOf
  <2>4. \E x \in DOMAIN SocketsOf(reg) \ DOMAIN (SocketsOf(reg)') :
           Table!Leave({}, {x}) /\ UNCHANGED (regTask = "running")
    BY <1>2, <2>2, <2>3
  <2> QED
    BY <2>4, Zenon DEF Table!CloseStream, SocketsOf
<1>4. CASE /\ id \in DOMAIN reg.servers
           /\ ids = {id} \cup {x \in DOMAIN reg.streams : ParentOf(x) = id}
  <2>1. PICK group : group = {x \in DOMAIN reg.streams : ParentOf(x) = id}
    OBVIOUS
  <2>2. Table!Group(id) = group
    <3>1. id # None
      BY <1>1, <1>4, NoneIsNoServer
    <3> QED
      BY <2>1, <3>1 DEF Table!Group, ParentOf
  <2>3. Left(reg, reg', {id} \cup group) /\ {id} \subseteq DOMAIN reg.servers
        /\ group \subseteq DOMAIN reg.streams
    BY <1>1, <1>4, <2>1
  <2>4. Table!Leave({id}, group)
    BY <1>1, <2>3, LeftIsLeave
  <2>5. id \in DOMAIN reg.servers \ (DOMAIN reg.servers)'
    BY <1>1, <1>4 DEF Left
  <2>6. Table!Leave({id}, Table!Group(id)) /\ UNCHANGED (regTask = "running")
    BY <1>2, <2>2, <2>4, Zenon DEF Table!Leave
  <2> QED
    BY <2>5, <2>6, Zenon DEF Table!CloseServer, Table!Leave
<1> QED
  BY <1>3, <1>4 DEF Closes

LEMMA EmptiesTearDown ==
  ASSUME DOMAIN reg'.streams = {}, DOMAIN reg'.servers = {}, regTask = "running",
         regTask' # "running"
  PROVE  Table!TearDown
<1>1. (SocketsOf(reg)') = [x \in DOMAIN SocketsOf(reg) \ DOMAIN SocketsOf(reg) |-> SocketsOf(reg)[x]]
  BY DEF SocketsOf
<1>2. DOMAIN SocketsOf(reg) = DOMAIN reg.streams
  BY DEF SocketsOf
<1>3. (ShownBy(reg)') = [x \in Registered(reg) \ (DOMAIN reg.servers \cup DOMAIN SocketsOf(reg)) |->
                           ShownBy(reg)[x]]
  BY <1>2 DEF ShownBy, Registered
<1>4. (SocketsOf(reg)') = Restrict(SocketsOf(reg), DOMAIN SocketsOf(reg) \ DOMAIN SocketsOf(reg))
  BY <1>1, Zenon DEF Restrict
<1>5. (ShownBy(reg)') = Restrict(ShownBy(reg),
                           Registered(reg) \ (DOMAIN reg.servers \cup DOMAIN SocketsOf(reg)))
  BY <1>3, Zenon DEF Restrict
<1>6. (DOMAIN reg.servers)' = DOMAIN reg.servers \ DOMAIN reg.servers
  OBVIOUS
<1>7. Table!Leave(DOMAIN reg.servers, DOMAIN SocketsOf(reg))
  BY <1>4, <1>5, <1>6, TableShown, Zenon
     DEF Table!Leave, Table!Restrict, Restrict, SocketsOf, ShownBy
<1>8. (regTask = "running")' = FALSE
  OBVIOUS
<1> QED
  BY <1>7, <1>8, Zenon DEF Table!TearDown, SocketsOf

(***************************************************************************)
(* A label that no other entry shows.                                      *)
(***************************************************************************)
LEMMA RelabelsIsName ==
  ASSUME WellFormed, WellFormed', LabelsWell(reg)', NEW id, NEW name, Relabels(id, name)
  PROVE  Table!Name
<1>1. /\ RegistryOK(reg) /\ RegistryOK(reg') /\ Relabelled(reg, reg', id, name) /\ Handled
      /\ id \in Registered(reg) /\ name # None
  BY NoneAssumption DEF WellFormed, TypeOK, Relabels
<1>2. /\ DOMAIN reg'.servers = DOMAIN reg.servers
      /\ Registered(reg') = Registered(reg)
      /\ (SocketsOf(reg)') = SocketsOf(reg)
  BY <1>1 DEF Relabelled, Registered, SocketsOf
<1>3. \A x \in Registered(reg) :
         CurrentLabel(reg', x) = IF x = id THEN name ELSE CurrentLabel(reg, x)
  BY <1>1 DEF Relabelled
<1>4. (ShownBy(reg)') = [x \in Registered(reg) |-> IF x = id THEN name ELSE CurrentLabel(reg, x)]
  BY <1>2, <1>3 DEF ShownBy
<1>5. (ShownBy(reg)')[id] = name
  BY <1>1, <1>4
<1>6. (ShownBy(reg)') = [ShownBy(reg) EXCEPT ![id] = (ShownBy(reg)')[id]]
  BY <1>4, <1>5 DEF ShownBy
<1>7. \A other \in Registered(reg) \ {id} : ShownBy(reg)[other] # (ShownBy(reg)')[id]
  BY <1>1, <1>2, <1>3, <1>5 DEF LabelsWell, LabelsDiffer, ShownBy
<1>8. UNCHANGED <<DOMAIN reg.servers, regTask = "running">>
  BY <1>1, <1>2 DEF Handled
<1> QED
  BY <1>1, <1>2, <1>6, <1>7, <1>8, TableShown, Zenon DEF Table!Name, SocketsOf, ShownBy

-----------------------------------------------------------------------------
(***************************************************************************)
(* Every step.                                                             *)
(***************************************************************************)
LEMMA SameMapsSameTable ==
  ASSUME reg'.servers = reg.servers, reg'.streams = reg.streams, regTask' = regTask
  PROVE  UNCHANGED Table!table
<1>1. SocketsOf(reg') = SocketsOf(reg) /\ ShownBy(reg') = ShownBy(reg)
  BY DEF SocketsOf, ShownBy, Registered, CurrentLabel
<1> QED
  BY <1>1, SameTable

LEMMA InitShowsTable ==
  ASSUME Init
  PROVE  Table!Init
<1>1. DOMAIN reg.streams = {} /\ DOMAIN reg.servers = {} /\ regTask = "running"
  BY NewMaps DEF Init
<1>2. SocketsOf(reg) = [id \in {} |-> None] /\ ShownBy(reg) = [id \in {} |-> None]
  BY <1>1 DEF SocketsOf, ShownBy, Registered
<1> QED
  BY <1>1, <1>2 DEF Table!Init, SocketsOf, ShownBy

LEMMA RegistryStepImplements ==
  ASSUME Founded, Founded', Owners, LabelsWell(reg)', RegistryStep
  PROVE  [Table!Next]_(Table!table)
<1>a. WellFormed /\ WellFormed' /\ TypeOK /\ Family(reg) /\ RegistryOK(reg)
  BY DEF Founded, WellFormed, TypeOK
<1> USE DEF Table!Next
<1>1. CASE ChangesNothing
  BY <1>1, SameMapsSameTable DEF ChangesNothing, Handled
<1>2. CASE UsesSequenceNumber
  <2>1. reg'.streams = reg.streams /\ reg'.servers = reg.servers /\ regTask' = regTask
    BY <1>a, <1>2, AllocIpcClientSeqOK DEF UsesSequenceNumber, Handled
  <2> QED
    BY <2>1, SameMapsSameTable
<1>3. ASSUME NEW sid \in ServerIds, Registers(sid) PROVE Table!Next
  BY <1>a, <1>3, RegistersListens
<1>4. ASSUME NEW id \in ClientIds, NEW c \in Conns, Connects(id, c) PROVE Table!Next
  BY <1>4, ConnectsIsConnect
<1>5. ASSUME NEW id, NEW ids, Closes(id, ids) PROVE Table!Next
  BY <1>a, <1>5, ClosesIsClose
<1>6. ASSUME NEW id, NEW name, Relabels(id, name) PROVE Table!Next
  BY <1>a, <1>6, RelabelsIsName
<1>7. ASSUME NEW c \in Conns, NEW sid \in ServerIds, NEW key \in PeerKeys, Accepts(c, sid, key)
      PROVE  Table!Next
  BY <1>7, AcceptsIsAccept
<1>8. CASE Panics
  <2>1. /\ DOMAIN reg'.streams = {} /\ DOMAIN reg'.servers = {}
        /\ regTask = "running" /\ regTask' # "running"
    BY <1>8, NewMaps DEF Panics, OnAcceptedPanics
  <2> QED
    BY <2>1, EmptiesTearDown
<1>9. CASE Stops
  <2>1. /\ DOMAIN reg'.streams = {} /\ DOMAIN reg'.servers = {}
        /\ regTask = "running" /\ regTask' # "running"
    BY <1>9 DEF Stops, Left, Registered
  <2> QED
    BY <2>1, EmptiesTearDown
<1> HIDE DEF Table!Next
<1> QED
  BY <1>a, <1>1, <1>2, <1>3, <1>4, <1>5, <1>6, <1>7, <1>8, <1>9, StepKinds

(***************************************************************************)
(* The registry implements the table: whatever the user, the peers and the *)
(* tasks do, in whatever order, each handler, with all that it does to the *)
(* three maps, is one step of the table or leaves the table as it is       *)
(* (handle_command, handle_accepted, on_closed_event).                     *)
(***************************************************************************)
THEOREM RefinementTheorem == Spec => ImplementsTable
<1>1. Init => Table!Init
  BY InitShowsTable
<1>2. Founded /\ Founded' /\ Owners /\ LabelsWell(reg)' /\ [Next]_vars
         => [Table!Next]_(Table!table)
  <2> SUFFICES ASSUME Founded, Founded', Owners, LabelsWell(reg)', [Next]_vars
               PROVE  [Table!Next]_(Table!table)
    OBVIOUS
  <2>1. CASE RegistryStep
    BY <2>1, RegistryStepImplements
  <2>2. CASE UNCHANGED <<reg, regTask, sockFiles, announced>>
    BY <2>2, SameMapsSameTable
  <2> QED
    BY <2>1, <2>2, OtherSteps
<1> QED
  BY <1>1, <1>2, FoundedAlways, OwnersAlways, LabelsAlways, PTL
     DEF Spec, ImplementsTable, Table!Spec
=============================================================================
