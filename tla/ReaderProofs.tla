---------------------------- MODULE ReaderProofs ----------------------------
(***************************************************************************)
(* Who reads a connection: the handles of the registry, the read tasks, the*)
(* connections that wait in the inbox, and the Closed events on their way. *)
(***************************************************************************)
EXTENDS NameProofs

(***************************************************************************)
(* Connections that are queued are in one Accepted message each, and their *)
(* tasks are not aborted.                                                  *)
(***************************************************************************)
Queue ==
    /\ \A i \in DOMAIN inbox : inbox[i].type = "Accepted" =>
          /\ task[inbox[i].conn].pc = "queued"
          /\ \A j \in DOMAIN inbox :
                inbox[j].type = "Accepted" /\ inbox[j].conn = inbox[i].conn => j = i
    /\ \A c \in Conns : task[c].pc = "queued" => ~task[c].aborted

Owners == Queue /\ HandlesOwnTheirReaders

\* The numbers of IPC clients that are registered are below the next one, the
\* last one excepted, which is handed out for ever.
Spent(r) ==
    \A id \in DOMAIN r.streams :
        id.kind = "IpcClient" => id.at < r.next_ipc_client_seq \/ id.at = SeqMax

-----------------------------------------------------------------------------
(***************************************************************************)
(* What the tasks do on their own: one task moves at most, and posts one   *)
(* message at most.                                                        *)
(***************************************************************************)
Only(c) == DOMAIN task' = Conns /\ \A d \in Conns \ {c} : task'[d] = task[d]

Moves(c, pc) ==
    /\ Only(c)
    /\ task'[c].pc = pc /\ task'[c].id = task[c].id /\ task'[c].aborted = task[c].aborted

Posted(m) == inbox' = Append(inbox, m)

NoTaskMoves ==
    task' = task /\ (inbox' = inbox \/ \E m : Posted(m) /\ m.type # "Accepted")

Holds(c) == task[c].pc = "fresh" /\ Only(c) /\ task'[c].pc = "accepted" /\ inbox' = inbox

HandsOver(c) ==
    /\ task[c].pc = "accepted" /\ Only(c) /\ task'[c].pc = "queued" /\ ~task'[c].aborted
    /\ \E m : Posted(m) /\ m.type = "Accepted" /\ m.conn = c

Fails(c) ==
    /\ Running(c) /\ Moves(c, "failing")
    /\ \E m : Posted(m) /\ m.type # "Accepted"

Ends(c) ==
    Running(c) /\ Moves(c, "ended") /\ Posted(EventMessage("Closed", task[c].id))

Dies(c) == task[c].aborted /\ Moves(c, "ended") /\ inbox' = inbox

LEMMA MovesTo ==
  ASSUME TypeOK, NEW c \in Conns, NEW pc, task' = [task EXCEPT ![c].pc = pc]
  PROVE  Moves(c, pc)
<1>1. task[c] \in Tasks /\ DOMAIN task = Conns
  BY DEF TypeOK
<1>2. /\ [task[c] EXCEPT !.pc = pc].pc = pc
      /\ [task[c] EXCEPT !.pc = pc].id = task[c].id
      /\ [task[c] EXCEPT !.pc = pc].aborted = task[c].aborted
  BY <1>1, TaskKinds DEF NoTask
<1> QED
  BY <1>1, <1>2 DEF Moves, Only

LEMMA MessageTypes ==
  /\ \A cmd : CommandMessage(cmd).type # "Accepted"
  /\ \A kind, id : EventMessage(kind, id).type # "Accepted"
  /\ \A c, id : AcceptedMessage(c, id).type = "Accepted" /\ AcceptedMessage(c, id).conn = c
  /\ ShutdownMessage.type # "Accepted"
  BY DEF CommandMessage, EventMessage, AcceptedMessage, ShutdownMessage

LEMMA OwnSteps ==
  ASSUME TypeOK, UserStep \/ AcceptStep \/ ReadStep
  PROVE  /\ reg' = reg /\ regTask' = regTask
         /\ \/ NoTaskMoves
            \/ \E c \in Conns : Holds(c) \/ HandsOver(c) \/ Fails(c) \/ Ends(c) \/ Dies(c)
<1> USE MessageTypes
<1>1. CASE UserStep
  BY <1>1 DEF UserStep, UserEnters, ReplSends, ReplNoticesEnd, CtrlC, MainSends, Post, Posted,
              NoTaskMoves
<1>2. CASE AcceptStep
  <2>1. ASSUME NEW c \in Conns, NEW sid, NEW key, Accept(c, sid, key)
        PROVE  Holds(c) /\ reg' = reg /\ regTask' = regTask
    BY <2>1 DEF Accept, Holds, Only, TypeOK
  <2>2. ASSUME NEW c \in Conns, AcceptSends(c)
        PROVE  HandsOver(c) /\ reg' = reg /\ regTask' = regTask
    <3>1. task[c] \in Tasks /\ DOMAIN task = Conns
      BY DEF TypeOK
    <3> DEFINE t == [[task[c] EXCEPT !.pc = "queued"] EXCEPT !.aborted = FALSE]
    <3>2. t.pc = "queued" /\ ~t.aborted
      BY <3>1, TaskKinds DEF NoTask
    <3>3. task' = [task EXCEPT ![c] = t]
      BY <2>2, <3>1 DEF AcceptSends
    <3> HIDE DEF t
    <3>4. Only(c) /\ task'[c].pc = "queued" /\ ~task'[c].aborted
      BY <3>1, <3>2, <3>3 DEF Only
    <3> QED
      BY <2>2, <3>4 DEF AcceptSends, HandsOver, Post, Posted
  <2>3. ASSUME NEW sid, AcceptFails(sid)
        PROVE  NoTaskMoves /\ reg' = reg /\ regTask' = regTask
    BY <2>3 DEF AcceptFails, Post, Posted, NoTaskMoves
  <2> QED
    BY <1>2, <2>1, <2>2, <2>3 DEF AcceptStep
<1>3. CASE ReadStep
  <2> SUFFICES ASSUME NEW c \in Conns,
                      \/ PeerCloses(c) \/ ReadData(c) \/ ReadEof(c)
                      \/ ReadError(c) \/ ReadErrorCloses(c) \/ AbortedEnds(c)
               PROVE  /\ reg' = reg /\ regTask' = regTask
                      /\ NoTaskMoves \/ Fails(c) \/ Ends(c) \/ Dies(c)
    BY <1>3 DEF ReadStep
  <2>1. CASE PeerCloses(c) \/ ReadData(c)
    BY <2>1 DEF PeerCloses, ReadData, Post, Posted, NoTaskMoves
  <2>2. CASE ReadEof(c) \/ ReadErrorCloses(c)
    BY <2>2, MovesTo DEF ReadEof, ReadErrorCloses, Post, Posted, Ends, Running
  <2>3. CASE ReadError(c)
    <3>1. Moves(c, "failing") /\ Posted(EventMessage("Error", task[c].id)) /\ Running(c)
      BY <2>3, MovesTo DEF ReadError, Post, Posted, Running
    <3> QED
      BY <2>3, <3>1 DEF ReadError, Fails
  <2>4. CASE AbortedEnds(c)
    BY <2>4, MovesTo DEF AbortedEnds, Dies
  <2> QED
    BY <2>1, <2>2, <2>3, <2>4
<1> QED
  BY <1>1, <1>2, <1>3

-----------------------------------------------------------------------------
(***************************************************************************)
(* What the registry task does to handles and read tasks.                  *)
(***************************************************************************)
Free(r, id) == id \notin DOMAIN r.streams \/ Table!HandedOutTwice(id)

SameConn(r, r2, x, y) == r2.streams[y].conn = r.streams[x].conn

HandlesStay ==
    /\ task' = task
    /\ DOMAIN reg'.streams = DOMAIN reg.streams
    /\ \A x \in DOMAIN reg.streams : SameConn(reg, reg', x, x)
    /\ Handled

\* A connection gets a read task and a handle, under the same id.
ReadsUnder(c, id) ==
    /\ task[c].pc = "fresh" \/ (Head(inbox).type = "Accepted" /\ Head(inbox).conn = c)
    /\ Only(c)
    /\ task'[c].pc = "reading" /\ task'[c].id = id /\ ~task'[c].aborted

Enters(id, c) ==
    /\ Handled
    /\ Free(reg, id)
    /\ DOMAIN reg'.streams = DOMAIN reg.streams \cup {id}
    /\ \A x \in DOMAIN reg.streams \ {id} : SameConn(reg, reg', x, x)
    /\ reg'.streams[id].conn = c
    /\ ReadsUnder(c, id)

\* The second connection of a key enters, and the first becomes #1.
Renames(sid, key, c) ==
    LET base   == BaseId(sid, key)
        first  == AcceptedId(sid, key, 1)
        second == AcceptedId(sid, key, 2)
    IN  /\ Handled
        /\ FormerId(first) = base
        /\ base # first /\ first # second
        /\ base \in DOMAIN reg.streams
        /\ first \notin DOMAIN reg.streams /\ second \notin DOMAIN reg.streams
        /\ DOMAIN reg'.streams = (DOMAIN reg.streams \ {base}) \cup {first, second}
        /\ \A x \in DOMAIN reg.streams \ {base} : SameConn(reg, reg', x, x)
        /\ SameConn(reg, reg', base, first)
        /\ reg'.streams[second].conn = c
        /\ ReadsUnder(c, second)

HandlesLeave ==
    /\ regTask = "running"
    /\ DOMAIN reg'.streams \subseteq DOMAIN reg.streams
    /\ \A x \in DOMAIN reg'.streams : SameConn(reg, reg', x, x)
    /\ OrphansReleased
    /\ \/ Handled
       \/ DOMAIN reg'.streams = {} /\ inbox' = <<>> /\ regTask' = "stopped"

Crashes ==
    /\ DOMAIN reg'.streams = {} /\ inbox' = <<>> /\ regTask' = "panicked" /\ task' = task

(***************************************************************************)
(* The ids that the allocators give out are free, or among those that are  *)
(* handed out twice.                                                       *)
(***************************************************************************)
LEMMA FreeIds ==
  ASSUME NEW r, RegistryOK(r), Suffixes(r), NEW sid \in DOMAIN r.servers, NEW key \in PeerKeys
  PROVE  LET srv == r.servers[sid]
         IN  /\ FirstOfKey(srv, key) => BaseId(sid, key) \notin DOMAIN r.streams
             /\ key \in srv.base_no_suffix =>
                   /\ AcceptedId(sid, key, 1) \notin DOMAIN r.streams
                   /\ AcceptedId(sid, key, 2) \notin DOMAIN r.streams
             /\ key \notin srv.base_no_suffix /\ srv.disambig_next[key] # 0 =>
                   Free(r, AcceptedId(sid, key, srv.disambig_next[key]))
<1> DEFINE srv == r.servers[sid]
           n   == srv.disambig_next[key]
<1>1. sid \in ServerIds
  BY KindsDisjoint
<1>2. n \in Nat
  <2>1. IsMap(r.servers, ServerIds, ServerHandles)
    BY MapsOf
  <2>2. srv \in ServerHandles
    BY <2>1, EntryInRange
  <2> QED
    BY <2>2 DEF ServerHandles
<1>3. \A m \in Nat : AcceptedId(sid, key, m) \in DOMAIN r.streams => Numbered(srv, key, m)
  BY <1>1, NumbersOf
<1>4. ASSUME FirstOfKey(srv, key) PROVE BaseId(sid, key) \notin DOMAIN r.streams
  BY <1>3, <1>4 DEF FirstOfKey, Numbered, BaseId, NoSuffix
<1>5. ASSUME key \in srv.base_no_suffix
      PROVE  /\ AcceptedId(sid, key, 1) \notin DOMAIN r.streams
             /\ AcceptedId(sid, key, 2) \notin DOMAIN r.streams
  <2>1. n = 0
    BY <1>5 DEF Suffixes
  <2> QED
    BY <1>3, <2>1 DEF Numbered, NoSuffix
<1>6. ASSUME n # 0, AcceptedId(sid, key, n) \in DOMAIN r.streams
      PROVE  Table!HandedOutTwice(AcceptedId(sid, key, n))
  <2>1. n = 2
    BY <1>2, <1>3, <1>6 DEF Numbered, NoSuffix
  <2> QED
    BY <2>1, <1>1, AcceptedIdTyped DEF Table!HandedOutTwice
<1> QED
  BY <1>4, <1>5, <1>6 DEF Free

LEMMA SpawnReads ==
  ASSUME TypeOK, NEW c \in Conns, NEW id, Spawn(c, id),
         task[c].pc = "fresh" \/ (Head(inbox).type = "Accepted" /\ Head(inbox).conn = c)
  PROVE  ReadsUnder(c, id)
  BY DEF TypeOK, Spawn, ReadsUnder, Only

LEMMA PutEnters ==
  ASSUME Handled, NEW id, NEW c, NEW parent, Free(reg, id), ReadsUnder(c, id),
         StreamPut(reg, reg', id, NewConnected(parent, c))
  PROVE  Enters(id, c)
  BY DEF StreamPut, NewConnected, Enters, SameConn

LEMMA AcceptsMoves ==
  ASSUME WellFormed, Suffixes(reg), NEW c \in Conns, NEW sid \in ServerIds, NEW key \in PeerKeys,
         Accepts(c, sid, key)
  PROVE  (\E id : Enters(id, c)) \/ Renames(sid, key, c)
<1> DEFINE h     == NewConnected(sid, c)
           srv   == reg.servers[sid]
           base  == BaseId(sid, key)
           first == AcceptedId(sid, key, 1)
           secnd == AcceptedId(sid, key, 2)
           later == AcceptedId(sid, key, srv.disambig_next[key])
<1>1. /\ RegistryOK(reg) /\ TypeOK /\ Handled /\ sid \in DOMAIN reg.servers
      /\ Head(inbox).type = "Accepted" /\ Head(inbox).conn = c
  BY DEF WellFormed, TypeOK, Accepts
<1>2. /\ FirstOfKey(srv, key) => base \notin DOMAIN reg.streams
      /\ key \in srv.base_no_suffix =>
            first \notin DOMAIN reg.streams /\ secnd \notin DOMAIN reg.streams
      /\ key \notin srv.base_no_suffix /\ srv.disambig_next[key] # 0 => Free(reg, later)
  BY <1>1, FreeIds
<1>3. \A id : Spawn(c, id) => ReadsUnder(c, id)
  BY <1>1, SpawnReads
<1>4. CASE AcceptedFirst(reg, reg', sid, key, h) /\ Spawn(c, base)
  <2>1. StreamPut(reg, reg', base, h) /\ Free(reg, base)
    BY <1>2, <1>4 DEF AcceptedFirst, Free
  <2> QED
    BY <1>1, <1>3, <1>4, <2>1, PutEnters
<1>5. CASE AcceptedSecond(reg, reg', sid, key, h) /\ Spawn(c, secnd)
  <2>1. first \notin DOMAIN reg.streams /\ secnd \notin DOMAIN reg.streams
    BY <1>2, <1>5 DEF AcceptedSecond
  <2>2. CASE StreamPut(reg, reg', secnd, h)
    <3>1. Free(reg, secnd)
      BY <2>1 DEF Free
    <3> QED
      BY <1>1, <1>3, <1>5, <2>2, <3>1, PutEnters
  <2>3. CASE ~StreamPut(reg, reg', secnd, h)
    <3>1. /\ base \in DOMAIN reg.streams
          /\ DOMAIN reg'.streams = (DOMAIN reg.streams \ {base}) \cup {first, secnd}
          /\ \A x \in DOMAIN reg.streams \ {base, first, secnd} :
                reg'.streams[x] = reg.streams[x]
          /\ reg'.streams[first] = reg.streams[base]
          /\ reg'.streams[secnd] = h
      BY <1>5, <2>3 DEF AcceptedSecond
    <3>2. base # first /\ first # secnd
      BY AcceptedIdsDiffer DEF BaseId, NoSuffix
    <3>3. FormerId(first) = base
      BY AcceptedIdTyped DEF FormerId
    <3>4. h.conn = c
      BY DEF NewConnected
    <3>5. ReadsUnder(c, secnd)
      BY <1>3, <1>5
    <3> HIDE DEF h, base, first, secnd
    <3>6. /\ \A x \in DOMAIN reg.streams \ {base} : SameConn(reg, reg', x, x)
          /\ SameConn(reg, reg', base, first)
          /\ reg'.streams[secnd].conn = c
      BY <2>1, <3>1, <3>4 DEF SameConn
    <3>7. Renames(sid, key, c)
      BY <1>1, <2>1, <3>1, <3>2, <3>3, <3>5, <3>6 DEF Renames, base, first, secnd
    <3> QED
      BY <3>7
  <2> QED
    BY <2>2, <2>3
<1>6. CASE AcceptedLater(reg, reg', sid, key, h) /\ Spawn(c, later)
  <2>1. StreamPut(reg, reg', later, h) /\ Free(reg, later)
    BY <1>2, <1>6 DEF AcceptedLater
  <2> HIDE DEF later
  <2> QED
    BY <1>1, <1>3, <1>6, <2>1, PutEnters
<1> QED
  BY <1>4, <1>5, <1>6 DEF Accepts

LEMMA ConnectsFree ==
  ASSUME WellFormed, Spent(reg), NEW id \in ClientIds, NEW c \in Conns, Connects(id, c)
  PROVE  Free(reg, id) /\ ReadsUnder(c, id)
<1>a. RegistryOK(reg) /\ TypeOK
  BY DEF WellFormed, TypeOK
<1>1. CASE id.kind = "TcpClient" /\ id \notin Registered(reg)
  BY <1>a, <1>1, SpawnReads DEF Free, Registered, Connects
<1>2. CASE id = IpcClientId(reg.next_ipc_client_seq)
  <2>1. id.kind = "IpcClient" /\ id.at = reg.next_ipc_client_seq
    BY <1>2 DEF IpcClientId
  <2>2. reg.next_ipc_client_seq \in Nat
    BY <1>a, SeqAssumption DEF RegistryOK
  <2>3. id \in DOMAIN reg.streams => id.at = SeqMax
    BY <2>1, <2>2 DEF Spent
  <2>4. id \in DOMAIN reg.streams => id = IpcClientId(SeqMax)
    BY <1>2, <2>1, <2>3
  <2>5. id = IpcClientId(SeqMax) => Table!HandedOutTwice(id)
    BY Zenon DEF Table!HandedOutTwice, Table!IpcClientId, IpcClientId
  <2> QED
    BY <1>a, <2>4, <2>5, SpawnReads DEF Free, Connects
<1> QED
  BY <1>1, <1>2 DEF Connects

LEMMA RegistryMoves ==
  ASSUME WellFormed, Suffixes(reg), Spent(reg), RegistryStep
  PROVE  \/ HandlesStay
         \/ \E id : \E c \in Conns : Enters(id, c)
         \/ \E sid \in ServerIds, key \in PeerKeys, c \in Conns : Renames(sid, key, c)
         \/ HandlesLeave
         \/ Crashes
<1>a. RegistryOK(reg) /\ TypeOK
  BY DEF WellFormed, TypeOK
<1>1. CASE ChangesNothing
  BY <1>1 DEF ChangesNothing, HandlesStay, SameConn
<1>2. CASE UsesSequenceNumber
  <2>1. reg'.streams = reg.streams
    BY <1>a, <1>2, AllocIpcClientSeqOK DEF UsesSequenceNumber
  <2> QED
    BY <1>2, <2>1 DEF UsesSequenceNumber, HandlesStay, SameConn
<1>3. ASSUME NEW sid \in ServerIds, Registers(sid) PROVE HandlesStay
  BY <1>3 DEF Registers, Listening, HandlesStay, SameConn
<1>4. ASSUME NEW id \in ClientIds, NEW c \in Conns, Connects(id, c) PROVE Enters(id, c)
  BY <1>4, ConnectsFree, PutEnters DEF Connects
<1>5. ASSUME NEW id, NEW ids, Closes(id, ids) PROVE HandlesLeave
  BY <1>5 DEF Closes, Handled, Left, HandlesLeave, SameConn
<1>6. ASSUME NEW id, NEW name, Relabels(id, name) PROVE HandlesStay
  BY <1>6 DEF Relabels, Relabelled, HandlesStay, SameConn
<1>7. CASE Panics
  BY <1>7, NewMaps DEF Panics, OnAcceptedPanics, Crashes
<1>8. CASE Stops
  <2>1. DOMAIN reg'.streams = {}
    BY <1>8 DEF Stops, Left, Registered
  <2> QED
    BY <1>8, <2>1 DEF Stops, HandlesLeave
<1> QED
  BY <1>1, <1>2, <1>3, <1>4, <1>5, <1>6, <1>7, <1>8, AcceptsMoves, StepKinds DEF WellFormed

-----------------------------------------------------------------------------
(***************************************************************************)
(* The queue.                                                              *)
(***************************************************************************)
LEMMA QueuedConns ==
  ASSUME TypeOK, NEW i \in DOMAIN inbox, inbox[i].type = "Accepted"
  PROVE  inbox[i].conn \in Conns
<1>1. inbox[i] \in Messages
  BY DEF TypeOK
<1> QED
  BY <1>1, MessageFields

LEMMA PostedAt ==
  ASSUME TypeOK, NEW m, Posted(m)
  PROVE  /\ DOMAIN inbox' = DOMAIN inbox \cup {Len(inbox) + 1}
         /\ \A i \in DOMAIN inbox : inbox'[i] = inbox[i]
         /\ inbox'[Len(inbox) + 1] = m
         /\ Len(inbox) + 1 \notin DOMAIN inbox
<1>1. inbox \in Seq(Messages) /\ inbox' = Append(inbox, m)
  BY DEF TypeOK, Posted
<1> QED
  BY <1>1

LEMMA HandledAt ==
  ASSUME TypeOK, Handled
  PROVE  /\ 1 \in DOMAIN inbox /\ Head(inbox) = inbox[1]
         /\ \A i \in DOMAIN inbox' : i + 1 \in DOMAIN inbox /\ inbox'[i] = inbox[i + 1]
         /\ \A i \in DOMAIN inbox \ {1} : i - 1 \in DOMAIN inbox' /\ inbox'[i - 1] = inbox[i]
         /\ DOMAIN inbox \subseteq Nat /\ DOMAIN inbox' \subseteq Nat \ {0}
<1>1. inbox \in Seq(Messages) /\ inbox # <<>> /\ inbox' = Tail(inbox)
  BY DEF TypeOK, Handled
<1>2. /\ Len(inbox) \in Nat \ {0} /\ DOMAIN inbox = 1..Len(inbox)
      /\ Len(inbox') = Len(inbox) - 1 /\ DOMAIN inbox' = 1..Len(inbox')
  BY <1>1
<1>3. \A i \in 1..(Len(inbox) - 1) : inbox'[i] = inbox[i + 1]
  BY <1>1
<1> QED
  BY <1>1, <1>2, <1>3

LEMMA QueueAfterOwnSteps ==
  ASSUME TypeOK, Queue, NEW c,
         \/ NoTaskMoves
         \/ c \in Conns /\ (Holds(c) \/ HandsOver(c) \/ Fails(c) \/ Ends(c) \/ Dies(c))
  PROVE  Queue'
<1>1. \A d \in Conns : task[d].pc = "queued" => ~task[d].aborted
  BY DEF Queue
<1>2. ASSUME task' = task \/ (Only(c) /\ task'[c].pc # "queued" /\ task[c].pc # "queued"),
             inbox' = inbox \/ \E m : Posted(m) /\ m.type # "Accepted"
      PROVE  Queue'
  <2>1. \A d \in Conns : task[d].pc = "queued" => task'[d] = task[d]
    BY <1>2 DEF Only
  <2>2. \A d \in Conns : task'[d].pc = "queued" => ~task'[d].aborted
    BY <1>1, <1>2 DEF Only
  <2>3. \A i \in DOMAIN inbox' : inbox'[i].type = "Accepted" =>
           i \in DOMAIN inbox /\ inbox'[i] = inbox[i]
    BY <1>2, PostedAt
  <2> QED
    BY <2>1, <2>2, <2>3, QueuedConns DEF Queue
<1>3. CASE NoTaskMoves
  BY <1>2, <1>3 DEF NoTaskMoves
<1>4. CASE Holds(c)
  BY <1>2, <1>4 DEF Holds
<1>5. CASE HandsOver(c)
  <2>1. PICK m : Posted(m) /\ m.type = "Accepted" /\ m.conn = c
    BY <1>5 DEF HandsOver
  <2>2. \A i \in DOMAIN inbox : inbox[i].type = "Accepted" =>
           inbox[i].conn \in Conns \ {c}
    BY <1>5, QueuedConns DEF HandsOver, Queue
  <2>3. \A d \in Conns : task'[d].pc = "queued" => ~task'[d].aborted
    BY <1>1, <1>5 DEF HandsOver, Only
  <2>4. \A i \in DOMAIN inbox' : inbox'[i].type = "Accepted" =>
           task'[inbox'[i].conn].pc = "queued"
    BY <1>5, <2>1, <2>2, PostedAt DEF HandsOver, Only, Queue
  <2>5. ASSUME NEW i \in DOMAIN inbox', NEW j \in DOMAIN inbox',
               inbox'[i].type = "Accepted", inbox'[j].type = "Accepted",
               inbox'[j].conn = inbox'[i].conn
        PROVE  j = i
    BY <2>1, <2>2, <2>5, PostedAt DEF Queue
  <2> QED
    BY <2>3, <2>4, <2>5 DEF Queue
<1>6. CASE Fails(c)
  BY <1>2, <1>6 DEF Fails, Moves, Running
<1>7. CASE Ends(c)
  BY <1>2, <1>7, MessageTypes DEF Ends, Moves, Running
<1>8. CASE c \in Conns /\ Dies(c)
  BY <1>1, <1>2, <1>8 DEF Dies, Moves
<1> QED
  BY <1>3, <1>4, <1>5, <1>6, <1>7, <1>8

LEMMA QueueAfterHandled ==
  ASSUME TypeOK, Queue, Handled,
         \A d \in Conns :
            task[d].pc = "queued" /\ ~(Head(inbox).type = "Accepted" /\ Head(inbox).conn = d)
               => task'[d] = task[d],
         \A d \in Conns : task'[d].pc = "queued" => ~task'[d].aborted
  PROVE  Queue'
<1>1. ASSUME NEW i \in DOMAIN inbox', inbox'[i].type = "Accepted"
      PROVE  task'[inbox'[i].conn].pc = "queued"
  <2>1. /\ i + 1 \in DOMAIN inbox /\ inbox[i + 1] = inbox'[i] /\ i + 1 # 1
        /\ 1 \in DOMAIN inbox /\ Head(inbox) = inbox[1]
    BY HandledAt
  <2>2. inbox[i + 1].conn \in Conns /\ task[inbox[i + 1].conn].pc = "queued"
    BY <1>1, <2>1, QueuedConns DEF Queue
  <2>3. ~(Head(inbox).type = "Accepted" /\ Head(inbox).conn = inbox[i + 1].conn)
    BY <1>1, <2>1 DEF Queue
  <2> QED
    BY <2>1, <2>2, <2>3
<1>2. ASSUME NEW i \in DOMAIN inbox', NEW j \in DOMAIN inbox',
             inbox'[i].type = "Accepted", inbox'[j].type = "Accepted",
             inbox'[j].conn = inbox'[i].conn
      PROVE  j = i
  <2>1. /\ i + 1 \in DOMAIN inbox /\ inbox[i + 1] = inbox'[i] /\ i \in Nat
        /\ j + 1 \in DOMAIN inbox /\ inbox[j + 1] = inbox'[j] /\ j \in Nat
    BY HandledAt
  <2>2. j + 1 = i + 1
    BY <1>2, <2>1 DEF Queue
  <2> QED
    BY <2>1, <2>2
<1> QED
  BY <1>1, <1>2 DEF Queue

LEMMA Released ==
  ASSUME TypeOK, OrphansReleased, NEW c \in Conns
  PROVE  /\ ~Orphan(c) => task'[c] = task[c]
         /\ Orphan(c) => /\ task[c].pc \in {"accepted", "reading", "failing"}
                         /\ task'[c].id = task[c].id
                         /\ \/ task'[c].aborted /\ task'[c].pc = task[c].pc
                            \/ task'[c].pc = "ended"
<1>1. task[c] \in Tasks
  BY DEF TypeOK
<1>2. Orphan(c) => task[c].pc \in {"accepted", "reading", "failing"}
  BY DEF Orphan, Running
<1>3. task[c].pc \in {"accepted", "reading", "failing"} =>
         /\ [task[c] EXCEPT !.aborted = TRUE].id = task[c].id
         /\ [task[c] EXCEPT !.aborted = TRUE].pc = task[c].pc
         /\ [task[c] EXCEPT !.aborted = TRUE].aborted
         /\ [task[c] EXCEPT !.pc = "ended"].id = task[c].id
         /\ [task[c] EXCEPT !.pc = "ended"].pc = "ended"
  BY <1>1, TaskKinds DEF NoTask
<1> QED
  BY <1>2, <1>3 DEF OrphansReleased

LEMMA QueueAfterRegistrySteps ==
  ASSUME TypeOK, Queue,
         \/ HandlesStay
         \/ \E id : \E c \in Conns : Enters(id, c)
         \/ \E sid \in ServerIds, key \in PeerKeys, c \in Conns : Renames(sid, key, c)
         \/ HandlesLeave
         \/ Crashes
  PROVE  Queue'
<1>1. CASE HandlesStay
  BY <1>1, QueueAfterHandled DEF HandlesStay, Queue
<1>2. ASSUME NEW c \in Conns, NEW id, Handled, ReadsUnder(c, id)
      PROVE  Queue'
  <2>1. \A d \in Conns :
           task[d].pc = "queued" /\ ~(Head(inbox).type = "Accepted" /\ Head(inbox).conn = d)
              => task'[d] = task[d]
    BY <1>2 DEF ReadsUnder, Only
  <2>2. \A d \in Conns : task'[d].pc = "queued" => ~task'[d].aborted
    BY <1>2 DEF ReadsUnder, Only, Queue
  <2> QED
    BY <1>2, <2>1, <2>2, QueueAfterHandled
<1>3. ASSUME OrphansReleased
      PROVE  /\ \A d \in Conns : task[d].pc = "queued" => task'[d] = task[d]
             /\ \A d \in Conns : task'[d].pc = "queued" => ~task'[d].aborted
  BY <1>3, Released DEF Queue
<1>4. ASSUME inbox' = <<>>, \A d \in Conns : task'[d].pc = "queued" => ~task'[d].aborted
      PROVE  Queue'
  <2>1. DOMAIN inbox' = {}
    BY <1>4
  <2> QED
    BY <1>4, <2>1 DEF Queue
<1>5. CASE HandlesLeave
  BY <1>3, <1>4, <1>5, QueueAfterHandled DEF HandlesLeave
<1>6. CASE Crashes
  BY <1>4, <1>6 DEF Crashes, Queue
<1> QED
  BY <1>1, <1>2, <1>5, <1>6 DEF Enters, Renames

-----------------------------------------------------------------------------
(***************************************************************************)
(* Handles and their read tasks.                                           *)
(***************************************************************************)
LEMMA HandleConns ==
  ASSUME TypeOK, NEW id \in DOMAIN reg.streams
  PROVE  reg.streams[id].conn \in Conns
<1>1. IsMap(reg.streams, StreamIds, StreamHandles)
  BY MapsOf DEF TypeOK
<1>2. reg.streams[id] \in StreamHandles
  BY <1>1, EntryInRange
<1> QED
  BY <1>2 DEF StreamHandles

LEMMA ReadersAfterOwnSteps ==
  ASSUME TypeOK, HandlesOwnTheirReaders, reg' = reg, NEW c,
         NoTaskMoves \/ Holds(c) \/ HandsOver(c) \/ Fails(c) \/ Ends(c) \/ Dies(c)
  PROVE  HandlesOwnTheirReaders'
<1> SUFFICES ASSUME NEW id \in DOMAIN reg.streams
             PROVE  LET d == reg.streams[id].conn
                    IN  /\ task'[d].pc \in {"reading", "failing", "ended"}
                        /\ ~task'[d].aborted
                        /\ task'[d].id \in {id, FormerId(id)}
  BY DEF HandlesOwnTheirReaders
<1> DEFINE d == reg.streams[id].conn
<1>1. /\ task[d].pc \in {"reading", "failing", "ended"} /\ ~task[d].aborted
      /\ task[d].id \in {id, FormerId(id)} /\ d \in Conns
  BY HandleConns DEF HandlesOwnTheirReaders
<1> HIDE DEF d
<1>2. task'[d] = task[d] \/ Moves(d, "failing") \/ Moves(d, "ended")
  BY <1>1 DEF NoTaskMoves, Holds, HandsOver, Fails, Ends, Dies, Moves, Only
<1>3. /\ task'[d].pc \in {"reading", "failing", "ended"} /\ ~task'[d].aborted
      /\ task'[d].id \in {id, FormerId(id)}
  BY <1>1, <1>2 DEF Moves
<1> QED
  BY <1>3 DEF d

\* The connection that is given a read task has no handle yet.
LEMMA NewReader ==
  ASSUME TypeOK, Owners, Handled, NEW c \in Conns, NEW id, ReadsUnder(c, id)
  PROVE  /\ ~Running(c) /\ task[c].pc # "ended"
         /\ \A x \in DOMAIN reg.streams : reg.streams[x].conn # c
<1>1. task[c].pc \in {"fresh", "queued"}
  BY HandledAt DEF ReadsUnder, Owners, Queue
<1> QED
  BY <1>1 DEF Owners, HandlesOwnTheirReaders, Running

\* A handle that stays, under its id or a new one, when one connection enters.
LEMMA ReaderKept ==
  ASSUME TypeOK, HandlesOwnTheirReaders, NEW c, NEW id, ReadsUnder(c, id),
         \A y \in DOMAIN reg.streams : reg.streams[y].conn # c,
         NEW x \in DOMAIN reg.streams, NEW y \in DOMAIN reg'.streams, SameConn(reg, reg', x, y),
         x \in {y, FormerId(y)}, x = y \/ FormerId(x) = x
  PROVE  LET d == reg'.streams[y].conn
         IN  /\ d = reg.streams[x].conn
             /\ task'[d].pc \in {"reading", "failing", "ended"}
             /\ ~task'[d].aborted
             /\ task'[d].id \in {y, FormerId(y)}
<1> DEFINE d == reg'.streams[y].conn
<1>1. d = reg.streams[x].conn /\ d \in Conns /\ d # c
  BY HandleConns DEF SameConn
<1> HIDE DEF d
<1>2. task'[d] = task[d]
  BY <1>1 DEF ReadsUnder, Only
<1>3. /\ task[d].pc \in {"reading", "failing", "ended"} /\ ~task[d].aborted
      /\ task[d].id \in {x, FormerId(x)}
  BY <1>1 DEF HandlesOwnTheirReaders
<1> QED
  BY <1>1, <1>2, <1>3 DEF d

LEMMA ReadersAfterEntry ==
  ASSUME TypeOK, Owners, NEW id, NEW c \in Conns, Enters(id, c)
  PROVE  HandlesOwnTheirReaders'
<1>1. /\ DOMAIN reg'.streams = DOMAIN reg.streams \cup {id}
      /\ \A x \in DOMAIN reg.streams \ {id} : SameConn(reg, reg', x, x)
      /\ reg'.streams[id].conn = c
      /\ task'[c].pc = "reading" /\ task'[c].id = id /\ ~task'[c].aborted
      /\ ReadsUnder(c, id) /\ Handled
  BY DEF Enters, ReadsUnder
<1>2. \A y \in DOMAIN reg.streams : reg.streams[y].conn # c
  BY <1>1, NewReader
<1>3. ASSUME NEW y \in DOMAIN reg'.streams \ {id}
      PROVE  LET d == reg'.streams[y].conn
             IN  /\ d = reg.streams[y].conn
                 /\ task'[d].pc \in {"reading", "failing", "ended"}
                 /\ ~task'[d].aborted
                 /\ task'[d].id \in {y, FormerId(y)}
  BY <1>1, <1>2, ReaderKept DEF Owners
<1>4. ASSUME NEW y \in DOMAIN reg'.streams, NEW z \in DOMAIN reg'.streams,
             reg'.streams[z].conn = reg'.streams[y].conn
      PROVE  z = y
  BY <1>1, <1>2, <1>3, <1>4 DEF Owners, HandlesOwnTheirReaders
<1> QED
  BY <1>1, <1>3, <1>4 DEF HandlesOwnTheirReaders

LEMMA ReadersAfterRename ==
  ASSUME TypeOK, Owners, NEW sid, NEW key, NEW c \in Conns, Renames(sid, key, c)
  PROVE  HandlesOwnTheirReaders'
<1> DEFINE base  == BaseId(sid, key)
           first == AcceptedId(sid, key, 1)
           secnd == AcceptedId(sid, key, 2)
           Was(y) == IF y = first THEN base ELSE y
<1>1. /\ DOMAIN reg'.streams = (DOMAIN reg.streams \ {base}) \cup {first, secnd}
      /\ \A x \in DOMAIN reg.streams \ {base} : SameConn(reg, reg', x, x)
      /\ SameConn(reg, reg', base, first)
      /\ reg'.streams[secnd].conn = c
      /\ task'[c].pc = "reading" /\ task'[c].id = secnd /\ ~task'[c].aborted
      /\ ReadsUnder(c, secnd) /\ Handled
      /\ base \in DOMAIN reg.streams /\ first \notin DOMAIN reg.streams
      /\ secnd \notin DOMAIN reg.streams
      /\ FormerId(first) = base /\ first # secnd
  BY DEF Renames, ReadsUnder
<1>2. FormerId(base) = base
  BY DEF FormerId, BaseId, AcceptedId, NoSuffix
<1> HIDE DEF base, first, secnd
<1>3. \A y \in DOMAIN reg.streams : reg.streams[y].conn # c
  BY <1>1, NewReader
<1>4. \A y \in DOMAIN reg'.streams \ {secnd} :
         /\ Was(y) \in DOMAIN reg.streams /\ SameConn(reg, reg', Was(y), y)
         /\ Was(y) \in {y, FormerId(y)}
         /\ Was(y) = y \/ FormerId(Was(y)) = Was(y)
  BY <1>1, <1>2
<1>5. ASSUME NEW y \in DOMAIN reg'.streams \ {secnd}
      PROVE  LET d == reg'.streams[y].conn
             IN  /\ d = reg.streams[Was(y)].conn
                 /\ task'[d].pc \in {"reading", "failing", "ended"}
                 /\ ~task'[d].aborted
                 /\ task'[d].id \in {y, FormerId(y)}
  <2> HIDE DEF Was
  <2> QED
    BY <1>1, <1>3, <1>4, ReaderKept DEF Owners
<1>6. ASSUME NEW y \in DOMAIN reg'.streams, NEW z \in DOMAIN reg'.streams,
             reg'.streams[z].conn = reg'.streams[y].conn
      PROVE  z = y
  <2>1. CASE y # secnd /\ z # secnd
    <3>1. Was(y) = Was(z)
      <4> HIDE DEF Was
      <4> QED
        BY <1>4, <1>5, <1>6, <2>1 DEF Owners, HandlesOwnTheirReaders
    <3> QED
      BY <1>1, <2>1, <3>1
  <2>2. CASE y = secnd \/ z = secnd
    <3> HIDE DEF Was
    <3> QED
      BY <1>1, <1>3, <1>4, <1>5, <1>6, <2>2
  <2> QED
    BY <2>1, <2>2
<1> HIDE DEF Was
<1> QED
  BY <1>1, <1>5, <1>6 DEF HandlesOwnTheirReaders

LEMMA ReadersAfterLeaving ==
  ASSUME TypeOK, HandlesOwnTheirReaders, HandlesLeave
  PROVE  HandlesOwnTheirReaders'
<1>1. /\ DOMAIN reg'.streams \subseteq DOMAIN reg.streams
      /\ \A x \in DOMAIN reg'.streams : reg'.streams[x].conn = reg.streams[x].conn
      /\ OrphansReleased
  BY DEF HandlesLeave, SameConn
<1>2. ASSUME NEW x \in DOMAIN reg'.streams
      PROVE  task'[reg.streams[x].conn] = task[reg.streams[x].conn]
  <2>1. ~Orphan(reg.streams[x].conn)
    BY <1>1 DEF Orphan, HandlesOwnTheirReaders
  <2> QED
    BY <1>1, <2>1, HandleConns, Released
<1> QED
  BY <1>1, <1>2 DEF HandlesOwnTheirReaders

-----------------------------------------------------------------------------
(***************************************************************************)
(* The numbers of IPC clients only grow, up to the last one.               *)
(***************************************************************************)
LEMMA SpentKept ==
  ASSUME NEW r, NEW r2, Spent(r), r.next_ipc_client_seq \in Nat, r2.next_ipc_client_seq \in Nat,
         r.next_ipc_client_seq <= r2.next_ipc_client_seq,
         DOMAIN r.streams \subseteq StreamIds,
         \A id \in DOMAIN r2.streams : id.kind = "IpcClient" =>
            id \in DOMAIN r.streams \/ id.at < r2.next_ipc_client_seq \/ id.at = SeqMax
  PROVE  Spent(r2)
<1> SUFFICES ASSUME NEW id \in DOMAIN r2.streams, id.kind = "IpcClient",
                    id \in DOMAIN r.streams, id.at < r.next_ipc_client_seq
             PROVE  id.at < r2.next_ipc_client_seq
  BY DEF Spent
<1>1. id.at \in Nat
  BY DEF StreamIds, ClientIds, AcceptedIds
<1> QED
  BY <1>1

LEMMA RegistryStepSpent ==
  ASSUME WellFormed, WellFormed', Spent(reg), RegistryStep
  PROVE  Spent(reg)'
<1>a. /\ RegistryOK(reg) /\ RegistryOK(reg') /\ SeqMax \in Nat
      /\ reg.next_ipc_client_seq \in Nat /\ reg'.next_ipc_client_seq \in Nat
      /\ reg.next_ipc_client_seq <= SeqMax
      /\ DOMAIN reg.streams \subseteq StreamIds
  BY SeqAssumption, KindsDisjoint DEF WellFormed, TypeOK, RegistryOK
<1>b. \A sid, key, n : AcceptedId(sid, key, n).kind # "IpcClient"
  BY DEF AcceptedId
<1>1. CASE ChangesNothing
  BY <1>1 DEF ChangesNothing
<1>2. CASE UsesSequenceNumber
  <2>1. reg'.streams = reg.streams /\ reg.next_ipc_client_seq <= reg'.next_ipc_client_seq
    BY <1>a, <1>2, AllocatedSeq DEF UsesSequenceNumber
  <2> QED
    BY <1>a, <2>1, SpentKept
<1>3. ASSUME NEW sid \in ServerIds, Registers(sid) PROVE Spent(reg')
  BY <1>a, <1>3, SpentKept DEF Registers, Listening, SameLabels
<1>4. ASSUME NEW id \in ClientIds, NEW c \in Conns, Connects(id, c) PROVE Spent(reg')
  <2>1. DOMAIN reg'.streams = DOMAIN reg.streams \cup {id}
    BY <1>4 DEF Connects, StreamPut
  <2>2. CASE id.kind = "TcpClient" /\ reg'.next_ipc_client_seq = reg.next_ipc_client_seq
    BY <1>a, <2>1, <2>2, SpentKept
  <2>3. CASE /\ id = IpcClientId(reg.next_ipc_client_seq)
             /\ reg'.next_ipc_client_seq = IF reg.next_ipc_client_seq < SeqMax
                                           THEN reg.next_ipc_client_seq + 1
                                           ELSE reg.next_ipc_client_seq
    <3>1. id.at = reg.next_ipc_client_seq
      BY <2>3 DEF IpcClientId
    <3>2. /\ id.at < reg'.next_ipc_client_seq \/ id.at = SeqMax
          /\ reg.next_ipc_client_seq <= reg'.next_ipc_client_seq
      BY <1>a, <2>3, <3>1
    <3> QED
      BY <1>a, <2>1, <3>2, SpentKept
  <2> QED
    BY <1>4, <2>2, <2>3 DEF Connects
<1>5. ASSUME NEW id, NEW ids, Closes(id, ids) PROVE Spent(reg')
  BY <1>a, <1>5, SpentKept DEF Closes, Left
<1>6. ASSUME NEW id, NEW name, Relabels(id, name) PROVE Spent(reg')
  BY <1>a, <1>6, SpentKept DEF Relabels, Relabelled
<1>7. ASSUME NEW c \in Conns, NEW sid \in ServerIds, NEW key \in PeerKeys, Accepts(c, sid, key)
      PROVE  Spent(reg')
  <2>1. /\ \A id \in DOMAIN reg'.streams : id.kind = "IpcClient" => id \in DOMAIN reg.streams
        /\ reg'.next_ipc_client_seq = reg.next_ipc_client_seq
    BY <1>7, <1>b DEF Accepts, AcceptedFirst, AcceptedSecond, AcceptedLater, StreamPut, BaseId,
                      SameLabels
  <2> QED
    BY <1>a, <2>1, SpentKept
<1>8. CASE Panics
  BY <1>8, NewMaps DEF Panics, OnAcceptedPanics, Spent
<1>9. CASE Stops
  BY <1>a, <1>9, SpentKept DEF Stops, Left
<1> QED
  BY <1>1, <1>2, <1>3, <1>4, <1>5, <1>6, <1>7, <1>8, <1>9, StepKinds DEF WellFormed

LEMMA SpentAlways == Spec => []Spent(reg)
<1>1. Init => Spent(reg)
  BY NewMaps DEF Init, Spent
<1>2. WellFormed /\ WellFormed' /\ Spent(reg) /\ [Next]_vars => Spent(reg)'
  BY OtherSteps, RegistryStepSpent DEF Spent
<1> QED
  BY <1>1, <1>2, WellFormedAlways, PTL DEF Spec

(***************************************************************************)
(* What the proofs about read tasks start from, and the steps as they see  *)
(* them.                                                                   *)
(***************************************************************************)
Founded == WellFormed /\ Suffixes(reg) /\ Spent(reg)

LEMMA FoundedAlways == Spec => []Founded
<1>1. WellFormed /\ Suffixes(reg) /\ Spent(reg) => Founded
  BY DEF Founded
<1> QED
  BY <1>1, WellFormedAlways, SuffixesAlways, SpentAlways, PTL

OwnStep ==
    /\ reg' = reg /\ regTask' = regTask
    /\ \/ NoTaskMoves
       \/ \E c \in Conns : Holds(c) \/ HandsOver(c) \/ Fails(c) \/ Ends(c) \/ Dies(c)

LEMMA Steps ==
  ASSUME Founded, [Next]_vars
  PROVE  \/ OwnStep
         \/ HandlesStay
         \/ \E id : \E c \in Conns : Enters(id, c)
         \/ \E sid \in ServerIds, key \in PeerKeys, c \in Conns : Renames(sid, key, c)
         \/ HandlesLeave
         \/ Crashes
<1>1. CASE RegistryStep
  BY <1>1, RegistryMoves DEF Founded
<1>2. CASE UserStep \/ AcceptStep \/ ReadStep
  BY <1>2, OwnSteps DEF Founded, WellFormed, OwnStep
<1>3. CASE UNCHANGED vars
  BY <1>3 DEF vars, OwnStep, NoTaskMoves
<1> QED
  BY <1>1, <1>2, <1>3 DEF Next, Exited

LEMMA OwnersNext ==
  ASSUME Founded, Owners, [Next]_vars
  PROVE  Owners'
<1>1. TypeOK /\ Queue /\ HandlesOwnTheirReaders
  BY DEF Founded, WellFormed, Owners
<1>2. CASE OwnStep
  <2>1. Queue'
    BY <1>1, <1>2, QueueAfterOwnSteps DEF OwnStep
  <2>2. HandlesOwnTheirReaders'
    BY <1>1, <1>2, ReadersAfterOwnSteps DEF OwnStep
  <2> QED
    BY <2>1, <2>2 DEF Owners
<1>3. CASE ~OwnStep
  <2>1. Queue'
    BY <1>1, <1>3, Steps, QueueAfterRegistrySteps
  <2>2. HandlesOwnTheirReaders'
    <3>1. CASE HandlesStay
      BY <1>1, <3>1 DEF HandlesStay, SameConn, HandlesOwnTheirReaders
    <3>2. CASE Crashes
      BY <3>2 DEF Crashes, HandlesOwnTheirReaders
    <3> QED
      BY <1>1, <1>3, <3>1, <3>2, Steps, ReadersAfterEntry, ReadersAfterRename,
         ReadersAfterLeaving
  <2> QED
    BY <2>1, <2>2 DEF Owners
<1> QED
  BY <1>2, <1>3

LEMMA OwnersAlways == Spec => []Owners
<1>1. Init => Owners
  BY NewMaps DEF Init, Owners, Queue, HandlesOwnTheirReaders, NoTask
<1>2. Founded /\ Owners /\ [Next]_vars => Owners'
  BY OwnersNext
<1> QED
  BY <1>1, <1>2, FoundedAlways, PTL DEF Spec

(***************************************************************************)
(* A connection is registered under one id at most, and its read task is   *)
(* one that reports under that id or the one before a rename and was not   *)
(* aborted, in whatever order connections, closes, errors and renames are  *)
(* handled (spawn_stream, insert_stream, StreamHandle's drop).             *)
(***************************************************************************)
THEOREM ReaderTheorem == Spec => []HandlesOwnTheirReaders
<1>1. Owners => HandlesOwnTheirReaders
  BY DEF Owners
<1> QED
  BY <1>1, OwnersAlways, PTL

-----------------------------------------------------------------------------
(***************************************************************************)
(* Read tasks and their handles.                                           *)
(***************************************************************************)
Covered(c) ==
    \E id \in DOMAIN reg.streams : reg.streams[id].conn = c /\ task[c].id \in {id, FormerId(id)}

Reads(c) == Running(c) /\ ~task[c].aborted /\ ~Table!HandedOutTwice(task[c].id)

LEMMA ReadsBefore ==
  ASSUME OwnStep, NEW c \in Conns, Reads(c)'
  PROVE  Reads(c) /\ task'[c].id = task[c].id
<1>1. \/ task'[c] = task[c]
      \/ Moves(c, "failing") /\ Running(c)
  BY DEF OwnStep, NoTaskMoves, Holds, HandsOver, Fails, Ends, Dies, Moves, Only, Reads, Running
<1> QED
  BY <1>1 DEF Reads, Running, Moves

LEMMA CoveredAfterEntry ==
  ASSUME TypeOK, Owners, NEW id, NEW c \in Conns, Enters(id, c),
         \A d \in Conns : Reads(d) => Covered(d),
         NEW d \in Conns, Reads(d)'
  PROVE  Covered(d)'
<1>1. /\ DOMAIN reg'.streams = DOMAIN reg.streams \cup {id}
      /\ \A x \in DOMAIN reg.streams \ {id} : reg'.streams[x].conn = reg.streams[x].conn
      /\ reg'.streams[id].conn = c /\ task'[c].id = id
      /\ Only(c)
  BY DEF Enters, ReadsUnder, SameConn
<1>2. CASE d = c
  BY <1>1, <1>2 DEF Covered
<1>3. CASE d # c
  <2>1. task'[d] = task[d]
    BY <1>1, <1>3 DEF Only
  <2>2. Reads(d)
    BY <2>1 DEF Reads, Running
  <2>3. PICK x \in DOMAIN reg.streams :
           reg.streams[x].conn = d /\ task[d].id \in {x, FormerId(x)}
    BY <2>2 DEF Covered
  <2>4. x # id
    <3> SUFFICES ASSUME x = id PROVE FALSE
      OBVIOUS
    <3>1. Table!HandedOutTwice(x)
      BY <2>3 DEF Enters, Free
    <3>2. FormerId(x) = x
      BY <3>1 DEF Table!HandedOutTwice, FormerId, Table!IpcClientId
    <3> QED
      BY <2>2, <2>3, <3>1, <3>2 DEF Reads
  <2> QED
    BY <1>1, <2>1, <2>3, <2>4 DEF Covered
<1> QED
  BY <1>2, <1>3

LEMMA CoveredAfterRename ==
  ASSUME TypeOK, Owners, NEW sid, NEW key, NEW c \in Conns, Renames(sid, key, c),
         \A d \in Conns : Reads(d) => Covered(d),
         NEW d \in Conns, Reads(d)'
  PROVE  Covered(d)'
<1> DEFINE base  == BaseId(sid, key)
           first == AcceptedId(sid, key, 1)
           secnd == AcceptedId(sid, key, 2)
<1>1. /\ DOMAIN reg'.streams = (DOMAIN reg.streams \ {base}) \cup {first, secnd}
      /\ \A x \in DOMAIN reg.streams \ {base} : reg'.streams[x].conn = reg.streams[x].conn
      /\ reg'.streams[first].conn = reg.streams[base].conn
      /\ reg'.streams[secnd].conn = c /\ task'[c].id = secnd
      /\ Only(c) /\ FormerId(first) = base
  BY DEF Renames, ReadsUnder, SameConn
<1>2. FormerId(base) = base
  BY DEF FormerId, BaseId, AcceptedId, NoSuffix
<1> HIDE DEF base, first, secnd
<1>3. CASE d = c
  BY <1>1, <1>3 DEF Covered
<1>4. CASE d # c
  <2>1. task'[d] = task[d]
    BY <1>1, <1>4 DEF Only
  <2>2. Reads(d)
    BY <2>1 DEF Reads, Running
  <2>3. PICK x \in DOMAIN reg.streams :
           reg.streams[x].conn = d /\ task[d].id \in {x, FormerId(x)}
    BY <2>2 DEF Covered
  <2>4. CASE x = base
    <3>1. reg'.streams[first].conn = d /\ task'[d].id \in {first, FormerId(first)}
      BY <1>1, <1>2, <2>1, <2>3, <2>4
    <3> QED
      BY <1>1, <3>1 DEF Covered
  <2>5. CASE x # base
    BY <1>1, <2>1, <2>3, <2>5 DEF Covered
  <2> QED
    BY <2>4, <2>5
<1> QED
  BY <1>3, <1>4

LEMMA CoveredAfterLeaving ==
  ASSUME TypeOK, HandlesLeave, \A d \in Conns : Reads(d) => Covered(d),
         NEW d \in Conns, Reads(d)'
  PROVE  Covered(d)'
<1>1. ~Orphan(d) /\ task'[d] = task[d]
  BY Released DEF HandlesLeave, Reads, Running
<1>2. Reads(d)
  BY <1>1 DEF Reads, Running
<1>3. PICK x \in DOMAIN reg.streams :
         reg.streams[x].conn = d /\ task[d].id \in {x, FormerId(x)}
  BY <1>2 DEF Covered
<1>4. x \in DOMAIN reg'.streams
  BY <1>1, <1>2, <1>3 DEF Orphan, Reads
<1> QED
  BY <1>1, <1>3, <1>4 DEF HandlesLeave, SameConn, Covered

LEMMA NoReaderLeftNext ==
  ASSUME Founded, Owners, NoReaderLeftBehind, [Next]_vars
  PROVE  NoReaderLeftBehind'
<1> SUFFICES ASSUME regTask' # "panicked", NEW d \in Conns, Reads(d)'
             PROVE  Covered(d)'
  BY DEF NoReaderLeftBehind, Reads, Covered
<1>1. TypeOK
  BY DEF Founded, WellFormed
<1>2. regTask # "panicked"
  BY Steps DEF OwnStep, HandlesStay, Enters, Renames, HandlesLeave, Crashes, Handled
<1>3. \A c \in Conns : Reads(c) => Covered(c)
  BY <1>2 DEF NoReaderLeftBehind, Reads, Covered
<1>4. CASE OwnStep
  <2>1. Reads(d) /\ task'[d].id = task[d].id /\ reg' = reg
    BY <1>4, ReadsBefore DEF OwnStep
  <2> QED
    BY <1>3, <2>1 DEF Covered
<1>5. CASE HandlesStay
  BY <1>3, <1>5 DEF HandlesStay, SameConn, Covered, Reads, Running
<1>6. CASE Crashes
  BY <1>6 DEF Crashes
<1> QED
  BY <1>1, <1>3, <1>4, <1>5, <1>6, Steps, CoveredAfterEntry, CoveredAfterRename,
     CoveredAfterLeaving

(***************************************************************************)
(* No connection goes on being read once its handle is gone: closing a     *)
(* connection, a whole server or the registry aborts the read task of every*)
(* handle that goes, and a rename takes the handle along.  Only a handle   *)
(* under an id that is handed out twice is replaced without an abort       *)
(* (drop_stream, drop_server, shutdown, StreamHandle's drop, insert_stream)*)
(***************************************************************************)
THEOREM NoReaderTheorem == Spec => []NoReaderLeftBehind
<1>1. Init => NoReaderLeftBehind
  BY DEF Init, NoReaderLeftBehind, Running, NoTask
<1>2. Founded /\ Owners /\ NoReaderLeftBehind /\ [Next]_vars => NoReaderLeftBehind'
  BY NoReaderLeftNext
<1> QED
  BY <1>1, <1>2, FoundedAlways, OwnersAlways, PTL DEF Spec

-----------------------------------------------------------------------------
(***************************************************************************)
(* Closed events on their way.                                             *)
(***************************************************************************)
Announces(id) == \E i \in DOMAIN inbox : inbox[i] = EventMessage("Closed", id)

Seen(id) ==
    LET c == reg.streams[id].conn
    IN  task[c].pc = "ended" /\ task[c].id = id => Announces(id)

LEMMA AnnouncedLater ==
  ASSUME TypeOK, Handled, NEW id \in DOMAIN reg'.streams, Announces(id)
  PROVE  Announces(id)'
<1>1. PICK i \in DOMAIN inbox : inbox[i] = EventMessage("Closed", id)
  BY DEF Announces
<1>2. i # 1
  BY <1>1, HandledAt DEF Handled
<1> QED
  BY <1>1, <1>2, HandledAt DEF Announces

LEMMA SeenKept ==
  ASSUME TypeOK, Handled, NEW id \in DOMAIN reg.streams, id \in DOMAIN reg'.streams, Seen(id),
         SameConn(reg, reg', id, id),
         task'[reg.streams[id].conn] = task[reg.streams[id].conn]
  PROVE  Seen(id)'
  BY AnnouncedLater DEF Seen, SameConn

LEMMA SeenAfterOwnSteps ==
  ASSUME TypeOK, HandlesOwnTheirReaders, NEW id \in DOMAIN reg.streams, Seen(id), OwnStep
  PROVE  Seen(id)'
<1> DEFINE d == reg.streams[id].conn
<1>1. reg' = reg /\ d \in Conns /\ ~task[d].aborted
  BY HandleConns DEF OwnStep, HandlesOwnTheirReaders
<1>2. Announces(id) => Announces(id)'
  <2>1. inbox' = inbox \/ \E m : Posted(m)
    BY DEF OwnStep, NoTaskMoves, Holds, HandsOver, Fails, Ends, Dies
  <2> QED
    BY <2>1, PostedAt DEF Announces
<1> HIDE DEF d
<1>3. \/ task'[d] = task[d]
      \/ task'[d].pc # "ended"
      \/ task'[d].id = task[d].id /\ Posted(EventMessage("Closed", task[d].id))
  BY <1>1 DEF OwnStep, NoTaskMoves, Holds, HandsOver, Fails, Ends, Dies, Moves, Only
<1>4. ASSUME Posted(EventMessage("Closed", id)) PROVE Announces(id)'
  BY <1>4, PostedAt DEF Announces
<1>5. task'[d].pc = "ended" /\ task'[d].id = id => Announces(id)'
  BY <1>2, <1>3, <1>4 DEF Seen, d
<1> QED
  BY <1>1, <1>5 DEF Seen, d

LEMMA CloseNext ==
  ASSUME Founded, Owners, CloseOnItsWay, [Next]_vars
  PROVE  CloseOnItsWay'
<1> SUFFICES ASSUME NEW y \in DOMAIN reg'.streams PROVE Seen(y)'
  BY DEF CloseOnItsWay, Seen, Announces
<1>1. TypeOK /\ HandlesOwnTheirReaders
  BY DEF Founded, WellFormed, Owners
<1>2. \A x \in DOMAIN reg.streams : Seen(x)
  BY DEF CloseOnItsWay, Seen, Announces
<1>3. CASE OwnStep
  <2>1. y \in DOMAIN reg.streams
    BY <1>3 DEF OwnStep
  <2> QED
    BY <1>1, <1>2, <1>3, <2>1, SeenAfterOwnSteps
<1>4. CASE HandlesStay
  BY <1>1, <1>2, <1>4, SeenKept DEF HandlesStay
<1>5. ASSUME NEW id, NEW c \in Conns, Enters(id, c) PROVE Seen(y)'
  <2>1. Handled /\ ReadsUnder(c, id)
    BY <1>5 DEF Enters
  <2>2. CASE y = id
    BY <1>5, <2>2 DEF Enters, ReadsUnder, Seen
  <2>3. CASE y # id
    <3>1. y \in DOMAIN reg.streams /\ SameConn(reg, reg', y, y)
      BY <1>5, <2>3 DEF Enters
    <3>2. reg.streams[y].conn \in Conns \ {c}
      BY <1>1, <2>1, <3>1, HandleConns, NewReader
    <3>3. task'[reg.streams[y].conn] = task[reg.streams[y].conn]
      BY <2>1, <3>2 DEF ReadsUnder, Only
    <3> QED
      BY <1>1, <1>2, <2>1, <3>1, <3>3, SeenKept
  <2> QED
    BY <2>2, <2>3
<1>6. ASSUME NEW sid, NEW key, NEW c \in Conns, Renames(sid, key, c) PROVE Seen(y)'
  <2> DEFINE base  == BaseId(sid, key)
             first == AcceptedId(sid, key, 1)
             secnd == AcceptedId(sid, key, 2)
  <2>1. /\ Handled /\ ReadsUnder(c, secnd) /\ base # first
        /\ base \in DOMAIN reg.streams
        /\ DOMAIN reg'.streams = (DOMAIN reg.streams \ {base}) \cup {first, secnd}
        /\ \A x \in DOMAIN reg.streams \ {base} : SameConn(reg, reg', x, x)
        /\ SameConn(reg, reg', base, first)
        /\ reg'.streams[secnd].conn = c
    BY <1>6 DEF Renames
  <2>2. FormerId(base) = base
    BY DEF FormerId, BaseId, AcceptedId, NoSuffix
  <2> HIDE DEF base, first, secnd
  <2>3. \A x \in DOMAIN reg.streams :
           /\ reg.streams[x].conn \in Conns \ {c}
           /\ task'[reg.streams[x].conn] = task[reg.streams[x].conn]
    BY <1>1, <2>1, HandleConns, NewReader DEF ReadsUnder, Only
  <2>4. CASE y = secnd
    BY <2>1, <2>4 DEF ReadsUnder, Seen
  <2>5. CASE y = first /\ y # secnd
    <3>1. task[reg.streams[base].conn].id = base
      BY <1>1, <2>1, <2>2 DEF HandlesOwnTheirReaders
    <3>2. task'[reg'.streams[first].conn].id # first
      BY <2>1, <2>3, <3>1 DEF SameConn
    <3> QED
      BY <2>5, <3>2 DEF Seen
  <2>6. CASE y # first /\ y # secnd
    <3>1. y \in DOMAIN reg.streams /\ SameConn(reg, reg', y, y)
      BY <2>1, <2>6
    <3> QED
      BY <1>1, <1>2, <2>1, <2>3, <3>1, SeenKept
  <2> QED
    BY <2>4, <2>5, <2>6
<1>7. CASE HandlesLeave
  <2>1. Handled /\ y \in DOMAIN reg.streams /\ SameConn(reg, reg', y, y) /\ OrphansReleased
    BY <1>7 DEF HandlesLeave
  <2>2. ~Orphan(reg.streams[y].conn)
    BY <1>1, <2>1 DEF Orphan, HandlesOwnTheirReaders
  <2>3. task'[reg.streams[y].conn] = task[reg.streams[y].conn]
    BY <1>1, <2>1, <2>2, HandleConns, Released
  <2> QED
    BY <1>1, <1>2, <2>1, <2>3, SeenKept
<1>8. CASE Crashes
  BY <1>8 DEF Crashes
<1> QED
  BY <1>3, <1>4, <1>5, <1>6, <1>7, <1>8, Steps

(***************************************************************************)
(* The end of a connection is never lost: while its handle keeps the id    *)
(* that its read task reports, the Closed event is in the inbox once the   *)
(* task has ended, and no handler takes it and leaves the handle           *)
(* (spawn_stream, on_closed_event).                                        *)
(***************************************************************************)
THEOREM CloseTheorem == Spec => []CloseOnItsWay
<1>1. Init => CloseOnItsWay
  BY NewMaps DEF Init, CloseOnItsWay
<1>2. Founded /\ Owners /\ CloseOnItsWay /\ [Next]_vars => CloseOnItsWay'
  BY CloseNext
<1> QED
  BY <1>1, <1>2, FoundedAlways, OwnersAlways, PTL DEF Spec

-----------------------------------------------------------------------------
(***************************************************************************)
(* Ids from one step to the next.  A connection that enters was in no      *)
(* handle before, because its read task was not running.                   *)
(***************************************************************************)
StaysPut ==
    /\ \A id \in DOMAIN reg.streams, id2 \in DOMAIN reg'.streams :
          reg'.streams[id2].conn = reg.streams[id].conn => id \in {id2, FormerId(id2)}
    /\ \A id \in DOMAIN reg.streams \cap DOMAIN reg'.streams :
          reg'.streams[id].conn = reg.streams[id].conn \/ Table!HandedOutTwice(id)

LEMMA NewcomerUnknown ==
  ASSUME TypeOK, Owners, Handled, NEW c \in Conns, NEW id, ReadsUnder(c, id)
  PROVE  \A x \in DOMAIN reg.streams : reg.streams[x].conn # c
<1>1. task[c].pc = "fresh" \/ task[c].pc = "queued"
  <2>1. CASE Head(inbox).type = "Accepted" /\ Head(inbox).conn = c
    <3>1. 1 \in DOMAIN inbox /\ inbox[1] = Head(inbox)
      BY HandledAt
    <3> QED
      BY <2>1, <3>1 DEF Owners, Queue
  <2> QED
    BY <2>1 DEF ReadsUnder
<1> QED
  BY <1>1 DEF Owners, HandlesOwnTheirReaders

LEMMA IdsNext ==
  ASSUME Founded, Owners, [Next]_vars
  PROVE  StaysPut
<1>1. TypeOK /\ HandlesOwnTheirReaders
  BY DEF Founded, WellFormed, Owners
<1>2. \A x, y \in DOMAIN reg.streams : reg.streams[x].conn = reg.streams[y].conn => x = y
  BY <1>1 DEF HandlesOwnTheirReaders
<1>3. CASE OwnStep \/ HandlesStay \/ HandlesLeave \/ Crashes
  BY <1>2, <1>3 DEF OwnStep, HandlesStay, HandlesLeave, Crashes, SameConn, StaysPut
<1>4. ASSUME NEW id, NEW c \in Conns, Enters(id, c) PROVE StaysPut
  <2>1. Handled /\ ReadsUnder(c, id)
    BY <1>4 DEF Enters
  <2>2. \A x \in DOMAIN reg.streams : reg.streams[x].conn # c
    BY <1>1, <2>1, NewcomerUnknown
  <2>3. /\ DOMAIN reg'.streams = DOMAIN reg.streams \cup {id}
        /\ \A x \in DOMAIN reg.streams \ {id} : reg'.streams[x].conn = reg.streams[x].conn
        /\ reg'.streams[id].conn = c
        /\ id \in DOMAIN reg.streams => Table!HandedOutTwice(id)
    BY <1>4 DEF Enters, SameConn, Free
  <2> QED
    BY <1>2, <2>2, <2>3 DEF StaysPut
<1>5. ASSUME NEW sid \in ServerIds, NEW key \in PeerKeys, NEW c \in Conns, Renames(sid, key, c)
      PROVE  StaysPut
  <2> DEFINE base   == BaseId(sid, key)
             first  == AcceptedId(sid, key, 1)
             second == AcceptedId(sid, key, 2)
  <2>1. /\ Handled /\ ReadsUnder(c, second)
        /\ FormerId(first) = base
        /\ base \in DOMAIN reg.streams
        /\ first \notin DOMAIN reg.streams /\ second \notin DOMAIN reg.streams
        /\ DOMAIN reg'.streams = (DOMAIN reg.streams \ {base}) \cup {first, second}
        /\ \A x \in DOMAIN reg.streams \ {base} : reg'.streams[x].conn = reg.streams[x].conn
        /\ reg'.streams[first].conn = reg.streams[base].conn
        /\ reg'.streams[second].conn = c
    BY <1>5 DEF Renames, SameConn
  <2> HIDE DEF base, first, second
  <2>2. \A x \in DOMAIN reg.streams : reg.streams[x].conn # c
    BY <1>1, <2>1, NewcomerUnknown
  <2>3. ASSUME NEW x \in DOMAIN reg.streams, NEW y \in DOMAIN reg'.streams,
               reg'.streams[y].conn = reg.streams[x].conn
        PROVE  x \in {y, FormerId(y)}
    <3>1. CASE y = second
      BY <2>1, <2>2, <2>3, <3>1
    <3>2. CASE y = first
      BY <1>2, <2>1, <2>3, <3>2
    <3>3. CASE y \in DOMAIN reg.streams \ {base}
      BY <1>2, <2>1, <2>3, <3>3
    <3> QED
      BY <2>1, <3>1, <3>2, <3>3
  <2>4. \A x \in DOMAIN reg.streams \cap DOMAIN reg'.streams :
           reg'.streams[x].conn = reg.streams[x].conn
    BY <2>1
  <2> QED
    BY <2>3, <2>4 DEF StaysPut
<1> QED
  BY <1>3, <1>4, <1>5, Steps

(***************************************************************************)
(* A connection stays under its id until it is closed, or becomes #1 of its*)
(* key; and an id passes from one connection to another only if it is one  *)
(* of those that the allocators hand out twice (insert_stream,             *)
(* rename_accepted_tcp, allocate_accepted_tcp_id).                         *)
(***************************************************************************)
THEOREM IdTheorem == Spec => IdsStayWithConnections
<1>1. Founded /\ Owners /\ [Next]_vars => [StaysPut]_vars
  BY IdsNext
<1>2. StaysPut <=> /\ \A id \in DOMAIN reg.streams, id2 \in DOMAIN reg'.streams :
                         reg'.streams[id2].conn = reg.streams[id].conn => id \in {id2, FormerId(id2)}
                   /\ \A id \in DOMAIN reg.streams \cap DOMAIN reg'.streams :
                         reg'.streams[id].conn = reg.streams[id].conn \/ Table!HandedOutTwice(id)
  BY DEF StaysPut
<1> QED
  BY <1>1, <1>2, FoundedAlways, OwnersAlways, PTL DEF Spec, IdsStayWithConnections

-----------------------------------------------------------------------------
(***************************************************************************)
(* Labels that lose their handle.  Only a handle that another connection   *)
(* replaces leaves its name in the label map.                              *)
(***************************************************************************)
Freed(r, r2) ==
    \A name \in DOMAIN r2.labels :
        \/ Shows(r2, name)
        \/ name \in DOMAIN r.labels /\ ~Shows(r, name)
        \/ Replaced(r, r2, name)

\* No name is added, and the handles go on showing theirs.
LEMMA FreedKept ==
  ASSUME NEW r, NEW r2, DOMAIN r2.labels \subseteq DOMAIN r.labels,
         \A x \in Registered(r) : CurrentLabel(r, x) \in DOMAIN r2.labels =>
            \/ Shows(r2, CurrentLabel(r, x))
            \/ Replaced(r, r2, CurrentLabel(r, x))
  PROVE  Freed(r, r2)
<1> SUFFICES ASSUME NEW name \in DOMAIN r2.labels, Shows(r, name)
             PROVE  Shows(r2, name) \/ Replaced(r, r2, name)
  BY DEF Freed
<1>1. PICK x \in Registered(r) : CurrentLabel(r, x) = name
  BY DEF Shows
<1> QED
  BY <1>1

LEMMA FreedEntered ==
  ASSUME NEW r, RegistryOK(r), NEW r2, RegistryOK(r2), NEW id, id \notin DOMAIN r.servers,
         NEW h, StreamPut(r, r2, id, h), \A x \in DOMAIN r.streams : r.streams[x].conn # h.conn,
         DOMAIN r2.servers = DOMAIN r.servers,
         \A s \in DOMAIN r.servers : r2.servers[s].label = r.servers[s].label,
         r2.labels = r.labels
  PROVE  Freed(r, r2)
<1> SUFFICES ASSUME NEW x \in Registered(r)
             PROVE  Shows(r2, CurrentLabel(r, x)) \/ Replaced(r, r2, CurrentLabel(r, x))
  BY FreedKept
<1>1. CASE x # id
  <2>1. x \in Registered(r2) /\ CurrentLabel(r2, x) = CurrentLabel(r, x)
    BY <1>1, LabelOf DEF StreamPut, Registered
  <2> QED
    BY <2>1 DEF Shows
<1>2. CASE x = id
  <2>1. x \in DOMAIN r.streams \cap DOMAIN r2.streams /\ CurrentLabel(r, x) = r.streams[x].label
    BY <1>2, LabelOf DEF StreamPut, Registered
  <2>2. r2.streams[x].conn # r.streams[x].conn
    BY <1>2, <2>1 DEF StreamPut
  <2> QED
    BY <2>1, <2>2 DEF Replaced
<1> QED
  BY <1>1, <1>2

LEMMA FreedLeft ==
  ASSUME NEW r, RegistryOK(r), NEW r2, RegistryOK(r2), NEW ids, Left(r, r2, ids)
  PROVE  Freed(r, r2)
<1>1. DOMAIN r2.labels = DOMAIN r.labels \ {CurrentLabel(r, x) : x \in ids \cap Registered(r)}
  BY DEF Left
<1>2. ASSUME NEW x \in Registered(r), x \notin ids
      PROVE  x \in Registered(r2) /\ CurrentLabel(r2, x) = CurrentLabel(r, x)
  BY <1>2, LabelOf DEF Registered, Left, SameServer
<1>3. ASSUME NEW x \in Registered(r), CurrentLabel(r, x) \in DOMAIN r2.labels
      PROVE  Shows(r2, CurrentLabel(r, x))
  <2>1. x \notin ids
    BY <1>1, <1>3
  <2> QED
    BY <1>2, <2>1 DEF Shows
<1> QED
  BY <1>1, <1>3, FreedKept

LEMMA FreedRelabelled ==
  ASSUME NEW r, NEW r2, NEW id \in Registered(r), NEW name, Relabelled(r, r2, id, name)
  PROVE  Freed(r, r2)
<1>1. /\ Registered(r2) = Registered(r)
      /\ \A x \in Registered(r) :
            CurrentLabel(r2, x) = IF x = id THEN name ELSE CurrentLabel(r, x)
      /\ DOMAIN r2.labels = (DOMAIN r.labels \ {CurrentLabel(r, id)}) \cup {name}
  BY DEF Relabelled, Registered
<1>2. Shows(r2, name)
  BY <1>1 DEF Shows
<1>3. ASSUME NEW n \in DOMAIN r2.labels, n # name
      PROVE  n \in DOMAIN r.labels /\ (Shows(r, n) => Shows(r2, n))
  <2>1. n \in DOMAIN r.labels /\ n # CurrentLabel(r, id)
    BY <1>1, <1>3
  <2>2. Shows(r, n) => Shows(r2, n)
    BY <1>1, <2>1 DEF Shows
  <2> QED
    BY <2>1, <2>2
<1> QED
  BY <1>2, <1>3 DEF Freed

\* The renamed handle shows its label under its new id.
LEMMA FreedRenamed ==
  ASSUME NEW r, RegistryOK(r), NEW r2, RegistryOK(r2), Suffixes(r),
         NEW sid \in DOMAIN r.servers, NEW key \in PeerKeys, NEW h,
         AcceptedSecond(r, r2, sid, key, h), \A x \in DOMAIN r.streams : r.streams[x].conn # h.conn
  PROVE  Freed(r, r2)
<1> DEFINE base  == BaseId(sid, key)
           first == AcceptedId(sid, key, 1)
           secnd == AcceptedId(sid, key, 2)
<1>1. /\ DOMAIN r2.servers = DOMAIN r.servers /\ r2.labels = r.labels
      /\ \A s \in DOMAIN r.servers : r2.servers[s].label = r.servers[s].label
  BY DEF AcceptedSecond, TablesSet, SameServer, SameLabels
<1>2. first \notin DOMAIN r.streams /\ secnd \notin DOMAIN r.streams
  BY FreeIds DEF AcceptedSecond
<1>3. \A s \in DOMAIN r.servers : s.kind # "Accepted"
  BY KindsDisjoint DEF ServerIds, TcpServerIds, IpcServerIds
<1>4. base \notin DOMAIN r.servers /\ secnd \notin DOMAIN r.servers
  BY <1>3 DEF BaseId, AcceptedId
<1>5. CASE StreamPut(r, r2, secnd, h)
  BY <1>1, <1>4, <1>5, FreedEntered
<1>6. CASE ~StreamPut(r, r2, secnd, h)
  <2>1. /\ base \in DOMAIN r.streams
        /\ DOMAIN r2.streams = (DOMAIN r.streams \ {base}) \cup {first, secnd}
        /\ \A x \in DOMAIN r.streams \ {base, first, secnd} : r2.streams[x] = r.streams[x]
        /\ r2.streams[first] = r.streams[base]
    BY <1>6 DEF AcceptedSecond
  <2> HIDE DEF base, first, secnd
  <2>2. ASSUME NEW x \in Registered(r) PROVE Shows(r2, CurrentLabel(r, x))
    <3>1. CASE x = base
      <4>1. first \in Registered(r2) /\ CurrentLabel(r2, first) = CurrentLabel(r, x)
        BY <1>4, <2>1, <3>1, LabelOf DEF Registered
      <4> QED
        BY <4>1 DEF Shows
    <3>2. CASE x # base
      <4>1. x \in Registered(r2) /\ CurrentLabel(r2, x) = CurrentLabel(r, x)
        BY <1>1, <1>2, <2>1, <3>2, LabelOf DEF Registered
      <4> QED
        BY <4>1 DEF Shows
    <3> QED
      BY <3>1, <3>2
  <2> QED
    BY <1>1, <2>2, FreedKept
<1> QED
  BY <1>5, <1>6

LEMMA RegistryStepFreed ==
  ASSUME WellFormed, WellFormed', Suffixes(reg), Spent(reg), Owners, RegistryStep
  PROVE  Freed(reg, reg')
<1>a. RegistryOK(reg) /\ RegistryOK(reg')
  BY DEF WellFormed, TypeOK
<1>c. TypeOK /\ Owners
  BY DEF WellFormed
<1>b. \A s \in DOMAIN reg.servers : s.kind \in {"TcpServer", "IpcServer"}
  BY <1>a, KindsDisjoint DEF ServerIds, TcpServerIds, IpcServerIds
<1>1. CASE ChangesNothing
  BY <1>1 DEF ChangesNothing, Freed
<1>2. CASE UsesSequenceNumber
  <2>1. reg'.streams = reg.streams /\ reg'.servers = reg.servers /\ reg'.labels = reg.labels
    BY <1>a, <1>2, AllocatedSeq DEF UsesSequenceNumber
  <2> QED
    BY <2>1 DEF Freed, Shows, CurrentLabel, Registered
<1>3. ASSUME NEW sid \in ServerIds, Registers(sid) PROVE Freed(reg, reg')
  <2>1. /\ reg'.streams = reg.streams /\ DOMAIN reg'.servers = DOMAIN reg.servers \cup {sid}
        /\ \A s \in DOMAIN reg.servers : reg'.servers[s] = reg.servers[s]
        /\ reg'.labels = reg.labels
    BY <1>3 DEF Registers, Listening, SameLabels
  <2>2. \A x \in Registered(reg) :
           x \in Registered(reg') /\ CurrentLabel(reg', x) = CurrentLabel(reg, x)
    BY <1>a, <2>1, LabelOf DEF Registered
  <2> QED
    BY <2>1, <2>2, FreedKept DEF Shows
<1>4. ASSUME NEW id \in ClientIds, NEW c \in Conns, Connects(id, c) PROVE Freed(reg, reg')
  <2>1. \A x \in DOMAIN reg.streams : reg.streams[x].conn # NewConnected(None, c).conn
    BY <1>c, <1>4, ConnectsFree, NewReader DEF NewConnected, Connects
  <2>2. id \notin DOMAIN reg.servers
    BY <1>4, <1>b DEF Connects, IpcClientId
  <2> QED
    BY <1>a, <1>4, <2>1, <2>2, FreedEntered DEF Connects, SameServers, SameServer
<1>5. ASSUME NEW id, NEW ids, Closes(id, ids) PROVE Freed(reg, reg')
  BY <1>a, <1>5, FreedLeft DEF Closes
<1>6. ASSUME NEW id, NEW name, Relabels(id, name) PROVE Freed(reg, reg')
  BY <1>6, FreedRelabelled DEF Relabels
<1>7. ASSUME NEW c \in Conns, NEW sid \in ServerIds, NEW key \in PeerKeys, Accepts(c, sid, key)
      PROVE  Freed(reg, reg')
  <2> DEFINE h     == NewConnected(sid, c)
             base  == BaseId(sid, key)
             later == AcceptedId(sid, key, reg.servers[sid].disambig_next[key])
  <2>1. sid \in DOMAIN reg.servers
    BY <1>7 DEF Accepts
  <2>a. \A x \in DOMAIN reg.streams : reg.streams[x].conn # h.conn
    <3>1. \E id : ReadsUnder(c, id)
      BY <1>c, <1>7, SpawnReads DEF Accepts
    <3>2. Handled
      BY <1>7 DEF Accepts
    <3> QED
      BY <1>c, <3>1, <3>2, NewReader DEF NewConnected
  <2>2. base \notin DOMAIN reg.servers /\ later \notin DOMAIN reg.servers
    BY <1>b DEF BaseId, AcceptedId
  <2>3. CASE AcceptedSecond(reg, reg', sid, key, h)
    BY <1>a, <2>1, <2>3, <2>a, FreedRenamed
  <2>4. CASE AcceptedFirst(reg, reg', sid, key, h)
    <3>1. StreamPut(reg, reg', base, h)
      BY <2>4 DEF AcceptedFirst
    <3>2. /\ DOMAIN reg'.servers = DOMAIN reg.servers /\ reg'.labels = reg.labels
          /\ \A s \in DOMAIN reg.servers : reg'.servers[s].label = reg.servers[s].label
      BY <2>4 DEF AcceptedFirst, TablesSet, SameServer, SameLabels
    <3> HIDE DEF base, h
    <3> QED
      BY <1>a, <2>2, <2>a, <3>1, <3>2, FreedEntered
  <2>5. CASE AcceptedLater(reg, reg', sid, key, h)
    <3>1. StreamPut(reg, reg', later, h)
      BY <2>5 DEF AcceptedLater
    <3>2. /\ DOMAIN reg'.servers = DOMAIN reg.servers /\ reg'.labels = reg.labels
          /\ \A s \in DOMAIN reg.servers : reg'.servers[s].label = reg.servers[s].label
      BY <2>5 DEF AcceptedLater, TablesSet, SameServer, SameLabels
    <3> HIDE DEF later, h
    <3> QED
      BY <1>a, <2>2, <2>a, <3>1, <3>2, FreedEntered
  <2> QED
    BY <1>7, <2>3, <2>4, <2>5 DEF Accepts
<1>8. CASE Panics
  BY <1>8, NewMaps DEF Panics, OnAcceptedPanics, Freed
<1>9. CASE Stops
  BY <1>a, <1>9, FreedLeft DEF Stops
<1> QED
  BY <1>1, <1>2, <1>3, <1>4, <1>5, <1>6, <1>7, <1>8, <1>9, StepKinds DEF WellFormed

(***************************************************************************)
(* A label is freed with its handle, whatever is closed, relabelled or     *)
(* renamed: a step leaves a name of the label map without a handle that    *)
(* shows it only when it replaces that handle by another connection's      *)
(* (drop_stream, drop_server, apply_label, insert_stream).                 *)
(***************************************************************************)
THEOREM FreedTheorem == Spec => LabelsFreed
<1>1. ASSUME Founded, Founded', Owners, [Next]_vars PROVE Freed(reg, reg')
  <2>1. CASE RegistryStep
    BY <1>1, <2>1, RegistryStepFreed DEF Founded
  <2>2. CASE ~RegistryStep
    BY <1>1, <2>2, OtherSteps DEF Founded, Freed, Shows, CurrentLabel, Registered
  <2> QED
    BY <2>1, <2>2
<1>2. Freed(reg, reg') <=> \A name \in DOMAIN reg'.labels :
                              \/ Shows(reg', name)
                              \/ name \in DOMAIN reg.labels /\ ~Shows(reg, name)
                              \/ Replaced(reg, reg', name)
  BY DEF Freed
<1> QED
  BY <1>1, <1>2, FoundedAlways, OwnersAlways, PTL DEF Spec, LabelsFreed
=============================================================================
