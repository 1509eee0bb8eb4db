--------------------------- MODULE SendPathProofs ---------------------------
(***************************************************************************)
(* Theorems about sends, for every set of connections, every room in their *)
(* sockets, all lengths of payloads and every number of sends.             *)
(***************************************************************************)
EXTENDS SendPath, SequenceTheorems, TLAPS

(***************************************************************************)
(* Where a send stands.  Its targets are those still to be written to, the *)
(* one being written to, and those that are done with; a payload that is   *)
(* being written is not written yet, and a send that is answered has none  *)
(* of the first two.  Every child of the server was accepted; one whose    *)
(* ERROR line waits for room is gone, and the send is a broadcast.         *)
(***************************************************************************)
Due(c) == c \in left \/ c = at

Control ==
    /\ Len(sends) <= MaxSends
    /\ \A c \in children : peer[c] # "absent"
    /\ Idle => left = {} /\ at = NoConn
    /\ ~Idle => sends # <<>>
    /\ \A send \in DOMAIN sends :
          sends[send].broadcast \/ \E c \in Conns : sends[send].targets = {c}
    /\ \A c \in Conns : Due(c) => c \in sends[This].targets
    /\ at \notin left
    /\ at # NoConn => written < Payload
    /\ failed => at # NoConn /\ peer[at] = "closed" /\ sends[This].broadcast

(***************************************************************************)
(* What a socket has taken ends with the end of a payload of the send      *)
(* "upto" or of one before it.                                             *)
(***************************************************************************)
LastOf(c) == Taken(c)[Len(Taken(c))]

Ended(c, upto) ==
    Taken(c) # <<>> => LastOf(c)[1] <= upto /\ LastOf(c)[2] = sends[LastOf(c)[1]].size

(***************************************************************************)
(* While the peer is there, it is so before the payload of the send under  *)
(* way is written and after it; in between the last byte says how far the  *)
(* write is.  Nothing of the payload is in a socket before its turn.       *)
(***************************************************************************)
Streams(c) ==
    /\ \A i \in DOMAIN Taken(c) : Taken(c)[i][1] \in DOMAIN sends
    /\ peer[c] = "absent" => Taken(c) = <<>>
    /\ peer[c] = "open" =>
          IF c = at /\ written # 0
          THEN Taken(c) # <<>> /\ LastOf(c) = <<This, written>>
          ELSE Ended(c, IF Due(c) THEN This - 1 ELSE This)
    /\ c \in left => \A i \in DOMAIN Taken(c) : Taken(c)[i][1] # This
    /\ c = at => \A i \in DOMAIN Taken(c) : Taken(c)[i][1] = This => Taken(c)[i][2] <= written

Served ==
    \A send \in DOMAIN sends : \A c \in sends[send].targets :
        (send = This /\ Due(c)) \/ Has(c, send) \/ peer[c] = "closed"

Reported ==
    \A pair \in reported :
        /\ pair[1] \in DOMAIN sends
        /\ peer[pair[2]] = "closed"
        /\ pair[2] \in sends[pair[1]].targets /\ sends[pair[1]].broadcast
        /\ ~Has(pair[2], pair[1])

-----------------------------------------------------------------------------
(***************************************************************************)
(* Types and control.                                                      *)
(***************************************************************************)
SendRecords == [targets : SUBSET Conns, size : Sizes, broadcast : BOOLEAN]

Typed == TypeOK /\ Control

\* A send that is under way is the last one, and has a payload.
LEMMA UnderWay ==
  ASSUME Typed, ~Idle
  PROVE  /\ This \in 1..MaxSends /\ This \in DOMAIN sends
         /\ sends[This] \in SendRecords /\ Payload \in Nat \ {0}
<1>1. sends \in Seq(SendRecords) /\ sends # <<>> /\ Len(sends) <= MaxSends
  BY DEF Typed, TypeOK, Control, SendRecords
<1>2. Len(sends) \in Nat \ {0} /\ DOMAIN sends = 1..Len(sends)
  BY <1>1, EmptySeq, LenProperties
<1>3. This \in 1..MaxSends /\ This \in DOMAIN sends
  BY <1>1, <1>2, SendAssumption DEF This
<1>4. sends[This] \in SendRecords
  BY <1>1, <1>2, <1>3, ElementOfSeq
<1>5. Payload \in Nat \ {0}
  BY <1>4, SendAssumption DEF Payload, SendRecords
<1> QED
  BY <1>3, <1>4, <1>5

LEMMA BytesTyped ==
  ASSUME Typed, ~Idle, NEW n \in Nat
  PROVE  /\ Bytes(n) \in Seq(Byte) /\ Len(Bytes(n)) = n
         /\ \A i \in 1..n : Bytes(n)[i] = <<This, written + i>>
<1>1. \A i \in 1..n : <<This, written + i>> \in Byte
  BY UnderWay DEF Byte, Typed, TypeOK
<1> QED
  BY <1>1 DEF Bytes

LEMMA SocketsTyped ==
  ASSUME Typed, NEW c \in Conns
  PROVE  /\ wire[c] \in Seq(Byte) /\ got[c] \in Seq(Byte) /\ Taken(c) \in Seq(Byte)
         /\ Len(wire[c]) \in Nat /\ Len(got[c]) \in Nat /\ Len(Taken(c)) \in Nat
         /\ DOMAIN Taken(c) = 1..Len(Taken(c))
<1>1. wire[c] \in Seq(Byte) /\ got[c] \in Seq(Byte)
  BY DEF Typed, TypeOK
<1>2. Taken(c) \in Seq(Byte)
  BY <1>1, ConcatProperties DEF Taken
<1> QED
  BY <1>1, <1>2, LenProperties

LEMMA WritesSomeTyped ==
  ASSUME Typed, ~Idle, NEW c \in Conns, NEW n \in Nat, WritesSome(c, n)
  PROVE  /\ wire' \in [Conns -> Seq(Byte)]
         /\ \A d \in Conns : Len(wire'[d]) <= SockCap
<1>1. wire \in [Conns -> Seq(Byte)] /\ SockCap \in Nat /\ \A d \in Conns : Len(wire[d]) <= SockCap
  BY SendAssumption DEF Typed, TypeOK
<1>2. CASE peer[c] # "open"
  BY <1>1, <1>2 DEF WritesSome
<1>3. CASE peer[c] = "open"
  <2>1. wire' = [wire EXCEPT ![c] = wire[c] \o Bytes(n)] /\ n <= SockCap - Len(wire[c])
    BY <1>3 DEF WritesSome
  <2>2. /\ wire[c] \o Bytes(n) \in Seq(Byte)
        /\ Len(wire[c] \o Bytes(n)) = Len(wire[c]) + n
    <3>1. wire[c] \in Seq(Byte)
      BY SocketsTyped
    <3>2. Bytes(n) \in Seq(Byte) /\ Len(Bytes(n)) = n
      BY BytesTyped
    <3> QED
      BY ZenonT(60), <3>1, <3>2, ConcatProperties
  <2>3. Len(wire[c] \o Bytes(n)) <= SockCap
    BY <1>1, <2>1, <2>2, SocketsTyped
  <2> QED
    BY <1>1, <2>1, <2>2, <2>3
<1> QED
  BY <1>2, <1>3

\* A new send is the last one, and the others stay as they are.
LEMMA SendAppended ==
  ASSUME Typed, NEW send \in SendRecords, sends' = Append(sends, send)
  PROVE  /\ sends' \in Seq(SendRecords)
         /\ This \in Nat /\ This' = This + 1
         /\ DOMAIN sends = 1..This /\ DOMAIN sends' = 1..This'
         /\ \A s \in DOMAIN sends : s \in DOMAIN sends' /\ sends'[s] = sends[s]
         /\ sends'[This'] = send
<1>1. sends \in Seq(SendRecords)
  BY DEF Typed, TypeOK, SendRecords
<1>2. /\ sends' \in Seq(SendRecords) /\ Len(sends') = Len(sends) + 1
      /\ \A i \in 1..Len(sends) : sends'[i] = sends[i]
      /\ sends'[Len(sends) + 1] = send
  BY <1>1, AppendProperties
<1> QED
  BY <1>1, <1>2, LenProperties DEF This

LEMMA TypedStep ==
  ASSUME Typed, [Next]_vars
  PROVE  Typed'
<1>a. TypeOK /\ Control
  BY DEF Typed
<1>b. This \in Nat /\ sends \in Seq(SendRecords)
  BY <1>a, LenProperties DEF TypeOK, This, SendRecords
<1>c. NoConn \notin Conns /\ children \subseteq Conns
  BY <1>a, SendAssumption DEF TypeOK
<1>1. CASE UNCHANGED vars
  BY <1>1, <1>a DEF vars, connVars, errorVars, Typed, TypeOK, Control, Due, Idle, This, Payload
<1>2. CASE StartsSend
  <2>1. PICK size \in Sizes, targets \in {{c} : c \in children} \cup {children}, server \in BOOLEAN :
           /\ server \/ \E c \in children : targets = {c}
           /\ sends' = Append(sends, [targets |-> targets, size |-> size, broadcast |-> server])
           /\ left' = targets
           /\ outcome' = IF targets = {} THEN "err" ELSE "none"
    BY <1>2 DEF StartsSend
  <2> DEFINE send == [targets |-> targets, size |-> size, broadcast |-> server]
  <2>2. /\ Idle /\ at = NoConn /\ This < MaxSends
        /\ UNCHANGED <<children, peer, got, wire, at, written, failed, failures, reported>>
        /\ room' \in 0..ScreenCap
    BY <1>2, <1>a DEF StartsSend, connVars, errorVars, Control
  <2>3. send \in SendRecords /\ targets \subseteq children
    BY <1>c DEF SendRecords
  <2>4. send.targets = targets /\ send.broadcast = server
    OBVIOUS
  <2> HIDE DEF send
  <2>5. /\ sends' \in Seq(SendRecords) /\ This' = This + 1
        /\ DOMAIN sends = 1..This /\ DOMAIN sends' = 1..This'
        /\ \A s \in DOMAIN sends : sends'[s] = sends[s]
        /\ sends'[This'] = send
    BY <2>1, <2>3, SendAppended DEF send
  <2>6. TypeOK'
    BY <1>a, <2>1, <2>2, <2>3, <2>5 DEF TypeOK, SendRecords
  <2>7. Len(sends') <= MaxSends /\ sends' # <<>>
    <3>1. This' <= MaxSends /\ This' # 0
      BY <1>b, <2>2, <2>5, SendAssumption
    <3> QED
      BY <2>5, <3>1, EmptySeq DEF This
  <2>8. Idle' => left' = {} /\ at' = NoConn
    BY <2>1, <2>2 DEF Idle
  <2>9. \A s \in DOMAIN sends' : sends'[s].broadcast \/ \E c \in Conns : sends'[s].targets = {c}
    <3>1. \A s \in DOMAIN sends' : s \in DOMAIN sends \/ s = This'
      BY <1>b, <2>5
    <3>2. send.broadcast \/ \E c \in Conns : send.targets = {c}
      BY <1>c, <2>1, <2>4
    <3>3. \A s \in DOMAIN sends : sends[s].broadcast \/ \E c \in Conns : sends[s].targets = {c}
      BY <1>a DEF Control
    <3> QED
      BY <2>5, <3>1, <3>2, <3>3
  <2>10. \A c \in Conns : Due(c)' => c \in sends'[This'].targets
    BY <1>c, <2>1, <2>2, <2>4, <2>5 DEF Due
  <2>11. at' \notin left' /\ at' = NoConn
    BY <1>c, <2>1, <2>2, <2>3
  <2>12. \A c \in children' : peer'[c] # "absent"
    BY <1>a, <2>2 DEF Control
  <2>13. ~failed'
    BY <1>a, <2>2 DEF Control
  <2> QED
    BY <2>6, <2>7, <2>8, <2>9, <2>10, <2>11, <2>12, <2>13 DEF Typed, Control
<1>3. CASE StartsTarget
  <2>1. PICK c \in left : at' = c /\ left' = left \ {c}
    BY <1>3 DEF StartsTarget
  <2>2. /\ ~Idle /\ written' = 0
        /\ UNCHANGED <<children, peer, got, wire, sends, failed, failures, reported, room, outcome>>
    BY <1>3 DEF StartsTarget, connVars, errorVars
  <2>3. Payload > 0
    BY <2>2, UnderWay
  <2>4. TypeOK'
    BY <1>a, <1>c, <2>1, <2>2 DEF TypeOK
  <2>5. \A d \in Conns : Due(d)' => Due(d)
    BY <2>1 DEF Due
  <2>6. ~failed'
    BY <1>3, <1>a, <2>2 DEF StartsTarget, Control
  <2> QED
    BY <1>a, <2>1, <2>2, <2>3, <2>4, <2>5, <2>6 DEF Typed, Control, Idle, This, Payload
<1>4. CASE Writes
  <2>1. PICK n \in 1..Payload :
           /\ WritesSome(at, n)
           /\ written' = written + n
           /\ at' = IF written + n = Payload THEN NoConn ELSE at
    BY <1>4 DEF Writes
  <2>2. at # NoConn /\ at \in children /\ at \in Conns /\ ~Idle /\ ~failed
    BY <1>4, <1>a, <1>c DEF Writes, Control, TypeOK
  <2>3. Payload \in Nat /\ written \in Nat /\ n \in Nat /\ n <= Payload - written
    BY <1>a, <2>1, <2>2, UnderWay DEF Typed, TypeOK, WritesSome
  <2>4. UNCHANGED <<children, peer, got, sends, failed, failures, reported, room, left, outcome>>
    BY <1>4, <2>1 DEF Writes, WritesSome, connVars, errorVars
  <2>5. /\ wire' \in [Conns -> Seq(Byte)] /\ \A d \in Conns : Len(wire'[d]) <= SockCap
    BY <2>1, <2>2, <2>3, WritesSomeTyped
  <2>6. written' \in Nat /\ at' \in children \cup {NoConn}
    BY <2>1, <2>2, <2>3
  <2>7. TypeOK'
    BY <1>a, <2>2, <2>4, <2>5, <2>6 DEF TypeOK
  <2>8. at' # NoConn => at' = at /\ written' < Payload
    BY <2>1, <2>3
  <2>9. at' \notin left
    BY <1>a, <1>c, <2>1 DEF Control, TypeOK
  <2>10. \A d \in Conns : Due(d)' => Due(d)
    BY <1>c, <2>4, <2>8 DEF Due
  <2> QED
    BY <1>a, <2>2, <2>4, <2>7, <2>8, <2>9, <2>10 DEF Typed, Control, Idle, This, Payload
<1>5. CASE Fails
  <2>1. /\ at # NoConn /\ peer[at] = "closed" /\ ~Idle /\ at \in Conns /\ failures' = failures \cup {<<This, at>>}
        /\ UNCHANGED <<children, peer, got, wire, sends, left, written, room, reported>>
    BY <1>5, <1>a, <1>c DEF Fails, WriteFails, Control, TypeOK, connVars
  <2>2. \/ failed' = TRUE /\ at' = at /\ outcome' = outcome /\ sends[This].broadcast
        \/ at' = NoConn /\ failed' = failed /\ outcome' = "err" /\ ~failed /\ ~sends[This].broadcast
    BY <1>5 DEF Fails, WriteFails
  <2>3. This \in 1..MaxSends /\ This \in DOMAIN sends
    BY <2>1, UnderWay DEF Typed
  <2>4. TypeOK'
    BY <1>a, <2>1, <2>2, <2>3 DEF TypeOK
  <2>5. ~sends[This].broadcast => left = {}
    <3>1. at \in sends[This].targets /\ at \notin left /\ left \subseteq sends[This].targets
      BY <1>a, <1>c, <2>1 DEF Control, Due, TypeOK
    <3>2. ~sends[This].broadcast => \E c \in Conns : sends[This].targets = {c}
      BY <1>a, <2>3 DEF Control
    <3> QED
      BY <3>1, <3>2
  <2>6. Idle' => left' = {} /\ at' = NoConn
    BY <2>1, <2>2, <2>5 DEF Idle
  <2>7. \A d \in Conns : Due(d)' => Due(d)
    BY <1>c, <2>1, <2>2 DEF Due
  <2>8. NoConn \notin left
    BY <1>a, <1>c DEF TypeOK
  <2> QED
    BY <1>a, <2>1, <2>2, <2>4, <2>6, <2>7, <2>8 DEF Typed, Control, Idle, This, Payload
<1>11. CASE Reports
  <2>1. /\ failed /\ at # NoConn /\ ~Idle /\ at \in Conns /\ at' = NoConn /\ failed' = FALSE
        /\ room > 0 /\ room' = room - 1 /\ reported' = reported \cup {<<This, at>>}
        /\ UNCHANGED <<children, peer, got, wire, sends, left, written, failures, outcome>>
    BY <1>11, <1>a, <1>c DEF Reports, Control, TypeOK, connVars
  <2>2. This \in 1..MaxSends
    BY <2>1, UnderWay DEF Typed
  <2>3. room' \in 0..ScreenCap
    BY <1>a, <2>1, SendAssumption DEF TypeOK
  <2>4. TypeOK'
    BY <1>a, <2>1, <2>2, <2>3 DEF TypeOK
  <2>5. \A d \in Conns : Due(d)' => Due(d)
    BY <1>c, <2>1 DEF Due
  <2>6. NoConn \notin left
    BY <1>a, <1>c DEF TypeOK
  <2> QED
    BY <1>a, <2>1, <2>4, <2>5, <2>6 DEF Typed, Control, Idle, This, Payload
<1>6. CASE EndsSend
  BY <1>6, <1>a DEF EndsSend, connVars, errorVars, Typed, TypeOK, Control, Due, Idle, This, Payload
<1>7. ASSUME NEW c \in Conns, Registers(c) PROVE Typed'
  <2>1. /\ children' = children \cup {c} /\ peer' = [peer EXCEPT ![c] = "open"]
        /\ UNCHANGED <<wire, got, sends, left, at, written, failed, failures, reported, room, outcome>>
    BY <1>7 DEF Registers, errorVars
  <2>2. TypeOK'
    BY <1>a, <2>1 DEF TypeOK
  <2>3. \A d \in children' : peer'[d] # "absent"
    BY <1>a, <2>1 DEF TypeOK, Control
  <2>4. ~failed
    BY <1>7, <1>a DEF Registers, Control
  <2> QED
    BY <1>a, <2>1, <2>2, <2>3, <2>4 DEF Typed, Control, Due, Idle, This, Payload
<1>8. ASSUME NEW c \in Conns, Unregisters(c) PROVE Typed'
  <2>1. /\ children' = children \ {c} /\ left = {} /\ at = NoConn
        /\ UNCHANGED <<peer, wire, got, sends, left, at, written, failed, failures, reported, room, outcome>>
    BY <1>8, <1>a DEF Unregisters, errorVars, Control
  <2>2. TypeOK'
    BY <1>a, <2>1 DEF TypeOK
  <2> QED
    BY <1>a, <2>1, <2>2 DEF Typed, Control, Due, Idle, This, Payload
<1>9. ASSUME NEW c \in Conns, PeerReads(c) PROVE Typed'
  <2>1. /\ wire[c] # <<>>
        /\ got' = [got EXCEPT ![c] = Append(got[c], Head(wire[c]))]
        /\ wire' = [wire EXCEPT ![c] = Tail(wire[c])]
        /\ UNCHANGED <<children, peer, sends, left, at, written, failed, failures, reported, room, outcome>>
    BY <1>9 DEF PeerReads, errorVars
  <2>2. /\ Head(wire[c]) \in Byte /\ Tail(wire[c]) \in Seq(Byte)
        /\ Len(Tail(wire[c])) = Len(wire[c]) - 1
    BY <2>1, SocketsTyped, HeadTailProperties
  <2>3. Append(got[c], Head(wire[c])) \in Seq(Byte)
    BY <2>2, SocketsTyped, AppendProperties
  <2>4. Len(Tail(wire[c])) <= SockCap
    BY <1>a, <2>2, SocketsTyped, SendAssumption DEF TypeOK
  <2>5. /\ wire' \in [Conns -> Seq(Byte)] /\ got' \in [Conns -> Seq(Byte)]
        /\ \A d \in Conns : Len(wire'[d]) <= SockCap
    BY <1>a, <2>1, <2>2, <2>3, <2>4 DEF TypeOK
  <2>6. TypeOK'
    BY <1>a, <2>1, <2>5 DEF TypeOK
  <2> QED
    BY <1>a, <2>1, <2>6 DEF Typed, Control, Due, Idle, This, Payload
<1>10. ASSUME NEW c \in Conns, PeerCloses(c) PROVE Typed'
  <2>1. /\ peer' = [peer EXCEPT ![c] = "closed"] /\ wire' = [wire EXCEPT ![c] = <<>>]
        /\ UNCHANGED <<children, got, sends, left, at, written, failed, failures, reported, room, outcome>>
    BY <1>10 DEF PeerCloses, errorVars
  <2>2. <<>> \in Seq(Byte) /\ Len(<<>>) <= SockCap
    BY SendAssumption, EmptySeq
  <2>3. wire' \in [Conns -> Seq(Byte)] /\ \A d \in Conns : Len(wire'[d]) <= SockCap
    BY <1>a, <2>1, <2>2 DEF TypeOK
  <2>4. TypeOK'
    BY <1>a, <2>1, <2>3 DEF TypeOK
  <2>5. failed => peer'[at] = "closed"
    BY <1>a, <2>1 DEF TypeOK, Control
  <2> QED
    BY <1>a, <2>1, <2>4, <2>5 DEF Typed, Control, Due, Idle, This, Payload
<1> QED
  BY <1>1, <1>2, <1>3, <1>4, <1>5, <1>6, <1>7, <1>8, <1>9, <1>10, <1>11 DEF Next, SendStep

LEMMA InitTyped ==
  ASSUME Init
  PROVE  Typed
<1>1. <<>> \in Seq(Byte) /\ <<>> \in Seq(SendRecords) /\ Len(<<>>) = 0 /\ DOMAIN <<>> = {}
  BY EmptySeq
<1> QED
  BY <1>1, SendAssumption DEF Init, Typed, TypeOK, Control, Due, Idle, SendRecords

(***************************************************************************)
(* Every variable holds a value of its type: in particular no socket holds *)
(* more than it has room for, and nobody is written to who is not a child  *)
(* of the server (send_bytes).                                             *)
(***************************************************************************)
THEOREM SendTypes == Spec => []TypeOK
<1>1. Spec => []Typed
  BY InitTyped, TypedStep, PTL DEF Spec
<1>2. Typed => TypeOK
  BY DEF Typed
<1> QED
  BY <1>1, <1>2, PTL

-----------------------------------------------------------------------------
(***************************************************************************)
(* What a step does to what the socket of a connection has taken: nothing, *)
(* unless its peer closes it, which cuts the end off, or a payload is      *)
(* written to it, which adds the next bytes of it.                         *)
(***************************************************************************)
LEMMA ReadsKeep ==
  ASSUME Typed, NEW c \in Conns, NEW d \in Conns, PeerReads(c)
  PROVE  Taken(d)' = Taken(d)
<1>1. /\ wire[c] # <<>>
      /\ got' = [got EXCEPT ![c] = Append(got[c], Head(wire[c]))]
      /\ wire' = [wire EXCEPT ![c] = Tail(wire[c])]
  BY DEF PeerReads
<1>2. got \in [Conns -> Seq(Byte)] /\ wire \in [Conns -> Seq(Byte)]
  BY DEF Typed, TypeOK
<1>3. CASE d # c
  BY <1>1, <1>2, <1>3 DEF Taken
<1>4. CASE d = c
  <2>1. got'[c] = Append(got[c], Head(wire[c])) /\ wire'[c] = Tail(wire[c])
    BY <1>1, <1>2
  <2>2. got[c] \in Seq(Byte) /\ wire[c] \in Seq(Byte) /\ wire[c] # <<>>
    BY <1>1, <1>2
  <2>3. Head(wire[c]) \in Byte /\ Tail(wire[c]) \in Seq(Byte)
    BY <2>2, HeadTailProperties
  <2>4. Append(got[c], Head(wire[c])) = got[c] \o <<Head(wire[c])>>
    BY <2>2, <2>3, AppendIsConcat
  <2>5. <<Head(wire[c])>> \in Seq(Byte)
    BY <2>3
  <2>6. (got[c] \o <<Head(wire[c])>>) \o Tail(wire[c]) = got[c] \o (<<Head(wire[c])>> \o Tail(wire[c]))
    <3> DEFINE g == got[c]
               h == <<Head(wire[c])>>
               t == Tail(wire[c])
    <3>1. g \in Seq(Byte) /\ h \in Seq(Byte) /\ t \in Seq(Byte)
      BY <2>2, <2>3, <2>5
    <3> HIDE DEF g, h, t
    <3>2. (g \o h) \o t = g \o (h \o t)
      BY <3>1, ConcatAssociative
    <3> QED
      BY <3>2, Zenon DEF g, h, t
  <2>7. <<Head(wire[c])>> \o Tail(wire[c]) = wire[c]
    <3>1. /\ Len(Tail(wire[c])) = Len(wire[c]) - 1
          /\ \A i \in 1..Len(Tail(wire[c])) : Tail(wire[c])[i] = wire[c][i + 1]
      BY <2>2, HeadTailProperties
    <3>2. Len(wire[c]) \in Nat \ {0} /\ Head(wire[c]) = wire[c][1]
      BY <2>2, EmptySeq
    <3> DEFINE h == <<Head(wire[c])>>
               t == Tail(wire[c])
    <3>3. Len(h) = 1 /\ h[1] = wire[c][1] /\ h \in Seq(Byte) /\ t \in Seq(Byte)
      BY <3>2, <2>3, <2>5
    <3>4. /\ h \o t \in Seq(Byte)
          /\ Len(h \o t) = Len(h) + Len(t)
          /\ \A i \in 1..Len(h) + Len(t) : (h \o t)[i] = IF i <= Len(h) THEN h[i] ELSE t[i - Len(h)]
      BY <3>3, ConcatProperties
    <3>5. Len(h \o t) = Len(wire[c])
      BY <3>1, <3>2, <3>3, <3>4
    <3>6. \A i \in 1..Len(h \o t) : (h \o t)[i] = wire[c][i]
      <4> SUFFICES ASSUME NEW i \in 1..Len(wire[c]) PROVE (h \o t)[i] = wire[c][i]
        BY <3>5
      <4>1. (h \o t)[i] = IF i <= 1 THEN h[i] ELSE t[i - 1]
        BY <3>1, <3>2, <3>3, <3>4
      <4>2. CASE i = 1
        BY <4>1, <4>2, <3>3
      <4>3. CASE i # 1
        <5>1. i - 1 \in 1..Len(t) /\ (i - 1) + 1 = i
          BY <4>3, <3>1, <3>2
        <5>2. t[i - 1] = wire[c][i]
          BY <5>1, <3>1
        <5> QED
          BY <4>1, <4>3, <5>2, <3>2
      <4> QED
        BY <4>2, <4>3
    <3> HIDE DEF h, t
    <3>7. h \o t = wire[c]
      BY <2>2, <3>4, <3>5, <3>6, SeqEqual
    <3> QED
      BY <3>7 DEF h, t
  <2> QED
    BY <1>4, <2>1, <2>4, <2>6, <2>7 DEF Taken
<1> QED
  BY <1>3, <1>4

\* The bytes that the peer of c has not read are lost, those that it read are not.
Cut(c) ==
    /\ Len(Taken(c)') <= Len(Taken(c))
    /\ \A i \in 1..Len(Taken(c)') : Taken(c)'[i] = Taken(c)[i]

LEMMA ClosesCut ==
  ASSUME Typed, Typed', NEW c \in Conns, PeerCloses(c)
  PROVE  /\ Cut(c)
         /\ \A d \in Conns : d # c => Taken(d)' = Taken(d)
<1>1. wire' = [wire EXCEPT ![c] = <<>>] /\ got' = got
  BY DEF PeerCloses
<1>2. got \in [Conns -> Seq(Byte)] /\ wire \in [Conns -> Seq(Byte)]
  BY DEF Typed, TypeOK
<1>3. \A d \in Conns : d # c => Taken(d)' = Taken(d)
  BY <1>1, <1>2 DEF Taken
<1>4. got[c] \in Seq(Byte) /\ wire[c] \in Seq(Byte)
  BY <1>2
<1>5. Taken(c)' = got[c]
  <2>1. Taken(c)' = got[c] \o <<>>
    BY <1>1, <1>2 DEF Taken
  <2> QED
    BY <2>1, <1>4, ConcatEmptySeq
<1>6. /\ Len(got[c]) <= Len(Taken(c))
      /\ \A i \in 1..Len(got[c]) : Taken(c)[i] = got[c][i]
  <2> DEFINE g == got[c]
             w == wire[c]
  <2>1. g \in Seq(Byte) /\ w \in Seq(Byte)
    BY <1>4
  <2> HIDE DEF g, w
  <2>2. /\ Len(g \o w) = Len(g) + Len(w)
        /\ \A i \in 1..Len(g) + Len(w) : (g \o w)[i] = IF i <= Len(g) THEN g[i] ELSE w[i - Len(g)]
    BY <2>1, ConcatProperties
  <2>3. Len(g) \in Nat /\ Len(w) \in Nat
    BY <2>1, LenProperties
  <2>4. Len(g) <= Len(g \o w)
    BY <2>2, <2>3
  <2>5. \A i \in 1..Len(g) : i \in 1..Len(g) + Len(w) /\ i <= Len(g)
    BY <2>3
  <2>6. \A i \in 1..Len(g) : (g \o w)[i] = g[i]
    BY <2>2, <2>5, Zenon
  <2> QED
    BY <2>4, <2>6, Zenon DEF g, w, Taken
<1>7. Cut(c)
  BY <1>5, <1>6 DEF Cut
<1> QED
  BY <1>3, <1>7

\* The next n bytes of the payload of the last send.
Extended(c, n) ==
    /\ Len(Taken(c)') = Len(Taken(c)) + n
    /\ \A i \in 1..Len(Taken(c)) : Taken(c)'[i] = Taken(c)[i]
    /\ \A j \in 1..n : Taken(c)'[Len(Taken(c)) + j] = <<This, written + j>>

LEMMA WritesExtend ==
  ASSUME Typed, ~Idle, NEW c \in Conns, NEW n \in Nat, WritesSome(c, n)
  PROVE  /\ \A d \in Conns : d # c => Taken(d)' = Taken(d)
         /\ peer[c] # "open" => Taken(c)' = Taken(c)
         /\ peer[c] = "open" => Extended(c, n)
<1>1. got \in [Conns -> Seq(Byte)] /\ wire \in [Conns -> Seq(Byte)]
  BY DEF Typed, TypeOK
<1>2. got' = got /\ wire' = IF peer[c] = "open" THEN [wire EXCEPT ![c] = wire[c] \o Bytes(n)] ELSE wire
  BY DEF WritesSome, connVars, errorVars
<1>3. \A d \in Conns : d # c => Taken(d)' = Taken(d)
  BY <1>1, <1>2 DEF Taken
<1>4. peer[c] # "open" => Taken(c)' = Taken(c)
  BY <1>2 DEF Taken
<1>5. ASSUME peer[c] = "open" PROVE Extended(c, n)
  <2>1. wire'[c] = wire[c] \o Bytes(n)
    BY <1>1, <1>2, <1>5
  <2>2. got[c] \in Seq(Byte) /\ wire[c] \in Seq(Byte) /\ Taken(c) \in Seq(Byte) /\ Len(Taken(c)) \in Nat
    BY SocketsTyped
  <2>3. Bytes(n) \in Seq(Byte) /\ Len(Bytes(n)) = n /\ \A i \in 1..n : Bytes(n)[i] = <<This, written + i>>
    BY BytesTyped
  <2>4. Taken(c)' = Taken(c) \o Bytes(n)
    <3>1. Taken(c)' = got[c] \o (wire[c] \o Bytes(n))
      BY <1>2, <2>1, Zenon DEF Taken
    <3> DEFINE g == got[c]
               w == wire[c]
               b == Bytes(n)
    <3>2. g \in Seq(Byte) /\ w \in Seq(Byte) /\ b \in Seq(Byte)
      BY <2>2, <2>3
    <3> HIDE DEF g, w, b
    <3>3. (g \o w) \o b = g \o (w \o b)
      BY <3>2, ConcatAssociative
    <3> QED
      BY <3>1, <3>3, Zenon DEF g, w, b, Taken
  <2> DEFINE t == Taken(c)
             u == Bytes(n)
  <2>5. /\ Len(t \o u) = Len(t) + Len(u)
        /\ \A i \in 1..Len(t) + Len(u) : (t \o u)[i] = IF i <= Len(t) THEN t[i] ELSE u[i - Len(t)]
    BY <2>2, <2>3, ConcatProperties
  <2>a. t \o u = Taken(c)' /\ t = Taken(c) /\ Len(t) \in Nat /\ Len(u) = n
        /\ \A i \in 1..n : u[i] = <<This, written + i>>
    BY <2>2, <2>3, <2>4
  <2> HIDE DEF t, u
  <2>6. \A i \in 1..Len(t) : (t \o u)[i] = t[i]
    BY <2>5, <2>a
  <2>7. \A j \in 1..n : (t \o u)[Len(t) + j] = <<This, written + j>>
    <3> SUFFICES ASSUME NEW j \in 1..n PROVE (t \o u)[Len(t) + j] = <<This, written + j>>
      OBVIOUS
    <3>1. Len(t) + j \in 1..Len(t) + Len(u) /\ ~(Len(t) + j <= Len(t)) /\ (Len(t) + j) - Len(t) = j
      BY <2>a
    <3>2. (t \o u)[Len(t) + j] = u[j]
      BY <2>5, <3>1
    <3> QED
      BY <3>2, <2>a
  <2> QED
    BY <2>5, <2>6, <2>7, <2>a DEF Extended
<1> QED
  BY <1>3, <1>4, <1>5

-----------------------------------------------------------------------------
(***************************************************************************)
(* The stream of each connection, step by step.  A step that leaves alone  *)
(* what its socket has taken, and where the send stands, leaves it as good *)
(* as it was.                                                              *)
(***************************************************************************)
Whole(c) ==
    \A i \in DOMAIN Taken(c) :
        LET byte == Taken(c)[i]
        IN  /\ c \in sends[byte[1]].targets
            /\ \/ i > 1 /\ byte[2] = Taken(c)[i - 1][2] + 1 /\ byte[1] = Taken(c)[i - 1][1]
               \/ /\ byte[2] = 1
                  /\ i > 1 => /\ byte[1] > Taken(c)[i - 1][1]
                              /\ Taken(c)[i - 1][2] = sends[Taken(c)[i - 1][1]].size

Stream(c) == Streams(c) /\ Whole(c)

LEMMA StreamsFrame ==
  ASSUME NEW c \in Conns, Stream(c), Taken(c)' = Taken(c), peer'[c] = peer[c],
         UNCHANGED <<sends, left, at, written>>
  PROVE  Stream(c)'
<1>1. Streams(c)'
  BY DEF Stream, Streams, Ended, LastOf, Due, This
<1>2. Whole(c)'
  BY DEF Stream, Whole
<1> QED
  BY <1>1, <1>2 DEF Stream

LEMMA LastTyped ==
  ASSUME Typed, NEW c \in Conns
  PROVE  /\ DOMAIN Taken(c) = 1..Len(Taken(c)) /\ Len(Taken(c)) \in Nat
         /\ Taken(c) # <<>> <=> Len(Taken(c)) > 0
         /\ \A i \in DOMAIN Taken(c) : Taken(c)[i][1] \in Nat /\ Taken(c)[i][2] \in Nat
<1>1. Taken(c) \in Seq(Byte) /\ DOMAIN Taken(c) = 1..Len(Taken(c)) /\ Len(Taken(c)) \in Nat
  BY SocketsTyped
<1>2. Taken(c) # <<>> <=> Len(Taken(c)) > 0
  BY <1>1, EmptySeq
<1>3. \A i \in DOMAIN Taken(c) : Taken(c)[i] \in Byte
  BY <1>1, ElementOfSeq
<1>4. \A byte \in Byte : byte[1] \in Nat /\ byte[2] \in Nat
  BY SendAssumption DEF Byte
<1> QED
  BY <1>1, <1>2, <1>3, <1>4

\* A send to come leaves what has been sent before as it is.
LEMMA StreamsStarts ==
  ASSUME Typed, StartsSend, NEW c \in Conns, Stream(c)
  PROVE  Stream(c)'
<1>1. PICK size \in Sizes, targets \in {{d} : d \in children} \cup {children}, server \in BOOLEAN :
         /\ sends' = Append(sends, [targets |-> targets, size |-> size, broadcast |-> server])
         /\ left' = targets
  BY DEF StartsSend
<1> DEFINE send == [targets |-> targets, size |-> size, broadcast |-> server]
<1>2. send \in SendRecords
  BY DEF Typed, TypeOK, SendRecords
<1> HIDE DEF send
<1>3. /\ This \in Nat /\ This' = This + 1 /\ DOMAIN sends = 1..This
      /\ \A s \in DOMAIN sends : s \in DOMAIN sends' /\ sends'[s] = sends[s]
  BY <1>1, <1>2, SendAppended DEF send
<1>4. /\ left = {} /\ at = NoConn /\ at' = NoConn /\ written' = written
      /\ UNCHANGED <<peer, got, wire>>
  BY DEF StartsSend, connVars, errorVars, Typed, Control
<1>5. Taken(c)' = Taken(c)
  BY <1>4 DEF Taken
<1>6. c # at /\ c # at' /\ ~Due(c)
  BY <1>4, SendAssumption DEF Due
<1>7. \A i \in DOMAIN Taken(c) : Taken(c)[i][1] \in DOMAIN sends
  BY DEF Stream, Streams
<1>8. \A i \in DOMAIN Taken(c) : Taken(c)[i][1] # This'
  BY <1>3, <1>7
<1>9. Taken(c) # <<>> => Len(Taken(c)) \in DOMAIN Taken(c)
  BY LastTyped
<1>10. peer[c] = "open" => Ended(c, This)
  BY <1>6 DEF Stream, Streams
<1>11. ASSUME peer[c] = "open", Taken(c) # <<>>
       PROVE  /\ LastOf(c)[1] <= This' - 1 /\ LastOf(c)[1] <= This'
              /\ LastOf(c)[2] = sends'[LastOf(c)[1]].size
  <2>1. LastOf(c)[1] <= This /\ LastOf(c)[2] = sends[LastOf(c)[1]].size
    BY <1>10, <1>11 DEF Ended
  <2>2. LastOf(c)[1] \in DOMAIN sends
    BY <1>7, <1>9, <1>11 DEF LastOf
  <2> QED
    BY <1>3, <2>1, <2>2
<1>12. LastOf(c)' = LastOf(c)
  BY <1>5 DEF LastOf
<1>13. peer[c] = "open" => Ended(c, This)' /\ Ended(c, This - 1)'
  BY <1>5, <1>11, <1>12 DEF Ended
<1>14. Streams(c)'
  <2>1. \A i \in DOMAIN Taken(c)' : Taken(c)'[i][1] \in DOMAIN sends'
    BY <1>3, <1>5, <1>7
  <2>2. (peer[c] = "absent" => Taken(c) = <<>>)'
    BY <1>4, <1>5 DEF Stream, Streams
  <2>3. (peer[c] = "open" => IF c = at /\ written # 0
                             THEN Taken(c) # <<>> /\ LastOf(c) = <<This, written>>
                             ELSE Ended(c, IF Due(c) THEN This - 1 ELSE This))'
    BY <1>4, <1>6, <1>13
  <2>4. (c \in left => \A i \in DOMAIN Taken(c) : Taken(c)[i][1] # This)'
    BY <1>5, <1>8
  <2> QED
    BY <2>1, <2>2, <2>3, <2>4, <1>6 DEF Streams
<1>15. Whole(c)'
  <2> SUFFICES ASSUME NEW i \in DOMAIN Taken(c)
               PROVE  /\ c \in sends'[Taken(c)[i][1]].targets
                      /\ \/ i > 1 /\ Taken(c)[i][2] = Taken(c)[i - 1][2] + 1 /\ Taken(c)[i][1] = Taken(c)[i - 1][1]
                         \/ /\ Taken(c)[i][2] = 1
                            /\ i > 1 => /\ Taken(c)[i][1] > Taken(c)[i - 1][1]
                                        /\ Taken(c)[i - 1][2] = sends'[Taken(c)[i - 1][1]].size
    BY <1>5 DEF Whole
  <2>1. sends'[Taken(c)[i][1]] = sends[Taken(c)[i][1]]
    BY <1>3, <1>7
  <2>2. i > 1 => sends'[Taken(c)[i - 1][1]] = sends[Taken(c)[i - 1][1]]
    <3>1. i > 1 => i - 1 \in DOMAIN Taken(c)
      BY LastTyped
    <3> QED
      BY <1>3, <1>7, <3>1
  <2> QED
    BY <2>1, <2>2 DEF Stream, Whole
<1> QED
  BY <1>14, <1>15 DEF Stream

LEMMA StreamsStartsTarget ==
  ASSUME Typed, StartsTarget, NEW c \in Conns, Stream(c)
  PROVE  Stream(c)'
<1>1. PICK t \in left : at' = t /\ left' = left \ {t}
  BY DEF StartsTarget
<1>2. /\ at = NoConn /\ written' = 0
      /\ UNCHANGED <<peer, got, wire, sends>>
  BY DEF StartsTarget, connVars, errorVars
<1>3. Taken(c)' = Taken(c) /\ LastOf(c)' = LastOf(c) /\ This' = This
  BY <1>2 DEF Taken, LastOf, This
<1>4. c # at /\ (Due(c)' <=> Due(c))
  BY <1>1, <1>2, SendAssumption DEF Due
<1>5. Streams(c)'
  <2>1. (peer[c] = "open" => Ended(c, IF Due(c) THEN This - 1 ELSE This))'
    BY <1>2, <1>3, <1>4 DEF Stream, Streams, Ended
  <2>2. \A i \in DOMAIN Taken(c)' : Taken(c)'[i][1] \in DOMAIN sends'
    BY <1>2, <1>3 DEF Stream, Streams
  <2>3. (peer[c] = "absent" => Taken(c) = <<>>)'
    BY <1>2, <1>3 DEF Stream, Streams
  <2>4. c \in left => \A i \in DOMAIN Taken(c)' : Taken(c)'[i][1] # This'
    BY <1>3 DEF Stream, Streams
  <2> QED
    BY <1>1, <1>2, <2>1, <2>2, <2>3, <2>4 DEF Streams
<1>6. Whole(c)'
  BY <1>2, <1>3 DEF Stream, Whole
<1> QED
  BY <1>5, <1>6 DEF Stream

\* A connection that is not open has nothing to answer for but what is there.
LEMMA StreamsCut ==
  ASSUME Typed, Typed', NEW c \in Conns, Stream(c), Cut(c), peer'[c] = "closed",
         UNCHANGED sends, left' \subseteq left, at' = at, written' >= written
  PROVE  Stream(c)'
<1>1. /\ DOMAIN Taken(c) = 1..Len(Taken(c)) /\ Len(Taken(c)) \in Nat
      /\ DOMAIN Taken(c)' = 1..Len(Taken(c)') /\ Len(Taken(c)') \in Nat
  BY LastTyped, SocketsTyped
<1>2. \A i \in DOMAIN Taken(c)' : i \in DOMAIN Taken(c) /\ Taken(c)'[i] = Taken(c)[i]
  BY <1>1 DEF Cut
<1>3. \A i \in DOMAIN Taken(c)' : i > 1 => Taken(c)'[i - 1] = Taken(c)[i - 1]
  BY <1>1 DEF Cut
<1>4. written \in Nat /\ written' \in Nat /\ This' = This
  BY DEF Typed, TypeOK, This
<1>5. \A i \in DOMAIN Taken(c) : Taken(c)[i][2] \in Nat
  BY LastTyped
<1>6. Streams(c)'
  <2>1. \A i \in DOMAIN Taken(c)' : Taken(c)'[i][1] \in DOMAIN sends'
    BY <1>2 DEF Stream, Streams
  <2>2. c \in left' => \A i \in DOMAIN Taken(c)' : Taken(c)'[i][1] # This'
    BY <1>2, <1>4 DEF Stream, Streams
  <2>3. c = at' => \A i \in DOMAIN Taken(c)' : Taken(c)'[i][1] = This' => Taken(c)'[i][2] <= written'
    <3> SUFFICES ASSUME c = at, NEW i \in DOMAIN Taken(c)', Taken(c)[i][1] = This
                 PROVE  Taken(c)[i][2] <= written'
      BY <1>2, <1>4
    <3>1. Taken(c)[i][2] <= written /\ Taken(c)[i][2] \in Nat
      BY <1>2, <1>5 DEF Stream, Streams
    <3> QED
      BY <1>4, <3>1
  <2> QED
    BY <2>1, <2>2, <2>3 DEF Streams
<1>7. Whole(c)'
  BY <1>2, <1>3 DEF Stream, Whole
<1> QED
  BY <1>6, <1>7 DEF Stream

\* A target whose peer is gone is done with.
LEMMA StreamsLeaves ==
  ASSUME NEW c \in Conns, Stream(c), peer[at] = "closed", at' = NoConn,
         UNCHANGED <<peer, sends, left, written>>,
         Taken(c)' = Taken(c), LastOf(c)' = LastOf(c), This' = This
  PROVE  Stream(c)'
<1>1. UNCHANGED <<peer, sends, left, written>>
  OBVIOUS
<1>2. Taken(c)' = Taken(c) /\ LastOf(c)' = LastOf(c) /\ This' = This /\ c # at'
  BY SendAssumption
<1>3. (peer[c] = "open" => Ended(c, IF Due(c) THEN This - 1 ELSE This))'
  <2>1. peer[c] = "open" => c # at
    BY <1>1
  <2> QED
    BY <1>1, <1>2, <2>1 DEF Stream, Streams, Ended, Due
<1>4. Streams(c)'
  <2>1. \A i \in DOMAIN Taken(c)' : Taken(c)'[i][1] \in DOMAIN sends'
    BY <1>1, <1>2 DEF Stream, Streams
  <2>2. (peer[c] = "absent" => Taken(c) = <<>>)'
    BY <1>1, <1>2 DEF Stream, Streams
  <2>3. (c \in left => \A i \in DOMAIN Taken(c) : Taken(c)[i][1] # This)'
    BY <1>1, <1>2 DEF Stream, Streams
  <2> QED
    BY <1>2, <1>3, <2>1, <2>2, <2>3 DEF Streams
<1>5. Whole(c)'
  BY <1>1, <1>2 DEF Stream, Whole
<1> QED
  BY <1>4, <1>5 DEF Stream

LEMMA StreamsFails ==
  ASSUME Typed, Fails, NEW c \in Conns, Stream(c)
  PROVE  Stream(c)'
<1>1. /\ at # NoConn /\ peer[at] = "closed" /\ at' \in {at, NoConn}
      /\ UNCHANGED <<peer, got, wire, sends, left, written>>
  BY DEF Fails, WriteFails, connVars
<1>2. Taken(c)' = Taken(c) /\ LastOf(c)' = LastOf(c) /\ This' = This
  BY <1>1 DEF Taken, LastOf, This
<1>a. CASE at' = at
  BY <1>1, <1>2, <1>a, StreamsFrame
<1>b. CASE at' = NoConn
  BY <1>1, <1>2, <1>b, StreamsLeaves
<1> QED
  BY <1>1, <1>a, <1>b

LEMMA StreamsReports ==
  ASSUME Typed, Reports, NEW c \in Conns, Stream(c), peer[at] = "closed"
  PROVE  Stream(c)'
<1>1. at' = NoConn /\ UNCHANGED <<peer, got, wire, sends, left, written>>
  BY DEF Reports, connVars
<1>2. Taken(c)' = Taken(c) /\ LastOf(c)' = LastOf(c) /\ This' = This
  BY <1>1 DEF Taken, LastOf, This
<1> QED
  BY <1>1, <1>2, StreamsLeaves

LEMMA StreamsRegisters ==
  ASSUME Typed, NEW d \in Conns, Registers(d), NEW c \in Conns, Stream(c)
  PROVE  Stream(c)'
<1>1. /\ peer[d] = "absent" /\ peer' = [peer EXCEPT ![d] = "open"]
      /\ left = {} /\ at = NoConn
      /\ UNCHANGED <<wire, got, sends, left, at, written>>
  BY DEF Registers, Typed, Control
<1>2. peer \in [Conns -> {"absent", "open", "closed"}]
  BY DEF Typed, TypeOK
<1>3. Taken(c)' = Taken(c)
  BY <1>1 DEF Taken
<1>4. CASE c # d
  BY <1>1, <1>2, <1>3, <1>4, StreamsFrame
<1>5. CASE c = d
  <2>1. Taken(c) = <<>> /\ DOMAIN Taken(c) = {} /\ c # at
    <3>1. Taken(c) = <<>> /\ c # at
      BY <1>1, <1>5, SendAssumption DEF Stream, Streams
    <3> QED
      BY <3>1
  <2>2. Streams(c)'
    BY <1>1, <1>2, <1>3, <1>5, <2>1 DEF Streams, Ended
  <2>3. Whole(c)'
    BY <1>3, <2>1 DEF Whole
  <2> QED
    BY <2>2, <2>3 DEF Stream
<1> QED
  BY <1>4, <1>5

\* The next bytes of the payload follow those before them, or begin it.
LEMMA StreamsWrites ==
  ASSUME Typed, Typed', Writes, NEW c \in Conns, Stream(c)
  PROVE  Stream(c)'
<1>1. PICK n \in 1..Payload :
         /\ WritesSome(at, n)
         /\ written' = written + n
         /\ at' = IF written + n = Payload THEN NoConn ELSE at
  BY DEF Writes
<1>2. /\ at # NoConn /\ at \in Conns /\ ~Idle /\ at \notin left
      /\ at \in sends[This].targets /\ written < Payload /\ written \in Nat
  BY SendAssumption DEF Writes, Typed, TypeOK, Control, Due
<1>3. Payload \in Nat /\ n \in Nat /\ n >= 1 /\ n <= Payload - written /\ This \in DOMAIN sends /\ This \in Nat
  BY <1>1, <1>2, UnderWay DEF WritesSome
<1>4. UNCHANGED <<peer, sends, left>> /\ This' = This /\ written' > 0 /\ written' \in Nat
  BY <1>1, <1>2, <1>3 DEF Writes, WritesSome, connVars, errorVars, This
<1>5. /\ c # at => Taken(c)' = Taken(c)
      /\ c = at /\ peer[c] # "open" => Taken(c)' = Taken(c)
      /\ c = at /\ peer[c] = "open" => Extended(c, n)
  <2>1. PICK t \in Conns : t = at
    BY <1>2
  <2>2. WritesSome(t, n)
    BY <1>1, <2>1
  <2>3. /\ \A d \in Conns : d # t => Taken(d)' = Taken(d)
        /\ peer[t] # "open" => Taken(t)' = Taken(t)
        /\ peer[t] = "open" => Extended(t, n)
    BY <1>2, <1>3, <2>2, WritesExtend
  <2> QED
    BY <2>1, <2>3
<1>6. CASE c # at
  <2>1. Taken(c)' = Taken(c) /\ LastOf(c)' = LastOf(c) /\ c # at'
    BY <1>1, <1>5, <1>6, SendAssumption DEF LastOf
  <2>2. Due(c)' <=> Due(c)
    BY <1>4, <1>6, <2>1 DEF Due
  <2>3. (peer[c] = "open" => Ended(c, IF Due(c) THEN This - 1 ELSE This))'
    BY <1>4, <1>6, <2>1, <2>2 DEF Stream, Streams, Ended
  <2>4. Streams(c)'
    <3>1. \A i \in DOMAIN Taken(c)' : Taken(c)'[i][1] \in DOMAIN sends'
      BY <1>4, <2>1 DEF Stream, Streams
    <3>2. (peer[c] = "absent" => Taken(c) = <<>>)'
      BY <1>4, <2>1 DEF Stream, Streams
    <3>3. (c \in left => \A i \in DOMAIN Taken(c) : Taken(c)[i][1] # This)'
      BY <1>4, <2>1 DEF Stream, Streams
    <3> QED
      BY <2>1, <2>3, <3>1, <3>2, <3>3 DEF Streams
  <2>5. Whole(c)'
    BY <1>4, <2>1 DEF Stream, Whole
  <2> QED
    BY <2>4, <2>5 DEF Stream
<1>7. CASE c = at /\ peer[c] # "open"
  <2>1. Taken(c)' = Taken(c)
    BY <1>5, <1>7
  <2>2. peer'[c] # "open" /\ c \notin left'
    BY <1>2, <1>4, <1>7
  <2>3. Streams(c)'
    <3>1. \A i \in DOMAIN Taken(c)' : Taken(c)'[i][1] \in DOMAIN sends'
      BY <1>4, <2>1 DEF Stream, Streams
    <3>2. (peer[c] = "absent" => Taken(c) = <<>>)'
      BY <1>4, <2>1 DEF Stream, Streams
    <3>3. \A i \in DOMAIN Taken(c)' : Taken(c)'[i][1] = This' => Taken(c)'[i][2] <= written'
      <4> SUFFICES ASSUME NEW i \in DOMAIN Taken(c), Taken(c)[i][1] = This
                   PROVE  Taken(c)[i][2] <= written'
        BY <1>4, <2>1
      <4>1. Taken(c)[i][2] <= written /\ Taken(c)[i][2] \in Nat
        BY <1>7, LastTyped DEF Stream, Streams
      <4> QED
        BY <1>1, <1>2, <1>3, <4>1
    <3> QED
      BY <2>2, <3>1, <3>2, <3>3 DEF Streams
  <2>4. Whole(c)'
    BY <1>4, <2>1 DEF Stream, Whole
  <2> QED
    BY <2>3, <2>4 DEF Stream
<1>8. CASE c = at /\ peer[c] = "open"
  <2> DEFINE len == Len(Taken(c))
             new == Len(Taken(c)')
  <2>1. /\ len \in Nat /\ DOMAIN Taken(c) = 1..len /\ DOMAIN Taken(c)' = 1..new
        /\ Taken(c) # <<>> <=> len > 0
        /\ \A i \in DOMAIN Taken(c) : Taken(c)[i][1] \in Nat /\ Taken(c)[i][2] \in Nat
    BY LastTyped, SocketsTyped
  <2>2. /\ new = len + n
        /\ \A i \in 1..len : Taken(c)'[i] = Taken(c)[i]
        /\ \A j \in 1..n : Taken(c)'[len + j] = <<This, written + j>>
    BY <1>5, <1>8 DEF Extended
  <2>3. /\ \A i \in 1..len : Taken(c)[i][1] \in DOMAIN sends
        /\ \A i \in 1..len : Taken(c)[i][1] = This => Taken(c)[i][2] <= written
        /\ written # 0 => len > 0 /\ Taken(c)[len] = <<This, written>>
        /\ written = 0 /\ len > 0 =>
              Taken(c)[len][1] <= This - 1 /\ Taken(c)[len][2] = sends[Taken(c)[len][1]].size
    BY <1>8, <2>1 DEF Stream, Streams, LastOf, Ended, Due
  <2>4. \A i \in 1..new : i \in 1..len \/ \E j \in 1..n : i = len + j
    <3> SUFFICES ASSUME NEW i \in 1..new, i \notin 1..len PROVE i - len \in 1..n /\ i = len + (i - len)
      OBVIOUS
    <3> QED
      BY <1>3, <2>1, <2>2
  <2> HIDE DEF len, new
  <2>5. Taken(c)' # <<>> /\ LastOf(c)' = <<This', written'>>
    <3>1. new > 0 /\ n \in 1..n /\ new = len + n
      BY <1>3, <2>1, <2>2
    <3>2. Taken(c)'[new] = <<This, written + n>>
      BY <2>2, <3>1
    <3>3. Taken(c)' # <<>>
      BY <3>1, EmptySeq DEF new
    <3> QED
      BY <1>1, <1>4, <3>2, <3>3 DEF LastOf, new
  <2>6. Streams(c)'
    <3>1. \A i \in DOMAIN Taken(c)' : Taken(c)'[i][1] \in DOMAIN sends'
      <4> SUFFICES ASSUME NEW i \in 1..new PROVE Taken(c)'[i][1] \in DOMAIN sends
        BY <1>4, <2>1
      <4>1. CASE i \in 1..len
        BY <2>2, <2>3, <4>1
      <4>2. ASSUME NEW j \in 1..n, i = len + j PROVE Taken(c)'[i][1] \in DOMAIN sends
        BY <1>3, <2>2, <4>2
      <4> QED
        BY <2>4, <4>1, <4>2
    <3>2. \A i \in DOMAIN Taken(c)' : Taken(c)'[i][1] = This' => Taken(c)'[i][2] <= written'
      <4> SUFFICES ASSUME NEW i \in 1..new, Taken(c)'[i][1] = This
                   PROVE  Taken(c)'[i][2] <= written + n
        BY <1>1, <1>4, <2>1
      <4>1. CASE i \in 1..len
        <5>1. Taken(c)'[i] = Taken(c)[i] /\ Taken(c)[i][2] <= written /\ Taken(c)[i][2] \in Nat
          BY <2>1, <2>2, <2>3, <4>1
        <5> QED
          BY <1>2, <1>3, <5>1
      <4>2. ASSUME NEW j \in 1..n, i = len + j PROVE Taken(c)'[i][2] <= written + n
        <5>1. Taken(c)'[i][2] = written + j
          BY <2>2, <4>2
        <5> QED
          BY <1>2, <1>3, <5>1
      <4> QED
        BY <2>4, <4>1, <4>2
    <3>3. (IF c = at /\ written # 0
           THEN Taken(c) # <<>> /\ LastOf(c) = <<This, written>>
           ELSE Ended(c, IF Due(c) THEN This - 1 ELSE This))'
      <4>1. CASE c = at'
        BY <1>4, <2>5, <4>1
      <4>2. CASE c # at'
        <5>1. written' = Payload /\ ~Due(c)'
          BY <1>1, <1>2, <1>4, <1>8, <4>2 DEF Due
        <5>2. LastOf(c)'[1] = This' /\ LastOf(c)'[2] = sends'[This'].size
          BY <1>4, <2>5, <5>1 DEF Payload
        <5>3. Ended(c, This)'
          BY <1>3, <1>4, <5>2 DEF Ended
        <5> QED
          BY <4>2, <5>1, <5>3
      <4> QED
        BY <4>1, <4>2
    <3>4. c \notin left' /\ peer'[c] = "open"
      BY <1>2, <1>4, <1>8
    <3> QED
      BY <3>1, <3>2, <3>3, <3>4 DEF Streams
  <2>7. Whole(c)'
    <3> DEFINE b(i) == Taken(c)'[i]
    <3> SUFFICES ASSUME NEW i \in 1..new
                 PROVE  /\ c \in sends[b(i)[1]].targets
                        /\ \/ i > 1 /\ b(i)[2] = b(i - 1)[2] + 1 /\ b(i)[1] = b(i - 1)[1]
                           \/ /\ b(i)[2] = 1
                              /\ i > 1 => b(i)[1] > b(i - 1)[1] /\ b(i - 1)[2] = sends[b(i - 1)[1]].size
      BY <1>4, <2>1 DEF Whole
    <3>1. CASE i \in 1..len
      <4>1. b(i) = Taken(c)[i] /\ (i > 1 => b(i - 1) = Taken(c)[i - 1])
        BY <2>1, <2>2, <3>1
      <4> HIDE DEF b
      <4> QED
        BY <2>1, <3>1, <4>1 DEF Stream, Whole
    <3>2. ASSUME NEW j \in 1..n, i = len + j, j # 1
          PROVE  i > 1 /\ b(i) = <<This, written + j>> /\ b(i - 1) = <<This, written + (j - 1)>>
      <4>1. j - 1 \in 1..n /\ i - 1 = len + (j - 1) /\ i > 1
        BY <1>3, <2>1, <3>2
      <4> QED
        BY <2>2, <3>2, <4>1
    <3>3. ASSUME NEW j \in 1..n, i = len + j, j = 1, written # 0
          PROVE  i > 1 /\ b(i) = <<This, written + 1>> /\ b(i - 1) = <<This, written>>
      <4>1. len > 0 /\ i - 1 = len /\ len \in 1..len /\ i > 1
        BY <2>1, <2>3, <3>3
      <4>2. b(i - 1) = Taken(c)[len]
        BY <2>2, <4>1
      <4> QED
        BY <2>2, <2>3, <3>3, <4>1, <4>2
    <3>4. ASSUME NEW j \in 1..n, i = len + j, j = 1, written = 0
          PROVE  /\ b(i) = <<This, 1>>
                 /\ i > 1 => b(i - 1)[1] < This /\ b(i - 1)[2] = sends[b(i - 1)[1]].size
      <4>1. b(i) = <<This, 1>>
        BY <2>2, <3>4
      <4>2. ASSUME i > 1 PROVE b(i - 1)[1] < This /\ b(i - 1)[2] = sends[b(i - 1)[1]].size
        <5>1. len > 0 /\ i - 1 = len /\ len \in 1..len
          BY <2>1, <3>4, <4>2
        <5>2. b(i - 1) = Taken(c)[len]
          BY <2>2, <5>1
        <5>3. /\ Taken(c)[len][1] <= This - 1 /\ Taken(c)[len][1] \in Nat
              /\ Taken(c)[len][2] = sends[Taken(c)[len][1]].size
          BY <2>1, <2>3, <3>4, <5>1
        <5> QED
          BY <1>3, <5>2, <5>3
      <4> QED
        BY <4>1, <4>2
    <3> HIDE DEF b
    <3>5. c \in sends[This].targets
      BY <1>2, <1>8
    <3> QED
      BY <1>2, <1>3, <2>4, <3>1, <3>2, <3>3, <3>4, <3>5
  <2> QED
    BY <2>6, <2>7 DEF Stream
<1> QED
  BY <1>6, <1>7, <1>8

LEMMA StreamStep ==
  ASSUME Typed, Typed', [Next]_vars, \A c \in Conns : Stream(c)
  PROVE  \A c \in Conns : Stream(c)'
<1> SUFFICES ASSUME NEW c \in Conns PROVE Stream(c)'
  OBVIOUS
<1>s. Stream(c)
  OBVIOUS
<1>1. CASE UNCHANGED vars
  <2>1. Taken(c)' = Taken(c)
    BY <1>1 DEF Taken, vars, connVars, errorVars
  <2> QED
    BY <1>1, <2>1, StreamsFrame DEF vars, connVars, errorVars
<1>2. CASE StartsSend
  BY <1>2, StreamsStarts
<1>3. CASE StartsTarget
  BY <1>3, StreamsStartsTarget
<1>4. CASE Writes
  BY <1>4, StreamsWrites
<1>5. CASE Fails
  BY <1>5, StreamsFails
<1>6. CASE EndsSend
  <2>1. Taken(c)' = Taken(c)
    BY <1>6 DEF Taken, EndsSend, connVars, errorVars
  <2> QED
    BY <1>6, <2>1, StreamsFrame DEF EndsSend, connVars, errorVars
<1>7. ASSUME NEW d \in Conns, Registers(d) PROVE Stream(c)'
  BY <1>7, StreamsRegisters
<1>8. ASSUME NEW d \in Conns, Unregisters(d) PROVE Stream(c)'
  <2>1. Taken(c)' = Taken(c)
    BY <1>8 DEF Taken, Unregisters
  <2> QED
    BY <1>8, <2>1, StreamsFrame DEF Unregisters
<1>9. ASSUME NEW d \in Conns, PeerReads(d) PROVE Stream(c)'
  <2>1. Taken(c)' = Taken(c)
    BY <1>9, ReadsKeep
  <2> QED
    BY <1>9, <2>1, StreamsFrame DEF PeerReads
<1>10. ASSUME NEW d \in Conns, PeerCloses(d) PROVE Stream(c)'
  <2>1. /\ peer' = [peer EXCEPT ![d] = "closed"]
        /\ UNCHANGED <<sends, left, at, written>>
    BY <1>10 DEF PeerCloses
  <2>2. peer \in [Conns -> {"absent", "open", "closed"}] /\ written \in Nat
    BY DEF Typed, TypeOK
  <2>3. CASE c # d
    <3>1. Taken(c)' = Taken(c)
      BY <1>10, <2>3, ClosesCut
    <3> QED
      BY <2>1, <2>2, <2>3, <3>1, StreamsFrame
  <2>4. CASE c = d
    <3>1. Cut(c)
      BY <1>10, <2>4, ClosesCut
    <3>2. peer'[c] = "closed" /\ left' \subseteq left /\ written' >= written
      BY <2>1, <2>2, <2>4
    <3> QED
      BY <2>1, <3>1, <3>2, StreamsCut
  <2> QED
    BY <2>3, <2>4
<1>11. CASE Reports
  <2>1. peer[at] = "closed"
    BY <1>11 DEF Reports, Typed, Control
  <2> QED
    BY <1>11, <2>1, StreamsReports
<1> QED
  BY <1>1, <1>2, <1>3, <1>4, <1>5, <1>6, <1>7, <1>8, <1>9, <1>10, <1>11 DEF Next, SendStep

LEMMA InitStream ==
  ASSUME Init
  PROVE  \A c \in Conns : Stream(c)
<1> SUFFICES ASSUME NEW c \in Conns PROVE Stream(c)
  OBVIOUS
<1>1. wire[c] = <<>> /\ got[c] = <<>> /\ peer[c] = "absent" /\ left = {} /\ at = NoConn
  BY DEF Init
<1>2. <<>> \o <<>> = <<>> /\ DOMAIN <<>> = {}
  BY EmptySeq, ConcatEmptySeq
<1>3. Taken(c) = <<>> /\ DOMAIN Taken(c) = {}
  BY <1>1, <1>2 DEF Taken
<1> QED
  BY <1>1, <1>3, SendAssumption DEF Stream, Streams, Whole

InOrder == Typed /\ \A c \in Conns : Stream(c)

LEMMA Ordered == Spec => []InOrder
<1>1. Init => InOrder
  BY InitTyped, InitStream DEF InOrder
<1>2. InOrder /\ [Next]_vars => InOrder'
  <2> SUFFICES ASSUME InOrder, [Next]_vars PROVE InOrder'
    OBVIOUS
  <2>1. Typed' /\ \A c \in Conns : Stream(c)'
    BY TypedStep, StreamStep DEF InOrder
  <2> QED
    BY <2>1 DEF InOrder
<1> QED
  BY <1>1, <1>2, PTL DEF Spec

(***************************************************************************)
(* A peer reads whole payloads, in the order of the sends and only those   *)
(* meant for it, wherever the room in its socket cuts a write in two       *)
(* (write_to_stream).                                                      *)
(***************************************************************************)
THEOREM StreamTheorem == Spec => []WholePayloadsInOrder
<1>1. InOrder => WholePayloadsInOrder
  BY DEF InOrder, Stream, Whole, WholePayloadsInOrder
<1> QED
  BY <1>1, Ordered, PTL

-----------------------------------------------------------------------------
(***************************************************************************)
(* Who is served.  A payload that is in a socket stays there, whatever is  *)
(* written after it, unless the peer closes.                               *)
(***************************************************************************)
LEMMA HasKept ==
  ASSUME Typed, NEW c \in Conns, NEW send \in DOMAIN sends, NEW n \in Nat,
         Taken(c)' = Taken(c) \/ Extended(c, n), Typed', sends'[send] = sends[send], Has(c, send)
  PROVE  Has(c, send)'
<1>1. PICK i \in DOMAIN Taken(c) : Taken(c)[i] = <<send, sends[send].size>>
  BY DEF Has
<1>2. DOMAIN Taken(c) = 1..Len(Taken(c)) /\ Len(Taken(c)) \in Nat /\ DOMAIN Taken(c)' = 1..Len(Taken(c)')
  BY LastTyped, SocketsTyped
<1>3. i \in DOMAIN Taken(c)' /\ Taken(c)'[i] = Taken(c)[i]
  <2>1. CASE Taken(c)' = Taken(c)
    BY <1>1, <2>1
  <2>2. CASE Extended(c, n)
    <3>1. Len(Taken(c)') = Len(Taken(c)) + n /\ Taken(c)'[i] = Taken(c)[i]
      BY <1>1, <1>2, <2>2 DEF Extended
    <3>2. i \in 1..Len(Taken(c)) + n
      BY <1>1, <1>2
    <3> QED
      BY <1>2, <3>1, <3>2
  <2> QED
    BY <2>1, <2>2
<1> QED
  BY <1>1, <1>3 DEF Has

\* And none comes from nowhere.
LEMMA HasNot ==
  ASSUME NEW c \in Conns, NEW send \in DOMAIN sends,
         Taken(c)' = Taken(c), sends'[send] = sends[send], ~Has(c, send)
  PROVE  ~Has(c, send)'
  BY DEF Has

Targets == \A send \in DOMAIN sends : sends[send].targets \subseteq Conns

LEMMA TargetsTyped ==
  ASSUME Typed
  PROVE  Targets /\ DOMAIN sends \subseteq Nat
<1>1. sends \in Seq(SendRecords)
  BY DEF Typed, TypeOK, SendRecords
<1>2. \A send \in DOMAIN sends : sends[send] \in SendRecords
  BY <1>1, ElementOfSeq, LenProperties
<1>3. DOMAIN sends \subseteq Nat
  BY <1>1, LenProperties
<1> QED
  BY <1>2, <1>3 DEF Targets, SendRecords

\* What a socket has taken is unchanged, or the peer is gone, or more is added to it.
LEMMA TakenStep ==
  ASSUME Typed, Typed', [Next]_vars, NEW c \in Conns
  PROVE  \/ Taken(c)' = Taken(c)
         \/ peer[c] = "open" /\ peer'[c] = "closed"
         \/ peer[c] = "open" /\ \E n \in Nat : Extended(c, n)
<1>1. CASE UNCHANGED vars \/ StartsSend \/ StartsTarget \/ Fails \/ Reports \/ EndsSend
  BY <1>1 DEF Taken, vars, connVars, StartsSend, StartsTarget, Fails, WriteFails, Reports, EndsSend
<1>2. CASE Writes
  <2>1. PICK n \in 1..Payload : WritesSome(at, n)
    BY <1>2 DEF Writes
  <2>2. at \in Conns /\ ~Idle
    BY <1>2, SendAssumption DEF Writes, Typed, TypeOK, Control
  <2>3. n \in Nat
    BY <2>1, <2>2, UnderWay
  <2>4. PICK t \in Conns : t = at
    BY <2>2
  <2>5. WritesSome(t, n)
    BY <2>1, <2>4
  <2>6. /\ c # t => Taken(c)' = Taken(c)
        /\ peer[t] # "open" => Taken(t)' = Taken(t)
        /\ peer[t] = "open" => Extended(t, n)
    BY <2>2, <2>3, <2>5, WritesExtend
  <2> QED
    BY <2>3, <2>6
<1>3. ASSUME NEW d \in Conns, Registers(d) \/ Unregisters(d) PROVE Taken(c)' = Taken(c)
  BY <1>3 DEF Taken, Registers, Unregisters
<1>4. ASSUME NEW d \in Conns, PeerReads(d) PROVE Taken(c)' = Taken(c)
  BY <1>4, ReadsKeep
<1>5. ASSUME NEW d \in Conns, PeerCloses(d)
      PROVE  Taken(c)' = Taken(c) \/ (peer[c] = "open" /\ peer'[c] = "closed")
  <2>1. peer[d] = "open" /\ peer'[d] = "closed"
    BY <1>5 DEF PeerCloses, Typed, TypeOK
  <2>2. d # c => Taken(c)' = Taken(c)
    BY <1>5, ClosesCut
  <2> QED
    BY <2>1, <2>2
<1> QED
  BY <1>1, <1>2, <1>3, <1>4, <1>5 DEF Next, SendStep

\* A peer that is gone stays gone, and sends stay as they are.
LEMMA StepKeeps ==
  ASSUME Typed, [Next]_vars
  PROVE  /\ \A c \in Conns : peer[c] = "closed" => peer'[c] = "closed"
         /\ \A send \in DOMAIN sends : send \in DOMAIN sends' /\ sends'[send] = sends[send]
<1>1. peer \in [Conns -> {"absent", "open", "closed"}]
  BY DEF Typed, TypeOK
<1>2. CASE StartsSend
  <2>1. PICK size \in Sizes, targets \in {{d} : d \in children} \cup {children}, server \in BOOLEAN :
           sends' = Append(sends, [targets |-> targets, size |-> size, broadcast |-> server])
    BY <1>2 DEF StartsSend
  <2> DEFINE send == [targets |-> targets, size |-> size, broadcast |-> server]
  <2>2. send \in SendRecords
    BY DEF Typed, TypeOK, SendRecords
  <2> HIDE DEF send
  <2>3. \A s \in DOMAIN sends : s \in DOMAIN sends' /\ sends'[s] = sends[s]
    BY <2>1, <2>2, SendAppended DEF send
  <2>4. peer' = peer
    BY <1>2 DEF StartsSend, connVars, errorVars
  <2> QED
    BY <2>3, <2>4
<1>3. CASE UNCHANGED vars \/ StartsTarget \/ Writes \/ Fails \/ Reports \/ EndsSend
  <2>1. sends' = sends /\ peer' = peer
    BY <1>3 DEF vars, connVars, StartsTarget, Writes, WritesSome, Fails, WriteFails, Reports, EndsSend
  <2> QED
    BY <2>1
<1>4. ASSUME NEW d \in Conns, Registers(d) \/ Unregisters(d) \/ PeerReads(d) \/ PeerCloses(d)
      PROVE  sends' = sends /\ \A c \in Conns : peer[c] = "closed" => peer'[c] = "closed"
  BY <1>1, <1>4 DEF Registers, Unregisters, PeerReads, PeerCloses
<1> QED
  BY <1>2, <1>3, <1>4 DEF Next, SendStep

LEMMA ServedStep ==
  ASSUME InOrder, InOrder', [Next]_vars, Served
  PROVE  Served'
<1>a. Typed /\ Typed' /\ \A c \in Conns : Stream(c)
  BY DEF InOrder
<1>b. Targets /\ DOMAIN sends \subseteq Nat
  BY <1>a, TargetsTyped
<1>c. Targets'
  <2>1. sends' \in Seq(SendRecords)
    BY <1>a DEF Typed, TypeOK, SendRecords
  <2>2. \A s \in DOMAIN sends' : sends'[s] \in SendRecords
    BY <2>1, ElementOfSeq, LenProperties
  <2> QED
    BY <2>2 DEF Targets, SendRecords
<1> SUFFICES ASSUME NEW send \in DOMAIN sends', NEW c \in sends'[send].targets
             PROVE  (send = This' /\ Due(c)') \/ Has(c, send)' \/ peer'[c] = "closed"
  BY DEF Served
<1>d. c \in Conns
  BY <1>c DEF Targets
\* What is done with stays done with.
<1>1. ASSUME send \in DOMAIN sends, Has(c, send) \/ peer[c] = "closed"
      PROVE  Has(c, send)' \/ peer'[c] = "closed"
  <2>1. CASE peer[c] = "closed"
    BY <1>a, <1>d, <2>1, StepKeeps
  <2>2. CASE Has(c, send)
    <3>1. sends'[send] = sends[send]
      BY <1>a, <1>1, StepKeeps
    <3>2. CASE Taken(c)' = Taken(c)
      BY <1>1, <2>2, <3>1, <3>2 DEF Has
    <3>3. CASE \E n \in Nat : Extended(c, n)
      BY <1>a, <1>d, <1>1, <2>2, <3>1, <3>3, HasKept
    <3> QED
      BY <1>a, <1>d, <3>2, <3>3, TakenStep
  <2> QED
    BY <1>1, <2>1, <2>2
<1>2. ASSUME send \in DOMAIN sends
      PROVE  (send = This /\ Due(c)) \/ Has(c, send) \/ peer[c] = "closed"
  BY <1>a, <1>2, StepKeeps DEF Served
<1>3. CASE StartsSend
  <2>1. PICK size \in Sizes, targets \in {{d} : d \in children} \cup {children}, server \in BOOLEAN :
           /\ sends' = Append(sends, [targets |-> targets, size |-> size, broadcast |-> server])
           /\ left' = targets
    BY <1>3 DEF StartsSend
  <2> DEFINE new == [targets |-> targets, size |-> size, broadcast |-> server]
  <2>2. new \in SendRecords
    BY <1>a DEF Typed, TypeOK, SendRecords
  <2>3. new.targets = targets
    OBVIOUS
  <2> HIDE DEF new
  <2>4. /\ DOMAIN sends = 1..This /\ DOMAIN sends' = 1..This' /\ This' = This + 1 /\ This \in Nat
        /\ sends'[This'] = new
    BY <1>a, <2>1, <2>2, SendAppended DEF new
  <2>5. left = {} /\ at = NoConn
    BY <1>a, <1>3 DEF StartsSend, Typed, Control
  <2>6. CASE send = This'
    BY <2>1, <2>3, <2>4, <2>6 DEF Due
  <2>7. CASE send # This'
    <3>1. send \in DOMAIN sends
      BY <2>4, <2>7
    <3>2. ~Due(c)
      BY <1>d, <2>5, SendAssumption DEF Due
    <3> QED
      BY <1>1, <1>2, <3>1, <3>2
  <2> QED
    BY <2>6, <2>7
<1>4. CASE sends' = sends /\ (Due(c) => Due(c)' \/ Has(c, This)' \/ peer'[c] = "closed")
  <2>1. send \in DOMAIN sends /\ This' = This
    BY <1>4 DEF This
  <2> QED
    BY <1>1, <1>2, <1>4, <2>1
<1>5. CASE UNCHANGED vars
  BY <1>4, <1>5 DEF vars, connVars, errorVars, Due
<1>6. CASE StartsTarget
  <2>1. sends' = sends /\ at = NoConn /\ \E t \in left : at' = t /\ left' = left \ {t}
    BY <1>6 DEF StartsTarget
  <2>2. Due(c) => Due(c)'
    BY <1>d, <2>1, SendAssumption DEF Due
  <2> QED
    BY <1>4, <2>1, <2>2
<1>7. CASE Writes
  <2>1. PICK n \in 1..Payload :
           /\ WritesSome(at, n)
           /\ written' = written + n
           /\ at' = IF written + n = Payload THEN NoConn ELSE at
    BY <1>7 DEF Writes
  <2>2. at \in Conns /\ ~Idle /\ at \in children /\ written \in Nat /\ UNCHANGED <<sends, left, peer>> /\ at \notin left
    BY <1>a, <1>7, <2>1, SendAssumption DEF Writes, WritesSome, connVars, errorVars, Typed, TypeOK, Control
  <2>3. Payload \in Nat /\ n \in Nat /\ n >= 1
    BY <1>a, <2>1, <2>2, UnderWay
  <2>4. ASSUME c = at, at' # at PROVE Has(c, This)' \/ peer'[c] = "closed"
    <3>1. peer[c] = "open" \/ peer[c] = "closed"
      BY <1>a, <2>2, <2>4 DEF Typed, TypeOK, Control
    <3>2. ASSUME peer[c] = "open" PROVE Has(c, This)'
      <4>1. WritesSome(c, n)
        BY <2>1, <2>4
      <4>2. Extended(c, n)
        BY <1>a, <1>d, <2>2, <2>3, <3>2, <4>1, WritesExtend
      <4>3. n \in 1..n /\ written + n = Payload /\ This' = This
        BY <2>1, <2>2, <2>3, <2>4 DEF This
      <4>4. Taken(c)'[Len(Taken(c)) + n] = <<This, Payload>>
        BY <4>2, <4>3 DEF Extended
      <4>5. Len(Taken(c)) + n \in DOMAIN Taken(c)'
        <5>1. Len(Taken(c)') = Len(Taken(c)) + n /\ Len(Taken(c)) \in Nat /\ DOMAIN Taken(c)' = 1..Len(Taken(c)')
          BY <1>a, <1>d, <4>2, SocketsTyped DEF Extended
        <5> QED
          BY <2>3, <5>1
      <4> QED
        BY <2>2, <4>3, <4>4, <4>5 DEF Has, Payload
    <3> QED
      BY <2>2, <3>1, <3>2
  <2>5. Due(c) => Due(c)' \/ Has(c, This)' \/ peer'[c] = "closed"
    BY <2>2, <2>4 DEF Due
  <2> QED
    BY <1>4, <2>2, <2>5
<1>8. CASE Fails \/ Reports
  <2>1. /\ peer[at] = "closed" /\ UNCHANGED <<peer, sends, left>>
    BY <1>8, <1>a DEF Fails, WriteFails, Reports, connVars, Typed, Control
  <2>2. Due(c) => Due(c)' \/ peer'[c] = "closed"
    BY <2>1 DEF Due
  <2> QED
    BY <1>4, <2>1, <2>2
<1>9. CASE EndsSend
  BY <1>4, <1>9 DEF EndsSend, connVars, errorVars, Due
<1>10. ASSUME NEW d \in Conns, Registers(d) \/ Unregisters(d) \/ PeerReads(d) \/ PeerCloses(d)
       PROVE  sends' = sends /\ (Due(c) => Due(c)')
  BY <1>10 DEF Registers, Unregisters, PeerReads, PeerCloses, Due
<1> QED
  BY <1>3, <1>4, <1>5, <1>6, <1>7, <1>8, <1>9, <1>10 DEF Next, SendStep

LEMMA ReportedStep ==
  ASSUME InOrder, InOrder', [Next]_vars, Reported
  PROVE  Reported'
<1>a. Typed /\ Typed' /\ \A c \in Conns : Stream(c)
  BY DEF InOrder
<1>b. reported \subseteq (1..MaxSends) \X Conns
  BY <1>a DEF Typed, TypeOK
\* What was reported stays true: the peer is gone, and nothing is written to it.
<1>1. ASSUME NEW pair \in reported
      PROVE  /\ pair[1] \in DOMAIN sends' /\ peer'[pair[2]] = "closed"
             /\ pair[2] \in sends'[pair[1]].targets /\ sends'[pair[1]].broadcast
             /\ ~Has(pair[2], pair[1])'
  <2>1. PICK send \in DOMAIN sends, c \in Conns : send = pair[1] /\ c = pair[2]
    BY <1>b, <1>1 DEF Reported
  <2>2. /\ peer[c] = "closed" /\ c \in sends[send].targets /\ sends[send].broadcast
        /\ ~Has(c, send)
    BY <1>1, <2>1 DEF Reported
  <2>3. send \in DOMAIN sends' /\ sends'[send] = sends[send] /\ peer'[c] = "closed"
    BY <1>a, <2>2, StepKeeps
  <2>4. Taken(c)' = Taken(c)
    BY <1>a, <2>2, TakenStep
  <2>5. ~Has(c, send)'
    BY <2>2, <2>3, <2>4, HasNot
  <2> QED
    BY <2>1, <2>2, <2>3, <2>5
<1>2. CASE reported' = reported
  BY <1>1, <1>2 DEF Reported
<1>3. CASE Reports
  <2>1. /\ at # NoConn /\ peer[at] = "closed" /\ sends[This].broadcast
        /\ reported' = reported \cup {<<This, at>>}
        /\ UNCHANGED <<peer, got, wire, sends>>
    BY <1>3, <1>a DEF Reports, connVars, Typed, Control
  <2>2. ~Idle /\ at \in Conns /\ at \in sends[This].targets /\ written < Payload /\ written \in Nat
    BY <1>a, <2>1, SendAssumption DEF Typed, TypeOK, Control, Due
  <2>3. This \in DOMAIN sends /\ This' = This /\ Payload \in Nat
    BY <1>a, <2>1, <2>2, UnderWay DEF This
  <2>4. PICK c \in Conns, send \in DOMAIN sends : c = at /\ send = This
    BY <2>2, <2>3
  <2>5. ~Has(c, send)
    <3> SUFFICES ASSUME NEW i \in DOMAIN Taken(c), Taken(c)[i] = <<This, Payload>> PROVE FALSE
      BY <2>4 DEF Has, Payload
    <3>1. Taken(c)[i][1] = This /\ Taken(c)[i][2] = Payload
      OBVIOUS
    <3>2. Taken(c)[i][2] <= written
      BY <1>a, <2>4, <3>1 DEF Stream, Streams
    <3> QED
      BY <2>2, <2>3, <3>1, <3>2
  <2>6. Taken(c)' = Taken(c) /\ sends'[send] = sends[send]
    BY <2>1 DEF Taken
  <2>7. ~Has(c, send)'
    BY <2>5, <2>6, HasNot
  <2> SUFFICES ASSUME NEW pair \in reported'
               PROVE  /\ pair[1] \in DOMAIN sends' /\ peer'[pair[2]] = "closed"
                      /\ pair[2] \in sends'[pair[1]].targets /\ sends'[pair[1]].broadcast
                      /\ ~Has(pair[2], pair[1])'
    BY DEF Reported
  <2>8. CASE pair \in reported
    BY <1>1, <2>8
  <2>9. CASE pair = <<This, at>>
    <3>1. pair[1] = send /\ pair[2] = c
      BY <2>4, <2>9
    <3> QED
      BY <2>1, <2>2, <2>4, <2>7, <3>1
  <2> QED
    BY <2>1, <2>8, <2>9
<1>4. CASE Fails
  BY <1>2, <1>4 DEF Fails, WriteFails
<1>5. CASE UNCHANGED vars \/ StartsSend \/ StartsTarget \/ Writes \/ EndsSend
  BY <1>2, <1>5 DEF vars, errorVars, StartsSend, StartsTarget, Writes, WritesSome, EndsSend
<1>6. ASSUME NEW d \in Conns, Registers(d) \/ Unregisters(d) \/ PeerReads(d) \/ PeerCloses(d)
      PROVE  reported' = reported
  BY <1>6 DEF errorVars, Registers, Unregisters, PeerReads, PeerCloses
<1> QED
  BY <1>2, <1>3, <1>4, <1>5, <1>6 DEF Next, SendStep

(***************************************************************************)
(* When a send is answered, every connection it was for has taken the      *)
(* payload unless its peer is gone, and an ERROR was displayed only for    *)
(* one of those: a failed write never costs another child its payload      *)
(* (send_bytes).                                                           *)
(***************************************************************************)
THEOREM ServedTheorem == Spec => []EveryTargetServed
<1>1. Init => Served /\ Reported
  <2>1. DOMAIN <<>> = {}
    BY EmptySeq
  <2> QED
    BY <2>1 DEF Init, Served, Reported
<1>2. InOrder /\ InOrder' /\ Served /\ Reported /\ [Next]_vars => Served' /\ Reported'
  BY ServedStep, ReportedStep
<1>3. Spec => [](Served /\ Reported)
  BY <1>1, <1>2, Ordered, PTL DEF Spec
<1>4. InOrder /\ Served /\ Reported => EveryTargetServed
  <2> SUFFICES ASSUME InOrder, Served, Reported PROVE EveryTargetServed
    OBVIOUS
  <2>1. \A c \in Conns : Due(c) => ~Idle
    BY SendAssumption DEF InOrder, Typed, Control, Due
  <2>2. Targets
    BY TargetsTyped DEF InOrder
  <2>3. \A send \in DOMAIN sends : \A c \in sends[send].targets :
           OnTheWay(send) \/ Has(c, send) \/ peer[c] = "closed"
    BY <2>1, <2>2 DEF Served, Targets, OnTheWay
  <2> QED
    BY <2>3 DEF Reported, EveryTargetServed
<1> QED
  BY <1>3, <1>4, Ordered, PTL

-----------------------------------------------------------------------------
(***************************************************************************)
(* What is said of failures.  One that is not displayed yet waits at the   *)
(* target of the send under way; the failure of a send to one connection   *)
(* is its answer, so none has failed as long as such a send is under way.  *)
(***************************************************************************)
Said ==
    /\ \A pair \in failures : pair[1] \in DOMAIN sends
    /\ failed => <<This, at>> \in failures
    /\ ~Idle => sends[This].targets # {}
    /\ ~Idle /\ ~sends[This].broadcast => \A c \in Conns : <<This, c>> \notin failures
    /\ FailuresAreSaid

LEMMA SaidStep ==
  ASSUME Typed, Typed', [Next]_vars, Said
  PROVE  Said'
<1>a. TypeOK /\ Control /\ This \in Nat
  <2>1. sends \in Seq(SendRecords)
    BY DEF Typed, TypeOK, SendRecords
  <2> QED
    BY <2>1, LenProperties DEF Typed, This
<1>b. failures \subseteq (1..MaxSends) \X Conns
  BY <1>a DEF TypeOK
<1>1. CASE UNCHANGED <<sends, left, at, failed, failures, reported, outcome>>
  BY <1>1 DEF Said, FailuresAreSaid, Idle, This
<1>2. CASE StartsSend
  <2>1. PICK size \in Sizes, targets \in {{d} : d \in children} \cup {children}, server \in BOOLEAN :
           /\ server \/ \E c \in children : targets = {c}
           /\ sends' = Append(sends, [targets |-> targets, size |-> size, broadcast |-> server])
           /\ outcome' = IF targets = {} THEN "err" ELSE "none"
    BY <1>2 DEF StartsSend
  <2> DEFINE send == [targets |-> targets, size |-> size, broadcast |-> server]
  <2>2. send \in SendRecords
    BY DEF Typed, TypeOK, SendRecords
  <2>3. send.targets = targets /\ send.broadcast = server
    OBVIOUS
  <2> HIDE DEF send
  <2>4. /\ This' = This + 1 /\ DOMAIN sends = 1..This /\ This' \in DOMAIN sends'
        /\ \A s \in DOMAIN sends : s \in DOMAIN sends' /\ sends'[s] = sends[s]
        /\ sends'[This'] = send
    <3>1. /\ This' = This + 1 /\ DOMAIN sends = 1..This /\ DOMAIN sends' = 1..This'
          /\ \A s \in DOMAIN sends : s \in DOMAIN sends' /\ sends'[s] = sends[s]
          /\ sends'[This'] = send
      BY <2>1, <2>2, SendAppended DEF send
    <3> QED
      BY <1>a, <3>1
  <2>5. ~failed /\ UNCHANGED <<at, failed, failures, reported>>
    BY <1>2, <1>a DEF StartsSend, errorVars, Control
  <2>6. \A c \in Conns : <<This', c>> \notin failures
    <3> SUFFICES ASSUME NEW c \in Conns, <<This', c>> \in failures PROVE FALSE
      OBVIOUS
    <3>1. <<This', c>>[1] = This'
      OBVIOUS
    <3>2. This' \in DOMAIN sends
      BY <3>1 DEF Said
    <3> QED
      BY <1>a, <2>4, <3>2
  <2>7. \A pair \in failures : sends[pair[1]].broadcast => pair \in reported
    BY <2>5 DEF Said, FailuresAreSaid
  <2>8. \A pair \in failures' : pair[1] \in DOMAIN sends' /\ (sends'[pair[1]].broadcast => pair \in reported')
    BY <2>4, <2>5, <2>7 DEF Said
  <2>9. /\ ~Idle' => sends'[This'].targets # {}
        /\ Idle' <=> targets = {}
        /\ outcome' = "err" <=> targets = {}
    BY <2>1, <2>3, <2>4 DEF Idle
  <2> QED
    BY <2>3, <2>4, <2>5, <2>6, <2>8, <2>9 DEF Said, FailuresAreSaid
<1>3. CASE StartsTarget
  <2>1. ~Idle /\ ~failed /\ UNCHANGED <<sends, failed, failures, reported, outcome>>
    BY <1>3, <1>a DEF StartsTarget, errorVars, Control
  <2> QED
    BY <2>1 DEF Said, FailuresAreSaid, Idle, This
<1>4. CASE Writes
  <2>1. ~Idle /\ ~failed /\ UNCHANGED <<sends, failed, failures, reported, outcome>>
    BY <1>4, <1>a DEF Writes, WritesSome, errorVars, Control
  <2> QED
    BY <2>1 DEF Said, FailuresAreSaid, Idle, This
<1>5. CASE Fails
  <2>1. /\ ~Idle /\ ~failed /\ at \in Conns
        /\ failures' = failures \cup {<<This, at>>}
        /\ UNCHANGED <<sends, reported>>
    BY <1>5, <1>a, SendAssumption DEF Fails, WriteFails, Control, TypeOK
  <2>2. \/ sends[This].broadcast /\ failed' = TRUE /\ at' = at /\ outcome' = outcome
        \/ ~sends[This].broadcast /\ failed' = failed /\ outcome' = "err"
    BY <1>5 DEF Fails
  <2>3. This \in DOMAIN sends /\ This' = This
    BY <2>1, UnderWay DEF This
  <2>4. \A pair \in failures' : pair \in failures \/ (pair = <<This, at>> /\ pair[1] = This)
    BY <2>1
  <2>5. \A pair \in failures' : pair[1] \in DOMAIN sends'
    BY <2>1, <2>3, <2>4 DEF Said
  <2>6. \A pair \in failures : sends[pair[1]].broadcast => pair \in reported
    BY <2>1 DEF Said, FailuresAreSaid
  <2>7. \A pair \in failures' : sends'[pair[1]].broadcast =>
           pair \in reported' \/ (failed' /\ pair = <<This', at'>>)
    BY <2>1, <2>2, <2>3, <2>4, <2>6
  <2>8. CASE sends[This].broadcast
    <3>1. failed' /\ <<This', at'>> \in failures' /\ ~Idle' /\ sends'[This'].targets # {}
      BY <2>1, <2>2, <2>3, <2>8 DEF Said, Idle
    <3> QED
      BY <2>1, <2>3, <2>5, <2>7, <2>8, <3>1 DEF Said, FailuresAreSaid
  <2>9. CASE ~sends[This].broadcast
    <3>1. ~failed' /\ Idle' /\ outcome' = "err" /\ <<This', at>> \in failures' /\ ~sends'[This'].broadcast
      BY <2>1, <2>2, <2>3, <2>9 DEF Idle
    <3> QED
      BY <2>1, <2>5, <2>7, <3>1 DEF Said, FailuresAreSaid
  <2> QED
    BY <2>8, <2>9
<1>6. CASE Reports
  <2>1. /\ ~Idle /\ failed' = FALSE /\ reported' = reported \cup {<<This, at>>}
        /\ UNCHANGED <<sends, failures, outcome>>
    BY <1>6, <1>a DEF Reports, Control
  <2> QED
    BY <2>1 DEF Said, FailuresAreSaid, Idle, This
<1>7. CASE EndsSend
  <2>1. ~Idle /\ ~failed /\ outcome' = "ok" /\ UNCHANGED <<sends, failed, failures, reported>>
    BY <1>7, <1>a DEF EndsSend, errorVars, Control
  <2> QED
    BY <2>1 DEF Said, FailuresAreSaid, Idle, This
<1>8. ASSUME NEW d \in Conns, Registers(d) \/ Unregisters(d) \/ PeerReads(d) \/ PeerCloses(d)
      PROVE  UNCHANGED <<sends, left, at, failed, failures, reported, outcome>>
  BY <1>8 DEF errorVars, Registers, Unregisters, PeerReads, PeerCloses
<1>9. CASE UNCHANGED vars
  BY <1>1, <1>9 DEF vars, errorVars
<1> QED
  BY <1>1, <1>2, <1>3, <1>4, <1>5, <1>6, <1>7, <1>8, <1>9 DEF Next, SendStep

(***************************************************************************)
(* Every write of a broadcast that fails has its own ERROR line, displayed *)
(* or waiting for room, and the outcome of a send says whether it failed   *)
(* (send_bytes, handle_command).                                           *)
(***************************************************************************)
THEOREM FailureTheorem == Spec => []FailuresAreSaid
<1>1. Init => Said
  BY DEF Init, Said, FailuresAreSaid, Idle
<1>2. Spec => []Typed
  BY InitTyped, TypedStep, PTL DEF Spec
<1>3. Typed /\ Typed' /\ Said /\ [Next]_vars => Said'
  BY SaidStep
<1>4. Said => FailuresAreSaid
  BY DEF Said
<1> QED
  BY <1>1, <1>2, <1>3, <1>4, PTL DEF Spec
=============================================================================
