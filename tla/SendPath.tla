------------------------------ MODULE SendPath ------------------------------
(***************************************************************************)
(* What a send does between its command and its reply: send_bytes and      *)
(* write_to_stream (src/domain/registry.rs) against sockets that take what *)
(* they have room for and peers that read, do not read, or are gone.       *)
(*                                                                         *)
(* The registry task owns the connections, so none is registered or dropped*)
(* while a send is under way; the peers do as they like all the time.      *)
(*                                                                         *)
(* The ERROR line of a broadcast waits for room on its way to the screen.  *)
(* The REPL waits for the reply to the send, and a prompt that nobody reads*)
(* at does not empty the printer (Console): while the send is under way the*)
(* room for lines only shrinks.                                            *)
(***************************************************************************)
EXTENDS Integers, Sequences

CONSTANTS
    Conns,        \* the connections that one server may accept
    NoConn,       \* none of them
    SockCap,      \* bytes between a write and the read of the peer
    ScreenCap,    \* lines on their way to the screen: channel, display task, printer
    Sizes,        \* lengths of payloads; the parser refuses an empty one
    MaxSends      \* sends in a behaviour: bounds the model

ASSUME SendAssumption ==
    /\ NoConn \notin Conns
    /\ SockCap \in Nat \ {0} /\ ScreenCap \in Nat \ {0} /\ MaxSends \in Nat
    /\ Sizes \subseteq Nat \ {0}

VARIABLES
    children,   \* the registered connections of the server
    peer,       \* the remote end of each: absent, open, closed
    wire,       \* the bytes that the socket has taken and the peer has not read
    got,        \* the bytes that the peer has read
    sends,      \* the sends so far, with their targets
    left,       \* targets of the last send that are still to be written to
    at,         \* the target being written to, if any
    written,    \* bytes of the payload that its socket has taken
    failed,     \* the write to it has failed, and its ERROR line waits for room
    failures,   \* pairs of a send and a target whose write failed: history
    reported,   \* those for which an ERROR was displayed
    room,       \* room for lines on their way to the screen, during a send
    outcome     \* "none" while the send is under way, then "ok" or "err"

connVars == <<children, peer, got>>
errorVars == <<failed, failures, reported>>
vars == <<connVars, wire, sends, left, at, written, errorVars, room, outcome>>

Byte   == (1..MaxSends) \X Nat   \* the send it belongs to, and its place there

This    == Len(sends)
Payload == sends[This].size
Idle    == outcome # "none"

Init ==
    /\ children = {} /\ peer = [c \in Conns |-> "absent"]
    /\ wire = [c \in Conns |-> <<>>] /\ got = [c \in Conns |-> <<>>]
    /\ sends = <<>> /\ left = {} /\ at = NoConn /\ written = 0
    /\ failed = FALSE /\ failures = {} /\ reported = {}
    /\ room = ScreenCap /\ outcome = "ok"

(***************************************************************************)
(* Between sends: a connection is accepted, and one whose end was seen by  *)
(* its read task is dropped.  A peer may be gone long before that.         *)
(***************************************************************************)
Registers(c) ==
    /\ Idle /\ peer[c] = "absent"
    /\ children' = children \cup {c}
    /\ peer' = [peer EXCEPT ![c] = "open"]
    /\ UNCHANGED <<wire, got, sends, left, at, written, errorVars, room, outcome>>

\* The connections are shared, and not locked for the whole of a send.
UnregistersMeanwhile(c) ==
    /\ c \in children /\ peer[c] = "closed"
    /\ children' = children \ {c}
    /\ UNCHANGED <<peer, wire, got, sends, left, at, written, errorVars, room, outcome>>

Unregisters(c) ==
    /\ Idle /\ c \in children /\ peer[c] = "closed"
    /\ children' = children \ {c}
    /\ UNCHANGED <<peer, wire, got, sends, left, at, written, errorVars, room, outcome>>

PeerReads(c) ==
    /\ wire[c] # <<>>
    /\ got' = [got EXCEPT ![c] = Append(@, Head(wire[c]))]
    /\ wire' = [wire EXCEPT ![c] = Tail(@)]
    /\ UNCHANGED <<children, peer, sends, left, at, written, errorVars, room, outcome>>

PeerCloses(c) ==
    /\ peer[c] = "open"
    /\ peer' = [peer EXCEPT ![c] = "closed"]
    /\ wire' = [wire EXCEPT ![c] = <<>>]
    /\ UNCHANGED <<children, got, sends, left, at, written, errorVars, room, outcome>>

(***************************************************************************)
(* A send to one connection, or to the server: to all children of the      *)
(* moment, of which there must be one.  An id that is not registered is an *)
(* error, and nothing else.  The lines of what came before may be on their *)
(* way to the screen still.                                                *)
(***************************************************************************)
StartsSend ==
    /\ Idle /\ This < MaxSends
    /\ \E size \in Sizes, targets \in {{c} : c \in children} \cup {children}, server \in BOOLEAN :
          /\ server \/ \E c \in children : targets = {c}
          /\ server => targets = children
          /\ sends' = Append(sends, [targets |-> targets, size |-> size, broadcast |-> server])
          /\ left' = targets
          /\ outcome' = IF targets = {} THEN "err" ELSE "none"
    /\ room' \in 0..ScreenCap
    /\ UNCHANGED <<connVars, wire, at, written, errorVars>>

\* The children of a set come in any order.
StartsTarget ==
    /\ ~Idle /\ at = NoConn
    /\ \E c \in left : at' = c /\ left' = left \ {c}
    /\ written' = 0
    /\ UNCHANGED <<connVars, wire, sends, errorVars, room, outcome>>

(***************************************************************************)
(* write_all writes what the socket has room for until the payload is      *)
(* written.  A socket whose peer is gone takes bytes to no end for a while,*)
(* then fails.                                                             *)
(***************************************************************************)
Bytes(n) == [i \in 1..n |-> <<This, written + i>>]

WritesSome(c, n) ==
    /\ n \in 1..(Payload - written)
    /\ peer[c] = "open" => n <= SockCap - Len(wire[c])
    /\ wire' = IF peer[c] = "open" THEN [wire EXCEPT ![c] = @ \o Bytes(n)] ELSE wire
    /\ UNCHANGED <<connVars, sends, errorVars, room>>

\* write in the place of write_all.
WritesOnce ==
    /\ at # NoConn /\ ~failed
    /\ \E n \in 1..Payload : WritesSome(at, n)
    /\ written' = 0 /\ at' = NoConn
    /\ UNCHANGED <<left, outcome>>

Writes ==
    /\ at # NoConn /\ ~failed
    /\ \E n \in 1..Payload :
          /\ WritesSome(at, n)
          /\ written' = written + n
          /\ at' = IF written + n = Payload THEN NoConn ELSE at
    /\ UNCHANGED <<left, outcome>>

WriteFails ==
    /\ at # NoConn /\ ~failed /\ peer[at] = "closed"
    /\ failures' = failures \cup {<<This, at>>}
    /\ UNCHANGED <<connVars, wire, sends, written, room, reported>>

\* The first failure ends the broadcast.
FailureEndsSend ==
    /\ WriteFails
    /\ outcome' = "err" /\ left' = {} /\ at' = NoConn
    /\ UNCHANGED failed

\* The target is put back to be tried again.
FailureIsRetried ==
    /\ WriteFails
    /\ left' = left \cup {at} /\ at' = NoConn
    /\ UNCHANGED <<failed, outcome>>

\* A write that fails is the answer to a send to one connection; a broadcast
\* has to display it first.
Fails ==
    /\ WriteFails
    /\ IF sends[This].broadcast
       THEN failed' = TRUE /\ UNCHANGED <<at, outcome>>
       ELSE at' = NoConn /\ outcome' = "err" /\ UNCHANGED failed
    /\ UNCHANGED left

\* try_send in the place of send().await: a line for which there is no room is lost.
TriesToReport ==
    /\ failed
    /\ IF room > 0
       THEN room' = room - 1 /\ reported' = reported \cup {<<This, at>>}
       ELSE UNCHANGED <<room, reported>>
    /\ failed' = FALSE /\ at' = NoConn
    /\ UNCHANGED <<connVars, wire, sends, left, written, failures, outcome>>

Reports ==
    /\ failed /\ room > 0
    /\ room' = room - 1 /\ reported' = reported \cup {<<This, at>>}
    /\ failed' = FALSE /\ at' = NoConn
    /\ UNCHANGED <<connVars, wire, sends, left, written, failures, outcome>>

EndsSend ==
    /\ ~Idle /\ at = NoConn /\ left = {}
    /\ outcome' = "ok"
    /\ UNCHANGED <<connVars, wire, sends, left, at, written, errorVars, room>>

SendStep == StartsTarget \/ Writes \/ Fails \/ Reports \/ EndsSend

Next ==
    \/ StartsSend \/ SendStep
    \/ \E c \in Conns : Registers(c) \/ Unregisters(c) \/ PeerReads(c) \/ PeerCloses(c)

Spec == Init /\ [][Next]_vars

\* The registry task goes on whenever it can; peers need not.
FairSpec == Spec /\ WF_vars(SendStep)

-----------------------------------------------------------------------------
(***************************************************************************)
(* Every variable holds a value of its type.                               *)
(***************************************************************************)
TypeOK ==
    /\ children \subseteq Conns
    /\ peer \in [Conns -> {"absent", "open", "closed"}]
    /\ wire \in [Conns -> Seq(Byte)] /\ got \in [Conns -> Seq(Byte)]
    /\ \A c \in Conns : Len(wire[c]) <= SockCap
    /\ sends \in Seq([targets : SUBSET Conns, size : Sizes, broadcast : BOOLEAN])
    /\ left \subseteq children
    /\ at \in children \cup {NoConn}
    /\ written \in Nat
    /\ failed \in BOOLEAN /\ failed => at # NoConn
    /\ failures \subseteq (1..MaxSends) \X Conns
    /\ reported \subseteq (1..MaxSends) \X Conns
    /\ room \in 0..ScreenCap
    /\ outcome \in {"none", "ok", "err"}

\* What the sockets of c have taken since it was opened.
Taken(c)        == got[c] \o wire[c]
Has(c, send)    == \E i \in DOMAIN Taken(c) : Taken(c)[i] = <<send, sends[send].size>>
OnTheWay(send)  == send = This /\ ~Idle

(***************************************************************************)
(* A peer reads whole payloads, one after the other in the order of the    *)
(* sends, and only those that were meant for it: what its socket has taken *)
(* is never a piece of one payload followed by another (write_to_stream).  *)
(***************************************************************************)
WholePayloadsInOrder ==
    \A c \in Conns : \A i \in DOMAIN Taken(c) :
        LET byte == Taken(c)[i]
        IN  /\ c \in sends[byte[1]].targets
            /\ \/ i > 1 /\ byte[2] = Taken(c)[i - 1][2] + 1 /\ byte[1] = Taken(c)[i - 1][1]
               \/ /\ byte[2] = 1
                  /\ i > 1 => /\ byte[1] > Taken(c)[i - 1][1]
                              /\ Taken(c)[i - 1][2] = sends[Taken(c)[i - 1][1]].size

(***************************************************************************)
(* When a broadcast is answered, every child it was for has taken the      *)
(* payload, except those whose peer is gone, and so has the target of a    *)
(* send to one connection; an ERROR is displayed only for a child whose    *)
(* peer is gone and that the payload did not reach (send_bytes).           *)
(***************************************************************************)
EveryTargetServed ==
    /\ \A send \in DOMAIN sends : \A c \in sends[send].targets :
          OnTheWay(send) \/ Has(c, send) \/ peer[c] = "closed"
    /\ \A pair \in reported :
          /\ peer[pair[2]] = "closed"
          /\ pair[2] \in sends[pair[1]].targets /\ sends[pair[1]].broadcast
          /\ ~Has(pair[2], pair[1])

(***************************************************************************)
(* "Each individual failure is reported": no write of a broadcast fails    *)
(* without an ERROR line of its own, displayed or waiting for room; and a  *)
(* send is answered ERR when the one write it consists of has failed, or   *)
(* when there was nobody to write to, and OK otherwise (send_bytes,        *)
(* handle_command).                                                        *)
(***************************************************************************)
FailuresAreSaid ==
    /\ \A pair \in failures :
          sends[pair[1]].broadcast => pair \in reported \/ (failed /\ pair = <<This, at>>)
    /\ Idle /\ sends # <<>> =>
          (outcome = "err" <=>
              \/ sends[This].targets = {}
              \/ ~sends[This].broadcast /\ \E c \in Conns : <<This, c>> \in failures)

(***************************************************************************)
(* As long as every peer empties its socket again and again, or closes it, *)
(* every send is answered, or it is stuck with the ERROR line of a child   *)
(* for which there is no room (send_bytes).  A peer that does neither may  *)
(* hold the registry task for ever.                                        *)
(***************************************************************************)
PeersKeepReading == \A c \in Conns : []<>(wire[c] = <<>>)

SendsAnswered == PeersKeepReading => (~Idle ~> Idle \/ (failed /\ room = 0))

(***************************************************************************)
(* "If one child write fails, the others still proceed" (send_bytes): after*)
(* a failed write the turn of each of the others comes.  The code does not *)
(* keep this, whatever the peers read: it waits for room for the ERROR line*)
(* of the one that failed, and the prompt, which alone makes room, waits   *)
(* for the reply to the broadcast.                                         *)
(***************************************************************************)
OthersProceed ==
    PeersKeepReading =>
        \A c \in Conns : (failed /\ c \in left) ~> (c \notin left \/ peer[c] = "closed")
=============================================================================
