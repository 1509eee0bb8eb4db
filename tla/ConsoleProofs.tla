---------------------------- MODULE ConsoleProofs ----------------------------
(***************************************************************************)
(* Theorems about the console, for every capacity of the three buffers.    *)
(***************************************************************************)
EXTENDS ConsoleProperties, SequenceTheorems, TLAPS

(***************************************************************************)
(* What the proofs below need of main: once it drops the runtime, the      *)
(* registry task is gone, and that stays so.                               *)
(***************************************************************************)
MainGoesLast == main \in {"dropping", "exited"} => Gone

LEMMA MainStepsLast ==
    MainGoesLast /\ [Next]_vars => MainGoesLast'
<1> SUFFICES ASSUME MainGoesLast, [Next]_vars PROVE MainGoesLast'
  OBVIOUS
<1> USE DEF MainGoesLast, Gone
<1>1. CASE UNCHANGED vars
  BY <1>1 DEF vars, registryVars
<1>2. CASE RegistryStep
  BY <1>2 DEF RegistryStep, TakesMessage, ShowsLine, EndsHandler, ShutsDown, Panics, Takes
<1>3. CASE DisplayStep \/ PrinterShows \/ ReplStep
  BY <1>3 DEF DisplayStep, TakesLine, Prints, PrinterShows, ReplStep, ReplPosts,
              ReplShows, ReplyDropped, ReplAborted, registryVars
<1>4. CASE MainStep
  BY <1>4 DEF MainStep, MainPasses, MainAwaits, MainExits, registryVars
<1>5. CASE Outside
  BY <1>5 DEF Outside, NewsArrives, PeerAnswers, PrintFails, UserEnters, Signal, registryVars
<1> QED
  BY <1>1, <1>2, <1>3, <1>4, <1>5 DEF Next, Internal

-----------------------------------------------------------------------------
(***************************************************************************)
(* The commands in a queue, and what the ends of the queue do to them.     *)
(***************************************************************************)
Commands(q) == {i \in DOMAIN q : q[i] = "Command"}
AtMostOne(S) == \A i, j \in S : i = j

LEMMA NewsAddsNoCommand ==
    ASSUME NEW q \in Seq(MessageKinds), NEW kind \in MessageKinds \ {"Command"}
    PROVE  /\ Append(q, kind) \in Seq(MessageKinds)
           /\ Commands(Append(q, kind)) = Commands(q)
BY DEF Commands

LEMMA FirstCommand ==
    ASSUME NEW q \in Seq(MessageKinds), Commands(q) = {}
    PROVE  /\ Append(q, "Command") \in Seq(MessageKinds)
           /\ AtMostOne(Commands(Append(q, "Command")))
BY DEF Commands, AtMostOne, MessageKinds

LEMMA HeadLeaves ==
    ASSUME NEW q \in Seq(MessageKinds), q # <<>>, AtMostOne(Commands(q))
    PROVE  /\ Tail(q) \in Seq(MessageKinds)
           /\ AtMostOne(Commands(Tail(q)))
           /\ Head(q) = "Command" => Commands(q) # {} /\ Commands(Tail(q)) = {}
           /\ Commands(Tail(q)) # {} => Commands(q) # {}
<1> DEFINE t == Tail(q)
<1>1. t \in Seq(MessageKinds) /\ Len(t) = Len(q) - 1 /\ \A i \in 1..Len(t) : t[i] = q[i + 1]
  OBVIOUS
<1>2. Head(q) = q[1] /\ 1 \in DOMAIN q /\ Len(q) \in Nat
  OBVIOUS
<1>3. \A i \in Commands(t) : i \in Nat /\ i > 0 /\ i + 1 \in Commands(q)
  BY <1>1, <1>2 DEF Commands
<1>4. AtMostOne(Commands(t))
  BY <1>3 DEF AtMostOne
<1>5. ASSUME Head(q) = "Command" PROVE Commands(q) # {} /\ Commands(t) = {}
  <2>1. 1 \in Commands(q)
    BY <1>2, <1>5 DEF Commands
  <2> QED
    BY <1>3, <2>1 DEF AtMostOne
<1>6. Commands(t) # {} => Commands(q) # {}
  BY <1>3
<1> QED
  BY <1>1, <1>4, <1>5, <1>6

(***************************************************************************)
(* OneCommandAtATime is not inductive: the REPL may stop waiting when the  *)
(* registry task is gone, which is harmless because nothing is left in the *)
(* inbox then.                                                             *)
(***************************************************************************)
InboxTyped == inbox \in Seq(MessageKinds)

OneCommandInv ==
    /\ InboxTyped
    /\ MainGoesLast
    /\ Gone => inbox = <<>>
    /\ AtMostOne(Commands(inbox))
    /\ InService => Commands(inbox) = {}
    /\ InService \/ Commands(inbox) # {} => repl = "waiting"

LEMMA OneCommandStep ==
    OneCommandInv /\ [Next]_vars => OneCommandInv'
<1> SUFFICES ASSUME OneCommandInv, [Next]_vars PROVE OneCommandInv'
  OBVIOUS
<1>t. MainGoesLast'
  BY MainStepsLast DEF OneCommandInv
<1> USE DEF OneCommandInv, InboxTyped, InService, Gone
<1>0. Commands(<<>>) = {} /\ AtMostOne(Commands(<<>>))
  BY DEF Commands, AtMostOne
<1>1. CASE UNCHANGED vars
  BY <1>1, <1>t DEF vars, registryVars
<1>2. CASE TakesMessage
  <2>1. PICK kind \in MessageKinds \ {"Shutdown"} : Takes(kind) /\ serves' = kind
    BY <1>2 DEF TakesMessage
  <2>2. inbox # <<>> /\ Head(inbox) = kind /\ registry = "idle"
    BY <2>1 DEF Takes
  <2>3. registry' = "busy" /\ inbox' = Tail(inbox) /\ repl' = repl
    BY <1>2 DEF TakesMessage
  <2>4. /\ inbox' \in Seq(MessageKinds) /\ AtMostOne(Commands(inbox'))
        /\ kind = "Command" => Commands(inbox) # {} /\ Commands(inbox') = {}
        /\ Commands(inbox') # {} => Commands(inbox) # {}
    BY <2>2, <2>3, HeadLeaves
  <2>5. ~Gone' /\ (InService' <=> kind = "Command")
    BY <2>1, <2>3
  <2>6. ~InService
    BY <2>2
  <2>7. InService' \/ Commands(inbox') # {} => repl' = "waiting"
    BY <2>3, <2>4, <2>5, <2>6
  <2>8. InService' => Commands(inbox') = {}
    BY <2>4, <2>5
  <2> HIDE DEF InService, Gone
  <2> QED
    BY <1>t, <2>4, <2>5, <2>7, <2>8
<1>3. CASE ShowsLine
  BY <1>3, <1>t DEF ShowsLine
<1>4. CASE EndsHandler
  BY <1>4, <1>t DEF EndsHandler
<1>5. CASE ShutsDown \/ Panics
  <2>a. inbox' = <<>>
    BY <1>5 DEF ShutsDown, Panics
  <2>1. inbox' = <<>> /\ inbox' \in Seq(MessageKinds)
    BY <2>a
  <2>2. ~InService'
    BY <1>5 DEF ShutsDown, Panics
  <2>3. Commands(inbox') = {} /\ AtMostOne(Commands(inbox'))
    BY <1>0, <2>1
  <2> HIDE DEF InService, Gone
  <2> QED
    BY <1>t, <2>1, <2>2, <2>3
<1>6. CASE ReplPosts
  <2> registry' = registry /\ serves' = serves
    BY <1>6 DEF ReplPosts, registryVars
  <2>1. Commands(inbox) = {} /\ ~InService
    BY <1>6 DEF ReplPosts
  <2>2. CASE repl = "sending" /\ ~Gone
    <3>1. inbox' = Append(inbox, "Command") /\ repl' = "waiting"
      BY <1>6, <2>2 DEF ReplPosts, Post
    <3> QED
      BY <1>t, <2>1, <2>2, <3>1, FirstCommand
  <2>3. CASE repl = "quitting" /\ ~Gone
    <3>1. inbox' = Append(inbox, "Shutdown") /\ "Shutdown" \in MessageKinds \ {"Command"}
      BY <1>6, <2>3 DEF ReplPosts, Post, MessageKinds
    <3> QED
      BY <1>t, <2>1, <2>3, <3>1, NewsAddsNoCommand
  <2>4. CASE Gone
    <3>1. inbox' = inbox
      BY <1>6, <2>4 DEF ReplPosts, Post
    <3> QED
      BY <1>t, <2>1, <2>4, <3>1
  <2> QED
    BY <1>6, <2>2, <2>3, <2>4 DEF ReplPosts
<1>7. CASE ReplShows
  BY <1>7, <1>t DEF ReplShows, registryVars
<1>8. CASE ReplyDropped \/ ReplAborted
  BY <1>8, <1>t, <1>0 DEF ReplyDropped, ReplAborted, registryVars, MainGoesLast
<1>9. CASE NewsArrives
  <2> registry' = registry /\ serves' = serves /\ repl' = repl /\ ~Gone
    BY <1>9 DEF NewsArrives, registryVars
  <2>1. PICK kind \in {"Event", "Accepted"} : inbox' = Append(inbox, kind)
    BY <1>9 DEF NewsArrives, Post
  <2>2. inbox' \in Seq(MessageKinds) /\ Commands(inbox') = Commands(inbox)
    BY <2>1, NewsAddsNoCommand DEF MessageKinds
  <2> QED
    BY <1>t, <2>2
<1>10. CASE MainPasses
  <2> registry' = registry /\ serves' = serves /\ repl' = repl
    BY <1>10 DEF MainPasses, registryVars
  <2>1. CASE Gone
    BY <1>10, <1>t, <2>1 DEF MainPasses, Post
  <2>2. CASE ~Gone
    <3>1. inbox' = Append(inbox, "Shutdown") /\ "Shutdown" \in MessageKinds \ {"Command"}
      BY <1>10, <2>2 DEF MainPasses, Post, MessageKinds
    <3> QED
      BY <1>t, <2>2, <3>1, NewsAddsNoCommand
  <2> QED
    BY <2>1, <2>2
<1>11. CASE MainAwaits \/ MainExits \/ Signal
  BY <1>11, <1>t DEF MainAwaits, MainExits, Signal, registryVars
<1>12. CASE DisplayStep \/ PrinterShows \/ PrintFails
  BY <1>12, <1>t DEF DisplayStep, TakesLine, Prints, PrinterShows, PrintFails, registryVars
<1>13. CASE PeerAnswers \/ UserEnters
  BY <1>13, <1>t DEF PeerAnswers, UserEnters, registryVars
<1> QED
  BY <1>1, <1>2, <1>3, <1>4, <1>5, <1>6, <1>7, <1>8, <1>9, <1>10, <1>11, <1>12, <1>13
     DEF Next, Internal, Outside, RegistryStep, ReplStep, MainStep

(***************************************************************************)
(* A reply answers the command that the REPL waits for: at most one command*)
(* is in the inbox or with the registry task (spawn_repl, run_registry).   *)
(***************************************************************************)
THEOREM OneCommandTheorem == Spec => []OneCommandAtATime
<1>1. Init => OneCommandInv
  BY DEF Init, OneCommandInv, InboxTyped, MainGoesLast, Gone, InService, Commands, AtMostOne
<1>2. OneCommandInv => OneCommandAtATime
  BY DEF OneCommandInv, OneCommandAtATime, AtMostOne, Commands
<1> QED
  BY <1>1, <1>2, OneCommandStep, PTL DEF Spec

-----------------------------------------------------------------------------
(***************************************************************************)
(* Types.                                                                  *)
(***************************************************************************)
LEMMA CapsTyped ==
  /\ InboxCap \in Nat \ {0} /\ DisplayCap \in Nat \ {0} /\ PrinterCap \in Nat \ {0}
  BY ConsoleAssumption

LEMMA HandlersTyped ==
  ASSUME NEW kind \in MessageKinds \ {"Shutdown"}, NEW waits \in HandlersOf(kind)
  PROVE  waits \in Seq(Waits)
<1>1. <<>> \in Seq(Waits)
  OBVIOUS
<1>2. \A w \in Waits : <<w>> \in Seq(Waits)
  OBVIOUS
<1>3. \A v, w \in Waits : <<v, w>> \in Seq(Waits)
  OBVIOUS
<1>4. "line" \in Waits /\ "connect" \in Waits /\ "write" \in Waits /\ "child" \in Waits
  BY DEF Waits
<1>5. \/ waits = <<>> \/ waits = <<"line">> \/ waits = <<"connect", "line">>
      \/ waits = <<"write">> \/ waits = <<"child", "child">> \/ waits = <<"line", "line">>
  BY DEF HandlersOf, MessageKinds
<1> QED
  BY <1>1, <1>2, <1>3, <1>4, <1>5

LEMMA AppendTyped ==
  ASSUME NEW S, NEW q \in Seq(S), NEW e \in S
  PROVE  Append(q, e) \in Seq(S) /\ Len(Append(q, e)) = Len(q) + 1 /\ Len(q) \in Nat
  OBVIOUS

LEMMA PostTyped ==
  ASSUME TypeOK, NEW kind \in MessageKinds, Post(kind)
  PROVE  inbox' \in Seq(MessageKinds) /\ Len(inbox') <= InboxCap
<1>1. /\ inbox \in Seq(MessageKinds) /\ Len(inbox) <= InboxCap
      /\ inbox' = inbox \/ (inbox' = Append(inbox, kind) /\ Len(inbox) < InboxCap)
  BY DEF Post, TypeOK
<1>2. /\ Append(inbox, kind) \in Seq(MessageKinds) /\ Len(inbox) \in Nat
      /\ Len(Append(inbox, kind)) = Len(inbox) + 1
  BY <1>1, AppendTyped
<1> QED
  BY <1>1, <1>2, CapsTyped

LEMMA ShowTyped ==
  ASSUME TypeOK, NEW kind \in LineKinds, Show(kind)
  PROVE  /\ display' \in Seq(LineKinds) /\ Len(display') <= DisplayCap
         /\ UNCHANGED <<hand, displayTask, printer>>
<1>1. /\ display \in Seq(LineKinds) /\ Len(display) <= DisplayCap
      /\ display' = display \/ (display' = Append(display, kind) /\ Len(display) < DisplayCap)
      /\ UNCHANGED <<hand, displayTask, printer>>
  BY DEF Show, TypeOK
<1>2. /\ Append(display, kind) \in Seq(LineKinds) /\ Len(display) \in Nat
      /\ Len(Append(display, kind)) = Len(display) + 1
  BY <1>1, AppendTyped
<1> QED
  BY <1>1, <1>2, CapsTyped

LEMMA RegistryStepTyped ==
  ASSUME TypeOK, RegistryStep
  PROVE  TypeOK'
<1> USE DEF TypeOK, screenVars
<1>1. CASE TakesMessage
  <2>1. PICK kind \in MessageKinds \ {"Shutdown"} :
           Takes(kind) /\ serves' = kind /\ todo' \in HandlersOf(kind)
    BY <1>1 DEF TakesMessage
  <2>2. todo' \in Seq(Waits) /\ serves' \in MessageKinds
    BY <2>1, HandlersTyped
  <2>3. inbox # <<>> /\ inbox' = Tail(inbox)
    BY <1>1, <2>1 DEF TakesMessage, Takes
  <2>4. inbox' \in Seq(MessageKinds) /\ Len(inbox') <= InboxCap
    BY <2>3, CapsTyped
  <2> QED
    BY <1>1, <2>2, <2>4 DEF TakesMessage
<1>2. CASE ShowsLine
  <2>1. PICK kind \in LineKinds : Show(kind)
    BY <1>2 DEF ShowsLine, LineKinds
  <2>2. todo' \in Seq(Waits)
    BY <1>2 DEF ShowsLine
  <2> QED
    BY <1>2, <2>1, <2>2, ShowTyped DEF ShowsLine
<1>3. CASE EndsHandler
  BY <1>3 DEF EndsHandler, ReplStates
<1>4. CASE ShutsDown \/ Panics
  <2>1. /\ inbox' = <<>> /\ <<>> \in Seq(MessageKinds) /\ Len(<<>>) = 0
        /\ inbox' \in Seq(MessageKinds) /\ Len(inbox') = 0
    <3>1. inbox' = <<>>
      BY <1>4 DEF ShutsDown, Panics
    <3>2. <<>> \in Seq(MessageKinds) /\ Len(<<>>) = 0
      OBVIOUS
    <3> QED
      BY <3>1, <3>2
  <2>2. registry' \in {"ended", "panicked"} /\ main' \in MainStates
    BY <1>4 DEF ShutsDown, Panics, MainStates
  <2> QED
    BY <1>4, <2>1, <2>2, CapsTyped DEF ShutsDown, Panics
<1> QED
  BY <1>1, <1>2, <1>3, <1>4 DEF RegistryStep

LEMMA ScreenTyped ==
  ASSUME TypeOK, DisplayStep \/ PrinterShows \/ PrintFails
  PROVE  TypeOK'
<1> USE DEF TypeOK, registryVars
<1>1. CASE TakesLine
  <2>1. /\ display' \in Seq(LineKinds) /\ Len(display') <= DisplayCap
        /\ Head(display) \in LineKinds
    BY <1>1, CapsTyped DEF TakesLine
  <2> QED
    BY <1>1, <2>1 DEF TakesLine
<1>2. CASE Prints
  <2>1. PICK kind \in LineKinds : hand = <<kind>>
    BY <1>2 DEF Prints
  <2>2. printer' \in Seq(LineKinds) /\ Len(printer') <= PrinterCap
    BY <1>2, <2>1, CapsTyped DEF Prints
  <2> QED
    BY <1>2, <2>2 DEF Prints
<1>3. CASE PrinterShows
  <2>1. printer' = <<>> /\ printer' \in Seq(LineKinds) /\ Len(printer') = 0
    BY <1>3 DEF PrinterShows
  <2> QED
    BY <1>3, <2>1, CapsTyped DEF PrinterShows
<1>4. CASE PrintFails
  <2>1. display' = <<>> /\ display' \in Seq(LineKinds) /\ Len(display') = 0
    BY <1>4 DEF PrintFails
  <2> QED
    BY <1>4, <2>1, CapsTyped DEF PrintFails
<1> QED
  BY <1>1, <1>2, <1>3, <1>4 DEF DisplayStep

LEMMA ReplTyped ==
  ASSUME TypeOK, ReplStep \/ UserEnters
  PROVE  TypeOK'
<1> USE DEF TypeOK, registryVars, screenVars, ReplStates
<1>1. CASE ReplPosts
  <2>1. PICK kind \in MessageKinds : Post(kind)
    BY <1>1 DEF ReplPosts, MessageKinds
  <2>2. repl' \in ReplStates
    BY <1>1 DEF ReplPosts
  <2> QED
    BY <1>1, <2>1, <2>2, PostTyped DEF ReplPosts
<1>2. CASE ReplShows
  <2>1. PICK kind \in LineKinds : Show(kind)
    BY <1>2 DEF ReplShows, LineKinds
  <2> QED
    BY <1>2, <2>1, ShowTyped DEF ReplShows
<1>3. CASE ReplyDropped \/ ReplAborted \/ UserEnters
  BY <1>3 DEF ReplyDropped, ReplAborted, UserEnters
<1> QED
  BY <1>1, <1>2, <1>3 DEF ReplStep

LEMMA OthersTyped ==
  ASSUME TypeOK, MainStep \/ NewsArrives \/ PeerAnswers \/ Signal
  PROVE  TypeOK'
<1> USE DEF TypeOK, registryVars, screenVars
<1>1. CASE MainPasses
  <2>1. "Shutdown" \in MessageKinds /\ Post("Shutdown") /\ main' \in MainStates
    BY <1>1 DEF MainPasses, MessageKinds, MainStates
  <2> QED
    BY <1>1, <2>1, PostTyped DEF MainPasses
<1>2. CASE MainAwaits \/ MainExits \/ Signal
  BY <1>2 DEF MainAwaits, MainExits, Signal, MainStates
<1>3. CASE NewsArrives
  <2>1. PICK kind \in MessageKinds : Post(kind)
    BY <1>3 DEF NewsArrives, MessageKinds
  <2> QED
    BY <1>3, <2>1, PostTyped DEF NewsArrives
<1>4. CASE PeerAnswers
  <2>1. todo # <<>>
    BY <1>4 DEF PeerAnswers, WaitsForPeer
  <2>2. Tail(todo) \in Seq(Waits) /\ <<>> \in Seq(Waits) /\ <<"line">> \in Seq(Waits)
    BY <2>1 DEF Waits
  <2>3. <<"line">> \o Tail(todo) \in Seq(Waits)
    BY <2>2
  <2>4. todo' \in Seq(Waits)
    BY <1>4, <2>2, <2>3 DEF PeerAnswers
  <2> QED
    BY <1>4, <2>4 DEF PeerAnswers
<1> QED
  BY <1>1, <1>2, <1>3, <1>4 DEF MainStep

(***************************************************************************)
(* Every variable holds a value of its type: no buffer holds more than its *)
(* channel has room for, whoever sends to it and whoever reads.            *)
(***************************************************************************)
THEOREM TypeTheorem == Spec => []TypeOK
<1>1. Init => TypeOK
  BY CapsTyped DEF Init, TypeOK, MessageKinds, ReplStates, MainStates
<1>2. TypeOK /\ [Next]_vars => TypeOK'
  <2> SUFFICES ASSUME TypeOK, [Next]_vars PROVE TypeOK'
    OBVIOUS
  <2>1. CASE UNCHANGED vars
    BY <2>1 DEF vars, registryVars, screenVars, TypeOK
  <2> QED
    BY <2>1, RegistryStepTyped, ScreenTyped, ReplTyped, OthersTyped DEF Next, Internal, Outside
<1> QED
  BY <1>1, <1>2, PTL DEF Spec

-----------------------------------------------------------------------------
(***************************************************************************)
(* The lines on their way to the screen, taken as one queue: a step of a   *)
(* task appends a line to it, moves lines within it, or shows the oldest.  *)
(***************************************************************************)
LEMMA PendingTyped ==
  ASSUME TypeOK
  PROVE  /\ printer \in Seq(LineKinds) /\ hand \in Seq(LineKinds) /\ display \in Seq(LineKinds)
         /\ printer \o hand \in Seq(LineKinds)
         /\ Pending \in Seq(LineKinds) /\ Len(Pending) \in Nat
         /\ DOMAIN Pending = 1..Len(Pending)
<1>1. printer \in Seq(LineKinds) /\ hand \in Seq(LineKinds) /\ display \in Seq(LineKinds)
  <2>1. <<>> \in Seq(LineKinds) /\ \A kind \in LineKinds : <<kind>> \in Seq(LineKinds)
    OBVIOUS
  <2>2. hand = <<>> \/ \E kind \in LineKinds : hand = <<kind>>
    BY DEF TypeOK
  <2>3. hand \in Seq(LineKinds)
    BY <2>1, <2>2
  <2> QED
    BY <2>3 DEF TypeOK
<1>2. printer \o hand \in Seq(LineKinds)
  BY <1>1, ConcatProperties
<1>3. Pending \in Seq(LineKinds)
  BY <1>1, <1>2, ConcatProperties DEF Pending
<1> QED
  BY <1>1, <1>2, <1>3, LenProperties

Appends(kind) == Pending' = Append(Pending, kind)

Shown == \E shown \in 0..Len(Pending) : Pending' = SubSeq(Pending, shown + 1, Len(Pending))

LEMMA ShowAppends ==
  ASSUME TypeOK, NEW kind \in LineKinds, Show(kind)
  PROVE  /\ displayTask' = displayTask
         /\ \/ displayTask = "running" /\ Appends(kind)
            \/ displayTask = "ended" /\ Pending' = Pending
<1>1. displayTask' = displayTask /\ hand' = hand /\ printer' = printer
  BY DEF Show
<1>2. CASE displayTask = "ended" /\ UNCHANGED display
  BY <1>1, <1>2 DEF Pending
<1>3. CASE displayTask = "running" /\ display' = Append(display, kind)
  <2>1. display' = display \o <<kind>> /\ <<kind>> \in Seq(LineKinds)
    BY <1>3, PendingTyped, AppendIsConcat
  <2>2. (printer \o hand) \o (display \o <<kind>>) = ((printer \o hand) \o display) \o <<kind>>
    BY SMTT(60), <2>1, PendingTyped, ConcatAssociative
  <2>3. Append(Pending, kind) = Pending \o <<kind>>
    BY PendingTyped, AppendIsConcat
  <2> QED
    BY <1>1, <1>3, <2>1, <2>2, <2>3 DEF Pending, Appends
<1> QED
  BY <1>2, <1>3 DEF Show

LEMMA DisplayKeeps ==
  ASSUME TypeOK, DisplayStep
  PROVE  Pending' = Pending /\ displayTask' = displayTask
<1>1. CASE TakesLine
  <2>1. /\ hand = <<>> /\ display # <<>> /\ hand' = <<Head(display)>> /\ display' = Tail(display)
        /\ printer' = printer /\ displayTask' = displayTask
    BY <1>1 DEF TakesLine
  <2>2. <<Head(display)>> \in Seq(LineKinds) /\ Tail(display) \in Seq(LineKinds)
    BY <2>1, PendingTyped, HeadTailProperties
  <2>3. <<Head(display)>> \o Tail(display) = display
    <3>1. Len(display) \in Nat \ {0} /\ Tail(display) = SubSeq(display, 2, Len(display))
          /\ display[1] = Head(display)
      BY <2>1, PendingTyped, TailIsSubSeq, EmptySeq
    <3>2. SubSeq(display, 1, Len(display)) = <<display[1]>> \o SubSeq(display, 1 + 1, Len(display))
      <4>1. 1 \in 1..Len(display) /\ Len(display) \in 1..Len(display)
        BY <3>1
      <4> QED
        BY <4>1, PendingTyped, SubSeqRecursiveFirst
    <3>3. SubSeq(display, 1, Len(display)) = display
      BY PendingTyped, SubSeqFull
    <3> QED
      BY <3>1, <3>2, <3>3
  <2>4. (printer \o <<Head(display)>>) \o Tail(display) = printer \o display
    BY <2>2, <2>3, PendingTyped, ConcatAssociative
  <2>5. printer \o <<>> = printer
    BY PendingTyped, ConcatEmptySeq
  <2> QED
    BY SMTT(60), <2>1, <2>4, <2>5 DEF Pending
<1>2. CASE Prints
  <2>1. /\ printer' = printer \o hand /\ hand' = <<>> /\ display' = display
        /\ displayTask' = displayTask
    BY <1>2 DEF Prints
  <2>2. (printer \o hand) \o <<>> = printer \o hand
    BY PendingTyped, ConcatEmptySeq
  <2> QED
    BY <2>1, <2>2 DEF Pending
<1> QED
  BY <1>1, <1>2 DEF DisplayStep

LEMMA PrinterShowsOldest ==
  ASSUME TypeOK, PrinterShows
  PROVE  Shown /\ repl = "reading" /\ displayTask' = displayTask
<1> DEFINE rest == hand \o display
           n    == Len(printer)
<1>1. printer' = <<>> /\ hand' = hand /\ display' = display /\ repl = "reading"
      /\ displayTask' = displayTask
  BY DEF PrinterShows
<1>2. rest \in Seq(LineKinds) /\ Len(rest) \in Nat /\ n \in Nat
  BY PendingTyped, ConcatProperties, LenProperties
<1>3. Pending = printer \o rest
  BY SMTT(60), PendingTyped, ConcatAssociative DEF Pending
<1>4. Pending' = rest
  <2>1. <<>> \o hand = hand
    BY PendingTyped, ConcatEmptySeq
  <2> QED
    BY <1>1, <2>1 DEF Pending
<1> HIDE DEF rest
<1>5. /\ Len(Pending) = n + Len(rest)
      /\ \A i \in 1..(n + Len(rest)) : Pending[i] = IF i <= n THEN printer[i] ELSE rest[i - n]
  BY <1>2, <1>3, PendingTyped, ConcatProperties
<1> DEFINE tail == SubSeq(Pending, n + 1, Len(Pending))
<1>6. /\ tail \in Seq(LineKinds)
      /\ Len(tail) = IF n + 1 <= Len(Pending) THEN Len(Pending) - (n + 1) + 1 ELSE 0
      /\ \A i \in 1..(Len(Pending) - (n + 1) + 1) : tail[i] = Pending[(n + 1) + i - 1]
  <2>1. \A i \in (n + 1)..Len(Pending) : Pending[i] \in LineKinds
    BY <1>2, PendingTyped, ElementOfSeq
  <2>2. n + 1 \in Int /\ Len(Pending) \in Int
    BY <1>2, PendingTyped
  <2> QED
    BY <2>1, <2>2, SubSeqProperties
<1> HIDE DEF tail
<1>7. Len(tail) = Len(rest) /\ \A i \in 1..Len(tail) : tail[i] = rest[i]
  <2>1. Len(tail) = Len(rest) /\ Len(Pending) - (n + 1) + 1 = Len(rest)
    BY <1>2, <1>5, <1>6
  <2>2. ASSUME NEW i \in 1..Len(rest) PROVE tail[i] = rest[i]
    <3>1. tail[i] = Pending[n + i]
      BY <1>2, <1>6, <2>1
    <3>2. n + i \in 1..(n + Len(rest)) /\ ~(n + i <= n) /\ (n + i) - n = i
      BY <1>2
    <3> QED
      BY <1>5, <3>1, <3>2
  <2> QED
    BY <2>1, <2>2
<1>8. tail = rest
  BY <1>2, <1>6, <1>7, SeqEqual
<1>9. n \in 0..Len(Pending)
  BY <1>2, <1>5
<1> QED
  BY <1>1, <1>4, <1>8, <1>9 DEF Shown, tail

(***************************************************************************)
(* Echoes and the outcome that follows them.                               *)
(***************************************************************************)
Followed(q) ==
    \A i \in DOMAIN q : q[i] = "echo" => \E j \in i..Len(q) : q[j] = "outcome"

LEMMA FollowedAppend ==
  ASSUME NEW q \in Seq(LineKinds), NEW kind \in LineKinds,
         kind = "outcome" \/ (kind # "echo" /\ Followed(q))
  PROVE  Followed(Append(q, kind))
<1> DEFINE q2 == Append(q, kind)
<1>1. /\ Len(q) \in Nat /\ Len(q2) = Len(q) + 1 /\ DOMAIN q2 = 1..Len(q) + 1 /\ DOMAIN q = 1..Len(q)
      /\ \A i \in 1..Len(q) : q2[i] = q[i]
      /\ q2[Len(q) + 1] = kind
  BY AppendProperties, LenProperties
<1> HIDE DEF q2
<1>2. CASE kind = "outcome"
  <2>1. \A i \in DOMAIN q2 : Len(q) + 1 \in i..Len(q2)
    BY <1>1
  <2> QED
    BY <1>1, <1>2, <2>1 DEF Followed, q2
<1>3. CASE kind # "echo" /\ Followed(q)
  <2>1. ASSUME NEW i \in DOMAIN q2, q2[i] = "echo"
        PROVE  \E j \in i..Len(q2) : q2[j] = "outcome"
    <3>1. i \in DOMAIN q /\ q[i] = "echo"
      BY <1>1, <1>3, <2>1
    <3>2. PICK j \in i..Len(q) : q[j] = "outcome"
      BY <1>3, <3>1 DEF Followed
    <3>3. j \in i..Len(q2) /\ q2[j] = q[j]
      BY <1>1, <3>1
    <3> QED
      BY <3>2, <3>3
  <2> QED
    BY <2>1 DEF Followed, q2
<1> QED
  BY <1>2, <1>3

LEMMA FollowedRest ==
  ASSUME NEW q \in Seq(LineKinds), Followed(q), NEW n \in 0..Len(q)
  PROVE  Followed(SubSeq(q, n + 1, Len(q)))
<1> DEFINE rest == SubSeq(q, n + 1, Len(q))
<1>1. Len(q) \in Nat /\ DOMAIN q = 1..Len(q) /\ n \in Nat
  BY LenProperties
<1>2. /\ rest \in Seq(LineKinds)
      /\ Len(rest) = IF n + 1 <= Len(q) THEN Len(q) - (n + 1) + 1 ELSE 0
      /\ \A i \in 1..(Len(q) - (n + 1) + 1) : rest[i] = q[(n + 1) + i - 1]
  <2>1. \A i \in (n + 1)..Len(q) : q[i] \in LineKinds
    BY <1>1, ElementOfSeq
  <2>2. n + 1 \in Int /\ Len(q) \in Int
    BY <1>1
  <2> QED
    BY <2>1, <2>2, SubSeqProperties
<1>3. DOMAIN rest = 1..Len(rest)
  BY <1>2, LenProperties
<1> HIDE DEF rest
<1>4. Len(rest) = Len(q) - n /\ \A i \in 1..Len(rest) : rest[i] = q[n + i]
  <2>1. Len(rest) = Len(q) - n /\ Len(q) - (n + 1) + 1 = Len(rest)
    <3>1. n <= Len(q) /\ Len(q) \in Int /\ n \in Int
      BY <1>1
    <3>2. Len(rest) = IF n + 1 <= Len(q) THEN Len(q) - (n + 1) + 1 ELSE 0
      BY <1>2
    <3>3. CASE n + 1 <= Len(q)
      BY <3>1, <3>2, <3>3
    <3>4. CASE ~(n + 1 <= Len(q))
      BY <3>1, <3>2, <3>4
    <3> QED
      BY <3>3, <3>4
  <2>2. ASSUME NEW i \in 1..Len(rest) PROVE rest[i] = q[n + i]
    <3>1. rest[i] = q[(n + 1) + i - 1]
      BY <1>2, <2>1
    <3>2. (n + 1) + i - 1 = n + i
      BY <1>1
    <3> QED
      BY <3>1, <3>2
  <2> QED
    BY <2>1, <2>2
<1>5. ASSUME NEW i \in DOMAIN rest, rest[i] = "echo"
      PROVE  \E j \in i..Len(rest) : rest[j] = "outcome"
  <2>1. n + i \in DOMAIN q /\ q[n + i] = "echo"
    BY <1>1, <1>3, <1>4, <1>5
  <2>2. PICK j \in (n + i)..Len(q) : q[j] = "outcome"
    BY <2>1 DEF Followed
  <2>3. j - n \in i..Len(rest) /\ n + (j - n) = j /\ j - n \in 1..Len(rest)
    BY <1>1, <1>3, <1>4, <2>2
  <2> QED
    BY <1>4, <2>2, <2>3
<1> QED
  BY <1>5 DEF Followed, rest

(***************************************************************************)
(* OutcomeFollowsEchoes is not inductive: it says nothing of the time in   *)
(* which the REPL waits.  While it does, an echo may have no outcome only  *)
(* when the handler of the command is under way, and the REPL is at the    *)
(* prompt again only after it has shown the outcome, which is not refused  *)
(* while the REPL runs.                                                    *)
(***************************************************************************)
EchoInv ==
    /\ displayTask = "ended" => repl = "exited"
    /\ Followed(Pending) \/ InService \/ repl \in {"showing", "exited"}

LEMMA EchoStep ==
  ASSUME TypeOK, OneCommandInv, EchoInv, [Next]_vars
  PROVE  EchoInv'
<1>a. Pending \in Seq(LineKinds)
  BY PendingTyped
<1>b. InService => repl = "waiting"
  BY DEF OneCommandInv
<1>1. CASE UNCHANGED vars
  BY <1>1 DEF vars, registryVars, screenVars, EchoInv, InService, Pending
<1>2. CASE TakesMessage \/ ShutsDown \/ Panics
  BY <1>2 DEF TakesMessage, ShutsDown, Panics, Takes, screenVars, EchoInv, InService, Pending
<1>3. CASE ShowsLine
  <2>1. registry = "busy" /\ UNCHANGED <<registry, serves, repl>>
    BY <1>3 DEF ShowsLine
  <2>2. CASE serves = "Command"
    <3>1. displayTask' = displayTask
      BY <1>3 DEF ShowsLine, Show
    <3> QED
      BY <2>1, <2>2, <3>1 DEF EchoInv, InService
  <2>3. CASE serves # "Command"
    <3>1. Show("event") /\ "event" \in LineKinds
      BY <1>3, <2>3 DEF ShowsLine, LineKinds
    <3>2. /\ displayTask' = displayTask
          /\ Pending' = Append(Pending, "event") \/ Pending' = Pending
      BY <3>1, ShowAppends DEF Appends
    <3>3. Followed(Pending) => Followed(Pending')
      BY <1>a, <3>1, <3>2, FollowedAppend
    <3> QED
      BY <2>1, <2>3, <3>2, <3>3 DEF EchoInv, InService
  <2> QED
    BY <2>2, <2>3
<1>4. CASE EndsHandler
  <2>1. Pending' = Pending /\ displayTask' = displayTask
    BY <1>4 DEF EndsHandler, screenVars, Pending
  <2> QED
    BY <1>4, <1>b, <2>1 DEF EndsHandler, EchoInv, InService
<1>5. CASE DisplayStep
  <2>1. UNCHANGED <<registry, serves, repl>>
    BY <1>5 DEF DisplayStep, TakesLine, Prints, registryVars
  <2> QED
    BY <1>5, <2>1, DisplayKeeps DEF EchoInv, InService
<1>6. CASE PrinterShows
  <2>1. UNCHANGED <<registry, serves, repl>>
    BY <1>6 DEF PrinterShows, registryVars
  <2>2. Followed(Pending) => Followed(Pending')
    BY <1>6, <1>a, PrinterShowsOldest, FollowedRest DEF Shown
  <2> QED
    BY <1>6, <2>1, <2>2, PrinterShowsOldest DEF EchoInv, InService
<1>7. CASE ReplShows
  <2>1. repl' = "reading" /\ UNCHANGED <<registry, serves>>
    BY <1>7 DEF ReplShows, registryVars
  <2>2. PICK kind \in {"outcome", "refusal"} :
           Show(kind) /\ repl = IF kind = "outcome" THEN "showing" ELSE "refusing"
    BY <1>7 DEF ReplShows
  <2>3. kind \in LineKinds /\ kind # "echo"
    BY DEF LineKinds
  <2>4. displayTask = "running" /\ displayTask' = displayTask /\ Pending' = Append(Pending, kind)
    BY <2>2, <2>3, ShowAppends DEF EchoInv, Appends
  <2>5. kind = "outcome" \/ Followed(Pending)
    BY <1>b, <2>2 DEF EchoInv
  <2>6. Followed(Pending')
    BY <1>a, <2>3, <2>4, <2>5, FollowedAppend
  <2> QED
    BY <2>4, <2>6 DEF EchoInv
<1>8. CASE ReplPosts \/ ReplyDropped \/ ReplAborted \/ UserEnters
  <2>1. Pending' = Pending /\ displayTask' = displayTask /\ registry' = registry /\ serves' = serves
    BY <1>8 DEF ReplPosts, ReplyDropped, ReplAborted, UserEnters, screenVars, registryVars, Pending
  <2>2. \/ repl' = "exited"
        \/ repl \notin {"showing", "exited"} /\ (repl = "waiting" => Gone)
    BY <1>8 DEF ReplPosts, ReplyDropped, ReplAborted, UserEnters
  <2>3. Gone => ~InService
    BY DEF Gone, InService
  <2> QED
    BY <1>b, <2>1, <2>2, <2>3 DEF EchoInv, InService
<1>9. CASE PrintFails
  BY <1>9 DEF PrintFails, EchoInv
<1>10. CASE MainStep \/ NewsArrives \/ PeerAnswers \/ Signal
  BY <1>10 DEF MainStep, MainPasses, MainAwaits, MainExits, NewsArrives, PeerAnswers, Signal,
               screenVars, registryVars, EchoInv, InService, Pending
<1> QED
  BY <1>1, <1>2, <1>3, <1>4, <1>5, <1>6, <1>7, <1>8, <1>9, <1>10
     DEF Next, Internal, Outside, RegistryStep, ReplStep

(***************************************************************************)
(* The lines of a command come before its outcome: when the user is at the *)
(* prompt again, every echo that is not on the screen yet has an outcome   *)
(* behind it (handle_command displays, then replies; spawn_repl displays   *)
(* the reply).                                                             *)
(***************************************************************************)
THEOREM EchoTheorem == Spec => []OutcomeFollowsEchoes
<1>1. Init => EchoInv /\ OneCommandInv
  <2>1. Init => OneCommandInv
    BY DEF Init, OneCommandInv, InboxTyped, MainGoesLast, Gone, InService, Commands, AtMostOne
  <2>2. ASSUME Init PROVE Followed(Pending) /\ displayTask = "running"
    <3>1. printer = <<>> /\ hand = <<>> /\ display = <<>> /\ displayTask = "running"
      BY <2>2 DEF Init
    <3>2. Pending = <<>>
      BY <3>1, ConcatEmptySeq, EmptySeq DEF Pending
    <3> QED
      BY <3>1, <3>2 DEF Followed
  <2> QED
    BY <2>1, <2>2 DEF EchoInv
<1>2. TypeOK /\ OneCommandInv /\ EchoInv /\ [Next]_vars => EchoInv' /\ OneCommandInv'
  BY EchoStep, OneCommandStep
<1>3. OneCommandInv /\ EchoInv => OutcomeFollowsEchoes
  BY DEF OneCommandInv, EchoInv, OutcomeFollowsEchoes, Followed
<1> QED
  BY <1>1, <1>2, <1>3, TypeTheorem, PTL DEF Spec

LEMMA PendingStep ==
  ASSUME TypeOK, [Next]_vars, displayTask' = "running"
  PROVE  \/ Pending' = Pending
         \/ \E kind \in LineKinds : Appends(kind)
         \/ Shown /\ repl = "reading"
<1>1. CASE ShowsLine \/ ReplShows
  <2>1. PICK kind \in LineKinds : Show(kind)
    BY <1>1 DEF ShowsLine, ReplShows, LineKinds
  <2> QED
    BY <2>1, ShowAppends
<1>2. CASE DisplayStep \/ PrinterShows
  BY <1>2, DisplayKeeps, PrinterShowsOldest
<1>3. CASE PrintFails
  BY <1>3 DEF PrintFails
<1>4. CASE UNCHANGED screenVars
  BY <1>4 DEF screenVars, Pending
<1>5. \/ ShowsLine \/ ReplShows \/ DisplayStep \/ PrinterShows \/ PrintFails \/ UNCHANGED screenVars
  BY DEF Next, Internal, Outside, vars, RegistryStep, ReplStep, MainStep, TakesMessage, EndsHandler,
         ShutsDown, Panics, ReplPosts, ReplyDropped, ReplAborted, UserEnters, MainPasses,
         MainAwaits, MainExits, NewsArrives, PeerAnswers, Signal
<1> QED
  BY <1>1, <1>2, <1>3, <1>4, <1>5

(***************************************************************************)
(* As long as the display task runs, the lines reach the screen in the     *)
(* order in which they were sent, none twice and none lost, and only while *)
(* the user is at the prompt (spawn_display_task, Reedline::read_line).    *)
(***************************************************************************)
THEOREM OrderTheorem == Spec => LinesInOrder
<1> DEFINE InOrder ==
      displayTask' = "running" =>
          \E shown \in 0..Len(Pending), new \in {<<>>} \cup {<<kind>> : kind \in LineKinds} :
              /\ Pending' = SubSeq(Pending, shown + 1, Len(Pending)) \o new
              /\ shown > 0 => repl = "reading"
<1>1. ASSUME TypeOK, [Next]_vars, displayTask' = "running"
      PROVE  \E shown \in 0..Len(Pending), new \in {<<>>} \cup {<<kind>> : kind \in LineKinds} :
                /\ Pending' = SubSeq(Pending, shown + 1, Len(Pending)) \o new
                /\ shown > 0 => repl = "reading"
  <2>1. Pending \in Seq(LineKinds) /\ Len(Pending) \in Nat /\ 0 \in 0..Len(Pending)
    BY <1>1, PendingTyped
  <2>2. SubSeq(Pending, 0 + 1, Len(Pending)) = Pending
    BY <2>1, SubSeqFull
  <2>3. CASE Pending' = Pending
    <3>1. Pending' = SubSeq(Pending, 0 + 1, Len(Pending)) \o <<>>
      BY <2>1, <2>2, <2>3, ConcatEmptySeq
    <3> QED
      BY SMTT(60), <2>1, <3>1
  <2>4. ASSUME NEW kind \in LineKinds, Appends(kind)
        PROVE  \E shown \in 0..Len(Pending), new \in {<<>>} \cup {<<k>> : k \in LineKinds} :
                  /\ Pending' = SubSeq(Pending, shown + 1, Len(Pending)) \o new
                  /\ shown > 0 => repl = "reading"
    <3>1. Pending' = SubSeq(Pending, 0 + 1, Len(Pending)) \o <<kind>>
      BY <2>1, <2>2, <2>4, AppendIsConcat DEF Appends
    <3>2. <<kind>> \in {<<>>} \cup {<<k>> : k \in LineKinds}
      OBVIOUS
    <3>3. 0 > 0 => repl = "reading"
      OBVIOUS
    <3> WITNESS 0 \in 0..Len(Pending), <<kind>> \in {<<>>} \cup {<<k>> : k \in LineKinds}
    <3> QED
      BY <3>1, <3>3
  <2>5. CASE Shown /\ repl = "reading"
    <3>1. PICK n \in 0..Len(Pending) : Pending' = SubSeq(Pending, n + 1, Len(Pending))
      BY <2>5 DEF Shown
    <3>2. SubSeq(Pending, n + 1, Len(Pending)) \in Seq(LineKinds)
      <4>1. \A i \in (n + 1)..Len(Pending) : Pending[i] \in LineKinds
        BY <2>1, ElementOfSeq
      <4>2. n + 1 \in Int /\ Len(Pending) \in Int
        BY <2>1
      <4> QED
        BY <4>1, <4>2, SubSeqProperties
    <3>3. Pending' = SubSeq(Pending, n + 1, Len(Pending)) \o <<>>
      BY <3>1, <3>2, ConcatEmptySeq
    <3> QED
      BY <2>5, <3>3
  <2> QED
    BY <1>1, <2>3, <2>4, <2>5, PendingStep
<1>2. TypeOK /\ [Next]_vars => [InOrder]_vars
  BY <1>1
<1> QED
  BY <1>2, TypeTheorem, PTL DEF Spec, LinesInOrder

-----------------------------------------------------------------------------
(***************************************************************************)
(* Requests in the inbox, and what each end of it does to them.            *)
(***************************************************************************)
LEMMA QueuedAppend ==
  ASSUME NEW kind \in MessageKinds, inbox \in Seq(MessageKinds), inbox' = Append(inbox, kind)
  PROVE  Queued(kind)' /\ \A other : Queued(other) => Queued(other)'
<1>1. /\ DOMAIN inbox' = 1..(Len(inbox) + 1) /\ DOMAIN inbox = 1..Len(inbox) /\ Len(inbox) \in Nat
      /\ inbox'[Len(inbox) + 1] = kind
      /\ \A i \in 1..Len(inbox) : inbox'[i] = inbox[i]
  OBVIOUS
<1>2. Queued(kind)'
  BY <1>1 DEF Queued
<1>3. ASSUME NEW other, Queued(other) PROVE Queued(other)'
  BY <1>1, <1>3 DEF Queued
<1> QED
  BY <1>2, <1>3

LEMMA QueuedTail ==
  ASSUME inbox \in Seq(MessageKinds), inbox # <<>>, inbox' = Tail(inbox),
         NEW kind, kind # Head(inbox), Queued(kind)
  PROVE  Queued(kind)'
<1>1. /\ DOMAIN inbox' = 1..(Len(inbox) - 1) /\ DOMAIN inbox = 1..Len(inbox) /\ Len(inbox) \in Nat
      /\ \A i \in 1..(Len(inbox) - 1) : inbox'[i] = inbox[i + 1]
      /\ Head(inbox) = inbox[1]
  OBVIOUS
<1>2. PICK i \in DOMAIN inbox : inbox[i] = kind
  BY DEF Queued
<1>3. i # 1
  BY <1>1, <1>2
<1>4. i - 1 \in DOMAIN inbox' /\ inbox'[i - 1] = kind
  BY <1>1, <1>2, <1>3
<1> QED
  BY <1>4 DEF Queued

LEMMA RequestStep ==
  ASSUME OneCommandInv, NoRequestLost, [Next]_vars
  PROVE  NoRequestLost'
<1>a. /\ inbox \in Seq(MessageKinds)
      /\ main = "dropping" => Gone
  BY DEF OneCommandInv, InboxTyped, MainGoesLast
<1> USE DEF NoRequestLost, InService
<1>0. /\ Gone => Gone'
      /\ Gone' \/ inbox' = inbox \/ inbox' = Tail(inbox) \/ \E kind \in MessageKinds : inbox' = Append(inbox, kind)
  BY DEF Next, Internal, Outside, vars, registryVars, Gone, RegistryStep, TakesMessage, ShowsLine,
         EndsHandler, ShutsDown, Panics, Takes, DisplayStep, TakesLine, Prints, PrinterShows,
         ReplStep, ReplPosts, ReplShows, ReplyDropped, ReplAborted, MainStep, MainPasses,
         MainAwaits, MainExits, NewsArrives, PeerAnswers, PrintFails, UserEnters, Signal, Post,
         MessageKinds
<1> SUFFICES ASSUME ~Gone, ~Gone'
             PROVE  /\ repl' = "waiting" => InService' \/ Queued("Command")'
                    /\ main' = "awaiting" \/ repl' = "exited" => Queued("Shutdown")'
  BY <1>0
<1>b. inbox' = inbox => \A kind : Queued(kind) => Queued(kind)'
  BY DEF Queued
<1>1. CASE TakesMessage
  <2>1. PICK kind \in MessageKinds \ {"Shutdown"} : Takes(kind) /\ serves' = kind
    BY <1>1 DEF TakesMessage
  <2>2. /\ inbox # <<>> /\ inbox' = Tail(inbox) /\ Head(inbox) = kind
        /\ registry = "idle" /\ registry' = "busy" /\ repl' = repl /\ main' = main
    BY <1>1, <2>1 DEF TakesMessage, Takes
  <2>3. Queued("Shutdown") => Queued("Shutdown")'
    BY <1>a, <2>1, <2>2, QueuedTail
  <2>4. kind # "Command" => (Queued("Command") => Queued("Command")')
    BY <1>a, <2>2, QueuedTail
  <2>5. kind = "Command" => InService'
    BY <2>1, <2>2
  <2> QED
    BY <2>2, <2>3, <2>4, <2>5
<1>2. CASE ShowsLine
  BY <1>2, <1>b DEF ShowsLine
<1>3. CASE EndsHandler
  BY <1>3, <1>b DEF EndsHandler
<1>4. CASE ShutsDown \/ Panics
  BY <1>4 DEF ShutsDown, Panics, Gone
<1>5. CASE ReplPosts
  <2>1. registry' = registry /\ serves' = serves /\ main' = main
    BY <1>5 DEF ReplPosts, registryVars
  <2>2. CASE repl = "sending" /\ inbox' = Append(inbox, "Command") /\ repl' = "waiting"
    BY <1>a, <2>1, <2>2, QueuedAppend DEF MessageKinds
  <2>3. CASE repl = "quitting" /\ inbox' = Append(inbox, "Shutdown") /\ repl' = "exited"
    BY <1>a, <2>1, <2>3, QueuedAppend DEF MessageKinds
  <2> QED
    BY <1>5, <2>2, <2>3 DEF ReplPosts, Post
<1>6. CASE ReplShows
  BY <1>6, <1>b DEF ReplShows, registryVars
<1>7. CASE ReplyDropped \/ ReplAborted
  BY <1>7, <1>a DEF ReplyDropped, ReplAborted
<1>8. CASE NewsArrives
  <2>1. registry' = registry /\ serves' = serves /\ main' = main /\ repl' = repl
    BY <1>8 DEF NewsArrives, registryVars
  <2>2. PICK kind \in MessageKinds : inbox' = Append(inbox, kind)
    BY <1>8 DEF NewsArrives, Post, MessageKinds
  <2> QED
    BY <1>a, <2>1, <2>2, QueuedAppend
<1>9. CASE MainPasses
  <2>1. registry' = registry /\ serves' = serves /\ repl' = repl
    BY <1>9 DEF MainPasses, registryVars
  <2>2. inbox' = Append(inbox, "Shutdown") /\ "Shutdown" \in MessageKinds
    BY <1>9 DEF MainPasses, Post, MessageKinds
  <2> QED
    BY <1>a, <2>1, <2>2, QueuedAppend
<1>10. CASE MainAwaits \/ MainExits
  BY <1>10, <1>a DEF MainAwaits, MainExits
<1>11. CASE Signal
  BY <1>11, <1>b DEF Signal, registryVars
<1>12. CASE DisplayStep \/ PrinterShows \/ PrintFails
  BY <1>12, <1>b DEF DisplayStep, TakesLine, Prints, PrinterShows, PrintFails, registryVars
<1>13. CASE PeerAnswers \/ UserEnters
  BY <1>13, <1>b DEF PeerAnswers, UserEnters, registryVars
<1>14. CASE UNCHANGED vars
  BY <1>14, <1>b DEF vars, registryVars
<1> QED
  BY <1>1, <1>2, <1>3, <1>4, <1>5, <1>6, <1>7, <1>8, <1>9, <1>10, <1>11, <1>12, <1>13, <1>14
     DEF Next, Internal, Outside, RegistryStep, ReplStep, MainStep

LEMMA OneCommandAlways == Spec => []OneCommandInv
<1>1. Init => OneCommandInv
  BY DEF Init, OneCommandInv, InboxTyped, MainGoesLast, Gone, InService, Commands, AtMostOne
<1> QED
  BY <1>1, OneCommandStep, PTL DEF Spec

(***************************************************************************)
(* A request is not lost on its way: while the registry task has not ended,*)
(* the command that the REPL waits for is in the inbox or in service, and a*)
(* shutdown that was sent is in the inbox (spawn_repl, main, run_registry).*)
(***************************************************************************)
THEOREM RequestTheorem == Spec => []NoRequestLost
<1>1. Init => NoRequestLost
  BY DEF Init, NoRequestLost
<1>2. OneCommandInv /\ NoRequestLost /\ [Next]_vars => NoRequestLost'
  BY RequestStep
<1> QED
  BY <1>1, <1>2, OneCommandAlways, PTL DEF Spec

-----------------------------------------------------------------------------
(***************************************************************************)
(* Who waits for whom.                                                     *)
(***************************************************************************)
LEMMA FullBuffers ==
  ASSUME TypeOK
  PROVE  /\ inbox = <<>> => ~InboxIsFull
         /\ display = <<>> => ~DisplayIsFull
         /\ printer = <<>> => Len(printer) # PrinterCap
<1>1. Len(<<>>) = 0
  OBVIOUS
<1> QED
  BY <1>1, CapsTyped DEF InboxIsFull, DisplayIsFull

LEMMA EmptyPending ==
  ASSUME printer = <<>>, hand = <<>>, display = <<>>
  PROVE  Pending = <<>>
  BY ConcatEmptySeq, EmptySeq DEF Pending

\* At the prompt nothing is left to show when the tasks of the screen wait.
LEMMA PromptIsQuiet ==
  ASSUME TypeOK, EveryTaskWaits, repl = "reading"
  PROVE  Pending = <<>>
<1>1. printer = <<>>
  BY DEF EveryTaskWaits, ReplWaits
<1>2. hand = <<>> /\ display = <<>>
  BY <1>1, FullBuffers DEF EveryTaskWaits, DisplayWaits
<1> QED
  BY <1>1, <1>2, EmptyPending

\* A full display channel means a full printer, when the display task waits.
LEMMA FullDisplay ==
  ASSUME TypeOK, EveryTaskWaits, DisplayIsFull
  PROVE  ScreenIsFull
<1>1. display # <<>>
  BY FullBuffers
<1>2. hand # <<>> /\ Len(printer) = PrinterCap
  BY <1>1 DEF EveryTaskWaits, DisplayWaits
<1>3. repl # "reading"
  BY <1>2, FullBuffers DEF EveryTaskWaits, ReplWaits
<1> QED
  BY <1>2, <1>3 DEF ScreenIsFull, DisplayIsFull

LEMMA BlockedHolds ==
  ASSUME TypeOK, OneCommandInv, NoRequestLost, EveryTaskWaits
  PROVE  AtRest \/ WaitsForPeer \/ ScreenIsFull
<1>a. /\ main = "dropping" => Gone
      /\ Gone => inbox = <<>>
  BY DEF OneCommandInv, MainGoesLast
<1>1. CASE Gone
  <2>1. main = "dropping" /\ (repl = "reading" \/ StuckInPrint)
    BY <1>1 DEF EveryTaskWaits, MainWaits, InboxIsFull
  <2>2. CASE repl = "reading"
    <3>1. Pending = <<>> /\ inbox = <<>> /\ registry # "busy"
      BY <1>a, <1>1, <2>2, PromptIsQuiet DEF Gone
    <3> QED
      BY <1>1, <2>1, <2>2, <3>1 DEF AtRest
  <2>3. CASE repl # "reading"
    BY <1>1, <2>1, <2>3 DEF ScreenIsFull, StuckInPrint
  <2> QED
    BY <2>2, <2>3
<1>2. CASE registry = "busy" /\ DisplayIsFull
  BY <1>2, FullDisplay
<1>3. CASE ~Gone /\ registry = "idle" /\ inbox = <<>>
  <2>1. \A kind : ~Queued(kind)
    BY <1>3 DEF Queued
  <2>2. repl # "waiting" /\ repl # "exited" /\ main # "awaiting"
    BY <1>3, <2>1 DEF NoRequestLost, InService
  <2>3. main = "select"
    BY <1>a, <1>3, <2>2, FullBuffers DEF EveryTaskWaits, MainWaits
  <2>4. repl = "reading" \/ DisplayIsFull
    BY <1>3, <2>2, FullBuffers DEF EveryTaskWaits, ReplWaits
  <2>5. CASE repl = "reading"
    BY <1>3, <2>3, <2>5, PromptIsQuiet DEF AtRest
  <2> QED
    BY <2>4, <2>5, FullDisplay
<1> QED
  BY <1>1, <1>2, <1>3 DEF EveryTaskWaits, RegistryWaits

(***************************************************************************)
(* The tasks cannot wait for each other in any other way: when every task  *)
(* waits, the program is at rest at the prompt, a handler waits for a peer,*)
(* or the way from the display channel to the screen is full and nobody    *)
(* reads at the prompt, for every capacity of the buffers (run_registry,   *)
(* spawn_repl, spawn_display_task, main).                                  *)
(***************************************************************************)
THEOREM BlockedTheorem == Spec => []BlockedForAReason
<1>1. TypeOK /\ OneCommandInv /\ NoRequestLost => BlockedForAReason
  BY BlockedHolds DEF BlockedForAReason
<1> QED
  BY <1>1, TypeTheorem, OneCommandAlways, RequestTheorem, PTL
=============================================================================
