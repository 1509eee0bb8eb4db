------------------------------ MODULE Console ------------------------------
(***************************************************************************)
(* The program as its user meets it: the prompt, the lines on the screen   *)
(* and Ctrl+C (src/main.rs, src/repl/input.rs, src/repl/display.rs, and the*)
(* message loop of src/repl/runtime.rs).                                   *)
(*                                                                         *)
(* RegistryTask takes a handler as one step.  Here it is what it is for the*)
(* other tasks: a series of waits, for a peer that answers a connect or    *)
(* reads what is written to it, and for room in the display channel.  The  *)
(* display task waits in its turn for room in the printer of the line      *)
(* editor, which empties it only while it reads a line.                    *)
(*                                                                         *)
(*   tasks, REPL, main --inbox--> registry task                            *)
(*   registry task, REPL --display--> display task --printer--> screen     *)
(*                                                                         *)
(* What is in the registry decides which of its waits a handler has: here  *)
(* it is a choice.                                                         *)
(*                                                                         *)
(* An operator named after a fault stands before the one it distorts, and  *)
(* no specification uses it, as in Registry.                               *)
(***************************************************************************)
EXTENDS Integers, Sequences

CONSTANTS
    InboxCap,     \* capacity of the registry's channel (1024 in main.rs)
    DisplayCap,   \* capacity of the display channel (1024 in display.rs)
    PrinterCap    \* lines the printer of the line editor holds

ASSUME ConsoleAssumption == {InboxCap, DisplayCap, PrinterCap} \subseteq Nat \ {0}

VARIABLES
    inbox,        \* the kinds of the messages to the registry task
    registry,     \* the registry task: idle, busy, ended or panicked
    serves,       \* the kind of the message its handler serves
    todo,         \* the waits that its handler still has before it
    display,      \* the lines in the display channel
    hand,         \* the line that the display task is printing, if any
    displayTask,  \* "running", or "ended" when the printer has refused a line
    printer,      \* the lines in the printer
    repl,         \* the REPL task
    main          \* the main function

registryVars == <<registry, serves, todo>>
screenVars   == <<display, hand, displayTask, printer>>
vars == <<inbox, registryVars, screenVars, repl, main>>

MessageKinds == {"Command", "Event", "Accepted", "Shutdown"}

\* A line comes from the handler of an event, from the handler of a command,
\* or from the REPL: the outcome of a command, or the refusal of a line.
LineKinds == {"event", "echo", "outcome", "refusal"}

Gone == registry \in {"ended", "panicked"}

(***************************************************************************)
(* reading    in read_line, on a thread of its own                         *)
(* refusing   about to display why a line is not a command                 *)
(* sending    about to send a command; waiting for its reply; showing it   *)
(* quitting   about to send Shutdown, after Ctrl+D or Ctrl+C at the prompt *)
(***************************************************************************)
ReplStates == {"reading", "refusing", "sending", "waiting", "showing", "quitting", "exited"}

(***************************************************************************)
(* select     waiting for a signal or for the end of the registry task     *)
(* passing    about to send Shutdown, after a signal                       *)
(* awaiting   waiting for the end of the registry task                     *)
(* dropping   the REPL task is aborted and the runtime is being dropped    *)
(***************************************************************************)
MainStates == {"select", "passing", "awaiting", "dropping", "exited", "aborted"}

Running == main \notin {"exited", "aborted"}

Init ==
    /\ inbox = <<>>
    /\ registry = "idle" /\ serves = "Event" /\ todo = <<>>
    /\ display = <<>> /\ hand = <<>> /\ displayTask = "running" /\ printer = <<>>
    /\ repl = "reading"
    /\ main = "select"

(***************************************************************************)
(* A send waits for room; on a channel whose receiver is gone it fails, and*)
(* the program goes on without it.                                         *)
(***************************************************************************)
\* unbounded_channel in the place of channel.
PostUnbounded(kind) ==
    \/ ~Gone /\ inbox' = Append(inbox, kind)
    \/ Gone /\ UNCHANGED inbox

Post(kind) ==
    \/ ~Gone /\ Len(inbox) < InboxCap /\ inbox' = Append(inbox, kind)
    \/ Gone /\ UNCHANGED inbox

Show(kind) ==
    /\ \/ /\ displayTask = "running"
          /\ Len(display) < DisplayCap
          /\ display' = Append(display, kind)
       \/ displayTask = "ended" /\ UNCHANGED display
    /\ UNCHANGED <<hand, displayTask, printer>>

\* A read task or an accept task has news.
NewsArrives ==
    /\ Running /\ ~Gone
    /\ \E kind \in {"Event", "Accepted"} : Post(kind)
    /\ UNCHANGED <<registryVars, screenVars, repl, main>>

-----------------------------------------------------------------------------
(***************************************************************************)
(* The registry task.  A handler waits for a "connect", for the one "write"*)
(* of a send, for the write to each "child" of a broadcast, and for room   *)
(* for a "line".                                                           *)
(***************************************************************************)
HandlersOf(kind) ==
    CASE kind = "Command"  -> {<<>>,                  \* label, status, refused
                               <<"line">>,            \* open server, close
                               <<"connect", "line">>, \* open client
                               <<"write">>, <<"child", "child">>}
      [] kind = "Event"    -> {<<>>, <<"line">>}
      [] kind = "Accepted" -> {<<"line">>, <<"line", "line">>}

Takes(kind) == Running /\ registry = "idle" /\ inbox # <<>> /\ Head(inbox) = kind

TakesMessage ==
    /\ \E kind \in MessageKinds \ {"Shutdown"} :
          Takes(kind) /\ serves' = kind /\ todo' \in HandlersOf(kind)
    /\ registry' = "busy"
    /\ inbox' = Tail(inbox)
    /\ UNCHANGED <<screenVars, repl, main>>

ShowsLine ==
    /\ Running /\ registry = "busy"
    /\ todo # <<>> /\ Head(todo) = "line"
    /\ Show(IF serves = "Command" THEN "echo" ELSE "event")
    /\ todo' = Tail(todo)
    /\ UNCHANGED <<inbox, registry, serves, repl, main>>

\* Replies as soon as the registry is updated, before the line is displayed.
RepliesFirst ==
    /\ Running /\ registry = "busy" /\ todo \in {<<>>, <<"line">>}
    /\ registry' = IF todo = <<>> THEN "idle" ELSE registry
    /\ repl' = IF serves = "Command" /\ repl = "waiting" THEN "showing" ELSE repl
    /\ UNCHANGED <<inbox, serves, todo, screenVars, main>>

\* The reply goes to a REPL that may have been aborted meanwhile.
EndsHandler ==
    /\ Running /\ registry = "busy" /\ todo = <<>>
    /\ registry' = "idle"
    /\ repl' = IF serves = "Command" /\ repl = "waiting" THEN "showing" ELSE repl
    /\ UNCHANGED <<inbox, serves, todo, screenVars, main>>

ShutsDown ==
    /\ Takes("Shutdown")
    /\ registry' = "ended"
    /\ inbox' = <<>>
    /\ UNCHANGED <<serves, todo, screenVars, repl, main>>

\* The server of the connection is gone: the task unwinds, or the process
\* aborts (profile.release in Cargo.toml).
Panics ==
    /\ Takes("Accepted")
    /\ registry' = "panicked"
    /\ inbox' = <<>>
    /\ main' \in {main, "aborted"}
    /\ UNCHANGED <<serves, todo, screenVars, repl>>

RegistryStep == TakesMessage \/ ShowsLine \/ EndsHandler \/ ShutsDown \/ Panics

(***************************************************************************)
(* A peer answers a connect, or reads, or its connection fails.  A failed  *)
(* connect ends the handler; a failed write to a child is displayed and the*)
(* broadcast goes on.                                                      *)
(***************************************************************************)
WaitsForPeer == registry = "busy" /\ todo # <<>> /\ Head(todo) \in {"connect", "write", "child"}

PeerAnswers ==
    /\ Running /\ WaitsForPeer
    /\ \/ todo' = Tail(todo)
       \/ Head(todo) = "connect" /\ todo' = <<>>
       \/ Head(todo) = "child" /\ todo' = <<"line">> \o Tail(todo)
    /\ UNCHANGED <<inbox, registry, serves, screenVars, repl, main>>

-----------------------------------------------------------------------------
(***************************************************************************)
(* The display task, and the printer, which the line editor empties while  *)
(* it reads.  What a print does once the line editor is dropped is not the *)
(* program's: it may fail, and ends the task and its channel, or not.      *)
(***************************************************************************)
TakesLine ==
    /\ Running /\ displayTask = "running" /\ hand = <<>> /\ display # <<>>
    /\ hand' = <<Head(display)>>
    /\ display' = Tail(display)
    /\ UNCHANGED <<inbox, registryVars, displayTask, printer, repl, main>>

\* try_send on the printer in the place of print.
PrintsOrDrops ==
    /\ Running /\ hand # <<>>
    /\ printer' = IF Len(printer) < PrinterCap THEN printer \o hand ELSE printer
    /\ hand' = <<>>
    /\ UNCHANGED <<inbox, registryVars, display, displayTask, repl, main>>

\* Prints only while a line is being read.
PrintsAtPrompt ==
    /\ Running /\ hand # <<>> /\ Len(printer) < PrinterCap /\ repl = "reading"
    /\ printer' = printer \o hand
    /\ hand' = <<>>
    /\ UNCHANGED <<inbox, registryVars, display, displayTask, repl, main>>

Prints ==
    /\ Running /\ hand # <<>> /\ Len(printer) < PrinterCap
    /\ printer' = printer \o hand
    /\ hand' = <<>>
    /\ UNCHANGED <<inbox, registryVars, display, displayTask, repl, main>>

PrintFails ==
    /\ Running /\ hand # <<>> /\ repl = "exited"
    /\ displayTask' = "ended"
    /\ hand' = <<>> /\ display' = <<>>
    /\ UNCHANGED <<inbox, registryVars, printer, repl, main>>

PrinterShows ==
    /\ Running /\ repl = "reading" /\ printer # <<>>
    /\ printer' = <<>>
    /\ UNCHANGED <<inbox, registryVars, display, hand, displayTask, repl, main>>

DisplayStep == TakesLine \/ Prints

-----------------------------------------------------------------------------
(***************************************************************************)
(* The REPL task.  An empty line is read and nothing else happens.         *)
(***************************************************************************)
UserEnters ==
    /\ Running /\ repl = "reading"
    /\ repl' \in {"sending", "refusing", "quitting"}
    /\ UNCHANGED <<inbox, registryVars, screenVars, main>>

\* Goes back to the prompt without the reply.
ReplDoesNotWait ==
    /\ Running
    /\ \/ repl = "sending" /\ Post("Command") /\ repl' = "reading"
       \/ repl = "quitting" /\ Post("Shutdown") /\ repl' = "exited"
    /\ UNCHANGED <<registryVars, screenVars, main>>

ReplPosts ==
    /\ Running
    /\ \/ repl = "sending" /\ Post("Command") /\ repl' = IF Gone THEN "exited" ELSE "waiting"
       \/ repl = "quitting" /\ Post("Shutdown") /\ repl' = "exited"
    /\ UNCHANGED <<registryVars, screenVars, main>>

ReplShows ==
    /\ Running
    /\ \/ repl = "showing" /\ Show("outcome")
       \/ repl = "refusing" /\ Show("refusal")
    /\ repl' = "reading"
    /\ UNCHANGED <<inbox, registryVars, main>>

\* The registry task has ended with the command in its inbox.
ReplyDropped ==
    /\ Running /\ repl = "waiting" /\ Gone
    /\ repl' = "reading"
    /\ UNCHANGED <<inbox, registryVars, screenVars, main>>

\* The abort of the REPL task takes hold where it waits, not in read_line.
ReplAborted ==
    /\ main = "dropping" /\ repl \notin {"reading", "exited"}
    /\ repl' = "exited"
    /\ UNCHANGED <<inbox, registryVars, screenVars, main>>

ReplStep == ReplPosts \/ ReplShows \/ ReplyDropped \/ ReplAborted

-----------------------------------------------------------------------------
(***************************************************************************)
(* main: one signal, or the end of the registry task, then the teardown.   *)
(***************************************************************************)
Signal ==
    /\ main = "select"
    /\ main' = "passing"
    /\ UNCHANGED <<inbox, registryVars, screenVars, repl>>

\* try_send in the place of send().await.
MainTriesToPass ==
    /\ main = "passing"
    /\ Post("Shutdown") \/ (Len(inbox) = InboxCap /\ UNCHANGED inbox)
    /\ main' = "awaiting"
    /\ UNCHANGED <<registryVars, screenVars, repl>>

MainPasses ==
    /\ main = "passing"
    /\ Post("Shutdown")
    /\ main' = "awaiting"
    /\ UNCHANGED <<registryVars, screenVars, repl>>

\* The end of the registry task is not waited for along with the signal.
OnlySignalsEnd ==
    /\ main = "awaiting" /\ Gone
    /\ main' = "dropping"
    /\ UNCHANGED <<inbox, registryVars, screenVars, repl>>

MainAwaits ==
    /\ main \in {"select", "awaiting"} /\ Gone
    /\ main' = "dropping"
    /\ UNCHANGED <<inbox, registryVars, screenVars, repl>>

\* Dropping the runtime waits for the threads that block: one in read_line,
\* one in a print for which there is no room.
StuckInPrint == hand # <<>> /\ Len(printer) = PrinterCap

MainExits ==
    /\ main = "dropping"
    /\ repl # "reading" /\ ~StuckInPrint
    /\ main' = "exited"
    /\ UNCHANGED <<inbox, registryVars, screenVars, repl>>

MainStep == MainPasses \/ MainAwaits \/ MainExits

-----------------------------------------------------------------------------
\* What the program does by itself, and what is done to it.
Internal == RegistryStep \/ DisplayStep \/ PrinterShows \/ ReplStep \/ MainStep
Outside  == NewsArrives \/ PeerAnswers \/ PrintFails \/ UserEnters \/ Signal

Next == Internal \/ Outside

Spec == Init /\ [][Next]_vars

(***************************************************************************)
(* Every task that can go on is polled again, and a channel gives room to  *)
(* the senders in the order they came.  read_line empties the printer each *)
(* time it starts.  Nothing makes peers answer or the user type.           *)
(***************************************************************************)
Fairness ==
    /\ SF_vars(RegistryStep) /\ SF_vars(ReplStep) /\ SF_vars(MainStep)
    /\ WF_vars(DisplayStep) /\ SF_vars(PrinterShows)

FairSpec == Spec /\ Fairness
=============================================================================
