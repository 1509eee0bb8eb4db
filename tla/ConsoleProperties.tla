------------------------- MODULE ConsoleProperties -------------------------
(***************************************************************************)
(* What the user may count on at the console.                              *)
(***************************************************************************)
EXTENDS Console

(***************************************************************************)
(* Every variable holds a value of its type.                               *)
(***************************************************************************)
Waits == {"line", "connect", "write", "child"}

TypeOK ==
    /\ inbox \in Seq(MessageKinds) /\ Len(inbox) <= InboxCap
    /\ registry \in {"idle", "busy", "ended", "panicked"}
    /\ serves \in MessageKinds
    /\ todo \in Seq(Waits)
    /\ display \in Seq(LineKinds) /\ Len(display) <= DisplayCap
    /\ hand \in {<<>>} \cup {<<kind>> : kind \in LineKinds}
    /\ displayTask \in {"running", "ended"}
    /\ printer \in Seq(LineKinds) /\ Len(printer) <= PrinterCap
    /\ repl \in ReplStates
    /\ main \in MainStates

\* The lines that are not on the screen yet, the oldest first.
Pending == printer \o hand \o display

(***************************************************************************)
(* The lines of a command come before its outcome: when the user is at the *)
(* prompt again, or has entered the next line, no line of a command is left*)
(* that its OK or ERR line does not follow (handle_command displays, then  *)
(* replies; spawn_repl displays the reply).                                *)
(***************************************************************************)
OutcomeFollowsEchoes ==
    repl \in {"reading", "refusing", "sending", "quitting"} =>
        \A i \in DOMAIN Pending :
            Pending[i] = "echo" => \E j \in i..Len(Pending) : Pending[j] = "outcome"

(***************************************************************************)
(* As long as the display task runs, lines reach the screen in the order in*)
(* which they were sent, none twice and none lost, and only while the user *)
(* is at the prompt (spawn_display_task, Reedline::read_line).             *)
(***************************************************************************)
LinesInOrder ==
    [][displayTask' = "running" =>
          \E shown \in 0..Len(Pending), new \in {<<>>} \cup {<<kind>> : kind \in LineKinds} :
              /\ Pending' = SubSeq(Pending, shown + 1, Len(Pending)) \o new
              /\ shown > 0 => repl = "reading"]_vars

(***************************************************************************)
(* A reply answers the command the REPL waits for: there is one command at *)
(* most in the inbox and in the handler, and the REPL, unless it was       *)
(* aborted, waits for its reply (spawn_repl, run_registry).                *)
(***************************************************************************)
InService == registry = "busy" /\ serves = "Command"

OneCommandAtATime ==
    LET queued == {i \in DOMAIN inbox : inbox[i] = "Command"}
    IN  /\ \A i, j \in queued : i = j
        /\ InService => queued = {}
        /\ (InService \/ queued # {}) => repl = "waiting"

(***************************************************************************)
(* A request is not lost on its way to the registry task: as long as it    *)
(* has not ended, the command whose reply the REPL awaits is in the inbox  *)
(* or in service, and a shutdown that main or the REPL has sent, and that  *)
(* main counts on or the REPL has ended with, is in the inbox (spawn_repl, *)
(* main, run_registry).                                                    *)
(***************************************************************************)
Queued(kind) == \E i \in DOMAIN inbox : inbox[i] = kind

NoRequestLost ==
    ~Gone =>
        /\ repl = "waiting" => InService \/ Queued("Command")
        /\ main = "awaiting" \/ repl = "exited" => Queued("Shutdown")

(***************************************************************************)
(* What each task waits for when it cannot go on: a message, a peer or a   *)
(* place in a channel; a line from the user, the reply; a line to print or *)
(* a place in the printer; a signal or the end of another task.            *)
(***************************************************************************)
InboxIsFull   == ~Gone /\ Len(inbox) = InboxCap
DisplayIsFull == displayTask = "running" /\ Len(display) = DisplayCap

RegistryWaits ==
    \/ Gone
    \/ registry = "idle" /\ inbox = <<>>
    \/ WaitsForPeer
    \/ registry = "busy" /\ todo # <<>> /\ Head(todo) = "line" /\ DisplayIsFull

ReplWaits ==
    \/ repl = "exited"
    \/ repl = "reading" /\ printer = <<>>
    \/ repl = "waiting" /\ ~Gone
    \/ repl \in {"sending", "quitting"} /\ InboxIsFull
    \/ repl \in {"showing", "refusing"} /\ DisplayIsFull /\ main # "dropping"

DisplayWaits == IF hand = <<>> THEN display = <<>> ELSE Len(printer) = PrinterCap

MainWaits ==
    \/ main \in {"select", "awaiting"} /\ ~Gone
    \/ main = "passing" /\ InboxIsFull
    \/ main = "dropping" /\ (repl = "reading" \/ StuckInPrint)

EveryTaskWaits == RegistryWaits /\ ReplWaits /\ DisplayWaits /\ MainWaits

(***************************************************************************)
(* When every task waits, one of these is why: the program is at rest at   *)
(* the prompt; a handler waits for a peer; or every buffer from the        *)
(* registry task to the screen is full and nobody reads at the prompt,     *)
(* which alone empties them.  There is no other way for the tasks to wait  *)
(* for each other.                                                         *)
(***************************************************************************)
AtRest ==
    /\ repl = "reading"
    /\ Pending = <<>> /\ inbox = <<>> /\ registry # "busy"
    /\ main = IF Gone THEN "dropping" ELSE "select"

ScreenIsFull ==
    /\ repl # "reading"
    /\ Len(printer) = PrinterCap /\ hand # <<>>
    /\ \/ Len(display) = DisplayCap
       \/ Gone /\ main = "dropping"

BlockedForAReason == EveryTaskWaits => AtRest \/ WaitsForPeer \/ ScreenIsFull

-----------------------------------------------------------------------------
(***************************************************************************)
(* As long as the user is brought back to the prompt again and again, a    *)
(* signal ends the registry task, however full the inbox and the screen are*)
(* when it comes, and whatever news and commands are ahead of it (main,    *)
(* run_registry, spawn_display_task).                                      *)
(***************************************************************************)
SignalHonoured == []<>(repl = "reading") => (main = "passing" ~> Gone)

(***************************************************************************)
(* A handler ends, unless from some moment on it waits for a peer, or the  *)
(* way to the screen is full and nobody reads at the prompt: lines it has  *)
(* to display are no hindrance as long as one of the buffers moves         *)
(* (run_registry, spawn_display_task).                                     *)
(***************************************************************************)
HandlersFinish ==
    []<>~WaitsForPeer /\ []<>~ScreenIsFull => (registry = "busy" ~> registry # "busy")

(***************************************************************************)
(* Whichever way the registry task ends, by a shutdown or by a panic, the  *)
(* process ends too, once the user has entered one more command or Ctrl+D: *)
(* the abort of the REPL does not interrupt read_line.  It does not end    *)
(* when a line that is being printed finds no room and the line editor is  *)
(* gone (main: select, registry_done, abort).                              *)
(***************************************************************************)
ProcessEnds ==
    []<>(repl \in {"sending", "quitting", "exited"}) =>
        (Gone ~> ~Running \/ (StuckInPrint /\ repl = "exited"))

-----------------------------------------------------------------------------
(***************************************************************************)
(* "A single Ctrl+C triggers a clean teardown via the registry" (main), and*)
(* the line editor blocks a thread of its own "so that the rest of the     *)
(* runtime keeps reacting to network events and Ctrl+C" (input.rs).  The   *)
(* code does not keep this, even when every peer answers: the user enters a*)
(* line while the buffers are full, and the REPL waits for room in a       *)
(* channel that only the prompt would empty.                               *)
(***************************************************************************)
PeersAnswerSpec == FairSpec /\ WF_vars(PeerAnswers)

CtrlCTearsDown == main = "passing" ~> Gone
=============================================================================
