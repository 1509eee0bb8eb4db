---------------------------- MODULE CommandLine ----------------------------
(***************************************************************************)
(* What the user writes, and what the program takes it for: the arguments  *)
(* (src/repl/args.rs, main), the lines at the prompt (src/repl/parser.rs)  *)
(* and the payloads in them (src/domain/hex.rs).                           *)
(*                                                                         *)
(* A line is the sequence of its words.  A word is a sequence of pieces: a *)
(* keyword is one piece, and so is every character where the program looks *)
(* at characters, in numbers, payloads and <host>:<port>.                  *)
(*                                                                         *)
(* A parser is a set of results: what the text means, or nothing when it is*)
(* refused.  The wording of a refusal is left out.                         *)
(*                                                                         *)
(* An operator named after a fault stands before the one it distorts, and  *)
(* no specification uses it, as in Registry.                               *)
(***************************************************************************)
EXTENDS Integers, Sequences, SequencesExt

CONSTANTS
    ArgLists,   \* sequences of arguments
    Lines       \* lines at the prompt

VARIABLES
    phase,      \* starting, prompt, read, or exited
    args,       \* the arguments, until they are parsed
    exitCode,   \* of the process, once it has exited
    level,      \* log_level
    line,       \* the line that was read
    outcome     \* what it was taken for: one command, or none

vars == <<phase, args, exitCode, level, line, outcome>>

(***************************************************************************)
(* Arguments: a request for help, a log level, or anything else.           *)
(***************************************************************************)
Help        == [flag |-> "help"]
LogLevel(v) == [flag |-> "level", value |-> v]
Other       == [flag |-> "other"]

Levels == [trace |-> 0, info |-> 1, warn |-> 2, error |-> 3]

IsArg(arg) == arg \in {Help, Other} \/ arg = LogLevel(arg.value)

Known(arg) ==
    \/ arg = Help
    \/ arg.flag = "level" /\ arg.value \in DOMAIN Levels

\* What one argument makes of what was parsed before it.
ParseArg(parsed, arg) ==
    {IF arg = Help THEN [cli EXCEPT !.help_requested = TRUE]
                   ELSE [cli EXCEPT !.log_level = Levels[arg.value]] :
     cli \in IF Known(arg) THEN parsed ELSE {}}

Defaults == [log_level |-> 1, help_requested |-> FALSE]

\* Returns at the first request for help.
HelpAtOnce(argv) ==
    FoldLeft(LAMBDA parsed, arg :
                IF \E cli \in parsed : cli.help_requested
                THEN parsed ELSE ParseArg(parsed, arg), {Defaults}, argv)

ParseSlice(argv) ==
    LET parsed[i \in 0..Len(argv)] ==
            IF i = 0 THEN {Defaults} ELSE ParseArg(parsed[i - 1], argv[i])
    IN  parsed[Len(argv)]

-----------------------------------------------------------------------------
\* A result, on a condition.
When(valid, result) == IF valid THEN {result} ELSE {}

(***************************************************************************)
(* Numbers and payloads.                                                   *)
(***************************************************************************)
Lower ==
    <<"0", "1", "2", "3", "4", "5", "6", "7", "8", "9", "a", "b", "c", "d", "e", "f">>
Upper ==
    <<"0", "1", "2", "3", "4", "5", "6", "7", "8", "9", "A", "B", "C", "D", "E", "F">>

Decimal       == {Lower[i] : i \in 1..10}
IsHexDigit(p) == \E i \in 1..16 : p \in {Lower[i], Upper[i]}
HexValue(p)   == (CHOOSE i \in 1..16 : p \in {Lower[i], Upper[i]}) - 1

Unsigned(word) == IF word # <<>> /\ Head(word) = "+" THEN Tail(word) ELSE word
IsNumber(word) == Unsigned(word) # <<>> /\ Range(Unsigned(word)) \subseteq Decimal

ValueOf(digits) ==
    LET value[i \in 0..Len(digits)] ==
            IF i = 0 THEN 0 ELSE 10 * value[i - 1] + HexValue(digits[i])
    IN  value[Len(digits)]

\* u32 in the place of u16.
U32(word) == When(IsNumber(word), ValueOf(Unsigned(word)))

U16Max == 65535
U16(word) == When(IsNumber(word) /\ ValueOf(Unsigned(word)) <= U16Max, ValueOf(Unsigned(word)))

\* The digits are paired, wherever words end.
PairUp(digits) ==
    [i \in 1..Len(digits) \div 2 |->
        16 * HexValue(digits[2 * i - 1]) + HexValue(digits[2 * i])]

\* An odd digit at the end is dropped.
OddDigitIgnored(words) ==
    LET digits == FlattenSeq(words)
    IN  When(digits # <<>> /\ \A i \in DOMAIN digits : IsHexDigit(digits[i]), PairUp(digits))

ParseHexTokens(words) ==
    LET digits == FlattenSeq(words)
    IN  When(/\ \A i \in DOMAIN digits : IsHexDigit(digits[i])
             /\ digits # <<>> /\ Len(digits) % 2 = 0,
             PairUp(digits))

\* As a RECV line displays them: two digits for each byte.
FormatHexSpaced(bytes) ==
    [i \in DOMAIN bytes |-> <<Upper[(bytes[i] \div 16) + 1], Upper[(bytes[i] % 16) + 1]>>]

-----------------------------------------------------------------------------
(***************************************************************************)
(* <host>:<port>, where a host in brackets may hold colons.                *)
(***************************************************************************)
FirstOf(word, p) == {i \in DOMAIN word : word[i] = p /\ \A j \in 1..(i - 1) : word[j] # p}
LastOf(word, p)  == {i \in DOMAIN word : word[i] = p /\ \A j \in (i + 1)..Len(word) : word[j] # p}
After(word, i) == SubSeq(word, i + 1, Len(word))

HostPorts(host, word) == {[host |-> host, port |-> n] : n \in U16(word)}

Bracketed(word) ==
    UNION {HostPorts(SubSeq(word, 2, i - 1), After(word, i + 1)) :
           i \in {i \in FirstOf(word, "]") : i < Len(word) /\ word[i + 1] = ":"}}

\* split_once in the place of rsplit_once.
SplitAtFirstColon(word) ==
    IF Head(word) = "[" THEN Bracketed(word)
    ELSE UNION {HostPorts(SubSeq(word, 1, i - 1), After(word, i)) : i \in FirstOf(word, ":")}

SplitHostPort(word) ==
    IF Head(word) = "[" THEN Bracketed(word)
    ELSE UNION {HostPorts(SubSeq(word, 1, i - 1), After(word, i)) : i \in LastOf(word, ":")}

-----------------------------------------------------------------------------
(***************************************************************************)
(* Commands.                                                               *)
(***************************************************************************)
Is(word, keyword) == word = <<keyword>>
Keywords == {<<"open">>, <<"close">>, <<"label">>, <<"status">>}

OpenTcpServer(port) == [cmd |-> "OpenTcpServer", port |-> port]
OpenTcpClient(local, remote) ==
    [cmd |-> "OpenTcpClient", local_port |-> local,
     remote_host |-> remote.host, remote_port |-> remote.port]
OpenIpcServer(path)   == [cmd |-> "OpenIpcServer", path |-> path]
OpenIpcClient(path)   == [cmd |-> "OpenIpcClient", remote_path |-> path]
Close(id)             == [cmd |-> "Close", id_token |-> id]
Label(id, name)       == [cmd |-> "Label", id_token |-> id, name |-> name]
Send(id, bytes)       == [cmd |-> "Send", id_token |-> id, bytes |-> bytes]
Status                == [cmd |-> "Status"]

ParseOpenIpc(words) ==
    IF Len(words) # 2 THEN {}
    ELSE CASE Is(words[1], "server") -> {OpenIpcServer(words[2])}
           [] Is(words[1], "client") -> {OpenIpcClient(words[2])}
           [] OTHER                  -> {}

ParseOpenServer(words) ==
    IF Len(words) # 2 THEN {} ELSE {OpenTcpServer(n) : n \in U16(words[2])}

ParseOpenClient(words) ==
    IF Len(words) # 3 THEN {}
    ELSE {OpenTcpClient(n, r) : n \in U16(words[2]), r \in SplitHostPort(words[3])}

ParseOpen(words) ==
    IF words = <<>> THEN {}
    ELSE CASE Is(words[1], "server") -> ParseOpenServer(words)
           [] Is(words[1], "client") -> ParseOpenClient(words)
           [] Is(words[1], "ipc")    -> ParseOpenIpc(Tail(words))
           [] OTHER                  -> {}

\* An empty line is no command either, but not an error.
ParseLine(words) ==
    IF words = <<>> THEN {}
    ELSE CASE Is(words[1], "open")   -> ParseOpen(Tail(words))
           [] Is(words[1], "close")  -> When(Len(words) = 2, Close(words[2]))
           [] Is(words[1], "label")  -> When(Len(words) = 3, Label(words[2], words[3]))
           [] Is(words[1], "status") -> When(Len(words) = 1, Status)
           [] OTHER -> {Send(words[1], b) : b \in ParseHexTokens(Tail(words))}

-----------------------------------------------------------------------------
\* The shell passes arguments, the prompt splits a line into words that are not
\* empty.
ASSUME TextAssumption ==
    /\ \A argv \in ArgLists : argv \in Seq(Range(argv)) /\ \A arg \in Range(argv) : IsArg(arg)
    /\ Lines \subseteq Seq(Seq(STRING) \ {<<>>})

Init ==
    /\ phase = "starting" /\ args \in ArgLists
    /\ exitCode = 0 /\ level = Defaults.log_level
    /\ line = <<>> /\ outcome = {}

\* main: an argument that is not known, a request for help, or the prompt.
Starts ==
    /\ phase = "starting"
    /\ LET parsed == ParseSlice(args)
       IN  /\ phase' = IF \E cli \in parsed : ~cli.help_requested THEN "prompt" ELSE "exited"
           /\ exitCode' = IF parsed = {} THEN 2 ELSE 0
           /\ \/ parsed = {} /\ level' = level
              \/ \E cli \in parsed : level' = cli.log_level
    /\ args' = <<>>
    /\ UNCHANGED <<line, outcome>>

ReadsLine ==
    /\ phase = "prompt" /\ phase' = "read"
    /\ line' \in Lines
    /\ outcome' = ParseLine(line')
    /\ UNCHANGED <<args, exitCode, level>>

\* The command is executed, or the refusal displayed.
GoesOn ==
    /\ phase = "read" /\ phase' = "prompt"
    /\ line' = <<>> /\ outcome' = {}
    /\ UNCHANGED <<args, exitCode, level>>

Next == Starts \/ ReadsLine \/ GoesOn

Spec == Init /\ [][Next]_vars
=============================================================================
