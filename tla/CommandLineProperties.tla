----------------------- MODULE CommandLineProperties ------------------------
(***************************************************************************)
(* What a line and the arguments may mean.                                 *)
(***************************************************************************)
EXTENDS CommandLine

(***************************************************************************)
(* Every variable holds a value of its type; a port has sixteen bits, a    *)
(* byte has eight.                                                         *)
(***************************************************************************)
Port == 0..U16Max

Typed(c) ==
    CASE c.cmd = "OpenTcpServer" -> c.port \in Port
      [] c.cmd = "OpenTcpClient" -> c.local_port \in Port /\ c.remote_port \in Port
      [] c.cmd = "Send"          -> c.bytes \in Seq(0..255)
      [] OTHER -> TRUE

TypeOK ==
    /\ phase \in {"starting", "prompt", "read", "exited"}
    /\ args \in ArgLists \cup {<<>>}
    /\ exitCode \in {0, 2} /\ level \in 0..3
    /\ line \in Lines \cup {<<>>}
    /\ \A c, d \in outcome : Typed(c) /\ c = d

(***************************************************************************)
(* The grammar of the README, from the command to its spellings.  A number *)
(* may have zeros before it and a sign; the digits of a payload may be of  *)
(* either case and stand in words of any length; a host may be in brackets *)
(* and must be when it begins with one.                                    *)
(***************************************************************************)
UpperOf(p) == IF IsHexDigit(p) THEN Upper[HexValue(p) + 1] ELSE p

Numeral(n) ==
    LET numeral[m \in 0..n] ==
            Append(IF m < 10 THEN <<>> ELSE numeral[m \div 10], Lower[(m % 10) + 1])
    IN  numeral[n]

SpellsPort(word, n) ==
    \E k \in 0..Len(word) :
        /\ \A i \in 1..k : word[i] = "0" \/ (i = 1 /\ word[i] = "+")
        /\ After(word, k) = Numeral(n)

SpellsHostPort(word, host, n) ==
    \E i \in 1..Len(word) :
        /\ SpellsPort(After(word, i), n)
        /\ \/ SubSeq(word, 1, i) = host \o <<":">> /\ ~IsPrefix(<<"[">>, word)
           \/ SubSeq(word, 1, i) = <<"[">> \o host \o <<"]", ":">> /\ "]" \notin Range(host)

SpellsPayload(words, bytes) ==
    /\ bytes # <<>>
    /\ FlattenSeq(FormatHexSpaced(bytes)) =
          [i \in DOMAIN FlattenSeq(words) |-> UpperOf(FlattenSeq(words)[i])]

\* In all n words, the first ones of which are keywords.
Begins(words, keywords, n) ==
    Len(words) = n /\ \A i \in DOMAIN keywords : words[i] = <<keywords[i]>>

Spells(words, c) ==
    CASE c.cmd = "OpenTcpServer" ->
            Begins(words, <<"open", "server">>, 3) /\ SpellsPort(words[3], c.port)
      [] c.cmd = "OpenTcpClient" ->
            /\ Begins(words, <<"open", "client">>, 4)
            /\ SpellsPort(words[3], c.local_port)
            /\ SpellsHostPort(words[4], c.remote_host, c.remote_port)
      [] c.cmd = "OpenIpcServer" ->
            Begins(words, <<"open", "ipc", "server">>, 4) /\ words[4] = c.path
      [] c.cmd = "OpenIpcClient" ->
            Begins(words, <<"open", "ipc", "client">>, 4) /\ words[4] = c.remote_path
      [] c.cmd = "Close"  -> Begins(words, <<"close">>, 2) /\ words[2] = c.id_token
      [] c.cmd = "Label"  ->
            Begins(words, <<"label">>, 3) /\ words[2] = c.id_token /\ words[3] = c.name
      [] c.cmd = "Status" -> Begins(words, <<"status">>, 1)
      [] c.cmd = "Send"   ->
            words # <<>> /\ Head(words) = c.id_token /\ SpellsPayload(Tail(words), c.bytes)

(***************************************************************************)
(* A command is carried out only if the line is a spelling of it, to its   *)
(* last word and digit: nothing that was written is ignored, and a payload *)
(* displayed as RECV displays it gives the digits that were typed          *)
(* (parse_line, parse_hex_tokens, format_hex_spaced).                      *)
(***************************************************************************)
WhatIsDoneWasSaid == \A c \in outcome : Spells(line, c)

(***************************************************************************)
(* A spelling of a command is refused in one case: it is a payload for an  *)
(* id that reads like a command.  A label by such a name can be given and  *)
(* closed, but nothing can be sent to it.                                  *)
(***************************************************************************)
PiecesOf(word) == {SubSeq(word, i, j) : i, j \in 1..Len(word)}
Pieces(words)  == {<<>>} \cup UNION {PiecesOf(words[k]) : k \in DOMAIN words}
Ports(words)   == Port \cap UNION {U32(w) : w \in Pieces(words)}

ClientMeanings(words) ==
    IF Len(words) # 4 THEN {}
    ELSE {OpenTcpClient(n, r) :
          n \in Ports(words), r \in [host : Pieces(words), port : Ports(words)]}

Meanings(words) ==
    {Status}
    \cup {OpenTcpServer(n) : n \in Ports(words)}
    \cup ClientMeanings(words)
    \cup {Label(v, w) : v, w \in Range(words)}
    \cup UNION {{OpenIpcServer(w), OpenIpcClient(w), Close(w)} : w \in Range(words)}

WellFormedPayload(words) ==
    /\ Len(words) > 1 /\ Head(words) \notin Keywords
    /\ \A i \in 2..Len(words) : \A p \in Range(words[i]) : IsHexDigit(p)
    /\ Len(FlattenSeq(Tail(words))) % 2 = 0

WhatIsSaidIsDone ==
    phase = "read" /\ outcome = {} =>
        /\ ~WellFormedPayload(line)
        /\ \A c \in Meanings(line) : ~Spells(line, c)

(***************************************************************************)
(* The order of the arguments matters for the log level only, of which the *)
(* last one counts: an argument that is not known ends the program with    *)
(* code 2 even after a request for help (CliArgs::parse_slice, main).      *)
(***************************************************************************)
ArgsDecide ==
    [][phase = "starting" =>
          LET given  == Range(args)
              levels == {i \in DOMAIN args : args[i].flag = "level"}
              newest == CHOOSE i \in levels : \A j \in levels : j <= i
          IN  /\ exitCode' = 2 <=> \E arg \in given : ~Known(arg)
              /\ phase' = "exited" <=> exitCode' = 2 \/ Help \in given
              /\ exitCode' = 0 =>
                    level' = IF levels = {} THEN 1 ELSE Levels[args[newest].value]]_vars
=============================================================================
