------------------------- MODULE CommandLineProofs -------------------------
(***************************************************************************)
(* What the arguments, the lines and the payloads mean, for every text of  *)
(* every length.  The recursive functions of the model (ParseSlice,        *)
(* ValueOf, FlattenSeq) and of its properties (Numeral) are followed step  *)
(* by step, by induction over the natural numbers; what a line means is    *)
(* then put together from its words, and a word from its pieces.           *)
(***************************************************************************)
EXTENDS CommandLineProperties, SequenceTheorems, WellFoundedInduction, TLAPS

(***************************************************************************)
(* Induction.  A set of numbers that is not empty has a least element, so a*)
(* set that holds 0 and, with a number, the next one, holds all.           *)
(***************************************************************************)
Below == {p \in Nat \X Nat : p[1] < p[2]}

LEMMA BelowWellFounded == IsWellFoundedOn(Below, Nat)
  BY NatLessThanWellFounded DEF OpToRel, Below

LEMMA Least ==
  ASSUME NEW T \in SUBSET Nat, T # {}
  PROVE  \E m \in T : \A n \in T : m <= n
<1>1. PICK m \in T : \A n \in T : ~ (<<n, m>> \in Below)
  BY BelowWellFounded, WFMin
<1>2. ASSUME NEW n \in T
      PROVE  m <= n
  <2>1. m \in Nat /\ n \in Nat /\ ~ (<<n, m>> \in Below)
    BY <1>1
  <2>2. n < m => <<n, m>> \in Below
    BY <2>1 DEF Below
  <2> QED
    BY <2>1, <2>2
<1> QED
  BY <1>2

LEMMA Induction ==
  ASSUME NEW S, 0 \in S, \A n \in Nat : n \in S => n + 1 \in S
  PROVE  Nat \subseteq S
<1> SUFFICES ASSUME Nat \ S # {}
             PROVE  FALSE
  OBVIOUS
<1>1. PICK m \in Nat \ S : \A n \in Nat \ S : m <= n
  BY Least
<1>2. m # 0 /\ m - 1 \in Nat /\ m - 1 \in S
  BY <1>1
<1>3. m - 1 + 1 \in S
  BY <1>2
<1> QED
  BY <1>1, <1>2, <1>3

LEMMA UpTo ==
  ASSUME NEW n \in Nat, NEW S, n # 0 => 1 \in S,
         \A i \in 1..n : i # n /\ i \in S => i + 1 \in S
  PROVE  1..n \subseteq S
<1> DEFINE T == {k \in Nat : k + 1 <= n => k + 1 \in S}
<1>1. 0 \in T
  OBVIOUS
<1>2. \A k \in Nat : k \in T => k + 1 \in T
  OBVIOUS
<1>3. Nat \subseteq T
  <2> HIDE DEF T
  <2> QED
    BY <1>1, <1>2, Induction
<1>4. ASSUME NEW i \in 1..n
      PROVE  i \in S
  <2>1. i - 1 \in Nat /\ i - 1 + 1 = i /\ i <= n
    OBVIOUS
  <2>2. i - 1 \in T
    <3> HIDE DEF T
    <3> QED
      BY <1>3, <2>1
  <2> QED
    BY <2>1, <2>2
<1> QED
  BY <1>4

(***************************************************************************)
(* A function that is computed from its value one below exists.            *)
(***************************************************************************)
Iterates(f, x0, n, step) == f[0] = x0 /\ \A i \in 1..n : f[i] = step[<<i, f[i - 1]>>]

LEMMA Recursion ==
  ASSUME NEW X, NEW x0 \in X, NEW n \in Nat, NEW step \in [Nat \X X -> X]
  PROVE  \E f \in [0..n -> X] : Iterates(f, x0, n, step)
<1> DEFINE Good(m, f) == Iterates(f, x0, m, step)
           S == {m \in Nat : \E f \in [0..m -> X] : Good(m, f)}
<1>1. 0 \in S
  <2>1. Good(0, [i \in 0..0 |-> x0])
    BY DEF Iterates
  <2>2. [i \in 0..0 |-> x0] \in [0..0 -> X]
    OBVIOUS
  <2> QED
    BY <2>1, <2>2
<1>2. ASSUME NEW m \in Nat, m \in S
      PROVE  m + 1 \in S
  <2>1. PICK f \in [0..m -> X] : Good(m, f)
    BY <1>2
  <2> DEFINE g == [i \in 0..(m + 1) |-> IF i = m + 1 THEN step[<<m + 1, f[m]>>] ELSE f[i]]
  <2>2. step[<<m + 1, f[m]>>] \in X
    BY <2>1
  <2>3. g \in [0..(m + 1) -> X]
    BY <2>1, <2>2
  <2>4. g[0] = x0
    BY <2>1 DEF Iterates
  <2>5. ASSUME NEW i \in 1..(m + 1)
        PROVE  g[i] = step[<<i, g[i - 1]>>]
    <3>1. CASE i = m + 1
      <4>1. i - 1 = m /\ g[m] = f[m] /\ g[m + 1] = step[<<m + 1, f[m]>>]
        BY <3>1
      <4> QED
        BY <4>1, <3>1
    <3>2. CASE i # m + 1
      <4>1. i \in 1..m /\ i - 1 \in 0..m /\ g[i] = f[i] /\ g[i - 1] = f[i - 1]
        BY <3>2
      <4> QED
        BY <4>1, <2>1 DEF Iterates
    <3> QED
      BY <3>1, <3>2
  <2>6. Good(m + 1, g)
    BY <2>4, <2>5 DEF Iterates
  <2>7. \E h \in [0..(m + 1) -> X] : Good(m + 1, h)
    <3> HIDE DEF g, Good
    <3> QED
      BY <2>3, <2>6
  <2> QED
    BY <2>7
<1>3. n \in S
  <2> HIDE DEF S
  <2> QED
    BY <1>1, <1>2, Induction
<1> QED
  BY <1>3

-----------------------------------------------------------------------------
(***************************************************************************)
(* Arguments.  They are parsed one after the other (Parses); after i of    *)
(* them there is nothing, or what ParsedRight says.                        *)
(***************************************************************************)
Cli == [log_level : 0..3, help_requested : BOOLEAN]

Parses(f, argv) ==
    /\ f[0] = {Defaults}
    /\ \A i \in 1..Len(argv) : f[i] = ParseArg(f[i - 1], argv[i])

LevelIs(cli, argv, i) ==
    \/ cli.log_level = 1 /\ \A j \in 1..i : argv[j].flag # "level"
    \/ \E j \in 1..i : /\ argv[j].flag = "level" /\ \A k \in (j + 1)..i : argv[k].flag # "level"
                       /\ cli.log_level = Levels[argv[j].value]

ParsedRight(parsed, argv, i) ==
    IF \E j \in 1..i : ~Known(argv[j])
    THEN parsed = {}
    ELSE \E cli \in Cli :
            /\ parsed = {cli} /\ LevelIs(cli, argv, i)
            /\ cli.help_requested <=> \E j \in 1..i : argv[j] = Help

LEMMA ParseArgType ==
  ASSUME NEW parsed \in SUBSET Cli, NEW arg
  PROVE  ParseArg(parsed, arg) \in SUBSET Cli
<1>1. ASSUME NEW cli \in Cli, Known(arg)
      PROVE  (IF arg = Help THEN [cli EXCEPT !.help_requested = TRUE]
                            ELSE [cli EXCEPT !.log_level = Levels[arg.value]]) \in Cli
  <2>1. CASE arg = Help
    BY <2>1 DEF Cli
  <2>2. CASE arg # Help
    <3>1. Levels[arg.value] \in 0..3
      BY <1>1, <2>2 DEF Known, Levels
    <3> QED
      BY <2>2, <3>1 DEF Cli
  <2> QED
    BY <2>1, <2>2
<1> QED
  BY <1>1 DEF ParseArg

LEMMA ParseSteps ==
  ASSUME NEW argv, Len(argv) \in Nat
  PROVE  \E f : Parses(f, argv) /\ ParseSlice(argv) = f[Len(argv)]
<1> DEFINE step == [p \in Nat \X SUBSET Cli |-> ParseArg(p[2], argv[p[1]])]
           body(f) == [i \in 0..Len(argv) |->
                          IF i = 0 THEN {Defaults} ELSE ParseArg(f[i - 1], argv[i])]
           g == CHOOSE f : f = body(f)
<1>1. step \in [Nat \X SUBSET Cli -> SUBSET Cli]
  BY ParseArgType
<1>2. {Defaults} \in SUBSET Cli
  BY DEF Defaults, Cli
<1>3. PICK f \in [0..Len(argv) -> SUBSET Cli] :
         Iterates(f, {Defaults}, Len(argv), step)
  <2> DEFINE X == SUBSET Cli
             x0 == {Defaults}
  <2>1. step \in [Nat \X X -> X] /\ x0 \in X /\ Len(argv) \in Nat
    BY <1>1, <1>2
  <2> HIDE DEF step, X, x0
  <2>2. \E f \in [0..Len(argv) -> X] : Iterates(f, x0, Len(argv), step)
    BY <2>1, Recursion
  <2> QED
    BY <2>2 DEF X, x0
<1>4. ASSUME NEW i \in 1..Len(argv)
      PROVE  f[i] = ParseArg(f[i - 1], argv[i])
  <2>1. i \in Nat /\ i - 1 \in 0..Len(argv)
    OBVIOUS
  <2>2. f[i - 1] \in SUBSET Cli
    BY <1>3, <2>1
  <2> QED
    BY <1>3, <2>1, <2>2 DEF Iterates
<1>5. f = body(f)
  <2>1. f = [i \in 0..Len(argv) |-> f[i]]
    BY <1>3
  <2>2. ASSUME NEW i \in 0..Len(argv)
        PROVE  f[i] = IF i = 0 THEN {Defaults} ELSE ParseArg(f[i - 1], argv[i])
    BY <1>3, <1>4 DEF Iterates
  <2> QED
    BY <2>1, <2>2
<1>6. g = body(g)
  <2> HIDE DEF body
  <2> QED
    BY <1>5
<1>7. ParseSlice(argv) = g[Len(argv)]
  BY DEF ParseSlice
<1>8. g[0] = {Defaults} /\ \A i \in 1..Len(argv) : g[i] = ParseArg(g[i - 1], argv[i])
  <2> HIDE DEF g
  <2>1. ASSUME NEW i \in 0..Len(argv)
        PROVE  g[i] = IF i = 0 THEN {Defaults} ELSE ParseArg(g[i - 1], argv[i])
    BY <1>6
  <2>2. 0 \in 0..Len(argv) /\ \A i \in 1..Len(argv) : i \in 0..Len(argv) /\ i # 0
    OBVIOUS
  <2> HIDE DEF body
  <2> QED
    BY <2>1, <2>2
<1> QED
  BY <1>7, <1>8 DEF Parses

LEMMA ParsedNext ==
  ASSUME NEW argv, NEW i \in Nat, NEW parsed, IsArg(argv[i + 1]),
         ParsedRight(parsed, argv, i)
  PROVE  ParsedRight(ParseArg(parsed, argv[i + 1]), argv, i + 1)
<1> DEFINE arg == argv[i + 1]
<1>0. \A j \in 1..(i + 1) : j \in 1..i \/ j = i + 1
  OBVIOUS
<1>0a. i + 1 \in 1..(i + 1) /\ \A j \in 1..i : j \in 1..(i + 1)
  OBVIOUS
<1>1. CASE \E j \in 1..i : ~Known(argv[j])
  <2>1. parsed = {}
    BY <1>1 DEF ParsedRight
  <2>2. ParseArg(parsed, arg) = {}
    BY <2>1 DEF ParseArg
  <2>3. \E j \in 1..(i + 1) : ~Known(argv[j])
    BY <1>1, <1>0a
  <2> QED
    BY <2>2, <2>3 DEF ParsedRight
<1>2. CASE ~Known(arg)
  <2>1. ParseArg(parsed, arg) = {}
    BY <1>2 DEF ParseArg
  <2>2. \E j \in 1..(i + 1) : ~Known(argv[j])
    BY <1>2, <1>0a
  <2> QED
    BY <2>1, <2>2 DEF ParsedRight
<1>3. CASE Known(arg) /\ \A j \in 1..i : Known(argv[j])
  <2>1. PICK cli \in Cli : /\ parsed = {cli} /\ LevelIs(cli, argv, i)
                           /\ cli.help_requested <=> \E j \in 1..i : argv[j] = Help
    BY <1>3 DEF ParsedRight
  <2> DEFINE new == IF arg = Help THEN [cli EXCEPT !.help_requested = TRUE]
                                  ELSE [cli EXCEPT !.log_level = Levels[arg.value]]
  <2>2. ParseArg(parsed, arg) = {new}
    BY <2>1, <1>3 DEF ParseArg
  <2>3. new \in Cli
    <3>1. {new} \in SUBSET Cli
      BY <2>1, <2>2, ParseArgType
    <3> QED
      BY <3>1
  <2>4. \A j \in 1..(i + 1) : Known(argv[j])
    BY <1>3, <1>0
  <2>5. CASE arg = Help
    <3>1. new = [cli EXCEPT !.help_requested = TRUE] /\ arg.flag # "level"
      BY <2>5 DEF Help
    <3>2. new.log_level = cli.log_level /\ new.help_requested
      BY <3>1 DEF Cli
    <3>3. LevelIs(new, argv, i + 1)
      BY <2>1, <3>1, <3>2, <1>0, <1>0a DEF LevelIs
    <3>4. new.help_requested <=> \E j \in 1..(i + 1) : argv[j] = Help
      BY <3>2, <2>5, <1>0a
    <3> QED
      BY <2>2, <2>3, <2>4, <3>3, <3>4 DEF ParsedRight
  <2>6. CASE arg # Help
    <3>1. new = [cli EXCEPT !.log_level = Levels[arg.value]] /\ arg.flag = "level"
      BY <2>6, <1>3 DEF Known
    <3>2. new.log_level = Levels[arg.value] /\ new.help_requested = cli.help_requested
      BY <3>1 DEF Cli
    <3>3. LevelIs(new, argv, i + 1)
      BY <3>1, <3>2, <1>0a DEF LevelIs
    <3>4. new.help_requested <=> \E j \in 1..(i + 1) : argv[j] = Help
      BY <2>1, <3>2, <2>6, <1>0, <1>0a
    <3> QED
      BY <2>2, <2>3, <2>4, <3>3, <3>4 DEF ParsedRight
  <2> QED
    BY <2>5, <2>6
<1> QED
  BY <1>1, <1>2, <1>3

LEMMA ParsedSoFar ==
  ASSUME NEW argv, Len(argv) \in Nat, \A i \in 1..Len(argv) : IsArg(argv[i]),
         NEW f, Parses(f, argv)
  PROVE  ParsedRight(f[Len(argv)], argv, Len(argv))
<1> DEFINE S == {i \in Nat : i <= Len(argv) => ParsedRight(f[i], argv, i)}
<1>1. 0 \in S
  <2>1. f[0] = {Defaults} /\ Defaults \in Cli
    BY DEF Parses, Defaults, Cli
  <2>2. LevelIs(Defaults, argv, 0) /\ ~Defaults.help_requested
    BY DEF LevelIs, Defaults
  <2> QED
    BY <2>1, <2>2 DEF ParsedRight
<1>2. ASSUME NEW i \in Nat, i \in S
      PROVE  i + 1 \in S
  <2> SUFFICES ASSUME i + 1 <= Len(argv)
               PROVE  ParsedRight(f[i + 1], argv, i + 1)
    OBVIOUS
  <2>1. i + 1 \in 1..Len(argv) /\ i + 1 - 1 = i
    OBVIOUS
  <2>2. ParsedRight(f[i], argv, i) /\ f[i + 1] = ParseArg(f[i], argv[i + 1]) /\ IsArg(argv[i + 1])
    BY <1>2, <2>1 DEF Parses
  <2> QED
    BY <2>2, ParsedNext
<1>3. Nat \subseteq S
  <2> HIDE DEF S
  <2> QED
    BY <1>1, <1>2, Induction
<1> QED
  BY <1>3

(***************************************************************************)
(* What is parsed decides how the program starts, for any arguments.       *)
(***************************************************************************)
LEMMA ArgumentsDecide ==
  ASSUME args \in ArgLists, Starts
  PROVE  LET given  == Range(args)
             levels == {i \in DOMAIN args : args[i].flag = "level"}
             newest == CHOOSE i \in levels : \A j \in levels : j <= i
         IN  /\ exitCode' = 2 <=> \E arg \in given : ~Known(arg)
             /\ phase' = "exited" <=> exitCode' = 2 \/ Help \in given
             /\ exitCode' = 0 =>
                   level' = IF levels = {} THEN 1 ELSE Levels[args[newest].value]
<1> DEFINE n == Len(args)
           levels == {i \in DOMAIN args : args[i].flag = "level"}
           newest == CHOOSE i \in levels : \A j \in levels : j <= i
<1>1. n \in Nat /\ DOMAIN args = 1..n /\ Range(args) = {args[i] : i \in 1..n}
  BY TextAssumption DEF Range
<1>2. \A i \in 1..n : IsArg(args[i])
  BY <1>1, TextAssumption
<1>3. ParsedRight(ParseSlice(args), args, n)
  BY <1>1, <1>2, ParseSteps, ParsedSoFar
<1>4. CASE \E i \in 1..n : ~Known(args[i])
  <2>1. ParseSlice(args) = {}
    BY <1>3, <1>4 DEF ParsedRight
  <2>2. exitCode' = 2 /\ phase' = "exited"
    BY <2>1 DEF Starts
  <2> QED
    BY <2>2, <1>1, <1>4
<1>5. CASE \A i \in 1..n : Known(args[i])
  <2>1. PICK cli \in Cli : /\ ParseSlice(args) = {cli} /\ LevelIs(cli, args, n)
                           /\ cli.help_requested <=> \E j \in 1..n : args[j] = Help
    BY <1>3, <1>5 DEF ParsedRight
  <2>2. /\ phase' = IF ~cli.help_requested THEN "prompt" ELSE "exited"
        /\ exitCode' = 0 /\ level' = cli.log_level
    BY <2>1 DEF Starts
  <2>3. cli.log_level = IF levels = {} THEN 1 ELSE Levels[args[newest].value]
    <3>1. CASE levels = {}
      BY <3>1, <2>1, <1>1 DEF LevelIs
    <3>2. CASE levels # {}
      <4>1. PICK j \in 1..n : /\ args[j].flag = "level"
                              /\ \A k \in (j + 1)..n : args[k].flag # "level"
                              /\ cli.log_level = Levels[args[j].value]
        BY <3>2, <2>1, <1>1 DEF LevelIs
      <4>2. j \in levels /\ \A k \in levels : k <= j
        BY <4>1, <1>1
      <4>3. newest \in levels /\ \A k \in levels : k <= newest
        <5> HIDE DEF levels
        <5> QED
          BY <4>2
      <4>4. newest = j
        BY <4>2, <4>3, <1>1
      <4> QED
        BY <4>4, <4>1, <3>2
    <3> QED
      BY <3>1, <3>2
  <2>4. Help \in Range(args) <=> cli.help_requested
    BY <2>1, <1>1
  <2>5. ~ \E arg \in Range(args) : ~Known(arg)
    BY <1>5, <1>1
  <2> QED
    BY <2>2, <2>3, <2>4, <2>5
<1> QED
  BY <1>4, <1>5

(***************************************************************************)
(* For any arguments: the first ones matter for nothing that a later one   *)
(* decides; one that is not known ends the program with code 2.            *)
(***************************************************************************)
THEOREM ArgumentTheorem == Spec => ArgsDecide
<1> DEFINE Given == phase = "starting" => args \in ArgLists
<1>1. Init => Given
  BY DEF Init
<1>2. Given /\ [Next]_vars => Given'
  BY DEF Next, Starts, ReadsLine, GoesOn, vars
<1>3. Given /\ [Next]_vars =>
         [phase = "starting" =>
             LET given  == Range(args)
                 levels == {i \in DOMAIN args : args[i].flag = "level"}
                 newest == CHOOSE i \in levels : \A j \in levels : j <= i
             IN  /\ exitCode' = 2 <=> \E arg \in given : ~Known(arg)
                 /\ phase' = "exited" <=> exitCode' = 2 \/ Help \in given
                 /\ exitCode' = 0 =>
                       level' = IF levels = {} THEN 1 ELSE Levels[args[newest].value]]_vars
  <2> SUFFICES ASSUME Given, Next, phase = "starting"
               PROVE  LET given  == Range(args)
                          levels == {i \in DOMAIN args : args[i].flag = "level"}
                          newest == CHOOSE i \in levels : \A j \in levels : j <= i
                      IN  /\ exitCode' = 2 <=> \E arg \in given : ~Known(arg)
                          /\ phase' = "exited" <=> exitCode' = 2 \/ Help \in given
                          /\ exitCode' = 0 =>
                                level' = IF levels = {} THEN 1
                                         ELSE Levels[args[newest].value]
    BY DEF vars
  <2>1. args \in ArgLists /\ Starts
    BY DEF Next, ReadsLine, GoesOn
  <2> QED
    BY <2>1, ArgumentsDecide
<1> QED
  BY <1>1, <1>2, <1>3, PTL DEF Spec, ArgsDecide

-----------------------------------------------------------------------------
(***************************************************************************)
(* Digits and their values.                                                *)
(***************************************************************************)
LEMMA DigitsDiffer ==
  /\ \A i, j \in 1..16 : Lower[i] = Lower[j] => i = j
  /\ \A i, j \in 1..16 : Upper[i] = Upper[j] => i = j
  /\ \A i, j \in 1..16 : Lower[i] = Upper[j] => i = j
  BY SMTT(60) DEF Lower, Upper

LEMMA HexValues ==
  ASSUME NEW i \in 1..16, NEW p \in {Lower[i], Upper[i]}
  PROVE  HexValue(p) = i - 1
<1> DEFINE j == CHOOSE k \in 1..16 : p \in {Lower[k], Upper[k]}
<1>1. j \in 1..16 /\ p \in {Lower[j], Upper[j]}
  OBVIOUS
<1>2. j = i
  BY <1>1, DigitsDiffer
<1> QED
  BY <1>2 DEF HexValue

LEMMA DecimalValue ==
  ASSUME NEW p \in Decimal
  PROVE  HexValue(p) \in 0..9 /\ p = Lower[HexValue(p) + 1]
<1>1. PICK i \in 1..10 : p = Lower[i]
  BY DEF Decimal
<1>2. i \in 1..16 /\ HexValue(p) = i - 1
  BY <1>1, HexValues
<1> QED
  BY <1>1, <1>2

LEMMA HexDigitValue ==
  ASSUME NEW p, IsHexDigit(p)
  PROVE  /\ HexValue(p) \in 0..15
         /\ p \in {Lower[HexValue(p) + 1], Upper[HexValue(p) + 1]}
<1>1. PICK i \in 1..16 : p \in {Lower[i], Upper[i]}
  BY DEF IsHexDigit
<1>2. HexValue(p) = i - 1
  BY <1>1, HexValues
<1> QED
  BY <1>1, <1>2

Values(v, digits) ==
    /\ v[0] = 0
    /\ \A i \in 1..Len(digits) : v[i] = 10 * v[i - 1] + HexValue(digits[i])

LEMMA ValueSteps ==
  ASSUME NEW digits \in Seq(Decimal)
  PROVE  \E v : /\ Values(v, digits) /\ ValueOf(digits) = v[Len(digits)]
                /\ \A i \in 0..Len(digits) : v[i] \in Nat
<1> DEFINE n == Len(digits)
           step == [p \in Nat \X Nat |->
                       IF p[1] \in 1..n THEN 10 * p[2] + HexValue(digits[p[1]]) ELSE 0]
           body(f) == [i \in 0..Len(digits) |->
                          IF i = 0 THEN 0 ELSE 10 * f[i - 1] + HexValue(digits[i])]
           g == CHOOSE f : f = body(f)
<1>0. n \in Nat
  OBVIOUS
<1>1. step \in [Nat \X Nat -> Nat]
  <2>1. ASSUME NEW i \in 1..n
        PROVE  HexValue(digits[i]) \in Nat
    BY DecimalValue
  <2> QED
    BY <2>1
<1>2. PICK f \in [0..n -> Nat] : Iterates(f, 0, n, step)
  <2>1. 0 \in Nat
    OBVIOUS
  <2> HIDE DEF step, n
  <2> QED
    BY <1>0, <1>1, <2>1, Recursion
<1>3. ASSUME NEW i \in 1..n, NEW x \in Nat
      PROVE  step[<<i, x>>] = 10 * x + HexValue(digits[i])
  <2>1. i \in Nat
    OBVIOUS
  <2> QED
    BY <2>1
<1>4. ASSUME NEW i \in 1..n
      PROVE  f[i] = 10 * f[i - 1] + HexValue(digits[i])
  <2>1. i - 1 \in 0..n
    OBVIOUS
  <2>2. f[i - 1] \in Nat
    BY <1>2, <2>1
  <2>3. f[i] = step[<<i, f[i - 1]>>]
    BY <1>2 DEF Iterates
  <2> HIDE DEF step
  <2> QED
    BY <2>2, <2>3, <1>3
<1>5. f = body(f)
  <2>1. f = [i \in 0..n |-> f[i]]
    BY <1>2
  <2>2. ASSUME NEW i \in 0..n
        PROVE  f[i] = IF i = 0 THEN 0 ELSE 10 * f[i - 1] + HexValue(digits[i])
    BY <1>2, <1>4 DEF Iterates
  <2> QED
    BY <2>1, <2>2
<1>6. g = body(g)
  <2> HIDE DEF body
  <2> QED
    BY <1>5
<1>7. ValueOf(digits) = g[n]
  BY DEF ValueOf
<1>8. Values(g, digits)
  <2> HIDE DEF g
  <2>1. ASSUME NEW i \in 0..n
        PROVE  g[i] = IF i = 0 THEN 0 ELSE 10 * g[i - 1] + HexValue(digits[i])
    BY <1>6
  <2>2. 0 \in 0..n /\ \A i \in 1..n : i \in 0..n /\ i # 0
    OBVIOUS
  <2> HIDE DEF body
  <2> QED
    BY <2>1, <2>2 DEF Values
<1>9. \A i \in 0..n : g[i] \in Nat
  <2> DEFINE S == {i \in Nat : i <= n => g[i] \in Nat}
  <2>1. 0 \in S
    BY <1>8 DEF Values
  <2>2. ASSUME NEW i \in Nat, i \in S
        PROVE  i + 1 \in S
    <3> HIDE DEF g
    <3> SUFFICES ASSUME i + 1 <= n
                 PROVE  g[i + 1] \in Nat
      OBVIOUS
    <3>1. i + 1 \in 1..n /\ i + 1 - 1 = i /\ g[i] \in Nat
      BY <2>2
    <3>2. digits[i + 1] \in Decimal
      BY <3>1
    <3>3. HexValue(digits[i + 1]) \in 0..9
      BY <3>2, DecimalValue
    <3> QED
      BY <1>8, <3>1, <3>3, SMTT(60) DEF Values
  <2>3. Nat \subseteq S
    <3> HIDE DEF S
    <3> QED
      BY <2>1, <2>2, Induction
  <2> QED
    BY <2>3
<1> QED
  BY <1>7, <1>8, <1>9

(***************************************************************************)
(* Numerals: all but the last digit are the numeral of a tenth.            *)
(***************************************************************************)
Digit(m) == Lower[(m % 10) + 1]

Numerals(f, n) ==
    \A m \in 0..n : f[m] = Append(IF m < 10 THEN <<>> ELSE f[m \div 10], Digit(m))

LEMMA DigitType ==
  ASSUME NEW m \in Nat
  PROVE  Digit(m) \in Decimal /\ HexValue(Digit(m)) = m % 10
<1>1. m % 10 \in 0..9
  OBVIOUS
<1>2. (m % 10) + 1 \in 1..10 /\ (m % 10) + 1 \in 1..16
  BY <1>1
<1>3. Lower[(m % 10) + 1] \in Decimal
  BY <1>2 DEF Decimal
<1>4. HexValue(Lower[(m % 10) + 1]) = (m % 10) + 1 - 1
  BY <1>2, HexValues
<1> QED
  BY <1>1, <1>3, <1>4 DEF Digit

LEMMA NumeralsExist ==
  ASSUME NEW n \in Nat
  PROVE  \E f \in [0..n -> Seq(Decimal)] : Numerals(f, n)
<1> DEFINE S == {k \in Nat : \E f \in [0..k -> Seq(Decimal)] : Numerals(f, k)}
<1>1. 0 \in S
  <2> DEFINE f == [m \in 0..0 |-> <<Digit(0)>>]
  <2>1. Digit(0) \in Decimal
    BY DigitType
  <2>2. f \in [0..0 -> Seq(Decimal)]
    BY <2>1
  <2>3. f[0] = Append(<<>>, Digit(0))
    BY <2>1
  <2>4. Numerals(f, 0)
    BY <2>3 DEF Numerals
  <2>5. \E h \in [0..0 -> Seq(Decimal)] : Numerals(h, 0)
    <3> HIDE DEF f
    <3> QED
      BY <2>2, <2>4
  <2> QED
    BY <2>5
<1>2. ASSUME NEW k \in Nat, k \in S
      PROVE  k + 1 \in S
  <2>1. PICK f \in [0..k -> Seq(Decimal)] : Numerals(f, k)
    BY <1>2
  <2> DEFINE rest == IF k + 1 < 10 THEN <<>> ELSE f[(k + 1) \div 10]
             g == [m \in 0..(k + 1) |-> IF m = k + 1 THEN Append(rest, Digit(k + 1)) ELSE f[m]]
  <2>2. ASSUME NEW m \in 0..(k + 1), ~ (m < 10)
        PROVE  m \div 10 \in 0..k
    BY <2>2
  <2>3. Append(rest, Digit(k + 1)) \in Seq(Decimal)
    <3>1. rest \in Seq(Decimal)
      <4>1. CASE k + 1 < 10
        BY <4>1
      <4>2. CASE ~ (k + 1 < 10)
        <5>1. (k + 1) \div 10 \in 0..k
          BY <2>2, <4>2
        <5> QED
          BY <5>1, <4>2, <2>1
      <4> QED
        BY <4>1, <4>2
    <3>2. Digit(k + 1) \in Decimal
      BY DigitType
    <3> HIDE DEF rest
    <3> QED
      BY <3>1, <3>2
  <2>4. g \in [0..(k + 1) -> Seq(Decimal)]
    BY <2>1, <2>3
  <2>5. ASSUME NEW m \in 0..(k + 1)
        PROVE  g[m] = Append(IF m < 10 THEN <<>> ELSE g[m \div 10], Digit(m))
    <3>1. m >= 10 => m \div 10 \in 0..k /\ g[m \div 10] = f[m \div 10]
      BY <2>2
    <3>2. CASE m = k + 1
      BY <3>1, <3>2
    <3>3. CASE m # k + 1
      <4>1. m \in 0..k /\ g[m] = f[m]
        BY <3>3
      <4>2. f[m] = Append(IF m < 10 THEN <<>> ELSE f[m \div 10], Digit(m))
        BY <4>1, <2>1 DEF Numerals
      <4> HIDE DEF g
      <4>3. CASE m < 10
        BY <4>1, <4>2, <4>3
      <4>4. CASE m >= 10
        <5>1. ~ (m < 10) /\ g[m \div 10] = f[m \div 10]
          BY <3>1, <4>4
        <5> QED
          BY <5>1, <4>1, <4>2
      <4> QED
        BY <4>3, <4>4
    <3> QED
      BY <3>2, <3>3
  <2>6. Numerals(g, k + 1)
    <3> HIDE DEF g
    <3> QED
      BY <2>5 DEF Numerals
  <2>7. \E h \in [0..(k + 1) -> Seq(Decimal)] : Numerals(h, k + 1)
    <3> HIDE DEF g
    <3> QED
      BY <2>4, <2>6
  <2> QED
    BY <2>7
<1>3. n \in S
  <2> HIDE DEF S
  <2> QED
    BY <1>1, <1>2, Induction
<1> QED
  BY <1>3

LEMMA NumeralsAgree ==
  ASSUME NEW n \in Nat, NEW k \in Nat, NEW f, NEW g, Numerals(f, n), Numerals(g, k)
  PROVE  \A m \in Nat : m <= n /\ m <= k => f[m] = g[m]
<1> DEFINE T == {m \in Nat : m <= n /\ m <= k /\ f[m] # g[m]}
<1> SUFFICES ASSUME T # {}
             PROVE  FALSE
  OBVIOUS
<1>1. PICK m \in T : \A j \in T : m <= j
  <2>1. T \in SUBSET Nat
    OBVIOUS
  <2> HIDE DEF T
  <2> QED
    BY <2>1, Least
<1>2. m \in 0..n /\ m \in 0..k /\ f[m] # g[m] /\ m \in Nat
  BY <1>1
<1>3. /\ f[m] = Append(IF m < 10 THEN <<>> ELSE f[m \div 10], Digit(m))
      /\ g[m] = Append(IF m < 10 THEN <<>> ELSE g[m \div 10], Digit(m))
  BY <1>2 DEF Numerals
<1>4. ~ (m < 10) => m \div 10 \in Nat /\ m \div 10 < m
  BY <1>2
<1>5. ~ (m < 10) => f[m \div 10] = g[m \div 10]
  BY <1>1, <1>2, <1>4
<1> QED
  BY <1>2, <1>3, <1>5

LEMMA NumeralSteps ==
  ASSUME NEW n \in Nat
  PROVE  /\ Numeral(n) \in Seq(Decimal)
         /\ Numeral(n) = Append(IF n < 10 THEN <<>> ELSE Numeral(n \div 10), Digit(n))
<1> DEFINE body(k, f) == [m \in 0..k |->
                            Append(IF m < 10 THEN <<>> ELSE f[m \div 10], Lower[(m % 10) + 1])]
           h(k) == CHOOSE f : f = body(k, f)
<1>1. ASSUME NEW k \in Nat
      PROVE  Numerals(h(k), k) /\ Numeral(k) = h(k)[k]
  <2>1. PICK f \in [0..k -> Seq(Decimal)] : Numerals(f, k)
    BY NumeralsExist
  <2>2. f = body(k, f)
    <3>1. f = [m \in 0..k |-> f[m]]
      BY <2>1
    <3> QED
      BY <2>1, <3>1 DEF Numerals, Digit
  <2>3. h(k) = body(k, h(k))
    <3> HIDE DEF body
    <3> QED
      BY <2>2
  <2>4. Numeral(k) = h(k)[k]
    BY DEF Numeral
  <2>5. Numerals(h(k), k)
    <3> HIDE DEF h
    <3>1. ASSUME NEW m \in 0..k
          PROVE  h(k)[m] = Append(IF m < 10 THEN <<>> ELSE h(k)[m \div 10], Lower[(m % 10) + 1])
      BY <2>3
    <3> HIDE DEF body
    <3> QED
      BY <3>1 DEF Numerals, Digit
  <2> QED
    BY <2>4, <2>5
<1> HIDE DEF h
<1>2. Numeral(n) = Append(IF n < 10 THEN <<>> ELSE h(n)[n \div 10], Digit(n))
  <2>1. Numerals(h(n), n) /\ Numeral(n) = h(n)[n] /\ n \in 0..n
    BY <1>1
  <2> QED
    BY <2>1 DEF Numerals
<1>3. ~ (n < 10) => Numeral(n \div 10) = h(n)[n \div 10]
  <2> SUFFICES ASSUME ~ (n < 10)
               PROVE  Numeral(n \div 10) = h(n)[n \div 10]
    OBVIOUS
  <2> DEFINE k == n \div 10
  <2>1. k \in Nat /\ k <= n
    OBVIOUS
  <2> HIDE DEF k
  <2>2. Numerals(h(k), k) /\ Numerals(h(n), n) /\ Numeral(k) = h(k)[k]
    BY <2>1, <1>1
  <2>3. h(k)[k] = h(n)[k]
    BY <2>1, <2>2, NumeralsAgree
  <2> QED
    BY <2>2, <2>3 DEF k
<1>4. Numeral(n) \in Seq(Decimal)
  <2>1. PICK f \in [0..n -> Seq(Decimal)] : Numerals(f, n)
    BY NumeralsExist
  <2>2. Numerals(h(n), n) /\ Numeral(n) = h(n)[n]
    BY <1>1
  <2>3. f[n] = h(n)[n]
    BY <2>1, <2>2, NumeralsAgree
  <2> QED
    BY <2>1, <2>2, <2>3
<1> QED
  BY <1>2, <1>3, <1>4

LEMMA LongerSubSeq ==
  ASSUME NEW S, NEW s \in Seq(S), NEW k \in Nat, NEW i \in Nat, k <= i, i + 1 <= Len(s)
  PROVE  SubSeq(s, k + 1, i + 1) = Append(SubSeq(s, k + 1, i), s[i + 1])
<1>1. \A j \in (k + 1)..(i + 1) : s[j] \in S
  OBVIOUS
<1>2. /\ SubSeq(s, k + 1, i) \in Seq(S) /\ Len(SubSeq(s, k + 1, i)) = i - k
      /\ \A j \in 1..(i - k) : SubSeq(s, k + 1, i)[j] = s[k + j]
  OBVIOUS
<1>3. /\ SubSeq(s, k + 1, i + 1) \in Seq(S) /\ Len(SubSeq(s, k + 1, i + 1)) = i + 1 - k
      /\ \A j \in 1..(i + 1 - k) : SubSeq(s, k + 1, i + 1)[j] = s[k + j]
  OBVIOUS
<1> DEFINE t == Append(SubSeq(s, k + 1, i), s[i + 1])
<1>4. /\ t \in Seq(S) /\ Len(t) = i + 1 - k
      /\ \A j \in 1..(i + 1 - k) : t[j] = s[k + j]
  BY <1>1, <1>2
<1> HIDE DEF t
<1>5. SubSeq(s, k + 1, i + 1) = t
  BY <1>3, <1>4, SeqEqual
<1> QED
  BY <1>5 DEF t

LEMMA ShortNumeral ==
  ASSUME NEW n \in Nat, n < 10
  PROVE  Numeral(n) = <<Digit(n)>>
<1>1. Digit(n) \in Decimal
  BY DigitType
<1>2. Numeral(n) = Append(<<>>, Digit(n))
  <2>1. Numeral(n) = Append(IF n < 10 THEN <<>> ELSE Numeral(n \div 10), Digit(n))
    BY NumeralSteps
  <2> QED
    BY <2>1
<1>3. Append(<<>>, Digit(n)) = <<Digit(n)>>
  BY <1>1
<1> QED
  BY <1>2, <1>3

LEMMA LongNumeral ==
  ASSUME NEW n \in Nat, ~ (n < 10)
  PROVE  Numeral(n) = Append(Numeral(n \div 10), Digit(n))
<1>1. Numeral(n) = Append(IF n < 10 THEN <<>> ELSE Numeral(n \div 10), Digit(n))
  BY NumeralSteps
<1> QED
  BY <1>1

LEMMA SingleSubSeq ==
  ASSUME NEW S, NEW s \in Seq(S), NEW i \in 1..Len(s)
  PROVE  SubSeq(s, i, i) = <<s[i]>>
<1>1. /\ SubSeq(s, i, i) \in Seq(S) /\ Len(SubSeq(s, i, i)) = 1
      /\ SubSeq(s, i, i)[1] = s[i]
  OBVIOUS
<1>2. s[i] \in S
  OBVIOUS
<1>3. <<s[i]>> \in Seq(S) /\ Len(<<s[i]>>) = 1 /\ <<s[i]>>[1] = s[i]
  BY <1>2
<1> DEFINE t == SubSeq(s, i, i)
           u == <<s[i]>>
<1>4. t \in Seq(S) /\ u \in Seq(S) /\ Len(t) = Len(u) /\ \A j \in 1..Len(t) : t[j] = u[j]
  BY <1>1, <1>3
<1> HIDE DEF t, u
<1>5. t = u
  BY <1>4, SeqEqual
<1> QED
  BY <1>5 DEF t, u

(***************************************************************************)
(* A number that was written is its numeral, but for zeros before it, and  *)
(* a numeral, with zeros or not, has the value it is the numeral of.       *)
(***************************************************************************)
LEMMA DigitOfValue ==
  ASSUME NEW x \in Nat, NEW p \in Decimal, NEW y, y = 10 * x + HexValue(p)
  PROVE  y \in Nat /\ y \div 10 = x /\ Digit(y) = p /\ (y < 10 <=> x = 0)
<1> DEFINE d == HexValue(p)
<1>1. d \in 0..9 /\ p = Lower[d + 1] /\ y = 10 * x + d
  BY DecimalValue
<1> HIDE DEF d
<1>2. y \in Nat /\ y \div 10 = x /\ y % 10 = d /\ (y < 10 <=> x = 0)
  BY <1>1
<1>3. Digit(y) = p
  BY <1>1, <1>2 DEF Digit
<1> QED
  BY <1>2, <1>3

LEMMA ZeroNumeral == Numeral(0) = <<"0">> /\ "0" \in Decimal /\ HexValue("0") = 0
<1>1. Digit(0) = "0" /\ 0 < 10
  BY DEF Digit, Lower
<1>2. Numeral(0) = <<Digit(0)>>
  BY ShortNumeral
<1> QED
  BY <1>1, <1>2, DigitType

LEMMA NumeralOfValue ==
  ASSUME NEW digits \in Seq(Decimal), digits # <<>>, NEW v, Values(v, digits),
         \A i \in 0..Len(digits) : v[i] \in Nat
  PROVE  \E k \in 0..Len(digits) :
            /\ \A j \in 1..k : digits[j] = "0"
            /\ After(digits, k) = Numeral(v[Len(digits)])
<1> DEFINE Spelled(i) == \E k \in 0..i : /\ k < i /\ \A j \in 1..k : digits[j] = "0"
                                         /\ SubSeq(digits, k + 1, i) = Numeral(v[i])
           S == {i \in Nat : i + 1 <= Len(digits) => Spelled(i + 1)}
<1>0. Len(digits) \in Nat /\ Len(digits) # 0
  OBVIOUS
<1>1. 0 \in S
  <2>1. digits[1] \in Decimal /\ v[0] = 0 /\ v[1] = 10 * v[0] + HexValue(digits[1])
    BY <1>0 DEF Values
  <2>2. v[1] \in Nat /\ v[1] < 10 /\ Digit(v[1]) = digits[1]
    <3>1. 0 \in Nat /\ v[1] = 10 * 0 + HexValue(digits[1])
      BY <2>1
    <3> QED
      BY <2>1, <3>1, DigitOfValue
  <2>3. Numeral(v[1]) = <<digits[1]>>
    BY <2>2, ShortNumeral
  <2>4. SubSeq(digits, 1, 1) = <<digits[1]>>
    BY <1>0, SingleSubSeq
  <2>5. Spelled(1)
    BY <2>3, <2>4
  <2> QED
    BY <2>5
<1>2. ASSUME NEW h \in Nat, h \in S
      PROVE  h + 1 \in S
  <2> SUFFICES ASSUME h + 1 + 1 <= Len(digits)
               PROVE  Spelled(h + 1 + 1)
    OBVIOUS
  <2> DEFINE i == h + 1
  <2>0. i \in Nat /\ i \in 0..Len(digits) /\ i + 1 \in 1..Len(digits) /\ i + 1 - 1 = i /\ i # 0
    OBVIOUS
  <2>1. Spelled(i)
    BY <1>2
  <2> HIDE DEF i
  <2>2. v[i] \in Nat /\ digits[i + 1] \in Decimal /\ v[i + 1] = 10 * v[i] + HexValue(digits[i + 1])
    BY <2>0 DEF Values
  <2>3. /\ v[i + 1] \in Nat /\ v[i + 1] \div 10 = v[i] /\ Digit(v[i + 1]) = digits[i + 1]
        /\ v[i + 1] < 10 <=> v[i] = 0
    BY <2>2, DigitOfValue
  <2>4. PICK k \in 0..i : /\ k < i /\ \A j \in 1..k : digits[j] = "0"
                          /\ SubSeq(digits, k + 1, i) = Numeral(v[i])
    BY <2>1
  <2>5. ASSUME v[i] = 0
        PROVE  Spelled(i + 1)
    <3>1. Numeral(v[i + 1]) = <<digits[i + 1]>>
      BY <2>3, <2>5, ShortNumeral
    <3>2. SubSeq(digits, i + 1, i + 1) = <<digits[i + 1]>>
      BY <2>0, SingleSubSeq
    <3>3. SubSeq(digits, k + 1, i) = <<"0">>
      BY <2>4, <2>5, ZeroNumeral
    <3>4. Len(SubSeq(digits, k + 1, i)) = i - k /\ SubSeq(digits, k + 1, i)[1] = digits[k + 1]
      BY <2>0, <2>4
    <3>5. Len(<<"0">>) = 1 /\ <<"0">>[1] = "0"
      OBVIOUS
    <3>5a. i = k + 1 /\ digits[i] = "0"
      <4>1. i - k = 1 /\ digits[k + 1] = "0"
        BY <3>3, <3>4, <3>5
      <4> QED
        BY <4>1, <2>0
    <3>6. \A j \in 1..i : digits[j] = "0"
      BY <3>5a, <2>4, <2>0
    <3>7. i \in 0..(i + 1) /\ i < i + 1
      BY <2>0
    <3> QED
      BY <3>1, <3>2, <3>6, <3>7
  <2>6. ASSUME v[i] # 0
        PROVE  Spelled(i + 1)
    <3>1. Numeral(v[i + 1]) = Append(Numeral(v[i]), digits[i + 1])
      BY <2>3, <2>6, LongNumeral
    <3>2. SubSeq(digits, k + 1, i + 1) = Append(SubSeq(digits, k + 1, i), digits[i + 1])
      BY <2>0, <2>4, LongerSubSeq
    <3>3. SubSeq(digits, k + 1, i + 1) = Numeral(v[i + 1])
      BY <3>1, <3>2, <2>4
    <3>4. k \in 0..(i + 1) /\ k < i + 1
      BY <2>0, <2>4
    <3> QED
      BY <3>3, <3>4, <2>4
  <2>7. Spelled(i + 1)
    BY <2>5, <2>6
  <2> QED
    BY <2>7 DEF i
<1>3. Nat \subseteq S
  <2> HIDE DEF S
  <2> QED
    BY <1>1, <1>2, Induction
<1>4. Len(digits) - 1 \in Nat /\ Len(digits) - 1 + 1 = Len(digits)
  BY <1>0
<1>5. Spelled(Len(digits))
  <2>1. Len(digits) - 1 \in S
    BY <1>3, <1>4
  <2> QED
    BY <2>1, <1>4
<1> QED
  BY <1>5 DEF After

LEMMA NumeralSplits ==
  ASSUME NEW n \in Nat
  PROVE  /\ Len(Numeral(n)) \in Nat /\ Len(Numeral(n)) >= 1
         /\ Numeral(n)[Len(Numeral(n))] = Digit(n)
         /\ ~ (n < 10) => /\ Len(Numeral(n)) = Len(Numeral(n \div 10)) + 1
                          /\ \A i \in 1..Len(Numeral(n \div 10)) :
                                Numeral(n)[i] = Numeral(n \div 10)[i]
         /\ n < 10 => Len(Numeral(n)) = 1
<1>1. Digit(n) \in Decimal
  BY DigitType
<1>2. CASE n < 10
  BY <1>1, <1>2, ShortNumeral
<1>3. CASE ~ (n < 10)
  <2>1. n \div 10 \in Nat
    OBVIOUS
  <2>2. Numeral(n \div 10) \in Seq(Decimal)
    BY <2>1, NumeralSteps
  <2>3. Numeral(n) = Append(Numeral(n \div 10), Digit(n))
    BY <1>3, LongNumeral
  <2> QED
    BY <1>1, <1>3, <2>2, <2>3
<1> QED
  BY <1>2, <1>3

LEMMA ValueOfNumeral ==
  ASSUME NEW digits \in Seq(Decimal), NEW v, Values(v, digits),
         NEW k \in Nat, \A j \in 1..k : digits[j] = "0",
         NEW n \in Nat, After(digits, k) = Numeral(n), k <= Len(digits)
  PROVE  v[Len(digits)] = n
<1> DEFINE Read(j) == \A m \in Nat : SubSeq(digits, k + 1, k + j) = Numeral(m) => v[k + j] = m
           Z == {i \in Nat : i <= k => v[i] = 0}
           S == {j \in Nat : k + j <= Len(digits) => Read(j)}
<1>0. Len(digits) \in Nat
  OBVIOUS
<1>1. v[k] = 0
  <2>1. 0 \in Z
    BY DEF Values
  <2>2. ASSUME NEW i \in Nat, i \in Z
        PROVE  i + 1 \in Z
    <3> SUFFICES ASSUME i + 1 <= k
                 PROVE  v[i + 1] = 0
      OBVIOUS
    <3>1. i + 1 \in 1..Len(digits) /\ i + 1 \in 1..k /\ i + 1 - 1 = i /\ v[i] = 0
      BY <2>2, <1>0
    <3>2. v[i + 1] = 10 * 0 + HexValue("0")
      BY <3>1 DEF Values
    <3> QED
      BY <3>2, ZeroNumeral
  <2>3. Nat \subseteq Z
    <3> HIDE DEF Z
    <3> QED
      BY <2>1, <2>2, Induction
  <2> QED
    BY <2>3
<1>2. 0 \in S
  <2> SUFFICES ASSUME NEW m \in Nat, SubSeq(digits, k + 1, k + 0) = Numeral(m)
               PROVE  FALSE
    OBVIOUS
  <2>1. Len(SubSeq(digits, k + 1, k + 0)) = 0
    BY <1>0
  <2> QED
    BY <2>1, NumeralSplits
<1>3. ASSUME NEW j \in Nat, j \in S
      PROVE  j + 1 \in S
  <2> SUFFICES ASSUME k + (j + 1) <= Len(digits), NEW m \in Nat,
                      SubSeq(digits, k + 1, k + (j + 1)) = Numeral(m)
               PROVE  v[k + (j + 1)] = m
    OBVIOUS
  <2> DEFINE i == k + j
             s == SubSeq(digits, k + 1, i)
  <2>1. /\ i \in Nat /\ i + 1 = k + (j + 1) /\ k <= i /\ i + 1 <= Len(digits)
        /\ i + 1 \in 1..Len(digits) /\ i + 1 - 1 = i
    BY <1>0
  <2>2. Read(j)
    BY <1>3, <2>1
  <2>3. SubSeq(digits, k + 1, i + 1) = Numeral(m)
    BY <2>1
  <2>4. v[i + 1] = 10 * v[i] + HexValue(digits[i + 1])
    BY <2>1 DEF Values
  <2>5. /\ Len(SubSeq(digits, k + 1, i + 1)) = j + 1
        /\ SubSeq(digits, k + 1, i + 1)[j + 1] = digits[i + 1]
        /\ \A l \in 1..j : SubSeq(digits, k + 1, i + 1)[l] = digits[k + l]
    BY <2>1
  <2>6. s \in Seq(Decimal) /\ Len(s) = j /\ \A l \in 1..j : s[l] = digits[k + l]
    BY <2>1
  <2>7. digits[i + 1] = Digit(m)
    BY <2>3, <2>5, NumeralSplits
  <2>8. HexValue(digits[i + 1]) = m % 10
    BY <2>7, DigitType
  <2>9. CASE m < 10
    <3>1. j + 1 = 1
      BY <2>3, <2>5, <2>9, NumeralSplits
    <3>2. i = k
      BY <3>1
    <3>3. v[i + 1] = 10 * 0 + (m % 10)
      BY <3>2, <2>4, <2>8, <1>1
    <3>4. m % 10 = m
      BY <2>9
    <3> QED
      BY <3>3, <3>4, <2>1
  <2>10. CASE ~ (m < 10)
    <3> DEFINE t == Numeral(m \div 10)
    <3>1. m \div 10 \in Nat /\ t \in Seq(Decimal)
      <4>1. m \div 10 \in Nat
        OBVIOUS
      <4> QED
        BY <4>1, NumeralSteps
    <3>2. Len(t) + 1 = j + 1 /\ \A l \in 1..Len(t) : Numeral(m)[l] = t[l]
      BY <2>3, <2>5, <2>10, NumeralSplits
    <3>3. Len(t) = j /\ \A l \in 1..j : t[l] = digits[k + l]
      <4>1. Len(t) = j
        BY <3>1, <3>2
      <4> HIDE DEF t
      <4> QED
        BY <4>1, <3>2, <2>3, <2>5
    <3>4. s = t
      <4> HIDE DEF s, t
      <4> QED
        BY <2>6, <3>1, <3>3, SeqEqual
    <3>5. v[i] = m \div 10
      BY <2>2, <3>1, <3>4
    <3>6. v[i + 1] = 10 * (m \div 10) + (m % 10)
      BY <3>5, <2>4, <2>8
    <3>7. 10 * (m \div 10) + (m % 10) = m
      OBVIOUS
    <3> QED
      BY <3>6, <3>7, <2>1
  <2> QED
    BY <2>9, <2>10
<1>4. Nat \subseteq S
  <2> HIDE DEF S
  <2> QED
    BY <1>2, <1>3, Induction
<1>5. Len(digits) - k \in Nat /\ k + (Len(digits) - k) = Len(digits)
  BY <1>0
<1>6. Read(Len(digits) - k)
  BY <1>4, <1>5
<1> QED
  BY <1>5, <1>6 DEF After

LEMMA AfterProperties ==
  ASSUME NEW S, NEW s \in Seq(S), NEW k \in 0..Len(s)
  PROVE  /\ After(s, k) \in Seq(S) /\ Len(After(s, k)) = Len(s) - k
         /\ \A j \in 1..(Len(s) - k) : After(s, k)[j] = s[k + j]
  BY DEF After

LEMMA AfterTail ==
  ASSUME NEW S, NEW s \in Seq(S), s # <<>>, NEW k \in Nat, k + 1 <= Len(s)
  PROVE  /\ Tail(s) \in Seq(S) /\ Len(Tail(s)) = Len(s) - 1
         /\ \A j \in 1..(Len(s) - 1) : Tail(s)[j] = s[j + 1]
         /\ After(Tail(s), k) = After(s, k + 1)
<1>1. /\ Tail(s) \in Seq(S) /\ Len(Tail(s)) = Len(s) - 1
      /\ \A j \in 1..(Len(s) - 1) : Tail(s)[j] = s[j + 1]
  OBVIOUS
<1> DEFINE n == Len(s) - 1 - k
           t == After(Tail(s), k)
           u == After(s, k + 1)
<1>2. n \in Nat /\ Len(s) \in Nat
  OBVIOUS
<1>3. t \in Seq(S) /\ Len(t) = n /\ \A j \in 1..n : t[j] = s[j + k + 1]
  <2> DEFINE w == Tail(s)
  <2>1. w \in Seq(S) /\ Len(w) - k = n /\ k \in 0..Len(w)
    BY <1>1, <1>2
  <2>2. t = After(w, k)
    OBVIOUS
  <2> HIDE DEF w, t, n
  <2>3. t \in Seq(S) /\ Len(t) = n /\ \A j \in 1..n : t[j] = w[k + j]
    BY <2>1, <2>2, AfterProperties
  <2>4. \A j \in 1..n : k + j \in 1..(Len(s) - 1) /\ k + j + 1 = j + k + 1
    BY <1>2 DEF n
  <2> QED
    BY <2>3, <2>4, <1>1 DEF w
<1>4. u \in Seq(S) /\ Len(u) = n /\ \A j \in 1..n : u[j] = s[j + k + 1]
  <2>1. k + 1 \in 0..Len(s) /\ Len(s) - (k + 1) = n
    BY <1>2
  <2> HIDE DEF n
  <2>2. u \in Seq(S) /\ Len(u) = n /\ \A j \in 1..n : u[j] = s[k + 1 + j]
    BY <2>1, AfterProperties
  <2> QED
    BY <2>2 DEF n
<1>5. t = u
  <2> HIDE DEF t, u, n
  <2> QED
    BY <1>2, <1>3, <1>4, SeqEqual
<1> QED
  BY <1>1, <1>5

LEMMA NumberSpelled ==
  ASSUME NEW word \in Seq(STRING), IsNumber(word)
  PROVE  ValueOf(Unsigned(word)) \in Nat /\ SpellsPort(word, ValueOf(Unsigned(word)))
<1> DEFINE digits == Unsigned(word)
<1>1. digits \in Seq(Decimal) /\ digits # <<>>
  <2>1. digits \in Seq(STRING) /\ digits # <<>>
    <3>1. word # <<>> => Tail(word) \in Seq(STRING)
      OBVIOUS
    <3> QED
      BY <3>1 DEF Unsigned, IsNumber
  <2>2. \A i \in 1..Len(digits) : digits[i] \in Decimal
    BY <2>1 DEF IsNumber, Range
  <2> HIDE DEF digits
  <2> QED
    BY <2>1, <2>2
<1>2. PICK v : /\ Values(v, digits) /\ ValueOf(digits) = v[Len(digits)]
               /\ \A i \in 0..Len(digits) : v[i] \in Nat
  <2> HIDE DEF digits
  <2> QED
    BY <1>1, ValueSteps
<1>3. PICK k \in 0..Len(digits) : /\ \A j \in 1..k : digits[j] = "0"
                                  /\ After(digits, k) = Numeral(ValueOf(digits))
  <2> HIDE DEF digits
  <2> QED
    BY <1>1, <1>2, NumeralOfValue
<1>4. ValueOf(digits) \in Nat
  <2>1. Len(digits) \in 0..Len(digits)
    BY <1>1
  <2> HIDE DEF digits
  <2> QED
    BY <1>2, <2>1
<1>5. CASE word # <<>> /\ Head(word) = "+"
  <2>1. digits = Tail(word) /\ word[1] = "+" /\ Len(digits) = Len(word) - 1
    BY <1>5 DEF Unsigned
  <2> HIDE DEF digits
  <2>2. k \in Nat /\ k + 1 <= Len(word) /\ k + 1 \in 0..Len(word) /\ Len(word) \in Nat
    BY <2>1
  <2>3. /\ After(word, k + 1) = After(digits, k)
        /\ \A j \in 1..(Len(word) - 1) : digits[j] = word[j + 1]
    BY <2>1, <2>2, <1>5, AfterTail
  <2>4. ASSUME NEW i \in 1..(k + 1)
        PROVE  word[i] = "0" \/ (i = 1 /\ word[i] = "+")
    <3>1. CASE i = 1
      BY <3>1, <2>1
    <3>2. CASE i # 1
      <4>1. i - 1 \in 1..k /\ i - 1 \in 1..(Len(word) - 1) /\ i - 1 + 1 = i
        BY <3>2, <2>1, <2>2
      <4>2. digits[i - 1] = word[i] /\ digits[i - 1] = "0"
        BY <4>1, <2>3, <1>3
      <4> QED
        BY <4>2
    <3> QED
      BY <3>1, <3>2
  <2>5. SpellsPort(word, ValueOf(digits))
    BY <2>2, <2>3, <2>4, <1>3 DEF SpellsPort
  <2> QED
    BY <2>5, <1>4 DEF digits
<1>6. CASE ~ (word # <<>> /\ Head(word) = "+")
  <2>1. digits = word
    BY <1>6 DEF Unsigned
  <2> HIDE DEF digits
  <2>2. SpellsPort(word, ValueOf(digits))
    BY <2>1, <1>3 DEF SpellsPort
  <2> QED
    BY <2>2, <1>4 DEF digits
<1> QED
  BY <1>5, <1>6

LEMMA PlusIsNoDigit == "+" \notin Decimal /\ ":" \notin Decimal /\ "]" \notin Decimal
  BY SMTT(60) DEF Decimal, Lower

LEMMA NumeralDigits ==
  ASSUME NEW word \in Seq(STRING), NEW n \in Nat, NEW k \in 0..Len(word),
         After(word, k) = Numeral(n)
  PROVE  k < Len(word) /\ \A i \in (k + 1)..Len(word) : word[i] \in Decimal
<1>1. /\ Len(After(word, k)) = Len(word) - k
      /\ \A j \in 1..(Len(word) - k) : After(word, k)[j] = word[k + j]
  BY DEF After
<1>2. Numeral(n) \in Seq(Decimal) /\ Len(Numeral(n)) >= 1
  BY NumeralSteps, NumeralSplits
<1>3. Len(word) - k >= 1 /\ \A j \in 1..(Len(word) - k) : word[k + j] \in Decimal
  BY <1>1, <1>2, SMTT(60)
<1>4. ASSUME NEW i \in (k + 1)..Len(word)
      PROVE  word[i] \in Decimal
  <2>1. i - k \in 1..(Len(word) - k) /\ k + (i - k) = i
    OBVIOUS
  <2> QED
    BY <2>1, <1>3
<1> QED
  BY <1>3, <1>4

LEMMA SpelledNumber ==
  ASSUME NEW word \in Seq(STRING), NEW n \in Nat, SpellsPort(word, n)
  PROVE  IsNumber(word) /\ ValueOf(Unsigned(word)) = n
<1> DEFINE digits == Unsigned(word)
<1>0. Len(word) \in Nat
  OBVIOUS
<1>1. PICK k \in 0..Len(word) : /\ \A i \in 1..k : word[i] = "0" \/ (i = 1 /\ word[i] = "+")
                                /\ After(word, k) = Numeral(n)
  BY DEF SpellsPort
<1>2. k < Len(word) /\ \A i \in (k + 1)..Len(word) : word[i] \in Decimal
  BY <1>1, NumeralDigits
<1>3. SUFFICES \E h \in Nat : /\ digits \in Seq(Decimal) /\ h < Len(digits)
                              /\ \A i \in 1..h : digits[i] = "0"
                              /\ After(digits, h) = Numeral(n)
  <2> HIDE DEF digits
  <2> SUFFICES ASSUME NEW h \in Nat, digits \in Seq(Decimal), h < Len(digits),
                      \A i \in 1..h : digits[i] = "0", After(digits, h) = Numeral(n)
               PROVE  IsNumber(word) /\ ValueOf(digits) = n
    BY <1>3 DEF digits
  <2>1. PICK v : Values(v, digits) /\ ValueOf(digits) = v[Len(digits)]
    BY ValueSteps
  <2>2. ValueOf(digits) = n
    BY <2>1, ValueOfNumeral
  <2>3. digits # <<>> /\ Range(digits) \subseteq Decimal
    BY DEF Range
  <2> QED
    BY <2>2, <2>3 DEF IsNumber, digits
<1>4. CASE word[1] = "+"
  <2>1. word # <<>> /\ digits = Tail(word) /\ Len(word) >= 1
    BY <1>0, <1>2, <1>4 DEF Unsigned
  <2>2. k # 0
    BY <2>1, <1>0, <1>2, <1>4, PlusIsNoDigit
  <2> DEFINE h == k - 1
  <2>3. h \in Nat /\ h + 1 = k /\ h + 1 <= Len(word)
    BY <2>2, <1>2
  <2> HIDE DEF digits, h
  <2>4. /\ digits \in Seq(STRING) /\ Len(digits) = Len(word) - 1
        /\ \A j \in 1..(Len(word) - 1) : digits[j] = word[j + 1]
        /\ After(digits, h) = Numeral(n)
    BY <2>1, <2>3, <1>1, AfterTail
  <2>5. ASSUME NEW j \in 1..Len(digits)
        PROVE  digits[j] \in Decimal /\ (j <= h => digits[j] = "0")
    <3>1. /\ digits[j] = word[j + 1] /\ j + 1 # 1
          /\ j + 1 \in 1..k \/ j + 1 \in (k + 1)..Len(word)
      BY <2>3, <2>4, <1>0
    <3>2. j <= h => j + 1 \in 1..k
      BY <2>3
    <3> QED
      BY <3>1, <3>2, <1>1, <1>2, ZeroNumeral
  <2>6. digits \in Seq(Decimal)
    BY <2>4, <2>5
  <2>7. h < Len(digits) /\ \A i \in 1..h : digits[i] = "0"
    BY <2>3, <2>4, <2>5, <1>0, <1>2
  <2> QED
    BY <2>3, <2>4, <2>6, <2>7
<1>5. CASE word[1] # "+"
  <2>1. digits = word
    BY <1>5, <1>0, <1>2 DEF Unsigned
  <2> HIDE DEF digits
  <2>2. \A i \in 1..k : word[i] = "0"
    BY <1>1, <1>5
  <2>3. ASSUME NEW i \in 1..Len(word)
        PROVE  word[i] \in Decimal
    <3>1. i \in 1..k \/ i \in (k + 1)..Len(word)
      BY <1>0
    <3> QED
      BY <3>1, <2>2, <1>2, ZeroNumeral
  <2>4. word \in Seq(Decimal)
    BY <2>3
  <2>5. k \in Nat
    OBVIOUS
  <2> QED
    BY <2>1, <2>2, <2>4, <2>5, <1>1, <1>2
<1> QED
  BY <1>4, <1>5

LEMMA PortBounds == \A n : n \in Port <=> n \in Nat /\ n <= U16Max
<1>1. U16Max \in Nat
  BY DEF U16Max
<1> QED
  BY <1>1 DEF Port

LEMMA PortMeaning ==
  ASSUME NEW word \in Seq(STRING)
  PROVE  /\ \A n \in U16(word) : n \in Port /\ SpellsPort(word, n)
         /\ \A n \in Port : SpellsPort(word, n) => n \in U16(word)
         /\ \A m, n \in U16(word) : m = n
<1> DEFINE x == ValueOf(Unsigned(word))
<1>1. ASSUME NEW n \in U16(word)
      PROVE  n = x /\ n \in Port /\ SpellsPort(word, n)
  <2>1. n = x /\ IsNumber(word) /\ x <= U16Max
    BY DEF U16, When
  <2>2. x \in Nat /\ SpellsPort(word, x)
    BY <2>1, NumberSpelled
  <2> HIDE DEF x
  <2> QED
    BY <2>1, <2>2, PortBounds
<1>2. ASSUME NEW n \in Port, SpellsPort(word, n)
      PROVE  n \in U16(word)
  <2>1. n \in Nat /\ n <= U16Max
    BY PortBounds
  <2>2. IsNumber(word) /\ x = n
    BY <2>1, <1>2, SpelledNumber
  <2> QED
    BY <2>1, <2>2 DEF U16, When
<1> QED
  BY <1>1, <1>2

-----------------------------------------------------------------------------
(***************************************************************************)
(* Payloads.  The words are put together one after the other (Flattens).   *)
(***************************************************************************)
Flattens(f, words) ==
    /\ f[1] = words[1]
    /\ \A i \in 2..Len(words) : f[i] = f[i - 1] \o words[i]

LEMMA FlattenSteps ==
  ASSUME NEW X, NEW words \in Seq(Seq(X)), words # <<>>
  PROVE  \E f \in [1..Len(words) -> Seq(X)] :
            Flattens(f, words) /\ FlattenSeq(words) = f[Len(words)]
<1> DEFINE n == Len(words) - 1
           step == [p \in Nat \X Seq(X) |->
                       IF p[1] + 1 \in 1..Len(words) THEN p[2] \o words[p[1] + 1] ELSE p[2]]
           body(f) == [i \in 1..Len(words) |-> IF i = 1 THEN words[i] ELSE f[i - 1] \o words[i]]
           g == CHOOSE f : f = body(f)
<1>0. n \in Nat /\ Len(words) \in Nat /\ Len(words) # 0 /\ words[1] \in Seq(X)
  OBVIOUS
<1>1. step \in [Nat \X Seq(X) -> Seq(X)]
  OBVIOUS
<1>2. PICK r \in [0..n -> Seq(X)] : Iterates(r, words[1], n, step)
  <2> DEFINE Y == Seq(X)
  <2>1. step \in [Nat \X Y -> Y] /\ words[1] \in Y /\ n \in Nat
    BY <1>0, <1>1
  <2> HIDE DEF step, n, Y
  <2>2. \E r \in [0..n -> Y] : Iterates(r, words[1], n, step)
    BY <2>1, Recursion
  <2> QED
    BY <2>2 DEF Y
<1> DEFINE f == [i \in 1..Len(words) |-> r[i - 1]]
<1>3. f \in [1..Len(words) -> Seq(X)]
  BY <1>0, <1>2
<1>4. f[1] = words[1]
  BY <1>0, <1>2 DEF Iterates
<1>5. ASSUME NEW i \in 2..Len(words)
      PROVE  f[i] = f[i - 1] \o words[i]
  <2> DEFINE k == i - 1
  <2>1. k \in 1..n /\ k \in Nat /\ k + 1 = i /\ k + 1 \in 1..Len(words) /\ k - 1 \in 0..n
    BY <1>0
  <2>2. f[i] = r[k] /\ f[i - 1] = r[k - 1]
    BY <1>0
  <2>3. r[k] = step[<<k, r[k - 1]>>] /\ r[k - 1] \in Seq(X)
    <3> HIDE DEF step, n, k
    <3> QED
      BY <2>1, <1>2 DEF Iterates
  <2>4. step[<<k, r[k - 1]>>] = r[k - 1] \o words[k + 1]
    <3> HIDE DEF k, f, g, n
    <3> QED
      BY <2>1, <2>3
  <2> HIDE DEF step, f, k
  <2> QED
    BY <2>1, <2>2, <2>3, <2>4
<1> HIDE DEF f
<1>6. f = body(f)
  <2>1. f = [i \in 1..Len(words) |-> f[i]]
    BY <1>3
  <2>2. ASSUME NEW i \in 1..Len(words)
        PROVE  f[i] = IF i = 1 THEN words[i] ELSE f[i - 1] \o words[i]
    <3>1. i = 1 \/ i \in 2..Len(words)
      BY <1>0
    <3> QED
      BY <3>1, <1>4, <1>5
  <2> QED
    BY <2>1, <2>2
<1>7. g = body(g)
  <2> HIDE DEF body
  <2> QED
    BY <1>6
<1>8. FlattenSeq(words) = g[Len(words)]
  BY <1>0 DEF FlattenSeq
<1>9. g[1] = words[1] /\ \A i \in 2..Len(words) : g[i] = g[i - 1] \o words[i]
  <2> HIDE DEF g
  <2>1. ASSUME NEW i \in 1..Len(words)
        PROVE  g[i] = IF i = 1 THEN words[i] ELSE g[i - 1] \o words[i]
    BY <1>7
  <2>2. 1 \in 1..Len(words) /\ \A i \in 2..Len(words) : i \in 1..Len(words) /\ i # 1
    BY <1>0
  <2> HIDE DEF body
  <2> QED
    BY <2>1, <2>2
<1>10. g = [i \in 1..Len(words) |-> g[i]]
  <2> HIDE DEF g
  <2> QED
    BY <1>7
<1> HIDE DEF g
<1>11. ASSUME NEW i \in 1..Len(words)
       PROVE  g[i] \in Seq(X)
  <2> DEFINE S == {k \in 1..Len(words) : g[k] \in Seq(X)}
  <2>1. 1 \in S
    BY <1>0, <1>9
  <2>2. ASSUME NEW k \in 1..Len(words), k # Len(words), k \in S
        PROVE  k + 1 \in S
    <3> DEFINE m == k + 1
    <3>1. m \in 2..Len(words) /\ m \in 1..Len(words) /\ m - 1 = k /\ words[m] \in Seq(X)
      BY <2>2, <1>0
    <3> HIDE DEF m
    <3>2. g[m] = g[k] \o words[m] /\ g[k] \in Seq(X)
      BY <3>1, <2>2, <1>9
    <3>3. g[m] \in Seq(X)
      BY <3>1, <3>2, ConcatProperties
    <3> QED
      BY <3>1, <3>3 DEF m
  <2>3. 1..Len(words) \subseteq S
    <3> HIDE DEF S
    <3> QED
      BY <1>0, <2>1, <2>2, UpTo
  <2> QED
    BY <2>3
<1>12. g \in [1..Len(words) -> Seq(X)]
  BY <1>10, <1>11
<1> QED
  BY <1>8, <1>9, <1>12 DEF Flattens

LEMMA FlattenElements ==
  ASSUME NEW X, NEW words \in Seq(Seq(X)), words # <<>>
  PROVE  LET flat == FlattenSeq(words)
         IN  /\ flat \in Seq(X) /\ Len(flat) >= Len(words[1])
             /\ \A j \in 1..Len(flat) :
                   \E i \in 1..Len(words) : \E l \in 1..Len(words[i]) : flat[j] = words[i][l]
<1> DEFINE N == Len(words)
           In(p) == \E i \in 1..N : \E l \in 1..Len(words[i]) : p = words[i][l]
<1>0. N \in Nat /\ N # 0 /\ 1 \in 1..N
  OBVIOUS
<1>1. PICK f \in [1..N -> Seq(X)] : Flattens(f, words) /\ FlattenSeq(words) = f[N]
  BY FlattenSteps
<1> DEFINE Good(k) == Len(f[k]) >= Len(words[1]) /\ \A j \in 1..Len(f[k]) : In(f[k][j])
           S == {k \in 1..N : Good(k)}
<1>2. 1 \in S
  <2>1. f[1] = words[1] /\ words[1] \in Seq(X)
    BY <1>0, <1>1 DEF Flattens
  <2>2. Len(f[1]) >= Len(words[1])
    BY <2>1
  <2>3. \A j \in 1..Len(f[1]) : In(f[1][j])
    BY <2>1, <1>0
  <2>4. Good(1)
    BY <2>2, <2>3, Zenon
  <2> HIDE DEF Good
  <2> QED
    BY <2>4, <1>0
<1>3. ASSUME NEW k \in 1..N, k # N, k \in S
      PROVE  k + 1 \in S
  <2> DEFINE m == k + 1
  <2>1. m \in 2..N /\ m \in 1..N /\ m - 1 = k /\ words[m] \in Seq(X) /\ f[k] \in Seq(X)
    <3>1. m \in 2..N /\ m \in 1..N /\ m - 1 = k
      BY <1>3, <1>0
    <3> HIDE DEF m
    <3> QED
      BY <3>1, <1>1, SMTT(60)
  <2> HIDE DEF m
  <2>2. f[m] = f[k] \o words[m]
    BY <2>1, <1>1 DEF Flattens
  <2>3. /\ Len(f[m]) = Len(f[k]) + Len(words[m])
        /\ \A j \in 1..(Len(f[k]) + Len(words[m])) :
              f[m][j] = IF j <= Len(f[k]) THEN f[k][j] ELSE words[m][j - Len(f[k])]
    BY <2>1, <2>2, ConcatProperties
  <2>4. Len(f[k]) \in Nat /\ Len(words[m]) \in Nat /\ Len(words[1]) \in Nat
    BY <2>1, <1>0
  <2>5. ASSUME NEW j \in 1..Len(f[m])
        PROVE  In(f[m][j])
    <3>1. CASE j <= Len(f[k])
      <4>1. j \in 1..Len(f[k]) /\ f[m][j] = f[k][j]
        BY <3>1, <2>3, <2>4
      <4>2. Good(k)
        BY <1>3
      <4>3. \A i \in 1..Len(f[k]) : In(f[k][i])
        BY <4>2, Zenon
      <4> HIDE DEF In, S, Good
      <4> QED
        BY <4>1, <4>3
    <3>2. CASE ~ (j <= Len(f[k]))
      <4>1. j - Len(f[k]) \in 1..Len(words[m]) /\ f[m][j] = words[m][j - Len(f[k])]
        BY <3>2, <2>3, <2>4
      <4> QED
        BY <4>1, <2>1
    <3> QED
      BY <3>1, <3>2
  <2>6. Len(f[m]) >= Len(words[1])
    BY <2>3, <2>4, <1>3
  <2>7. m \in S
    BY <2>1, <2>5, <2>6
  <2> QED
    BY <2>7 DEF m
<1>4. N \in S
  <2> HIDE DEF S, N
  <2>1. 1..N \subseteq S
    BY <1>0, <1>2, <1>3, UpTo
  <2> QED
    BY <2>1, <1>0
<1> DEFINE flat == f[N]
<1>5. flat \in Seq(X) /\ flat = FlattenSeq(words)
  BY <1>0, <1>1
<1>6. Len(flat) >= Len(words[1]) /\ \A j \in 1..Len(flat) : In(flat[j])
  BY <1>4
<1> HIDE DEF flat
<1> QED
  BY <1>5, <1>6, Zenon DEF N

LEMMA FlattenPairs ==
  ASSUME NEW X, NEW pairs \in Seq(Seq(X)), pairs # <<>>,
         \A i \in 1..Len(pairs) : Len(pairs[i]) = 2
  PROVE  LET flat == FlattenSeq(pairs)
         IN  /\ flat \in Seq(X) /\ Len(flat) = 2 * Len(pairs)
             /\ \A i \in 1..Len(pairs) : /\ flat[2 * i - 1] = pairs[i][1]
                                         /\ flat[2 * i] = pairs[i][2]
<1> DEFINE N == Len(pairs)
<1>0. N \in Nat /\ N # 0 /\ 1 \in 1..N
  OBVIOUS
<1>1. PICK f \in [1..N -> Seq(X)] : Flattens(f, pairs) /\ FlattenSeq(pairs) = f[N]
  BY FlattenSteps
<1> DEFINE Good(k) == /\ Len(f[k]) = 2 * k
                      /\ \A i \in 1..k : /\ f[k][2 * i - 1] = pairs[i][1]
                                         /\ f[k][2 * i] = pairs[i][2]
           S == {k \in 1..N : Good(k)}
<1>2. 1 \in S
  <2>1. f[1] = pairs[1] /\ Len(pairs[1]) = 2
    BY <1>0, <1>1 DEF Flattens
  <2> QED
    BY <2>1, <1>0
<1>3. ASSUME NEW k \in 1..N, k # N, k \in S
      PROVE  k + 1 \in S
  <2> DEFINE m == k + 1
  <2>1. /\ m \in 2..N /\ m \in 1..N /\ m - 1 = k /\ m = k + 1 /\ k \in Nat
        /\ pairs[m] \in Seq(X) /\ f[k] \in Seq(X)
    <3>1. m \in 2..N /\ m \in 1..N /\ m - 1 = k /\ m = k + 1 /\ k \in Nat
      BY <1>3, <1>0
    <3> HIDE DEF m
    <3>2. pairs[m] \in Seq(X)
      BY <3>1
    <3>3. f[k] \in Seq(X)
      BY <1>1
    <3> QED
      BY <3>1, <3>2, <3>3
  <2> HIDE DEF m
  <2>2. f[m] = f[k] \o pairs[m]
    BY <2>1, <1>1 DEF Flattens
  <2>3. Len(f[k]) = 2 * k /\ Len(pairs[m]) = 2
    BY <2>1, <1>3
  <2>4. /\ Len(f[m]) = 2 * k + 2
        /\ \A j \in 1..(2 * k + 2) :
              f[m][j] = IF j <= 2 * k THEN f[k][j] ELSE pairs[m][j - 2 * k]
    <3> DEFINE a == f[k]
               b == pairs[m]
    <3>1. a \in Seq(X) /\ b \in Seq(X) /\ f[m] = a \o b /\ Len(a) = 2 * k /\ Len(b) = 2
      BY <2>1, <2>2, <2>3
    <3> HIDE DEF a, b
    <3>2. /\ Len(a \o b) = Len(a) + Len(b)
          /\ \A j \in 1..(Len(a) + Len(b)) :
                (a \o b)[j] = IF j <= Len(a) THEN a[j] ELSE b[j - Len(a)]
      BY <3>1, ConcatProperties
    <3>3. /\ Len(f[m]) = 2 * k + 2
          /\ \A j \in 1..(2 * k + 2) : f[m][j] = IF j <= 2 * k THEN a[j] ELSE b[j - 2 * k]
      BY <3>1, <3>2
    <3> QED
      BY <3>3 DEF a, b
  <2>5. ASSUME NEW i \in 1..m
        PROVE  f[m][2 * i - 1] = pairs[i][1] /\ f[m][2 * i] = pairs[i][2]
    <3>1. CASE i = m
      <4>1. /\ 2 * i - 1 \in 1..(2 * k + 2) /\ ~ (2 * i - 1 <= 2 * k) /\ 2 * i - 1 - 2 * k = 1
            /\ 2 * i \in 1..(2 * k + 2) /\ ~ (2 * i <= 2 * k) /\ 2 * i - 2 * k = 2
        BY <3>1, <2>1
      <4> QED
        BY <4>1, <2>4, <3>1
    <3>2. CASE i # m
      <4>1. /\ i \in 1..k
            /\ 2 * i - 1 \in 1..(2 * k + 2) /\ 2 * i - 1 <= 2 * k
            /\ 2 * i \in 1..(2 * k + 2) /\ 2 * i <= 2 * k
        BY <3>2, <2>1
      <4>2. f[m][2 * i - 1] = f[k][2 * i - 1] /\ f[m][2 * i] = f[k][2 * i]
        BY <4>1, <2>4
      <4> QED
        BY <4>1, <4>2, <1>3
    <3> QED
      BY <3>1, <3>2
  <2>6. Len(f[m]) = 2 * m
    BY <2>1, <2>4
  <2>7. m \in S
    BY <2>1, <2>5, <2>6
  <2> QED
    BY <2>7 DEF m
<1>4. N \in S
  <2> HIDE DEF S, N
  <2>1. 1..N \subseteq S
    BY <1>0, <1>2, <1>3, UpTo
  <2> QED
    BY <2>1, <1>0
<1> QED
  BY <1>0, <1>1, <1>4

LEMMA PairOfDigits ==
  ASSUME NEW p, NEW q, IsHexDigit(p), IsHexDigit(q), NEW b, b = 16 * HexValue(p) + HexValue(q)
  PROVE  /\ b \in 0..255
         /\ Upper[(b \div 16) + 1] = UpperOf(p) /\ Upper[(b % 16) + 1] = UpperOf(q)
<1> DEFINE x == HexValue(p)
           y == HexValue(q)
<1>1. x \in 0..15 /\ y \in 0..15 /\ b = 16 * x + y
  BY HexDigitValue
<1>2. UpperOf(p) = Upper[x + 1] /\ UpperOf(q) = Upper[y + 1]
  BY DEF UpperOf
<1> HIDE DEF x, y
<1>3. b \in 0..255 /\ b \div 16 = x /\ b % 16 = y
  BY <1>1
<1> QED
  BY <1>2, <1>3

LEMMA ByteDigits ==
  ASSUME NEW b \in 0..255
  PROVE  (b \div 16) + 1 \in 1..16 /\ (b % 16) + 1 \in 1..16
OBVIOUS

LEMMA PairedUp ==
  ASSUME NEW digits \in Seq(STRING), \A i \in 1..Len(digits) : IsHexDigit(digits[i]),
         digits # <<>>, Len(digits) % 2 = 0
  PROVE  LET bytes == PairUp(digits)
         IN  /\ bytes \in Seq(0..255) /\ bytes # <<>>
             /\ FlattenSeq(FormatHexSpaced(bytes)) = [i \in DOMAIN digits |-> UpperOf(digits[i])]
<1> DEFINE X == {Upper[i] : i \in 1..16}
           n == Len(digits) \div 2
           bytes == PairUp(digits)
           pairs == FormatHexSpaced(bytes)
<1>1. n \in Nat /\ n # 0 /\ Len(digits) = 2 * n
  OBVIOUS
<1> HIDE DEF n
<1>2. bytes = [i \in 1..n |-> 16 * HexValue(digits[2 * i - 1]) + HexValue(digits[2 * i])]
  BY DEF PairUp, n
<1> HIDE DEF bytes
<1>3. ASSUME NEW i \in 1..n
      PROVE  /\ bytes[i] \in 0..255
             /\ Upper[(bytes[i] \div 16) + 1] = UpperOf(digits[2 * i - 1])
             /\ Upper[(bytes[i] % 16) + 1] = UpperOf(digits[2 * i])
  <2>1. 2 * i - 1 \in 1..Len(digits) /\ 2 * i \in 1..Len(digits)
    BY <1>1
  <2>2. IsHexDigit(digits[2 * i - 1]) /\ IsHexDigit(digits[2 * i])
    BY <2>1
  <2>3. bytes[i] = 16 * HexValue(digits[2 * i - 1]) + HexValue(digits[2 * i])
    BY <1>2
  <2> DEFINE b == bytes[i]
             p == digits[2 * i - 1]
             q == digits[2 * i]
  <2>4. IsHexDigit(p) /\ IsHexDigit(q) /\ b = 16 * HexValue(p) + HexValue(q)
    BY <2>2, <2>3
  <2> HIDE DEF b, p, q, X, pairs
  <2>5. /\ b \in 0..255
        /\ Upper[(b \div 16) + 1] = UpperOf(p) /\ Upper[(b % 16) + 1] = UpperOf(q)
    BY ONLY <2>4, PairOfDigits, SMTT(60)
  <2> QED
    BY <2>5 DEF b, p, q
<1>4. bytes \in [1..n -> 0..255]
  BY <1>2, <1>3
<1>5. bytes \in Seq(0..255) /\ Len(bytes) = n /\ DOMAIN bytes = 1..n /\ bytes # <<>>
  BY <1>1, <1>4
<1>6. pairs = [i \in 1..n |-> <<Upper[(bytes[i] \div 16) + 1], Upper[(bytes[i] % 16) + 1]>>]
  BY <1>5 DEF FormatHexSpaced
<1> HIDE DEF pairs
<1>7. ASSUME NEW i \in 1..n
      PROVE  /\ pairs[i] \in Seq(X) /\ Len(pairs[i]) = 2
             /\ pairs[i][1] = UpperOf(digits[2 * i - 1]) /\ pairs[i][2] = UpperOf(digits[2 * i])
  <2> DEFINE p == Upper[(bytes[i] \div 16) + 1]
             q == Upper[(bytes[i] % 16) + 1]
  <2>1. pairs[i] = <<p, q>>
    BY <1>6
  <2>2. (bytes[i] \div 16) + 1 \in 1..16 /\ (bytes[i] % 16) + 1 \in 1..16
    BY <1>3, ByteDigits
  <2>3. p \in X /\ q \in X
    BY <2>2
  <2>4. p = UpperOf(digits[2 * i - 1]) /\ q = UpperOf(digits[2 * i])
    BY <1>3
  <2> HIDE DEF p, q, X
  <2> QED
    BY <2>1, <2>3, <2>4
<1> HIDE DEF X
<1>8. pairs \in Seq(Seq(X)) /\ Len(pairs) = n /\ pairs # <<>>
  <2>1. pairs \in [1..n -> Seq(X)]
    BY <1>6, <1>7
  <2> QED
    BY <2>1, <1>1
<1> DEFINE flat == FlattenSeq(pairs)
           upper == [i \in DOMAIN digits |-> UpperOf(digits[i])]
<1>9. /\ flat \in Seq(X) /\ Len(flat) = 2 * n
      /\ \A i \in 1..n : flat[2 * i - 1] = pairs[i][1] /\ flat[2 * i] = pairs[i][2]
  BY <1>7, <1>8, FlattenPairs
<1>10. flat = [j \in 1..(2 * n) |-> flat[j]]
  BY <1>9
<1>11. upper = [j \in 1..(2 * n) |-> UpperOf(digits[j])]
  BY <1>1
<1> HIDE DEF flat, upper
<1>12. ASSUME NEW j \in 1..(2 * n)
       PROVE  flat[j] = UpperOf(digits[j])
  <2>1. \E i \in 1..n : j = 2 * i - 1 \/ j = 2 * i
    <3>1. (j + 1) \div 2 \in 1..n /\ (j = 2 * ((j + 1) \div 2) - 1 \/ j = 2 * ((j + 1) \div 2))
      BY <1>1
    <3> QED
      BY <3>1
  <2>2. PICK i \in 1..n : j = 2 * i - 1 \/ j = 2 * i
    BY <2>1
  <2> QED
    BY <2>2, <1>7, <1>9
<1>13. flat = upper
  BY <1>10, <1>11, <1>12
<1> QED
  BY <1>5, <1>13 DEF bytes, pairs, flat, upper

LEMMA PayloadMeaning ==
  ASSUME NEW words \in Seq(Seq(STRING) \ {<<>>})
  PROVE  /\ \A b \in ParseHexTokens(words) : b \in Seq(0..255) /\ SpellsPayload(words, b)
         /\ \A a, b \in ParseHexTokens(words) : a = b
         /\ /\ words # <<>> /\ Len(FlattenSeq(words)) % 2 = 0
            /\ \A i \in 1..Len(words) : \A p \in Range(words[i]) : IsHexDigit(p)
            => ParseHexTokens(words) # {}
<1> DEFINE digits == FlattenSeq(words)
<1>1. words \in Seq(Seq(STRING))
  OBVIOUS
<1>2. CASE words = <<>>
  <2>1. digits = <<>>
    BY <1>2 DEF FlattenSeq
  <2>2. ParseHexTokens(words) = {}
    BY <2>1 DEF ParseHexTokens, When
  <2> QED
    BY <2>2, <1>2
<1>3. CASE words # <<>>
  <2>1. /\ digits \in Seq(STRING) /\ Len(digits) >= Len(words[1])
        /\ \A j \in 1..Len(digits) :
              \E i \in 1..Len(words) : \E l \in 1..Len(words[i]) : digits[j] = words[i][l]
    BY <1>1, <1>3, FlattenElements
  <2>2. ParseHexTokens(words) =
           When((\A i \in DOMAIN digits : IsHexDigit(digits[i]))
                /\ digits # <<>> /\ Len(digits) % 2 = 0, PairUp(digits))
    BY DEF ParseHexTokens
  <2>3. ASSUME NEW b \in ParseHexTokens(words)
        PROVE  b = PairUp(digits) /\ b \in Seq(0..255) /\ SpellsPayload(words, b)
    <3> HIDE DEF digits
    <3>1. /\ b = PairUp(digits) /\ digits # <<>> /\ Len(digits) % 2 = 0
          /\ \A i \in DOMAIN digits : IsHexDigit(digits[i])
      BY <2>2 DEF When
    <3>2. DOMAIN digits = 1..Len(digits)
      BY <2>1
    <3>3. /\ b \in Seq(0..255) /\ b # <<>>
          /\ FlattenSeq(FormatHexSpaced(b)) = [i \in DOMAIN digits |-> UpperOf(digits[i])]
      BY <3>1, <3>2, <2>1, PairedUp
    <3> QED
      BY <3>1, <3>3 DEF SpellsPayload, digits
  <2>4. ASSUME Len(digits) % 2 = 0,
               \A i \in 1..Len(words) : \A p \in Range(words[i]) : IsHexDigit(p)
        PROVE  ParseHexTokens(words) # {}
    <3> HIDE DEF digits
    <3>1. ASSUME NEW j \in 1..Len(digits)
          PROVE  IsHexDigit(digits[j])
      <4>1. PICK i \in 1..Len(words) : \E l \in 1..Len(words[i]) : digits[j] = words[i][l]
        BY <2>1
      <4>2. words[i] \in Seq(STRING)
        BY <1>1
      <4>3. digits[j] \in Range(words[i])
        BY <4>1, <4>2 DEF Range
      <4> QED
        BY <4>3, <2>4
    <3>2. words[1] \in Seq(STRING) /\ words[1] # <<>>
      BY <1>3
    <3>3. Len(digits) # 0 /\ digits # <<>> /\ DOMAIN digits = 1..Len(digits)
      BY <3>2, <2>1
    <3> QED
      BY <3>1, <3>3, <2>2, <2>4 DEF When
  <2> QED
    BY <2>3, <2>4
<1> QED
  BY <1>2, <1>3

\* The host of a <host>:<port> is what stands before the colon, or between
\* the brackets.
LEMMA PlainHost ==
  ASSUME NEW X, ":" \in X, NEW word \in Seq(X), NEW host \in Seq(X), NEW i \in 1..Len(word)
  PROVE  SubSeq(word, 1, i) = host \o <<":">> <=>
            host = SubSeq(word, 1, i - 1) /\ word[i] = ":"
<1> DEFINE all == SubSeq(word, 1, i)
           begin == SubSeq(word, 1, i - 1)
           spelt == host \o <<":">>
<1>1. /\ all \in Seq(X) /\ Len(all) = i /\ i \in Nat /\ i # 0
      /\ \A j \in 1..i : all[j] = word[j]
  OBVIOUS
<1>2. /\ begin \in Seq(X) /\ Len(begin) = i - 1
      /\ \A j \in 1..(i - 1) : begin[j] = word[j]
  OBVIOUS
<1>3. /\ <<":">> \in Seq(X) /\ Len(<<":">>) = 1 /\ <<":">>[1] = ":"
  OBVIOUS
<1>4. /\ spelt \in Seq(X) /\ Len(spelt) = Len(host) + 1 /\ Len(host) \in Nat
      /\ \A j \in 1..Len(host) : spelt[j] = host[j]
      /\ spelt[Len(host) + 1] = ":"
  <2>1. /\ spelt \in Seq(X) /\ Len(spelt) = Len(host) + 1
        /\ \A j \in 1..(Len(host) + 1) :
              spelt[j] = IF j <= Len(host) THEN host[j] ELSE <<":">>[j - Len(host)]
    BY <1>3, ConcatProperties
  <2> HIDE DEF spelt
  <2> QED
    BY <2>1, <1>3
<1> HIDE DEF all, begin, spelt
<1>5. ASSUME all = spelt
      PROVE  host = begin /\ word[i] = ":"
  <2>1. Len(host) = i - 1 /\ Len(host) + 1 = i
    BY <1>1, <1>4, <1>5
  <2>2. word[i] = ":"
    BY <2>1, <1>1, <1>4, <1>5
  <2>3. \A j \in 1..Len(host) : host[j] = begin[j]
    <3> TAKE j \in 1..Len(host)
    <3>1. j \in 1..i /\ j \in 1..(i - 1)
      BY <2>1, <1>1
    <3> QED
      BY <3>1, <1>1, <1>2, <1>4, <1>5
  <2> QED
    BY <2>1, <2>2, <2>3, <1>2, SeqEqual
<1>6. ASSUME host = begin, word[i] = ":"
      PROVE  all = spelt
  <2>1. Len(spelt) = Len(all)
    BY <1>1, <1>2, <1>4, <1>6
  <2>2. \A j \in 1..Len(all) : all[j] = spelt[j]
    <3> TAKE j \in 1..Len(all)
    <3>1. CASE j = i
      BY <3>1, <1>1, <1>2, <1>4, <1>6
    <3>2. CASE j # i
      <4>1. j \in 1..i /\ j \in 1..(i - 1) /\ j \in 1..Len(host)
        BY <3>2, <1>1, <1>2, <1>6
      <4> QED
        BY <4>1, <1>1, <1>2, <1>4, <1>6
    <3> QED
      BY <3>1, <3>2
  <2> QED
    BY <2>1, <2>2, <1>1, <1>4, SeqEqual
<1> QED
  BY <1>5, <1>6 DEF all, begin, spelt

LEMMA BracketedHost ==
  ASSUME NEW X, ":" \in X, "[" \in X, "]" \in X,
         NEW word \in Seq(X), NEW host \in Seq(X), NEW i \in 1..Len(word)
  PROVE  SubSeq(word, 1, i) = <<"[">> \o host \o <<"]", ":">> <=>
            /\ i >= 3 /\ host = SubSeq(word, 2, i - 2)
            /\ word[1] = "[" /\ word[i - 1] = "]" /\ word[i] = ":"
<1> DEFINE all == SubSeq(word, 1, i)
           inner == SubSeq(word, 2, i - 2)
           spelt == <<"[">> \o host \o <<"]", ":">>
           n == Len(host)
<1>1. /\ all \in Seq(X) /\ Len(all) = i /\ i \in Nat /\ i # 0
      /\ \A j \in 1..i : all[j] = word[j]
  OBVIOUS
<1>2. n \in Nat
  OBVIOUS
<1>3. /\ spelt \in Seq(X) /\ Len(spelt) = n + 3
      /\ spelt[1] = "[" /\ spelt[n + 2] = "]" /\ spelt[n + 3] = ":"
      /\ \A j \in 1..n : spelt[j + 1] = host[j]
  <2> DEFINE open == <<"[">> \o host
             shut == <<"]", ":">>
  <2>1. /\ <<"[">> \in Seq(X) /\ Len(<<"[">>) = 1 /\ <<"[">>[1] = "["
        /\ shut \in Seq(X) /\ Len(shut) = 2 /\ shut[1] = "]" /\ shut[2] = ":"
    OBVIOUS
  <2>2. /\ open \in Seq(X) /\ Len(open) = 1 + n
        /\ \A j \in 1..(1 + n) : open[j] = IF j <= 1 THEN <<"[">>[j] ELSE host[j - 1]
    BY <2>1, ConcatProperties
  <2>3. open[1] = "[" /\ \A j \in 1..n : open[j + 1] = host[j]
    <3> HIDE DEF open, n
    <3>1. open[1] = "["
      BY <2>1, <2>2, <1>2
    <3>2. \A j \in 1..n : j + 1 \in 1..(1 + n) /\ ~ (j + 1 <= 1) /\ j + 1 - 1 = j
      BY <1>2
    <3> QED
      BY <3>1, <3>2, <2>2
  <2> HIDE DEF open, shut, n
  <2>4. /\ open \o shut \in Seq(X) /\ Len(open \o shut) = Len(open) + Len(shut)
        /\ \A j \in 1..(Len(open) + Len(shut)) :
              (open \o shut)[j] = IF j <= Len(open) THEN open[j] ELSE shut[j - Len(open)]
    BY <2>1, <2>2, ConcatProperties
  <2>5. spelt = open \o shut
    BY DEF open, shut
  <2> HIDE DEF spelt
  <2>6. /\ spelt \in Seq(X) /\ Len(spelt) = n + 3
        /\ \A j \in 1..(n + 3) : spelt[j] = IF j <= n + 1 THEN open[j] ELSE shut[j - (n + 1)]
    BY <2>1, <2>2, <2>4, <2>5, <1>2
  <2>7. /\ 1 \in 1..(n + 3) /\ 1 <= n + 1
        /\ n + 2 \in 1..(n + 3) /\ ~ (n + 2 <= n + 1) /\ (n + 2) - (n + 1) = 1
        /\ n + 3 \in 1..(n + 3) /\ ~ (n + 3 <= n + 1) /\ (n + 3) - (n + 1) = 2
    BY <1>2
  <2>8. \A j \in 1..n : j + 1 \in 1..(n + 3) /\ j + 1 <= n + 1
    BY <1>2
  <2>9. spelt[1] = "[" /\ spelt[n + 2] = "]" /\ spelt[n + 3] = ":"
    BY <2>1, <2>3, <2>6, <2>7
  <2>10. \A j \in 1..n : spelt[j + 1] = host[j]
    BY <2>3, <2>6, <2>8
  <2> QED
    BY <2>6, <2>9, <2>10
<1>4. ASSUME i >= 3
      PROVE  /\ inner \in Seq(X) /\ Len(inner) = i - 3
             /\ \A j \in 1..(i - 3) : inner[j] = word[j + 1]
  <2>1. \A j \in 2..(i - 2) : word[j] \in X
    OBVIOUS
  <2>2. /\ inner \in Seq(X)
        /\ Len(inner) = IF 2 <= i - 2 THEN (i - 2) - 2 + 1 ELSE 0
        /\ \A j \in 1..((i - 2) - 2 + 1) : inner[j] = word[2 + j - 1]
    BY <2>1, <1>1, SubSeqProperties
  <2>3. \A j \in 1..(i - 3) : j \in 1..((i - 2) - 2 + 1) /\ 2 + j - 1 = j + 1
    BY <1>1
  <2>4. Len(inner) = i - 3
    <3> HIDE DEF inner
    <3> QED
      BY <2>2, <1>4, <1>1
  <2> HIDE DEF inner
  <2> QED
    BY <2>2, <2>3, <2>4
<1> HIDE DEF all, inner, spelt, n
<1>5. ASSUME all = spelt
      PROVE  /\ i >= 3 /\ host = inner
             /\ word[1] = "[" /\ word[i - 1] = "]" /\ word[i] = ":"
  <2>1. /\ i = n + 3 /\ i >= 3 /\ i - 1 = n + 2 /\ i - 3 = n
        /\ 1 \in 1..i /\ i - 1 \in 1..i /\ i \in 1..i
    BY <1>1, <1>2, <1>3, <1>5
  <2>2. word[1] = "[" /\ word[i - 1] = "]" /\ word[i] = ":"
    BY <2>1, <1>1, <1>3, <1>5
  <2>3. \A j \in 1..Len(host) : host[j] = inner[j]
    <3> TAKE j \in 1..Len(host)
    <3>1. j \in 1..n /\ j \in 1..(i - 3) /\ j + 1 \in 1..i
      BY <2>1, <1>1, <1>2 DEF n
    <3> QED
      BY <3>1, <2>1, <1>1, <1>3, <1>4, <1>5
  <2>4. Len(host) = Len(inner)
    BY <2>1, <1>4 DEF n
  <2> QED
    BY <2>1, <2>2, <2>3, <2>4, <1>4, SeqEqual
<1>6. ASSUME i >= 3, host = inner, word[1] = "[", word[i - 1] = "]", word[i] = ":"
      PROVE  all = spelt
  <2>1. n = i - 3 /\ n + 2 = i - 1 /\ n + 3 = i /\ Len(spelt) = Len(all)
    BY <1>1, <1>3, <1>4, <1>6 DEF n
  <2>2. \A j \in 1..Len(all) : all[j] = spelt[j]
    <3> TAKE j \in 1..Len(all)
    <3>1. CASE j \in {1, i - 1, i}
      BY <3>1, <2>1, <1>1, <1>3, <1>6
    <3>2. CASE j \notin {1, i - 1, i}
      <4> DEFINE k == j - 1
      <4>1. j \in 1..i /\ k \in 1..n /\ k \in 1..(i - 3) /\ j = k + 1
        BY <3>2, <2>1, <1>1
      <4> HIDE DEF k
      <4>2. spelt[j] = host[k] /\ host[k] = word[j]
        BY <4>1, <1>3, <1>4, <1>6
      <4> QED
        BY <4>1, <4>2, <1>1
    <3> QED
      BY <3>1, <3>2
  <2> QED
    BY <2>1, <2>2, <1>1, <1>3, SeqEqual
<1> QED
  BY <1>5, <1>6 DEF all, inner, spelt

\* There is no colon in a port.
LEMMA NoColon ==
  ASSUME NEW word \in Seq(STRING), NEW n \in U16(word)
  PROVE  \A j \in 1..Len(word) : word[j] # ":"
<1>1. IsNumber(word)
  BY DEF U16, When
<1>2. Unsigned(word) # <<>> /\ Range(Unsigned(word)) \subseteq Decimal
  BY <1>1 DEF IsNumber
<1>3. CASE word # <<>> /\ Head(word) = "+"
  <2>1. /\ Unsigned(word) = Tail(word) /\ Tail(word) \in Seq(STRING) /\ word[1] = "+"
        /\ Len(Tail(word)) = Len(word) - 1
        /\ \A i \in 1..(Len(word) - 1) : Tail(word)[i] = word[i + 1]
    BY <1>3 DEF Unsigned
  <2> TAKE j \in 1..Len(word)
  <2>2. CASE j = 1
    BY <2>1, <2>2
  <2>3. CASE j # 1
    <3> DEFINE i == j - 1
               rest == Tail(word)
    <3>1. i \in 1..(Len(word) - 1) /\ j = i + 1 /\ i \in 1..Len(rest)
      BY <2>1, <2>3
    <3> HIDE DEF i, rest
    <3>2. rest = Unsigned(word) /\ rest[i] = word[j] /\ DOMAIN rest = 1..Len(rest)
      BY <3>1, <2>1 DEF rest
    <3>3. word[j] \in Range(rest)
      BY <3>1, <3>2 DEF Range
    <3> QED
      BY <3>2, <3>3, <1>2, PlusIsNoDigit
  <2> QED
    BY <2>2, <2>3
<1>4. CASE ~ (word # <<>> /\ Head(word) = "+")
  <2>1. Unsigned(word) = word
    BY <1>4 DEF Unsigned
  <2> TAKE j \in 1..Len(word)
  <2>2. word[j] \in Range(Unsigned(word))
    BY <2>1 DEF Range
  <2> QED
    BY <2>2, <1>2, PlusIsNoDigit
<1> QED
  BY <1>3, <1>4

LEMMA BracketsDiffer == "[" # "]" /\ ":" # "[" /\ ":" # "]"
  OBVIOUS

\* The words that IsPrefix(<<"[">>, word) tells apart.
LEMMA BeginsWithBracket ==
  ASSUME NEW X, NEW word \in Seq(X), word # <<>>
  PROVE  /\ IsPrefix(<<"[">>, word) <=> Head(word) = "["
         /\ Head(word) = word[1]
<1>1. Len(word) \in Nat /\ 1 <= Len(word) /\ Head(word) = word[1]
  OBVIOUS
<1>2. Len(<<"[">>) = 1
  OBVIOUS
<1>3. SubSeq(<<"[">>, 1, 1) = <<"[">> /\ SubSeq(word, 1, 1) = <<word[1]>>
  <2>1. SubSeq(word, 1, 1) = <<word[1]>>
    <3>1. 1 \in 1..Len(word)
      BY <1>1
    <3> QED
      BY <3>1, SingleSubSeq
  <2>2. <<"[">> \in Seq({"["}) /\ 1 \in 1..Len(<<"[">>) /\ <<"[">>[1] = "["
    OBVIOUS
  <2>3. SubSeq(<<"[">>, 1, 1) = << <<"[">>[1] >>
    BY <2>2, SingleSubSeq
  <2> QED
    BY <2>1, <2>2, <2>3
<1> QED
  BY <1>1, <1>2, <1>3 DEF IsPrefix

\* SplitHostPort is the grammar of <host>:<port>.
LEMMA HostPortMeaning ==
  ASSUME NEW word \in Seq(STRING), word # <<>>
  PROVE  /\ \A r \in SplitHostPort(word) :
               r.port \in Port /\ SpellsHostPort(word, r.host, r.port)
         /\ \A host \in Seq(STRING), n \in Port :
               SpellsHostPort(word, host, n) => [host |-> host, port |-> n] \in SplitHostPort(word)
         /\ \A q, r \in SplitHostPort(word) : q = r
<1> DEFINE X == STRING \cup {":", "[", "]"}
           At(i) == HostPorts(SubSeq(word, 1, i - 1), After(word, i))
           In(i) == HostPorts(SubSeq(word, 2, i - 1), After(word, i + 1))
           Shut  == {i \in FirstOf(word, "]") : i < Len(word) /\ word[i + 1] = ":"}
<1>1. /\ word \in Seq(X) /\ Seq(STRING) \subseteq Seq(X)
      /\ ":" \in X /\ "[" \in X /\ "]" \in X
  OBVIOUS
<1> HIDE DEF X
<1>2. DOMAIN word = 1..Len(word) /\ Len(word) \in Nat /\ 1 <= Len(word)
  OBVIOUS
<1>3. \A i \in 1..Len(word) :
         /\ After(word, i) \in Seq(STRING) /\ Len(After(word, i)) = Len(word) - i
         /\ \A j \in 1..(Len(word) - i) : After(word, i)[j] = word[i + j]
  <2> TAKE i \in 1..Len(word)
  <2>1. i \in 0..Len(word)
    OBVIOUS
  <2> QED
    BY <2>1, AfterProperties
<1>4. \A i, j \in FirstOf(word, "]") : i = j
  BY <1>2 DEF FirstOf
<1>5. \A i, j \in LastOf(word, ":") : i = j
  BY <1>2 DEF LastOf
<1>6. ASSUME NEW host, NEW i \in 1..Len(word)
      PROVE  /\ \A r \in HostPorts(host, After(word, i)) :
                   r.host = host /\ r.port \in Port /\ SpellsPort(After(word, i), r.port)
             /\ \A q, r \in HostPorts(host, After(word, i)) : q = r
             /\ \A n \in Port : SpellsPort(After(word, i), n) =>
                   /\ [host |-> host, port |-> n] \in HostPorts(host, After(word, i))
                   /\ \A j \in (i + 1)..Len(word) : word[j] # ":"
  <2> DEFINE rest == After(word, i)
  <2>1. rest \in Seq(STRING) /\ Len(rest) = Len(word) - i
    BY <1>3
  <2>2. \A j \in (i + 1)..Len(word) : j - i \in 1..Len(rest) /\ word[j] = rest[j - i]
    <3> TAKE j \in (i + 1)..Len(word)
    <3>1. j - i \in 1..(Len(word) - i) /\ i + (j - i) = j
      BY <1>2
    <3> QED
      BY <3>1, <2>1, <1>3
  <2> HIDE DEF rest
  <2>3. /\ \A n \in U16(rest) : n \in Port /\ SpellsPort(rest, n)
        /\ \A n \in Port : SpellsPort(rest, n) => n \in U16(rest)
        /\ \A m, n \in U16(rest) : m = n
    BY <2>1, PortMeaning
  <2>4. HostPorts(host, rest) = {[host |-> host, port |-> n] : n \in U16(rest)}
    BY DEF HostPorts
  <2>5. ASSUME NEW n \in Port, SpellsPort(rest, n)
        PROVE  /\ [host |-> host, port |-> n] \in HostPorts(host, rest)
               /\ \A j \in (i + 1)..Len(word) : word[j] # ":"
    <3>1. n \in U16(rest)
      BY <2>3, <2>5
    <3>2. \A j \in 1..Len(rest) : rest[j] # ":"
      BY <3>1, <2>1, NoColon
    <3> QED
      BY <3>1, <3>2, <2>2, <2>4
  <2>6. /\ \A r \in HostPorts(host, rest) :
              r.host = host /\ r.port \in Port /\ SpellsPort(rest, r.port)
        /\ \A q, r \in HostPorts(host, rest) : q = r
    BY <2>3, <2>4
  <2> QED
    BY <2>5, <2>6 DEF rest
<1>7. CASE Head(word) = "["
  <2>1. SplitHostPort(word) = UNION {In(i) : i \in Shut}
    BY <1>7 DEF SplitHostPort, Bracketed
  <2>2. IsPrefix(<<"[">>, word) /\ word[1] = "["
    BY <1>1, <1>7, BeginsWithBracket
  <2>3. ASSUME NEW i \in Shut
        PROVE  /\ i \in FirstOf(word, "]") /\ i \in 1..Len(word)
               /\ i + 1 \in 1..Len(word) /\ i + 1 >= 3
               /\ (i + 1) - 2 = i - 1 /\ (i + 1) - 1 = i
               /\ word[i] = "]" /\ word[i + 1] = ":" /\ \A j \in 1..(i - 1) : word[j] # "]"
    <3>1. /\ i \in FirstOf(word, "]") /\ i \in 1..Len(word) /\ i < Len(word) /\ word[i] = "]"
          /\ word[i + 1] = ":" /\ \A j \in 1..(i - 1) : word[j] # "]"
      BY <1>2 DEF FirstOf
    <3>2. i # 1
      BY <3>1, <2>2, BracketsDiffer
    <3> HIDE DEF Shut
    <3> QED
      BY <3>1, <3>2, <1>2
  <2> HIDE DEF Shut
  <2>4. ASSUME NEW r \in SplitHostPort(word)
        PROVE  r.port \in Port /\ SpellsHostPort(word, r.host, r.port)
    <3>1. PICK i \in Shut : r \in In(i)
      BY <2>1
    <3> DEFINE m == i + 1
               host == SubSeq(word, 2, i - 1)
    <3>2. m \in 1..Len(word) /\ m >= 3 /\ m - 2 = i - 1 /\ m - 1 = i
      BY <2>3
    <3>3. r.host = host /\ r.port \in Port /\ SpellsPort(After(word, m), r.port)
      <4>1. r \in HostPorts(host, After(word, m))
        BY <3>1
      <4> HIDE DEF m, host
      <4> QED
        BY <3>2, <4>1, <1>6
    <3>4. /\ host \in Seq(X)
          /\ \A j \in 1..Len(host) : host[j] = word[j + 1] /\ j + 1 \in 1..(i - 1)
      BY <1>1, <2>3
    <3>5. word[m] = ":" /\ word[m - 1] = "]" /\ host = SubSeq(word, 2, m - 2)
      BY <2>3
    <3> HIDE DEF m, host
    <3>6. SubSeq(word, 1, m) = <<"[">> \o host \o <<"]", ":">>
      BY <1>1, <2>2, <3>2, <3>4, <3>5, BracketedHost
    <3>7. "]" \notin Range(host)
      <4>1. \A j \in 1..Len(host) : host[j] # "]"
        BY <3>4, <2>3
      <4>2. DOMAIN host = 1..Len(host)
        BY <3>4
      <4> QED
        BY <4>1, <4>2 DEF Range
    <3> QED
      BY <3>2, <3>3, <3>6, <3>7 DEF SpellsHostPort
  <2>5. ASSUME NEW host \in Seq(STRING), NEW n \in Port, SpellsHostPort(word, host, n)
        PROVE  [host |-> host, port |-> n] \in SplitHostPort(word)
    <3>1. PICK m \in 1..Len(word) :
             /\ SpellsPort(After(word, m), n)
             /\ \/ SubSeq(word, 1, m) = host \o <<":">> /\ ~IsPrefix(<<"[">>, word)
                \/ SubSeq(word, 1, m) = <<"[">> \o host \o <<"]", ":">> /\ "]" \notin Range(host)
      BY <2>5 DEF SpellsHostPort
    <3>2. SubSeq(word, 1, m) = <<"[">> \o host \o <<"]", ":">> /\ "]" \notin Range(host)
      BY <3>1, <2>2
    <3>3. host \in Seq(X)
      BY <1>1
    <3>4. /\ m >= 3 /\ host = SubSeq(word, 2, m - 2)
          /\ word[1] = "[" /\ word[m - 1] = "]" /\ word[m] = ":"
      <4>1. SubSeq(word, 1, m) = <<"[">> \o host \o <<"]", ":">>
        BY <3>2
      <4>2. SubSeq(word, 1, m) = <<"[">> \o host \o <<"]", ":">> <=>
               /\ m >= 3 /\ host = SubSeq(word, 2, m - 2)
               /\ word[1] = "[" /\ word[m - 1] = "]" /\ word[m] = ":"
        BY <1>1, <3>3, BracketedHost, SMTT(60)
      <4> QED
        BY <4>1, <4>2
    <3> DEFINE i == m - 1
    <3>5. i \in 1..Len(word) /\ i < Len(word) /\ i + 1 = m /\ i - 1 = m - 2
      BY <3>4, <1>2
    <3> HIDE DEF i
    <3>6. \A j \in 1..(i - 1) : word[j] # "]"
      <4> TAKE j \in 1..(i - 1)
      <4>1. CASE j = 1
        BY <4>1, <2>2, BracketsDiffer
      <4>2. CASE j # 1
        <5> DEFINE k == j - 1
        <5>1. k + 1 = j /\ k \in 1..(i - 2) /\ i - 1 \in Int /\ i \in 1..Len(word)
          BY <4>2, <3>5
        <5>2. k \in 1..Len(host) /\ host[k] = word[k + 1] /\ DOMAIN host = 1..Len(host)
          <6>1. host = SubSeq(word, 2, i - 1)
            BY <3>4, <3>5
          <6>2. \A l \in 2..(i - 1) : word[l] \in X
            BY <1>1, <3>5
          <6> HIDE DEF k
          <6>3. /\ SubSeq(word, 2, i - 1) \in Seq(X)
                /\ Len(SubSeq(word, 2, i - 1)) = IF 2 <= i - 1 THEN (i - 1) - 2 + 1 ELSE 0
                /\ \A l \in 1..((i - 1) - 2 + 1) : SubSeq(word, 2, i - 1)[l] = word[2 + l - 1]
            BY <5>1, <6>2, SubSeqProperties
          <6>4. 2 <= i - 1 /\ (i - 1) - 2 + 1 = i - 2 /\ 2 + k - 1 = k + 1
            BY <5>1
          <6> QED
            BY <5>1, <6>1, <6>3, <6>4
        <5> HIDE DEF k
        <5>3. host[k] \in Range(host)
          BY <5>2 DEF Range
        <5> QED
          BY <5>1, <5>2, <5>3, <3>2
      <4> QED
        BY <4>1, <4>2
    <3>7. i \in Shut
      BY <3>4, <3>5, <3>6, <1>2 DEF Shut, FirstOf
    <3>8. [host |-> host, port |-> n] \in HostPorts(host, After(word, m))
      BY <3>1, <1>6
    <3>9. [host |-> host, port |-> n] \in In(i)
      BY <3>8, <3>4, <3>5
    <3> QED
      BY <3>7, <3>9, <2>1
  <2>6. ASSUME NEW q \in SplitHostPort(word), NEW r \in SplitHostPort(word)
        PROVE  q = r
    <3>1. PICK i \in Shut : q \in In(i)
      BY <2>1
    <3>2. PICK j \in Shut : r \in In(j)
      BY <2>1
    <3>3. i = j
      BY <1>4, <2>3
    <3>4. i + 1 \in 1..Len(word)
      BY <2>3
    <3> QED
      BY <3>1, <3>2, <3>3, <3>4, <1>6
  <2> QED
    BY <2>4, <2>5, <2>6
<1>8. CASE Head(word) # "["
  <2>1. SplitHostPort(word) = UNION {At(i) : i \in LastOf(word, ":")}
    BY <1>8 DEF SplitHostPort
  <2>2. ~ IsPrefix(<<"[">>, word) /\ word[1] # "["
    BY <1>1, <1>8, BeginsWithBracket
  <2>3. ASSUME NEW i \in LastOf(word, ":")
        PROVE  i \in 1..Len(word) /\ word[i] = ":"
    BY <1>2 DEF LastOf
  <2>4. ASSUME NEW r \in SplitHostPort(word)
        PROVE  r.port \in Port /\ SpellsHostPort(word, r.host, r.port)
    <3>1. PICK i \in LastOf(word, ":") : r \in At(i)
      BY <2>1
    <3> DEFINE host == SubSeq(word, 1, i - 1)
    <3>2. i \in 1..Len(word) /\ word[i] = ":"
      BY <2>3
    <3>3. r.host = host /\ r.port \in Port /\ SpellsPort(After(word, i), r.port)
      <4>1. r \in HostPorts(host, After(word, i))
        BY <3>1
      <4> HIDE DEF host
      <4> QED
        BY <3>2, <4>1, <1>6, SMTT(60)
    <3>4. host \in Seq(X)
      BY <1>1, <3>2
    <3>5. SubSeq(word, 1, i) = host \o <<":">>
      BY <1>1, <3>2, <3>4, PlainHost
    <3> HIDE DEF host
    <3> QED
      BY <3>2, <3>3, <3>5, <2>2 DEF SpellsHostPort
  <2>5. ASSUME NEW host \in Seq(STRING), NEW n \in Port, SpellsHostPort(word, host, n)
        PROVE  [host |-> host, port |-> n] \in SplitHostPort(word)
    <3>1. PICK i \in 1..Len(word) :
             /\ SpellsPort(After(word, i), n)
             /\ \/ SubSeq(word, 1, i) = host \o <<":">> /\ ~IsPrefix(<<"[">>, word)
                \/ SubSeq(word, 1, i) = <<"[">> \o host \o <<"]", ":">> /\ "]" \notin Range(host)
      BY <2>5 DEF SpellsHostPort
    <3>2. host \in Seq(X)
      BY <1>1
    <3>3. SubSeq(word, 1, i) = host \o <<":">>
      BY <1>1, <2>2, <3>1, <3>2, BracketedHost
    <3>4. host = SubSeq(word, 1, i - 1) /\ word[i] = ":"
      BY <1>1, <3>2, <3>3, PlainHost
    <3>5. /\ [host |-> host, port |-> n] \in HostPorts(host, After(word, i))
          /\ \A j \in (i + 1)..Len(word) : word[j] # ":"
      BY <3>1, <1>6
    <3>6. i \in LastOf(word, ":")
      BY <3>4, <3>5, <1>2 DEF LastOf
    <3> QED
      BY <3>4, <3>5, <3>6, <2>1
  <2>6. ASSUME NEW q \in SplitHostPort(word), NEW r \in SplitHostPort(word)
        PROVE  q = r
    <3>1. PICK i \in LastOf(word, ":") : q \in At(i)
      BY <2>1
    <3>2. PICK j \in LastOf(word, ":") : r \in At(j)
      BY <2>1
    <3>3. i = j
      BY <1>5
    <3> QED
      BY <3>1, <3>2, <3>3, <2>3, <1>6
  <2> QED
    BY <2>4, <2>5, <2>6
<1> QED
  BY <1>7, <1>8

(***************************************************************************)
(* Lines.  Words are told apart by their keyword.                          *)
(***************************************************************************)
LEMMA KeywordsDiffer ==
  /\ <<"open">> # <<"close">> /\ <<"open">> # <<"label">> /\ <<"open">> # <<"status">>
  /\ <<"close">> # <<"label">> /\ <<"close">> # <<"status">> /\ <<"label">> # <<"status">>
  /\ <<"server">> # <<"client">> /\ <<"server">> # <<"ipc">> /\ <<"client">> # <<"ipc">>
<1>1. \A a, b : <<a>> = <<b>> => a = b
  OBVIOUS
<1>2. /\ "open" # "close" /\ "open" # "label" /\ "open" # "status"
      /\ "close" # "label" /\ "close" # "status" /\ "label" # "status"
      /\ "server" # "client" /\ "server" # "ipc" /\ "client" # "ipc"
  OBVIOUS
<1> QED
  BY <1>1, <1>2

LEMMA ParsedOpenIpc ==
  ASSUME NEW words
  PROVE  \A c : c \in ParseOpenIpc(words) <=>
            /\ Len(words) = 2
            /\ \/ words[1] = <<"server">> /\ c = OpenIpcServer(words[2])
               \/ words[1] = <<"client">> /\ c = OpenIpcClient(words[2])
  BY KeywordsDiffer DEF ParseOpenIpc, Is

LEMMA ParsedOpen ==
  ASSUME NEW words, words # <<>>
  PROVE  /\ words[1] = <<"server">> =>
               \A c : c \in ParseOpen(words) <=>
                  Len(words) = 2 /\ \E n \in U16(words[2]) : c = OpenTcpServer(n)
         /\ words[1] = <<"client">> =>
               \A c : c \in ParseOpen(words) <=>
                  /\ Len(words) = 3
                  /\ \E n \in U16(words[2]), r \in SplitHostPort(words[3]) : c = OpenTcpClient(n, r)
         /\ words[1] = <<"ipc">> => ParseOpen(words) = ParseOpenIpc(Tail(words))
         /\ words[1] \notin {<<"server">>, <<"client">>, <<"ipc">>} => ParseOpen(words) = {}
<1>1. \A c : c \in ParseOpenServer(words) <=>
               Len(words) = 2 /\ \E n \in U16(words[2]) : c = OpenTcpServer(n)
  BY DEF ParseOpenServer
<1>2. \A c : c \in ParseOpenClient(words) <=>
               /\ Len(words) = 3
               /\ \E n \in U16(words[2]), r \in SplitHostPort(words[3]) : c = OpenTcpClient(n, r)
  BY DEF ParseOpenClient
<1>3. /\ words[1] = <<"server">> => ParseOpen(words) = ParseOpenServer(words)
      /\ words[1] = <<"client">> => ParseOpen(words) = ParseOpenClient(words)
      /\ words[1] = <<"ipc">> => ParseOpen(words) = ParseOpenIpc(Tail(words))
      /\ words[1] \notin {<<"server">>, <<"client">>, <<"ipc">>} => ParseOpen(words) = {}
  BY KeywordsDiffer DEF ParseOpen, Is
<1> QED
  BY <1>1, <1>2, <1>3

LEMMA ParsedKeyword ==
  ASSUME NEW words, words # <<>>
  PROVE  /\ words[1] = <<"open">> => ParseLine(words) = ParseOpen(Tail(words))
         /\ words[1] = <<"close">> => ParseLine(words) = When(Len(words) = 2, Close(words[2]))
         /\ words[1] = <<"label">> =>
               ParseLine(words) = When(Len(words) = 3, Label(words[2], words[3]))
         /\ words[1] = <<"status">> => ParseLine(words) = When(Len(words) = 1, Status)
         /\ words[1] \notin Keywords =>
               ParseLine(words) = {Send(words[1], b) : b \in ParseHexTokens(Tail(words))}
  BY KeywordsDiffer DEF ParseLine, Is, Keywords

LEMMA ParsedOpening ==
  ASSUME NEW W, NEW words \in Seq(W), words # <<>>, words[1] = <<"open">>
  PROVE  \A c : c \in ParseLine(words) <=>
            \/ /\ Len(words) = 3 /\ words[2] = <<"server">>
               /\ \E n \in U16(words[3]) : c = OpenTcpServer(n)
            \/ /\ Len(words) = 4 /\ words[2] = <<"client">>
               /\ \E n \in U16(words[3]), r \in SplitHostPort(words[4]) : c = OpenTcpClient(n, r)
            \/ /\ Len(words) = 4 /\ words[2] = <<"ipc">> /\ words[3] = <<"server">>
               /\ c = OpenIpcServer(words[4])
            \/ /\ Len(words) = 4 /\ words[2] = <<"ipc">> /\ words[3] = <<"client">>
               /\ c = OpenIpcClient(words[4])
<1> DEFINE rest == Tail(words)
<1>1. /\ Len(words) \in Nat /\ Len(words) # 0 /\ rest \in Seq(W) /\ Len(rest) = Len(words) - 1
      /\ \A i \in 1..(Len(words) - 1) : rest[i] = words[i + 1]
  OBVIOUS
<1>2. ParseLine(words) = ParseOpen(rest)
  BY ParsedKeyword
<1> HIDE DEF rest
<1>3. CASE rest = <<>>
  <2>1. ParseOpen(rest) = {}
    BY <1>3 DEF ParseOpen
  <2>2. Len(words) = 1
    BY <1>1, <1>3
  <2> QED
    BY <1>2, <2>1, <2>2
<1>4. CASE rest # <<>>
  <2>1. /\ Len(rest) # 0 /\ rest[1] = words[2]
        /\ Len(words) >= 3 => rest[2] = words[3]
        /\ Len(words) >= 4 => rest[3] = words[4]
    BY <1>1, <1>4
  <2>2. (Len(rest) = 2 <=> Len(words) = 3) /\ (Len(rest) = 3 <=> Len(words) = 4)
    BY <1>1
  <2>3. CASE words[2] = <<"server">>
    <3>1. \A c : c \in ParseOpen(rest) <=>
             Len(rest) = 2 /\ \E n \in U16(rest[2]) : c = OpenTcpServer(n)
      BY <1>4, <2>1, <2>3, ParsedOpen
    <3> QED
      BY <3>1, <2>1, <2>2, <2>3, <1>2, KeywordsDiffer
  <2>4. CASE words[2] = <<"client">>
    <3>1. \A c : c \in ParseOpen(rest) <=>
             /\ Len(rest) = 3
             /\ \E n \in U16(rest[2]), r \in SplitHostPort(rest[3]) : c = OpenTcpClient(n, r)
      BY <1>4, <2>1, <2>4, ParsedOpen
    <3> QED
      BY <3>1, <2>1, <2>2, <2>4, <1>2, KeywordsDiffer
  <2>5. CASE words[2] = <<"ipc">>
    <3> DEFINE tail == Tail(rest)
    <3>1. /\ tail \in Seq(W) /\ Len(tail) = Len(rest) - 1
          /\ \A i \in 1..(Len(rest) - 1) : tail[i] = rest[i + 1]
      BY <1>1, <1>4
    <3>2. ParseOpen(rest) = ParseOpenIpc(tail)
      BY <1>4, <2>1, <2>5, ParsedOpen
    <3> HIDE DEF tail
    <3>3. \A c : c \in ParseOpenIpc(tail) <=>
             /\ Len(tail) = 2
             /\ \/ tail[1] = <<"server">> /\ c = OpenIpcServer(tail[2])
                \/ tail[1] = <<"client">> /\ c = OpenIpcClient(tail[2])
      BY ParsedOpenIpc
    <3>4. /\ Len(tail) = 2 <=> Len(words) = 4
          /\ Len(words) = 4 => tail[1] = words[3] /\ tail[2] = words[4]
      BY <3>1, <2>1, <1>1
    <3> QED
      BY <3>2, <3>3, <3>4, <2>5, <1>2, KeywordsDiffer
  <2>6. CASE words[2] \notin {<<"server">>, <<"client">>, <<"ipc">>}
    <3>1. ParseOpen(rest) = {}
      BY <1>4, <2>1, <2>6, ParsedOpen
    <3> QED
      BY <3>1, <2>6, <1>2
  <2> QED
    BY <2>3, <2>4, <2>5, <2>6
<1> QED
  BY <1>3, <1>4

LEMMA BeginsWithOne ==
  ASSUME NEW words, NEW n, NEW a
  PROVE  Begins(words, <<a>>, n) <=> Len(words) = n /\ words[1] = <<a>>
<1>1. DOMAIN <<a>> = {1} /\ <<a>>[1] = a
  OBVIOUS
<1> QED
  BY <1>1 DEF Begins

LEMMA BeginsWithTwo ==
  ASSUME NEW words, NEW n, NEW a, NEW b
  PROVE  Begins(words, <<a, b>>, n) <=>
            Len(words) = n /\ words[1] = <<a>> /\ words[2] = <<b>>
<1>1. DOMAIN <<a, b>> = {1, 2} /\ <<a, b>>[1] = a /\ <<a, b>>[2] = b
  OBVIOUS
<1> QED
  BY <1>1 DEF Begins

LEMMA BeginsWithThree ==
  ASSUME NEW words, NEW n, NEW a, NEW b, NEW d
  PROVE  Begins(words, <<a, b, d>>, n) <=>
            Len(words) = n /\ words[1] = <<a>> /\ words[2] = <<b>> /\ words[3] = <<d>>
<1>1. /\ DOMAIN <<a, b, d>> = {1, 2, 3}
      /\ <<a, b, d>>[1] = a /\ <<a, b, d>>[2] = b /\ <<a, b, d>>[3] = d
  OBVIOUS
<1> QED
  BY <1>1 DEF Begins

LEMMA SpellsOpenTcpServer ==
  ASSUME NEW words, NEW n
  PROVE  Spells(words, OpenTcpServer(n)) <=>
            /\ Len(words) = 3 /\ words[1] = <<"open">> /\ words[2] = <<"server">>
            /\ SpellsPort(words[3], n)
<1> DEFINE c == OpenTcpServer(n)
<1>1. c.cmd = "OpenTcpServer" /\ c.port = n
  BY DEF OpenTcpServer
<1> HIDE DEF c
<1>2. Spells(words, c) <=> Begins(words, <<"open", "server">>, 3) /\ SpellsPort(words[3], c.port)
  BY <1>1 DEF Spells
<1>3. Begins(words, <<"open", "server">>, 3) <=>
         Len(words) = 3 /\ words[1] = <<"open">> /\ words[2] = <<"server">>
  BY BeginsWithTwo, Zenon
<1>4. Spells(words, c) <=>
            /\ Len(words) = 3 /\ words[1] = <<"open">> /\ words[2] = <<"server">>
            /\ SpellsPort(words[3], n)
  BY <1>1, <1>2, <1>3, Zenon
<1> QED
  BY <1>4 DEF c

LEMMA SpellsOpenTcpClient ==
  ASSUME NEW words, NEW n, NEW r
  PROVE  Spells(words, OpenTcpClient(n, r)) <=>
            /\ Len(words) = 4 /\ words[1] = <<"open">> /\ words[2] = <<"client">>
            /\ SpellsPort(words[3], n) /\ SpellsHostPort(words[4], r.host, r.port)
<1> DEFINE c == OpenTcpClient(n, r)
<1>1. /\ c.cmd = "OpenTcpClient" /\ c.local_port = n
      /\ c.remote_host = r.host /\ c.remote_port = r.port
  BY DEF OpenTcpClient
<1> HIDE DEF c
<1>2. Spells(words, c) <=> /\ Begins(words, <<"open", "client">>, 4)
                           /\ SpellsPort(words[3], c.local_port)
                           /\ SpellsHostPort(words[4], c.remote_host, c.remote_port)
  BY <1>1 DEF Spells
<1>3. Begins(words, <<"open", "client">>, 4) <=>
         Len(words) = 4 /\ words[1] = <<"open">> /\ words[2] = <<"client">>
  BY BeginsWithTwo, Zenon
<1>4. Spells(words, c) <=>
            /\ Len(words) = 4 /\ words[1] = <<"open">> /\ words[2] = <<"client">>
            /\ SpellsPort(words[3], n) /\ SpellsHostPort(words[4], r.host, r.port)
  BY <1>1, <1>2, <1>3, Zenon
<1> QED
  BY <1>4 DEF c

LEMMA SpellsOpenIpcServer ==
  ASSUME NEW words, NEW path
  PROVE  Spells(words, OpenIpcServer(path)) <=>
            /\ Len(words) = 4 /\ words[1] = <<"open">> /\ words[2] = <<"ipc">>
            /\ words[3] = <<"server">> /\ words[4] = path
<1> DEFINE c == OpenIpcServer(path)
<1>1. c.cmd = "OpenIpcServer" /\ c.path = path
  BY DEF OpenIpcServer
<1> HIDE DEF c
<1>2. Spells(words, c) <=> Begins(words, <<"open", "ipc", "server">>, 4) /\ words[4] = c.path
  BY <1>1 DEF Spells
<1>3. Begins(words, <<"open", "ipc", "server">>, 4) <=>
         Len(words) = 4 /\ words[1] = <<"open">> /\ words[2] = <<"ipc">> /\ words[3] = <<"server">>
  BY BeginsWithThree, Zenon
<1>4. Spells(words, c) <=>
            /\ Len(words) = 4 /\ words[1] = <<"open">> /\ words[2] = <<"ipc">>
            /\ words[3] = <<"server">> /\ words[4] = path
  BY <1>1, <1>2, <1>3, Zenon
<1> QED
  BY <1>4 DEF c

LEMMA SpellsOpenIpcClient ==
  ASSUME NEW words, NEW path
  PROVE  Spells(words, OpenIpcClient(path)) <=>
            /\ Len(words) = 4 /\ words[1] = <<"open">> /\ words[2] = <<"ipc">>
            /\ words[3] = <<"client">> /\ words[4] = path
<1> DEFINE c == OpenIpcClient(path)
<1>1. c.cmd = "OpenIpcClient" /\ c.remote_path = path
  BY DEF OpenIpcClient
<1> HIDE DEF c
<1>2. Spells(words, c) <=>
         Begins(words, <<"open", "ipc", "client">>, 4) /\ words[4] = c.remote_path
  BY <1>1 DEF Spells
<1>3. Begins(words, <<"open", "ipc", "client">>, 4) <=>
         Len(words) = 4 /\ words[1] = <<"open">> /\ words[2] = <<"ipc">> /\ words[3] = <<"client">>
  BY BeginsWithThree, Zenon
<1>4. Spells(words, c) <=>
            /\ Len(words) = 4 /\ words[1] = <<"open">> /\ words[2] = <<"ipc">>
            /\ words[3] = <<"client">> /\ words[4] = path
  BY <1>1, <1>2, <1>3, Zenon
<1> QED
  BY <1>4 DEF c

LEMMA SpellsOthers ==
  ASSUME NEW words
  PROVE  /\ \A id : Spells(words, Close(id)) <=>
               Len(words) = 2 /\ words[1] = <<"close">> /\ words[2] = id
         /\ \A id, name : Spells(words, Label(id, name)) <=>
               Len(words) = 3 /\ words[1] = <<"label">> /\ words[2] = id /\ words[3] = name
         /\ Spells(words, Status) <=> Len(words) = 1 /\ words[1] = <<"status">>
         /\ \A id, bytes : Spells(words, Send(id, bytes)) <=>
               words # <<>> /\ Head(words) = id /\ SpellsPayload(Tail(words), bytes)
<1>1. \A id : /\ Close(id).cmd = "Close" /\ Close(id).id_token = id
  BY DEF Close
<1>2. \A id, name : /\ Label(id, name).cmd = "Label" /\ Label(id, name).id_token = id
                    /\ Label(id, name).name = name
  BY DEF Label
<1>3. Status.cmd = "Status"
  BY DEF Status
<1>4. \A id, bytes : /\ Send(id, bytes).cmd = "Send" /\ Send(id, bytes).id_token = id
                     /\ Send(id, bytes).bytes = bytes
  BY DEF Send
<1>5. \A c : /\ c.cmd = "Close" =>
                   (Spells(words, c) <=> Begins(words, <<"close">>, 2) /\ words[2] = c.id_token)
             /\ c.cmd = "Label" =>
                   (Spells(words, c) <=>
                       Begins(words, <<"label">>, 3) /\ words[2] = c.id_token /\ words[3] = c.name)
             /\ c.cmd = "Status" => (Spells(words, c) <=> Begins(words, <<"status">>, 1))
             /\ c.cmd = "Send" =>
                   (Spells(words, c) <=>
                       words # <<>> /\ Head(words) = c.id_token
                       /\ SpellsPayload(Tail(words), c.bytes))
  <2> TAKE c
  <2>1. c.cmd = "Close" =>
           (Spells(words, c) <=> Begins(words, <<"close">>, 2) /\ words[2] = c.id_token)
    BY DEF Spells
  <2>2. c.cmd = "Label" =>
           (Spells(words, c) <=>
               Begins(words, <<"label">>, 3) /\ words[2] = c.id_token /\ words[3] = c.name)
    BY DEF Spells
  <2>3. c.cmd = "Status" => (Spells(words, c) <=> Begins(words, <<"status">>, 1))
    BY DEF Spells
  <2>4. c.cmd = "Send" =>
           (Spells(words, c) <=>
               words # <<>> /\ Head(words) = c.id_token /\ SpellsPayload(Tail(words), c.bytes))
    BY DEF Spells
  <2> QED
    BY <2>1, <2>2, <2>3, <2>4
<1>6. \A a, n : Begins(words, <<a>>, n) <=> Len(words) = n /\ words[1] = <<a>>
  BY BeginsWithOne, Zenon
<1>7. \A id : Spells(words, Close(id)) <=>
         Len(words) = 2 /\ words[1] = <<"close">> /\ words[2] = id
  BY <1>1, <1>5, <1>6, Zenon
<1>8. \A id, name : Spells(words, Label(id, name)) <=>
         Len(words) = 3 /\ words[1] = <<"label">> /\ words[2] = id /\ words[3] = name
  <2> TAKE id, name
  <2> DEFINE c == Label(id, name)
  <2>1. c.cmd = "Label" /\ c.id_token = id /\ c.name = name
    BY <1>2
  <2> HIDE DEF c
  <2>2. Spells(words, c) <=>
           Begins(words, <<"label">>, 3) /\ words[2] = c.id_token /\ words[3] = c.name
    BY <1>5, <2>1
  <2>3. Begins(words, <<"label">>, 3) <=> Len(words) = 3 /\ words[1] = <<"label">>
    BY <1>6, Zenon
  <2> QED
    BY <2>1, <2>2, <2>3 DEF c
<1>9. Spells(words, Status) <=> Len(words) = 1 /\ words[1] = <<"status">>
  BY <1>3, <1>5, <1>6, Zenon
<1>10. \A id, bytes : Spells(words, Send(id, bytes)) <=>
          words # <<>> /\ Head(words) = id /\ SpellsPayload(Tail(words), bytes)
  <2> TAKE id, bytes
  <2> DEFINE c == Send(id, bytes)
  <2>1. c.cmd = "Send" /\ c.id_token = id /\ c.bytes = bytes
    BY <1>4
  <2> HIDE DEF c
  <2>2. Spells(words, c) <=>
           words # <<>> /\ Head(words) = c.id_token /\ SpellsPayload(Tail(words), c.bytes)
    BY <1>5, <2>1
  <2> QED
    BY <2>1, <2>2 DEF c
<1> QED
  BY <1>7, <1>8, <1>9, <1>10

LEMMA TypedCommands ==
  /\ \A n \in Port : Typed(OpenTcpServer(n))
  /\ \A n \in Port : \A r : r.port \in Port => Typed(OpenTcpClient(n, r))
  /\ \A path : Typed(OpenIpcServer(path)) /\ Typed(OpenIpcClient(path))
  /\ \A id, name : Typed(Close(id)) /\ Typed(Label(id, name))
  /\ Typed(Status)
  /\ \A id : \A b \in Seq(0..255) : Typed(Send(id, b))
<1>1. \A n \in Port : Typed(OpenTcpServer(n))
  <2> TAKE n \in Port
  <2>1. OpenTcpServer(n).cmd = "OpenTcpServer" /\ OpenTcpServer(n).port = n
    BY DEF OpenTcpServer
  <2> QED
    BY <2>1 DEF Typed
<1>2. ASSUME NEW n \in Port, NEW r, r.port \in Port
      PROVE  Typed(OpenTcpClient(n, r))
  <2> DEFINE c == OpenTcpClient(n, r)
  <2>1. c.cmd = "OpenTcpClient" /\ c.local_port \in Port /\ c.remote_port \in Port
    BY <1>2 DEF OpenTcpClient
  <2> HIDE DEF c
  <2>2. Typed(c)
    BY <2>1 DEF Typed
  <2> QED
    BY <2>2 DEF c
<1>3. ASSUME NEW c, c.cmd \in {"OpenIpcServer", "OpenIpcClient", "Close", "Label", "Status"}
      PROVE  Typed(c)
  BY <1>3 DEF Typed
<1>4. \A path : Typed(OpenIpcServer(path)) /\ Typed(OpenIpcClient(path))
  <2> TAKE path
  <2>1. OpenIpcServer(path).cmd = "OpenIpcServer" /\ OpenIpcClient(path).cmd = "OpenIpcClient"
    BY DEF OpenIpcServer, OpenIpcClient
  <2> QED
    BY <2>1, <1>3
<1>5. \A id, name : Typed(Close(id)) /\ Typed(Label(id, name))
  <2> TAKE id, name
  <2>1. Close(id).cmd = "Close" /\ Label(id, name).cmd = "Label"
    BY DEF Close, Label
  <2> QED
    BY <2>1, <1>3
<1>6. Typed(Status)
  <2>1. Status.cmd = "Status"
    BY DEF Status
  <2> QED
    BY <2>1, <1>3
<1>7. \A id : \A b \in Seq(0..255) : Typed(Send(id, b))
  <2> TAKE id
  <2> TAKE b \in Seq(0..255)
  <2>1. Send(id, b).cmd = "Send" /\ Send(id, b).bytes = b
    BY DEF Send
  <2> QED
    BY <2>1 DEF Typed
<1> QED
  BY <1>1, <1>2, <1>4, <1>5, <1>6, <1>7

LEMMA WordTypes ==
  ASSUME NEW words \in Seq(Seq(STRING) \ {<<>>})
  PROVE  /\ Len(words) \in Nat /\ DOMAIN words = 1..Len(words)
         /\ \A i \in 1..Len(words) : words[i] \in Seq(STRING) /\ words[i] # <<>>
         /\ words # <<>> =>
               /\ Len(words) # 0 /\ Head(words) = words[1]
               /\ Tail(words) \in Seq(Seq(STRING) \ {<<>>})
               /\ Len(Tail(words)) = Len(words) - 1
               /\ \A i \in 1..(Len(words) - 1) : Tail(words)[i] = words[i + 1]
OBVIOUS

\* What a line is taken for is one command it spells.
LEMMA LineDone ==
  ASSUME NEW words \in Seq(Seq(STRING) \ {<<>>}), NEW c \in ParseLine(words)
  PROVE  /\ Typed(c) /\ Spells(words, c)
         /\ \A d \in ParseLine(words) : c = d
<1>1. words # <<>>
  BY DEF ParseLine
<1>2. Len(words) # 0 /\ Head(words) = words[1] /\ Tail(words) \in Seq(Seq(STRING) \ {<<>>})
  BY <1>1, WordTypes
<1>3. CASE words[1] = <<"open">>
  <2>1. \A d : d \in ParseLine(words) <=>
            \/ /\ Len(words) = 3 /\ words[2] = <<"server">>
               /\ \E n \in U16(words[3]) : d = OpenTcpServer(n)
            \/ /\ Len(words) = 4 /\ words[2] = <<"client">>
               /\ \E n \in U16(words[3]), r \in SplitHostPort(words[4]) : d = OpenTcpClient(n, r)
            \/ /\ Len(words) = 4 /\ words[2] = <<"ipc">> /\ words[3] = <<"server">>
               /\ d = OpenIpcServer(words[4])
            \/ /\ Len(words) = 4 /\ words[2] = <<"ipc">> /\ words[3] = <<"client">>
               /\ d = OpenIpcClient(words[4])
    BY <1>1, <1>3, ParsedOpening
  <2>2. CASE Len(words) = 3 /\ words[2] = <<"server">>
    <3>1. \A d \in ParseLine(words) : \E n \in U16(words[3]) : d = OpenTcpServer(n)
      BY <2>1, <2>2
    <3>2. words[3] \in Seq(STRING)
      <4>1. 3 \in 1..Len(words)
        BY <2>2
      <4> QED
        BY <4>1, WordTypes
    <3>3. /\ \A n \in U16(words[3]) : n \in Port /\ SpellsPort(words[3], n)
          /\ \A m, n \in U16(words[3]) : m = n
      BY <3>2, PortMeaning
    <3>4. PICK n \in U16(words[3]) : c = OpenTcpServer(n)
      BY <3>1
    <3>5. Typed(c)
      BY <3>3, <3>4, TypedCommands
    <3>6. Spells(words, c)
      BY <3>3, <3>4, <2>2, <1>3, SpellsOpenTcpServer
    <3>7. \A d \in ParseLine(words) : c = d
      BY <3>1, <3>3, <3>4
    <3> QED
      BY <3>5, <3>6, <3>7
  <2>3. CASE Len(words) = 4 /\ words[2] = <<"client">>
    <3>1. \A d \in ParseLine(words) :
             \E n \in U16(words[3]), r \in SplitHostPort(words[4]) : d = OpenTcpClient(n, r)
      BY <2>1, <2>3, KeywordsDiffer
    <3>2. words[3] \in Seq(STRING) /\ words[4] \in Seq(STRING) /\ words[4] # <<>>
      <4>1. 3 \in 1..Len(words) /\ 4 \in 1..Len(words)
        BY <2>3
      <4> QED
        BY <4>1, WordTypes
    <3>3. /\ \A n \in U16(words[3]) : n \in Port /\ SpellsPort(words[3], n)
          /\ \A m, n \in U16(words[3]) : m = n
      BY <3>2, PortMeaning
    <3>4. /\ \A r \in SplitHostPort(words[4]) :
                r.port \in Port /\ SpellsHostPort(words[4], r.host, r.port)
          /\ \A q, r \in SplitHostPort(words[4]) : q = r
      BY <3>2, HostPortMeaning
    <3>5. PICK n \in U16(words[3]), r \in SplitHostPort(words[4]) : c = OpenTcpClient(n, r)
      BY <3>1
    <3>6. Typed(c)
      BY <3>3, <3>4, <3>5, TypedCommands
    <3>7. Spells(words, c)
      BY <3>3, <3>4, <3>5, <2>3, <1>3, SpellsOpenTcpClient
    <3>8. \A d \in ParseLine(words) : c = d
      BY <3>1, <3>3, <3>4, <3>5
    <3> QED
      BY <3>6, <3>7, <3>8
  <2>4. CASE Len(words) = 4 /\ words[2] = <<"ipc">> /\ words[3] = <<"server">>
    <3>1. \A d \in ParseLine(words) : d = OpenIpcServer(words[4])
      BY <2>1, <2>4, KeywordsDiffer
    <3>2. Spells(words, OpenIpcServer(words[4]))
      BY <2>4, <1>3, SpellsOpenIpcServer
    <3> QED
      BY <3>1, <3>2, TypedCommands
  <2>5. CASE Len(words) = 4 /\ words[2] = <<"ipc">> /\ words[3] = <<"client">>
    <3>1. \A d \in ParseLine(words) : d = OpenIpcClient(words[4])
      BY <2>1, <2>5, KeywordsDiffer
    <3>2. Spells(words, OpenIpcClient(words[4]))
      BY <2>5, <1>3, SpellsOpenIpcClient
    <3> QED
      BY <3>1, <3>2, TypedCommands
  <2> QED
    BY <2>1, <2>2, <2>3, <2>4, <2>5
<1>4. CASE words[1] = <<"close">>
  <2>1. ParseLine(words) = When(Len(words) = 2, Close(words[2]))
    BY <1>1, <1>4, ParsedKeyword
  <2>2. Len(words) = 2 /\ \A d \in ParseLine(words) : d = Close(words[2])
    BY <2>1 DEF When
  <2>3. Spells(words, Close(words[2]))
    BY <2>2, <1>4, SpellsOthers
  <2> QED
    BY <2>2, <2>3, TypedCommands
<1>5. CASE words[1] = <<"label">>
  <2>1. ParseLine(words) = When(Len(words) = 3, Label(words[2], words[3]))
    BY <1>1, <1>5, ParsedKeyword
  <2>2. Len(words) = 3 /\ \A d \in ParseLine(words) : d = Label(words[2], words[3])
    BY <2>1 DEF When
  <2>3. Spells(words, Label(words[2], words[3]))
    BY <2>2, <1>5, SpellsOthers
  <2> QED
    BY <2>2, <2>3, TypedCommands
<1>6. CASE words[1] = <<"status">>
  <2>1. ParseLine(words) = When(Len(words) = 1, Status)
    BY <1>1, <1>6, ParsedKeyword
  <2>2. Len(words) = 1 /\ \A d \in ParseLine(words) : d = Status
    BY <2>1 DEF When
  <2>3. Spells(words, Status)
    BY <2>2, <1>6, SpellsOthers
  <2> QED
    BY <2>2, <2>3, TypedCommands
<1>7. CASE words[1] \notin Keywords
  <2> DEFINE payloads == ParseHexTokens(Tail(words))
  <2>1. ParseLine(words) = {Send(words[1], b) : b \in payloads}
    BY <1>1, <1>7, ParsedKeyword
  <2>2. /\ \A b \in payloads : b \in Seq(0..255) /\ SpellsPayload(Tail(words), b)
        /\ \A a, b \in payloads : a = b
    BY <1>2, PayloadMeaning
  <2>3. PICK b \in payloads : c = Send(words[1], b)
    BY <2>1
  <2>4. \A d \in ParseLine(words) : c = d
    BY <2>1, <2>2, <2>3
  <2>5. Typed(c)
    BY <2>2, <2>3, TypedCommands
  <2>6. Spells(words, c)
    BY <1>1, <1>2, <2>2, <2>3, SpellsOthers
  <2> QED
    BY <2>4, <2>5, <2>6
<1> QED
  BY <1>3, <1>4, <1>5, <1>6, <1>7 DEF Keywords

\* A payload for an id that is no keyword is sent.
LEMMA PayloadSent ==
  ASSUME NEW words \in Seq(Seq(STRING) \ {<<>>}), WellFormedPayload(words)
  PROVE  ParseLine(words) # {}
<1>1. /\ Len(words) > 1 /\ Head(words) \notin Keywords
      /\ \A i \in 2..Len(words) : \A p \in Range(words[i]) : IsHexDigit(p)
      /\ Len(FlattenSeq(Tail(words))) % 2 = 0
  BY DEF WellFormedPayload
<1>2. words # <<>> /\ Len(words) \in Nat
  BY <1>1
<1> DEFINE rest == Tail(words)
<1>3. /\ Head(words) = words[1] /\ rest \in Seq(Seq(STRING) \ {<<>>})
      /\ Len(rest) = Len(words) - 1
      /\ \A i \in 1..(Len(words) - 1) : rest[i] = words[i + 1]
  BY <1>2, WordTypes
<1>4. ParseLine(words) = {Send(words[1], b) : b \in ParseHexTokens(rest)}
  BY <1>1, <1>2, <1>3, ParsedKeyword
<1>5. Len(FlattenSeq(rest)) % 2 = 0
  BY <1>1
<1> HIDE DEF rest
<1>6. \A i \in 1..Len(rest) : \A p \in Range(rest[i]) : IsHexDigit(p)
  <2> TAKE i \in 1..Len(rest)
  <2>1. i + 1 \in 2..Len(words) /\ i \in 1..(Len(words) - 1)
    BY <1>2, <1>3
  <2>2. rest[i] = words[i + 1]
    BY <2>1, <1>3
  <2> QED
    BY <2>1, <2>2, <1>1
<1>7. rest # <<>>
  BY <1>1, <1>2, <1>3
<1>8. ParseHexTokens(rest) # {}
  BY <1>3, <1>5, <1>6, <1>7, PayloadMeaning
<1> QED
  BY <1>4, <1>8

\* The pieces of a line are words or parts of words.
LEMMA PieceTypes ==
  ASSUME NEW words \in Seq(Seq(STRING) \ {<<>>})
  PROVE  Pieces(words) \subseteq Seq(STRING)
<1>1. ASSUME NEW word \in Seq(STRING), NEW i \in 1..Len(word), NEW j \in 1..Len(word)
      PROVE  SubSeq(word, i, j) \in Seq(STRING)
  <2>1. \A l \in i..j : word[l] \in STRING
    OBVIOUS
  <2>2. i \in Int /\ j \in Int
    OBVIOUS
  <2> QED
    BY <2>1, <2>2, SubSeqProperties
<1>2. \A word \in Seq(STRING) : PiecesOf(word) \subseteq Seq(STRING)
  <2> TAKE word \in Seq(STRING)
  <2> SUFFICES ASSUME NEW p \in PiecesOf(word) PROVE p \in Seq(STRING)
    OBVIOUS
  <2>1. PICK i \in 1..Len(word), j \in 1..Len(word) : p = SubSeq(word, i, j)
    BY DEF PiecesOf
  <2> QED
    BY <2>1, <1>1
<1>3. \A k \in DOMAIN words : PiecesOf(words[k]) \subseteq Seq(STRING)
  BY <1>2, WordTypes
<1>4. <<>> \in Seq(STRING)
  OBVIOUS
<1> QED
  BY <1>3, <1>4 DEF Pieces

\* A spelling of a command that is not a payload is taken for that command.
LEMMA LineSaid ==
  ASSUME NEW words \in Seq(Seq(STRING) \ {<<>>}), NEW c \in Meanings(words), Spells(words, c)
  PROVE  c \in ParseLine(words)
<1>1. \/ c = Status
      \/ \E n \in Port : c = OpenTcpServer(n)
      \/ \E n \in Port, h \in Pieces(words), m \in Port :
            c = OpenTcpClient(n, [host |-> h, port |-> m])
      \/ \E w \in Range(words) : c = OpenIpcServer(w) \/ c = OpenIpcClient(w) \/ c = Close(w)
      \/ \E v, w \in Range(words) : c = Label(v, w)
  <2>1. Ports(words) \subseteq Port
    BY DEF Ports
  <2>2. \/ c = Status
        \/ c \in {OpenTcpServer(n) : n \in Ports(words)}
        \/ c \in ClientMeanings(words)
        \/ c \in {Label(v, w) : v, w \in Range(words)}
        \/ c \in UNION {{OpenIpcServer(w), OpenIpcClient(w), Close(w)} : w \in Range(words)}
    BY DEF Meanings
  <2>3. ASSUME c \in ClientMeanings(words)
        PROVE  \E n \in Port, h \in Pieces(words), m \in Port :
                  c = OpenTcpClient(n, [host |-> h, port |-> m])
    <3>1. PICK n \in Ports(words), r \in [host : Pieces(words), port : Ports(words)] :
             c = OpenTcpClient(n, r)
      BY <2>3 DEF ClientMeanings
    <3>2. r = [host |-> r.host, port |-> r.port] /\ r.host \in Pieces(words) /\ r.port \in Port
      BY <2>1
    <3> QED
      BY <3>1, <3>2, <2>1
  <2>4. ASSUME c \in UNION {{OpenIpcServer(w), OpenIpcClient(w), Close(w)} : w \in Range(words)}
        PROVE  \E w \in Range(words) : c = OpenIpcServer(w) \/ c = OpenIpcClient(w) \/ c = Close(w)
    BY <2>4
  <2>5. ASSUME c \in {Label(v, w) : v, w \in Range(words)}
        PROVE  \E v, w \in Range(words) : c = Label(v, w)
    BY <2>5
  <2>6. ASSUME c \in {OpenTcpServer(n) : n \in Ports(words)}
        PROVE  \E n \in Port : c = OpenTcpServer(n)
    BY <2>1, <2>6
  <2> QED
    BY <2>2, <2>3, <2>4, <2>5, <2>6
<1>2. CASE c = Status
  <2>1. Len(words) = 1 /\ words[1] = <<"status">>
    BY <1>2, SpellsOthers
  <2>2. words # <<>>
    <3>1. Len(words) # 0
      BY <2>1
    <3> QED
      BY <3>1
  <2>3. ParseLine(words) = When(Len(words) = 1, Status)
    BY <2>1, <2>2, ParsedKeyword
  <2> QED
    BY <1>2, <2>1, <2>3 DEF When
<1>3. ASSUME NEW n \in Port, c = OpenTcpServer(n)
      PROVE  c \in ParseLine(words)
  <2>1. /\ Len(words) = 3 /\ words[1] = <<"open">> /\ words[2] = <<"server">>
        /\ SpellsPort(words[3], n)
    BY <1>3, SpellsOpenTcpServer
  <2>2. words # <<>> /\ 3 \in 1..Len(words)
    BY <2>1
  <2>3. words[3] \in Seq(STRING)
    BY <2>2, WordTypes
  <2>4. n \in U16(words[3])
    BY <2>1, <2>3, PortMeaning
  <2> QED
    BY <1>3, <2>1, <2>2, <2>4, ParsedOpening
<1>4. ASSUME NEW n \in Port, NEW h \in Pieces(words), NEW m \in Port,
             c = OpenTcpClient(n, [host |-> h, port |-> m])
      PROVE  c \in ParseLine(words)
  <2> DEFINE r == [host |-> h, port |-> m]
  <2>1. r.host = h /\ r.port = m /\ c = OpenTcpClient(n, r)
    BY <1>4
  <2>2. /\ Len(words) = 4 /\ words[1] = <<"open">> /\ words[2] = <<"client">>
        /\ SpellsPort(words[3], n) /\ SpellsHostPort(words[4], h, m)
    <3> HIDE DEF r
    <3> QED
      BY <2>1, SpellsOpenTcpClient
  <2>3. words # <<>> /\ 3 \in 1..Len(words) /\ 4 \in 1..Len(words)
    BY <2>2
  <2>4. words[3] \in Seq(STRING) /\ words[4] \in Seq(STRING) /\ words[4] # <<>>
    BY <2>3, WordTypes
  <2>5. n \in U16(words[3])
    BY <2>2, <2>4, PortMeaning
  <2>6. r \in SplitHostPort(words[4])
    <3>1. h \in Seq(STRING)
      BY PieceTypes
    <3> QED
      BY <3>1, <2>2, <2>4, HostPortMeaning
  <2> HIDE DEF r
  <2> QED
    BY <2>1, <2>2, <2>3, <2>5, <2>6, ParsedOpening
<1>5. ASSUME NEW w, c = OpenIpcServer(w)
      PROVE  c \in ParseLine(words)
  <2>1. /\ Len(words) = 4 /\ words[1] = <<"open">> /\ words[2] = <<"ipc">>
        /\ words[3] = <<"server">> /\ words[4] = w
    BY <1>5, SpellsOpenIpcServer
  <2>2. words # <<>>
    BY <2>1
  <2> QED
    BY <1>5, <2>1, <2>2, ParsedOpening
<1>6. ASSUME NEW w, c = OpenIpcClient(w)
      PROVE  c \in ParseLine(words)
  <2>1. /\ Len(words) = 4 /\ words[1] = <<"open">> /\ words[2] = <<"ipc">>
        /\ words[3] = <<"client">> /\ words[4] = w
    BY <1>6, SpellsOpenIpcClient
  <2>2. words # <<>>
    BY <2>1
  <2> QED
    BY <1>6, <2>1, <2>2, ParsedOpening
<1>7. ASSUME NEW w, c = Close(w)
      PROVE  c \in ParseLine(words)
  <2>1. Len(words) = 2 /\ words[1] = <<"close">> /\ words[2] = w
    BY <1>7, SpellsOthers
  <2>2. words # <<>>
    BY <2>1
  <2>3. ParseLine(words) = When(Len(words) = 2, Close(words[2]))
    BY <2>1, <2>2, ParsedKeyword
  <2> QED
    BY <1>7, <2>1, <2>3 DEF When
<1>8. ASSUME NEW v, NEW w, c = Label(v, w)
      PROVE  c \in ParseLine(words)
  <2>1. Len(words) = 3 /\ words[1] = <<"label">> /\ words[2] = v /\ words[3] = w
    BY <1>8, SpellsOthers
  <2>2. words # <<>>
    BY <2>1
  <2>3. ParseLine(words) = When(Len(words) = 3, Label(words[2], words[3]))
    BY <2>1, <2>2, ParsedKeyword
  <2> QED
    BY <1>8, <2>1, <2>3 DEF When
<1> QED
  BY <1>1, <1>2, <1>3, <1>4, <1>5, <1>6, <1>7, <1>8

-----------------------------------------------------------------------------
(***************************************************************************)
(* The invariant: what is known of a line is what it was taken for.        *)
(***************************************************************************)
ReadingInv ==
    /\ phase \in {"starting", "prompt", "read", "exited"}
    /\ IF phase = "starting" THEN args \in ArgLists ELSE args = <<>>
    /\ exitCode \in {0, 2} /\ level \in 0..3
    /\ IF phase = "read" THEN line \in Lines /\ outcome = ParseLine(line)
                         ELSE line = <<>> /\ outcome = {}

LEMMA ReadingInit == Init => ReadingInv
<1>1. Defaults.log_level \in 0..3
  BY DEF Defaults
<1> QED
  BY <1>1 DEF Init, ReadingInv

LEMMA ReadingNext == ReadingInv /\ [Next]_vars => ReadingInv'
<1> SUFFICES ASSUME ReadingInv, [Next]_vars
             PROVE  ReadingInv'
  OBVIOUS
<1>1. CASE Starts
  <2>1. phase = "starting" /\ args \in ArgLists
    BY <1>1 DEF Starts, ReadingInv
  <2>2. Len(args) \in Nat /\ \A i \in 1..Len(args) : IsArg(args[i])
    <3>1. /\ Len(args) \in Nat /\ DOMAIN args = 1..Len(args)
          /\ Range(args) = {args[i] : i \in 1..Len(args)}
      BY <2>1, TextAssumption DEF Range
    <3> QED
      BY <3>1, <2>1, TextAssumption
  <2>3. ParseSlice(args) = {} \/ \E cli \in Cli : ParseSlice(args) = {cli}
    BY <2>2, ParseSteps, ParsedSoFar DEF ParsedRight
  <2>4. level' = level \/ \E cli \in Cli : level' = cli.log_level
    BY <2>3, <1>1 DEF Starts
  <2>5. level' \in 0..3
    BY <2>4 DEF ReadingInv, Cli
  <2>6. phase' \in {"prompt", "exited"} /\ exitCode' \in {0, 2} /\ args' = <<>>
    BY <1>1 DEF Starts
  <2>7. line' = <<>> /\ outcome' = {}
    BY <2>1, <1>1 DEF Starts, ReadingInv
  <2> QED
    BY <2>5, <2>6, <2>7 DEF ReadingInv
<1>2. CASE ReadsLine
  BY <1>2 DEF ReadsLine, ReadingInv
<1>3. CASE GoesOn
  BY <1>3 DEF GoesOn, ReadingInv
<1>4. CASE UNCHANGED vars
  BY <1>4 DEF vars, ReadingInv
<1> QED
  BY <1>1, <1>2, <1>3, <1>4 DEF Next

\* The invariant holds in every state.
THEOREM ReadingTheorem == Spec => []ReadingInv
  BY ReadingInit, ReadingNext, PTL DEF Spec

(***************************************************************************)
(* A line is taken for one command at most, whose ports have sixteen bits  *)
(* and whose payload is bytes, whatever is written.                        *)
(***************************************************************************)
THEOREM CommandTypes == Spec => []TypeOK
<1>1. ReadingInv => TypeOK
  <2> SUFFICES ASSUME ReadingInv
               PROVE  TypeOK
    OBVIOUS
  <2>1. \A c, d \in outcome : Typed(c) /\ c = d
    <3>1. CASE phase = "read"
      <4>1. outcome = ParseLine(line) /\ line \in Seq(Seq(STRING) \ {<<>>})
        BY <3>1, TextAssumption DEF ReadingInv
      <4> QED
        BY <4>1, LineDone
    <3>2. CASE phase # "read"
      BY <3>2 DEF ReadingInv
    <3> QED
      BY <3>1, <3>2
  <2> QED
    BY <2>1 DEF ReadingInv, TypeOK
<1> QED
  BY <1>1, ReadingTheorem, PTL

(***************************************************************************)
(* For any line: a command is carried out only if the line is a spelling   *)
(* of it, to its last word and digit.                                      *)
(***************************************************************************)
THEOREM SaidTheorem == Spec => []WhatIsDoneWasSaid
<1>1. ReadingInv => WhatIsDoneWasSaid
  <2> SUFFICES ASSUME ReadingInv, NEW c \in outcome
               PROVE  Spells(line, c)
    BY DEF WhatIsDoneWasSaid
  <2>1. outcome = ParseLine(line) /\ line \in Seq(Seq(STRING) \ {<<>>})
    BY TextAssumption DEF ReadingInv
  <2> QED
    BY <2>1, LineDone
<1> QED
  BY <1>1, ReadingTheorem, PTL

(***************************************************************************)
(* For any line: what is refused is a spelling of no command, but for a    *)
(* payload for an id that reads like a command.                            *)
(***************************************************************************)
THEOREM DoneTheorem == Spec => []WhatIsSaidIsDone
<1>1. ReadingInv => WhatIsSaidIsDone
  <2> SUFFICES ASSUME ReadingInv, phase = "read", outcome = {}
               PROVE  ~WellFormedPayload(line) /\ \A c \in Meanings(line) : ~Spells(line, c)
    BY DEF WhatIsSaidIsDone
  <2>1. ParseLine(line) = {} /\ line \in Seq(Seq(STRING) \ {<<>>})
    BY TextAssumption DEF ReadingInv
  <2> QED
    BY <2>1, PayloadSent, LineSaid
<1> QED
  BY <1>1, ReadingTheorem, PTL

=============================================================================
