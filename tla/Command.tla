------------------------------ MODULE Command ------------------------------
(***************************************************************************)
(* From a line of input to a command.  A line is the sequence of its       *)
(* words; spaces, the line end and other white space separate them and are *)
(* gone.                                                                   *)
(***************************************************************************)
EXTENDS Naturals, Sequences

CONSTANTS
    Lower,   \* to_lowercase, of the words that are not in lower case
    Cut      \* what a word can be cut off to, of the words that can be

(* What each command takes, in words. *)
Takes == [set |-> 2, get |-> 1, delete |-> 1, quit |-> 0, help |-> 0]

Aliases ==
    [set    |-> {"set", "s"},
     get    |-> {"get", "g"},
     delete |-> {"delete", "del", "d"},
     quit   |-> {"quit", "q", "exit"},
     help   |-> {"help", "h"}]

Lowercase(word) == IF word \in DOMAIN Lower THEN Lower[word] ELSE word

Named(word) == {op \in DOMAIN Aliases : Lowercase(word) \in Aliases[op]}

(* CommandError *)
Unrecognized == [err |-> "unrecognized command"]
Missing      == [err |-> "missing required arguments"]
TooMany      == [err |-> "too many arguments"]

(* Mutation: the words that are left over are not looked at. *)
FitIgnoresRest(op, args) ==
    IF Len(args) < Takes[op] THEN Missing
    ELSE [op |-> op, args |-> SubSeq(args, 1, Takes[op])]

(* Mutation: a word too few is made up for. *)
FitFillsIn(op, args) ==
    IF Len(args) > Takes[op] THEN TooMany
    ELSE [op |-> op, args |-> [i \in 1 .. Takes[op] |->
                                  IF i \in DOMAIN args THEN args[i] ELSE op]]

(* The command op with these arguments.  Quit and help take no argument and
   look at none. *)
Fit(op, args) ==
    CASE Len(args) < Takes[op] -> Missing
      [] Len(args) > Takes[op] /\ op \notin {"quit", "help"} -> TooMany
      [] OTHER -> [op |-> op, args |-> SubSeq(args, 1, Takes[op])]

(* Command::try_from *)
TryFrom(words) ==
    CASE words = <<>> -> Missing
      [] words # <<>> /\ Named(words[1]) = {} -> Unrecognized
      [] OTHER -> Fit(CHOOSE op \in Named(words[1]) : TRUE, Tail(words))

IsCommand(result) == "op" \in DOMAIN result

(* read_line returns what there is when the input ends: some of the words, the
   last of them perhaps not all of it. *)
Beginnings(word) == IF word \in DOMAIN Cut THEN Cut[word] ELSE {}

CutLines(words) ==
    {SubSeq(words, 1, n) : n \in 0 .. Len(words)}
      \cup UNION {{Append(SubSeq(words, 1, n - 1), w) : w \in Beginnings(words[n])} :
                  n \in DOMAIN words}

Outcome(words) ==
    LET result == TryFrom(words)
    IN  IF IsCommand(result) THEN result.op ELSE result.err

(* The tests of the parser: a line, and the command or the error it gives. *)
ParseTests ==
    {<<<<"set", "a", "b">>, "set">>,
     <<<<"s", "a", "b">>, "set">>,
     <<<<"get", "a">>, "get">>,
     <<<<"g", "a">>, "get">>,
     <<<<"delete", "a">>, "delete">>,
     <<<<"del", "a">>, "delete">>,
     <<<<"d", "a">>, "delete">>,
     <<<<"quit">>, "quit">>,
     <<<<"q">>, "quit">>,
     <<<<"exit">>, "quit">>,
     <<<<"help">>, "help">>,
     <<<<"h">>, "help">>,
     <<<<>>, "missing required arguments">>,
     <<<<"set", "a">>, "missing required arguments">>,
     <<<<"set">>, "missing required arguments">>,
     <<<<"get">>, "missing required arguments">>,
     <<<<"delete">>, "missing required arguments">>,
     <<<<"set", "a", "b", "c">>, "too many arguments">>,
     <<<<"get", "a", "b">>, "too many arguments">>,
     <<<<"delete", "a", "b">>, "too many arguments">>,
     <<<<"foo">>, "unrecognized command">>}

(* The line words begins with the name of a command, and cut, if it is a
   command, keeps what words mean as far as cut goes: it is that command, and of
   its arguments only the last can be cut short. *)
Keeps(words, cut) ==
    LET got == TryFrom(cut)
    IN  words # <<>> /\ Named(words[1]) # {} /\ IsCommand(got) =>
            /\ got.op \in Named(words[1])
            /\ \A i \in DOMAIN got.args :
                  \/ got.args[i] = words[i + 1]
                  \/ i = Len(got.args) /\ got.args[i] \in Beginnings(words[i + 1])
=============================================================================
