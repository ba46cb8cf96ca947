----------------------------- MODULE ShellLine ------------------------------
(***************************************************************************)
(* What the shell makes of a command line (HW2, part 2; the same files in  *)
(* HW4): a builtin is done by main() itself, with the words as they are;   *)
(* for anything else is_background() in the shell, then, in the child,     *)
(* redirect_in(), redirect_out() and pipe_and_exec(), which splits the     *)
(* vector at the first "|" and goes on with the rest in another process.   *)
(*                                                                         *)
(* The shell of HW1 knows fewer builtins and of the operators only "&".    *)
(*                                                                         *)
(* They all work on one array of words in place: a word is taken out by    *)
(* writing NULL over it, and a walk over the array stops at the first      *)
(* NULL.  How the processes run together is the matter of ShellJobs.       *)
(***************************************************************************)
EXTENDS Integers, Sequences, FiniteSetsExt

CONSTANTS
  Name,       \* words that are not operators: commands, arguments, files
  Readable,   \* the names that open() can open for reading
  Writable,   \* the names that creat() can make, or empty: no directory
  Directory,  \* the names that chdir() can go to
  Builtin,    \* inbuilts: the names that is_builtin() finds, and what they do
  Dash,       \* the word "-n"
  Number,     \* atoi() of the names that are numbers; of others it is 0
  Lines,      \* bound: the lines that may be typed, as words
  NULL

Operator == {"|", "<", ">", "&"}
Token == Name \cup Operator

ASSUME LineAssumption ==
  /\ Readable \subseteq Token /\ Writable \subseteq Token /\ Directory \subseteq Name
  /\ Writable \cap Directory = {} /\ NULL \notin Token
  /\ DOMAIN Builtin \subseteq Name
  /\ \A w \in DOMAIN Builtin : Builtin[w] \in {"echo", "cd", "builtin", "show", "quit"}
  /\ Dash \in Name /\ DOMAIN Number \subseteq Name /\ \A w \in DOMAIN Number : Number[w] \in Nat
  /\ \A l \in Lines : l \in Seq(Token) /\ l # <<>>

VARIABLES
  version,      \* the shell: "HW1", or "HW2" for this one and those of HW4
  line,         \* the words of the line, as they were typed
  argv,         \* the array of parse(), from 0, in the process that goes on
  at,           \* where pipe_and_exec() begins: its parameter myArgv
  phase,        \* the call that comes next
  run_in_background,   \* run_in_background
  sin, sout,    \* the descriptors 0 and 1 of the process that goes on
  stages,       \* the execvp() calls: the vector, and descriptors 0 and 1
  missing,      \* TRUE when "Missing command next to pipe" has been printed
  shellState,        \* "alive", or "gone" by exit or by an access outside the vector
  cwd,          \* the working directory of the shell
  printed       \* the words of the line that a builtin has printed

typed   == <<version, line>>
session == <<shellState, cwd, printed>>
lineVars == <<typed, argv, at, phase, run_in_background, sin, sout, stages, missing, session>>

Stage == [argv : Seq(Token) \ {<<>>}, in : Token \cup {"tty", "pipe"},
          out : Token \cup {"tty", "pipe"}]

LineTypeOK ==
  /\ version \in {"HW1", "HW2"} /\ line \in Seq(Token) \ {<<>>}
  /\ argv \in [0..Len(line) -> Token \cup {NULL}] /\ argv[Len(line)] = NULL
  /\ at \in 0..Len(line)
  /\ phase \in {"main", "echo", "cd", "builtin", "show", "quit", "background", "exec", "in",
                "out", "pipe", "done"}
  /\ run_in_background \in BOOLEAN /\ missing \in BOOLEAN
  /\ sin \in Token \cup {"tty", "pipe"} /\ sout \in Token \cup {"tty"}
  /\ stages \in Seq(Stage)
  /\ shellState \in {"alive", "gone"} /\ cwd \in Directory \cup {"home"}
  /\ printed \in Seq(Token \cup {NULL})

\* parse() has copied the words into the array and closed it with NULL; a
\* line without a word never comes so far.
LineInit ==
  /\ version \in {"HW1", "HW2"} /\ line \in Lines
  /\ argv = [i \in 0..Len(line) |-> IF i = Len(line) THEN NULL ELSE line[i + 1]]
  /\ at = 0 /\ phase = "main" /\ run_in_background = FALSE
  /\ sin = "tty" /\ sout = "tty" /\ stages = <<>> /\ missing = FALSE
  /\ shellState = "alive" /\ cwd = "home" /\ printed = <<>>

\* The walk from o: the first place with the word t, or the first NULL.
Find(t, o) == Min({i \in o..Len(line) : argv[i] \in {t, NULL}})
ArgvEnd(o)     == Find(NULL, o)

\* Every word from i to the next NULL is overwritten.
CutFrom(i) == [k \in DOMAIN argv |-> IF k \in i..ArgvEnd(i) THEN NULL ELSE argv[k]]

\* The words from o up to, and without, e.
Words(o, e) == [k \in 1..(e - o) |-> argv[o + k - 1]]
-----------------------------------------------------------------------------
(* main() and the builtins.                                                *)

atoi(w) == IF w \in DOMAIN Number THEN Number[w] ELSE 0

\* is_builtin(): the table of HW1 is shorter.
is_builtin(w) ==
  w \in DOMAIN Builtin /\ (version = "HW1" => Builtin[w] \in {"echo", "quit"})

Main ==
  /\ phase = "main"
  /\ phase' = IF is_builtin(argv[0]) THEN Builtin[argv[0]] ELSE "background"
  /\ UNCHANGED <<typed, argv, at, run_in_background, sin, sout, stages, missing, session>>

Return == /\ phase' = "done"
          /\ UNCHANGED <<typed, argv, at, run_in_background, sin, sout, stages, missing>>

\* A NULL where a word is needed, or a word from behind the array: the shell
\* is killed, or prints something that is not on the line.
Stray == \/ shellState' = "gone" /\ UNCHANGED <<cwd, printed>>
         \/ printed' = <<NULL>> /\ UNCHANGED <<shellState, cwd>>

\* Mutant: -n prints one word whatever comes behind it.
EchoAnyPlace ==
  /\ phase = "echo"
  /\ LET last  == Len(line) - 1
         place == IF last >= 2 THEN atoi(argv[2]) ELSE 0
     IN IF last < 2 \/ (argv[1] = Dash /\ place + 2 > last)
          THEN Stray
          ELSE /\ printed' = IF argv[1] = Dash THEN <<argv[place + 2]>> ELSE Words(1, last + 1)
               /\ UNCHANGED <<shellState, cwd>>
  /\ Return

\* bi_echo(): atoi(argv[2]) and strcmp(argv[1], "-n") come before anything
\* is known of the vector; -n and a number print the word at that place
\* behind the number.
Echo ==
  /\ phase = "echo"
  /\ LET last  == Len(line) - 1
         place == IF last >= 2 THEN atoi(argv[2]) ELSE 0
         nth   == argv[1] = Dash /\ place > 0
     IN IF last < 2 \/ (nth /\ place + 2 > last)
          THEN Stray
          ELSE /\ printed' = IF nth THEN <<argv[place + 2]>> ELSE Words(1, last + 1)
               /\ UNCHANGED <<shellState, cwd>>
  /\ Return

\* bi_cd(): chdir() fails on NULL as on a name that is no directory.
Cd ==
  /\ phase = "cd"
  /\ cwd' = IF argv[1] \in Directory THEN argv[1] ELSE cwd
  /\ UNCHANGED <<shellState, printed>>
  /\ Return

\* bi_builtin(): strcmp() with argv[1], which may be NULL.
TellBuiltin ==
  /\ phase = "builtin"
  /\ IF argv[1] = NULL
       THEN Stray
       ELSE printed' = <<argv[1]>> /\ UNCHANGED <<shellState, cwd>>
  /\ Return

\* bi_pwd(), bi_id(), bi_hostname(): nothing of the line.  When getcwd() or
\* uname() fails it is the shell that exits.
Show ==
  /\ phase = "show"
  /\ shellState' \in {"alive", "gone"}
  /\ UNCHANGED <<cwd, printed>>
  /\ Return

ExitShell == phase = "quit" /\ shellState' = "gone" /\ UNCHANGED <<cwd, printed>> /\ Return
-----------------------------------------------------------------------------
(* run_command() and the child.                                            *)

IsBackground ==
  /\ phase = "background"
  /\ LET i == Find("&", 0)
     IN /\ run_in_background' = (argv[i] = "&")
        /\ argv' = [argv EXCEPT ![i] = NULL]
  /\ phase' = IF version = "HW1" THEN "exec" ELSE "in"
  /\ UNCHANGED <<typed, at, sin, sout, stages, missing, session>>

\* HW1: execvp() of all the words, which fails when there is none.
ExecWhole ==
  /\ phase = "exec"
  /\ stages' = IF argv[0] = NULL THEN <<>>
               ELSE <<[argv |-> Words(0, ArgvEnd(0)), in |-> sin, out |-> sout]>>
  /\ phase' = "done"
  /\ UNCHANGED <<typed, argv, at, run_in_background, sin, sout, missing, session>>

\* open() fails on a name it cannot read, and on the NULL after a last "<";
\* dup2() of -1 then leaves descriptor 0 alone.
RedirectIn ==
  /\ phase = "in"
  /\ LET i == Find("<", 0)
     IN IF argv[i] = NULL
          THEN UNCHANGED <<sin, argv>>
          ELSE /\ sin' = IF argv[i + 1] \in Readable THEN argv[i + 1] ELSE sin
               /\ argv' = CutFrom(i)
  /\ phase' = "out"
  /\ UNCHANGED <<typed, at, run_in_background, sout, stages, missing, session>>

\* creat() makes the file when it is not there, and fails on a directory, on a
\* name that may not be written, and on the NULL after a last ">"; dup2() of -1
\* then leaves descriptor 1 alone.
RedirectOut ==
  /\ phase = "out"
  /\ LET i == Find(">", 0)
     IN IF argv[i] = NULL
          THEN UNCHANGED <<sout, argv>>
          ELSE /\ sout' = IF argv[i + 1] \in Writable THEN argv[i + 1] ELSE sout
               /\ argv' = CutFrom(i)
  /\ phase' = "pipe"
  /\ UNCHANGED <<typed, at, run_in_background, sin, stages, missing, session>>

\* Mutant: a "|" in the last place is not looked for.
PipePresentFirstOnly(o) ==
  LET bar == Find("|", o)
  IN  IF bar = o THEN -1 ELSE IF argv[bar] = NULL THEN 0 ELSE bar - o

\* The index of the first "|", or 0; -1 when it is the first or the last
\* word, and (index + 1) == argc also holds of a vector without words.
PipePresent(o) ==
  LET bar == Find("|", o)
  IN  IF bar = o \/ (argv[bar] # NULL /\ bar + 1 = ArgvEnd(o)) THEN -1
      ELSE IF argv[bar] = NULL THEN 0 ELSE bar - o

Missing ==
  /\ phase = "pipe"
  /\ PipePresent(at) = -1
  /\ missing' = TRUE
  /\ phase' = "done"
  /\ UNCHANGED <<typed, argv, at, run_in_background, sin, sout, stages, session>>

ExecCommand ==
  /\ phase = "pipe"
  /\ PipePresent(at) = 0
  /\ stages' = Append(stages, [argv |-> Words(at, ArgvEnd(at)), in |-> sin, out |-> sout])
  /\ phase' = "done"
  /\ UNCHANGED <<typed, argv, at, run_in_background, sin, sout, missing, session>>

\* Mutant: the process that goes on is given the write end as well.
ForkBothEnds ==
  /\ phase = "pipe"
  /\ LET bar == at + PipePresent(at)
     IN /\ bar > at
        /\ argv' = [argv EXCEPT ![bar] = NULL]
        /\ stages' = Append(stages, [argv |-> Words(at, bar), in |-> sin, out |-> sout])
        /\ at' = bar + 1
  /\ sin' = "pipe"
  /\ UNCHANGED <<typed, phase, run_in_background, sout, missing, session>>

\* The process becomes the left command, with the pipe for its output; the
\* one it has forked goes on behind the "|", with the pipe for its input
\* and the output it has inherited.
Fork ==
  /\ phase = "pipe"
  /\ LET bar == at + PipePresent(at)
     IN /\ bar > at
        /\ argv' = [argv EXCEPT ![bar] = NULL]
        /\ stages' = Append(stages, [argv |-> Words(at, bar), in |-> sin, out |-> "pipe"])
        /\ at' = bar + 1
  /\ sin' = "pipe"
  /\ UNCHANGED <<typed, phase, run_in_background, sout, missing, session>>

Done == phase = "done" /\ UNCHANGED lineVars

LineNext == \/ Main \/ Echo \/ Cd \/ TellBuiltin \/ Show \/ ExitShell
            \/ IsBackground \/ ExecWhole \/ RedirectIn \/ RedirectOut \/ Missing
            \/ ExecCommand \/ Fork \/ Done

LineSpec == LineInit /\ [][LineNext]_lineVars
-----------------------------------------------------------------------------
(* The meaning of a line, by the places of its operators.                  *)

Places(s)  == {i \in 1..Len(line) : line[i] \in s}
FirstOf(s) == Min(Places(s) \cup {Len(line) + 1})

\* The operators that the shell knows.
Known == IF version = "HW1" THEN {"&"} ELSE Operator

\* Nothing behind the first "&", "<" or ">" is a command; the bars before it
\* and the two ends delimit the commands.
Cut      == FirstOf(Known \ {"|"})
Bars     == {0, Cut} \cup {i \in Places(Known \cap {"|"}) : i < Cut}
NthBar(k) == CHOOSE b \in Bars : Cardinality({c \in Bars : c < b}) = k
Segment(k) == SubSeq(line, NthBar(k - 1) + 1, NthBar(k) - 1)
Commands == Cardinality(Bars) - 1

\* A command can be started when it has a word and so has the last one, in
\* case that comes next.
Starts(k) == /\ Segment(k) # <<>>
             /\ k = Commands - 1 => Segment(Commands) # <<>>

\* The word behind the operator t, when the redirection finds it: it stands
\* before the first "&" and, for ">", before the first "<".
FileOf(t, stop) ==
  LET i == FirstOf({t})
  IN IF t \in Known /\ i < FirstOf(stop) /\ i + 1 < FirstOf(stop) /\ i + 1 <= Len(line)
       THEN line[i + 1] ELSE NULL

Input  == IF FileOf("<", {"&"}) \in Readable THEN FileOf("<", {"&"}) ELSE "tty"
Output == IF FileOf(">", {"&", "<"}) \in Writable THEN FileOf(">", {"&", "<"}) ELSE "tty"
-----------------------------------------------------------------------------
(* Properties.                                                             *)

IsBuiltin == is_builtin(line[1])
Is(kind)  == IsBuiltin /\ Builtin[line[1]] = kind
Picks     == Len(line) >= 3 /\ line[2] = Dash /\ atoi(line[3]) > 0

\* The recursion over the bars starts the commands before the first "&",
\* "<" or ">", each with its own words, in their order, up to the first one
\* that is missing (pipe_command.c, split arg vector into two; recursively
\* deal with other pipes).  The shell of HW1 starts the words before the
\* first "&" as one command.
StartsInOrder ==
  phase = "done" /\ ~IsBuiltin =>
    /\ \A k \in 1..Len(stages) : stages[k].argv = Segment(k) /\ Starts(k)
    /\ Len(stages) < Commands => ~Starts(Len(stages) + 1)
    /\ missing = (version = "HW2" /\ Len(stages) < Commands)

\* Whatever the redirections take out of the vector, the processes are one
\* chain: each command but the first reads from the pipe of the one before,
\* each but the last writes to a pipe; the file behind "<", if it can be
\* opened, is the input of the first, and the file behind ">", if it can be
\* made, the output of the last: a redirection that fails leaves the shell's
\* own (pipe_command.c, redirect output of "parent" through the pipe;
\* redirect_out.c, where nobody looks whether creat() has failed).
OneChain ==
  phase = "done" =>
    \A k \in 1..Len(stages) :
      /\ stages[k].in = IF k > 1 THEN "pipe" ELSE Input
      /\ stages[k].out = IF k < Commands THEN "pipe" ELSE Output

\* A builtin is one only as the first word of a line, and then the operators
\* are words like the others: the shell ends and moves by no other line (and
\* ends by pwd and hostname when the system fails them), and echo prints all
\* the words, or the one at the place asked for, as long as the words it
\* looks at are there (shell.c, if command is recognized as a builtin, do it).
BuiltinsInShell ==
  phase = "done" =>
    /\ IsBuiltin => stages = <<>> /\ ~run_in_background
    /\ Is("quit") => shellState = "gone"
    /\ shellState = "gone" => \/ Is("quit") \/ Is("show")
                              \/ Is("builtin") /\ Len(line) = 1
                              \/ Is("echo") /\ \/ Len(line) < 3
                                               \/ Picks /\ atoi(line[3]) > Len(line) - 3
    /\ cwd # "home" => Is("cd") /\ cwd = line[2]
    /\ Is("echo") /\ Len(line) >= 3 =>
         IF Picks THEN atoi(line[3]) <= Len(line) - 3 => printed = <<line[atoi(line[3]) + 3]>>
                  ELSE printed = Tail(line)
-----------------------------------------------------------------------------
(* Inductive invariant.                                                    *)

Builtins == {"echo", "cd", "builtin", "show", "quit"}

\* What the next call is about.
PhaseInv ==
  /\ phase \in Builtins => Is(phase)
  /\ phase \in {"background", "exec", "in", "out", "pipe"} => ~IsBuiltin
  /\ phase = "exec" => version = "HW1"
  /\ phase \in {"in", "out", "pipe"} => version = "HW2"
  /\ phase # "done" \/ ~IsBuiltin => session = <<"alive", "home", <<>>>>
  /\ phase # "done" => ~missing
  /\ phase \notin {"pipe", "done"} => at = 0 /\ stages = <<>>
  /\ IsBuiltin => stages = <<>> /\ ~run_in_background

\* The words of the line from place o + 1 on, and NULL instead of word c.
Holds(o, c) == argv[c - 1] = NULL /\ \A i \in o..(c - 2) : argv[i] = line[i + 1]

VectorInv ==
  /\ phase \in Builtins \cup {"main", "background"} => Holds(0, Len(line) + 1)
  /\ phase \in {"exec", "in"} => Holds(0, FirstOf({"&"}))
  /\ phase = "out" => Holds(0, FirstOf({"&", "<"}))
  /\ phase = "pipe" => Holds(at, Cut)

RedirectInv ==
  /\ phase \in Builtins \cup {"main", "background", "exec", "in"} => sin = "tty"
  /\ phase \in Builtins \cup {"main", "background", "exec", "in", "out"} => sout = "tty"
  /\ phase = "out" => sin = Input
  /\ phase = "pipe" => sin = (IF stages = <<>> THEN Input ELSE "pipe") /\ sout = Output

\* As many commands are started as bars are behind the process that goes on.
ChainInv ==
  /\ phase = "pipe" => /\ at \in Bars /\ at < Cut
                       /\ Len(stages) = Cardinality({b \in Bars : b < at})
  /\ \A k \in 1..Len(stages) :
       /\ stages[k].argv = Segment(k) /\ Starts(k)
       /\ stages[k].in = IF k > 1 THEN "pipe" ELSE Input
       /\ stages[k].out = IF k < Commands THEN "pipe" ELSE Output

LineInv == /\ LineTypeOK /\ PhaseInv /\ VectorInv /\ RedirectInv /\ ChainInv
           /\ StartsInOrder /\ BuiltinsInShell
=============================================================================
