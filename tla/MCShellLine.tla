---------------------------- MODULE MCShellLine -----------------------------
(* Names of every kind: a program, of which there is no file in the working *)
(* directory, so that open() fails and creat() makes one; a directory, which*)
(* open() opens and creat() does not; the builtins, "-n" and the number 1.  *)
(* Operators are names of files as well, one of them there already.  The    *)
(* lines are all of up to five words over the program, the directory and    *)
(* the operators, and all of up to four over everything.                    *)
EXTENDS ShellLine

CONSTANTS ls, file, echo, cd, builtin, pwd, exit, dash, one

MCName     == {ls, file, echo, cd, builtin, pwd, exit, dash, one}
MCReadable == {file, "|"}
MCWritable == {ls} \cup Operator
MCBuiltin  == [w \in {echo, cd, builtin, pwd, exit} |->
                 CASE w = echo    -> "echo"
                   [] w = cd      -> "cd"
                   [] w = builtin -> "builtin"
                   [] w = pwd     -> "show"
                   [] w = exit    -> "quit"]
MCNumber   == [w \in {one} |-> 1]
MCLines    == UNION {[1..k -> {ls, file} \cup Operator] : k \in 1..5}
              \cup UNION {[1..k -> MCName \cup Operator] : k \in 1..4}
=============================================================================
