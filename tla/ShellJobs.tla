----------------------------- MODULE ShellJobs ------------------------------
(***************************************************************************)
(* The processes of the shell (HW4, part 2): main() and run_command() in   *)
(* the shell, which waits for a foreground child and for no other, and     *)
(* pipe_and_exec(), by which the child becomes the first command of a      *)
(* pipeline after it has forked a process for the rest of it.              *)
(*                                                                         *)
(* A process is a pair: the line it comes from and its place there.  The   *)
(* pipe to the right of a process carries the name of the process, which   *)
(* has made it.  The words of a line are the matter of ShellLine.          *)
(*                                                                         *)
(* The commands are external: one that has a pipe for its input reads it   *)
(* to the end and ends then, or earlier; one that has a pipe for its       *)
(* output writes as long as there is room.                                 *)
(***************************************************************************)
EXTENDS Integers, FiniteSets

CONSTANTS
  MaxLines,    \* bound: lines that are typed
  MaxStages,   \* bound: commands on a line
  Slots,       \* how many processes the user may have besides the shell
  Room         \* bound: what a pipe holds

ASSUME JobsAssumption ==
  MaxLines \in Nat \ {0} /\ MaxStages \in Nat \ {0} /\ Slots \in Nat /\ Room \in Nat \ {0}

Line == 1..MaxLines
Proc == Line \X (1..MaxStages)

VARIABLES
  shell, job,       \* where run_command() is, and the line it is about
  size, background, \* the commands on each line, and run_in_background
  st,               \* where each process is
  pending,          \* the processes that an interrupt awaits
  rd, wr,           \* the processes that have an end of a pipe open
  data              \* what is in each pipe

shellVars == <<shell, job, size, background>>
pipeVars  == <<rd, wr, data>>
jobsVars      == <<shellVars, st, pending, pipeVars>>

Left(p)  == <<p[1], p[2] - 1>>
Right(p) == <<p[1], p[2] + 1>>
First(j) == <<j, 1>>

JobsTypeOK ==
  /\ shell \in {"prompt", "fork", "wait", "gone"} /\ job \in 0..MaxLines
  /\ size \in [Line -> 0..MaxStages] /\ background \in [Line -> BOOLEAN]
  /\ st \in [Proc -> {"none", "masked", "split", "pipe", "talk", "listen", "run",
                      "zombie", "gone"}]
  /\ pending \subseteq Proc
  /\ rd \in [Proc -> SUBSET Proc] /\ wr \in [Proc -> SUBSET Proc]
  /\ data \in [Proc -> 0..Room]

JobsInit ==
  /\ shell = "prompt" /\ job = 0
  /\ size = [j \in Line |-> 0] /\ background = [j \in Line |-> FALSE]
  /\ st = [p \in Proc |-> "none"] /\ pending = {}
  /\ rd = [p \in Proc |-> {}] /\ wr = [p \in Proc |-> {}]
  /\ data = [p \in Proc |-> 0]

Alive(p) == st[p] \notin {"none", "zombie", "gone"}
Over(p)  == st[p] \in {"zombie", "gone"}
Free     == Cardinality({p \in Proc : st[p] \notin {"none", "gone"}}) < Slots

\* The processes of S end: what they had open is closed; each stays a zombie
\* as long as its parent is there, because only waitpid() takes it away.
Orphan(p, S) == IF p[2] = 1 THEN shell = "gone" ELSE ~Alive(Left(p)) \/ Left(p) \in S
End(S) ==
  /\ st' = [p \in Proc |->
              IF p \in S \/ st[p] = "zombie"
                THEN IF Orphan(p, S) THEN "gone" ELSE "zombie"
                ELSE st[p]]
  /\ pending' = pending \ S
  /\ rd' = [p \in Proc |-> rd[p] \ S] /\ wr' = [p \in Proc |-> wr[p] \ S]

Goto(p, l) == st' = [st EXCEPT ![p] = l]
-----------------------------------------------------------------------------
(* The shell: main() and run_command().                                    *)

ReadLine(n, b) ==
  /\ shell = "prompt" /\ job < MaxLines
  /\ job' = job + 1
  /\ size' = [size EXCEPT ![job + 1] = n]
  /\ background' = [background EXCEPT ![job + 1] = b]
  /\ shell' = "fork"
  /\ UNCHANGED <<st, pending, pipeVars>>

\* The shell ends with its input, or by the builtin exit; init takes over
\* its zombies.
ShellGone ==
  /\ shell' = "gone"
  /\ st' = [p \in Proc |-> IF p[2] = 1 /\ st[p] = "zombie" THEN "gone" ELSE st[p]]

Quit ==
  /\ shell = "prompt"
  /\ ShellGone
  /\ UNCHANGED <<job, size, background, pending, pipeVars>>

\* The child still blocks what the shell blocks.  When fork() fails, it is
\* the shell that exits.
RunCommand ==
  /\ shell = "fork"
  /\ IF Free
       THEN /\ Goto(First(job), "masked")
            /\ shell' = IF background[job] THEN "prompt" ELSE "wait"
       ELSE ShellGone
  /\ UNCHANGED <<job, size, background, pending, pipeVars>>

\* waitpid() of the child, whatever has become of the commands behind it.
Wait ==
  /\ shell = "wait"
  /\ st[First(job)] = "zombie"
  /\ Goto(First(job), "gone")
  /\ shell' = "prompt"
  /\ UNCHANGED <<job, size, background, pending, pipeVars>>
-----------------------------------------------------------------------------
(* The children: run_command() and pipe_and_exec().                        *)

\* Mutant: the child keeps the mask of the shell.
UnmaskSkipped(p) ==
  /\ st[p] = "masked"
  /\ Goto(p, "split")
  /\ UNCHANGED <<shellVars, pending, pipeVars>>

\* With the old mask an interrupt that waits is delivered.
Unmask(p) ==
  /\ st[p] = "masked"
  /\ IF p \in pending
       THEN End({p})
       ELSE Goto(p, "split") /\ UNCHANGED <<pending, rd, wr>>
  /\ UNCHANGED <<shellVars, data>>

MakePipe(p) ==
  /\ st[p] = "split" /\ p[2] < size[p[1]]
  /\ rd' = [rd EXCEPT ![p] = {p}] /\ wr' = [wr EXCEPT ![p] = {p}]
  /\ Goto(p, "pipe")
  /\ UNCHANGED <<shellVars, pending, data>>

\* The new process has all that its parent has open; when there is none,
\* the parent exits.
ForkRight(p) ==
  /\ st[p] = "pipe"
  /\ IF Free
       THEN /\ st' = [st EXCEPT ![p] = "talk", ![Right(p)] = "listen"]
            /\ rd' = [x \in Proc |-> IF p \in rd[x] THEN rd[x] \cup {Right(p)} ELSE rd[x]]
            /\ wr' = [x \in Proc |-> IF p \in wr[x] THEN wr[x] \cup {Right(p)} ELSE wr[x]]
            /\ UNCHANGED pending
       ELSE End({p})
  /\ UNCHANGED <<shellVars, data>>

\* Mutant: the read end stays open in the process that writes.
TalkBothEnds(p) ==
  /\ st[p] = "talk"
  /\ Goto(p, "run")
  /\ UNCHANGED <<shellVars, pending, rd, wr, data>>

\* The left side: descriptor 1 is the pipe, and the command is executed.
Talk(p) ==
  /\ st[p] = "talk"
  /\ rd' = [rd EXCEPT ![p] = @ \ {p}]
  /\ Goto(p, "run")
  /\ UNCHANGED <<shellVars, pending, wr, data>>

\* Mutant: the write end stays open in the process that reads.
ListenBothEnds(p) ==
  /\ st[p] = "listen"
  /\ rd' = [x \in Proc |-> IF x = Left(p) THEN rd[x] ELSE rd[x] \ {p}]
  /\ Goto(p, "split")
  /\ UNCHANGED <<shellVars, pending, wr, data>>

\* The right side: descriptor 0, until now what its parent reads, is the
\* pipe; then pipe_and_exec() of the rest.
Listen(p) ==
  /\ st[p] = "listen"
  /\ wr' = [wr EXCEPT ![Left(p)] = @ \ {p}]
  /\ rd' = [x \in Proc |-> IF x = Left(p) THEN rd[x] ELSE rd[x] \ {p}]
  /\ Goto(p, "split")
  /\ UNCHANGED <<shellVars, pending, data>>

Exec(p) ==
  /\ st[p] = "split" /\ p[2] = size[p[1]]
  /\ Goto(p, "run")
  /\ UNCHANGED <<shellVars, pending, pipeVars>>

\* No command next to the pipe, pipe() or execvp() fails: exit(errno).
GiveUp(p) ==
  /\ st[p] \in {"split", "talk"}
  /\ End({p})
  /\ UNCHANGED <<shellVars, data>>
-----------------------------------------------------------------------------
(* The commands, and the terminal.                                         *)

Reads(p)  == p[2] > 1
Writes(p) == p[2] < size[p[1]]

\* Without a reader, SIGPIPE.
Write(p) ==
  /\ st[p] = "run" /\ Writes(p)
  /\ IF rd[p] = {}
       THEN End({p}) /\ UNCHANGED data
       ELSE /\ data[p] < Room
            /\ data' = [data EXCEPT ![p] = @ + 1]
            /\ UNCHANGED <<st, pending, rd, wr>>
  /\ UNCHANGED shellVars

Read(p) ==
  /\ st[p] = "run" /\ Reads(p)
  /\ data[Left(p)] > 0
  /\ data' = [data EXCEPT ![Left(p)] = @ - 1]
  /\ UNCHANGED <<shellVars, st, pending, rd, wr>>

EndOfFile(p) ==
  /\ st[p] = "run" /\ Reads(p)
  /\ data[Left(p)] = 0 /\ wr[Left(p)] = {}
  /\ End({p})
  /\ UNCHANGED <<shellVars, data>>

Exit(p) ==
  /\ st[p] = "run"
  /\ End({p})
  /\ UNCHANGED <<shellVars, data>>

\* Control-C reaches every process of the terminal, those in the background
\* too; the shell and a child that still has its mask block it.
Interrupt ==
  /\ \E p \in Proc : Alive(p) /\ p \notin pending
  /\ LET masked == {p \in Proc : st[p] = "masked"}
         others == {p \in Proc : Alive(p)} \ masked
     IN /\ st' = [p \in Proc |->
                    IF p \in others \/ st[p] = "zombie"
                      THEN IF Orphan(p, others) THEN "gone" ELSE "zombie"
                      ELSE st[p]]
        /\ pending' = pending \cup masked
        /\ rd' = [p \in Proc |-> rd[p] \ others] /\ wr' = [p \in Proc |-> wr[p] \ others]
  /\ UNCHANGED <<shellVars, data>>
-----------------------------------------------------------------------------
Setup(p)   == Unmask(p) \/ MakePipe(p) \/ ForkRight(p) \/ Talk(p) \/ Listen(p) \/ Exec(p)
Command(p) == Write(p) \/ Read(p) \/ EndOfFile(p)

JobsNext ==
  \/ \E n \in 1..MaxStages, b \in BOOLEAN : ReadLine(n, b)
  \/ Quit \/ RunCommand \/ Wait \/ Interrupt
  \/ \E p \in Proc : Setup(p) \/ Command(p) \/ GiveUp(p) \/ Exit(p)

\* The shell and the children keep running, a command goes on reading; no
\* command need ever end by itself.
JobsFairness ==
  /\ WF_jobsVars(RunCommand) /\ WF_jobsVars(Wait)
  /\ \A p \in Proc : WF_jobsVars(Setup(p)) /\ WF_jobsVars(Read(p)) /\ WF_jobsVars(EndOfFile(p))

JobsSpec     == JobsInit /\ [][JobsNext]_jobsVars
JobsFairSpec == JobsSpec /\ JobsFairness
-----------------------------------------------------------------------------
(* Properties.                                                             *)

\* A command that runs has no end of a pipe open but the one it reads and
\* the one it writes, however many processes have been forked while it was
\* being set up (pipe_command.c, don't need read side, write side open).
OnlyItsEnds ==
  \A p \in Proc : st[p] = "run" =>
    \A x \in Proc : (p \in rd[x] => x = Left(p)) /\ (p \in wr[x] => x = p)

\* The end of a command reaches the one behind it as the end of its input,
\* and so on through the pipeline (pipe_command.c, create a pipe to bridge
\* the left and right halves of the vector).
EndReaches ==
  \A p \in Proc : p[2] < MaxStages =>
    (Over(p) /\ Alive(Right(p)) ~> ~Alive(Right(p)))

\* An interrupt that comes before the child has its own mask is not lost:
\* the child ends, and with it the wait of the shell (run_command.c,
\* sigprocmask in the child; shell.c).
InterruptNotLost ==
  \A j \in Line : First(j) \in pending ~> Over(First(j)) /\ (shell # "wait" \/ job # j)
-----------------------------------------------------------------------------
(* Inductive invariant.                                                    *)

\* The pipes a process may have an end of open, by how far it has been set
\* up: pipe() gives it both ends of its own, and what its parent had open it
\* has until it closes it.
MayRead(p) ==
  IF st[p] \in {"pipe", "talk"} THEN {Left(p), p}
  ELSE IF st[p] = "listen" THEN {Left(Left(p)), Left(p)}
  ELSE IF st[p] \in {"split", "run"} THEN {Left(p)} ELSE {}

MayWrite(p) ==
  IF st[p] \in {"pipe", "talk", "run"} THEN {p}
  ELSE IF st[p] = "listen" THEN {Left(p)} ELSE {}

EndsInv ==
  \A p, x \in Proc : /\ p \in rd[x] => x \in MayRead(p)
                     /\ p \in wr[x] => x \in MayWrite(p)

\* The lines to come have no processes, and a pipeline is set up from left
\* to right: a new process has nothing open of an earlier one in its place.
OrderInv ==
  /\ \A p \in Proc : p[1] > job \/ (p[1] = job /\ shell = "fork") => st[p] = "none"
  /\ \A p \in Proc : st[p] \in {"none", "masked", "listen", "split", "pipe"} /\ Right(p) \in Proc =>
       st[Right(p)] = "none"

\* Only a process with a command behind its own makes a pipe.
SizeInv ==
  /\ job \in 0..MaxLines /\ (shell \in {"fork", "wait"} => job > 0)
  /\ \A p \in Proc : st[p] \in {"pipe", "talk"} => p[2] < size[p[1]]

JobsInv == JobsTypeOK /\ SizeInv /\ OrderInv /\ EndsInv
=============================================================================
