----------------------------- MODULE SharedStack -----------------------------
(***************************************************************************)
(* The character stack two processes share (HW6).  The buffer is a System  *)
(* V segment, the index an anonymous mapping, and both are guarded by a    *)
(* named POSIX semaphore.  Each process pushes and pops STACK_SIZE times;  *)
(* push() and pop() wait for room or for a character while they hold the   *)
(* semaphore.  The parent waits for the child and removes the semaphore.   *)
(*                                                                         *)
(* Buffer and index die with the processes.  The name of the semaphore,    *)
(* with its value, does not: sem_open(O_CREAT) gives the value 1 only to a *)
(* name that does not exist.                                               *)
(***************************************************************************)
EXTENDS Integers, FiniteSets

CONSTANTS
  Proc,         \* parent and child
  STACK_SIZE,
  NUL           \* the empty slot

ASSUME StackAssumption ==
  /\ STACK_SIZE \in Nat
  /\ IsFiniteSet(Proc) /\ Cardinality(Proc) <= STACK_SIZE
  /\ NUL \notin Proc \X (0..STACK_SIZE)

VARIABLES
  on,             \* the program is running
  named, sem,     \* the semaphore's name exists; its value
  myBuf, index,   \* the shared stack
  pc, i,          \* where each process is, and its loop counter
  returned        \* history: the characters pop() has returned in this run

semVars   == <<named, sem>>
stackVars == <<myBuf, index>>
procVars  == <<pc, i>>
sharedVars == <<on, semVars, stackVars, procVars, returned>>

\* temp[k] of process p: all characters are different ("ABC" and "123").
Char == Proc \X (0..(STACK_SIZE - 1))

\* The places at which a process holds the semaphore.
HoldPC == {"testpush", "write", "inc", "postpush", "testpop", "dec", "read", "postpop"}
Holds(p) == on /\ pc[p] \in HoldPC

StackTypeOK ==
  /\ on \in BOOLEAN /\ named \in BOOLEAN
  /\ sem \in {0, 1}
  /\ myBuf \in [0..(STACK_SIZE - 1) -> Char \cup {NUL}]
  /\ index \in 0..STACK_SIZE
  /\ pc \in [Proc -> HoldPC \cup {"push", "pop", "end"}]
  /\ i \in [Proc -> 0..STACK_SIZE]
  /\ returned \in SUBSET (Char \cup {NUL})

StackInit ==
  /\ on = FALSE
  /\ named = FALSE /\ sem = 0
  /\ myBuf = [k \in 0..(STACK_SIZE - 1) |-> NUL] /\ index = 0
  /\ pc = [p \in Proc |-> "end"] /\ i = [p \in Proc |-> STACK_SIZE]
  /\ returned = {}

Goto(p, l) == pc' = [pc EXCEPT ![p] = l]

\* main() up to the fork.
Start ==
  /\ ~on /\ on' = TRUE
  /\ named' = TRUE
  /\ sem' = IF named THEN sem ELSE 1
  /\ myBuf' = [k \in 0..(STACK_SIZE - 1) |-> NUL] /\ index' = 0
  /\ pc' = [p \in Proc |-> "push"] /\ i' = [p \in Proc |-> 0]
  /\ returned' = {}
-----------------------------------------------------------------------------
(* push()                                                                  *)

\* Mutant: push does not wait for the semaphore.
PushWaitSkipped(p) ==
  /\ on /\ pc[p] = "push"
  /\ Goto(p, "testpush")
  /\ UNCHANGED <<on, named, sem, stackVars, i, returned>>

PushWait(p) ==
  /\ on /\ pc[p] = "push"
  /\ sem > 0 /\ sem' = sem - 1
  /\ Goto(p, "testpush")
  /\ UNCHANGED <<on, named, stackVars, i, returned>>

Pushable == index # STACK_SIZE /\ myBuf[index] = NUL

\* The loop sleeps for as long as the stack is not pushable.
PushTest(p) ==
  /\ on /\ pc[p] = "testpush"
  /\ Pushable
  /\ Goto(p, "write")
  /\ UNCHANGED <<on, semVars, stackVars, i, returned>>

PushWrite(p) ==
  /\ on /\ pc[p] = "write"
  /\ myBuf' = [myBuf EXCEPT ![index] = <<p, i[p]>>]
  /\ Goto(p, "inc")
  /\ UNCHANGED <<on, semVars, index, i, returned>>

PushInc(p) ==
  /\ on /\ pc[p] = "inc"
  /\ index' = index + 1
  /\ Goto(p, "postpush")
  /\ UNCHANGED <<on, semVars, myBuf, i, returned>>

PushPost(p) ==
  /\ on /\ pc[p] = "postpush"
  /\ sem' = sem + 1
  /\ Goto(p, "pop")
  /\ UNCHANGED <<on, named, stackVars, i, returned>>
-----------------------------------------------------------------------------
(* pop()                                                                   *)

PopWait(p) ==
  /\ on /\ pc[p] = "pop"
  /\ sem > 0 /\ sem' = sem - 1
  /\ Goto(p, "testpop")
  /\ UNCHANGED <<on, named, stackVars, i, returned>>

PopTest(p) ==
  /\ on /\ pc[p] = "testpop"
  /\ index # 0
  /\ Goto(p, "dec")
  /\ UNCHANGED <<on, semVars, stackVars, i, returned>>

PopDec(p) ==
  /\ on /\ pc[p] = "dec"
  /\ index' = index - 1
  /\ Goto(p, "read")
  /\ UNCHANGED <<on, semVars, myBuf, i, returned>>

\* Mutant: the slot is not cleared.
PopReadNoClear(p) ==
  /\ on /\ pc[p] = "read"
  /\ returned' = returned \cup {myBuf[index]}
  /\ Goto(p, "postpop")
  /\ UNCHANGED <<on, semVars, myBuf, index, i>>

PopRead(p) ==
  /\ on /\ pc[p] = "read"
  /\ returned' = returned \cup {myBuf[index]}
  /\ myBuf' = [myBuf EXCEPT ![index] = NUL]
  /\ Goto(p, "postpop")
  /\ UNCHANGED <<on, semVars, index, i>>

\* Mutant: the loop counter stays where it is.
PopPostNoCount(p) ==
  /\ on /\ pc[p] = "postpop"
  /\ sem' = sem + 1
  /\ Goto(p, "push")
  /\ UNCHANGED <<on, named, stackVars, i, returned>>

\* ... and the for loop of main() goes round.
PopPost(p) ==
  /\ on /\ pc[p] = "postpop"
  /\ sem' = sem + 1
  /\ i' = [i EXCEPT ![p] = @ + 1]
  /\ Goto(p, IF i'[p] < STACK_SIZE THEN "push" ELSE "end")
  /\ UNCHANGED <<on, named, stackVars, returned>>
-----------------------------------------------------------------------------
\* wait(0) returns and the parent removes the semaphore and the segment.
Finish ==
  /\ on /\ \A p \in Proc : pc[p] = "end"
  /\ on' = FALSE /\ named' = FALSE
  /\ UNCHANGED <<sem, stackVars, procVars, returned>>

\* A signal from the terminal ends both processes, wherever they are.
Interrupt ==
  /\ on /\ on' = FALSE
  /\ UNCHANGED <<semVars, stackVars, procVars, returned>>

ProcStep(p) ==
  \/ PushWait(p) \/ PushTest(p) \/ PushWrite(p) \/ PushInc(p) \/ PushPost(p)
  \/ PopWait(p) \/ PopTest(p) \/ PopDec(p) \/ PopRead(p) \/ PopPost(p)

StackNext == Start \/ Finish \/ Interrupt \/ \E p \in Proc : ProcStep(p)

\* The sleeps end; weak fairness is enough at the semaphore because every
\* process takes it a bounded number of times.
StackFairness == WF_sharedVars(Finish) /\ \A p \in Proc : WF_sharedVars(ProcStep(p))

StackSpec     == StackInit /\ [][StackNext]_sharedVars
StackFairSpec == StackSpec /\ StackFairness
-----------------------------------------------------------------------------
(* Properties.                                                             *)

\* At most one process is between sem_wait and sem_post, also in a run that
\* starts on the semaphore an interrupted run left behind.
Exclusion == \A p, q \in Proc : Holds(p) /\ Holds(q) => p = q

\* Every character pushed is returned by one pop() or is still there,
\* whichever process pops it: none is lost, returned empty or left behind.
Pushed == {c \in Char : /\ c[2] <= i[c[1]]
                        /\ c[2] = i[c[1]] => pc[c[1]] = "pop"}
Stored == {myBuf[k] : k \in 0..(index - 1)}

NothingLost ==
  on /\ (\A p \in Proc : ~Holds(p)) =>
    returned \cup Stored = Pushed /\ returned \cap Stored = {}

\* A process that holds the semaphore never has to wait for the other one,
\* which could not get in to help it: with no more processes than slots,
\* each leaving at most one character, there is room for a push and
\* something to pop (stack.c, the loops that sleep inside the semaphore).
NeverSleepsInside ==
  \A p \in Proc : on => /\ pc[p] = "testpush" => Pushable
                        /\ pc[p] = "testpop" => index # 0

\* A run that starts on a new semaphore ends, unless it is interrupted.
\* sem_open(O_CREAT) finds the semaphore of an interrupted run as that run
\* left it: when one process was inside, nobody gets in again (stack.c,
\* "create a named semaphore with the value 1").
Whole    == sem + Cardinality({p \in Proc : Holds(p)}) = 1
Finishes == on /\ Whole ~> ~on
-----------------------------------------------------------------------------
(* Inductive invariant.                                                    *)

\* The semaphore: who holds it has brought it to zero.
LockInv == \A p \in Proc : Holds(p) => sem = 0

\* A process that is still in its loop has a character to push.
LoopInv == on => \A p \in Proc : pc[p] # "end" => i[p] < STACK_SIZE

\* The processes that have a character on the stack more than before their
\* round, perhaps the character of another one.
Ahead == {p \in Proc : pc[p] \in {"postpush", "pop", "testpop", "dec"}}

\* The index counts them, and the slots from the index on are empty; but
\* for the one that a process has just filled, or is about to clear.
ShapeInv ==
  on => /\ index = Cardinality(Ahead)
        /\ \A k \in 0..(STACK_SIZE - 1) : k >= index =>
             \/ myBuf[k] = NUL
             \/ k = index /\ \E p \in Proc : pc[p] \in {"inc", "read"}

StackInv == StackTypeOK /\ Exclusion /\ LockInv /\ LoopInv /\ ShapeInv

\* The slots in use, with the one at the index while it is filled or read,
\* and the characters that have been written into one.
Moving == \E p \in Proc : pc[p] \in {"inc", "read"}
Filled == {k \in 0..(STACK_SIZE - 1) : k < index \/ (k = index /\ Moving)}
Wrote(p, k) ==
  \/ k < i[p]
  \/ k = i[p] /\ pc[p] \notin {"push", "testpush", "write", "end"}
Written == {c \in Char : Wrote(c[1], c[2])}

\* Each of them is in one slot, or has been returned.
ContentInv ==
  on => /\ returned \subseteq Written
        /\ \A k \in Filled : myBuf[k] \in Written \ returned
        /\ \A c \in Written \ returned : \E k \in Filled : myBuf[k] = c
        /\ \A j, k \in Filled : myBuf[j] = myBuf[k] => j = k
=============================================================================
