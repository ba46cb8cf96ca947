------------------------------ MODULE ShmLookup ------------------------------
(***************************************************************************)
(* The dictionary service over one shared-memory record and a group of two *)
(* System V semaphores (HW8).                                              *)
(*                                                                         *)
(*   semaphore 0   excludes the other clients, initially 1                 *)
(*   semaphore 1   the client raises it by 2 and waits for zero; the       *)
(*                 server lowers it by 1 before and after the lookup       *)
(*                                                                         *)
(* Every operation but the wait for zero carries SEM_UNDO: the kernel      *)
(* keeps a per-process adjustment, refuses (ERANGE) an operation that      *)
(* would take it out of range, and adds it to the semaphore at exit.  No   *)
(* caller looks at the result of semop().                                  *)
(*                                                                         *)
(* strcpy() is not atomic: a copy that another process may see half done   *)
(* is a Begin step that leaves Junk and an End step.                       *)
(***************************************************************************)
EXTENDS Integers, FiniteSets, Dictionary

CONSTANTS
  Client,   \* the client processes
  Server,   \* the server process
  SEMVMX,   \* largest semaphore value and largest adjustment (32767 on Linux)
  MaxAsk    \* bound: questions per client

ASSUME ShmAssumption ==
  /\ Server \notin Client
  /\ SEMVMX \in Nat /\ SEMVMX >= 2
  /\ MaxAsk \in Nat

\* The limit is odd, as 32767 is: it is the server's second decrement, the
\* notification, that fails first.
ASSUME ParityAssumption == SEMVMX % 2 = 1

VARIABLES
  sem0, sem1,         \* the semaphore values
  adj0, adj1,         \* the SEM_UNDO adjustments of each process
  shmWord, shmText,   \* the shared Dictrec
  pc,                 \* where each client is
  word, result,       \* tryit.word, and what main() printed last
  asks,               \* how many questions the client has asked
  spc, sought,        \* where the server is, and the word it is looking up
  ended               \* history: "server" once the server has ended, "client"
                      \* once a client's end has disturbed an exchange

semVars    == <<sem0, sem1, adj0, adj1>>
shmVars    == <<shmWord, shmText>>
clientVars == <<pc, word, result, asks>>
serverVars == <<spc, sought, ended>>
vars       == <<semVars, shmVars, clientVars, serverVars>>

Process == Client \cup {Server}

\* A client between grab and release owns semaphore 0.
InsidePC == {"putword", "puttingword", "alert", "await", "release"}
Inside(c) == pc[c] \in InsidePC
PC == InsidePC \cup {"idle", "grab", "compare", "copy", "gone"}

TypeOK ==
  /\ sem0 \in 0..SEMVMX /\ sem1 \in 0..SEMVMX
  /\ adj0 \in [Client -> Int] /\ adj1 \in [Process -> Int]
  /\ shmWord \in Word \cup {Junk} /\ shmText \in Answer \cup {Junk}
  /\ pc \in [Client -> PC]
  /\ word \in [Client -> Word \cup {Junk}]
  /\ result \in [Client -> Answer \cup {Junk}]
  /\ asks \in [Client -> 0..MaxAsk]
  /\ spc \in {"wait", "lookup", "reply", "replying", "notify", "down"}
  /\ sought \in Word \cup {Junk}
  /\ ended \subseteq {"client", "server"}

\* The server has run semctl(SETALL, {1, 0}) on zero-filled shared memory.
Init ==
  /\ sem0 = 1 /\ sem1 = 0
  /\ adj0 = [c \in Client |-> 0] /\ adj1 = [p \in Process |-> 0]
  /\ shmWord = Junk /\ shmText = Junk
  /\ pc = [c \in Client |-> "idle"]
  /\ word = [c \in Client |-> Junk] /\ result = [c \in Client |-> Junk]
  /\ asks = [c \in Client |-> 0]
  /\ spc = "wait" /\ sought = Junk
  /\ ended = {}
-----------------------------------------------------------------------------
(* The kernel's side of semop() and of process exit.                       *)

\* semop(n) with SEM_UNDO on semaphore 1: blocks below zero; out of range
\* it fails and changes nothing.
Sem1Op(p, n) ==
  /\ sem1 + n >= 0
  /\ IF sem1 + n <= SEMVMX /\ adj1[p] - n \in (-SEMVMX - 1)..SEMVMX
       THEN /\ sem1' = sem1 + n
            /\ adj1' = [adj1 EXCEPT ![p] = @ - n]
       ELSE UNCHANGED <<sem1, adj1>>

\* The same on semaphore 0, which only clients use.
Sem0Op(c, n) ==
  /\ sem0 + n >= 0
  /\ IF sem0 + n <= SEMVMX /\ adj0[c] - n \in (-SEMVMX - 1)..SEMVMX
       THEN /\ sem0' = sem0 + n
            /\ adj0' = [adj0 EXCEPT ![c] = @ - n]
       ELSE UNCHANGED <<sem0, adj0>>

\* A semaphore after an exiting process's adjustment: clamped to its range.
Undone(sem, adj) ==
  IF sem + adj < 0 THEN 0 ELSE IF sem + adj > SEMVMX THEN SEMVMX ELSE sem + adj

Goto(c, l) == pc' = [pc EXCEPT ![c] = l]
-----------------------------------------------------------------------------
(* The client: main() and lookup() of lookup6.c.                           *)

\* main() reads a word and calls lookup().
Ask(c, w) ==
  /\ pc[c] = "idle"
  /\ asks[c] < MaxAsk
  /\ word' = [word EXCEPT ![c] = w]
  /\ asks' = [asks EXCEPT ![c] = @ + 1]
  /\ Goto(c, "grab")
  /\ UNCHANGED <<semVars, shmVars, result, serverVars>>

\* Mutant: grab without SEM_UNDO.
GrabNoUndo(c) ==
  /\ pc[c] = "grab"
  /\ sem0 > 0 /\ sem0' = sem0 - 1
  /\ Goto(c, "putword")
  /\ UNCHANGED <<sem1, adj0, adj1, shmVars, word, result, asks, serverVars>>

\* Mutant: the word is written before the other clients are excluded.
GrabSkipped(c) ==
  /\ pc[c] = "grab"
  /\ Goto(c, "putword")
  /\ UNCHANGED <<semVars, shmVars, word, result, asks, serverVars>>

Grab(c) ==
  /\ pc[c] = "grab"
  /\ Sem0Op(c, -1)
  /\ Goto(c, "putword")
  /\ UNCHANGED <<sem1, adj1, shmVars, word, result, asks, serverVars>>

BeginPutWord(c) ==
  /\ pc[c] = "putword"
  /\ shmWord' = Junk
  /\ Goto(c, "puttingword")
  /\ UNCHANGED <<semVars, shmText, word, result, asks, serverVars>>

EndPutWord(c) ==
  /\ pc[c] = "puttingword"
  /\ shmWord' = word[c]
  /\ Goto(c, "alert")
  /\ UNCHANGED <<semVars, shmText, word, result, asks, serverVars>>

\* Mutants: the client raises semaphore 1 by one, or by three.
AlertByOne(c) ==
  /\ pc[c] = "alert"
  /\ Sem1Op(c, 1)
  /\ Goto(c, "await")
  /\ UNCHANGED <<sem0, adj0, shmVars, word, result, asks, serverVars>>

AlertByThree(c) ==
  /\ pc[c] = "alert"
  /\ Sem1Op(c, 3)
  /\ Goto(c, "await")
  /\ UNCHANGED <<sem0, adj0, shmVars, word, result, asks, serverVars>>

Alert(c) ==
  /\ pc[c] = "alert"
  /\ Sem1Op(c, 2)
  /\ Goto(c, "await")
  /\ UNCHANGED <<sem0, adj0, shmVars, word, result, asks, serverVars>>

Await(c) ==
  /\ pc[c] = "await"
  /\ sem1 = 0
  /\ Goto(c, "release")
  /\ UNCHANGED <<semVars, shmVars, word, result, asks, serverVars>>

Release(c) ==
  /\ pc[c] = "release"
  /\ Sem0Op(c, 1)
  /\ Goto(c, "compare")
  /\ UNCHANGED <<sem1, adj1, shmVars, word, result, asks, serverVars>>

\* strcmp(shm->text, "XXXX"): NOTFOUND returns at once.
Compare(c) ==
  /\ pc[c] = "compare"
  /\ IF shmText = XXXX
       THEN /\ result' = [result EXCEPT ![c] = XXXX]
            /\ Goto(c, "idle")
       ELSE /\ Goto(c, "copy")
            /\ UNCHANGED result
  /\ UNCHANGED <<semVars, shmVars, word, asks, serverVars>>

\* strcpy(sought->text, shm->text) reads the record a second time; FOUND
\* with the text "XXXX" is no definition.
Copy(c) ==
  /\ pc[c] = "copy"
  /\ result' = [result EXCEPT ![c] = IF shmText = XXXX THEN Junk ELSE shmText]
  /\ Goto(c, "idle")
  /\ UNCHANGED <<semVars, shmVars, word, asks, serverVars>>
-----------------------------------------------------------------------------
(* The server's main loop.                                                 *)

ServerWait ==
  /\ spc = "wait"
  /\ Sem1Op(Server, -1)
  /\ spc' = "lookup"
  /\ UNCHANGED <<sem0, adj0, shmVars, clientVars, sought, ended>>

\* lookup() copies the word out of shared memory before it searches.
ServerLookup ==
  /\ spc = "lookup"
  /\ sought' = shmWord
  /\ spc' = "reply"
  /\ UNCHANGED <<semVars, shmVars, clientVars, ended>>

BeginReply ==
  /\ spc = "reply"
  /\ shmText' = Junk
  /\ spc' = "replying"
  /\ UNCHANGED <<semVars, shmWord, clientVars, sought, ended>>

\* Mutant: NOTFOUND leaves the sought word where the text belongs.
EndReplyRaw ==
  /\ spc = "replying"
  /\ shmText' = sought
  /\ spc' = "notify"
  /\ UNCHANGED <<semVars, shmWord, clientVars, sought, ended>>

\* A half-written word may spell any listed word or none.
EndReply ==
  /\ spc = "replying"
  /\ \E w \in (IF sought = Junk THEN Word \cup {Junk} ELSE {sought}) :
       shmText' = Lookup(w)
  /\ spc' = "notify"
  /\ UNCHANGED <<semVars, shmWord, clientVars, sought, ended>>

\* Mutant: the notification raises the semaphore.
ServerNotifyUp ==
  /\ spc = "notify"
  /\ Sem1Op(Server, 1)
  /\ spc' = "wait"
  /\ UNCHANGED <<sem0, adj0, shmVars, clientVars, sought, ended>>

ServerNotify ==
  /\ spc = "notify"
  /\ Sem1Op(Server, -1)
  /\ spc' = "wait"
  /\ UNCHANGED <<sem0, adj0, shmVars, clientVars, sought, ended>>
-----------------------------------------------------------------------------
(* Departures.                                                             *)

\* What a client has raised in all its lookups is taken off again when it
\* ends.  That is harmless on a semaphore at zero, where it is clamped away,
\* and when the client takes back its own request before the server has seen
\* it; at any other time it takes what another process counts on.
Disturbs(c) == sem1 > 0 /\ adj1[c] # 0 /\ ~(pc[c] = "await" /\ sem1 = 2)

\* A process ends and the kernel applies its adjustments.  quit: end of
\* input at the prompt; kill: anywhere inside lookup().
Exit(c) ==
  /\ sem0' = Undone(sem0, adj0[c])
  /\ sem1' = Undone(sem1, adj1[c])
  /\ adj0' = [adj0 EXCEPT ![c] = 0]
  /\ adj1' = [adj1 EXCEPT ![c] = 0]
  /\ Goto(c, "gone")
  /\ ended' = ended \cup (IF Disturbs(c) THEN {"client"} ELSE {})
  /\ UNCHANGED <<shmVars, word, result, asks, spc, sought>>

Quit(c) == pc[c] = "idle" /\ Exit(c)

Kill(c) == pc[c] \notin {"idle", "gone"} /\ Exit(c)

\* The server is stopped (its loop has no exit); bound: once ...
ServerStop ==
  /\ "server" \notin ended
  /\ spc' = "down"
  /\ sem1' = Undone(sem1, adj1[Server])
  /\ adj1' = [adj1 EXCEPT ![Server] = 0]
  /\ ended' = ended \cup {"server"}
  /\ UNCHANGED <<sem0, adj0, shmVars, clientVars, sought>>

\* ... and started again: shmget() and semget() find the existing objects,
\* SETALL sets both values and clears every process's adjustments.
ServerStart ==
  /\ spc = "down"
  /\ spc' = "wait"
  /\ sem0' = 1 /\ sem1' = 0
  /\ adj0' = [c \in Client |-> 0] /\ adj1' = [p \in Process |-> 0]
  /\ UNCHANGED <<shmVars, clientVars, sought, ended>>
-----------------------------------------------------------------------------
ClientStep(c) ==
  \/ \E w \in Word : Ask(c, w)
  \/ Grab(c) \/ BeginPutWord(c) \/ EndPutWord(c) \/ Alert(c) \/ Await(c)
  \/ Release(c) \/ Compare(c) \/ Copy(c)

ServerStep == ServerWait \/ ServerLookup \/ BeginReply \/ EndReply \/ ServerNotify

\* Nobody is inside lookup(): the users may leave it at that.
AtPrompt == (\A c \in Client : pc[c] \in {"idle", "gone"}) /\ UNCHANGED vars

Next == ServerStep \/ (\E c \in Client : ClientStep(c)) \/ AtPrompt

CrashNext ==
  \/ Next \/ ServerStop \/ ServerStart
  \/ \E c \in Client : Quit(c) \/ Kill(c)

\* Processes keep running.  semop() hands a released semaphore to its
\* waiters in order, so a client is not passed over at semaphore 0 for ever.
Fairness ==
  /\ WF_vars(ServerStep)
  /\ \A c \in Client :
       /\ WF_vars(BeginPutWord(c) \/ EndPutWord(c) \/ Alert(c) \/ Await(c)
                    \/ Release(c) \/ Compare(c) \/ Copy(c))
       /\ SF_vars(Grab(c))

Spec          == Init /\ [][Next]_vars        \* every process stays
CrashSpec     == Init /\ [][CrashNext]_vars
FairCrashSpec == CrashSpec /\ Fairness
-----------------------------------------------------------------------------
(* Properties.                                                             *)

OneInside == \A c, d \in Client : Inside(c) /\ Inside(d) => c = d

\* At most one client is between grab and release, whatever clients quit or
\* are killed, and wherever (lookup6.c: semaphore 0 excludes other clients
\* while we talk to the server).  Only as long as the server stays: one that
\* starts again sets the semaphore to one even when a client is inside.
Exclusion == "server" \notin ended => OneInside

\* When nobody is between grab and release, semaphore 0 can be taken: no
\* exit, kill or server restart at any point loses it (SEM_UNDO).
MutexAvailable == (\A c \in Client : ~Inside(c)) => sem0 > 0

\* When the wait for zero returns, the server has finished: the shared
\* text is the answer to this client's word (lookup6.c, await), also when
\* clients have quit or were killed while nobody was being served, or with
\* their own request not yet taken.  It need not be once a client has ended
\* in the middle of an exchange, or the server has.
AnswerReady ==
  ended = {} => \A c \in Client : pc[c] = "release" => shmText = Lookup(word[c])

\* The server leaves the top of its loop only for a client that is waiting
\* for it: its two decrements and the client's raise by two never get out
\* of step (shm_server.c, the two uses of wait), whatever the clients that
\* ended between two exchanges had raised before (lookup6.c, SEM_UNDO).
OnlyOnRequest ==
  ended = {} /\ spc # "wait" => \E c \in Client : pc[c] = "await"

\* A client that starts a lookup gets back to its prompt or is killed, as
\* long as no exchange is disturbed and the server's adjustment is not
\* exhausted, after which its semop() fails for ever (shm_server.c, notify).
Answered ==
  \A c \in Client :
    pc[c] = "grab" ~>
      pc[c] \in {"idle", "gone"} \/ ended # {} \/ adj1[Server] = SEMVMX

\* What main() prints is the answer to the word it read: the text of the
\* result is returned as the answer (shm_server.c, the shared record).
ResultCorrect ==
  \A c \in Client : pc[c] = "idle" /\ asks[c] > 0 => result[c] = Lookup(word[c])
-----------------------------------------------------------------------------
(* Inductive invariants.                                                   *)

\* Semaphore 0, as long as the server stays: its value, the adjustments and
\* the places of the clients agree.
MutexInv ==
  /\ sem0 \in {0, 1}
  /\ \A c \in Client : /\ adj0[c] = IF Inside(c) THEN 1 ELSE 0
                       /\ Inside(c) => sem0 = 0

\* Semaphore 1, as long as no exchange is disturbed.  The server's adjustment
\* counts its decrements; the semaphore follows its parity.  Once the
\* adjustment is exhausted (an odd SEMVMX) the server's operations fail
\* with the semaphore at one, and no client gets past await any more.
ServerInv ==
  /\ sem1 \in 0..2
  /\ adj1[Server] \in 0..SEMVMX
  /\ adj1[Server] % 2 = sem1 % 2
  /\ spc # "down"
  /\ sem1 \in {0, 2} => spc = "wait"
  /\ sem1 = 1 => spc # "wait" \/ adj1[Server] = SEMVMX

RequestInv ==
  /\ sem1 > 0 => \E c \in Client : pc[c] = "await"
  /\ \A c \in Client :
       /\ adj1[c] <= 0
       /\ -adj1[c] <= adj1[Server] + (IF pc[c] = "await" THEN sem1 ELSE 0)
       /\ pc[c] = "await" => adj1[c] <= -2
       /\ pc[c] \notin {"idle", "gone"} => word[c] \in Word
       /\ pc[c] \in {"alert", "await"} => shmWord = word[c]

TextInv ==
  \A c \in Client :
    /\ pc[c] = "await" /\ spc \in {"reply", "replying"} => sought = word[c]
    /\ pc[c] = "await" /\ (spc = "notify" \/ sem1 = 0) => shmText = Lookup(word[c])
    /\ pc[c] = "release" => shmText = Lookup(word[c])

Inv ==
  TypeOK /\ ended = {} /\ MutexInv /\ OneInside /\ ServerInv /\ RequestInv /\ TextInv

\* What a system in which any process may end keeps.
DepartInv ==
  pc \in [Client -> PC] /\ adj0 \in [Client -> {0, 1}] /\ MutexInv /\ OneInside

\* The clients inside, and those that were inside when the server set the
\* semaphore anew: their adjustment is one short, for they give back, or
\* have given back, a unit that the kernel does not know they took.
Insiders == {c \in Client : Inside(c)}
Short    == {c \in Client : adj0[c] = (IF Inside(c) THEN 0 ELSE -1)}

\* Semaphore 0 in every phase.  The semaphore and the clients inside make
\* one unit, and one more after a restart with a client inside; the exit of
\* the client that is short takes that unit away again, or is clamped.
UnitsInv ==
  /\ sem0 \in 0..2 /\ pc \in [Client -> PC] /\ adj0 \in [Client -> Int]
  /\ IsFiniteSet(Insiders) /\ sem0 + Cardinality(Insiders) \in {1, 2}
  /\ \A c \in Client \ Short : adj0[c] = IF Inside(c) THEN 1 ELSE 0
  /\ \A c, d \in Short : c = d
  /\ Short # {} => sem0 + Cardinality(Insiders) = 2

CrashInv ==
  /\ spc = "down" => "server" \in ended
  /\ "server" \notin ended \/ spc = "down" => DepartInv
  /\ ended = {} => Inv
  /\ UnitsInv
=============================================================================
