--------------------------- MODULE ShmLookupProofs ---------------------------
(***************************************************************************)
(* Proofs about ShmLookup, for any number of clients, words and questions  *)
(* and any odd SEMVMX.                                                     *)
(*                                                                         *)
(*   semaphore 0   excludes the clients, also when clients quit or are     *)
(*                 killed anywhere                                         *)
(*   semaphore 1   the answer is there when await returns, also when       *)
(*                 clients have left, as long as none of them disturbed    *)
(*                 an exchange and the server stays                        *)
(***************************************************************************)
EXTENDS ShmLookup, FiniteSetTheorems, TLAPS

-----------------------------------------------------------------------------
(* Semaphore 0 under departures.                                           *)

\* Initially nobody is inside and the semaphore is one.
LEMMA DepartInit == Init => DepartInv
  BY DEF Init, DepartInv, MutexInv, OneInside, Inside, InsidePC, PC

\* A step that moves one client between two places on the same side of the
\* semaphore keeps the invariant.
LEMMA MoveKeepsDepartInv ==
  ASSUME DepartInv, NEW c \in Client, NEW l \in PC,
         Goto(c, l), l \in InsidePC <=> Inside(c),
         UNCHANGED <<sem0, adj0>>
  PROVE  DepartInv'
  BY DEF DepartInv, MutexInv, OneInside, Inside, Goto

\* Grab takes the semaphore only at one, so nobody else is inside.
LEMMA GrabKeepsDepartInv ==
  ASSUME DepartInv, NEW c \in Client, Grab(c)
  PROVE  DepartInv'
<1>1. pc[c] = "grab" /\ sem0 = 1 /\ adj0[c] = 0 /\ \A d \in Client : ~Inside(d)
  BY DEF DepartInv, MutexInv, Grab, Sem0Op, Inside, InsidePC
<1>2. sem0' = 0 /\ adj0' = [adj0 EXCEPT ![c] = 1] /\ pc' = [pc EXCEPT ![c] = "putword"]
  BY <1>1, ShmAssumption DEF Grab, Sem0Op, Goto, DepartInv
<1>3. \A d \in Client : Inside(d)' <=> d = c
  BY <1>1, <1>2 DEF Inside, InsidePC, DepartInv
<1> QED
  BY <1>1, <1>2, <1>3 DEF DepartInv, MutexInv, OneInside, PC, InsidePC

\* Release gives back the one unit its client holds.
LEMMA ReleaseKeepsDepartInv ==
  ASSUME DepartInv, NEW c \in Client, Release(c)
  PROVE  DepartInv'
<1>1. pc[c] = "release" /\ sem0 = 0 /\ adj0[c] = 1
  BY DEF DepartInv, MutexInv, Release, Inside, InsidePC
<1>2. sem0' = 1 /\ adj0' = [adj0 EXCEPT ![c] = 0] /\ pc' = [pc EXCEPT ![c] = "compare"]
  BY <1>1, ShmAssumption DEF Release, Sem0Op, Goto, DepartInv
<1>3. \A d \in Client : ~Inside(d)'
  BY <1>1, <1>2 DEF Inside, InsidePC, DepartInv, OneInside
<1> QED
  BY <1>1, <1>2, <1>3 DEF DepartInv, MutexInv, OneInside, PC

\* The kernel adds the adjustment of a process that ends: a client inside
\* gives the semaphore back, any other leaves it alone.
LEMMA ExitKeepsDepartInv ==
  ASSUME DepartInv, NEW c \in Client, Exit(c)
  PROVE  DepartInv'
<1>1. /\ adj0' = [adj0 EXCEPT ![c] = 0]
      /\ pc' = [pc EXCEPT ![c] = "gone"]
      /\ sem0' = IF Inside(c) THEN 1 ELSE sem0
  BY ShmAssumption DEF Exit, Undone, Goto, DepartInv, MutexInv
<1>2. ~Inside(c)' /\ \A d \in Client \ {c} : Inside(d)' <=> Inside(d)
  BY <1>1 DEF Inside, InsidePC, DepartInv
<1>3. Inside(c) => \A d \in Client : ~Inside(d)'
  BY <1>2 DEF DepartInv, OneInside
<1>4. pc' \in [Client -> PC] /\ adj0' \in [Client -> {0, 1}]
  BY <1>1 DEF DepartInv, PC
<1>5. MutexInv'
  BY <1>1, <1>2, <1>3 DEF DepartInv, MutexInv
<1> QED
  BY <1>2, <1>4, <1>5 DEF DepartInv, OneInside

\* Every step but the server's restart keeps the invariant.
LEMMA DepartStep ==
  ASSUME DepartInv, [CrashNext]_vars, ~ServerStart
  PROVE  DepartInv'
<1>1. CASE UNCHANGED <<sem0, adj0, pc>>
  BY <1>1 DEF DepartInv, MutexInv, OneInside, Inside
<1>2. ASSUME ServerStep PROVE UNCHANGED <<sem0, adj0, pc>>
  BY <1>2 DEF ServerStep, ServerWait, ServerLookup, BeginReply, EndReply,
              ServerNotify, semVars, clientVars
<1>3. ASSUME NEW c \in Client, ClientStep(c) PROVE DepartInv'
  <2>1. CASE \E w \in Word : Ask(c, w)
    BY <2>1, MoveKeepsDepartInv DEF Ask, Inside, InsidePC, PC, semVars
  <2>2. CASE Grab(c)
    BY <2>2, GrabKeepsDepartInv
  <2>3. CASE BeginPutWord(c)
    BY <2>3, MoveKeepsDepartInv DEF BeginPutWord, Inside, InsidePC, PC, semVars
  <2>4. CASE EndPutWord(c)
    BY <2>4, MoveKeepsDepartInv DEF EndPutWord, Inside, InsidePC, PC, semVars
  <2>5. CASE Alert(c)
    BY <2>5, MoveKeepsDepartInv DEF Alert, Inside, InsidePC, PC
  <2>6. CASE Await(c)
    BY <2>6, MoveKeepsDepartInv DEF Await, Inside, InsidePC, PC, semVars
  <2>7. CASE Release(c)
    BY <2>7, ReleaseKeepsDepartInv
  <2>8. CASE Compare(c)
    BY <2>8, MoveKeepsDepartInv DEF Compare, Inside, InsidePC, PC, semVars
  <2>9. CASE Copy(c)
    BY <2>9, MoveKeepsDepartInv DEF Copy, Inside, InsidePC, PC, semVars
  <2> QED
    BY <1>3, <2>1, <2>2, <2>3, <2>4, <2>5, <2>6, <2>7, <2>8, <2>9 DEF ClientStep
<1>4. ASSUME NEW c \in Client, Quit(c) \/ Kill(c) PROVE DepartInv'
  BY <1>4, ExitKeepsDepartInv DEF Quit, Kill
<1>5. ASSUME AtPrompt \/ UNCHANGED vars PROVE UNCHANGED <<sem0, adj0, pc>>
  BY <1>5 DEF AtPrompt, vars, semVars, clientVars
<1>6. ASSUME ServerStop PROVE UNCHANGED <<sem0, adj0, pc>>
  BY <1>6 DEF ServerStop, clientVars
<1> QED
  BY <1>1, <1>2, <1>3, <1>4, <1>5, <1>6 DEF CrashNext, Next
-----------------------------------------------------------------------------
(* Semaphore 0 in every phase.                                             *)

\* Initially the semaphore is the one unit there is.
LEMMA UnitsInit == Init => UnitsInv
<1> SUFFICES ASSUME Init PROVE UnitsInv
  OBVIOUS
<1>1. Insiders = {} /\ Short = {}
  BY DEF Init, Insiders, Short, Inside, InsidePC
<1> QED
  BY <1>1, FS_EmptySet DEF Init, UnitsInv, Inside, InsidePC, PC

\* The bounds that let every operation on semaphore 0 succeed.
LEMMA UnitsBounds ==
  ASSUME UnitsInv
  PROVE  /\ Cardinality(Insiders) \in 0..2
         /\ \A c \in Client : adj0[c] \in -1..1
         /\ \A c \in Insiders : Cardinality(Insiders) >= 1 /\ sem0 \in {0, 1}
<1>1. Cardinality(Insiders) \in Nat
  BY FS_CardinalityType DEF UnitsInv
<1>2. ASSUME NEW c \in Insiders PROVE Cardinality(Insiders) >= 1
  BY <1>1, <1>2, FS_EmptySet DEF UnitsInv
<1>3. \A c \in Client : adj0[c] \in -1..1
  BY DEF UnitsInv, Short
<1> QED
  BY <1>1, <1>2, <1>3 DEF UnitsInv

\* A step that moves one client between two places on the same side.
LEMMA MoveKeepsUnitsInv ==
  ASSUME UnitsInv, NEW c \in Client, NEW l \in PC,
         Goto(c, l), l \in InsidePC <=> Inside(c),
         UNCHANGED <<sem0, adj0>>
  PROVE  UnitsInv'
<1>1. \A d \in Client : Inside(d)' <=> Inside(d)
  BY DEF UnitsInv, Inside, Goto
<1>2. Insiders' = Insiders /\ Short' = Short
  BY <1>1 DEF Insiders, Short
<1> QED
  BY <1>1, <1>2 DEF UnitsInv, Goto

\* The unit goes from the semaphore to the client ...
LEMMA GrabKeepsUnitsInv ==
  ASSUME UnitsInv, NEW c \in Client, Grab(c)
  PROVE  UnitsInv'
<1>1. c \notin Insiders /\ sem0 > 0 /\ pc[c] = "grab" /\ ~Inside(c)
  BY DEF UnitsInv, Grab, Sem0Op, Insiders, Inside, InsidePC
<1>2. sem0' = sem0 - 1 /\ adj0' = [adj0 EXCEPT ![c] = adj0[c] + 1]
      /\ pc' = [pc EXCEPT ![c] = "putword"]
  BY <1>1, UnitsBounds, ShmAssumption DEF Grab, Sem0Op, Goto, UnitsInv
<1>3. Inside(c)' /\ \A d \in Client \ {c} : Inside(d)' <=> Inside(d)
  BY <1>2 DEF UnitsInv, Inside, InsidePC
<1>4. Insiders' = Insiders \cup {c}
  BY <1>3 DEF Insiders
<1>5. IsFiniteSet(Insiders') /\ Cardinality(Insiders') = Cardinality(Insiders) + 1
  BY <1>1, <1>4, FS_AddElement DEF UnitsInv
<1>6. Short' = Short
  BY <1>1, <1>2, <1>3 DEF Short, UnitsInv
<1>7. \A d \in Client \ Short' : adj0'[d] = IF Inside(d)' THEN 1 ELSE 0
  BY <1>1, <1>2, <1>3, <1>6 DEF UnitsInv
<1> QED
  BY <1>1, <1>2, <1>5, <1>6, <1>7, UnitsBounds DEF UnitsInv, PC, InsidePC

\* ... and back.
LEMMA ReleaseKeepsUnitsInv ==
  ASSUME UnitsInv, NEW c \in Client, Release(c)
  PROVE  UnitsInv'
<1>1. c \in Insiders /\ Inside(c)
  BY DEF UnitsInv, Release, Insiders, Inside, InsidePC
<1>2. sem0' = sem0 + 1 /\ adj0' = [adj0 EXCEPT ![c] = adj0[c] - 1]
      /\ pc' = [pc EXCEPT ![c] = "compare"]
  BY <1>1, UnitsBounds, ShmAssumption DEF Release, Sem0Op, Goto
<1>3. ~Inside(c)' /\ \A d \in Client \ {c} : Inside(d)' <=> Inside(d)
  BY <1>2 DEF UnitsInv, Inside, InsidePC
<1>4. Insiders' = Insiders \ {c}
  BY <1>3 DEF Insiders
<1>5. IsFiniteSet(Insiders') /\ Cardinality(Insiders') = Cardinality(Insiders) - 1
  BY <1>1, <1>4, FS_RemoveElement DEF UnitsInv
<1>6. Short' = Short
  BY <1>1, <1>2, <1>3 DEF Short, UnitsInv
<1>7. \A d \in Client \ Short' : adj0'[d] = IF Inside(d)' THEN 1 ELSE 0
  BY <1>1, <1>2, <1>3, <1>6 DEF UnitsInv
<1> QED
  BY <1>1, <1>2, <1>5, <1>6, <1>7, UnitsBounds DEF UnitsInv, PC, InsidePC

\* A client that ends: one that is not short gives back what it holds; the
\* one that is takes its unit away, or finds the semaphore at zero.
LEMMA ExitKeepsUnitsInv ==
  ASSUME UnitsInv, NEW c \in Client, Exit(c)
  PROVE  UnitsInv'
<1> USE UnitsBounds, ShmAssumption
<1>1. /\ adj0' = [adj0 EXCEPT ![c] = 0] /\ pc' = [pc EXCEPT ![c] = "gone"]
      /\ sem0' = Undone(sem0, adj0[c])
  BY DEF Exit, Goto
<1>2. ~Inside(c)' /\ \A d \in Client \ {c} : Inside(d)' <=> Inside(d)
  BY <1>1 DEF UnitsInv, Inside, InsidePC
<1>3. Insiders' = Insiders \ {c} /\ Short' = Short \ {c}
  BY <1>1, <1>2 DEF Insiders, Short, UnitsInv
<1>4. IsFiniteSet(Insiders')
      /\ Cardinality(Insiders') = Cardinality(Insiders) - (IF Inside(c) THEN 1 ELSE 0)
  BY <1>3, FS_RemoveElement DEF UnitsInv, Insiders
<1>5. \A d \in Client \ Short' : adj0'[d] = IF Inside(d)' THEN 1 ELSE 0
  BY <1>1, <1>2, <1>3 DEF UnitsInv
<1>6. pc' \in [Client -> PC] /\ adj0' \in [Client -> Int]
  BY <1>1 DEF UnitsInv, PC
<1>7. CASE c \in Short
  <2>1. adj0[c] = (IF Inside(c) THEN 0 ELSE -1) /\ Short' = {}
        /\ sem0 + Cardinality(Insiders) = 2
    BY <1>3, <1>7 DEF Short, UnitsInv
  <2>2. sem0' \in 0..2 /\ sem0' + Cardinality(Insiders') \in {1, 2}
    BY <1>1, <1>4, <2>1 DEF Undone, UnitsInv, Insiders
  <2> QED
    BY <1>4, <1>5, <1>6, <2>1, <2>2 DEF UnitsInv
<1>8. CASE c \notin Short
  <2>1. adj0[c] = (IF Inside(c) THEN 1 ELSE 0) /\ Short' = Short
    BY <1>3, <1>8 DEF UnitsInv
  <2>2. sem0' = sem0 + adj0[c] /\ sem0' \in 0..2
    BY <1>1, <2>1 DEF Undone, UnitsInv, Insiders
  <2> QED
    BY <1>4, <1>5, <1>6, <2>1, <2>2 DEF UnitsInv
<1> QED
  BY <1>7, <1>8

\* The restart sets the semaphore to one: a client inside is short.
LEMMA RestartGivesUnitsInv ==
  ASSUME DepartInv, ServerStart
  PROVE  UnitsInv'
<1>1. sem0' = 1 /\ adj0' = [c \in Client |-> 0] /\ pc' = pc
  BY DEF ServerStart, clientVars
<1>2. \A c \in Client : Inside(c)' <=> Inside(c)
  BY <1>1 DEF Inside
<1>3. Insiders' = Insiders /\ Short' = Insiders
  BY <1>1, <1>2 DEF Insiders, Short
<1>4. \A c, d \in Insiders : c = d
  BY DEF DepartInv, OneInside, Insiders
<1>5. Insiders = {} \/ \E c \in Client : Insiders = {c}
  BY <1>4 DEF Insiders
<1>6. IsFiniteSet(Insiders) /\ Cardinality(Insiders) = IF Insiders = {} THEN 0 ELSE 1
  BY <1>5, FS_EmptySet, FS_Singleton
<1>7. \A c \in Client \ Short' : adj0'[c] = IF Inside(c)' THEN 1 ELSE 0
  BY <1>1, <1>2, <1>3 DEF Insiders
<1> QED
  BY <1>1, <1>3, <1>4, <1>6, <1>7 DEF UnitsInv, DepartInv

\* Every step keeps the invariant.
LEMMA UnitsStep ==
  ASSUME UnitsInv, spc = "down" => DepartInv, [CrashNext]_vars
  PROVE  UnitsInv'
<1>1. CASE UNCHANGED <<sem0, adj0, pc>>
  <2>1. Insiders' = Insiders /\ Short' = Short
    BY <1>1 DEF Insiders, Short, Inside
  <2> QED
    BY <1>1, <2>1 DEF UnitsInv, Inside
<1>2. ASSUME ServerStep \/ ServerStop PROVE UNCHANGED <<sem0, adj0, pc>>
  BY <1>2 DEF ServerStep, ServerWait, ServerLookup, BeginReply, EndReply,
              ServerNotify, ServerStop, semVars, clientVars
<1>3. ASSUME NEW c \in Client, ClientStep(c) PROVE UnitsInv'
  <2>1. CASE \E w \in Word : Ask(c, w)
    BY <2>1, MoveKeepsUnitsInv DEF Ask, Inside, InsidePC, PC, semVars
  <2>2. CASE Grab(c)
    BY <2>2, GrabKeepsUnitsInv
  <2>3. CASE BeginPutWord(c)
    BY <2>3, MoveKeepsUnitsInv DEF BeginPutWord, Inside, InsidePC, PC, semVars
  <2>4. CASE EndPutWord(c)
    BY <2>4, MoveKeepsUnitsInv DEF EndPutWord, Inside, InsidePC, PC, semVars
  <2>5. CASE Alert(c)
    BY <2>5, MoveKeepsUnitsInv DEF Alert, Inside, InsidePC, PC
  <2>6. CASE Await(c)
    BY <2>6, MoveKeepsUnitsInv DEF Await, Inside, InsidePC, PC, semVars
  <2>7. CASE Release(c)
    BY <2>7, ReleaseKeepsUnitsInv
  <2>8. CASE Compare(c)
    BY <2>8, MoveKeepsUnitsInv DEF Compare, Inside, InsidePC, PC, semVars
  <2>9. CASE Copy(c)
    BY <2>9, MoveKeepsUnitsInv DEF Copy, Inside, InsidePC, PC, semVars
  <2> QED
    BY <1>3, <2>1, <2>2, <2>3, <2>4, <2>5, <2>6, <2>7, <2>8, <2>9 DEF ClientStep
<1>4. ASSUME NEW c \in Client, Quit(c) \/ Kill(c) PROVE UnitsInv'
  BY <1>4, ExitKeepsUnitsInv DEF Quit, Kill
<1>5. ASSUME AtPrompt \/ UNCHANGED vars PROVE UNCHANGED <<sem0, adj0, pc>>
  BY <1>5 DEF AtPrompt, vars, semVars, clientVars
<1>6. CASE ServerStart
  BY <1>6, RestartGivesUnitsInv DEF ServerStart
<1> QED
  BY <1>1, <1>2, <1>3, <1>4, <1>5, <1>6 DEF CrashNext, Next
-----------------------------------------------------------------------------
(* Semaphore 1 as long as no exchange is disturbed.                        *)

\* The invariant holds initially.
LEMMA InvInit == Init => Inv
<1> SUFFICES ASSUME Init PROVE Inv
  OBVIOUS
<1>1. TypeOK
  BY ShmAssumption DEF Init, TypeOK, PC, Process, InsidePC
<1>2. MutexInv /\ OneInside /\ TextInv
  BY DEF Init, MutexInv, OneInside, TextInv, Inside, InsidePC
<1>3. ServerInv /\ RequestInv
  BY ShmAssumption DEF Init, ServerInv, RequestInv, Process
<1> QED
  BY <1>1, <1>2, <1>3 DEF Inv, Init

\* Inv contains what the previous section proves about semaphore 0.
LEMMA InvGivesDepartInv == Inv => DepartInv
  BY DEF Inv, DepartInv, TypeOK, MutexInv, OneInside

\* Only one client awaits, and while it does nobody else is inside.
LEMMA OneAwaits ==
  ASSUME OneInside, NEW c \in Client, Inside(c), NEW d \in Client, Inside(d)
  PROVE  c = d
  BY DEF OneInside

\* What one step of a client does to the parts of Inv that MutexInv and
\* OneInside do not cover.
Rest == TypeOK /\ ServerInv /\ RequestInv /\ TextInv

LEMMA AskKeepsRest ==
  ASSUME Inv, NEW c \in Client, NEW w \in Word, Ask(c, w)
  PROVE  Rest'
<1> USE DEF Ask, Goto, semVars, shmVars, serverVars
<1>1. TypeOK'
  BY ShmAssumption DEF Inv, TypeOK, PC
<1>2. ServerInv'
  BY DEF Inv, ServerInv
<1>3. RequestInv'
  BY DEF Inv, TypeOK, RequestInv
<1>4. TextInv'
  BY DEF Inv, TypeOK, TextInv
<1> QED
  BY <1>1, <1>2, <1>3, <1>4 DEF Rest

LEMMA GrabKeepsRest ==
  ASSUME Inv, NEW c \in Client, Grab(c)
  PROVE  Rest'
<1> USE DEF Grab, Goto, shmVars, serverVars
<1>1. TypeOK'
  <2>1. sem0' \in 0..SEMVMX /\ adj0' \in [Client -> Int]
    BY ShmAssumption DEF Inv, TypeOK, Sem0Op
  <2> QED
    BY <2>1 DEF Inv, TypeOK, PC, InsidePC
<1>2. ServerInv'
  BY DEF Inv, ServerInv
<1>3. RequestInv'
  BY DEF Inv, TypeOK, RequestInv
<1>4. TextInv'
  BY DEF Inv, TypeOK, TextInv
<1> QED
  BY <1>1, <1>2, <1>3, <1>4 DEF Rest

\* The word is written only by the client that is inside, so no request
\* that is posted can be disturbed.
LEMMA PutWordKeepsRest ==
  ASSUME Inv, NEW c \in Client, BeginPutWord(c) \/ EndPutWord(c)
  PROVE  Rest'
<1> USE DEF BeginPutWord, EndPutWord, Goto, semVars, serverVars
<1>1. \A d \in Client \ {c} : ~Inside(d)
  BY DEF Inv, OneInside, Inside, InsidePC
<1>2. TypeOK'
  BY DEF Inv, TypeOK, RequestInv, PC, InsidePC
<1>3. ServerInv'
  BY DEF Inv, ServerInv
<1>4. RequestInv'
  BY <1>1 DEF Inv, TypeOK, RequestInv, Inside, InsidePC
<1>5. TextInv'
  BY DEF Inv, TypeOK, TextInv
<1> QED
  BY <1>2, <1>3, <1>4, <1>5 DEF Rest

\* The client's raise never fails: its adjustment is no further from zero
\* than the server's, which is even here and so below the limit.
LEMMA AlertKeepsRest ==
  ASSUME Inv, NEW c \in Client, Alert(c)
  PROVE  Rest'
<1> USE DEF Alert, Goto, shmVars, serverVars
<1>1. \A d \in Client : pc[d] # "await"
  BY DEF Inv, OneInside, Inside, InsidePC
<1>2. sem1 = 0 /\ spc = "wait"
  BY <1>1 DEF Inv, ServerInv, RequestInv
<1>3. adj1[Server] + 2 <= SEMVMX + 1 /\ adj1[Server] \in Nat
  BY <1>2, ShmAssumption, ParityAssumption DEF Inv, ServerInv
<1>4. adj1 \in [Process -> Int] /\ c \in Process /\ c # Server /\ Server \in Process
  BY ShmAssumption DEF Inv, TypeOK, Process
<1>5. adj1[c] \in Int /\ adj1[c] <= 0 /\ -adj1[c] <= adj1[Server]
  BY <1>2, <1>4 DEF Inv, RequestInv
<1>6. sem1' = 2 /\ adj1' = [adj1 EXCEPT ![c] = adj1[c] - 2]
  BY <1>2, <1>3, <1>5, ShmAssumption DEF Sem1Op
<1>7. TypeOK'
  BY <1>4, <1>5, <1>6, ShmAssumption DEF Inv, TypeOK, PC, InsidePC
<1>8. ServerInv'
  BY <1>2, <1>4, <1>6 DEF Inv, ServerInv
<1>9. RequestInv'
  <2>1. \A d \in Client : d \in Process /\ adj1[d] \in Int
    BY <1>4 DEF Process
  <2> QED
    BY <1>1, <1>2, <1>3, <1>4, <1>5, <1>6, <2>1 DEF Inv, TypeOK, RequestInv
<1>10. TextInv'
  BY <1>2, <1>6 DEF Inv, TypeOK, TextInv
<1> QED
  BY <1>7, <1>8, <1>9, <1>10 DEF Rest

\* The wait for zero returns: TextInv has the answer.
LEMMA AwaitKeepsRest ==
  ASSUME Inv, NEW c \in Client, Await(c)
  PROVE  Rest'
<1> USE DEF Await, Goto, semVars, shmVars, serverVars
<1>1. TypeOK'
  BY DEF Inv, TypeOK, PC, InsidePC
<1>2. ServerInv'
  BY DEF Inv, ServerInv
<1>3. RequestInv'
  BY DEF Inv, TypeOK, RequestInv
<1>4. TextInv'
  BY DEF Inv, TypeOK, TextInv
<1> QED
  BY <1>1, <1>2, <1>3, <1>4 DEF Rest

LEMMA ReleaseKeepsRest ==
  ASSUME Inv, NEW c \in Client, Release(c)
  PROVE  Rest'
<1> USE DEF Release, Goto, shmVars, serverVars
<1>1. TypeOK'
  <2>1. sem0' \in 0..SEMVMX /\ adj0' \in [Client -> Int]
    BY ShmAssumption DEF Inv, TypeOK, Sem0Op
  <2> QED
    BY <2>1 DEF Inv, TypeOK, PC
<1>2. ServerInv'
  BY DEF Inv, ServerInv
<1>3. RequestInv'
  BY DEF Inv, TypeOK, RequestInv
<1>4. TextInv'
  BY DEF Inv, TypeOK, TextInv
<1> QED
  BY <1>1, <1>2, <1>3, <1>4 DEF Rest

\* Reading the text outside the semaphore changes nothing shared; what it
\* reads need not be the answer.
LEMMA ReadTextKeepsRest ==
  ASSUME Inv, NEW c \in Client, Compare(c) \/ Copy(c)
  PROVE  Rest'
<1> USE DEF Compare, Copy, Goto, semVars, shmVars, serverVars
<1>1. TypeOK'
  <2>1. result' \in [Client -> Answer \cup {Junk}]
    BY DEF Inv, TypeOK, Answer
  <2> QED
    BY <2>1 DEF Inv, TypeOK, PC
<1>2. ServerInv'
  BY DEF Inv, ServerInv
<1>3. RequestInv'
  BY DEF Inv, TypeOK, RequestInv
<1>4. TextInv'
  BY DEF Inv, TypeOK, TextInv
<1> QED
  BY <1>1, <1>2, <1>3, <1>4 DEF Rest

\* The server wakes with the semaphore at two and takes it to one, or goes
\* round with it stuck at one when its adjustment is exhausted.
LEMMA ServerWaitKeepsRest ==
  ASSUME Inv, ServerWait
  PROVE  Rest'
<1> USE DEF ServerWait, shmVars, clientVars
<1>1. sem1 \in {1, 2} /\ spc = "wait" /\ spc' = "lookup"
  BY DEF Inv, ServerInv, Sem1Op
<1>2. adj1 \in [Process -> Int] /\ Server \in Process
      /\ \A d \in Client : d \in Process /\ d # Server /\ adj1[d] \in Int
  BY ShmAssumption DEF Inv, TypeOK, Process
<1>3. CASE sem1 = 2
  <2>1. adj1[Server] + 1 <= SEMVMX /\ adj1[Server] \in Nat
    BY <1>3, ShmAssumption, ParityAssumption DEF Inv, ServerInv
  <2>2. sem1' = 1 /\ adj1' = [adj1 EXCEPT ![Server] = adj1[Server] + 1]
    BY <1>2, <1>3, <2>1, ShmAssumption DEF Sem1Op
  <2>3. TypeOK'
    BY <1>1, <1>2, <2>1, <2>2, ShmAssumption DEF Inv, TypeOK
  <2>4. ServerInv'
    BY <1>1, <1>2, <1>3, <2>1, <2>2 DEF Inv, ServerInv
  <2>5. RequestInv'
    BY <1>1, <1>2, <1>3, <2>1, <2>2 DEF Inv, RequestInv
  <2>6. TextInv'
    BY <1>1, <2>2 DEF Inv, TextInv
  <2> QED
    BY <2>3, <2>4, <2>5, <2>6 DEF Rest
<1>4. CASE sem1 = 1
  <2>1. adj1[Server] = SEMVMX
    BY <1>1, <1>4 DEF Inv, ServerInv
  <2>2. UNCHANGED <<sem1, adj1>>
    BY <1>4, <2>1, ShmAssumption DEF Sem1Op
  <2>3. TypeOK'
    BY <1>1, <2>2 DEF Inv, TypeOK
  <2>4. ServerInv'
    BY <1>1, <1>4, <2>1, <2>2 DEF Inv, ServerInv
  <2>5. RequestInv'
    BY <2>2 DEF Inv, RequestInv
  <2>6. TextInv'
    BY <1>1, <1>4, <2>2 DEF Inv, TextInv
  <2> QED
    BY <2>3, <2>4, <2>5, <2>6 DEF Rest
<1> QED
  BY <1>1, <1>3, <1>4

\* Between its two decrements the server has the semaphore at one, and a
\* client that awaits keeps its word posted: the text becomes its answer.
LEMMA ServerWorkKeepsRest ==
  ASSUME Inv, ServerLookup \/ BeginReply \/ EndReply
  PROVE  Rest'
<1> USE DEF ServerLookup, BeginReply, EndReply, semVars, clientVars
<1>1. sem1 = 1 /\ sem1' = 1 /\ spc \in {"lookup", "reply", "replying"}
  BY DEF Inv, ServerInv
<1>2. \E d \in Client : pc[d] = "await"
  BY <1>1 DEF Inv, RequestInv
<1>3. \A d \in Client : pc[d] # "release"
  BY <1>2 DEF Inv, OneInside, Inside, InsidePC
<1>4. \A d \in Client : pc[d] = "await" => shmWord = word[d] /\ word[d] \in Word
  BY DEF Inv, RequestInv
<1>5. TypeOK'
  BY DictionaryAssumption DEF Inv, TypeOK, shmVars, Answer, Lookup
<1>6. ServerInv'
  BY <1>1 DEF Inv, ServerInv
<1>7. RequestInv'
  BY DEF Inv, RequestInv, shmVars
<1>8. TextInv'
  <2>1. CASE ServerLookup
    BY <1>1, <1>3, <1>4, <2>1 DEF Inv, TextInv, shmVars
  <2>2. CASE BeginReply
    BY <1>1, <1>3, <2>2 DEF Inv, TextInv
  <2>3. CASE EndReply
    <3>1. \A d \in Client : pc[d] = "await" => sought = word[d] /\ sought # Junk
      BY <1>4, <2>3, DictionaryAssumption DEF Inv, TextInv
    <3> QED
      BY <1>1, <1>3, <2>3, <3>1 DEF TextInv
  <2> QED
    BY <2>1, <2>2, <2>3
<1> QED
  BY <1>5, <1>6, <1>7, <1>8 DEF Rest

\* The notification takes the semaphore to zero, or fails.
LEMMA ServerNotifyKeepsRest ==
  ASSUME Inv, ServerNotify
  PROVE  Rest'
<1> USE DEF ServerNotify, shmVars, clientVars
<1>1. sem1 = 1 /\ spc = "notify" /\ spc' = "wait"
  BY DEF Inv, ServerInv
<1>2. adj1 \in [Process -> Int] /\ Server \in Process
      /\ \A d \in Client : d \in Process /\ d # Server /\ adj1[d] \in Int
  BY ShmAssumption DEF Inv, TypeOK, Process
<1>3. CASE adj1[Server] < SEMVMX
  <2>1. adj1[Server] \in Nat /\ sem1' = 0
        /\ adj1' = [adj1 EXCEPT ![Server] = adj1[Server] + 1]
    BY <1>1, <1>2, <1>3, ShmAssumption DEF Sem1Op, Inv, ServerInv
  <2>2. TypeOK'
    BY <1>1, <1>2, <2>1, ShmAssumption DEF Inv, TypeOK
  <2>3. ServerInv'
    BY <1>1, <1>2, <1>3, <2>1, ShmAssumption DEF Inv, ServerInv
  <2>4. RequestInv'
    BY <1>1, <1>2, <2>1 DEF Inv, RequestInv
  <2>5. TextInv'
    BY <1>1, <2>1 DEF Inv, TextInv
  <2> QED
    BY <2>2, <2>3, <2>4, <2>5 DEF Rest
<1>4. CASE adj1[Server] = SEMVMX
  <2>1. UNCHANGED <<sem1, adj1>>
    BY <1>1, <1>4, ShmAssumption DEF Sem1Op
  <2>2. TypeOK' /\ ServerInv' /\ RequestInv' /\ TextInv'
    BY <1>1, <1>4, <2>1 DEF Inv, TypeOK, ServerInv, RequestInv, TextInv
  <2> QED
    BY <2>2 DEF Rest
<1> QED
  BY <1>3, <1>4, ShmAssumption DEF Inv, ServerInv

\* A client that ends without disturbing an exchange leaves semaphore 1 as
\* it is, or takes its own request back: from two to zero.
LEMMA ExitKeepsRest ==
  ASSUME Inv, NEW c \in Client, pc[c] # "gone", Exit(c), ~Disturbs(c)
  PROVE  Rest'
<1> USE DEF Exit, Goto, shmVars
<1>1. adj1 \in [Process -> Int] /\ Server \in Process
      /\ \A d \in Client : d \in Process /\ d # Server /\ adj1[d] \in Int
  BY ShmAssumption DEF Inv, TypeOK, Process
<1>2. sem1 \in 0..2 /\ adj1[c] \in Int /\ adj1[c] <= 0
      /\ (pc[c] = "await" => adj1[c] <= -2)
  BY <1>1 DEF Inv, ServerInv, RequestInv
<1>3. sem1' = IF pc[c] = "await" /\ sem1 = 2 THEN 0 ELSE sem1
  BY <1>2, ShmAssumption DEF Disturbs, Undone
<1>4. pc[c] = "await" => sem1 \in {0, 2} /\ sem1' = 0
  BY <1>2, <1>3 DEF Disturbs
<1>5. pc[c] = "await" => \A d \in Client : d # c => pc[d] \notin {"await", "release"}
  BY DEF Inv, OneInside, Inside, InsidePC
<1>6. pc' = [pc EXCEPT ![c] = "gone"] /\ adj1' = [adj1 EXCEPT ![c] = 0]
  OBVIOUS
<1>7. TypeOK'
  <2>1. sem0' \in 0..SEMVMX
    BY ShmAssumption DEF Inv, TypeOK, Undone
  <2>2. sem1' \in 0..SEMVMX
    BY <1>3, ShmAssumption DEF Inv, TypeOK
  <2>3. adj0' \in [Client -> Int] /\ adj1' \in [Process -> Int]
    BY <1>1, <1>6 DEF Inv, TypeOK
  <2>4. ended' \subseteq {"client", "server"} /\ pc' \in [Client -> PC]
    BY <1>6 DEF Inv, TypeOK, PC
  <2> QED
    BY <2>1, <2>2, <2>3, <2>4 DEF Inv, TypeOK
<1>8. ServerInv'
  BY <1>1, <1>3, <1>4, <1>6 DEF Inv, ServerInv
<1>9. RequestInv'
  <2>1. sem1' > 0 => \E d \in Client : pc'[d] = "await"
    <3>1. SUFFICES ASSUME sem1' > 0 PROVE \E d \in Client : pc'[d] = "await"
      OBVIOUS
    <3>2. sem1 > 0 /\ pc[c] # "await"
      BY <1>3, <1>4, <3>1
    <3>3. PICK d \in Client : pc[d] = "await"
      BY <3>2 DEF Inv, RequestInv
    <3> QED
      BY <1>6, <3>2, <3>3 DEF Inv, TypeOK
  <2>2. ASSUME NEW d \in Client
        PROVE /\ adj1'[d] <= 0
              /\ -adj1'[d] <= adj1'[Server] + (IF pc'[d] = "await" THEN sem1' ELSE 0)
              /\ pc'[d] = "await" => adj1'[d] <= -2
    <3>1. CASE d = c
      BY <1>1, <1>6, <3>1 DEF Inv, TypeOK, ServerInv
    <3>2. CASE d # c
      BY <1>1, <1>3, <1>5, <1>6, <3>2 DEF Inv, TypeOK, RequestInv
    <3> QED
      BY <3>1, <3>2
  <2>3. \A d \in Client : /\ pc'[d] \notin {"idle", "gone"} => word'[d] \in Word
                          /\ pc'[d] \in {"alert", "await"} => shmWord' = word'[d]
    BY <1>6 DEF Inv, TypeOK, RequestInv
  <2> QED
    BY <2>1, <2>2, <2>3 DEF RequestInv
<1>10. TextInv'
  <2>1. ASSUME NEW d \in Client, d # c, pc[d] = "await"
        PROVE  sem1' = sem1
    BY <1>3, <1>5, <2>1
  <2> QED
    BY <1>6, <2>1 DEF Inv, TypeOK, TextInv
<1> QED
  BY <1>7, <1>8, <1>9, <1>10 DEF Rest

\* Every step of Spec keeps the invariant.
LEMMA InvStep == Inv /\ [Next]_vars => Inv'
<1> SUFFICES ASSUME Inv, [Next]_vars PROVE Inv'
  OBVIOUS
<1>0. ended' = {}
  BY DEF Inv, Next, AtPrompt, ServerStep, ServerWait, ServerLookup, BeginReply, EndReply,
         ServerNotify, ClientStep, Ask, Grab, BeginPutWord, EndPutWord, Alert, Await,
         Release, Compare, Copy, vars, serverVars
<1>1. MutexInv' /\ OneInside'
  <2>1. ~ServerStart
    BY DEF Inv, ServerInv, ServerStart
  <2> QED
    BY <2>1, InvGivesDepartInv, DepartStep DEF CrashNext, DepartInv
<1>2. Rest'
  <2>1. CASE UNCHANGED vars
    <3>1. TypeOK' /\ ServerInv'
      BY <2>1 DEF Inv, TypeOK, ServerInv, vars, semVars, shmVars, clientVars, serverVars
    <3>2. RequestInv' /\ TextInv'
      BY <2>1 DEF Inv, RequestInv, TextInv, vars, semVars, shmVars, clientVars, serverVars
    <3> QED
      BY <3>1, <3>2 DEF Rest
  <2>2. CASE ServerStep
    BY <2>2, ServerWaitKeepsRest, ServerWorkKeepsRest, ServerNotifyKeepsRest DEF ServerStep
  <2>3. ASSUME NEW c \in Client, ClientStep(c) PROVE Rest'
    BY <2>3, AskKeepsRest, GrabKeepsRest, PutWordKeepsRest, AlertKeepsRest,
       AwaitKeepsRest, ReleaseKeepsRest, ReadTextKeepsRest DEF ClientStep
  <2> QED
    BY <2>1, <2>2, <2>3 DEF Next, AtPrompt
<1> QED
  BY <1>0, <1>1, <1>2 DEF Inv, Rest

\* As long as every process stays, the whole invariant holds.
THEOREM Invariance == Spec => []Inv
  BY InvInit, InvStep, PTL DEF Spec
-----------------------------------------------------------------------------

(* Any process may end, and the server may start again.                    *)

\* Initially nothing has ended.
LEMMA CrashInit == Init => CrashInv
  BY InvInit, DepartInit, UnitsInit DEF Init, CrashInv

\* As long as nothing was disturbed a step either is one of Next or ends a
\* process; the server's restart comes after its end.
LEMMA CrashStep == CrashInv /\ [CrashNext]_vars => CrashInv'
<1> SUFFICES ASSUME CrashInv, [CrashNext]_vars PROVE CrashInv'
  OBVIOUS
<1>0. UnitsInv'
  BY UnitsStep DEF CrashInv
<1>1. CASE [Next]_vars
  <2>1. ended' = ended /\ (spc' = "down" => spc = "down") /\ ~ServerStart
    BY <1>1 DEF Next, AtPrompt, ServerStep, ServerWait, ServerLookup, BeginReply, EndReply,
           ServerNotify, ClientStep, Ask, Grab, BeginPutWord, EndPutWord, Alert, Await,
           Release, Compare, Copy, ServerStart, vars, serverVars
  <2>2. "server" \notin ended' \/ spc' = "down" => DepartInv'
    BY <2>1, DepartStep DEF CrashInv
  <2>3. ended' = {} => Inv'
    BY <1>1, <2>1, InvStep DEF CrashInv
  <2> QED
    BY <1>0, <2>1, <2>2, <2>3 DEF CrashInv
<1>2. ASSUME NEW c \in Client, Quit(c) \/ Kill(c) PROVE CrashInv'
  <2>1. ended' \in {ended, ended \cup {"client"}} /\ spc' = spc /\ ~ServerStart
    BY <1>2 DEF Quit, Kill, Exit, ServerStart
  <2>2. "server" \notin ended' \/ spc' = "down" => DepartInv'
    BY <2>1, DepartStep DEF CrashInv
  <2>3. ended' = {} => Inv'
    <3>1. SUFFICES ASSUME ended' = {} PROVE Inv'
      OBVIOUS
    <3>2. Inv /\ Exit(c) /\ ~Disturbs(c) /\ pc[c] # "gone"
      BY <1>2, <2>1, <3>1 DEF Quit, Kill, Exit, CrashInv
    <3> QED
      BY <2>2, <3>1, <3>2, ExitKeepsRest DEF Inv, Rest, DepartInv
  <2> QED
    BY <1>0, <2>1, <2>2, <2>3 DEF CrashInv
<1>3. CASE ServerStop
  <2>1. "server" \notin ended /\ "server" \in ended' /\ ~ServerStart
    BY <1>3 DEF ServerStop, ServerStart
  <2>2. DepartInv'
    BY <2>1, DepartStep DEF CrashInv
  <2> QED
    BY <1>0, <2>1, <2>2 DEF CrashInv
<1>4. CASE ServerStart
  BY <1>0, <1>4 DEF ServerStart, CrashInv
<1> QED
  BY <1>1, <1>2, <1>3, <1>4 DEF CrashNext

\* The inductive invariant of the system in which any process may end.
THEOREM CrashInvariance == CrashSpec => []CrashInv
  BY CrashInit, CrashStep, PTL DEF CrashSpec

\* At most one client is between grab and release, whatever clients quit
\* or are killed, and wherever, as long as the server stays (lookup6.c,
\* semaphore 0 with SEM_UNDO).
THEOREM ExclusionAlways == CrashSpec => []Exclusion
<1>1. CrashInv => Exclusion
  BY DEF CrashInv, DepartInv, Exclusion
<1> QED
  BY <1>1, CrashInvariance, PTL

\* When nobody is between grab and release, semaphore 0 can be taken,
\* whatever clients quit or are killed, and wherever, and also after the
\* server has set it anew, once, with a client inside: that client's exit, which
\* takes a unit too many, never takes the last one (lookup6.c, semaphore 0
\* with SEM_UNDO; shm_server.c, SETALL).
THEOREM MutexAvailableAlways == CrashSpec => []MutexAvailable
<1>1. ASSUME UnitsInv, \A c \in Client : ~Inside(c) PROVE sem0 > 0
  <2>1. Insiders = {}
    BY <1>1 DEF Insiders
  <2> QED
    BY <1>1, <2>1, FS_EmptySet DEF UnitsInv
<1>2. CrashInv => MutexAvailable
  BY <1>1 DEF CrashInv, MutexAvailable
<1> QED
  BY <1>2, CrashInvariance, PTL

\* When a client's wait for zero returns, the shared text is the answer to
\* its word, as long as no exchange was disturbed: for any number of clients
\* and questions, whatever clients have quit or were killed between the
\* exchanges, and also after the server's adjustment is exhausted
\* (lookup6.c, await).
THEOREM AnswerReadyAlways == CrashSpec => []AnswerReady
<1>1. CrashInv => AnswerReady
  BY DEF CrashInv, Inv, TextInv, AnswerReady
<1> QED
  BY <1>1, CrashInvariance, PTL

\* The server leaves the top of its loop only for a client that waits for
\* it, as long as no exchange was disturbed (shm_server.c, the two
\* decrements).
THEOREM ServerOnlyOnRequest == CrashSpec => []OnlyOnRequest
<1>1. CrashInv => OnlyOnRequest
  BY DEF CrashInv, Inv, ServerInv, RequestInv, OnlyOnRequest
<1> QED
  BY <1>1, CrashInvariance, PTL
-----------------------------------------------------------------------------
(* Types.                                                                  *)

\* Undoing keeps a semaphore in its range.
LEMMA UndoneInRange ==
  ASSUME NEW sem \in 0..SEMVMX, NEW adj \in Int
  PROVE  Undone(sem, adj) \in 0..SEMVMX
  BY ShmAssumption DEF Undone

\* Every step keeps the types.
LEMMA TypeStep == TypeOK /\ [CrashNext]_vars => TypeOK'
<1> SUFFICES ASSUME TypeOK, [CrashNext]_vars PROVE TypeOK'
  OBVIOUS
<1> USE ShmAssumption DEF TypeOK, PC, InsidePC, Goto
<1>1. CASE UNCHANGED vars
  BY <1>1 DEF vars, semVars, shmVars, clientVars, serverVars
<1>2. CASE ServerStep
  <2>1. CASE ServerWait \/ ServerNotify
    <3>1. sem1' \in 0..SEMVMX /\ adj1' \in [Process -> Int]
      BY <2>1 DEF ServerWait, ServerNotify, Sem1Op, Process
    <3> QED
      BY <2>1, <3>1 DEF ServerWait, ServerNotify, shmVars, clientVars
  <2>2. CASE ServerLookup
    BY <2>2 DEF ServerLookup, semVars, shmVars, clientVars
  <2>3. CASE BeginReply
    BY <2>3 DEF BeginReply, semVars, clientVars
  <2>4. CASE EndReply
    BY <2>4 DEF EndReply, Lookup, Answer, semVars, clientVars
  <2> QED
    BY <1>2, <2>1, <2>2, <2>3, <2>4 DEF ServerStep
<1>3. ASSUME NEW c \in Client, ClientStep(c) PROVE TypeOK'
  <2>1. CASE \E w \in Word : Ask(c, w)
    BY <2>1 DEF Ask, semVars, shmVars, serverVars
  <2>2. CASE Grab(c) \/ Release(c)
    <3>1. sem0' \in 0..SEMVMX /\ adj0' \in [Client -> Int]
      BY <2>2 DEF Grab, Release, Sem0Op
    <3> QED
      BY <2>2, <3>1 DEF Grab, Release, shmVars, serverVars
  <2>3. CASE BeginPutWord(c) \/ EndPutWord(c)
    BY <2>3 DEF BeginPutWord, EndPutWord, semVars, serverVars
  <2>4. CASE Alert(c)
    <3>1. sem1' \in 0..SEMVMX /\ adj1' \in [Process -> Int]
      BY <2>4 DEF Alert, Sem1Op, Process
    <3> QED
      BY <2>4, <3>1 DEF Alert, shmVars, serverVars
  <2>5. CASE Await(c)
    BY <2>5 DEF Await, semVars, shmVars, serverVars
  <2>6. CASE Compare(c) \/ Copy(c)
    <3>1. result' \in [Client -> Answer \cup {Junk}]
      BY <2>6 DEF Compare, Copy, Answer
    <3> QED
      BY <2>6, <3>1 DEF Compare, Copy, semVars, shmVars, serverVars
  <2> QED
    BY <1>3, <2>1, <2>2, <2>3, <2>4, <2>5, <2>6 DEF ClientStep
<1>4. ASSUME NEW c \in Client, Quit(c) \/ Kill(c) PROVE TypeOK'
  <2>1. Exit(c)
    BY <1>4 DEF Quit, Kill
  <2>2. sem0' \in 0..SEMVMX /\ sem1' \in 0..SEMVMX
    BY <2>1, UndoneInRange DEF Exit, Process
  <2>3. adj0' \in [Client -> Int] /\ adj1' \in [Process -> Int]
    BY <2>1 DEF Exit, Process
  <2> QED
    BY <2>1, <2>2, <2>3 DEF Exit, shmVars
<1>5. CASE ServerStop
  <2>1. sem1' \in 0..SEMVMX /\ adj1' \in [Process -> Int]
    BY <1>5, UndoneInRange DEF ServerStop, Process
  <2> QED
    BY <1>5, <2>1 DEF ServerStop, shmVars, clientVars
<1>6. CASE ServerStart
  BY <1>6 DEF ServerStart, shmVars, clientVars
<1> QED
  BY <1>1, <1>2, <1>3, <1>4, <1>5, <1>6 DEF CrashNext, Next, AtPrompt

\* Every variable keeps its type, whatever ends: in particular the text
\* field never holds a word that has no record.
THEOREM TypeCorrect == CrashSpec => []TypeOK
<1>1. Init => TypeOK
  BY InvInit DEF Inv
<1> QED
  BY <1>1, TypeStep, PTL DEF CrashSpec
=============================================================================
