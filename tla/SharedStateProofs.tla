------------------------- MODULE SharedStateProofs --------------------------
(***************************************************************************)
(* Proofs about the programs that share memory or semaphores.              *)
(*                                                                         *)
(* SharedStack, for any number of processes up to the number of slots:     *)
(* StackInv is inductive.  The loops inside push() and pop() never wait,   *)
(* because the index counts the processes that are ahead: one that pushes  *)
(* is not among them, so the index is below the number of processes; one   *)
(* that pops is among them, so it is above zero.  Nothing is lost because  *)
(* the slots in use hold what was written and not returned, each character *)
(* once (ContentInv).                                                      *)
(*                                                                         *)
(* PacketRing, for any number of blocks and packets: RingInv is inductive. *)
(* A block the consumer has made ready holds its -1 or a packet that has   *)
(* its place there (Ready), the producer writes rising ids, so that no     *)
(* block holds less than the consumer has seen in it (WatchInv), and what  *)
(* differs from id_check is a packet not yet counted (SeenInv).            *)
(*                                                                         *)
(* VmPool, for any number of threads, kinds of resource and table of       *)
(* requests: PoolInv is inductive.  What is available and what the running *)
(* VMs hold add up to the whole while main() goes its regular way, to no   *)
(* more than that while the group exists, and the VMs never hold more than *)
(* the whole (HeldInv); the sum over the running VMs changes by what one   *)
(* thread needs when it takes or releases it (Sums).  Threads start in     *)
(* order and main() joins when all have started (StartInv), so that none   *)
(* is left when it goes on (EndInv).                                       *)
(***************************************************************************)
EXTENDS SharedStack, PacketRing, VmPool, FiniteSetTheorems,
        WellFoundedInduction, TLAPS

-----------------------------------------------------------------------------
(* SharedStack: who is ahead.                                              *)

\* The processes that are ahead are finitely many.
LEMMA AheadFinite == IsFiniteSet(Ahead) /\ Cardinality(Ahead) \in Nat
  BY StackAssumption, FS_Subset, FS_CardinalityType DEF Ahead

\* A process that is not ahead leaves a slot free, one that is ahead has
\* filled one.
LEMMA IndexBounds ==
  ASSUME NEW p \in Proc
  PROVE  /\ p \notin Ahead => Cardinality(Ahead) < STACK_SIZE
         /\ p \in Ahead => Cardinality(Ahead) > 0
<1>1. ASSUME p \notin Ahead PROVE Cardinality(Ahead) < STACK_SIZE
  <2>1. Ahead \subseteq Proc \ {p}
    BY <1>1 DEF Ahead
  <2>2. IsFiniteSet(Proc \ {p}) /\ Cardinality(Proc \ {p}) = Cardinality(Proc) - 1
    BY StackAssumption, FS_RemoveElement
  <2>3. Cardinality(Ahead) <= Cardinality(Proc \ {p})
    BY <2>1, <2>2, FS_Subset
  <2>4. Cardinality(Proc) \in Nat
    BY StackAssumption, FS_CardinalityType
  <2> QED
    BY <2>2, <2>3, <2>4, AheadFinite, StackAssumption
<1>2. ASSUME p \in Ahead PROVE Cardinality(Ahead) > 0
  BY <1>2, AheadFinite, FS_EmptySet
<1> QED
  BY <1>1, <1>2

\* A process exists only when there is a slot.
LEMMA RoomForOne == ASSUME NEW p \in Proc PROVE STACK_SIZE \in Nat \ {0}
  BY StackAssumption, FS_EmptySet, FS_CardinalityType
-----------------------------------------------------------------------------
(* The steps.                                                              *)

\* The variables that hold numbers.
LEMMA Numbers ==
  ASSUME StackInv
  PROVE  /\ sem \in {0, 1}
         /\ index \in 0..STACK_SIZE
         /\ i \in [Proc -> 0..STACK_SIZE]
  BY DEF StackInv, StackTypeOK

\* Nothing runs yet.
LEMMA StackInvInit == ASSUME StackInit PROVE StackInv
<1>1. ~on /\ on \in BOOLEAN /\ named \in BOOLEAN
  BY DEF StackInit
<1>2. index \in 0..STACK_SIZE /\ i \in [Proc -> 0..STACK_SIZE]
  BY StackAssumption DEF StackInit
<1>3. StackTypeOK
  BY <1>1, <1>2 DEF StackInit, StackTypeOK
<1> QED
  BY <1>1, <1>3 DEF StackInv, Exclusion, LockInv, LoopInv, ShapeInv, Holds

\* A new run finds the semaphore as it is, and an empty stack.
LEMMA StartKeepsInv == ASSUME StackInv, Start PROVE StackInv'
<1>1. StackTypeOK'
  <2>1. on' \in BOOLEAN /\ named' \in BOOLEAN /\ sem' \in {0, 1}
    BY DEF StackInv, StackTypeOK, Start
  <2>2. index' \in 0..STACK_SIZE /\ i' \in [Proc -> 0..STACK_SIZE]
    BY StackAssumption DEF Start
  <2> QED
    BY <2>1, <2>2 DEF Start, StackTypeOK
<1>2. \A p \in Proc : ~Holds(p)'
  BY DEF Start, Holds, HoldPC
<1>3. LoopInv'
  BY RoomForOne DEF Start, LoopInv
<1>4. Ahead' = {}
  BY DEF Start, Ahead
<1>5. ShapeInv'
  BY <1>4, FS_EmptySet DEF Start, ShapeInv
<1> QED
  BY <1>1, <1>2, <1>3, <1>5 DEF StackInv, Exclusion, LockInv

\* A run that ends leaves the semaphore as it is.
LEMMA EndKeepsInv == ASSUME StackInv, Finish \/ Interrupt PROVE StackInv'
  BY DEF StackInv, StackTypeOK, Exclusion, LockInv, LoopInv, ShapeInv, Holds, HoldPC, Char,
         Finish, Interrupt, semVars, stackVars, procVars

\* sem_wait() lets a process in only when nobody is.
LEMMA WaitKeepsInv ==
  ASSUME StackInv, NEW p \in Proc, PushWait(p) \/ PopWait(p)
  PROVE  StackInv'
<1>1. sem = 1 /\ sem' = 0 /\ \A q \in Proc : ~Holds(q)
  <2>1. sem > 0 /\ sem' = sem - 1
    BY Zenon DEF PushWait, PopWait
  <2>2. sem = 1 /\ sem' = 0
    BY <2>1, Numbers
  <2>3. \A q \in Proc : ~Holds(q)
    BY <2>2 DEF StackInv, LockInv
  <2> QED
    BY <2>2, <2>3
<1>2. PICK l \in {"testpush", "testpop"} :
        pc' = [pc EXCEPT ![p] = l] /\ (l = "testpop" <=> pc[p] = "pop")
  BY DEF PushWait, PopWait, Goto
<1>3. StackTypeOK'
  BY <1>1, <1>2 DEF StackInv, StackTypeOK, HoldPC, Char, PushWait, PopWait, stackVars
<1>4. \A q \in Proc : Holds(q)' => q = p
  BY <1>1, <1>2 DEF StackInv, StackTypeOK, Holds, PushWait, PopWait
<1>5. Ahead' = Ahead
  BY <1>2 DEF Ahead, StackInv, StackTypeOK, PushWait, PopWait
<1>6. ShapeInv'
  BY <1>1, <1>2, <1>5 DEF ShapeInv, StackInv, StackTypeOK, PushWait, PopWait, stackVars, Holds, HoldPC
<1>7. LoopInv'
  BY <1>2 DEF LoopInv, StackInv, StackTypeOK, PushWait, PopWait
<1> QED
  BY <1>1, <1>3, <1>4, <1>6, <1>7 DEF StackInv, Exclusion, LockInv

\* What a process does inside leaves the others outside.
LEMMA InsideKeepsLock ==
  ASSUME StackInv, NEW p \in Proc, NEW l \in HoldPC, Holds(p), Goto(p, l),
         UNCHANGED <<on, sem>>
  PROVE  Exclusion' /\ LockInv'
  BY DEF StackInv, StackTypeOK, Exclusion, LockInv, Holds, Goto

\* sem_post() lets the process out, and nobody else is inside.
LEMMA PostKeepsLock ==
  ASSUME StackInv, NEW p \in Proc, NEW l \in {"push", "pop", "end"}, Holds(p), Goto(p, l),
         UNCHANGED on, sem' = sem + 1
  PROVE  Exclusion' /\ LockInv' /\ sem' \in {0, 1}
<1>1. sem = 0 /\ \A q \in Proc : Holds(q) => q = p
  BY DEF StackInv, LockInv, Exclusion
<1>2. \A q \in Proc : ~Holds(q)'
  BY <1>1 DEF StackInv, StackTypeOK, Holds, HoldPC, Goto
<1> QED
  BY <1>1, <1>2 DEF Exclusion, LockInv

\* The loops that test the stack.
LEMMA TestKeepsInv ==
  ASSUME StackInv, NEW p \in Proc, PushTest(p) \/ PopTest(p)
  PROVE  StackInv'
<1>1. PICK l \in {"write", "dec"} :
        Goto(p, l) /\ (l = "dec" <=> pc[p] = "testpop")
  BY DEF PushTest, PopTest
<1>2. Holds(p) /\ pc[p] \in {"testpush", "testpop"} /\ l \in HoldPC
  BY DEF PushTest, PopTest, Holds, HoldPC
<1>3. Exclusion' /\ LockInv'
  BY <1>1, <1>2, InsideKeepsLock DEF PushTest, PopTest, semVars
<1>4. StackTypeOK'
  BY <1>1, <1>2 DEF StackInv, StackTypeOK, HoldPC, Char, Goto, PushTest, PopTest, semVars, stackVars
<1>5. Ahead' = Ahead
  BY <1>1, <1>2 DEF Ahead, StackInv, StackTypeOK, Goto
<1>6. ShapeInv'
  BY <1>1, <1>2, <1>5 DEF ShapeInv, StackInv, StackTypeOK, Goto, PushTest, PopTest, semVars, stackVars
<1>7. LoopInv'
  BY <1>1, <1>2 DEF LoopInv, StackInv, StackTypeOK, Goto, PushTest, PopTest
<1> QED
  BY <1>3, <1>4, <1>6, <1>7 DEF StackInv

\* The slot at the index is filled before the index moves.
LEMMA WriteKeepsInv == ASSUME StackInv, NEW p \in Proc, PushWrite(p) PROVE StackInv'
<1>1. on /\ pc[p] = "write" /\ Holds(p) /\ p \notin Ahead
  BY DEF PushWrite, Holds, HoldPC, Ahead
<1>2. index < STACK_SIZE /\ index \in 0..(STACK_SIZE - 1)
  BY <1>1, IndexBounds, StackAssumption DEF StackInv, StackTypeOK, ShapeInv
<1>3. pc' = [pc EXCEPT ![p] = "inc"] /\ myBuf' = [myBuf EXCEPT ![index] = <<p, i[p]>>]
      /\ UNCHANGED <<on, named, sem, index, i, returned>>
  BY DEF PushWrite, Goto, semVars
<1>4. Exclusion' /\ LockInv'
  BY <1>1, <1>3, InsideKeepsLock DEF Goto, HoldPC
<1>5. <<p, i[p]>> \in Char
  BY <1>1, StackAssumption DEF Char, StackInv, LoopInv, StackTypeOK
<1>6. StackTypeOK'
  BY <1>2, <1>3, <1>5 DEF StackInv, StackTypeOK, HoldPC
<1>7. Ahead' = Ahead
  BY <1>1, <1>3 DEF Ahead, StackInv, StackTypeOK
<1>8. ShapeInv'
  BY <1>1, <1>2, <1>3, <1>7 DEF ShapeInv, StackInv, StackTypeOK
<1>9. LoopInv'
  BY <1>1, <1>3 DEF LoopInv, StackInv, StackTypeOK
<1> QED
  BY <1>4, <1>6, <1>8, <1>9 DEF StackInv

\* With the index the process gets ahead.
LEMMA IncKeepsInv == ASSUME StackInv, NEW p \in Proc, PushInc(p) PROVE StackInv'
<1>1. on /\ pc[p] = "inc" /\ Holds(p) /\ p \notin Ahead
  BY DEF PushInc, Holds, HoldPC, Ahead
<1>2. index < STACK_SIZE
  BY <1>1, IndexBounds DEF StackInv, ShapeInv
<1>3. pc' = [pc EXCEPT ![p] = "postpush"] /\ index' = index + 1
      /\ UNCHANGED <<on, named, sem, myBuf, i, returned>>
  BY DEF PushInc, Goto, semVars
<1>4. Exclusion' /\ LockInv'
  BY <1>1, <1>3, InsideKeepsLock DEF Goto, HoldPC
<1>5. StackTypeOK'
  <2>1. index' = index + 1
    BY <1>3
  <2>2. index' \in 0..STACK_SIZE
    BY <1>2, <2>1, Numbers, StackAssumption
  <2> QED
    BY <1>3, <2>2 DEF StackInv, StackTypeOK, HoldPC
<1>6. Ahead' = Ahead \cup {p}
  BY <1>1, <1>3 DEF Ahead, StackInv, StackTypeOK
<1>7. Cardinality(Ahead') = Cardinality(Ahead) + 1
  BY <1>1, <1>6, AheadFinite, FS_AddElement
<1>8. \A k \in 0..(STACK_SIZE - 1) : k >= index' => myBuf'[k] = NUL
  <2>1. \A k \in 0..(STACK_SIZE - 1) : k >= index => myBuf[k] = NUL \/ k = index
    BY <1>1, Zenon DEF StackInv, ShapeInv
  <2>2. index' = index + 1 /\ myBuf' = myBuf
    BY <1>3
  <2> QED
    BY <2>1, <2>2, Numbers, StackAssumption
<1>9. ShapeInv'
  BY <1>1, <1>3, <1>7, <1>8 DEF ShapeInv, StackInv
<1>10. LoopInv'
  BY <1>1, <1>3 DEF LoopInv, StackInv, StackTypeOK
<1> QED
  BY <1>4, <1>5, <1>9, <1>10 DEF StackInv

\* push() returns, and the process stays ahead.
LEMMA PushPostKeepsInv == ASSUME StackInv, NEW p \in Proc, PushPost(p) PROVE StackInv'
<1>1. on /\ pc[p] = "postpush" /\ Holds(p)
  BY DEF PushPost, Holds, HoldPC
<1>2. pc' = [pc EXCEPT ![p] = "pop"] /\ sem' = sem + 1
      /\ UNCHANGED <<on, named, myBuf, index, i, returned>>
  BY DEF PushPost, Goto, stackVars
<1>3. Exclusion' /\ LockInv' /\ sem' \in {0, 1}
  BY <1>1, <1>2, PostKeepsLock DEF Goto
<1>4. StackTypeOK'
  BY <1>2, <1>3 DEF StackInv, StackTypeOK, Char
<1>5. Ahead' = Ahead
  BY <1>1, <1>2 DEF Ahead, StackInv, StackTypeOK
<1>6. ShapeInv'
  BY <1>1, <1>2, <1>5 DEF ShapeInv, StackInv, StackTypeOK
<1>7. LoopInv'
  BY <1>1, <1>2 DEF LoopInv, StackInv, StackTypeOK
<1> QED
  BY <1>3, <1>4, <1>6, <1>7 DEF StackInv

\* With the index the process falls back.
LEMMA DecKeepsInv == ASSUME StackInv, NEW p \in Proc, PopDec(p) PROVE StackInv'
<1>1. on /\ pc[p] = "dec" /\ Holds(p) /\ p \in Ahead
  BY DEF PopDec, Holds, HoldPC, Ahead
<1>2. index > 0
  BY <1>1, IndexBounds DEF StackInv, ShapeInv
<1>3. pc' = [pc EXCEPT ![p] = "read"] /\ index' = index - 1
      /\ UNCHANGED <<on, named, sem, myBuf, i, returned>>
  BY DEF PopDec, Goto, semVars
<1>4. Exclusion' /\ LockInv'
  BY <1>1, <1>3, InsideKeepsLock DEF Goto, HoldPC
<1>5. StackTypeOK'
  <2>1. index' = index - 1
    BY <1>3
  <2>2. index' \in 0..STACK_SIZE
    BY <1>2, <2>1, Numbers, StackAssumption
  <2> QED
    BY <1>3, <2>2 DEF StackInv, StackTypeOK, HoldPC
<1>6. Ahead' = Ahead \ {p}
  BY <1>1, <1>3 DEF Ahead, StackInv, StackTypeOK
<1>7. Cardinality(Ahead') = Cardinality(Ahead) - 1
  BY <1>1, <1>6, AheadFinite, FS_RemoveElement
<1>8. \A q \in Proc : pc[q] \notin {"inc", "read"}
  BY <1>1 DEF StackInv, Exclusion, Holds, HoldPC
<1>9. \A k \in 0..(STACK_SIZE - 1) : k >= index' => myBuf'[k] = NUL \/ k = index'
  BY <1>1, <1>3, <1>8, StackAssumption DEF StackInv, ShapeInv, StackTypeOK
<1>10. pc'[p] = "read"
  BY <1>3 DEF StackInv, StackTypeOK
<1>11. ShapeInv'
  BY <1>1, <1>3, <1>7, <1>9, <1>10 DEF ShapeInv, StackInv
<1>12. LoopInv'
  BY <1>1, <1>3 DEF LoopInv, StackInv, StackTypeOK
<1> QED
  BY <1>4, <1>5, <1>11, <1>12 DEF StackInv

\* The slot at the index is cleared.
LEMMA ReadKeepsInv == ASSUME StackInv, NEW p \in Proc, PopRead(p) PROVE StackInv'
<1>1. on /\ pc[p] = "read" /\ Holds(p) /\ p \notin Ahead
  BY DEF PopRead, Holds, HoldPC, Ahead
<1>2. index < STACK_SIZE /\ index \in 0..(STACK_SIZE - 1)
  BY <1>1, IndexBounds, StackAssumption DEF StackInv, StackTypeOK, ShapeInv
<1>3. pc' = [pc EXCEPT ![p] = "postpop"] /\ myBuf' = [myBuf EXCEPT ![index] = NUL]
      /\ returned' = returned \cup {myBuf[index]}
      /\ UNCHANGED <<on, named, sem, index, i>>
  BY DEF PopRead, Goto, semVars
<1>4. Exclusion' /\ LockInv'
  BY <1>1, <1>3, InsideKeepsLock DEF Goto, HoldPC
<1>5. StackTypeOK'
  BY <1>2, <1>3 DEF StackInv, StackTypeOK, HoldPC
<1>6. Ahead' = Ahead
  BY <1>1, <1>3 DEF Ahead, StackInv, StackTypeOK
<1>7. \A k \in 0..(STACK_SIZE - 1) : k >= index' => myBuf'[k] = NUL
  BY <1>1, <1>2, <1>3 DEF StackInv, ShapeInv, StackTypeOK
<1>8. ShapeInv'
  BY <1>1, <1>3, <1>6, <1>7 DEF ShapeInv, StackInv
<1>9. LoopInv'
  BY <1>1, <1>3 DEF LoopInv, StackInv, StackTypeOK
<1> QED
  BY <1>4, <1>5, <1>8, <1>9 DEF StackInv

\* pop() returns, and the loop goes round or ends.
LEMMA PopPostKeepsInv == ASSUME StackInv, NEW p \in Proc, PopPost(p) PROVE StackInv'
<1>1. on /\ pc[p] = "postpop" /\ Holds(p) /\ i[p] \in 0..(STACK_SIZE - 1)
  <2>1. on /\ pc[p] = "postpop" /\ Holds(p)
    BY DEF PopPost, Holds, HoldPC
  <2>2. i[p] < STACK_SIZE
    BY <2>1 DEF StackInv, LoopInv
  <2>3. i[p] \in 0..(STACK_SIZE - 1)
    BY <2>2, Numbers, StackAssumption
  <2> QED
    BY <2>1, <2>3
<1>2. i' = [i EXCEPT ![p] = i[p] + 1] /\ sem' = sem + 1
      /\ UNCHANGED <<on, named, myBuf, index, returned>>
  BY DEF PopPost, stackVars
<1>3. PICK l \in {"push", "end"} : Goto(p, l) /\ (l = "push" => i[p] + 1 < STACK_SIZE)
  BY <1>2 DEF PopPost, StackInv, StackTypeOK
<1>4. Exclusion' /\ LockInv' /\ sem' \in {0, 1}
  BY <1>1, <1>2, <1>3, PostKeepsLock
<1>5. StackTypeOK'
  <2>1. i' = [i EXCEPT ![p] = i[p] + 1]
    BY <1>2
  <2>2. i[p] \in 0..(STACK_SIZE - 1)
    BY <1>1
  <2>3. i[p] + 1 \in 0..STACK_SIZE
    BY <2>2, StackAssumption
  <2>4. i' \in [Proc -> 0..STACK_SIZE]
    BY <2>1, <2>3, Numbers
  <2> QED
    BY <1>2, <1>3, <1>4, <2>4 DEF StackInv, StackTypeOK, Goto
<1>6. Ahead' = Ahead
  BY <1>1, <1>3 DEF Ahead, StackInv, StackTypeOK, Goto
<1>7. ShapeInv'
  BY <1>1, <1>2, <1>3, <1>6 DEF ShapeInv, StackInv, StackTypeOK, Goto
<1>8. LoopInv'
  BY <1>1, <1>2, <1>3 DEF LoopInv, StackInv, StackTypeOK, Goto
<1> QED
  BY <1>4, <1>5, <1>7, <1>8 DEF StackInv

\* Every step keeps the invariant.
LEMMA StackInvStep == StackInv /\ [StackNext]_sharedVars => StackInv'
<1> SUFFICES ASSUME StackInv, [StackNext]_sharedVars PROVE StackInv'
  OBVIOUS
<1>1. CASE Start
  BY <1>1, StartKeepsInv
<1>2. CASE Finish \/ Interrupt
  BY <1>2, EndKeepsInv
<1>3. ASSUME NEW p \in Proc, ProcStep(p) PROVE StackInv'
  BY <1>3, WaitKeepsInv, TestKeepsInv, WriteKeepsInv, IncKeepsInv, PushPostKeepsInv,
     DecKeepsInv, ReadKeepsInv, PopPostKeepsInv DEF ProcStep
<1>4. CASE UNCHANGED sharedVars
  BY <1>4 DEF StackInv, StackTypeOK, Exclusion, LockInv, LoopInv, ShapeInv, Ahead, Holds,
              sharedVars, semVars, stackVars, procVars
<1> QED
  BY <1>1, <1>2, <1>3, <1>4 DEF StackNext
-----------------------------------------------------------------------------
(* What is on the stack.                                                   *)

\* The process that pushes a character, and in which round.
Owner(c) == c[1]
Round(c) == c[2]

\* Which characters have been written, before and after a step.
LEMMA WrittenOf ==
  ASSUME NEW c \in Char
  PROVE  /\ Owner(c) \in Proc /\ Round(c) \in Nat
         /\ c \in Written <=> Wrote(Owner(c), Round(c))
         /\ c \in Written' <=> Wrote(Owner(c), Round(c))'
<1>1. c[1] \in Proc /\ c[2] \in Nat
  BY StackAssumption DEF Char
<1> QED
  BY <1>1, Zenon DEF Written, Owner, Round

\* Everything that is written is a character, and two characters differ in
\* their process or in their round.
LEMMA CharPairs ==
  /\ Written \subseteq Char /\ Written' \subseteq Char
  /\ \A c, d \in Char : Owner(c) = Owner(d) /\ Round(c) = Round(d) => c = d
<1>1. \A c, d \in Char : Owner(c) = Owner(d) /\ Round(c) = Round(d) => c = d
  BY DEF Char, Owner, Round
<1>2. Written \subseteq Char /\ Written' \subseteq Char
  BY Zenon DEF Written, Char
<1> QED
  BY <1>1, <1>2

\* A step after which every process has written as much as before.
LEMMA SameWritten ==
  ASSUME \A p \in Proc, k \in Nat : Wrote(p, k)' <=> Wrote(p, k)
  PROVE  Written' = Written
  BY WrittenOf, CharPairs

\* Nothing runs yet.
LEMMA ContentInit == StackInit => ContentInv
  BY DEF StackInit, ContentInv

\* A step that neither fills nor empties a slot.
LEMMA SameContent ==
  ASSUME ContentInv, on, Filled' = Filled, Written' = Written,
         UNCHANGED <<myBuf, returned>>
  PROVE  ContentInv'
  BY Zenon DEF ContentInv

\* A step of a process that is neither about to move the index nor to
\* touch a slot, and leaves its round where it is.
LEMMA QuietKeepsContent ==
  ASSUME StackInv, ContentInv, on, NEW p \in Proc, NEW l, Goto(p, l),
         \/ pc[p] \in {"push", "testpush"} /\ l \in {"testpush", "write"}
         \/ pc[p] \in {"postpush", "pop", "testpop"} /\ l \in {"pop", "testpop", "dec"},
         UNCHANGED <<stackVars, i, returned>>
  PROVE  ContentInv'
<1>1. pc' = [pc EXCEPT ![p] = l] /\ pc \in [Proc -> HoldPC \cup {"push", "pop", "end"}]
  BY DEF Goto, StackInv, StackTypeOK
<1>2. Filled' = Filled
  BY <1>1 DEF Filled, Moving, stackVars
<1>3. Written' = Written
  <2>1. ASSUME NEW q \in Proc, NEW k \in Nat PROVE Wrote(q, k)' <=> Wrote(q, k)
    BY <1>1 DEF Wrote
  <2> QED
    BY <2>1, SameWritten
<1> QED
  BY <1>2, <1>3, SameContent DEF stackVars

\* The character goes into a slot that is not in use.
LEMMA WriteKeepsContent ==
  ASSUME StackInv, ContentInv, NEW p \in Proc, PushWrite(p)
  PROVE  ContentInv'
<1> DEFINE ch == <<p, i[p]>>
<1>1. on /\ pc[p] = "write" /\ Holds(p) /\ p \notin Ahead
  BY DEF PushWrite, Holds, HoldPC, Ahead
<1>2. index \in 0..(STACK_SIZE - 1)
  BY <1>1, IndexBounds, StackAssumption DEF StackInv, StackTypeOK, ShapeInv
<1>3. pc' = [pc EXCEPT ![p] = "inc"] /\ myBuf' = [myBuf EXCEPT ![index] = ch]
      /\ UNCHANGED <<on, index, i, returned>>
  BY DEF PushWrite, Goto
<1>4. /\ pc \in [Proc -> HoldPC \cup {"push", "pop", "end"}]
      /\ i \in [Proc -> 0..STACK_SIZE]
      /\ myBuf \in [0..(STACK_SIZE - 1) -> Char \cup {NUL}]
      /\ i[p] \in 0..(STACK_SIZE - 1)
  BY <1>1, StackAssumption DEF StackInv, StackTypeOK, LoopInv
<1>5. ~Moving /\ Moving'
  BY <1>1, <1>3, <1>4 DEF StackInv, Exclusion, Holds, HoldPC, Moving
<1>6. Filled' = Filled \cup {index} /\ index \notin Filled
  BY <1>2, <1>3, <1>5 DEF Filled
<1>7. Written' = Written \cup {ch} /\ ch \notin Written
  <2>1. ch \in Char /\ Owner(ch) = p /\ Round(ch) = i[p]
    BY <1>4 DEF Char, Owner, Round
  <2> HIDE DEF ch
  <2>2. ch \in Written' /\ ch \notin Written
    <3>1. Wrote(p, i[p])' /\ ~Wrote(p, i[p])
      BY <1>1, <1>3, <1>4 DEF Wrote
    <3>2. /\ ch \in Written <=> Wrote(p, i[p])
          /\ ch \in Written' <=> Wrote(p, i[p])'
      BY <1>3, <2>1, WrittenOf
    <3> QED
      BY <3>1, <3>2
  <2>3. ASSUME NEW c \in Char, c # ch PROVE c \in Written' <=> c \in Written
    <3>1. Owner(c) # p \/ Round(c) # i[p]
      BY <2>1, <2>3, CharPairs
    <3>2. /\ Owner(c) \in Proc /\ Round(c) \in Nat
          /\ c \in Written <=> Wrote(Owner(c), Round(c))
          /\ c \in Written' <=> Wrote(Owner(c), Round(c))'
      BY WrittenOf
    <3> QED
      BY <1>1, <1>3, <1>4, <3>1, <3>2 DEF Wrote
  <2> QED
    BY <2>2, <2>3, CharPairs
<1>8. \A k \in Filled : myBuf'[k] = myBuf[k] /\ myBuf[k] # ch
  BY <1>1, <1>3, <1>4, <1>6, <1>7 DEF ContentInv, Filled
<1>9. myBuf'[index] = ch /\ ch \notin returned
  BY <1>1, <1>2, <1>3, <1>4, <1>7 DEF ContentInv
<1>10. returned' = returned /\ returned \subseteq Written
  BY <1>1, <1>3 DEF ContentInv
<1>11. \A k \in Filled' : myBuf'[k] \in Written' \ returned'
  BY <1>1, <1>6, <1>7, <1>8, <1>9, <1>10 DEF ContentInv
<1>12. \A c \in Written' \ returned' : \E k \in Filled' : myBuf'[k] = c
  BY <1>1, <1>6, <1>7, <1>8, <1>9, <1>10 DEF ContentInv
<1>13. \A j, k \in Filled' : myBuf'[j] = myBuf'[k] => j = k
  BY <1>1, <1>6, <1>8, <1>9 DEF ContentInv
<1> QED
  BY <1>7, <1>10, <1>11, <1>12, <1>13 DEF ContentInv

\* The index moves over the slot that was filled, or down to the slot that
\* is read next.
LEMMA IndexKeepsContent ==
  ASSUME StackInv, ContentInv, NEW p \in Proc, PushInc(p) \/ PopDec(p)
  PROVE  ContentInv'
<1>1. on /\ pc[p] \in {"inc", "dec"} /\ Holds(p)
  BY DEF PushInc, PopDec, Holds, HoldPC
<1>2. \A q \in Proc : q # p => pc[q] \notin {"inc", "read"}
  BY <1>1 DEF StackInv, Exclusion, Holds, HoldPC
<1>3. index \in 0..STACK_SIZE /\ STACK_SIZE \in Nat
      /\ pc \in [Proc -> HoldPC \cup {"push", "pop", "end"}]
  BY StackAssumption DEF StackInv, StackTypeOK
<1>4. PICK l \in {"postpush", "read"} : pc' = [pc EXCEPT ![p] = l]
  BY DEF PushInc, PopDec, Goto
<1>5. UNCHANGED <<on, myBuf, i, returned>>
  BY DEF PushInc, PopDec
<1>6. Written' = Written
  <2>1. ASSUME NEW q \in Proc, NEW k \in Nat PROVE Wrote(q, k)' <=> Wrote(q, k)
    BY <1>1, <1>3, <1>4, <1>5 DEF Wrote
  <2> QED
    BY <2>1, SameWritten
<1>7. Filled' = Filled
  <2>1. CASE PushInc(p)
    <3>1. pc[p] = "inc" /\ pc' = [pc EXCEPT ![p] = "postpush"] /\ index' = index + 1
      BY <2>1 DEF PushInc, Goto
    <3>2. Moving /\ ~Moving'
      BY <1>2, <1>3, <3>1 DEF Moving
    <3> QED
      BY <1>3, <3>1, <3>2 DEF Filled
  <2>2. CASE PopDec(p)
    <3>1. pc[p] = "dec" /\ pc' = [pc EXCEPT ![p] = "read"] /\ index' = index - 1
      BY <2>2 DEF PopDec, Goto
    <3>2. ~Moving /\ Moving'
      BY <1>2, <1>3, <3>1 DEF Moving
    <3> QED
      BY <1>3, <3>1, <3>2 DEF Filled
  <2> QED
    BY <2>1, <2>2
<1> QED
  BY <1>1, <1>5, <1>6, <1>7, SameContent

\* The character of the slot at the index is returned.
LEMMA ReadKeepsContent ==
  ASSUME StackInv, ContentInv, NEW p \in Proc, PopRead(p)
  PROVE  ContentInv'
<1>1. on /\ pc[p] = "read" /\ Holds(p) /\ p \notin Ahead
  BY DEF PopRead, Holds, HoldPC, Ahead
<1>2. index \in 0..(STACK_SIZE - 1)
  BY <1>1, IndexBounds, StackAssumption DEF StackInv, StackTypeOK, ShapeInv
<1>3. pc' = [pc EXCEPT ![p] = "postpop"] /\ myBuf' = [myBuf EXCEPT ![index] = NUL]
      /\ returned' = returned \cup {myBuf[index]} /\ UNCHANGED <<on, index, i>>
  BY DEF PopRead, Goto
<1>4. /\ pc \in [Proc -> HoldPC \cup {"push", "pop", "end"}]
      /\ myBuf \in [0..(STACK_SIZE - 1) -> Char \cup {NUL}]
  BY DEF StackInv, StackTypeOK
<1>5. \A q \in Proc : q # p => pc[q] \notin {"inc", "read"}
  BY <1>1 DEF StackInv, Exclusion, Holds, HoldPC
<1>6. Moving /\ ~Moving'
  BY <1>1, <1>3, <1>4, <1>5 DEF Moving
<1>7. Filled' = Filled \ {index} /\ index \in Filled
  <2>1. UNCHANGED index
    BY <1>3
  <2> QED
    BY <1>2, <1>6, <2>1, StackAssumption DEF Filled
<1>8. Written' = Written
  <2>1. ASSUME NEW q \in Proc, NEW k \in Nat PROVE Wrote(q, k)' <=> Wrote(q, k)
    BY <1>1, <1>3, <1>4 DEF Wrote
  <2> QED
    BY <2>1, SameWritten
<1>9. \A k \in Filled' : myBuf'[k] = myBuf[k] /\ myBuf[k] # myBuf[index]
  BY <1>1, <1>3, <1>4, <1>7 DEF ContentInv, Filled
<1>10. returned' \subseteq Written'
  BY <1>1, <1>3, <1>7, <1>8 DEF ContentInv
<1>11. \A k \in Filled' : myBuf'[k] \in Written' \ returned'
  <2>1. \A k \in Filled : myBuf[k] \in Written \ returned
    BY <1>1, Zenon DEF ContentInv
  <2>2. ASSUME NEW k \in Filled' PROVE myBuf'[k] \in Written' \ returned'
    <3>1. myBuf'[k] = myBuf[k] /\ myBuf[k] # myBuf[index] /\ k \in Filled
      BY <1>7, <1>9, <2>2
    <3> QED
      BY <1>3, <1>8, <2>1, <3>1
  <2> QED
    BY <2>2
<1>12. \A c \in Written' \ returned' : \E k \in Filled' : myBuf'[k] = c
  BY <1>1, <1>3, <1>7, <1>8, <1>9 DEF ContentInv
<1>13. \A j, k \in Filled' : myBuf'[j] = myBuf'[k] => j = k
  BY <1>1, <1>7, <1>9 DEF ContentInv
<1> QED
  BY <1>10, <1>11, <1>12, <1>13 DEF ContentInv

\* The next round starts where this one's character is counted.
LEMMA PopPostKeepsContent ==
  ASSUME StackInv, ContentInv, NEW p \in Proc, PopPost(p)
  PROVE  ContentInv'
<1>1. on /\ pc[p] = "postpop" /\ i' = [i EXCEPT ![p] = i[p] + 1]
      /\ UNCHANGED <<on, myBuf, index, returned>>
  BY DEF PopPost, stackVars
<1>2. pc \in [Proc -> HoldPC \cup {"push", "pop", "end"}] /\ i \in [Proc -> Int]
  BY StackAssumption DEF StackInv, StackTypeOK
<1>3. PICK l \in {"push", "end"} : pc' = [pc EXCEPT ![p] = l]
  BY DEF PopPost, Goto
<1>4. Filled' = Filled
  <2>1. Moving' = Moving
    BY <1>1, <1>2, <1>3 DEF Moving
  <2> QED
    BY <1>1, <2>1 DEF Filled
<1>5. Written' = Written
  <2>1. ASSUME NEW q \in Proc, NEW k \in Nat PROVE Wrote(q, k)' <=> Wrote(q, k)
    <3>1. CASE q = p
      <4>1. i'[q] = i[q] + 1 /\ i[q] \in Int /\ pc[q] = "postpop" /\ pc'[q] \in {"push", "end"}
        BY <1>1, <1>2, <1>3, <3>1
      <4> QED
        BY <4>1 DEF Wrote
    <3>2. CASE q # p
      <4>1. i'[q] = i[q] /\ pc'[q] = pc[q]
        BY <1>1, <1>2, <1>3, <3>2
      <4> QED
        BY <4>1 DEF Wrote
    <3> QED
      BY <3>1, <3>2
  <2> QED
    BY <2>1, SameWritten
<1> QED
  BY <1>1, <1>4, <1>5, SameContent

\* A new run starts with nothing written and an empty stack.
LEMMA StartKeepsContent == ASSUME Start PROVE ContentInv'
<1>1. Filled' = {}
  BY StackAssumption DEF Start, Filled, Moving
<1>2. Written' = {}
  <2>1. ASSUME NEW c \in Char PROVE c \notin Written'
    <3>1. \A p \in Proc, k \in Nat : ~Wrote(p, k)'
      BY DEF Start, Wrote
    <3> QED
      BY <3>1, WrittenOf
  <2> QED
    BY <2>1, CharPairs
<1> QED
  BY <1>1, <1>2 DEF Start, ContentInv

\* Every step keeps the content.
LEMMA ContentStep == StackInv /\ ContentInv /\ [StackNext]_sharedVars => ContentInv'
<1> SUFFICES ASSUME StackInv, ContentInv, [StackNext]_sharedVars PROVE ContentInv'
  OBVIOUS
<1>1. CASE Start
  BY <1>1, StartKeepsContent
<1>2. CASE Finish \/ Interrupt
  BY <1>2 DEF Finish, Interrupt, ContentInv
<1>3. ASSUME NEW p \in Proc, ProcStep(p) PROVE ContentInv'
  <2>1. CASE PushWait(p) \/ PushTest(p) \/ PushPost(p) \/ PopWait(p) \/ PopTest(p)
    BY <2>1, QuietKeepsContent DEF PushWait, PushTest, PushPost, PopWait, PopTest, stackVars
  <2>2. CASE PushWrite(p)
    BY <2>2, WriteKeepsContent
  <2>3. CASE PushInc(p) \/ PopDec(p)
    BY <2>3, IndexKeepsContent
  <2>4. CASE PopRead(p)
    BY <2>4, ReadKeepsContent
  <2>5. CASE PopPost(p)
    BY <2>5, PopPostKeepsContent
  <2> QED
    BY <1>3, <2>1, <2>2, <2>3, <2>4, <2>5 DEF ProcStep
<1>4. CASE UNCHANGED sharedVars
  <2>1. Filled' = Filled
    BY <1>4 DEF Filled, Moving, sharedVars, stackVars, procVars
  <2>2. Written' = Written
    BY <1>4 DEF Written, Wrote, Char, sharedVars, procVars
  <2> QED
    BY <1>4, <2>1, <2>2, Zenon DEF ContentInv, sharedVars, stackVars
<1> QED
  BY <1>1, <1>2, <1>3, <1>4 DEF StackNext
-----------------------------------------------------------------------------
(* Theorems.                                                               *)

\* The inductive invariant of the program, over all its runs.
THEOREM StackInvariance == StackSpec => []StackInv
<1> QED
  BY StackInvInit, StackInvStep, PTL DEF StackSpec

\* The index stays on the stack and the semaphore binary (stack.c, main).
THEOREM StackTypeCorrect == StackSpec => []StackTypeOK
<1>1. StackInv => StackTypeOK
  BY DEF StackInv
<1> QED
  BY <1>1, StackInvariance, PTL

\* At most one process is between sem_wait and sem_post, whatever semaphore
\* an interrupted run has left (stack.c, push and pop).
THEOREM ExclusionAlways == StackSpec => []Exclusion
<1>1. StackInv => Exclusion
  BY DEF StackInv
<1> QED
  BY <1>1, StackInvariance, PTL

\* The loops of push() and pop() never sleep, with any number of processes
\* up to the number of slots (stack.c, the two while loops).
THEOREM NoSleepInside == StackSpec => []NeverSleepsInside
<1>1. ASSUME StackInv, NEW p \in Proc, on, pc[p] = "testpush" PROVE Pushable
  <2>1. p \notin Ahead /\ Holds(p)
    BY <1>1 DEF Ahead, Holds, HoldPC
  <2>2. /\ index = Cardinality(Ahead)
        /\ \A k \in 0..(STACK_SIZE-1) :
             k >= index => \/ myBuf[k] = NUL
                           \/ k = index /\ \E q \in Proc : pc[q] \in {"inc", "read"}
    BY <1>1, Zenon DEF StackInv, ShapeInv
  <2>3. index < STACK_SIZE /\ index \in 0..(STACK_SIZE-1)
    BY <2>1, <2>2, IndexBounds, AheadFinite, StackAssumption
  <2>4. \A q \in Proc : pc[q] \notin {"inc", "read"}
    BY <1>1, <2>1 DEF StackInv, Exclusion, Holds, HoldPC
  <2> QED
    BY <2>2, <2>3, <2>4, StackAssumption DEF Pushable
<1>2. ASSUME StackInv, NEW p \in Proc, on, pc[p] = "testpop" PROVE index # 0
  <2>1. p \in Ahead
    BY <1>2 DEF Ahead
  <2>2. index = Cardinality(Ahead)
    BY <1>2, Zenon DEF StackInv, ShapeInv
  <2> QED
    BY <2>1, <2>2, IndexBounds, AheadFinite
<1>3. StackInv => NeverSleepsInside
  BY <1>1, <1>2 DEF NeverSleepsInside
<1> QED
  BY <1>3, StackInvariance, PTL

\* Every character pushed is returned by one pop() or is still there, and
\* no character is returned twice or stays when it was returned, whichever
\* processes push and pop in between (stack.c, push and pop).
THEOREM NothingLostAlways == StackSpec => []NothingLost
<1>1. StackSpec => [](StackInv /\ ContentInv)
  BY StackInvInit, StackInvStep, ContentInit, ContentStep, PTL DEF StackSpec
<1>2. ASSUME StackInv, ContentInv, on, \A p \in Proc : ~Holds(p)
      PROVE  returned \cup Stored = Pushed /\ returned \cap Stored = {}
  <2>1. /\ index \in 0..STACK_SIZE /\ i \in [Proc -> 0..STACK_SIZE]
        /\ pc \in [Proc -> HoldPC \cup {"push", "pop", "end"}]
    BY <1>2 DEF StackInv, StackTypeOK
  <2>2. \A p \in Proc : pc[p] \in {"push", "pop", "end"}
    BY <1>2, <2>1 DEF Holds
  <2>3. Filled = 0..(index - 1)
    <3>1. ~Moving
      BY <2>2 DEF Moving
    <3> QED
      BY <2>1, <3>1, StackAssumption DEF Filled
  <2>4. Written = Pushed
    <3>1. ASSUME NEW c \in Char PROVE c \in Written <=> c \in Pushed
      <4>1. /\ Owner(c) \in Proc /\ Round(c) \in Nat
            /\ c \in Written <=> Wrote(Owner(c), Round(c))
        BY WrittenOf
      <4>2. c \in Pushed <=> /\ Round(c) <= i[Owner(c)]
                             /\ Round(c) = i[Owner(c)] => pc[Owner(c)] = "pop"
        BY Zenon DEF Pushed, Owner, Round
      <4> QED
        <5>1. pc[Owner(c)] \in {"push", "pop", "end"} /\ i[Owner(c)] \in Int
          BY <2>1, <2>2, <4>1, StackAssumption
        <5> QED
          BY <4>1, <4>2, <5>1 DEF Wrote
    <3> QED
      BY <3>1, CharPairs, Zenon DEF Pushed
  <2> QED
    BY <1>2, <2>3, <2>4 DEF ContentInv, Stored
<1>3. StackInv /\ ContentInv => NothingLost
  BY <1>2 DEF NothingLost
<1> QED
  BY <1>1, <1>3, PTL

-----------------------------------------------------------------------------
(* PacketRing: blocks and ids.                                             *)

\* The places of ids and counters are blocks; the counter starts over after
\* the last one.
LEMMA Places ==
  /\ \A n \in Nat : n % shmblocks \in Slot
  /\ \A k \in Slot : Inc(k) \in Slot
  /\ \A k \in Slot : IF k = shmblocks - 1 THEN Inc(k) = 0 ELSE Inc(k) = k + 1
<1>1. shmblocks \in Nat \ {0}
  BY RingAssumption
<1>2. \A n \in Nat : n % shmblocks \in Slot
  BY <1>1 DEF Slot
<1>3. \A k \in Slot : k + 1 \in Nat
  BY <1>1 DEF Slot
<1>4. \A k \in Slot : IF k = shmblocks - 1 THEN Inc(k) = 0 ELSE Inc(k) = k + 1
  BY <1>1 DEF Slot, Inc
<1> QED
  BY <1>2, <1>3, <1>4 DEF Inc

\* Nothing is open, nothing is seen.
LEMMA RingInvInit == RingInit => RingInv
<1> SUFFICES ASSUME RingInit PROVE RingInv
  OBVIOUS
<1>1. shmblocks \in Nat \ {0} /\ MAX_PACKET \in Nat \ {0}
  BY RingAssumption
<1>2. 0 \in Slot /\ 0 \in Id /\ 0 \in 0..MAX_PACKET
  BY <1>1 DEF Slot, Id
<1>3. BlockInv
  BY <1>2 DEF RingInit, BlockInv
<1>4. SegInv
  BY DEF RingInit, SegInv
<1>5. ReadyInv /\ WatchInv
  BY <1>1 DEF RingInit, ReadyInv, WatchInv
<1>6. SeenInv
  BY FS_EmptySet DEF RingInit, SeenInv
<1> QED
  BY <1>3, <1>4, <1>5, <1>6 DEF RingInv
-----------------------------------------------------------------------------
(* The types, and the segments.                                            *)

\* Every step keeps the types.
LEMMA RingStep == RingInv /\ [RingNext]_ringVars => BlockInv'
<1> SUFFICES ASSUME RingInv, [RingNext]_ringVars PROVE BlockInv'
  OBVIOUS
<1>0. BlockInv /\ SegInv
  BY DEF RingInv
<1> USE DEF BlockInv, SegInv
<1>1. CASE ProducerWrite
  <2>1. next \in Id /\ next + 1 \in 0..MAX_PACKET
        /\ (next + 1 # MAX_PACKET => next + 1 < MAX_PACKET)
    BY <1>0, <1>1, RingAssumption DEF ProducerWrite, Id
  <2>2. next % shmblocks \in Slot /\ pseg \in Seg
    BY <1>0, <1>1, <2>1, Places DEF ProducerWrite
  <2> QED
    BY <1>0, <1>1, <2>1, <2>2 DEF ProducerWrite, consumerVars
<1>2. CASE ProducerOpen \/ ProducerRemove
  BY <1>0, <1>2 DEF ProducerOpen, ProducerRemove, consumerVars
<1>3. CASE ProducerAwake
  BY <1>0, <1>3, RingAssumption DEF ProducerAwake, consumerVars
<1>4. CASE ConsumerOpen \/ ConsumerOverflow \/ ConsumerReport \/ ConsumerRemove
  BY <1>0, <1>4 DEF ConsumerOpen, ConsumerOverflow, ConsumerReport, ConsumerRemove,
                    producerVars
<1>5. CASE ConsumerInit
  <2>1. cseg \in Seg /\ id' \in Slot
    BY <1>0, <1>5, Places DEF ConsumerInit
  <2> QED
    BY <1>0, <1>5, <2>1 DEF ConsumerInit, producerVars
<1>6. CASE ConsumerPoll
  <2>1. cseg \in Seg /\ mem[cseg][id] \in Id \cup {-1} /\ id' \in Slot
    BY <1>0, <1>6, Places DEF ConsumerPoll
  <2> QED
    BY <1>0, <1>6, <2>1 DEF ConsumerPoll, producerVars
<1>7. CASE UNCHANGED ringVars
  BY <1>0, <1>7 DEF ringVars, nameVars, producerVars, consumerVars
<1> QED
  BY <1>1, <1>2, <1>3, <1>4, <1>5, <1>6, <1>7 DEF RingNext, ProducerStep, ConsumerStep

\* Every step keeps the segments: nobody opens the name twice.
LEMMA SegStep == RingInv /\ [RingNext]_ringVars => SegInv'
<1> SUFFICES ASSUME RingInv, [RingNext]_ringVars PROVE SegInv'
  OBVIOUS
<1>0. BlockInv /\ SegInv
  BY DEF RingInv
<1> USE DEF BlockInv, SegInv, Seg
<1>1. CASE ProducerOpen
  BY <1>0, <1>1 DEF ProducerOpen, OpenOrCreate, nameVars, consumerVars
<1>2. CASE ConsumerOpen
  BY <1>0, <1>2 DEF ConsumerOpen, OpenOrCreate, nameVars, producerVars
<1>3. CASE ProducerAwake \/ ProducerWrite \/ ProducerRemove
  BY <1>0, <1>3 DEF ProducerAwake, ProducerWrite, ProducerRemove, Remove,
                    nameVars, consumerVars
<1>4. CASE ConsumerInit \/ ConsumerPoll \/ ConsumerOverflow \/ ConsumerReport
           \/ ConsumerRemove
  BY <1>0, <1>4 DEF ConsumerInit, ConsumerPoll, ConsumerOverflow, ConsumerReport,
                    ConsumerRemove, Remove, nameVars, producerVars
<1>5. CASE UNCHANGED ringVars
  BY <1>0, <1>5 DEF ringVars, nameVars, producerVars, consumerVars
<1> QED
  BY <1>1, <1>2, <1>3, <1>4, <1>5 DEF RingNext, ProducerStep, ConsumerStep
-----------------------------------------------------------------------------
(* What the consumer sees and counts.                                      *)

ViewInv == ReadyInv /\ WatchInv /\ SeenInv

\* A packet is written, over one that is older.
LEMMA WriteKeepsViewInv ==
  ASSUME RingInv, ProducerWrite
  PROVE  ViewInv'
<1>0. next \in Nat /\ next' = next + 1 /\ shmblocks \in Nat \ {0} /\ pseg \in Seg
      /\ mem' = [mem EXCEPT ![pseg][next % shmblocks] = next]
      /\ UNCHANGED consumerVars
  BY RingAssumption DEF RingInv, BlockInv, SegInv, ProducerWrite
<1>1. ASSUME NEW b \in Slot, cseg \in Seg
      PROVE  \/ mem'[cseg][b] = mem[cseg][b]
             \/ mem'[cseg][b] = next /\ b = next % shmblocks
  BY <1>0, <1>1 DEF RingInv, BlockInv
<1>2. ASSUME NEW b \in Slot, cseg \in Seg, Ready(b)
      PROVE  Ready(b)' /\ mem[cseg][b] <= mem'[cseg][b]
  <2>1. mem[cseg][b] \in Int /\ (mem[cseg][b] = -1 \/ mem[cseg][b] < next)
    BY <1>0, <1>2 DEF Ready
  <2>2. CASE mem'[cseg][b] = mem[cseg][b]
    BY <1>0, <1>2, <2>1, <2>2 DEF Ready, consumerVars
  <2>3. CASE mem'[cseg][b] = next /\ b = next % shmblocks
    BY <1>0, <2>1, <2>3 DEF Ready, consumerVars
  <2> QED
    BY <1>1, <1>2, <2>2, <2>3
<1>3. ReadyInv'
  <2>1. cpc = "init" => \A b \in 0..(id - 1) : b \in Slot /\ Ready(b) /\ cseg \in Seg
    BY <1>0 DEF RingInv, BlockInv, SegInv, ReadyInv, Slot
  <2> QED
    BY <1>0, <1>2, <2>1 DEF ReadyInv, RingInv, consumerVars
<1>4. WatchInv'
  <2> SUFFICES ASSUME cpc \in {"poll", "report", "remove", "done", "undefined"},
                      NEW b \in Slot
               PROVE Ready(b)' /\ id_check[b] <= mem'[cseg][b]
    BY <1>0 DEF WatchInv, consumerVars
  <2>1. Ready(b) /\ id_check[b] <= mem[cseg][b] /\ cseg \in Seg
        /\ id_check[b] \in Int /\ mem[cseg][b] \in Int
    BY DEF RingInv, WatchInv, SegInv, BlockInv, Id
  <2>2. Ready(b)' /\ mem[cseg][b] <= mem'[cseg][b] /\ mem'[cseg][b] \in Int
    BY <1>0, <1>1, <1>2, <2>1
  <2> QED
    BY <2>1, <2>2
<1>5. SeenInv'
  BY <1>0 DEF RingInv, SeenInv, consumerVars
<1> QED
  BY <1>3, <1>4, <1>5 DEF ViewInv

\* The consumer makes one more block ready.
LEMMA InitKeepsViewInv ==
  ASSUME RingInv, ConsumerInit
  PROVE  ViewInv'
<1>0. /\ id \in Slot /\ cseg \in Seg /\ shmblocks \in Nat \ {0}
      /\ \A b \in Slot : id_check[b] = -1
      /\ \A b \in 0..(id - 1) : Ready(b)
  BY RingAssumption DEF RingInv, BlockInv, SegInv, ReadyInv, ConsumerInit
<1>1. /\ mem' = [mem EXCEPT ![cseg][id] = -1]
      /\ id_check' = [id_check EXCEPT ![id] = -1]
      /\ id' = Inc(id) /\ cpc' = IF id' = 0 THEN "poll" ELSE "init"
      /\ UNCHANGED <<next, cseg, num, seen>>
  BY DEF ConsumerInit, producerVars
<1>2. \A b \in Slot : id_check'[b] = -1
  BY <1>0, <1>1 DEF RingInv, BlockInv
<1>3. ASSUME NEW b \in 0..id PROVE b \in Slot /\ Ready(b)' /\ mem'[cseg][b] >= -1
  <2>1. b \in Slot
    BY <1>0 DEF Slot
  <2>2. CASE b = id
    BY <1>0, <1>1, <2>1, <2>2 DEF RingInv, BlockInv, Ready
  <2>3. CASE b # id
    <3>1. Ready(b) /\ mem'[cseg][b] = mem[cseg][b]
      BY <1>0, <1>1, <2>1, <2>3 DEF RingInv, BlockInv, Slot
    <3> QED
      BY <1>0, <1>1, <2>1, <3>1 DEF Ready, RingInv, BlockInv
  <2> QED
    BY <2>1, <2>2, <2>3
<1>4. IF id = shmblocks - 1 THEN id' = 0 ELSE id' = id + 1
  BY <1>0, <1>1, Places
<1>5. ReadyInv'
  <2>1. id' # 0 => id' - 1 = id
    BY <1>0, <1>4 DEF Slot
  <2> QED
    BY <1>1, <1>2, <1>3, <2>1 DEF ReadyInv
<1>6. WatchInv'
  <2>1. id' = 0 => \A b \in Slot : b \in 0..id
    BY <1>0, <1>4 DEF Slot
  <2> QED
    BY <1>1, <1>2, <1>3, <2>1 DEF WatchInv
<1>7. SeenInv'
  BY <1>0, <1>1, <1>2 DEF RingInv, SeenInv, ReadyInv, BlockInv, ConsumerInit
<1> QED
  BY <1>5, <1>6, <1>7 DEF ViewInv

\* What is in the block and differs from id_check is a packet that has not
\* been counted.
LEMMA NewPacket ==
  ASSUME RingInv, cpc = "poll", mem[cseg][id] # id_check[id]
  PROVE  LET got == mem[cseg][id]
         IN  /\ got \in 0..(next - 1) /\ got % shmblocks = id
             /\ got > id_check[id] /\ got \notin seen
<1> DEFINE got == mem[cseg][id]
<1>1. cseg \in Seg /\ id \in Slot /\ next \in Nat
  BY DEF RingInv, BlockInv, SegInv
<1>2. got \in Int /\ id_check[id] \in Int /\ id_check[id] >= -1
  BY <1>1 DEF RingInv, BlockInv, Id
<1>3. Ready(id) /\ id_check[id] <= got
  BY <1>1 DEF RingInv, WatchInv
<1>4. got > id_check[id]
  BY <1>2, <1>3
<1>5. got \in 0..(next - 1) /\ got % shmblocks = id
  BY <1>2, <1>3, <1>4 DEF Ready
<1>6. got \in seen => got <= id_check[id]
  BY <1>5 DEF RingInv, SeenInv
<1> QED
  BY <1>2, <1>4, <1>5, <1>6

\* A block is polled.
LEMMA PollKeepsViewInv ==
  ASSUME RingInv, ConsumerPoll
  PROVE  ViewInv'
<1> DEFINE got == mem[cseg][id]
<1>0. cpc = "poll" /\ cpc' \in {"poll", "report"} /\ id \in Slot /\ cseg \in Seg
      /\ UNCHANGED <<mem, next, cseg>>
  BY DEF ConsumerPoll, producerVars, RingInv, BlockInv, SegInv
<1>1. \A b \in Slot : /\ Ready(b) /\ id_check[b] <= mem[cseg][b]
                      /\ id_check[b] \in Int /\ mem[cseg][b] \in Int
  BY <1>0 DEF RingInv, WatchInv, BlockInv, Id
<1>2. \A b \in Slot : Ready(b)' = Ready(b)
  BY <1>0 DEF Ready
<1>3. ReadyInv'
  BY <1>0 DEF ReadyInv
<1>4. CASE got = id_check[id]
  <2>1. UNCHANGED <<id_check, num, seen>>
    BY <1>4 DEF ConsumerPoll
  <2> QED
    BY <1>0, <1>1, <1>2, <1>3, <2>1 DEF ViewInv, WatchInv, SeenInv, RingInv
<1>5. CASE got # id_check[id]
  <2>1. /\ id_check' = [id_check EXCEPT ![id] = got]
        /\ num' = num + 1 /\ seen' = seen \cup {got}
    BY <1>5 DEF ConsumerPoll
  <2>2. /\ got \in 0..(next - 1) /\ got % shmblocks = id
        /\ got > id_check[id] /\ got \notin seen
    BY <1>0, <1>5, NewPacket
  <2>3. \A b \in Slot : id_check'[b] = IF b = id THEN got ELSE id_check[b]
    BY <1>0, <2>1 DEF RingInv, BlockInv
  <2>4. WatchInv'
    BY <1>0, <1>1, <1>2, <2>3 DEF WatchInv
  <2>5. IsFiniteSet(seen') /\ num' = Cardinality(seen')
    <3>1. IsFiniteSet(seen) /\ num = Cardinality(seen)
      BY DEF RingInv, SeenInv
    <3> QED
      BY <2>1, <2>2, <3>1, FS_AddElement
  <2>6. ASSUME NEW v \in seen' PROVE v \in 0..(next - 1) /\ v <= id_check'[v % shmblocks]
    <3>1. CASE v = got
      BY <1>0, <1>1, <2>2, <2>3, <3>1
    <3>2. CASE v \in seen
      <4>1. v \in 0..(next - 1) /\ v <= id_check[v % shmblocks] /\ v \in Nat
        BY <3>2 DEF RingInv, SeenInv
      <4>2. v % shmblocks \in Slot
        BY <4>1, Places
      <4> QED
        BY <1>0, <1>1, <2>2, <2>3, <4>1, <4>2
    <3> QED
      BY <2>1, <3>1, <3>2
  <2>7. SeenInv'
    BY <1>0, <2>5, <2>6 DEF SeenInv
  <2> QED
    BY <1>3, <2>4, <2>7 DEF ViewInv
<1> QED
  BY <1>4, <1>5

\* Every step keeps the consumer's view.
LEMMA ViewStep == RingInv /\ [RingNext]_ringVars => ViewInv'
<1> SUFFICES ASSUME RingInv, [RingNext]_ringVars PROVE ViewInv'
  OBVIOUS
<1>0. ViewInv
  BY DEF RingInv, ViewInv
<1> USE DEF ViewInv, ReadyInv, WatchInv, SeenInv, Ready
<1>1. CASE ProducerOpen \/ ProducerAwake \/ ProducerRemove \/ UNCHANGED ringVars
  <2>1. UNCHANGED <<mem, next, consumerVars>>
    BY <1>1 DEF ProducerOpen, ProducerAwake, ProducerRemove, ringVars, producerVars
  <2> QED
    BY <1>0, <2>1 DEF consumerVars
<1>2. CASE ConsumerOpen
  BY <1>0, <1>2, RingAssumption DEF ConsumerOpen, producerVars
<1>3. CASE ConsumerOverflow \/ ConsumerReport \/ ConsumerRemove
  <2>1. /\ UNCHANGED <<mem, next, cseg, id, id_check, num, seen>>
        /\ cpc \in {"poll", "report", "remove"}
        /\ cpc' \in {"undefined", "remove", "done"}
    BY <1>3 DEF ConsumerOverflow, ConsumerReport, ConsumerRemove, producerVars
  <2> QED
    BY <1>0, <2>1
<1> QED
  BY <1>1, <1>2, <1>3, WriteKeepsViewInv, InitKeepsViewInv, PollKeepsViewInv
     DEF RingNext, ProducerStep, ConsumerStep
-----------------------------------------------------------------------------
(* The properties.                                                         *)

\* The inductive invariant, whenever the two programs are started.
THEOREM RingInvariance == RingSpec => []RingInv
<1>1. RingInit => RingInv
  BY RingInvInit
<1>2. RingInv /\ [RingNext]_ringVars => RingInv'
  BY RingStep, SegStep, ViewStep DEF RingInv, ViewInv
<1> QED
  BY <1>1, <1>2, PTL DEF RingSpec

\* Without any synchronization no packet is counted twice, and nothing but
\* packets that have been written is counted (consumer.c, Lost).
THEOREM CountedOnceAlways == RingSpec => []CountedOnce
<1>1. RingInv => CountedOnce
  BY DEF RingInv, SeenInv, CountedOnce
<1> QED
  BY <1>1, RingInvariance, PTL

\* The consumer never counts more packets than there are, so that what it
\* reports as lost is not negative; and the types are right (consumer.c).
THEOREM RingTypeCorrect == RingSpec => []RingTypeOK
<1>1. RingInv => RingTypeOK
  <2> SUFFICES ASSUME RingInv PROVE RingTypeOK
    OBVIOUS
  <2>1. next \in Nat /\ next <= MAX_PACKET /\ MAX_PACKET \in Nat
    BY RingAssumption DEF RingInv, BlockInv
  <2>2. IsFiniteSet(0..(next - 1)) /\ Cardinality(0..(next - 1)) = next
    BY <2>1, FS_Interval
  <2>3. IsFiniteSet(seen) /\ num = Cardinality(seen) /\ seen \subseteq 0..(next - 1)
    BY DEF RingInv, SeenInv
  <2>4. num \in Nat /\ num <= next
    <3>1. Cardinality(seen) <= Cardinality(0..(next - 1))
      BY <2>2, <2>3, FS_Subset
    <3>2. Cardinality(seen) \in Nat
      BY <2>3, FS_CardinalityType
    <3> QED
      BY <2>2, <2>3, <3>1, <3>2
  <2>5. num \in 0..MAX_PACKET /\ seen \in SUBSET Id
    BY <2>1, <2>3, <2>4 DEF Id
  <2> QED
    BY <2>5 DEF RingInv, BlockInv, SegInv, Seg, RingTypeOK
<1> QED
  BY <1>1, RingInvariance, PTL

\* A block that the consumer has begun to watch is never seen to go back
\* (consumer.c, id_check).
THEOREM NeverGoesBack == RingSpec => NeverBack
<1>1. RingInv /\ [RingNext]_ringVars =>
        [cpc = "poll" => \A b \in Slot : id_check'[b] >= id_check[b]]_ringVars
  <2> SUFFICES ASSUME RingInv, [RingNext]_ringVars, cpc = "poll", NEW b \in Slot
               PROVE id_check'[b] >= id_check[b]
    OBVIOUS
  <2>1. id_check[b] \in Int
    BY DEF RingInv, BlockInv, Id
  <2>2. CASE UNCHANGED id_check
    BY <2>1, <2>2
  <2>3. CASE ConsumerPoll
    <3>1. CASE mem[cseg][id] = id_check[id]
      BY <2>2, <2>3, <3>1 DEF ConsumerPoll
    <3>2. CASE mem[cseg][id] # id_check[id]
      <4>1. mem[cseg][id] > id_check[id]
        BY <3>2, NewPacket
      <4>2. id_check' = [id_check EXCEPT ![id] = mem[cseg][id]]
        BY <2>3, <3>2 DEF ConsumerPoll
      <4>3. mem[cseg][id] \in Int
        BY <2>3 DEF ConsumerPoll, RingInv, BlockInv, SegInv, Id
      <4> QED
        BY <2>1, <4>1, <4>2, <4>3 DEF RingInv, BlockInv
    <3> QED
      BY <3>1, <3>2
  <2>4. ASSUME ProducerStep \/ ConsumerReport \/ ConsumerRemove \/ ConsumerOverflow
               \/ UNCHANGED ringVars
        PROVE  UNCHANGED id_check
    BY <2>4 DEF ProducerStep, ProducerOpen, ProducerAwake, ProducerWrite, ProducerRemove,
                ConsumerReport, ConsumerRemove, ConsumerOverflow, ringVars, consumerVars
  <2>5. ~ConsumerOpen /\ ~ConsumerInit
    BY DEF ConsumerOpen, ConsumerInit
  <2> QED
    BY <2>2, <2>3, <2>4, <2>5 DEF RingNext, ConsumerStep
<1> QED
  BY <1>1, RingInvariance, PTL DEF RingSpec, NeverBack

-----------------------------------------------------------------------------
(* Sums: induction on the number of elements, by the least number for      *)
(* which something does not hold.                                          *)

\* Every set of natural numbers that is not empty has a least one.
LEMMA Least ==
  ASSUME NEW T, T \subseteq Nat, T # {}
  PROVE  \E n \in T : \A m \in T : n <= m
<1>1. \A m, n \in Nat : <<m, n>> \in OpToRel(<, Nat) <=> m < n
  BY DEF OpToRel
<1>2. \E R : IsWellFoundedOn(R, Nat) /\ \A m, n \in Nat : <<m, n>> \in R <=> m < n
  BY <1>1, NatLessThanWellFounded, Zenon
<1>3. PICK R : IsWellFoundedOn(R, Nat) /\ \A m, n \in Nat : <<m, n>> \in R <=> m < n
  BY <1>2
<1>4. IsWellFoundedOn(R, Nat)
  BY <1>3
<1>5. PICK n \in T : \A m \in T : ~ (<<m, n>> \in R)
  BY <1>4, WFMin, Zenon
<1>6. ASSUME NEW m \in T PROVE n <= m
  <2>1. m \in Nat /\ n \in Nat
    OBVIOUS
  <2>2. ~ (m < n)
    BY <1>3, <1>5, <2>1, Zenon
  <2> QED
    BY <2>1, <2>2
<1> QED
  BY <1>6

\* The recursion of SumFunctionOnSet: the element that comes first, and the
\* others; on a set D of subsets.
First(s) == CHOOSE x \in s : TRUE
Adds(f, D, g) == g = [s \in D |-> IF s = {} THEN 0 ELSE f[First(s)] + g[s \ {First(s)}]]

\* The definition, expanded.
LEMMA SumIs == \A f, S : SumFunctionOnSet(f, S) = (CHOOSE g : Adds(f, SUBSET S, g))[S]
  BY DEF SumFunctionOnSet, FoldFunctionOnSet, MapThenFoldSet, Adds, First

\* What is left of a finite set without the element that comes first.
LEMMA Without ==
  ASSUME NEW s, IsFiniteSet(s), s # {}, NEW x \in s
  PROVE  /\ First(s) \in s
         /\ IsFiniteSet(s \ {x}) 
         /\ Cardinality(s) \in Nat \ {0} /\ Cardinality(s \ {x}) = Cardinality(s) - 1
<1>1. First(s) \in s
  BY DEF First
<1>2. IsFiniteSet(s \ {x}) /\ Cardinality(s \ {x}) = Cardinality(s) - 1
  BY FS_RemoveElement
<1>3. Cardinality(s) \in Nat /\ Cardinality(s) # 0
  BY FS_CardinalityType, FS_EmptySet
<1> QED
  BY <1>1, <1>2, <1>3

\* Subsets of n elements at most.
Small(S, n) == {s \in SUBSET S : Cardinality(s) <= n}

\* There is such a function: on the empty set, and on one element more each time.
LEMMA AddsExists ==
  ASSUME NEW S, IsFiniteSet(S), NEW f
  PROVE  \A n \in Nat : \E g : Adds(f, Small(S, n), g)
<1> DEFINE Bad == {n \in Nat : ~ \E g : Adds(f, Small(S, n), g)}
<1> SUFFICES ASSUME Bad # {} PROVE FALSE
  OBVIOUS
<1>1. PICK n \in Bad : \A m \in Bad : n <= m
  BY Least
<1>2. \A s \in SUBSET S : IsFiniteSet(s) /\ Cardinality(s) \in Nat
  BY FS_Subset, FS_CardinalityType
<1>3. CASE n = 0
  <2> DEFINE g == [s \in Small(S, 0) |-> 0]
  <2>1. \A s \in Small(S, 0) : s = {}
    BY <1>2, FS_EmptySet DEF Small
  <2>2. Adds(f, Small(S, 0), g)
    BY <2>1 DEF Adds
  <2> QED
    BY <1>3, <2>2
<1>4. CASE n # 0
  <2>1. n - 1 \in Nat /\ n - 1 \notin Bad
    BY <1>1, <1>4
  <2>2. PICK g : Adds(f, Small(S, n - 1), g)
    BY <2>1
  <2> DEFINE step(s) == IF s = {} THEN 0 ELSE f[First(s)] + g[s \ {First(s)}]
             h == [s \in Small(S, n) |-> step(s)]
  <2>3. ASSUME NEW s \in Small(S, n), s # {}
        PROVE  s \ {First(s)} \in Small(S, n) /\ s \ {First(s)} \in Small(S, n - 1)
    <3>1. IsFiniteSet(s) /\ Cardinality(s) \in Nat /\ Cardinality(s) <= n /\ s \in SUBSET S
      BY <1>2 DEF Small
    <3>2. Cardinality(s \ {First(s)}) = Cardinality(s) - 1
      BY <2>3, <3>1, Without
    <3> QED
      BY <3>1, <3>2, <2>1 DEF Small
  <2>4. \A s \in Small(S, n - 1) : g[s] = step(s) 
    BY <2>2 DEF Adds
  <2>5. \A s \in Small(S, n) : s # {} => h[s \ {First(s)}] = g[s \ {First(s)}]
    BY <2>3, <2>4
  <2>6. Adds(f, Small(S, n), h)
    BY <2>5 DEF Adds
  <2> QED
    BY <2>6
<1> QED
  BY <1>3, <1>4

\* Two functions that add up are equal where both are defined.
LEMMA AddsUnique ==
  ASSUME NEW S, IsFiniteSet(S), NEW f, NEW T \in SUBSET S,
         NEW g, Adds(f, SUBSET S, g), NEW h, Adds(f, SUBSET T, h)
  PROVE  g[T] = h[T]
<1> DEFINE Bad == {n \in Nat : \E s \in SUBSET T : Cardinality(s) = n /\ g[s] # h[s]}
<1>1. \A s \in SUBSET T : s \in SUBSET S /\ IsFiniteSet(s) /\ Cardinality(s) \in Nat
  BY FS_Subset, FS_CardinalityType
<1> SUFFICES ASSUME Bad # {} PROVE FALSE
  BY <1>1
<1>2. PICK n \in Bad : \A m \in Bad : n <= m
  BY Least
<1>3. PICK s \in SUBSET T : Cardinality(s) = n /\ g[s] # h[s]
  OBVIOUS
<1>4. /\ g[s] = IF s = {} THEN 0 ELSE f[First(s)] + g[s \ {First(s)}]
      /\ h[s] = IF s = {} THEN 0 ELSE f[First(s)] + h[s \ {First(s)}]
  BY <1>1 DEF Adds
<1>5. s # {} /\ g[s \ {First(s)}] # h[s \ {First(s)}]
  BY <1>3, <1>4
<1>6. Cardinality(s \ {First(s)}) = n - 1 /\ n \in Nat \ {0}
  BY <1>1, <1>3, <1>5, Without
<1>7. n - 1 \in Bad
  BY <1>5, <1>6
<1> QED
  BY <1>2, <1>6, <1>7

\* g has the sums over all subsets of S.
IsSum(f, S, g) ==
  Adds(f, SUBSET S, g) /\ \A T \in SUBSET S : SumFunctionOnSet(f, T) = g[T]

\* The sum is one function on all subsets of a finite set.
LEMMA OneSum ==
  ASSUME NEW S, IsFiniteSet(S), NEW f
  PROVE  \E g : IsSum(f, S, g)
<1>1. ASSUME NEW T, IsFiniteSet(T) PROVE \E g : Adds(f, SUBSET T, g)
  <2>1. Cardinality(T) \in Nat /\ \A s \in SUBSET T : Cardinality(s) <= Cardinality(T)
    BY <1>1, FS_Subset, FS_CardinalityType
  <2>2. Small(T, Cardinality(T)) = SUBSET T
    BY <2>1 DEF Small
  <2>3. \E g : Adds(f, Small(T, Cardinality(T)), g)
    BY <1>1, <2>1, AddsExists
  <2> QED
    BY <2>2, <2>3
<1>2. PICK g : Adds(f, SUBSET S, g)
  BY <1>1
<1>3. ASSUME NEW T \in SUBSET S PROVE SumFunctionOnSet(f, T) = g[T]
  <2>1. IsFiniteSet(T)
    BY FS_Subset
  <2> DEFINE h == CHOOSE h : Adds(f, SUBSET T, h)
  <2>2. Adds(f, SUBSET T, h)
    BY <1>1, <2>1
  <2>3. SumFunctionOnSet(f, T) = h[T]
    BY SumIs
  <2> HIDE DEF h
  <2>4. g[T] = h[T]
    BY <1>2, <2>2, AddsUnique
  <2> QED
    BY <2>3, <2>4
<1> QED
  BY <1>2, <1>3 DEF IsSum

\* What adds up natural numbers is one.
LEMMA AddsType ==
  ASSUME NEW S, IsFiniteSet(S), NEW f, \A x \in S : f[x] \in Nat,
         NEW g, Adds(f, SUBSET S, g)
  PROVE  \A s \in SUBSET S : g[s] \in Nat
<1> DEFINE Bad == {n \in Nat : \E s \in SUBSET S : Cardinality(s) = n /\ g[s] \notin Nat}
<1>1. \A s \in SUBSET S : IsFiniteSet(s) /\ Cardinality(s) \in Nat
  BY FS_Subset, FS_CardinalityType
<1> SUFFICES ASSUME Bad # {} PROVE FALSE
  BY <1>1
<1>2. PICK n \in Bad : \A m \in Bad : n <= m
  BY Least
<1>3. PICK s \in SUBSET S : Cardinality(s) = n /\ g[s] \notin Nat
  OBVIOUS
<1>4. g[s] = IF s = {} THEN 0 ELSE f[First(s)] + g[s \ {First(s)}]
  BY DEF Adds
<1>5. s # {}
  BY <1>3, <1>4
<1>6. First(s) \in s /\ Cardinality(s \ {First(s)}) = n - 1 /\ n \in Nat \ {0}
  BY <1>1, <1>3, <1>5, Without
<1>7. g[s \ {First(s)}] \notin Nat
  BY <1>3, <1>4, <1>5, <1>6
<1>8. n - 1 \in Bad
  BY <1>6, <1>7
<1> QED
  BY <1>2, <1>6, <1>8

\* Any element may be added first.
LEMMA AnyFirst ==
  ASSUME NEW S, IsFiniteSet(S), NEW f, \A x \in S : f[x] \in Nat,
         NEW g, Adds(f, SUBSET S, g), NEW A \in SUBSET S, NEW a \in A
  PROVE  g[A] = f[a] + g[A \ {a}]
<1> DEFINE Any(s) == \A x \in s : g[s] = f[x] + g[s \ {x}]
           Bad == {n \in Nat : \E s \in SUBSET S : Cardinality(s) = n /\ ~Any(s)}
<1>1. \A s \in SUBSET S : IsFiniteSet(s) /\ Cardinality(s) \in Nat /\ g[s] \in Nat
  BY FS_Subset, FS_CardinalityType, AddsType
<1> SUFFICES ASSUME Bad # {} PROVE FALSE
  BY <1>1
<1>2. PICK n \in Bad : \A m \in Bad : n <= m
  BY Least
<1>3. PICK s \in SUBSET S : Cardinality(s) = n /\ ~Any(s)
  OBVIOUS
<1>4. PICK x \in s : g[s] # f[x] + g[s \ {x}]
  BY <1>3
<1> DEFINE y == First(s)
           r == (s \ {x}) \ {y}
<1>5. y \in s /\ Cardinality(s \ {y}) = n - 1 /\ n \in Nat \ {0}
  BY <1>1, <1>3, Without
<1>6. g[s] = f[y] + g[s \ {y}]
  BY DEF Adds
<1>7. x # y
  BY <1>4, <1>6
<1>8. Any(s \ {y})
  BY <1>2, <1>5
<1>9. g[s \ {y}] = f[x] + g[r]
  <2>1. (s \ {y}) \ {x} = r
    OBVIOUS
  <2> QED
    BY <1>7, <1>8, <2>1
<1>10. g[s \ {x}] = f[y] + g[r]
  <2>1. Cardinality(s \ {x}) = n - 1
    BY <1>1, <1>3, Without
  <2>2. Any(s \ {x})
    BY <1>2, <1>5, <2>1
  <2> QED
    BY <1>5, <1>7, <2>2
<1>11. f[x] \in Nat /\ f[y] \in Nat /\ g[r] \in Nat
  BY <1>1, <1>5
<1> HIDE DEF y, r
<1> QED
  BY <1>4, <1>6, <1>9, <1>10, <1>11

\* A sum of natural numbers is one, and an element more or less makes the
\* difference of its number.
THEOREM Sums ==
  ASSUME NEW S, IsFiniteSet(S), NEW f, \A x \in S : f[x] \in Nat
  PROVE  /\ SumFunctionOnSet(f, {}) = 0
         /\ \A T \in SUBSET S : SumFunctionOnSet(f, T) \in Nat
         /\ \A T \in SUBSET S : \A x \in T :
              SumFunctionOnSet(f, T) = f[x] + SumFunctionOnSet(f, T \ {x})
<1>0. PICK g : IsSum(f, S, g)
  BY OneSum
<1>1. \A T \in SUBSET S : SumFunctionOnSet(f, T) = g[T]
  BY <1>0 DEF IsSum
<1>2. g[{}] = 0
  BY <1>0 DEF IsSum, Adds
<1>3. Adds(f, SUBSET S, g)
  BY <1>0 DEF IsSum
<1>4. \A T \in SUBSET S : g[T] \in Nat
  BY <1>3, AddsType, Zenon
<1>5. ASSUME NEW T \in SUBSET S, NEW x \in T PROVE g[T] = f[x] + g[T \ {x}]
  BY <1>3, AnyFirst
<1> QED
  BY <1>1, <1>2, <1>4, <1>5

-----------------------------------------------------------------------------
(* What the virtual machines hold.                                         *)

Held(r) == SumFunctionOnSet(Needs(r), Running)

\* What a thread needs is a number of each resource.
LEMMA NeedType ==
  ASSUME NEW t \in Thread, NEW r \in Resource
  PROVE  Need(t)[r] \in Nat /\ Needs(r)[t] = Need(t)[r]
<1>1. t \in Nat /\ numJobs \in Nat \ {0}
  BY VmAssumption DEF Thread, numJobs
<1>2. t % numJobs \in 0..(numJobs - 1)
  BY <1>1
<1>3. (t % numJobs) + 1 \in 1..numJobs
  BY <1>1, <1>2
<1>4. Need(t) \in [Resource -> Nat]
  BY <1>3, VmAssumption DEF Need, numJobs
<1> QED
  BY <1>4 DEF Needs

\* What the running VMs hold is a number; a VM more or less makes the
\* difference of what it needs.
LEMMA HeldType ==
  ASSUME NEW r \in Resource
  PROVE  /\ \A R \in SUBSET Thread : SumFunctionOnSet(Needs(r), R) \in Nat
         /\ SumFunctionOnSet(Needs(r), {}) = 0
         /\ \A R \in SUBSET Thread : \A t \in R :
              SumFunctionOnSet(Needs(r), R)
                = Need(t)[r] + SumFunctionOnSet(Needs(r), R \ {t})
<1>1. IsFiniteSet(Thread)
  <2>1. NUM_THREADS - 1 \in Int
    BY VmAssumption
  <2> QED
    BY <2>1, FS_Interval DEF Thread
<1>2. \A t \in Thread : Needs(r)[t] \in Nat /\ Needs(r)[t] = Need(t)[r]
  BY NeedType
<1>3. /\ SumFunctionOnSet(Needs(r), {}) = 0
      /\ \A R \in SUBSET Thread : SumFunctionOnSet(Needs(r), R) \in Nat
      /\ \A R \in SUBSET Thread : \A t \in R :
           SumFunctionOnSet(Needs(r), R)
             = Needs(r)[t] + SumFunctionOnSet(Needs(r), R \ {t})
  <2>1. \A t \in Thread : Needs(r)[t] \in Nat
    BY <1>2
  <2> HIDE DEF Needs
  <2> QED
    BY <1>1, <2>1, Sums
<1> QED
  BY <1>2, <1>3

\* A VM begins to run;
LEMMA Takes ==
  ASSUME PlaceInv, NEW t \in Thread, tpc[t] # "running", Take(t),
         tpc' = [tpc EXCEPT ![t] = "running"]
  PROVE  /\ \A r \in Resource : Held(r) \in Nat /\ Need(t)[r] \in Nat
         /\ \A r \in Resource : sems'[r] = sems[r] - Need(t)[r]
                                /\ Held(r)' = Held(r) + Need(t)[r]
<1>1. Running \in SUBSET Thread /\ Running' \in SUBSET Thread /\ t \in Running'
      /\ Running' \ {t} = Running
  BY DEF Running, PlaceInv
<1>2. ASSUME NEW r \in Resource
      PROVE Held(r) \in Nat /\ Need(t)[r] \in Nat /\ Held(r)' = Held(r) + Need(t)[r]
  <2>1. Held(r)' = SumFunctionOnSet(Needs(r), Running')
    BY DEF Held, Needs, Need
  <2>2. SumFunctionOnSet(Needs(r), Running') = Need(t)[r] + Held(r) /\ Held(r) \in Nat
    BY <1>1, HeldType DEF Held
  <2> QED
    BY <2>1, <2>2, NeedType
<1> QED
  BY <1>2 DEF Take, PlaceInv

\* and has run.
LEMMA Returns ==
  ASSUME PlaceInv, NEW t \in Thread, tpc[t] = "running", tpc' = [tpc EXCEPT ![t] = "done"]
  PROVE  \A r \in Resource : /\ Held(r)' \in Nat /\ Need(t)[r] \in Nat
                             /\ Held(r) = Held(r)' + Need(t)[r]
<1>1. Running \in SUBSET Thread /\ Running' \in SUBSET Thread /\ t \in Running
      /\ Running \ {t} = Running'
  BY DEF Running, PlaceInv
<1>2. ASSUME NEW r \in Resource
      PROVE Held(r)' \in Nat /\ Need(t)[r] \in Nat /\ Held(r) = Held(r)' + Need(t)[r]
  <2>1. Held(r)' = SumFunctionOnSet(Needs(r), Running')
    BY DEF Held, Needs, Need
  <2>2. Held(r) = Need(t)[r] + SumFunctionOnSet(Needs(r), Running')
        /\ SumFunctionOnSet(Needs(r), Running') \in Nat
    BY <1>1, HeldType DEF Held
  <2> QED
    BY <2>1, <2>2, NeedType
<1> QED
  BY <1>2

\* Nobody begins or ends.
LEMMA HeldSame ==
  ASSUME Running' = Running
  PROVE  \A r \in Resource : Held(r)' = Held(r) /\ (Running \in SUBSET Thread => Held(r) \in Nat)
<1>1. \A r \in Resource : Held(r)' = SumFunctionOnSet(Needs(r), Running')
  BY DEF Held, Needs, Need
<1> QED
  BY <1>1, HeldType DEF Held
-----------------------------------------------------------------------------
(* The invariant.                                                          *)

\* Nothing is there yet.
LEMMA PoolInvInit == PoolInit => PoolInv
<1> SUFFICES ASSUME PoolInit PROVE PoolInv
  OBVIOUS
<1>1. NUM_THREADS \in Nat /\ \A r \in Resource : Total[r] \in Nat
  BY VmAssumption
<1>2. PlaceInv
  <2>1. sems \in [Resource -> Int] /\ tpc \in [Thread -> ThreadPC]
    BY DEF PoolInit, ThreadPC
  <2>2. main = "semget" /\ ~exists /\ exists \in BOOLEAN
    BY DEF PoolInit
  <2>3. count \in 0..NUM_THREADS
    BY <1>1 DEF PoolInit
  <2> QED
    BY <2>1, <2>2, <2>3 DEF PlaceInv
<1>3. StartInv
  BY <1>1 DEF PoolInit, StartInv, Thread
<1>4. HeldInv
  <2>1. Running = {}
    BY DEF PoolInit, Running
  <2>2. \A r \in Resource : Held(r) = 0
    BY <2>1, HeldType DEF Held
  <2> QED
    BY <1>1, <2>2 DEF PoolInit, HeldInv, Held
<1>5. EndInv
  BY <1>1 DEF PoolInit, EndInv
<1> QED
  BY <1>2, <1>3, <1>4, <1>5 DEF PoolInv

\* Every step keeps the types.
LEMMA PoolStep == PoolInv /\ [PoolNext]_poolVars => PlaceInv'
<1> SUFFICES ASSUME PoolInv, [PoolNext]_poolVars PROVE PlaceInv'
  OBVIOUS
<1>0. PlaceInv /\ NUM_THREADS \in Nat /\ NUM_SEMS_IN_GROUP \in Nat
      /\ \A r \in Resource : Total[r] \in Nat
  BY VmAssumption DEF PoolInv
<1>1. CASE Semget \/ Cleanup
  BY <1>0, <1>1 DEF Semget, Cleanup, PlaceInv
<1>2. CASE Setval
  BY <1>0, <1>2 DEF Setval, PlaceInv
<1>3. CASE Spawn
  BY <1>0, <1>3 DEF Spawn, PlaceInv, ThreadPC
<1>4. CASE EndSpawn \/ Join
  BY <1>0, <1>4 DEF EndSpawn, Join, PlaceInv
<1>5. CASE Return
  BY <1>0, <1>5 DEF Return, PlaceInv, ThreadPC
<1>6. ASSUME NEW t \in Thread, ThreadStep(t) PROVE PlaceInv'
  <2>1. \A r \in Resource : Need(t)[r] \in Nat
    BY NeedType
  <2>2. sems' \in [Resource -> Int]
    BY <1>0, <1>6, <2>1 DEF ThreadStep, Reserve, Wake, ReserveFails, Release, Take, PlaceInv
  <2> QED
    BY <1>0, <1>6, <2>2 DEF ThreadStep, Reserve, Wake, ReserveFails, Release, PlaceInv, ThreadPC
<1>7. CASE UNCHANGED poolVars
  BY <1>0, <1>7 DEF poolVars, PlaceInv
<1> QED
  BY <1>1, <1>2, <1>3, <1>4, <1>5, <1>6, <1>7 DEF PoolNext, MainStep

\* Threads start in order.
LEMMA StartStep == PoolInv /\ [PoolNext]_poolVars => StartInv'
<1> SUFFICES ASSUME PoolInv, [PoolNext]_poolVars PROVE StartInv'
  OBVIOUS
<1>0. PlaceInv /\ StartInv /\ NUM_THREADS \in Nat
  BY VmAssumption DEF PoolInv
<1> USE DEF PlaceInv, StartInv
<1>1. CASE Semget \/ Setval \/ EndSpawn \/ Join \/ Cleanup
  BY <1>0, <1>1 DEF Semget, Setval, EndSpawn, Join, Cleanup
<1>2. CASE Spawn
  BY <1>0, <1>2 DEF Spawn, Thread
<1>3. CASE Return
  BY <1>0, <1>3 DEF Return
<1>4. ASSUME NEW t \in Thread, ThreadStep(t) PROVE StartInv'
  <2>1. /\ UNCHANGED <<main, count>> /\ tpc[t] # "unborn"
        /\ \E l \in {"running", "waiting", "failed", "done"} : tpc' = [tpc EXCEPT ![t] = l]
    BY <1>4 DEF ThreadStep, Reserve, Wake, ReserveFails, Release
  <2> QED
    BY <1>0, <2>1
<1>5. CASE UNCHANGED poolVars
  BY <1>0, <1>5 DEF poolVars
<1> QED
  BY <1>1, <1>2, <1>3, <1>4, <1>5 DEF PoolNext, MainStep

\* Nobody fails, unless a thread could not be started.
LEMMA EndStep == PoolInv /\ [PoolNext]_poolVars => EndInv'
<1> SUFFICES ASSUME PoolInv, [PoolNext]_poolVars PROVE EndInv'
  OBVIOUS
<1>0. PlaceInv /\ StartInv /\ EndInv /\ NUM_THREADS \in Nat
  BY VmAssumption DEF PoolInv
<1> USE DEF PlaceInv, StartInv, EndInv
<1>1. CASE Semget \/ Setval
  <2>1. tpc' = tpc /\ count' = count /\ count = 0 /\ main \in {"semget", "setval"}
    BY <1>0, <1>1 DEF Semget, Setval
  <2>2. \A t \in Thread : tpc'[t] = "unborn"
    BY <1>0, <2>1 DEF Thread
  <2>3. \A t \in Thread : count' # NUM_THREADS
    BY <1>0, <2>1 DEF Thread
  <2> QED
    BY <2>2, <2>3
<1>2. CASE Spawn
  <2>1. exists /\ exists' /\ main' \in {"spawn", "cleanup"}
        /\ (count' = NUM_THREADS => main' = "spawn")
    BY <1>0, <1>2 DEF Spawn
  <2>2. tpc' = tpc \/ tpc' = [tpc EXCEPT ![count] = "reserve"]
    BY <1>2 DEF Spawn
  <2> QED
    BY <1>0, <2>1, <2>2
<1>3. CASE EndSpawn \/ Join \/ Cleanup
  BY <1>0, <1>3 DEF EndSpawn, Join, Cleanup
<1>4. CASE Return
  BY <1>0, <1>4 DEF Return
<1>5. ASSUME NEW t \in Thread, ThreadStep(t) PROVE EndInv'
  <2>1. /\ UNCHANGED <<main, count, exists>> /\ tpc[t] \in {"reserve", "waiting", "running"}
        /\ \E l \in {"running", "waiting", "done", "failed"} :
             (l = "failed" => ~exists) /\ tpc' = [tpc EXCEPT ![t] = l]
    BY <1>5 DEF ThreadStep, Reserve, Wake, ReserveFails, Release
  <2>2. count = 0 => count # NUM_THREADS
    BY <1>0 DEF Thread
  <2>3. count = NUM_THREADS => main \notin {"semget", "cleanup", "return", "exited"}
    BY <1>0, <2>1, <2>2
  <2>4. count = NUM_THREADS => exists
    BY <1>0, <2>3
  <2> QED
    BY <1>0, <2>1, <2>3, <2>4
<1>6. CASE UNCHANGED poolVars
  BY <1>0, <1>6 DEF poolVars
<1> QED
  BY <1>1, <1>2, <1>3, <1>4, <1>5, <1>6 DEF PoolNext, MainStep

\* Every step keeps what is available and what is held.
LEMMA HeldStep == PoolInv /\ [PoolNext]_poolVars => HeldInv'
<1> SUFFICES ASSUME PoolInv, [PoolNext]_poolVars PROVE HeldInv'
  OBVIOUS
<1>0. PlaceInv /\ StartInv /\ \A r \in Resource : Total[r] \in Nat
  BY VmAssumption DEF PoolInv
<1>1. \A r \in Resource :
        /\ sems[r] \in 0..Total[r] /\ Held(r) <= Total[r]
        /\ exists => sems[r] + Held(r) <= Total[r]
        /\ main \in {"spawn", "join"} => sems[r] + Held(r) = Total[r]
  BY DEF PoolInv, HeldInv, Held
<1> SUFFICES ASSUME NEW r \in Resource
             PROVE  /\ sems'[r] \in 0..Total[r] /\ Held(r)' <= Total[r]
                    /\ exists' => sems'[r] + Held(r)' <= Total[r]
                    /\ main' \in {"spawn", "join"} => sems'[r] + Held(r)' = Total[r]
  BY DEF HeldInv, Held, Needs, Need
<1>2. CASE UNCHANGED <<main, exists, sems>> /\ Running' = Running
  BY <1>1, <1>2, HeldSame
<1>3. CASE Semget \/ Setval
  <2>1. Running = {} /\ Running' = {} /\ Held(r) = 0 /\ Held(r)' = 0
    <3>0. tpc' = tpc /\ count = 0
      BY <1>0, <1>3 DEF Semget, Setval, StartInv
    <3>1. \A t \in Thread : tpc[t] = "unborn" /\ tpc'[t] = tpc[t]
      BY <1>0, <3>0 DEF StartInv, Thread
    <3>2. Running = {} /\ Running' = {}
      BY <3>1 DEF Running
    <3> QED
      BY <3>2, HeldType, HeldSame DEF Held
  <2>2. CASE Semget
    BY <1>0, <1>1, <2>1, <2>2 DEF Semget, PlaceInv
  <2>3. CASE Setval
    <3>1. PICK k \in 0..NUM_SEMS_IN_GROUP :
            /\ sems' = [q \in Resource |-> IF q < k THEN Total[q] ELSE 0]
            /\ main' = IF k = NUM_SEMS_IN_GROUP THEN "spawn" ELSE "cleanup"
      BY <2>3 DEF Setval
    <3>2. sems'[r] = IF r < k THEN Total[r] ELSE 0
      BY <3>1
    <3>3. k = NUM_SEMS_IN_GROUP => r < k
      BY VmAssumption DEF Resource
    <3> QED
      BY <1>0, <2>1, <3>1, <3>2, <3>3
  <2> QED
    BY <1>3, <2>2, <2>3
<1>4. CASE Spawn \/ EndSpawn \/ Join \/ Cleanup
  <2>1. Running' = Running
    BY <1>0, <1>4 DEF Spawn, EndSpawn, Join, Cleanup, Running, StartInv, PlaceInv
  <2>2. /\ UNCHANGED sems /\ (exists' => exists)
        /\ main' \in {"spawn", "join"} => main \in {"spawn", "join"}
    BY <1>0, <1>4 DEF Spawn, EndSpawn, Join, Cleanup
  <2> QED
    BY <1>1, <2>1, <2>2, HeldSame
<1>5. CASE Return
  <2>1. \A t \in Thread : tpc'[t] # "running"
    BY <1>0, <1>5 DEF Return, PlaceInv
  <2>2. Held(r)' = SumFunctionOnSet(Needs(r), {})
    BY <2>1 DEF Held, Needs, Need, Running
  <2>3. Held(r)' = 0
    BY <2>2, HeldType
  <2> QED
    BY <1>0, <1>1, <1>5, <2>3 DEF Return, PlaceInv
<1>6. ASSUME NEW t \in Thread, Reserve(t) \/ Wake(t),
             Take(t), tpc' = [tpc EXCEPT ![t] = "running"], Fits(t)
      PROVE  sems'[r] \in 0..Total[r] /\ sems'[r] + Held(r)' = sems[r] + Held(r)
             /\ Held(r)' <= Total[r] /\ UNCHANGED <<main, exists>>
  <2>1. UNCHANGED <<main, exists>> /\ exists /\ tpc[t] # "running"
    BY <1>6 DEF Reserve, Wake
  <2>2. Held(r) \in Nat /\ Need(t)[r] \in Nat /\ sems'[r] = sems[r] - Need(t)[r]
        /\ Held(r)' = Held(r) + Need(t)[r]
    BY <1>0, <1>6, <2>1, Takes
  <2>3. Need(t)[r] <= sems[r]
    BY <1>6 DEF Fits
  <2> QED
    BY <1>0, <1>1, <2>1, <2>2, <2>3
<1>7. ASSUME NEW t \in Thread, Release(t)
      PROVE  /\ UNCHANGED <<main, exists>>
             /\ sems'[r] \in 0..Total[r] /\ Held(r)' <= Total[r]
             /\ exists => sems'[r] + Held(r)' = sems[r] + Held(r)
  <2>1. UNCHANGED <<main, exists>> /\ tpc[t] = "running" /\ tpc' = [tpc EXCEPT ![t] = "done"]
    BY <1>7 DEF Release
  <2>2. Held(r)' \in Nat /\ Need(t)[r] \in Nat /\ Held(r) = Held(r)' + Need(t)[r]
    BY <1>0, <2>1, Returns
  <2>3. sems'[r] = IF exists THEN sems[r] + Need(t)[r] ELSE sems[r]
    BY <1>0, <1>7 DEF Release, PlaceInv
  <2> QED
    BY <1>0, <1>1, <2>1, <2>2, <2>3
<1>8. ASSUME NEW t \in Thread, ThreadStep(t)
      PROVE  \/ UNCHANGED <<main, exists, sems>> /\ Running' = Running
             \/ /\ Reserve(t) \/ Wake(t)
                /\ Take(t) /\ tpc' = [tpc EXCEPT ![t] = "running"] /\ Fits(t)
             \/ Release(t)
  BY <1>0, <1>8 DEF ThreadStep, Reserve, Wake, ReserveFails, Running, PlaceInv
<1>9. CASE UNCHANGED poolVars
  BY <1>2, <1>9 DEF poolVars, Running
<1>10. ASSUME NEW t \in Thread, ThreadStep(t)
       PROVE  /\ sems'[r] \in 0..Total[r] /\ Held(r)' <= Total[r]
              /\ exists' => sems'[r] + Held(r)' <= Total[r]
              /\ main' \in {"spawn", "join"} => sems'[r] + Held(r)' = Total[r]
  <2>1. main \in {"spawn", "join"} => exists
    BY <1>0 DEF PlaceInv
  <2> QED
    BY <1>1, <1>2, <1>6, <1>7, <1>8, <1>10, <2>1
<1> QED
  BY <1>3, <1>4, <1>5, <1>9, <1>10 DEF PoolNext, MainStep

\* The invariant holds for every number of threads and kinds of resource.
THEOREM PoolInvariance == PoolSpec => []PoolInv
<1>1. PoolInit => PoolInv
  BY PoolInvInit
<1>2. PoolInv /\ [PoolNext]_poolVars => PoolInv'
  BY PoolStep, StartStep, HeldStep, EndStep DEF PoolInv
<1> QED
  BY <1>1, <1>2, PTL DEF PoolSpec

\* Type correctness: no semaphore is ever negative or above its total.
THEOREM PoolTypeCorrect == PoolSpec => []PoolTypeOK
<1>1. PoolInv => PoolTypeOK
  BY DEF PoolInv, PlaceInv, HeldInv, PoolTypeOK
<1> QED
  BY <1>1, PoolInvariance, PTL

\* The running VMs never use more than there is, and all resources are
\* accounted for until main() cleans up (vm.c, head comment), whatever the
\* requests are, however the threads are scheduled and whatever fails.
THEOREM ConservationAlways == PoolSpec => []Conservation
<1>1. PoolInv => Conservation
  BY DEF PoolInv, HeldInv, Conservation
<1> QED
  BY <1>1, PoolInvariance, PTL

\* The group outlives every use of it, unless a thread could not be started
\* (vm.c, join before cleanup).
THEOREM GroupOutlives == PoolSpec => []GroupOutlivesThreads
<1>1. PoolInv => GroupOutlivesThreads
  <2> SUFFICES ASSUME PoolInv, count = NUM_THREADS, NEW t \in Thread
               PROVE  tpc[t] \notin {"failed", "gone"} /\ (~exists => tpc[t] = "done")
    BY DEF GroupOutlivesThreads
  <2>1. NUM_THREADS # 0
    BY VmAssumption DEF Thread
  <2>2. ~exists => main \in {"return", "exited"}
    BY <2>1 DEF PoolInv, PlaceInv, StartInv
  <2> QED
    BY <2>2 DEF PoolInv, EndInv
<1> QED
  BY <1>1, PoolInvariance, PTL
=============================================================================
