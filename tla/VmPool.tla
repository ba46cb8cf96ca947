------------------------------- MODULE VmPool -------------------------------
(***************************************************************************)
(* Virtual machines that reserve several resources at once (HW5).  main()  *)
(* makes one System V semaphore per resource, starts a thread per request  *)
(* and joins them; a thread reserves everything it needs in one semop(),   *)
(* runs, and releases it in one semop().                                   *)
(*                                                                         *)
(* semop() is external: an operation that fits is carried out at once, one *)
(* that does not waits, and a waiting one is carried out at some moment at *)
(* which it fits.  A step may take any time: the length of a delay, which  *)
(* fractSleep() keeps in one static timespec that the threads write over   *)
(* each other's, may be any, and the properties hold for all of them.      *)
(***************************************************************************)
EXTENDS Integers, Sequences, FiniteSets, Functions

CONSTANTS
  NUM_THREADS,         \* how many requests main() starts
  NUM_SEMS_IN_GROUP,   \* how many kinds of resource there are
  Total,               \* NUM_CORE, NUM_RAM, NUM_DISK
  jobTable             \* what the VM of each table entry needs: more than zero,
                       \* for which semop() would wait

Thread   == 0..(NUM_THREADS - 1)
Resource == 0..(NUM_SEMS_IN_GROUP - 1)
numJobs  == Len(jobTable)

ASSUME VmAssumption ==
  /\ NUM_THREADS \in Nat /\ NUM_SEMS_IN_GROUP \in Nat
  /\ Total \in [Resource -> Nat]
  /\ jobTable \in Seq([Resource -> Nat \ {0}]) /\ numJobs > 0
  /\ \A j \in 1..numJobs, r \in Resource : jobTable[j][r] <= Total[r]

VARIABLES
  main,      \* where main() is
  count,     \* how many threads it has started
  exists,    \* the semaphore group exists
  sems,       \* its values: what is available
  tpc         \* where each thread is

poolVars == <<main, count, exists, sems, tpc>>

ThreadPC == {"unborn", "reserve", "waiting", "running", "done", "failed", "gone"}

PoolTypeOK ==
  /\ main \in {"semget", "setval", "spawn", "join", "cleanup", "return", "exited"}
  /\ count \in 0..NUM_THREADS
  /\ exists \in BOOLEAN
  /\ sems \in [Resource -> Int] /\ \A r \in Resource : sems[r] \in 0..Total[r]
  /\ tpc \in [Thread -> ThreadPC]

PoolInit ==
  /\ main = "semget" /\ count = 0
  /\ exists = FALSE
  /\ sems = [r \in Resource |-> 0]
  /\ tpc = [t \in Thread |-> "unborn"]

\* The request of a thread: the argument of threadMain is count % numJobs.
Need(t) == jobTable[(t % numJobs) + 1]
-----------------------------------------------------------------------------
(* main()                                                                  *)

\* The group is new and its values are zero; semget() may fail.
Semget ==
  /\ main = "semget"
  /\ \/ exists' = TRUE /\ main' = "setval"
     \/ exists' = FALSE /\ main' = "exited"
  /\ UNCHANGED <<count, sems, tpc>>

\* One SETVAL after the other; the first that fails leads to cleanup.
Setval ==
  /\ main = "setval"
  /\ \E k \in 0..NUM_SEMS_IN_GROUP :
       /\ sems' = [r \in Resource |-> IF r < k THEN Total[r] ELSE 0]
       /\ main' = IF k = NUM_SEMS_IN_GROUP THEN "spawn" ELSE "cleanup"
  /\ UNCHANGED <<count, exists, tpc>>

Spawn ==
  /\ main = "spawn" /\ count < NUM_THREADS
  /\ \/ /\ tpc' = [tpc EXCEPT ![count] = "reserve"]
        /\ count' = count + 1
        /\ UNCHANGED main
     \/ /\ main' = "cleanup"       \* pthread_create() fails
        /\ UNCHANGED <<tpc, count>>
  /\ UNCHANGED <<exists, sems>>

EndSpawn ==
  /\ main = "spawn" /\ count = NUM_THREADS
  /\ main' = "join"
  /\ UNCHANGED <<count, exists, sems, tpc>>

\* Mutant: the last thread is not joined.
JoinAllButOne ==
  /\ main = "join"
  /\ \A t \in Thread : t < NUM_THREADS - 1 => tpc[t] \in {"done", "failed"}
  /\ main' = "cleanup"
  /\ UNCHANGED <<count, exists, sems, tpc>>

Join ==
  /\ main = "join"
  /\ \A t \in Thread : tpc[t] \in {"done", "failed"}
  /\ main' = "cleanup"
  /\ UNCHANGED <<count, exists, sems, tpc>>

\* IPC_RMID
Cleanup ==
  /\ main = "cleanup"
  /\ exists' = FALSE
  /\ main' = "return"
  /\ UNCHANGED <<count, sems, tpc>>

\* main() returns and takes the remaining threads with it.
Return ==
  /\ main = "return"
  /\ main' = "exited"
  /\ tpc' = [t \in Thread |-> IF tpc[t] \in {"reserve", "waiting", "running"}
                               THEN "gone" ELSE tpc[t]]
  /\ UNCHANGED <<count, exists, sems>>
-----------------------------------------------------------------------------
(* threadMain()                                                            *)

Fits(t) == \A r \in Resource : Need(t)[r] <= sems[r]

Take(t) == sems' = [r \in Resource |-> sems[r] - Need(t)[r]]

\* Mutant: it is enough that the first resource fits.
ReserveFirstOnly(t) ==
  /\ tpc[t] = "reserve" /\ exists
  /\ IF Need(t)[0] <= sems[0]
       THEN /\ Take(t)
            /\ tpc' = [tpc EXCEPT ![t] = "running"]
       ELSE /\ tpc' = [tpc EXCEPT ![t] = "waiting"]
            /\ UNCHANGED sems
  /\ UNCHANGED <<main, count, exists>>

\* semop() with all three decrements: all of them or none.
Reserve(t) ==
  /\ tpc[t] = "reserve" /\ exists
  /\ IF Fits(t)
       THEN /\ Take(t)
            /\ tpc' = [tpc EXCEPT ![t] = "running"]
       ELSE /\ tpc' = [tpc EXCEPT ![t] = "waiting"]
            /\ UNCHANGED sems
  /\ UNCHANGED <<main, count, exists>>

\* The kernel carries out a waiting operation.
Wake(t) ==
  /\ tpc[t] = "waiting" /\ exists
  /\ Fits(t)
  /\ Take(t)
  /\ tpc' = [tpc EXCEPT ![t] = "running"]
  /\ UNCHANGED <<main, count, exists>>

\* Mutant: nobody looks whether reserve() has failed.
ReserveUnchecked(t) ==
  /\ tpc[t] \in {"reserve", "waiting"} /\ ~exists
  /\ tpc' = [tpc EXCEPT ![t] = "running"]
  /\ UNCHANGED <<main, count, exists, sems>>

\* reserve() on a group that has been removed fails, asleep (EIDRM) or not
\* (EINVAL): threadMain returns without having run its VM.
ReserveFails(t) ==
  /\ tpc[t] \in {"reserve", "waiting"} /\ ~exists
  /\ tpc' = [tpc EXCEPT ![t] = "failed"]
  /\ UNCHANGED <<main, count, exists, sems>>

\* Mutant: release gives back one resource less.
ReleaseWithoutDisk(t) ==
  /\ tpc[t] = "running"
  /\ sems' = IF exists THEN [r \in Resource |-> IF r = NUM_SEMS_IN_GROUP - 1
                                     THEN sems[r] ELSE sems[r] + Need(t)[r]]
             ELSE sems
  /\ tpc' = [tpc EXCEPT ![t] = "done"]
  /\ UNCHANGED <<main, count, exists>>

\* release(): it fails and changes nothing when the group is gone.
Release(t) ==
  /\ tpc[t] = "running"
  /\ sems' = IF exists THEN [r \in Resource |-> sems[r] + Need(t)[r]] ELSE sems
  /\ tpc' = [tpc EXCEPT ![t] = "done"]
  /\ UNCHANGED <<main, count, exists>>
-----------------------------------------------------------------------------
MainStep == Semget \/ Setval \/ Spawn \/ EndSpawn \/ Join \/ Cleanup \/ Return

ThreadStep(t) == Reserve(t) \/ Wake(t) \/ ReserveFails(t) \/ Release(t)

PoolNext == MainStep \/ \E t \in Thread : ThreadStep(t)

\* Threads are scheduled, and an operation that goes on fitting is carried
\* out.
PoolFairness == WF_poolVars(MainStep) /\ \A t \in Thread : WF_poolVars(ThreadStep(t))

PoolSpec     == PoolInit /\ [][PoolNext]_poolVars
PoolFairSpec == PoolSpec /\ PoolFairness
-----------------------------------------------------------------------------
(* Properties.                                                             *)

Running == {t \in Thread : tpc[t] = "running"}

\* How much of a resource each thread needs.
Needs(r) == [t \in Thread |-> Need(t)[r]]

\* The VMs that run use no more than there is, in every way the program can
\* go: those that wait do not run because the group has been removed under
\* them, as main() does when it cannot start another thread.  Until main()
\* cleans up, what is available and what they use add up to the whole (vm.c,
\* head comment; threadMain, the return after reserve).
Conservation ==
  \A r \in Resource :
    /\ SumFunctionOnSet(Needs(r), Running) <= Total[r]
    /\ main \in {"spawn", "join"} =>
         sems[r] + SumFunctionOnSet(Needs(r), Running) = Total[r]

\* Unless a thread could not be started, the group outlives every use of
\* it: no reserve() fails and no VM is cut off (vm.c, join before cleanup).
GroupOutlivesThreads ==
  count = NUM_THREADS =>
    \A t \in Thread : /\ tpc[t] \notin {"failed", "gone"}
                      /\ ~exists => tpc[t] = "done"

\* The program ends and leaves no semaphore behind, whatever fails; it can
\* end only if every VM that has a thread runs, the large ones that smaller
\* ones overtake included: no reservation is partial, so nobody waits for
\* a resource while holding another (vm.c, the single semop; cleanup).
Termination == <>(main = "exited" /\ ~exists)
-----------------------------------------------------------------------------
(* Inductive invariant.                                                    *)

\* The types, but for what is available; the group is there from semget() to
\* cleanup.
PlaceInv ==
  /\ main \in {"semget", "setval", "spawn", "join", "cleanup", "return", "exited"}
  /\ count \in 0..NUM_THREADS
  /\ exists \in BOOLEAN /\ (exists <=> main \in {"setval", "spawn", "join", "cleanup"})
  /\ sems \in [Resource -> Int]
  /\ tpc \in [Thread -> ThreadPC]

\* A thread has started when main() has got past it, and main() joins when
\* all have.
StartInv ==
  /\ \A t \in Thread : tpc[t] = "unborn" <=> t >= count
  /\ main \in {"semget", "setval"} => count = 0
  /\ main = "join" => count = NUM_THREADS

\* Nobody has more than there is, while the group is there beside what is
\* available, and nothing is lost while main() has not failed.
HeldInv ==
  \A r \in Resource :
    /\ sems[r] \in 0..Total[r]
    /\ SumFunctionOnSet(Needs(r), Running) <= Total[r]
    /\ exists => sems[r] + SumFunctionOnSet(Needs(r), Running) <= Total[r]
    /\ main \in {"spawn", "join"} => sems[r] + SumFunctionOnSet(Needs(r), Running) = Total[r]

\* None fails while the group is there, nor where all were started; those
\* were joined before the group was removed.
EndInv ==
  /\ exists \/ count = NUM_THREADS => \A t \in Thread : tpc[t] \notin {"failed", "gone"}
  /\ count = NUM_THREADS /\ main \in {"cleanup", "return", "exited"} =>
       \A t \in Thread : tpc[t] = "done"

PoolInv == PlaceInv /\ StartInv /\ HeldInv /\ EndInv
=============================================================================
