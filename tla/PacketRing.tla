------------------------------ MODULE PacketRing ------------------------------
(***************************************************************************)
(* Packets handed over through a ring of blocks in shared memory, without  *)
(* any synchronization (HW7, posix and systemv).  The producer overwrites  *)
(* the blocks in turn; the consumer polls them and counts the packets it   *)
(* gets to see, until it sees the last one.                                *)
(*                                                                         *)
(* Segments are numbered; the name (path or key) leads to one of them or   *)
(* to none, and processes keep the one they have mapped.  Of a packet only *)
(* its id is modelled, which is read and written at once: nobody looks at  *)
(* the arbitrary rest.                                                     *)
(***************************************************************************)
EXTENDS Integers, FiniteSets

CONSTANTS
  shmblocks,         \* the argument of both programs
  MAX_PACKET

ASSUME RingAssumption ==
  /\ shmblocks \in Nat \ {0} /\ MAX_PACKET \in Nat \ {0}

Slot == 0..(shmblocks - 1)
Id   == 0..(MAX_PACKET - 1)
Seg  == 1..2               \* each program creates at most one

VARIABLES
  name, created,     \* the segment the name leads to (0: none); how many were created
  mem,               \* the ids in the blocks of each segment
  ppc, pseg, next,   \* the producer: its place, its segment, the next id
  cpc, cseg,         \* the consumer: its place, its segment
  id, id_check,      \* its counter modulo shmblocks, and the id it saw last in each block
  num,               \* the number of packets it has counted
  seen               \* history: the packets it has counted

nameVars     == <<name, created>>
producerVars == <<ppc, pseg, next>>
consumerVars == <<cpc, cseg, id, id_check, num, seen>>
ringVars         == <<nameVars, mem, producerVars, consumerVars>>

RingTypeOK ==
  /\ name \in {0} \cup Seg /\ created \in 0..2
  /\ mem \in [Seg -> [Slot -> Id \cup {-1}]]
  /\ ppc \in {"open", "sleep", "write", "remove", "done"}
  /\ pseg \in {0} \cup Seg /\ next \in 0..MAX_PACKET
  /\ cpc \in {"open", "init", "poll", "report", "remove", "done", "failed", "undefined"}
  /\ cseg \in {0} \cup Seg
  /\ id \in Slot
  /\ id_check \in [Slot -> Id \cup {-1}]
  /\ num \in 0..MAX_PACKET /\ seen \in SUBSET Id

\* A new segment is filled with zeros.
RingInit ==
  /\ name = 0 /\ created = 0
  /\ mem = [s \in Seg |-> [b \in Slot |-> 0]]
  /\ ppc = "open" /\ pseg = 0 /\ next = 0
  /\ cpc = "open" /\ cseg = 0
  /\ id = 0 /\ id_check = [b \in Slot |-> -1]
  /\ num = 0 /\ seen = {}

\* The segment of the name, created if there is none.
OpenOrCreate ==
  IF name = 0 THEN name' = created + 1 /\ created' = created + 1
              ELSE UNCHANGED nameVars

Remove(s) == name' = IF name = s THEN 0 ELSE name
-----------------------------------------------------------------------------
(* The producer.                                                           *)

ProducerOpen ==
  /\ ppc = "open"
  /\ OpenOrCreate
  /\ pseg' = name'
  /\ ppc' = "sleep"
  /\ UNCHANGED <<mem, next, consumerVars>>

\* sleep(15) is over.
ProducerAwake ==
  /\ ppc = "sleep"
  /\ ppc' = "write"
  /\ UNCHANGED <<nameVars, mem, pseg, next, consumerVars>>

\* Mutant: the loop stops before the last packet.
ProducerWriteShort ==
  /\ ppc = "write"
  /\ mem' = [mem EXCEPT ![pseg][next % shmblocks] = next]
  /\ next' = next + 1
  /\ ppc' = IF next' = MAX_PACKET - 1 THEN "remove" ELSE "write"
  /\ UNCHANGED <<nameVars, pseg, consumerVars>>

ProducerWrite ==
  /\ ppc = "write"
  /\ mem' = [mem EXCEPT ![pseg][next % shmblocks] = next]
  /\ next' = next + 1
  /\ ppc' = IF next' = MAX_PACKET THEN "remove" ELSE "write"
  /\ UNCHANGED <<nameVars, pseg, consumerVars>>

ProducerRemove ==
  /\ ppc = "remove"
  /\ Remove(pseg)
  /\ ppc' = "done"
  /\ UNCHANGED <<created, mem, pseg, next, consumerVars>>
-----------------------------------------------------------------------------
(* The consumer.                                                           *)

\* With no segment yet, shm_open() without O_CREAT fails (posix), shmget()
\* with IPC_CREAT makes one (systemv).
ConsumerOpen ==
  /\ cpc = "open"
  /\ \/ /\ OpenOrCreate
        /\ cseg' = name'
        /\ cpc' = "init"
     \/ /\ name = 0
        /\ cpc' = "failed"
        /\ UNCHANGED <<nameVars, cseg>>
  /\ UNCHANGED <<mem, producerVars, id, id_check, num, seen>>

\* ++id
Inc(k) == (k + 1) % shmblocks

\* One block after the other is set to -1; the counter starts over.
ConsumerInit ==
  /\ cpc = "init"
  /\ mem' = [mem EXCEPT ![cseg][id] = -1]
  /\ id_check' = [id_check EXCEPT ![id] = -1]
  /\ id' = Inc(id)
  /\ cpc' = IF id' = 0 THEN "poll" ELSE "init"
  /\ UNCHANGED <<nameVars, producerVars, cseg, num, seen>>

\* Mutant: id_check is not brought up to date.
ConsumerPollNoCheck ==
  /\ cpc = "poll"
  /\ LET got == mem[cseg][id]
     IN  IF got # id_check[id]
           THEN /\ num' = num + 1 /\ seen' = seen \cup {got}
                /\ cpc' = IF got = MAX_PACKET - 1 THEN "report" ELSE "poll"
           ELSE UNCHANGED <<cpc, num, seen>>
  /\ id' = Inc(id)
  /\ UNCHANGED <<nameVars, mem, producerVars, cseg, id_check>>

\* Mutant: one id_check for all blocks.
ConsumerPollOneCheck ==
  /\ cpc = "poll"
  /\ LET got == mem[cseg][id]
     IN  IF got # id_check[0]
           THEN /\ id_check' = [id_check EXCEPT ![0] = got]
                /\ num' = num + 1 /\ seen' = seen \cup {got}
                /\ cpc' = IF got = MAX_PACKET - 1 THEN "report" ELSE "poll"
           ELSE UNCHANGED <<cpc, id_check, num, seen>>
  /\ id' = Inc(id)
  /\ UNCHANGED <<nameVars, mem, producerVars, cseg>>

\* One round of the polling loop.
ConsumerPoll ==
  /\ cpc = "poll"
  /\ LET got == mem[cseg][id]
     IN  IF got # id_check[id]
           THEN /\ id_check' = [id_check EXCEPT ![id] = got]
                /\ num' = num + 1 /\ seen' = seen \cup {got}
                /\ IF got = MAX_PACKET - 1
                     THEN cpc' = "report" /\ UNCHANGED id
                     ELSE id' = Inc(id) /\ UNCHANGED cpc
           ELSE id' = Inc(id) /\ UNCHANGED <<cpc, id_check, num, seen>>
  /\ UNCHANGED <<nameVars, mem, producerVars, cseg>>

\* The int counter overflows, after 2^31 rounds (any number here): what the
\* program does from then on is undefined.
ConsumerOverflow ==
  /\ cpc = "poll"
  /\ cpc' = "undefined"
  /\ UNCHANGED <<nameVars, mem, producerVars, cseg, id, id_check, num, seen>>

\* printf("Lost: ...")
ConsumerReport ==
  /\ cpc = "report"
  /\ cpc' = "remove"
  /\ UNCHANGED <<nameVars, mem, producerVars, cseg, id, id_check, num, seen>>

ConsumerRemove ==
  /\ cpc = "remove"
  /\ Remove(cseg)
  /\ cpc' = "done"
  /\ UNCHANGED <<created, mem, producerVars, cseg, id, id_check, num, seen>>
-----------------------------------------------------------------------------
ProducerStep == ProducerOpen \/ ProducerAwake \/ ProducerWrite \/ ProducerRemove
ConsumerStep == \/ ConsumerOpen \/ ConsumerInit \/ ConsumerPoll \/ ConsumerReport
                \/ ConsumerRemove

RingNext == ProducerStep \/ ConsumerStep \/ ConsumerOverflow

RingSpec == RingInit /\ [][RingNext]_ringVars

\* Both programs run on.
RingFairSpec == RingSpec /\ WF_ringVars(ProducerStep) /\ WF_ringVars(ConsumerStep)
-----------------------------------------------------------------------------
(* Properties.                                                             *)

\* No packet is counted twice and nothing but packets is counted, whenever
\* the two programs are started: what is left of MAX_PACKET at the end is
\* the number of packets the consumer has not seen (consumer.c, Lost).
CountedOnce == num = Cardinality(seen) /\ seen \subseteq 0..(next - 1)

\* Block by block the ids only rise: a block that the consumer has begun to
\* watch is never seen to go back (consumer.c, id_check).
NeverBack ==
  [][cpc = "poll" => \A b \in Slot : id_check'[b] >= id_check[b]]_ringVars

\* A consumer that is at its loop before the last packet is written sees
\* that packet, whatever it loses before, and reports (consumer.c, end of the
\* loop), unless its counter overflows first.
ReportsInTime ==
  cpc = "poll" /\ next < MAX_PACKET ~> cpc \in {"done", "undefined"}
-----------------------------------------------------------------------------
(* Inductive invariant.                                                    *)

\* The types, but for the range of num.
BlockInv ==
  /\ mem \in [Seg -> [Slot -> Id \cup {-1}]]
  /\ ppc \in {"open", "sleep", "write", "remove", "done"}
  /\ next \in 0..MAX_PACKET /\ (ppc = "write" => next < MAX_PACKET)
  /\ ppc \in {"open", "sleep"} => next = 0
  /\ cpc \in {"open", "init", "poll", "report", "remove", "done", "failed", "undefined"}
  /\ id \in Slot /\ id_check \in [Slot -> Id \cup {-1}]

\* Whoever has opened the name has a segment; there is one for each program.
SegInv ==
  /\ created \in 0..2 /\ name \in 0..created
  /\ ppc = "open" \/ cpc = "open" => created <= 1
  /\ ppc = "open" /\ cpc = "open" => created = 0
  /\ pseg \in {0} \cup Seg /\ (ppc # "open" => pseg \in Seg)
  /\ cseg \in {0} \cup Seg /\ (cpc \notin {"open", "failed"} => cseg \in Seg)

\* What the consumer finds in block b: its own -1, or a packet that has been
\* written, in its place.
Ready(b) ==
  LET v == mem[cseg][b]
  IN  v = -1 \/ (v \in 0..(next - 1) /\ v % shmblocks = b)

\* Up to id the blocks are ready while the consumer goes over them.
ReadyInv ==
  /\ cpc \in {"open", "init", "failed"} => \A b \in Slot : id_check[b] = -1
  /\ cpc = "open" => id = 0
  /\ cpc = "init" => \A b \in 0..(id - 1) : Ready(b)

\* Then all are, and none holds less than the consumer has seen in it.
WatchInv ==
  cpc \in {"poll", "report", "remove", "done", "undefined"} =>
    \A b \in Slot : Ready(b) /\ id_check[b] <= mem[cseg][b]

\* Of the packets that belong in a block none beyond id_check was counted.
SeenInv ==
  /\ IsFiniteSet(seen) /\ num = Cardinality(seen) /\ seen \subseteq 0..(next - 1)
  /\ \A v \in seen : v <= id_check[v % shmblocks]

RingInv == BlockInv /\ SegInv /\ ReadyInv /\ WatchInv /\ SeenInv
=============================================================================
