-------------------------- MODULE MsgqLookupProofs --------------------------
(***************************************************************************)
(* Proofs about MsgqLookup, for any number of clients, pids, questions and *)
(* any sizes of messages and queue.                                        *)
(*                                                                         *)
(* Inv is inductive: msg_cbytes counts what is in the queue (BytesInv),    *)
(* living processes have pids of their own (PidInv), and under a pid that  *)
(* is not stale there is one lookup at most, in one place, with a process  *)
(* that waits for it (PlaceInv) and for its word (WordInv).  What the      *)
(* server finds is left open in it; TypeCorrect and Implements suppose a   *)
(* file that was made of a text of the listed words (SourceIsText), where  *)
(* it finds the answers (Searches of DictFileProofs).                      *)
(***************************************************************************)
EXTENDS MsgqLookup, DictFileProofs

-----------------------------------------------------------------------------
(* Types.                                                                  *)

\* The queue is empty, nobody has started.
LEMMA QueueInit == Init => QueueInv
<1> SUFFICES ASSUME Init PROVE QueueInv
  OBVIOUS
<1>1. requests \in Seq(Request) /\ replies \in [Pid -> Seq(Found)]
  BY DEF Init
<1>2. /\ pc \in [Client -> {"off", "idle", "send", "receive", "gone"}]
      /\ \A c \in Client : pc[c] = "off"
  BY DEF Init
<1>3. word \in [Client -> Word \cup {Junk}] /\ pid \in [Client -> Pid \cup {Junk}]
  BY DEF Init
<1>4. spc = "receive" /\ rcv = NoRequest /\ stopped \in BOOLEAN /\ stale = {}
  BY DEF Init
<1>5. asks \in 0..MaxAsk
  BY MsgqAssumption DEF Init
<1> QED
  BY <1>1, <1>2, <1>3, <1>4, <1>5 DEF QueueInv

\* Every step keeps the types.
LEMMA QueueStep == QueueInv /\ PidInv /\ [Next]_vars => QueueInv'
<1> SUFFICES ASSUME QueueInv, PidInv, [Next]_vars PROVE QueueInv'
  OBVIOUS
<1> USE DEF QueueInv, Goto
<1>1. ASSUME NEW c \in Client, NEW p \in Pid, Start(c, p) PROVE QueueInv'
  BY <1>1 DEF Start, queueVars, serverVars
<1>2. ASSUME NEW c \in Client, NEW w \in Word, Ask(c, w) PROVE QueueInv'
  BY <1>2, MsgqAssumption DEF Ask, queueVars, serverVars
<1>3. ASSUME NEW c \in Client, Send(c) PROVE QueueInv'
  <2>1. [id |-> pid[c], word |-> word[c]] \in Request
    BY <1>3 DEF Send, PidInv, Request
  <2>2. requests' \in Seq(Request)
    BY <1>3, <2>1, Sent DEF Send
  <2> QED
    BY <1>3, <2>2 DEF Send, serverVars
<1>4. ASSUME NEW c \in Client, Receive(c) PROVE QueueInv'
  <2>1. pid[c] \in Pid /\ replies[pid[c]] \in Seq(Found) /\ replies[pid[c]] # <<>>
    BY <1>4 DEF Receive, PidInv
  <2>2. Tail(replies[pid[c]]) \in Seq(Found)
    BY <2>1, Received
  <2>3. replies' \in [Pid -> Seq(Found)]
    BY <1>4, <2>1, <2>2 DEF Receive
  <2> QED
    BY <1>4, <2>3 DEF Receive, serverVars
<1>5. ASSUME NEW c \in Client, Quit(c) \/ Kill(c) PROVE QueueInv'
  BY <1>5 DEF Quit, Kill, PidInv, queueVars, serverVars
<1>6. CASE ServerReceive
  <2>1. rcv' \in Request /\ requests' \in Seq(Request)
    BY <1>6, Received DEF ServerReceive
  <2> QED
    BY <1>6, <2>1 DEF ServerReceive, clientVars
<1>7. CASE ServerReply
  <2>1. rcv.id \in Pid /\ IndexFind(File, rcv.word) \in Found
    BY <1>7 DEF ServerReply, Request, Found
  <2>2. Append(replies[rcv.id], IndexFind(File, rcv.word)) \in Seq(Found)
    BY <2>1, Sent
  <2>3. replies' \in [Pid -> Seq(Found)]
    BY <1>7, <2>2 DEF ServerReply
  <2> QED
    BY <1>7, <2>3 DEF ServerReply, clientVars
<1>8. CASE ServerStop \/ ServerStart
  BY <1>8 DEF ServerStop, ServerStart, queueVars, clientVars
<1>9. CASE AtPrompt \/ UNCHANGED vars
  BY <1>9 DEF AtPrompt, vars, queueVars, clientVars, serverVars
<1> QED
  BY <1>1, <1>2, <1>3, <1>4, <1>5, <1>6, <1>7, <1>8, <1>9
     DEF Next, ClientStep, ServerStep
-----------------------------------------------------------------------------
(* The bytes in the queue.                                                 *)

\* A message in the queue is known by its pid and its place.
LEMMA HeldPairs ==
  /\ \A p \in Pid : \A k : <<p, k>> \in Held <=> k \in 1..Len(replies[p])
  /\ \A m \in Held : \E p \in Pid : \E k : m = <<p, k>>
  BY DEF Held

\* The same after a step.
LEMMA HeldPairsNext ==
  /\ \A p \in Pid : \A k : <<p, k>> \in Held' <=> k \in 1..Len(replies'[p])
  /\ \A m \in Held' : \E p \in Pid : \E k : m = <<p, k>>
  BY DEF Held

\* The queue is empty.
LEMMA BytesInit == Init => BytesInv
<1> SUFFICES ASSUME Init PROVE BytesInv
  OBVIOUS
<1>1. Held = {}
  <2>1. \A p \in Pid : replies[p] = <<>>
    BY DEF Init
  <2>2. \A p \in Pid : Len(replies[p]) = 0
    BY <2>1
  <2> QED
    BY <2>2, HeldPairs
<1>2. IsFiniteSet(Held) /\ Cardinality(Held) = 0
  BY <1>1, FS_EmptySet
<1> QED
  BY <1>2, MsgqAssumption DEF Init, BytesInv

\* A reply that is received leaves the last place of its pid free.
LEMMA ReceiveFrees ==
  ASSUME QueueInv, NEW p \in Pid, replies[p] # <<>>,
         replies' = [replies EXCEPT ![p] = Tail(@)]
  PROVE  /\ <<p, Len(replies[p])>> \in Held
         /\ Held' = Held \ {<<p, Len(replies[p])>>}
<1> DEFINE n == Len(replies[p])
<1>1. n \in Nat \ {0} /\ Len(replies'[p]) = n - 1
  BY Received DEF QueueInv
<1>2. \A q \in Pid : q # p => replies'[q] = replies[q]
  BY DEF QueueInv
<1>3. <<p, n>> \in Held
  BY <1>1, HeldPairs
<1>4. ASSUME NEW q \in Pid, NEW k
      PROVE  <<q, k>> \in Held' <=> <<q, k>> \in Held /\ <<q, k>> # <<p, n>>
  <2>1. CASE q = p
    BY <1>1, <2>1, HeldPairs, HeldPairsNext
  <2>2. CASE q # p
    BY <1>2, <2>2, HeldPairs, HeldPairsNext
  <2> QED
    BY <2>1, <2>2
<1> QED
  BY <1>3, <1>4, HeldPairs, HeldPairsNext

\* A reply that is sent takes the next.
LEMMA ReplyHolds ==
  ASSUME QueueInv, NEW p \in Pid, NEW m \in Found,
         replies' = [replies EXCEPT ![p] = Append(@, m)]
  PROVE  /\ <<p, Len(replies[p]) + 1>> \notin Held
         /\ Held' = Held \cup {<<p, Len(replies[p]) + 1>>}
<1> DEFINE n == Len(replies[p])
<1>1. n \in Nat /\ Len(replies'[p]) = n + 1
  BY Sent DEF QueueInv
<1>2. \A q \in Pid : q # p => replies'[q] = replies[q]
  BY DEF QueueInv
<1>3. <<p, n + 1>> \notin Held
  BY <1>1, HeldPairs
<1>4. ASSUME NEW q \in Pid, NEW k
      PROVE  <<q, k>> \in Held' <=> <<q, k>> \in Held \/ <<q, k>> = <<p, n + 1>>
  <2>1. CASE q = p
    BY <1>1, <2>1, HeldPairs, HeldPairsNext
  <2>2. CASE q # p
    BY <1>2, <2>2, HeldPairs, HeldPairsNext
  <2> QED
    BY <2>1, <2>2
<1> QED
  BY <1>3, <1>4, HeldPairs, HeldPairsNext

\* Every step keeps the count.
LEMMA BytesStep == QueueInv /\ PidInv /\ BytesInv /\ [Next]_vars => BytesInv'
<1> SUFFICES ASSUME QueueInv, PidInv, BytesInv, [Next]_vars PROVE BytesInv'
  OBVIOUS
<1>1. Cardinality(Held) \in Nat /\ Len(requests) \in Nat
      /\ ReqBytes \in Nat /\ RepBytes \in Nat /\ QBytes \in Nat
  <2>1. IsFiniteSet(Held) /\ requests \in Seq(Request)
    BY DEF BytesInv, QueueInv
  <2> QED
    BY <2>1, FS_CardinalityType, MsgqAssumption, LenProperties
<1>2. CASE UNCHANGED queueVars
  BY <1>2 DEF queueVars, BytesInv, Held
<1>3. ASSUME NEW c \in Client, Send(c) PROVE BytesInv'
  <2>1. [id |-> pid[c], word |-> word[c]] \in Request
    BY <1>3 DEF Send, PidInv, QueueInv, Request
  <2>2. Len(requests') = Len(requests) + 1
    BY <1>3, <2>1, Sent DEF Send, QueueInv
  <2>3. Held' = Held
    BY <1>3 DEF Send, Held
  <2>4. bytes' = bytes + ReqBytes /\ bytes' <= QBytes
    BY <1>3 DEF Send
  <2>5. ReqBytes * Len(requests') = ReqBytes * Len(requests) + ReqBytes
    BY <1>1, <2>2
  <2> QED
    BY <1>1, <2>3, <2>4, <2>5 DEF BytesInv
<1>4. ASSUME NEW c \in Client, Receive(c) PROVE BytesInv'
  <2>1. pid[c] \in Pid /\ replies[pid[c]] # <<>>
        /\ replies' = [replies EXCEPT ![pid[c]] = Tail(@)]
    BY <1>4 DEF Receive, PidInv
  <2>2. IsFiniteSet(Held') /\ Cardinality(Held') = Cardinality(Held) - 1
    <3>1. IsFiniteSet(Held)
      BY DEF BytesInv
    <3>2. /\ <<pid[c], Len(replies[pid[c]])>> \in Held
          /\ Held' = Held \ {<<pid[c], Len(replies[pid[c]])>>}
      BY <2>1, ReceiveFrees
    <3> QED
      BY <3>1, <3>2, FS_RemoveElement
  <2>3. bytes' = bytes - RepBytes /\ requests' = requests
    BY <1>4 DEF Receive
  <2>4. RepBytes * Cardinality(Held') = RepBytes * Cardinality(Held) - RepBytes
    BY <1>1, <2>2
  <2> QED
    BY <1>1, <2>2, <2>3, <2>4 DEF BytesInv
<1>5. CASE ServerReceive
  <2>1. Len(requests') = Len(requests) - 1
    BY <1>5, Received DEF ServerReceive, QueueInv
  <2>2. Held' = Held
    BY <1>5 DEF ServerReceive, Held
  <2>3. bytes' = bytes - ReqBytes
    BY <1>5 DEF ServerReceive
  <2>4. ReqBytes * Len(requests') = ReqBytes * Len(requests) - ReqBytes
    BY <1>1, <2>1
  <2> QED
    BY <1>1, <2>2, <2>3, <2>4 DEF BytesInv
<1>6. CASE ServerReply
  <2>1. rcv.id \in Pid /\ IndexFind(File, rcv.word) \in Found
    BY <1>6 DEF ServerReply, Request, Found, QueueInv
  <2>2. replies' = [replies EXCEPT ![rcv.id] = Append(@, IndexFind(File, rcv.word))]
    BY <1>6 DEF ServerReply
  <2>3. IsFiniteSet(Held') /\ Cardinality(Held') = Cardinality(Held) + 1
    <3>1. IsFiniteSet(Held)
      BY DEF BytesInv
    <3>2. /\ <<rcv.id, Len(replies[rcv.id]) + 1>> \notin Held
          /\ Held' = Held \cup {<<rcv.id, Len(replies[rcv.id]) + 1>>}
      BY <2>1, <2>2, ReplyHolds
    <3> QED
      BY <3>1, <3>2, FS_AddElement
  <2>4. bytes' = bytes + RepBytes /\ bytes' <= QBytes /\ requests' = requests
    BY <1>6 DEF ServerReply
  <2>5. RepBytes * Cardinality(Held') = RepBytes * Cardinality(Held) + RepBytes
    BY <1>1, <2>3
  <2> QED
    BY <1>1, <2>3, <2>4, <2>5 DEF BytesInv
<1>7. ASSUME NEW c \in Client,
             (\E w \in Word : Ask(c, w)) \/ Quit(c) \/ Kill(c) \/ \E p \in Pid : Start(c, p)
      PROVE  UNCHANGED queueVars
  BY <1>7 DEF Ask, Quit, Kill, Start
<1>8. ASSUME ServerStop \/ ServerStart \/ AtPrompt \/ UNCHANGED vars
      PROVE  UNCHANGED queueVars
  BY <1>8 DEF ServerStop, ServerStart, AtPrompt, vars
<1> QED
  BY <1>2, <1>3, <1>4, <1>5, <1>6, <1>7, <1>8 DEF Next, ClientStep, ServerStep
-----------------------------------------------------------------------------
(* Pids.                                                                   *)

\* Nobody has a pid.
LEMMA PidInit == Init => PidInv
  BY DEF Init, PidInv, Alive

\* A new process has a pid that no living one has.
LEMMA PidStep == QueueInv /\ PidInv /\ [Next]_vars => PidInv'
<1> SUFFICES ASSUME QueueInv, PidInv, [Next]_vars PROVE PidInv'
  OBVIOUS
<1> USE DEF QueueInv, PidInv, Alive, Goto
<1>1. CASE UNCHANGED <<pc, pid>>
  BY <1>1
<1>2. ASSUME NEW c \in Client, NEW p \in Pid, Start(c, p) PROVE PidInv'
  BY <1>2 DEF Start
<1>3. ASSUME NEW c \in Client,
             (\E w \in Word : Ask(c, w)) \/ Send(c) \/ Receive(c) \/ Quit(c) \/ Kill(c)
      PROVE  PidInv'
  <2>1. pid' = pid /\ pc[c] \in {"idle", "send", "receive"}
        /\ \E l \in {"idle", "send", "receive", "gone"} : pc' = [pc EXCEPT ![c] = l]
    BY <1>3 DEF Ask, Send, Receive, Quit, Kill
  <2> QED
    BY <2>1
<1>4. ASSUME ServerReceive \/ ServerReply \/ ServerStop \/ ServerStart \/ AtPrompt
             \/ UNCHANGED vars
      PROVE  UNCHANGED <<pc, pid>>
  BY <1>4 DEF ServerReceive, ServerReply, ServerStop, ServerStart, AtPrompt, vars, clientVars
<1> QED
  BY <1>1, <1>2, <1>3, <1>4 DEF Next, ClientStep, ServerStep
-----------------------------------------------------------------------------
(* Where a lookup is.                                                      *)

LookupInv == PlaceInv /\ WordInv

\* Nothing is under way.
LEMMA LookupInit == Init => LookupInv
<1> SUFFICES ASSUME Init PROVE LookupInv
  OBVIOUS
<1>1. requests = <<>> /\ spc = "receive" /\ \A p \in Pid : replies[p] = <<>>
  BY DEF Init
<1>2. \A p \in Pid : Asked(p) = {} /\ ~Serving(p) /\ Len(replies[p]) = 0
  BY <1>1 DEF Asked, Serving
<1>3. \A c \in Client : pc[c] # "receive"
  BY DEF Init
<1> QED
  BY <1>1, <1>2, <1>3 DEF LookupInv, PlaceInv, WordInv

\* A client that is not under way starts, asks or leaves; or one that is
\* leaves its pid stale.
LEMMA ClientKeepsLookupInv ==
  ASSUME LookupInv, UNCHANGED <<requests, replies, spc, rcv>>,
         stale \subseteq stale',
         \A c \in Client : pc[c] = "receive" /\ pid[c] \notin stale'
            => pc'[c] = "receive" /\ pid'[c] = pid[c],
         \A c \in Client : pc'[c] = "receive"
            => pc[c] = "receive" /\ pid'[c] = pid[c] /\ word'[c] = word[c]
  PROVE  LookupInv'
<1>1. \A p : Asked(p)' = Asked(p) /\ (Serving(p)' <=> Serving(p))
  BY DEF Asked, Serving
<1>2. \A p \in Pid \ stale' : Awaited(p) => Awaited(p)'
  BY DEF Awaited
<1>3. PlaceInv'
  BY <1>1, <1>2 DEF LookupInv, PlaceInv
<1>4. \A c \in Client : Clean(c)' /\ pc'[c] = "receive" => Clean(c)
  BY DEF Clean, Alive
<1>5. WordInv'
  BY <1>1, <1>4 DEF LookupInv, WordInv
<1> QED
  BY <1>3, <1>5 DEF LookupInv

\* The server stops or starts: what it had taken is nowhere any more.
LEMMA RestartKeepsLookupInv ==
  ASSUME LookupInv, UNCHANGED <<queueVars, clientVars>>, spc' # "send"
  PROVE  LookupInv'
<1>1. \A p : Asked(p)' = Asked(p) /\ ~Serving(p)' /\ (Awaited(p)' <=> Awaited(p))
  BY DEF Asked, Serving, Awaited, queueVars, clientVars
<1>2. PlaceInv'
  BY <1>1 DEF LookupInv, PlaceInv, queueVars, clientVars
<1>3. WordInv'
  BY <1>1 DEF LookupInv, WordInv, Clean, Alive, queueVars, clientVars
<1> QED
  BY <1>2, <1>3 DEF LookupInv

\* Whoever waits under a pid is the only living process that has it.
LEMMA OneHolder ==
  ASSUME PidInv, NEW c \in Client, Alive(c), NEW d \in Client, pc[d] = "receive",
         pid[c] = pid[d]
  PROVE  c = d
  BY DEF PidInv, Alive

\* A request goes out: before, there was nothing under this pid.
LEMMA SendKeepsLookupInv ==
  ASSUME QueueInv, PidInv, LookupInv, NEW c \in Client, Send(c)
  PROVE  LookupInv'
<1>0. PICK own \in Pid : own = pid[c]
  BY DEF Send, PidInv
<1> DEFINE n == Len(requests)
           r == [id |-> own, word |-> word[c]]
<1>1. own = pid[c] /\ Alive(c) /\ pc[c] = "send" /\ r \in Request
  BY <1>0 DEF Send, QueueInv, Alive, Request
<1>2. /\ pc' = [pc EXCEPT ![c] = "receive"]
      /\ UNCHANGED <<replies, pid, stale, word, spc, rcv>>
  BY DEF Send, Goto, serverVars
<1>3. /\ n \in Nat /\ Len(requests') = n + 1 /\ requests'[n + 1] = r
      /\ \A k \in 1..n : requests'[k] = requests[k]
  BY <1>1, Sent DEF Send, QueueInv
<1>4. \A p : p # own => Asked(p)' = Asked(p)
  BY <1>3 DEF Asked
<1>5. \A p : Serving(p)' <=> Serving(p)
  BY <1>2 DEF Serving
<1>6. \A p \in Pid : p # own /\ Awaited(p) => Awaited(p)'
  BY <1>1, <1>2 DEF Awaited, QueueInv
<1>7. own \notin stale => Asked(own) = {} /\ ~Serving(own) /\ replies[own] = <<>>
  <2>1. ~Awaited(own)
    BY <1>1, OneHolder DEF Awaited
  <2> QED
    BY <1>1, <2>1 DEF LookupInv, PlaceInv
<1>8. own \notin stale => Asked(own)' = {n + 1}
  <2> SUFFICES ASSUME own \notin stale PROVE Asked(own)' = {n + 1}
    OBVIOUS
  <2>1. \A k \in 1..n : requests'[k].id # own
    BY <1>3, <1>7 DEF Asked
  <2>2. requests'[n + 1].id = own
    BY <1>3
  <2>3. Asked(own)' = {k \in 1..Len(requests') : requests'[k].id = own}
    BY DEF Asked
  <2> QED
    BY <1>3, <2>1, <2>2, <2>3
<1>9. Awaited(own)'
  BY <1>1, <1>2 DEF Awaited, QueueInv
<1>10. PlaceInv'
  <2> SUFFICES ASSUME NEW p \in Pid \ stale
               PROVE /\ \A j, k \in Asked(p)' : j = k
                     /\ Len(replies[p]) <= 1
                     /\ Asked(p)' # {} => ~Serving(p)
                     /\ Asked(p)' # {} \/ Serving(p) => replies[p] = <<>>
                     /\ Asked(p)' # {} \/ Serving(p) \/ replies[p] # <<>> => Awaited(p)'
    BY <1>2, <1>5 DEF PlaceInv
  <2>1. CASE p = own
    <3>1. replies[own] = <<>> /\ ~Serving(own) /\ Asked(own)' = {n + 1}
      BY <1>7, <1>8, <2>1
    <3>2. Len(replies[own]) = 0
      BY <3>1
    <3> QED
      BY <1>9, <2>1, <3>1, <3>2
  <2>2. CASE p # own
    BY <1>4, <1>6, <2>2 DEF LookupInv, PlaceInv
  <2> QED
    BY <2>1, <2>2
<1>11. WordInv'
  <2> SUFFICES ASSUME NEW d \in Client, Clean(d)', pc'[d] = "receive"
               PROVE /\ \A k \in Asked(pid[d])' : requests'[k].word = word[d]
                     /\ Serving(pid[d]) => rcv.word = word[d]
                     /\ \A k \in 1..Len(replies[pid[d]]) :
                          replies[pid[d]][k] = IndexFind(File, word[d])
    BY <1>2, <1>5 DEF WordInv
  <2>1. CASE d = c
    <3>1. own \notin stale
      BY <1>1, <1>2, <2>1 DEF Clean
    <3>2. replies[own] = <<>> /\ ~Serving(own) /\ Asked(own)' = {n + 1}
      BY <1>7, <1>8, <3>1
    <3>3. Len(replies[own]) = 0
      BY <3>2
    <3>4. requests'[n + 1].word = word[c]
      BY <1>3
    <3>5. Asked(pid[d])' = {n + 1}
      BY <1>1, <1>2, <2>1, <3>2
    <3> QED
      BY <1>1, <2>1, <3>2, <3>3, <3>4, <3>5
  <2>2. CASE d # c
    <3>1. pc[d] = "receive" /\ Clean(d)
      BY <1>2, <2>2 DEF Clean, Alive, QueueInv
    <3>2. pid[d] # own
      BY <1>1, <2>2, <3>1, OneHolder
    <3>3. \A k \in Asked(pid[d]) : requests'[k] = requests[k]
      BY <1>3 DEF Asked
    <3>4. /\ \A k \in Asked(pid[d]) : requests[k].word = word[d]
          /\ Serving(pid[d]) => rcv.word = word[d]
          /\ \A k \in 1..Len(replies[pid[d]]) :
               replies[pid[d]][k] = IndexFind(File, word[d])
      BY <3>1 DEF LookupInv, WordInv
    <3>5. Asked(pid[d])' = Asked(pid[d])
      BY <1>2, <1>4, <3>2
    <3> QED
      BY <3>3, <3>4, <3>5
  <2> QED
    BY <2>1, <2>2
<1> QED
  BY <1>10, <1>11 DEF LookupInv

\* A reply is received: it was the only thing under this pid.
LEMMA ReceiveKeepsLookupInv ==
  ASSUME QueueInv, PidInv, LookupInv, NEW c \in Client, Receive(c)
  PROVE  LookupInv'
<1>0. PICK own \in Pid : own = pid[c]
  BY DEF Receive, PidInv
<1>1. own = pid[c] /\ Alive(c) /\ pc[c] = "receive" /\ replies[own] # <<>>
  BY <1>0 DEF Receive, QueueInv, Alive
<1>2. /\ pc' = [pc EXCEPT ![c] = "idle"] /\ replies' = [replies EXCEPT ![own] = Tail(@)]
      /\ UNCHANGED <<requests, pid, stale, word, spc, rcv>>
  BY <1>0 DEF Receive, Goto, serverVars
<1>3. \A p : Asked(p)' = Asked(p) /\ (Serving(p)' <=> Serving(p))
  BY <1>2 DEF Asked, Serving
<1>4. \A p \in Pid : p # own => replies'[p] = replies[p] /\ (Awaited(p) => Awaited(p)')
  BY <1>1, <1>2 DEF Awaited, QueueInv
<1>5. own \notin stale => Asked(own) = {} /\ ~Serving(own) /\ Len(replies[own]) <= 1
  BY <1>1 DEF LookupInv, PlaceInv
<1>6. own \notin stale => replies'[own] = <<>> /\ Len(replies'[own]) = 0
  <2>1. replies[own] \in Seq(Found) /\ replies'[own] = Tail(replies[own])
    BY <1>1, <1>2 DEF QueueInv
  <2> QED
    BY <1>1, <1>5, <2>1, LastReceived
<1>7. PlaceInv'
  <2> SUFFICES ASSUME NEW p \in Pid \ stale
               PROVE /\ \A j, k \in Asked(p) : j = k
                     /\ Len(replies'[p]) <= 1
                     /\ Asked(p) # {} => ~Serving(p)
                     /\ Asked(p) # {} \/ Serving(p) => replies'[p] = <<>>
                     /\ Asked(p) # {} \/ Serving(p) \/ replies'[p] # <<>> => Awaited(p)'
    BY <1>2, <1>3 DEF PlaceInv
  <2>1. CASE p = own
    BY <1>5, <1>6, <2>1
  <2>2. CASE p # own
    BY <1>4, <2>2 DEF LookupInv, PlaceInv
  <2> QED
    BY <2>1, <2>2
<1>8. WordInv'
  <2> SUFFICES ASSUME NEW d \in Client, Clean(d)', pc'[d] = "receive"
               PROVE /\ \A k \in Asked(pid[d]) : requests[k].word = word[d]
                     /\ Serving(pid[d]) => rcv.word = word[d]
                     /\ \A k \in 1..Len(replies'[pid[d]]) :
                          replies'[pid[d]][k] = IndexFind(File, word[d])
    <3>1. \A d \in Client : /\ Asked(pid[d])' = Asked(pid[d])
                            /\ Serving(pid[d])' <=> Serving(pid[d])
      BY <1>2, <1>3
    <3>2. UNCHANGED <<requests, pid, word, rcv>>
      BY <1>2
    <3> QED
      BY <3>1, <3>2 DEF WordInv
  <2>1. d # c /\ pc[d] = "receive" /\ Clean(d)
    BY <1>2 DEF Clean, Alive, QueueInv
  <2>2. pid[d] # own /\ pid[d] \in Pid
    BY <1>1, <2>1, OneHolder DEF PidInv
  <2> QED
    BY <1>4, <2>1, <2>2 DEF LookupInv, WordInv
<1> QED
  BY <1>7, <1>8 DEF LookupInv

\* The server takes the first request: it moves from the queue to the server.
LEMMA TakeKeepsLookupInv ==
  ASSUME QueueInv, PidInv, LookupInv, ServerReceive
  PROVE  LookupInv'
<1>1. /\ rcv' = requests[1] /\ spc = "receive" /\ spc' = "send"
      /\ UNCHANGED <<replies, pc, pid, stale, word>>
  BY Received DEF ServerReceive, QueueInv, clientVars
<1>2. /\ Len(requests) \in Nat \ {0} /\ Len(requests') = Len(requests) - 1
      /\ \A k \in 1..Len(requests') : requests'[k] = requests[k + 1]
  BY Received DEF ServerReceive, QueueInv
<1>3. \A p : ~Serving(p) /\ (Serving(p)' <=> requests[1].id = p)
             /\ (Awaited(p)' <=> Awaited(p))
  BY <1>1 DEF Serving, Awaited
<1>4. \A p : \A k \in Asked(p)' : k + 1 \in Asked(p) /\ k \in Nat \ {0}
                                  /\ requests'[k] = requests[k + 1]
  BY <1>2 DEF Asked
<1>5. \A p : Serving(p)' => 1 \in Asked(p)
  BY <1>2, <1>3 DEF Asked
<1>6. PlaceInv'
  <2> SUFFICES ASSUME NEW p \in Pid \ stale
               PROVE /\ \A j, k \in Asked(p)' : j = k
                     /\ Len(replies[p]) <= 1
                     /\ Asked(p)' # {} => ~Serving(p)'
                     /\ Asked(p)' # {} \/ Serving(p)' => replies[p] = <<>>
                     /\ Asked(p)' # {} \/ Serving(p)' \/ replies[p] # <<>> => Awaited(p)'
    BY <1>1 DEF PlaceInv
  <2>1. /\ \A j, k \in Asked(p) : j = k
        /\ Len(replies[p]) <= 1
        /\ Asked(p) # {} => replies[p] = <<>>
        /\ Asked(p) # {} \/ replies[p] # <<>> => Awaited(p)
    BY DEF LookupInv, PlaceInv
  <2>2. \A j, k \in Asked(p)' : j = k
    <3> SUFFICES ASSUME NEW j \in Asked(p)', NEW k \in Asked(p)' PROVE j = k
      OBVIOUS
    <3>1. j + 1 = k + 1 /\ j \in Nat /\ k \in Nat
      BY <1>4, <2>1
    <3> QED
      BY <3>1
  <2>3. Asked(p)' # {} => ~Serving(p)'
    <3> SUFFICES ASSUME NEW k \in Asked(p)', Serving(p)' PROVE FALSE
      OBVIOUS
    <3>1. k + 1 = 1 /\ k \in Nat \ {0}
      BY <1>4, <1>5, <2>1
    <3> QED
      BY <3>1
  <2>4. Asked(p)' # {} \/ Serving(p)' => Asked(p) # {}
    BY <1>4, <1>5
  <2> QED
    BY <1>3, <2>1, <2>2, <2>3, <2>4
<1>7. WordInv'
  <2> SUFFICES ASSUME NEW d \in Client, Clean(d), pc[d] = "receive", NEW p, p = pid[d]
               PROVE /\ \A k \in Asked(p)' : requests'[k].word = word[d]
                     /\ Serving(p)' => rcv'.word = word[d]
                     /\ \A k \in 1..Len(replies[p]) :
                          replies[p][k] = IndexFind(File, word[d])
    BY <1>1 DEF WordInv, Clean, Alive
  <2>1. /\ \A k \in Asked(p) : requests[k].word = word[d]
        /\ \A k \in 1..Len(replies[p]) : replies[p][k] = IndexFind(File, word[d])
    BY DEF LookupInv, WordInv
  <2> QED
    BY <1>1, <1>4, <1>5, <2>1
<1> QED
  BY <1>6, <1>7 DEF LookupInv

\* The server replies: the lookup moves to the queue, as what was found for
\* its word.
LEMMA ReplyKeepsLookupInv ==
  ASSUME QueueInv, PidInv, LookupInv, ServerReply
  PROVE  LookupInv'
<1>0. PICK own \in Pid : own = rcv.id
  BY DEF ServerReply, QueueInv, Request
<1> DEFINE m == IndexFind(File, rcv.word)
<1>1. /\ Serving(own) /\ \A p : p # own => ~Serving(p)
      /\ m \in Found /\ replies[own] \in Seq(Found)
  BY <1>0 DEF Serving, ServerReply, QueueInv, Request, Found
<1>2. /\ spc' = "receive" /\ replies' = [replies EXCEPT ![own] = Append(@, m)]
      /\ UNCHANGED <<requests, pc, pid, stale, word, rcv>>
  BY <1>0 DEF ServerReply, clientVars
<1>3. \A p : Asked(p)' = Asked(p) /\ ~Serving(p)' /\ (Awaited(p)' <=> Awaited(p))
  BY <1>2 DEF Asked, Serving, Awaited
<1>4. \A p \in Pid : p # own => replies'[p] = replies[p]
  BY <1>2 DEF QueueInv
<1>5. own \notin stale => Asked(own) = {} /\ Awaited(own) /\ replies[own] = <<>>
  BY <1>1 DEF LookupInv, PlaceInv
<1>6. own \notin stale => Len(replies'[own]) = 1 /\ replies'[own][1] = m
  <2>1. replies'[own] = Append(replies[own], m)
    BY <1>2 DEF QueueInv
  <2>2. Len(Append(replies[own], m)) = Len(replies[own]) + 1
        /\ Append(replies[own], m)[Len(replies[own]) + 1] = m
    BY <1>1, Sent
  <2>3. own \notin stale => Len(replies[own]) = 0
    BY <1>5
  <2> QED
    BY <2>1, <2>2, <2>3
<1>7. PlaceInv'
  <2> SUFFICES ASSUME NEW p \in Pid \ stale
               PROVE /\ \A j, k \in Asked(p) : j = k
                     /\ Len(replies'[p]) <= 1
                     /\ Asked(p) # {} => replies'[p] = <<>>
                     /\ Asked(p) # {} \/ replies'[p] # <<>> => Awaited(p)
    BY <1>2, <1>3 DEF PlaceInv
  <2>1. CASE p = own
    <3>1. Asked(own) = {} /\ Awaited(own)
      BY <1>5, <2>1
    <3>2. Len(replies'[own]) = 1
      BY <1>6, <2>1
    <3> QED
      BY <2>1, <3>1, <3>2
  <2>2. CASE p # own
    BY <1>1, <1>4, <2>2 DEF LookupInv, PlaceInv
  <2> QED
    BY <2>1, <2>2
<1>8. WordInv'
  <2> SUFFICES ASSUME NEW d \in Client, Clean(d), pc[d] = "receive", NEW p \in Pid, p = pid[d]
               PROVE /\ \A k \in Asked(p) : requests[k].word = word[d]
                     /\ \A k \in 1..Len(replies'[p]) :
                          replies'[p][k] = IndexFind(File, word[d])
    BY <1>2, <1>3 DEF WordInv, Clean, Alive, PidInv
  <2>1. /\ \A k \in Asked(p) : requests[k].word = word[d]
        /\ Serving(p) => rcv.word = word[d]
        /\ \A k \in 1..Len(replies[p]) : replies[p][k] = IndexFind(File, word[d])
    BY DEF LookupInv, WordInv
  <2>2. CASE p = own
    <3>1. own \notin stale /\ rcv.word = word[d]
      BY <1>1, <2>1, <2>2 DEF Clean
    <3> QED
      BY <1>6, <2>1, <2>2, <3>1
  <2>3. CASE p # own
    BY <1>4, <2>1, <2>3
  <2> QED
    BY <2>2, <2>3
<1> QED
  BY <1>7, <1>8 DEF LookupInv
-----------------------------------------------------------------------------
(* The invariant.                                                          *)

\* Every step keeps what is known of the lookups under way.
LEMMA LookupStep == QueueInv /\ PidInv /\ LookupInv /\ [Next]_vars => LookupInv'
<1> SUFFICES ASSUME QueueInv, PidInv, LookupInv, [Next]_vars PROVE LookupInv'
  OBVIOUS
<1>1. ASSUME NEW c \in Client, NEW p \in Pid, Start(c, p) PROVE LookupInv'
  BY <1>1, ClientKeepsLookupInv DEF Start, Goto, QueueInv, queueVars, serverVars
<1>2. ASSUME NEW c \in Client, NEW w \in Word, Ask(c, w) PROVE LookupInv'
  BY <1>2, ClientKeepsLookupInv DEF Ask, Goto, QueueInv, queueVars, serverVars
<1>3. ASSUME NEW c \in Client, Quit(c) PROVE LookupInv'
  BY <1>3, ClientKeepsLookupInv DEF Quit, Goto, QueueInv, queueVars, serverVars
<1>4. ASSUME NEW c \in Client, Kill(c) PROVE LookupInv'
  BY <1>4, ClientKeepsLookupInv DEF Kill, Goto, QueueInv, queueVars, serverVars
<1>5. CASE ServerStop \/ ServerStart
  BY <1>5, RestartKeepsLookupInv DEF ServerStop, ServerStart
<1>6. CASE AtPrompt \/ UNCHANGED vars
  BY <1>6, ClientKeepsLookupInv
     DEF AtPrompt, vars, queueVars, clientVars, serverVars
<1> QED
  BY <1>1, <1>2, <1>3, <1>4, <1>5, <1>6, SendKeepsLookupInv, ReceiveKeepsLookupInv,
     TakeKeepsLookupInv, ReplyKeepsLookupInv DEF Next, ClientStep, ServerStep

\* The inductive invariant holds for every number of clients, pids and
\* questions, with clients killed and the server restarted at any point.
THEOREM Invariance == Spec => []Inv
<1>1. Init => Inv
  BY QueueInit, BytesInit, PidInit, LookupInit DEF Inv, LookupInv
<1>2. Inv /\ [Next]_vars => Inv'
  BY QueueStep, BytesStep, PidStep, LookupStep DEF Inv, LookupInv
<1> QED
  BY <1>1, <1>2, PTL DEF Spec

\* Every lookup under a pid that is not stale is in one place, and its client
\* waits for it (lookup4.c, msgq_server.c).
THEOREM OnePlaceAlways == Spec => []OnePlace
<1>1. Inv => OnePlace
  <2> SUFFICES ASSUME Inv, NEW c \in Client, Clean(c), NEW p, p = pid[c]
               PROVE /\ \A j, k \in Asked(p) : j = k
                     /\ Len(replies[p]) <= 1
                     /\ Asked(p) # {} => ~Serving(p)
                     /\ Asked(p) # {} \/ Serving(p) => replies[p] = <<>>
                     /\ Asked(p) # {} \/ Serving(p) \/ replies[p] # <<>>
                          => pc[c] = "receive"
    BY DEF OnePlace, Asked, Serving
  <2>1. p \in Pid \ stale /\ Alive(c)
    BY DEF Inv, PidInv, Clean, Alive
  <2>2. Awaited(p) => pc[c] = "receive"
    BY <2>1, OneHolder DEF Inv, Awaited
  <2> QED
    BY <2>1, <2>2 DEF Inv, PlaceInv
<1> QED
  BY <1>1, Invariance, PTL

\* What lookup2.c finds in a file made of a text of the listed words.
LEMMA IndexFinds ==
  ASSUME SourceIsText
  PROVE  \A w \in Word : IndexFind(File, w) = Lookup(w)
  BY Searches

\* Type correctness: nothing but answers is ever sent or printed, and the
\* count of bytes stays within the queue (msgq_server.c; the kernel's
\* msg_cbytes).
THEOREM TypeCorrect == ASSUME SourceIsText PROVE Spec => []TypeOK
<1> SUFFICES ASSUME SourceIsText PROVE Spec => []TypeOK
  OBVIOUS
<1>1. Found \subseteq Answer
  BY IndexFinds DEF Found, Lookup, Answer
<1> DEFINE Printed == result \in [Client -> Answer \cup {Junk}]
<1>2. Init => Printed
  BY DEF Init
<1>3. Inv /\ Printed /\ [Next]_vars => Printed'
  <2> SUFFICES ASSUME Inv, Printed, [Next]_vars PROVE Printed'
    OBVIOUS
  <2>1. CASE UNCHANGED result
    BY <2>1
  <2>2. ASSUME NEW c \in Client, Receive(c) PROVE Printed'
    <3>1. replies[pid[c]] \in Seq(Found) /\ replies[pid[c]] # <<>>
      BY <2>2 DEF Inv, QueueInv, PidInv, Receive
    <3>2. Head(replies[pid[c]]) \in Answer
      BY <1>1, <3>1, Received
    <3> QED
      BY <2>2, <3>2 DEF Receive
  <2>3. ASSUME NEW c \in Client,
               (\E w \in Word : Ask(c, w)) \/ Send(c) \/ Quit(c) \/ Kill(c)
               \/ \E p \in Pid : Start(c, p)
        PROVE  UNCHANGED result
    BY <2>3 DEF Ask, Send, Quit, Kill, Start
  <2>4. ASSUME ServerReceive \/ ServerReply \/ ServerStop \/ ServerStart \/ AtPrompt
               \/ UNCHANGED vars
        PROVE  UNCHANGED result
    BY <2>4 DEF ServerReceive, ServerReply, ServerStop, ServerStart, AtPrompt,
                vars, clientVars
  <2> QED
    BY <2>1, <2>2, <2>3, <2>4 DEF Next, ClientStep, ServerStep
<1>4. Inv /\ Printed => TypeOK
  <2> SUFFICES ASSUME Inv, Printed PROVE TypeOK
    OBVIOUS
  <2>1. bytes \in 0..QBytes
    <3>1. IsFiniteSet(Held) /\ requests \in Seq(Request)
      BY DEF Inv, BytesInv, QueueInv
    <3>2. Cardinality(Held) \in Nat /\ Len(requests) \in Nat
      BY <3>1, FS_CardinalityType, LenProperties
    <3>3. ReqBytes * Len(requests) \in Nat /\ RepBytes * Cardinality(Held) \in Nat
      BY <3>2, MsgqAssumption
    <3> QED
      BY <3>3, MsgqAssumption DEF Inv, BytesInv
  <2>2. replies \in [Pid -> Seq(Answer)]
    <3>1. ASSUME NEW p \in Pid PROVE replies[p] \in Seq(Answer)
      <4>1. replies[p] \in Seq(Found)
        BY DEF Inv, QueueInv
      <4>2. \A k \in 1..Len(replies[p]) : replies[p][k] \in Answer
        BY <1>1, <4>1, ElementOfSeq
      <4> QED
        BY <4>1, <4>2
    <3> QED
      BY <3>1 DEF Inv, QueueInv
  <2> QED
    BY <2>1, <2>2 DEF Inv, QueueInv, TypeOK
<1> QED
  BY <1>2, <1>3, <1>4, Invariance, PTL DEF Spec
-----------------------------------------------------------------------------
(* The queue implements the abstract service.                              *)

\* The call of a client, by where the client is.
LEMMA CallValues ==
  ASSUME NEW c \in Client
  PROVE  /\ pc[c] = "gone" \/ pid[c] \in stale => CallOf(c) = "gone"
         /\ pc[c] \in {"off", "idle"} /\ pid[c] \notin stale => CallOf(c) = "idle"
         /\ pc[c] \in {"send", "receive"} /\ pid[c] \notin stale => CallOf(c) = "busy"
  BY DEF CallOf

\* The same after a step.
LEMMA CallValuesNext ==
  ASSUME NEW c \in Client
  PROVE  /\ pc'[c] = "gone" \/ pid'[c] \in stale' => CallOf(c)' = "gone"
         /\ pc'[c] \in {"off", "idle"} /\ pid'[c] \notin stale' => CallOf(c)' = "idle"
         /\ pc'[c] \in {"send", "receive"} /\ pid'[c] \notin stale' => CallOf(c)' = "busy"
  BY DEF CallOf

\* A client that does not move stays in its call, unless its pid gets stale.
LEMMA CallStays ==
  ASSUME NEW c \in Client, pc'[c] = pc[c], pid'[c] = pid[c],
         pid[c] \in stale <=> pid[c] \in stale'
  PROVE  CallOf(c)' = CallOf(c)
  BY DEF CallOf

\* What one client does to its call is a step of the service: it leaves it;
LEMMA Leaves ==
  ASSUME NEW c \in Client, CallOf(c) # "gone", CallOf(c)' = "gone",
         \A d \in Client \ {c} : CallOf(d)' = CallOf(d), UNCHANGED <<word, result>>
  PROVE  Service!Next
<1>1. Service!Leave({c})
  BY DEF Service!Leave
<1>2. {c} \in SUBSET Client
  OBVIOUS
<1> QED
  BY <1>1, <1>2 DEF Service!Next

\* it asks;
LEMMA Asks ==
  ASSUME NEW c \in Client, NEW w \in Word, CallOf(c) = "idle", CallOf(c)' = "busy",
         \A d \in Client \ {c} : CallOf(d)' = CallOf(d),
         word' = [word EXCEPT ![c] = w], UNCHANGED result
  PROVE  Service!Next
<1>1. Service!Ask(c, w)
  BY DEF Service!Ask
<1> QED
  BY <1>1 DEF Service!Next

\* it gets the answer;
LEMMA Replies ==
  ASSUME NEW c \in Client, CallOf(c) = "busy", CallOf(c)' = "idle",
         \A d \in Client \ {c} : CallOf(d)' = CallOf(d),
         result' = [result EXCEPT ![c] = Lookup(word[c])], UNCHANGED word
  PROVE  Service!Next
<1>1. Service!Reply(c)
  BY DEF Service!Reply, Service!Lookup, Lookup
<1> QED
  BY <1>1 DEF Service!Next

\* or it does as it likes, when nothing is promised to it.
LEMMA IsAdrift ==
  ASSUME NEW c \in Client, CallOf(c) = "gone",
         \A d \in Client : CallOf(d)' = CallOf(d),
         word' = [word EXCEPT ![c] = word'[c]], result' = [result EXCEPT ![c] = result'[c]]
  PROVE  Service!Next
<1>1. Service!Adrift(c)
  BY DEF Service!Adrift
<1> QED
  BY <1>1 DEF Service!Next

\* Where no call changes, the service does nothing.
LEMMA CallsStay ==
  ASSUME \A c \in Client : CallOf(c)' = CallOf(c), UNCHANGED <<word, result>>
  PROVE  UNCHANGED Service!vars
  BY DEF Service!vars

\* Nobody has called.
LEMMA ServiceInit == Init => Service!Init
<1> SUFFICES ASSUME Init PROVE Service!Init
  OBVIOUS
<1>1. \A c \in Client : CallOf(c) = "idle"
  BY CallValues, MsgqAssumption DEF Init
<1> QED
  BY <1>1 DEF Init, Service!Init

\* A process starts: with a stale pid it is promised nothing.
LEMMA StartServes ==
  ASSUME Inv, NEW c \in Client, NEW p \in Pid, Start(c, p)
  PROVE  [Service!Next]_Service!vars
<1>1. pc[c] = "off" /\ pid[c] = Junk /\ pid[c] \notin stale
  BY MsgqAssumption DEF Start, Inv, PidInv, QueueInv
<1>2. /\ pc'[c] = "idle" /\ pid'[c] = p
      /\ \A d \in Client \ {c} : pc'[d] = pc[d] /\ pid'[d] = pid[d]
      /\ UNCHANGED <<stale, word, result>>
  BY DEF Start, Goto, Inv, QueueInv
<1>3. \A d \in Client \ {c} : CallOf(d)' = CallOf(d)
  BY <1>2, CallStays
<1>4. CallOf(c) = "idle" /\ CallOf(c)' = IF p \in stale THEN "gone" ELSE "idle"
  BY <1>1, <1>2, CallValues, CallValuesNext
<1>5. CASE p \in stale
  BY <1>2, <1>3, <1>4, <1>5, Leaves
<1>6. CASE p \notin stale
  BY <1>2, <1>3, <1>4, <1>6, CallsStay
<1> QED
  BY <1>5, <1>6

\* A question is asked, of nobody under a stale pid.
LEMMA AskServes ==
  ASSUME Inv, TypeOK, NEW c \in Client, NEW w \in Word, Ask(c, w)
  PROVE  Service!Next
<1>1. /\ pc[c] = "idle" /\ pc'[c] = "send"
      /\ \A d \in Client \ {c} : pc'[d] = pc[d]
      /\ word' = [word EXCEPT ![c] = w] /\ UNCHANGED <<pid, stale, result>>
  BY DEF Ask, Goto, Inv, QueueInv
<1>2. \A d \in Client \ {c} : CallOf(d)' = CallOf(d)
  BY <1>1, CallStays
<1>3. CASE pid[c] \in stale
  <2>1. CallOf(c) = "gone" /\ CallOf(c)' = "gone"
    BY <1>1, <1>3, CallValues, CallValuesNext
  <2>2. word'[c] = w /\ result' = [result EXCEPT ![c] = result'[c]]
    BY <1>1 DEF Inv, QueueInv, TypeOK
  <2> QED
    BY <1>1, <1>2, <2>1, <2>2, IsAdrift
<1>4. CASE pid[c] \notin stale
  <2>1. CallOf(c) = "idle" /\ CallOf(c)' = "busy"
    BY <1>1, <1>4, CallValues, CallValuesNext
  <2> QED
    BY <1>1, <1>2, <2>1, Asks
<1> QED
  BY <1>3, <1>4

\* A reply is received; under a pid that is not stale it is the answer.
LEMMA ReceiveServes ==
  ASSUME SourceIsText, Inv, TypeOK, NEW c \in Client, Receive(c)
  PROVE  Service!Next
<1>1. /\ pc[c] = "receive" /\ pc'[c] = "idle"
      /\ \A d \in Client \ {c} : pc'[d] = pc[d]
      /\ result' = [result EXCEPT ![c] = Head(replies[pid[c]])]
      /\ UNCHANGED <<pid, stale, word>>
  BY DEF Receive, Goto, Inv, QueueInv
<1>2. \A d \in Client \ {c} : CallOf(d)' = CallOf(d)
  BY <1>1, CallStays
<1>3. CASE pid[c] \in stale
  <2>1. CallOf(c) = "gone" /\ CallOf(c)' = "gone"
    BY <1>1, <1>3, CallValues, CallValuesNext
  <2>2. result'[c] = Head(replies[pid[c]]) /\ word' = [word EXCEPT ![c] = word'[c]]
    BY <1>1 DEF TypeOK
  <2> QED
    BY <1>1, <1>2, <2>1, <2>2, IsAdrift
<1>4. CASE pid[c] \notin stale
  <2>1. CallOf(c) = "busy" /\ CallOf(c)' = "idle"
    BY <1>1, <1>4, CallValues, CallValuesNext
  <2>2. replies[pid[c]] \in Seq(Found) /\ replies[pid[c]] # <<>>
    BY DEF Receive, Inv, PidInv, QueueInv
  <2>3. Head(replies[pid[c]]) = replies[pid[c]][1] /\ 1 \in 1..Len(replies[pid[c]])
    <3>1. Head(replies[pid[c]]) = replies[pid[c]][1] /\ Len(replies[pid[c]]) \in Nat \ {0}
      BY <2>2, Received
    <3> QED
      BY <3>1
  <2>4. \A k \in 1..Len(replies[pid[c]]) : replies[pid[c]][k] = IndexFind(File, word[c])
    BY <1>1, <1>4 DEF Inv, WordInv, Clean, Alive
  <2>5. Head(replies[pid[c]]) = Lookup(word[c])
    BY <1>1, <2>3, <2>4, IndexFinds DEF Inv, QueueInv
  <2> QED
    BY <1>1, <1>2, <2>1, <2>5, Replies
<1> QED
  BY <1>3, <1>4

\* A client leaves at the prompt.
LEMMA QuitServes ==
  ASSUME Inv, NEW c \in Client, Quit(c)
  PROVE  [Service!Next]_Service!vars
<1>1. /\ pc[c] = "idle" /\ pc'[c] = "gone"
      /\ \A d \in Client \ {c} : pc'[d] = pc[d]
      /\ UNCHANGED <<pid, stale, word, result>>
  BY DEF Quit, Goto, Inv, QueueInv
<1>2. CallOf(c)' = "gone" /\ \A d \in Client \ {c} : CallOf(d)' = CallOf(d)
  BY <1>1, CallStays, CallValuesNext
<1>3. CASE CallOf(c) = "gone"
  BY <1>1, <1>2, <1>3, CallsStay
<1>4. CASE CallOf(c) # "gone"
  BY <1>1, <1>2, <1>4, Leaves
<1> QED
  BY <1>3, <1>4

\* A client is killed: nobody else has its pid.
LEMMA KillServes ==
  ASSUME Inv, NEW c \in Client, Kill(c)
  PROVE  [Service!Next]_Service!vars
<1>1. /\ pc[c] \in {"send", "receive"} /\ pc'[c] = "gone"
      /\ stale' \in {stale, stale \cup {pid[c]}}
      /\ \A d \in Client \ {c} : pc'[d] = pc[d]
      /\ UNCHANGED <<pid, word, result>>
  BY DEF Kill, Goto, Inv, QueueInv
<1>2. CallOf(c)' = "gone"
  BY <1>1, CallValuesNext
<1>3. ASSUME NEW d \in Client \ {c} PROVE CallOf(d)' = CallOf(d)
  <2>1. CASE pc[d] = "gone"
    BY <1>1, <2>1, CallValues, CallValuesNext
  <2>2. CASE pc[d] # "gone"
    <3>1. pid[d] # pid[c]
      BY <1>1, <2>2, MsgqAssumption DEF Inv, PidInv, Alive
    <3> QED
      BY <1>1, <3>1, CallStays
  <2> QED
    BY <2>1, <2>2
<1>4. CASE CallOf(c) = "gone"
  BY <1>1, <1>2, <1>3, <1>4, CallsStay
<1>5. CASE CallOf(c) # "gone"
  BY <1>1, <1>2, <1>3, <1>5, Leaves
<1> QED
  BY <1>4, <1>5

\* Every step is one of the service, or none.
LEMMA ServiceStep ==
  ASSUME SourceIsText, Inv, TypeOK, [Next]_vars
  PROVE  [Service!Next]_Service!vars
<1>1. ASSUME NEW c \in Client, Send(c) PROVE UNCHANGED Service!vars
  <2>1. /\ pc[c] = "send" /\ pc'[c] = "receive"
        /\ \A d \in Client \ {c} : pc'[d] = pc[d]
        /\ UNCHANGED <<pid, stale, word, result>>
    BY <1>1 DEF Send, Goto, Inv, QueueInv
  <2>2. \A d \in Client \ {c} : CallOf(d)' = CallOf(d)
    BY <2>1, CallStays
  <2>3. CallOf(c)' = CallOf(c)
    BY <2>1, CallValues, CallValuesNext
  <2> QED
    BY <2>1, <2>2, <2>3, CallsStay
<1>2. ASSUME UNCHANGED <<pc, pid, stale, word, result>> PROVE UNCHANGED Service!vars
  BY <1>2, CallStays, CallsStay
<1>3. ASSUME ServerReceive \/ ServerReply \/ ServerStop \/ ServerStart \/ AtPrompt
             \/ UNCHANGED vars
      PROVE  UNCHANGED <<pc, pid, stale, word, result>>
  BY <1>3 DEF ServerReceive, ServerReply, ServerStop, ServerStart, AtPrompt,
              vars, clientVars
<1> QED
  BY <1>1, <1>2, <1>3, StartServes, AskServes, ReceiveServes, QuitServes, KillServes
     DEF Next, ClientStep, ServerStep

\* The queue implements the abstract service, with clients killed, pids used
\* again and the server restarted at any point, whatever the text of the listed
\* words that its file was made of.
THEOREM Implements == ASSUME SourceIsText PROVE Spec => ImplementsService
<1>1. Init => Service!Init
  BY ServiceInit
<1>2. Inv /\ TypeOK /\ [Next]_vars => [Service!Next]_Service!vars
  BY ServiceStep
<1> QED
  BY <1>1, <1>2, Invariance, TypeCorrect, PTL DEF Spec, ImplementsService, Service!Spec
=============================================================================
