-------------------------- MODULE SockLookupProofs ---------------------------
(***************************************************************************)
(* Proofs about SockLookup, for any number of clients and questions, any   *)
(* backlog, either kind of socket and any limit of processes, and any file *)
(* that was made of a text of the listed words, with its words in order.   *)
(*                                                                         *)
(* Inv is inductive.  A connection is in one place of the server, so that  *)
(* a client whose child has not died is served (QueueInv, LinkInv); what   *)
(* it writes is then the one record on its way (InStep), about its own     *)
(* word (RecordInv).                                                       *)
(***************************************************************************)
EXTENDS SockLookup, DictFileProofs

\* What lookup5.c finds.
LEMMA MapFinds ==
  ASSUME SourceIsText, InOrder(File)
  PROVE  \A w \in Word : MapFind(File, w) = Lookup(w) /\ MapFind(File, w) \in Answer
  BY Searches DEF Lookup, Answer

-----------------------------------------------------------------------------
(* Types.                                                                  *)

\* Nothing has been connected.
LEMMA TypeInit == Init => TypeOK
<1> SUFFICES ASSUME Init PROVE TypeOK
  OBVIOUS
<1>1. 0 \in 0..MaxAsk
  BY SockAssumption
<1>2. <<>> \in Seq(Client) /\ <<>> \in Seq(Word) /\ <<>> \in Seq(Answer)
  OBVIOUS
<1> QED
  BY <1>1, <1>2 DEF Init, TypeOK

\* Every step keeps the types.
LEMMA TypeStep ==
  ASSUME SourceIsText, InOrder(File), TypeOK, QueueInv, WordInv, [Next]_vars
  PROVE  TypeOK'
<1>1. backlog \in Seq(Client) /\ MaxAsk \in Nat /\ None \notin Client
  BY SockAssumption DEF TypeOK
<1>2. ASSUME NEW c \in Client, NEW w \in Word, Ask(c, w) PROVE TypeOK'
  <2>1. asks[c] + 1 \in 0..MaxAsk
    BY <1>1, <1>2 DEF TypeOK, Ask
  <2> QED
    BY <1>2, <2>1 DEF TypeOK, Ask, Goto, system, serverVars, sockVars
<1>3. ASSUME NEW c \in Client, Connect(c) PROVE TypeOK'
  <2>1. Append(backlog, c) \in Seq(Client)
    BY <1>1, Sent
  <2> QED
    BY <1>3, <2>1 DEF TypeOK, Connect, Goto, system, sockVars
<1>4. ASSUME NEW c \in Client, Write(c) PROVE TypeOK'
  <2>1. word[c] \in Word /\ up[c] \in Seq(Word)
    BY <1>4 DEF Write, WordInv, TypeOK
  <2>2. Append(up[c], word[c]) \in Seq(Word)
    BY <2>1, Sent
  <2>3. up' \in [Client -> Seq(Word)]
    BY <1>4, <2>2 DEF TypeOK, Write
  <2>4. pc' \in [Client -> {"idle", "connect", "write", "read", "gone"}] /\ reset' \in SUBSET Client
    BY <1>4 DEF TypeOK, Write, Goto
  <2>5. UNCHANGED <<tcp, nproc, backlog, parent, cd, kid, tryit, down, word, result, asks>>
    BY <1>4 DEF Write, system, serverVars
  <2> QED
    BY <2>3, <2>4, <2>5 DEF TypeOK
<1>5. ASSUME NEW c \in Client, Read(c) PROVE TypeOK'
  <2>1. down[c] # <<>> => Head(down[c]) \in Answer /\ Tail(down[c]) \in Seq(Answer)
    BY Received DEF TypeOK
  <2>2. down' = down \/ (down[c] # <<>> /\ down' = [down EXCEPT ![c] = Tail(down[c])])
    BY <1>5 DEF Read
  <2>3. result' = result \/ (down[c] # <<>> /\ result' = [result EXCEPT ![c] = Head(down[c])])
    BY <1>5 DEF Read
  <2>4. down' \in [Client -> Seq(Answer)]
    BY <2>1, <2>2 DEF TypeOK
  <2>5. result' \in [Client -> Answer \cup {Junk}]
    BY <2>1, <2>3 DEF TypeOK
  <2> QED
    BY <1>5, <2>4, <2>5 DEF TypeOK, Read, Goto, system, serverVars
<1>6. ASSUME NEW c \in Client, Leave(c) PROVE TypeOK'
  BY <1>6 DEF TypeOK, Leave, Goto, system, serverVars, sockVars
<1>7. ASSUME Accept PROVE TypeOK'
  <2>1. Head(backlog) \in Client /\ Tail(backlog) \in Seq(Client)
    BY <1>1, <1>7, Received DEF Accept
  <2> QED
    BY <1>7, <2>1 DEF TypeOK, Accept, system, sockVars, clientVars
<1>8. ASSUME Fork PROVE TypeOK'
  <2>1. backlog' \in {backlog, <<>>} /\ cd' \in {cd, None} /\ parent' \in {"close", "dead"}
    BY <1>8 DEF Fork
  <2>2. kid' \in {kid, [kid EXCEPT ![cd] = "read"]}
    BY <1>8 DEF Fork
  <2>3. kid' \in [Client -> {None, "read", "write", "zombie"}]
    BY <2>2 DEF TypeOK
  <2>4. <<>> \in Seq(Client)
    OBVIOUS
  <2>5. backlog' \in Seq(Client)
    BY <1>1, <2>1, <2>4
  <2> QED
    BY <1>8, <2>1, <2>3, <2>5 DEF TypeOK, Fork, system, sockVars, clientVars
<1>9. ASSUME Close PROVE TypeOK'
  BY <1>9 DEF TypeOK, Close, system, sockVars, clientVars
<1>10. ASSUME NEW c \in Client, KidRead(c) PROVE TypeOK'
  <2>1. up[c] # <<>> => Head(up[c]) \in Word /\ Tail(up[c]) \in Seq(Word)
    BY Received DEF TypeOK
  <2>2. up' = up \/ (up[c] # <<>> /\ up' = [up EXCEPT ![c] = Tail(up[c])])
    BY <1>10 DEF KidRead
  <2>3. tryit' = tryit \/ (up[c] # <<>> /\ tryit' = [tryit EXCEPT ![c] = Head(up[c])])
    BY <1>10 DEF KidRead
  <2>4. up' \in [Client -> Seq(Word)]
    BY <2>1, <2>2 DEF TypeOK
  <2>5. tryit' \in [Client -> Word \cup {Junk}]
    BY <2>1, <2>3 DEF TypeOK
  <2>6. kid' \in [Client -> {None, "read", "write", "zombie"}]
    BY <1>10 DEF TypeOK, KidRead
  <2> QED
    BY <1>10, <2>4, <2>5, <2>6 DEF TypeOK, KidRead, system, clientVars
<1>11. ASSUME NEW c \in Client, KidWrite(c) PROVE TypeOK'
  <2>1. pc[c] # "gone" => Append(down[c], MapFind(File, tryit[c])) \in Seq(Answer)
    BY <1>11, MapFinds, Sent DEF TypeOK, WordInv, KidWrite
  <2>2. down' \in [Client -> Seq(Answer)]
    BY <1>11, <2>1 DEF TypeOK, KidWrite
  <2>3. kid' \in [Client -> {None, "read", "write", "zombie"}] /\ reset' \in SUBSET Client
    BY <1>11 DEF TypeOK, KidWrite
  <2>4. UNCHANGED <<tcp, nproc, backlog, parent, cd, tryit, up, pc, word, result, asks>>
    BY <1>11 DEF KidWrite, system, clientVars
  <2> QED
    BY <2>2, <2>3, <2>4 DEF TypeOK
<1>12. ASSUME NEW c \in Client, KidDies(c) PROVE TypeOK'
  BY <1>12 DEF TypeOK, KidDies, system, clientVars
<1>13. ASSUME ParentDies PROVE TypeOK'
  BY <1>13 DEF TypeOK, ParentDies, system, sockVars, clientVars
<1>14. ASSUME UNCHANGED vars PROVE TypeOK'
  BY <1>14 DEF TypeOK, vars, system, serverVars, sockVars, clientVars
<1> QED
  BY <1>2, <1>3, <1>4, <1>5, <1>6, <1>7, <1>8, <1>9, <1>10, <1>11, <1>12, <1>13, <1>14
     DEF Next, ClientStep, ParentStep, KidStep, AtPrompt, Deaths
-----------------------------------------------------------------------------
(* Where a connection is.                                                  *)

\* connect() puts it last in the backlog.
LEMMA ConnectWaits ==
  ASSUME TypeOK, NEW c \in Client, backlog' = Append(backlog, c)
  PROVE  /\ \A d \in Client : Waiting(d)' => Waiting(d) \/ d = c
         /\ \A d \in Client : Waiting(d) \/ d = c => Waiting(d)'
<1>1. /\ Len(backlog) \in Nat /\ Len(backlog') = Len(backlog) + 1
      /\ \A k \in 1..Len(backlog) : backlog'[k] = backlog[k]
      /\ backlog'[Len(backlog) + 1] = c
  BY Sent DEF TypeOK
<1>2. 1..Len(backlog') = (1..Len(backlog)) \cup {Len(backlog) + 1}
  BY <1>1
<1>3. ASSUME NEW d \in Client, Waiting(d)' PROVE Waiting(d) \/ d = c
  BY <1>1, <1>2, <1>3 DEF Waiting
<1>4. ASSUME NEW d \in Client, Waiting(d) PROVE Waiting(d)'
  BY <1>1, <1>2, <1>4 DEF Waiting
<1>5. ASSUME NEW d \in Client, d = c PROVE Waiting(d)'
  BY <1>1, <1>2, <1>5 DEF Waiting
<1>6. \A d \in Client : Waiting(d)' => Waiting(d) \/ d = c
  BY <1>3
<1>7. \A d \in Client : Waiting(d) \/ d = c => Waiting(d)'
  BY <1>4, <1>5
<1> QED
  BY <1>6, <1>7

\* accept() takes the first one out of it.
LEMMA Taken ==
  ASSUME TypeOK, backlog # <<>>, backlog' = Tail(backlog),
         \A j, k \in 1..Len(backlog) : backlog[j] = backlog[k] => j = k
  PROVE  /\ Head(backlog) \in Client /\ Waiting(Head(backlog))
         /\ \A d \in Client : Waiting(d)' => Waiting(d) /\ d # Head(backlog)
         /\ \A d \in Client : Waiting(d) => d = Head(backlog) \/ Waiting(d)'
         /\ \A j, k \in 1..Len(backlog') : backlog'[j] = backlog'[k] => j = k
<1>1. /\ Head(backlog) \in Client /\ Head(backlog) = backlog[1]
      /\ Len(backlog) \in Nat \ {0} /\ Len(backlog') = Len(backlog) - 1
      /\ \A k \in 1..Len(backlog') : backlog'[k] = backlog[k + 1]
  BY Received DEF TypeOK
<1>2. \A k \in 1..Len(backlog') : k + 1 \in 1..Len(backlog) /\ k + 1 # 1
  BY <1>1
<1>3. \A k \in 1..Len(backlog) : k = 1 \/ (k - 1 \in 1..Len(backlog') /\ (k - 1) + 1 = k)
  BY <1>1
<1>4. 1 \in 1..Len(backlog)
  BY <1>1
<1>5. Waiting(Head(backlog))
  BY <1>1, <1>4 DEF Waiting
<1>6. ASSUME NEW d \in Client, Waiting(d)' PROVE Waiting(d) /\ d # Head(backlog)
  <2>1. PICK k \in 1..Len(backlog') : backlog'[k] = d
    BY <1>6 DEF Waiting
  <2>2. backlog[k + 1] = d /\ k + 1 \in 1..Len(backlog) /\ k + 1 # 1
    BY <1>1, <1>2, <2>1
  <2>3. d # backlog[1]
    BY <1>4, <2>2
  <2> QED
    BY <1>1, <2>2, <2>3 DEF Waiting
<1>7. ASSUME NEW d \in Client, Waiting(d) PROVE d = Head(backlog) \/ Waiting(d)'
  <2>1. PICK k \in 1..Len(backlog) : backlog[k] = d
    BY <1>7 DEF Waiting
  <2>2. CASE k = 1
    BY <1>1, <2>1, <2>2
  <2>3. CASE k - 1 \in 1..Len(backlog') /\ (k - 1) + 1 = k
    <3>1. backlog'[k - 1] = d
      BY <1>1, <2>1, <2>3
    <3> QED
      BY <2>3, <3>1 DEF Waiting
  <2> QED
    BY <1>3, <2>2, <2>3
<1>8. ASSUME NEW j \in 1..Len(backlog'), NEW k \in 1..Len(backlog'), backlog'[j] = backlog'[k]
      PROVE  j = k
  <2>1. j + 1 = k + 1
    BY <1>1, <1>2, <1>8
  <2> QED
    BY <2>1
<1> QED
  BY <1>1, <1>5, <1>6, <1>7, <1>8

\* Nobody waits in an empty backlog.
LEMMA NobodyWaits ==
  ASSUME NEW c
  PROVE  backlog = <<>> => ~Waiting(c)
  BY DEF Waiting

\* ... nor in one of the next state.
LEMMA NobodyWaitsNext ==
  ASSUME NEW c
  PROVE  backlog' = <<>> => ~Waiting(c)'
  BY DEF Waiting

\* What neither the parent nor connect() does leaves the queue as it is.
LEMMA QueueStays ==
  ASSUME TypeOK, QueueInv, UNCHANGED <<backlog, parent, cd>>,
         \A c \in Client : kid'[c] = None <=> kid[c] = None
  PROVE  QueueInv'
<1>1. \A c \in Client : Waiting(c)' => Waiting(c)
  BY DEF Waiting
<1>2. cd \in Client \cup {None} /\ parent \in {"accept", "fork", "close", "dead"}
  BY DEF TypeOK
<1>3. parent \in {"fork", "close"} => cd \in Client
  BY <1>2 DEF QueueInv
<1>4. \A c \in Client : Waiting(c)' => kid'[c] = None /\ cd' # c
  BY <1>1 DEF QueueInv
<1>5. (parent' = "fork" => kid'[cd'] = None) /\ (parent' = "close" => kid'[cd'] # None)
  BY <1>3 DEF QueueInv
<1> QED
  BY <1>4, <1>5 DEF QueueInv

\* A child that goes on or ends is still a child.
LEMMA KidStays ==
  ASSUME TypeOK, NEW c \in Client, KidRead(c) \/ KidWrite(c) \/ KidDies(c)
  PROVE  /\ UNCHANGED <<backlog, parent, cd, asks, pc>>
         /\ \A d \in Client : kid'[d] = None <=> kid[d] = None
<1>1. UNCHANGED <<backlog, parent, cd, asks, pc>>
  BY DEF KidRead, KidWrite, KidDies, clientVars
<1>2. kid[c] # None /\ \E k \in {"read", "write", "zombie"} : kid' = [kid EXCEPT ![c] = k]
  BY DEF KidRead, KidWrite, KidDies, None
<1>3. \A d \in Client : kid'[d] = None <=> kid[d] = None
  BY <1>2 DEF TypeOK, None
<1> QED
  BY <1>1, <1>3

\* A connection stays in one place.
LEMMA QueueStep ==
  ASSUME TypeOK, QueueInv, LinkInv, [Next]_vars
  PROVE  QueueInv'
<1>1. cd \in Client \cup {None} /\ None \notin Client
  BY SockAssumption DEF TypeOK
<1>2. /\ backlog \in Seq(Client) /\ kid \in [Client -> {None, "read", "write", "zombie"}]
      /\ parent \in {"accept", "fork", "close", "dead"}
  BY DEF TypeOK
<1>3. ASSUME NEW c \in Client, Connect(c) PROVE QueueInv'
  <2>1. CASE parent = "dead"
    BY <1>3, <2>1, QueueStays DEF Connect
  <2>2. CASE parent # "dead"
    <3>1. /\ backlog' = Append(backlog, c) /\ pc[c] = "connect"
          /\ UNCHANGED <<parent, cd, kid>>
      BY <1>3, <2>2 DEF Connect
    <3>2. ~Waiting(c) /\ cd # c /\ kid[c] = None
      BY <3>1 DEF LinkInv
    <3>3. \A d \in Client : Waiting(d)' => kid'[d] = None /\ cd' # d
      BY <3>1, <3>2, ConnectWaits DEF QueueInv
    <3>4. ASSUME NEW j \in 1..Len(backlog'), NEW k \in 1..Len(backlog'),
                 backlog'[j] = backlog'[k]
          PROVE  j = k
      <4>1. /\ Len(backlog) \in Nat /\ Len(backlog') = Len(backlog) + 1
            /\ \A i \in 1..Len(backlog) : backlog'[i] = backlog[i]
            /\ backlog'[Len(backlog) + 1] = c
        BY <1>2, <3>1, Sent
      <4>2. \A i \in 1..Len(backlog) : backlog[i] # c
        BY <3>2 DEF Waiting
      <4>3. \A i \in 1..Len(backlog') : i \in 1..Len(backlog) \/ i = Len(backlog) + 1
        BY <4>1
      <4> QED
        BY <3>4, <4>1, <4>2, <4>3 DEF QueueInv
    <3> QED
      BY <2>2, <3>1, <3>3, <3>4 DEF QueueInv
  <2> QED
    BY <2>1, <2>2
<1>4. ASSUME Accept PROVE QueueInv'
  <2>1. /\ parent = "accept" /\ backlog # <<>> /\ backlog' = Tail(backlog)
        /\ cd' = Head(backlog) /\ parent' = "fork" /\ UNCHANGED kid
    BY <1>4 DEF Accept
  <2>2. /\ Head(backlog) \in Client /\ Waiting(Head(backlog))
        /\ \A d \in Client : Waiting(d)' => Waiting(d) /\ d # Head(backlog)
        /\ \A j, k \in 1..Len(backlog') : backlog'[j] = backlog'[k] => j = k
    BY <2>1, Taken DEF QueueInv
  <2>3. kid[Head(backlog)] = None
    BY <2>2 DEF QueueInv
  <2>4. \A d \in Client : Waiting(d)' => kid'[d] = None /\ cd' # d
    BY <2>1, <2>2 DEF QueueInv
  <2> QED
    BY <1>1, <2>1, <2>2, <2>3, <2>4 DEF QueueInv
<1>5. ASSUME Fork PROVE QueueInv'
  <2>1. parent = "fork" /\ cd \in Client
    BY <1>1, <1>5 DEF Fork, QueueInv
  <2>2. CASE kid' = [kid EXCEPT ![cd] = "read"] /\ parent' = "close" /\ UNCHANGED <<backlog, cd>>
    <3>1. kid'[cd] # None
      BY <1>2, <2>1, <2>2 DEF None
    <3>2. \A d \in Client : Waiting(d)' => Waiting(d)
      BY <2>2 DEF Waiting
    <3>3. \A d \in Client : Waiting(d)' => kid'[d] = None /\ cd' # d
      BY <1>2, <2>2, <3>2 DEF QueueInv
    <3> QED
      BY <1>1, <2>1, <2>2, <3>1, <3>3 DEF QueueInv
  <2>3. CASE parent' = "dead" /\ cd' = None /\ backlog' = <<>>
    <3>1. \A j, k \in 1..Len(backlog') : FALSE
      BY <2>3
    <3> QED
      BY <2>3, <3>1, NobodyWaitsNext DEF QueueInv
  <2> QED
    BY <1>5, <2>2, <2>3 DEF Fork
<1>6. ASSUME Close PROVE QueueInv'
  <2>1. /\ parent' = "accept" /\ cd' = None /\ UNCHANGED <<backlog, kid>>
    BY <1>6 DEF Close
  <2>2. \A d \in Client : Waiting(d)' => Waiting(d)
    BY <2>1 DEF Waiting
  <2> QED
    BY <1>1, <2>1, <2>2 DEF QueueInv
<1>7. ASSUME ParentDies PROVE QueueInv'
  <2>1. parent' = "dead" /\ cd' = None /\ backlog' = <<>>
    BY <1>7 DEF ParentDies
  <2>2. \A j, k \in 1..Len(backlog') : FALSE
    BY <2>1
  <2> QED
    BY <2>1, <2>2, NobodyWaitsNext DEF QueueInv
<1>8. ASSUME NEW c \in Client, KidRead(c) \/ KidWrite(c) \/ KidDies(c) PROVE QueueInv'
  <2>1. UNCHANGED <<backlog, parent, cd>> /\ \A d \in Client : kid'[d] = None <=> kid[d] = None
    BY <1>8, KidStays
  <2> QED
    BY <2>1, QueueStays
<1>9. ASSUME UNCHANGED <<backlog, parent, cd, kid>> PROVE QueueInv'
  BY <1>9, QueueStays
<1>10. ASSUME NEW c \in Client,
              (\E w \in Word : Ask(c, w)) \/ Write(c) \/ Read(c) \/ Leave(c) \/ UNCHANGED vars
       PROVE  QueueInv'
  BY <1>9, <1>10 DEF Ask, Write, Read, Leave, vars, serverVars
<1>11. ASSUME UNCHANGED vars PROVE QueueInv'
  BY <1>9, <1>11 DEF vars, serverVars
<1> QED
  BY <1>3, <1>4, <1>5, <1>6, <1>7, <1>8, <1>10, <1>11
     DEF Next, ClientStep, ParentStep, KidStep, AtPrompt, Deaths

\* A client's link stays where neither its place in the server nor its
\* connect() is touched.
LEMMA LinkStays ==
  ASSUME LinkInv, UNCHANGED <<backlog, parent, cd, kid>>,
         \A d \in Client :
           /\ asks[d] > 0 /\ pc[d] # "connect" => asks'[d] > 0 /\ pc'[d] # "connect"
           /\ asks'[d] > 0 /\ pc'[d] \notin {"connect", "gone"}
                => asks[d] > 0 /\ pc[d] \notin {"connect", "gone"}
  PROVE  LinkInv'
<1>1. \A d \in Client : Waiting(d)' <=> Waiting(d)
  BY DEF Waiting
<1> QED
  BY <1>1 DEF LinkInv

\* Who has called connect(), and nobody else, has a place in the server.
LEMMA LinkStep ==
  ASSUME TypeOK, QueueInv, LinkInv, WordInv, [Next]_vars
  PROVE  LinkInv'
<1>1. /\ cd \in Client \cup {None} /\ None \notin Client
      /\ pc \in [Client -> {"idle", "connect", "write", "read", "gone"}]
      /\ kid \in [Client -> {None, "read", "write", "zombie"}]
      /\ asks \in [Client -> 0..MaxAsk] /\ MaxAsk \in Nat
  BY SockAssumption DEF TypeOK
<1>2. ASSUME NEW c \in Client, NEW w \in Word, Ask(c, w) PROVE LinkInv'
  <2>1. /\ pc[c] = "idle" /\ asks'[c] = asks[c] + 1 /\ asks[c] \in Nat
        /\ pc'[c] = IF asks[c] = 0 THEN "connect" ELSE "write"
        /\ \A d \in Client \ {c} : asks'[d] = asks[d] /\ pc'[d] = pc[d]
        /\ UNCHANGED <<backlog, parent, cd, kid>>
    BY <1>1, <1>2 DEF Ask, Goto, serverVars
  <2>2. asks[c] > 0 => pc'[c] = "write"
    BY <2>1
  <2>3. asks'[c] > 0 /\ (pc'[c] # "connect" => asks[c] > 0)
    BY <2>1
  <2> QED
    BY <2>1, <2>2, <2>3, LinkStays
<1>3. ASSUME NEW c \in Client, Connect(c) PROVE LinkInv'
  <2>1. /\ pc[c] = "connect" /\ asks[c] > 0
        /\ \A d \in Client \ {c} : pc'[d] = pc[d]
        /\ UNCHANGED <<parent, cd, kid, asks>>
    BY <1>1, <1>3 DEF Connect, Goto, WordInv
  <2>2. CASE parent = "dead"
    <3>1. pc'[c] = "gone" /\ UNCHANGED backlog
      BY <1>1, <1>3, <2>2 DEF Connect, Goto
    <3> QED
      BY <2>1, <3>1, LinkStays
  <2>3. CASE parent # "dead"
    <3>1. pc'[c] = "write" /\ backlog' = Append(backlog, c)
      BY <1>1, <1>3, <2>3 DEF Connect, Goto
    <3>2. /\ \A d \in Client : Waiting(d)' => Waiting(d) \/ d = c
          /\ \A d \in Client : Waiting(d) \/ d = c => Waiting(d)'
      BY <3>1, ConnectWaits
    <3> QED
      BY <2>1, <3>1, <3>2 DEF LinkInv
  <2> QED
    BY <2>2, <2>3
<1>4. ASSUME NEW c \in Client, Write(c) \/ Read(c) \/ Leave(c) PROVE LinkInv'
  <2>1. /\ UNCHANGED <<backlog, parent, cd, kid, asks>>
        /\ pc' = [pc EXCEPT ![c] = pc'[c]]
        /\ \/ pc[c] = "write" /\ pc'[c] = "read"
           \/ pc[c] = "read" /\ pc'[c] = "idle"
           \/ pc'[c] = "gone"
    BY <1>1, <1>4 DEF Write, Read, Leave, Goto, serverVars
  <2>2. \A d \in Client \ {c} : pc'[d] = pc[d]
    BY <1>1, <2>1
  <2> QED
    BY <2>1, <2>2, LinkStays
<1>5. ASSUME Accept PROVE LinkInv'
  <2>1. /\ parent = "accept" /\ backlog # <<>> /\ backlog' = Tail(backlog)
        /\ cd' = Head(backlog) /\ parent' = "fork" /\ UNCHANGED <<kid, asks, pc>>
    BY <1>5 DEF Accept, clientVars
  <2>2. /\ Waiting(Head(backlog)) /\ Head(backlog) \in Client
        /\ \A d \in Client : Waiting(d)' => Waiting(d)
        /\ \A d \in Client : Waiting(d) => d = Head(backlog) \/ Waiting(d)'
    BY <2>1, Taken DEF QueueInv
  <2>3. cd = None
    BY <2>1 DEF QueueInv
  <2> QED
    BY <1>1, <2>1, <2>2, <2>3 DEF LinkInv
<1>6. ASSUME Fork PROVE LinkInv'
  <2>1. parent = "fork" /\ cd \in Client /\ UNCHANGED <<asks, pc>>
    BY <1>1, <1>6 DEF Fork, QueueInv, clientVars
  <2>2. CASE kid' = [kid EXCEPT ![cd] = "read"] /\ parent' = "close" /\ UNCHANGED <<backlog, cd>>
    <3>1. \A d \in Client : Waiting(d)' <=> Waiting(d)
      BY <2>2 DEF Waiting
    <3>2. \A d \in Client : kid'[d] = IF d = cd THEN "read" ELSE kid[d]
      BY <1>1, <2>1, <2>2
    <3> QED
      BY <2>1, <2>2, <3>1, <3>2 DEF LinkInv, None
  <2>3. CASE parent' = "dead" /\ cd' = None /\ backlog' = <<>> /\ UNCHANGED kid
    BY <1>1, <2>1, <2>3, NobodyWaitsNext DEF LinkInv
  <2> QED
    BY <1>6, <2>2, <2>3 DEF Fork
<1>7. ASSUME Close PROVE LinkInv'
  <2>1. parent = "close" /\ cd' = None /\ UNCHANGED <<backlog, kid, asks, pc>>
    BY <1>7 DEF Close, clientVars
  <2>2. \A d \in Client : Waiting(d)' <=> Waiting(d)
    BY <2>1 DEF Waiting
  <2> QED
    BY <1>1, <2>1, <2>2 DEF LinkInv, QueueInv
<1>8. ASSUME ParentDies PROVE LinkInv'
  <2>1. parent' = "dead" /\ cd' = None /\ backlog' = <<>> /\ UNCHANGED <<kid, asks, pc>>
    BY <1>8 DEF ParentDies, clientVars
  <2> QED
    BY <1>1, <2>1, NobodyWaitsNext DEF LinkInv
<1>9. ASSUME NEW c \in Client, KidRead(c) \/ KidWrite(c) \/ KidDies(c) PROVE LinkInv'
  <2>1. /\ UNCHANGED <<backlog, parent, cd, asks, pc>>
        /\ \A d \in Client : kid'[d] = None <=> kid[d] = None
    BY <1>9, KidStays
  <2>2. \A d \in Client : Waiting(d)' <=> Waiting(d)
    BY <2>1 DEF Waiting
  <2> QED
    BY <2>1, <2>2 DEF LinkInv
<1>10. ASSUME UNCHANGED vars PROVE LinkInv'
  BY <1>10, LinkStays DEF vars, serverVars, clientVars
<1> QED
  BY <1>2, <1>3, <1>4, <1>5, <1>6, <1>7, <1>8, <1>9, <1>10
     DEF Next, ClientStep, ParentStep, KidStep, AtPrompt, Deaths

\* Who asks has a word, and so has the child that answers.
LEMMA WordStep ==
  ASSUME TypeOK, LinkInv, WordInv, [Next]_vars
  PROVE  WordInv'
<1>1. /\ pc \in [Client -> {"idle", "connect", "write", "read", "gone"}]
      /\ kid \in [Client -> {None, "read", "write", "zombie"}]
      /\ asks \in [Client -> 0..MaxAsk] /\ MaxAsk \in Nat
      /\ tryit \in [Client -> Word \cup {Junk}] /\ word \in [Client -> Word \cup {Junk}]
  BY SockAssumption DEF TypeOK
<1>2. ASSUME NEW c \in Client, NEW w \in Word, Ask(c, w) PROVE WordInv'
  <2>1. /\ pc[c] = "idle" /\ asks'[c] = asks[c] + 1 /\ asks[c] \in Nat /\ word'[c] = w
        /\ \A d \in Client \ {c} : asks'[d] = asks[d] /\ pc'[d] = pc[d] /\ word'[d] = word[d]
        /\ UNCHANGED <<kid, tryit>>
    BY <1>1, <1>2 DEF Ask, Goto, serverVars
  <2>2. asks'[c] > 0
    BY <2>1
  <2> QED
    BY <2>1, <2>2 DEF WordInv
<1>3. ASSUME NEW c \in Client, Connect(c) \/ Write(c) \/ Read(c) \/ Leave(c) PROVE WordInv'
  <2>1. /\ UNCHANGED <<kid, tryit, asks, word>>
        /\ \A d \in Client \ {c} : pc'[d] = pc[d]
        /\ \/ pc[c] \in {"connect", "write", "read"}
           \/ pc'[c] = "gone"
    BY <1>1, <1>3 DEF Connect, Write, Read, Leave, Goto, serverVars
  <2> QED
    BY <2>1 DEF WordInv
<1>4. ASSUME Fork PROVE WordInv'
  <2>1. \A d \in Client : kid'[d] = "write" => kid[d] = "write"
    BY <1>1, <1>4 DEF Fork
  <2> QED
    BY <1>4, <2>1 DEF Fork, WordInv, clientVars
<1>5. ASSUME NEW c \in Client, KidRead(c) PROVE WordInv'
  <2>1. /\ UNCHANGED <<pc, asks, word>>
        /\ \A d \in Client \ {c} : kid'[d] = kid[d] /\ tryit'[d] = tryit[d]
    BY <1>1, <1>5 DEF KidRead, clientVars
  <2>2. pc[c] # "gone" => tryit'[c] \in Word
    <3>1. up[c] # <<>> => Head(up[c]) \in Word
      BY Received DEF TypeOK
    <3> QED
      BY <1>1, <1>5, <3>1 DEF KidRead
  <2> QED
    BY <2>1, <2>2 DEF WordInv
<1>6. ASSUME NEW c \in Client, KidWrite(c) \/ KidDies(c) PROVE WordInv'
  <2>1. /\ UNCHANGED <<pc, asks, word, tryit>>
        /\ \A d \in Client : kid'[d] = "write" => kid[d] = "write"
    BY <1>1, <1>6 DEF KidWrite, KidDies, clientVars
  <2> QED
    BY <2>1 DEF WordInv
<1>7. ASSUME UNCHANGED <<pc, asks, word, kid, tryit>> PROVE WordInv'
  BY <1>7 DEF WordInv
<1>8. ASSUME Accept \/ Close \/ ParentDies \/ UNCHANGED vars PROVE WordInv'
  BY <1>7, <1>8 DEF Accept, Close, ParentDies, vars, clientVars, serverVars
<1> QED
  BY <1>2, <1>3, <1>4, <1>5, <1>6, <1>8
     DEF Next, ClientStep, ParentStep, KidStep, AtPrompt, Deaths
-----------------------------------------------------------------------------
(* One record on its way.                                                  *)

\* InStep and RecordInv for one client.
OneRecord(c) ==
  pc[c] # "gone" /\ ~Lost(c) =>
    /\ Len(up[c]) + Len(down[c]) + (IF kid[c] = "write" THEN 1 ELSE 0)
         = IF pc[c] = "read" THEN 1 ELSE 0
    /\ up[c] # <<>> => Head(up[c]) = word[c]
    /\ kid[c] = "write" => tryit[c] = word[c]
    /\ down[c] # <<>> => Head(down[c]) = Lookup(word[c])

LEMMA OneRecordParts == InStep /\ RecordInv <=> \A c \in Client : OneRecord(c)
  BY DEF InStep, RecordInv, OneRecord

\* Three places that hold none together.
LEMMA NoShares ==
  ASSUME NEW a \in Nat, NEW b \in Nat, NEW k \in {0, 1}, a + b + k = 0
  PROVE  a = 0 /\ b = 0 /\ k = 0
  OBVIOUS

\* Three places that hold one together.
LEMMA Shares ==
  ASSUME NEW a \in Nat, NEW b \in Nat, NEW k \in {0, 1}, a + b + k = 1
  PROVE  /\ a <= 1 /\ b <= 1
         /\ a # 0 => b = 0 /\ k = 0
         /\ b # 0 => a = 0 /\ k = 0
         /\ k = 1 => a = 0 /\ b = 0
  OBVIOUS

\* Before a client writes nothing is on its way.
LEMMA Nothing ==
  ASSUME TypeOK, NEW c \in Client, OneRecord(c), pc[c] # "gone", ~Lost(c), pc[c] # "read"
  PROVE  up[c] = <<>> /\ down[c] = <<>> /\ kid[c] # "write"
<1>1. up[c] \in Seq(Word) /\ down[c] \in Seq(Answer)
  BY DEF TypeOK
<1>2. Len(up[c]) \in Nat /\ Len(down[c]) \in Nat
  BY <1>1, LenProperties
<1>3. PICK k \in {0, 1} : k = IF kid[c] = "write" THEN 1 ELSE 0
  OBVIOUS
<1>4. Len(up[c]) = 0 /\ Len(down[c]) = 0 /\ kid[c] # "write"
  <2>1. Len(up[c]) + Len(down[c]) + k = 0
    BY <1>3 DEF OneRecord
  <2>2. Len(up[c]) = 0 /\ Len(down[c]) = 0 /\ k = 0
    BY <1>2, <2>1, NoShares
  <2> QED
    BY <1>3, <2>2
<1> QED
  BY <1>1, <1>4, EmptySeq

\* While it waits there is one record, in one place.
LEMMA Something ==
  ASSUME TypeOK, NEW c \in Client, OneRecord(c), ~Lost(c), pc[c] = "read"
  PROVE  /\ up[c] # <<>> => Len(up[c]) <= 1 /\ down[c] = <<>> /\ kid[c] # "write"
         /\ kid[c] = "write" => up[c] = <<>> /\ down[c] = <<>>
         /\ down[c] # <<>> => Len(down[c]) <= 1 /\ up[c] = <<>> /\ kid[c] # "write"
<1>1. up[c] \in Seq(Word) /\ down[c] \in Seq(Answer)
  BY DEF TypeOK
<1>2. Len(up[c]) \in Nat /\ Len(down[c]) \in Nat
  BY <1>1, LenProperties
<1>3. PICK k \in {0, 1} : k = IF kid[c] = "write" THEN 1 ELSE 0
  OBVIOUS
<1>4. Len(up[c]) + Len(down[c]) + k = 1
  BY <1>3 DEF OneRecord
<1>5. /\ Len(up[c]) <= 1 /\ Len(down[c]) <= 1
      /\ Len(up[c]) # 0 => Len(down[c]) = 0 /\ k = 0
      /\ Len(down[c]) # 0 => Len(up[c]) = 0 /\ k = 0
      /\ k = 1 => Len(up[c]) = 0 /\ Len(down[c]) = 0
  BY <1>2, <1>4, Shares
<1>6. (Len(up[c]) = 0 <=> up[c] = <<>>) /\ (Len(down[c]) = 0 <=> down[c] = <<>>)
  BY <1>1, EmptySeq
<1> QED
  BY <1>3, <1>5, <1>6

\* The places where the record can be after a step: nowhere,
LEMMA NowNothing ==
  ASSUME NEW c \in Client, pc'[c] # "read",
         up'[c] = <<>>, down'[c] = <<>>, kid'[c] # "write"
  PROVE  OneRecord(c)'
<1>1. Len(<<>>) = 0 /\ 0 + 0 + 0 = 0
  OBVIOUS
<1> QED
  BY <1>1 DEF OneRecord

\* on the way to the child,
LEMMA NowUp ==
  ASSUME NEW c \in Client, pc'[c] = "read", Len(up'[c]) = 1, Head(up'[c]) = word'[c],
         down'[c] = <<>>, kid'[c] # "write"
  PROVE  OneRecord(c)'
<1>1. Len(<<>>) = 0 /\ 1 + 0 + 0 = 1
  OBVIOUS
<1> QED
  BY <1>1 DEF OneRecord

\* with it,
LEMMA NowWithKid ==
  ASSUME NEW c \in Client, pc'[c] = "read", up'[c] = <<>>, down'[c] = <<>>,
         kid'[c] = "write", tryit'[c] = word'[c]
  PROVE  OneRecord(c)'
<1>1. Len(<<>>) = 0 /\ 0 + 0 + 1 = 1
  OBVIOUS
<1> QED
  BY <1>1 DEF OneRecord

\* or on the way back.
LEMMA NowDown ==
  ASSUME NEW c \in Client, pc'[c] = "read", up'[c] = <<>>, kid'[c] # "write",
         Len(down'[c]) = 1, Head(down'[c]) = Lookup(word'[c])
  PROVE  OneRecord(c)'
<1>1. Len(<<>>) = 0 /\ 0 + 1 + 0 = 1
  OBVIOUS
<1> QED
  BY <1>1 DEF OneRecord

\* A client that a step does not touch.
LEMMA Untouched ==
  ASSUME NEW d \in Client, OneRecord(d),
         up'[d] = up[d], down'[d] = down[d], kid'[d] = kid[d], tryit'[d] = tryit[d],
         pc'[d] = pc[d], word'[d] = word[d], asks'[d] = asks[d],
         parent = "dead" => parent' = "dead"
  PROVE  OneRecord(d)'
<1>1. Lost(d) => Lost(d)'
  BY DEF Lost
<1> QED
  BY <1>1 DEF OneRecord

\* A client that is connected to a server that lives is served.
LEMMA ServedOrLost ==
  ASSUME TypeOK, LinkInv, WordInv, NEW c \in Client, pc[c] \in {"write", "read"}
  PROVE  Served(c) \/ Lost(c)
<1>1. kid[c] \in {None, "read", "write", "zombie"} /\ asks[c] > 0
  BY DEF TypeOK, WordInv
<1>2. kid[c] = None /\ parent # "dead" => Waiting(c) \/ cd = c
  BY <1>1 DEF LinkInv
<1> QED
  BY <1>1, <1>2 DEF Served, Lost

\* A question.
LEMMA AskOne ==
  ASSUME Inv, NEW c \in Client, NEW w \in Word, Ask(c, w)
  PROVE  \A d \in Client : OneRecord(d)'
<1>1. /\ pc[c] = "idle" /\ asks'[c] = asks[c] + 1 /\ asks[c] \in Nat
      /\ pc'[c] = IF asks[c] = 0 THEN "connect" ELSE "write"
      /\ \A d \in Client \ {c} : asks'[d] = asks[d] /\ pc'[d] = pc[d] /\ word'[d] = word[d]
      /\ UNCHANGED <<up, down, kid, tryit, parent>>
  BY SockAssumption DEF Ask, Goto, serverVars, sockVars, Inv, TypeOK
<1>2. \A d \in Client : OneRecord(d)
  BY OneRecordParts DEF Inv
<1>3. CASE Lost(c)
  <2>1. asks[c] > 0 /\ asks'[c] > 0
    BY <1>1, <1>3 DEF Lost
  <2>2. pc'[c] # "connect" /\ Lost(c)'
    BY <1>1, <1>3, <2>1 DEF Lost
  <2> QED
    BY <1>1, <1>2, <2>2, Untouched DEF OneRecord
<1>4. CASE ~Lost(c)
  <2>1. up[c] = <<>> /\ down[c] = <<>> /\ kid[c] # "write"
    BY <1>1, <1>2, <1>4, Nothing DEF Inv
  <2>2. OneRecord(c)'
    BY <1>1, <2>1, NowNothing
  <2> QED
    BY <1>1, <1>2, <2>2, Untouched
<1> QED
  BY <1>3, <1>4

\* connect().
LEMMA ConnectOne ==
  ASSUME Inv, NEW c \in Client, Connect(c)
  PROVE  \A d \in Client : OneRecord(d)'
<1>1. /\ pc[c] = "connect" /\ pc'[c] \in {"gone", "write"}
      /\ \A d \in Client \ {c} : pc'[d] = pc[d]
      /\ UNCHANGED <<up, down, kid, tryit, word, asks, parent>>
  BY DEF Connect, Goto, sockVars, Inv, TypeOK
<1>2. \A d \in Client : OneRecord(d)
  BY OneRecordParts DEF Inv
<1>3. ~Lost(c)
  BY <1>1 DEF Lost
<1>4. up[c] = <<>> /\ down[c] = <<>> /\ kid[c] # "write"
  BY <1>1, <1>2, <1>3, Nothing DEF Inv
<1>5. OneRecord(c)'
  BY <1>1, <1>4, NowNothing
<1> QED
  BY <1>1, <1>2, <1>5, Untouched

\* The request is written.
LEMMA WriteOne ==
  ASSUME Inv, NEW c \in Client, Write(c)
  PROVE  \A d \in Client : OneRecord(d)'
<1>1. /\ pc[c] = "write" /\ pc'[c] \in {"gone", "read"}
      /\ \A d \in Client \ {c} : pc'[d] = pc[d] /\ up'[d] = up[d]
      /\ UNCHANGED <<down, kid, tryit, word, asks, parent>>
  BY DEF Write, Goto, serverVars, Inv, TypeOK
<1>2. \A d \in Client : OneRecord(d)
  BY OneRecordParts DEF Inv
<1>3. CASE Lost(c)
  <2>1. Lost(c)'
    BY <1>1, <1>3 DEF Lost
  <2> QED
    BY <1>1, <1>2, <2>1, Untouched DEF OneRecord
<1>4. CASE ~Lost(c)
  <2>1. Served(c)
    BY <1>1, <1>4, ServedOrLost DEF Inv
  <2>2. pc'[c] = "read" /\ up'[c] = Append(up[c], word[c]) /\ word[c] \in Word
    BY <2>1 DEF Write, Goto, Inv, TypeOK, WordInv
  <2>3. up[c] = <<>> /\ down[c] = <<>> /\ kid[c] # "write"
    BY <1>1, <1>2, <1>4, Nothing DEF Inv
  <2>4. Len(up'[c]) = 1 /\ Head(up'[c]) = word'[c]
    BY <1>1, <2>2, <2>3
  <2>5. OneRecord(c)'
    BY <1>1, <2>2, <2>3, <2>4, NowUp
  <2> QED
    BY <1>1, <1>2, <2>5, Untouched
<1> QED
  BY <1>3, <1>4

\* The reply is read.
LEMMA ReadOne ==
  ASSUME Inv, NEW c \in Client, Read(c)
  PROVE  \A d \in Client : OneRecord(d)'
<1>1. /\ pc[c] = "read" /\ pc'[c] = "idle"
      /\ \A d \in Client \ {c} : pc'[d] = pc[d] /\ down'[d] = down[d]
      /\ UNCHANGED <<up, kid, tryit, word, asks, parent>>
  BY DEF Read, Goto, serverVars, Inv, TypeOK
<1>2. \A d \in Client : OneRecord(d)
  BY OneRecordParts DEF Inv
<1>3. CASE Lost(c)
  <2>1. Lost(c)'
    BY <1>1, <1>3 DEF Lost
  <2> QED
    BY <1>1, <1>2, <2>1, Untouched DEF OneRecord
<1>4. CASE ~Lost(c)
  <2>1. Served(c)
    BY <1>1, <1>4, ServedOrLost DEF Inv
  <2>2. down[c] # <<>> /\ down'[c] = Tail(down[c]) /\ down[c] \in Seq(Answer)
    BY <2>1 DEF Read, Inv, TypeOK
  <2>3. Len(down[c]) <= 1 /\ up[c] = <<>> /\ kid[c] # "write"
    BY <1>1, <1>2, <1>4, <2>2, Something DEF Inv
  <2>4. down'[c] = <<>>
    BY <2>2, <2>3, LastReceived
  <2>5. OneRecord(c)'
    BY <1>1, <2>3, <2>4, NowNothing
  <2> QED
    BY <1>1, <1>2, <2>5, Untouched
<1> QED
  BY <1>3, <1>4

\* The parent accepts, closes its copy, or ends.
LEMMA ParentOne ==
  ASSUME Inv, Accept \/ Close \/ ParentDies \/ UNCHANGED vars
  PROVE  \A d \in Client : OneRecord(d)'
<1>1. UNCHANGED <<up, down, kid, tryit, pc, word, asks>> /\ (parent = "dead" => parent' = "dead")
  BY DEF Accept, Close, ParentDies, vars, serverVars, sockVars, clientVars
<1>2. \A d \in Client : OneRecord(d)
  BY OneRecordParts DEF Inv
<1> QED
  BY <1>1, <1>2, Untouched

\* It forks a child, which has nothing to answer yet, or has to end.
LEMMA ForkOne ==
  ASSUME Inv, Fork
  PROVE  \A d \in Client : OneRecord(d)'
<1>1. PICK c \in Client : c = cd /\ kid[c] = None /\ parent = "fork"
  BY DEF Fork, Inv, TypeOK, QueueInv
<1>2. UNCHANGED <<up, down, tryit, pc, word, asks>>
  BY DEF Fork, sockVars, clientVars
<1>3. \A d \in Client : OneRecord(d)
  BY OneRecordParts DEF Inv
<1>4. CASE UNCHANGED kid
  BY <1>1, <1>2, <1>3, <1>4, Untouched
<1>5. CASE kid' = [kid EXCEPT ![cd] = "read"]
  <2>1. kid'[c] = "read" /\ \A d \in Client \ {c} : kid'[d] = kid[d]
    BY <1>1, <1>5 DEF Inv, TypeOK
  <2>2. ~Lost(c)
    BY <1>1 DEF Lost, None
  <2>3. OneRecord(c)'
    BY <1>1, <1>2, <1>3, <2>1, <2>2 DEF OneRecord, None
  <2> QED
    BY <1>1, <1>2, <1>3, <2>1, <2>3, Untouched
<1> QED
  BY <1>4, <1>5 DEF Fork

\* The child takes the request.
LEMMA KidReadOne ==
  ASSUME Inv, NEW c \in Client, KidRead(c)
  PROVE  \A d \in Client : OneRecord(d)'
<1>1. /\ kid[c] = "read"
      /\ \A d \in Client \ {c} : kid'[d] = kid[d] /\ tryit'[d] = tryit[d] /\ up'[d] = up[d]
      /\ UNCHANGED <<down, pc, word, asks, parent>>
  BY DEF KidRead, clientVars, Inv, TypeOK
<1>2. \A d \in Client : OneRecord(d)
  BY OneRecordParts DEF Inv
<1>3. CASE pc[c] = "gone"
  BY <1>1, <1>2, <1>3, Untouched DEF OneRecord
<1>4. CASE pc[c] # "gone"
  <2>1. up[c] # <<>> /\ tryit'[c] = Head(up[c]) /\ up'[c] = Tail(up[c]) /\ kid'[c] = "write"
    BY <1>4 DEF KidRead, Inv, TypeOK
  <2>2. ~Lost(c)
    BY <1>1 DEF Lost, None
  <2>3. pc[c] = "read"
    BY <1>2, <1>4, <2>1, <2>2, Nothing DEF Inv
  <2>4. Len(up[c]) <= 1 /\ down[c] = <<>> /\ Head(up[c]) = word[c]
    BY <1>2, <2>1, <2>2, <2>3, Something DEF Inv, OneRecord
  <2>5. up'[c] = <<>>
    BY <2>1, <2>4, LastReceived DEF Inv, TypeOK
  <2>6. OneRecord(c)'
    BY <1>1, <2>1, <2>3, <2>4, <2>5, NowWithKid
  <2> QED
    BY <1>1, <1>2, <2>6, Untouched
<1> QED
  BY <1>3, <1>4

\* ... and writes the answer.
LEMMA KidWriteOne ==
  ASSUME SourceIsText, InOrder(File), Inv, NEW c \in Client, KidWrite(c)
  PROVE  \A d \in Client : OneRecord(d)'
<1>1. /\ kid[c] = "write"
      /\ \A d \in Client \ {c} : kid'[d] = kid[d] /\ down'[d] = down[d]
      /\ UNCHANGED <<up, tryit, pc, word, asks, parent>>
  BY DEF KidWrite, clientVars, Inv, TypeOK
<1>2. \A d \in Client : OneRecord(d)
  BY OneRecordParts DEF Inv
<1>3. CASE pc[c] = "gone"
  BY <1>1, <1>2, <1>3, Untouched DEF OneRecord
<1>4. CASE pc[c] # "gone"
  <2>1. down'[c] = Append(down[c], MapFind(File, tryit[c])) /\ kid'[c] = "read"
    BY <1>4 DEF KidWrite, Inv, TypeOK
  <2>2. ~Lost(c)
    BY <1>1 DEF Lost, None
  <2>3. pc[c] = "read"
    BY <1>1, <1>2, <1>4, <2>2, Nothing DEF Inv
  <2>4. up[c] = <<>> /\ down[c] = <<>> /\ tryit[c] = word[c] /\ word[c] \in Word
    BY <1>1, <1>2, <2>2, <2>3, Something DEF Inv, OneRecord, WordInv
  <2>5. Len(down'[c]) = 1 /\ Head(down'[c]) = Lookup(word'[c])
    <3>1. MapFind(File, tryit[c]) = Lookup(word'[c])
      BY <1>1, <2>4, MapFinds
    <3> QED
      BY <2>1, <2>4, <3>1
  <2>6. OneRecord(c)'
    BY <1>1, <2>1, <2>3, <2>4, <2>5, NowDown
  <2> QED
    BY <1>1, <1>2, <2>6, Untouched
<1> QED
  BY <1>3, <1>4

\* A client that leaves is excused, and one whose child ends.
LEMMA EndOne ==
  ASSUME Inv, NEW c \in Client, Leave(c) \/ KidDies(c)
  PROVE  \A d \in Client : OneRecord(d)'
<1>1. /\ \A d \in Client \ {c} : kid'[d] = kid[d] /\ pc'[d] = pc[d]
      /\ UNCHANGED <<up, down, tryit, word, asks, parent>>
  BY DEF Leave, Goto, KidDies, serverVars, sockVars, clientVars, Inv, TypeOK
<1>2. \A d \in Client : OneRecord(d)
  BY OneRecordParts DEF Inv
<1>3. pc'[c] = "gone" \/ Lost(c)'
  <2>1. CASE Leave(c)
    BY <2>1 DEF Leave, Goto, Inv, TypeOK
  <2>2. CASE KidDies(c)
    <3>1. kid[c] # None /\ kid'[c] = "zombie" /\ UNCHANGED <<pc, asks>>
      BY <2>2 DEF KidDies, clientVars, Inv, TypeOK, None
    <3>2. asks[c] > 0 /\ pc[c] # "connect"
      BY <3>1 DEF Inv, LinkInv
    <3> QED
      BY <3>1, <3>2 DEF Lost
  <2> QED
    BY <2>1, <2>2
<1> QED
  BY <1>1, <1>2, <1>3, Untouched DEF OneRecord

\* Every step keeps the invariant.
LEMMA InvStep ==
  ASSUME SourceIsText, InOrder(File), Inv, [Next]_vars
  PROVE  Inv'
<1>1. TypeOK' /\ QueueInv' /\ LinkInv' /\ WordInv'
  BY TypeStep, QueueStep, LinkStep, WordStep DEF Inv
<1>2. \A d \in Client : OneRecord(d)'
  BY AskOne, ConnectOne, WriteOne, ReadOne, ParentOne, ForkOne, KidReadOne, KidWriteOne, EndOne
     DEF Next, ClientStep, ParentStep, KidStep, AtPrompt, Deaths
<1>3. InStep' /\ RecordInv'
  BY <1>2 DEF InStep, RecordInv, OneRecord
<1> QED
  BY <1>1, <1>3 DEF Inv

\* ... which holds from the start.
LEMMA InvInit == Init => Inv
<1> SUFFICES ASSUME Init PROVE Inv
  OBVIOUS
<1>1. /\ backlog = <<>> /\ parent = "accept" /\ cd = None
      /\ \A c \in Client : /\ kid[c] = None /\ up[c] = <<>> /\ down[c] = <<>>
                           /\ pc[c] = "idle" /\ asks[c] = 0
  BY DEF Init
<1>2. \A c \in Client : ~Waiting(c)
  BY <1>1, NobodyWaits
<1>3. QueueInv
  <2>1. \A j, k \in 1..Len(backlog) : FALSE
    BY <1>1
  <2> QED
    BY <1>1, <1>2, <2>1 DEF QueueInv
<1>4. LinkInv /\ WordInv
  BY <1>1, <1>2, SockAssumption DEF LinkInv, WordInv, None
<1>5. ASSUME NEW c \in Client PROVE OneRecord(c)
  <2>1. Len(up[c]) = 0 /\ Len(down[c]) = 0 /\ 0 + 0 + 0 = 0
    BY <1>1
  <2> QED
    BY <1>1, <2>1 DEF OneRecord, None
<1> QED
  BY <1>3, <1>4, <1>5, TypeInit, OneRecordParts DEF Inv

\* Inv is inductive.
THEOREM Invariance == ASSUME SourceIsText, InOrder(File) PROVE Spec => []Inv
<1>1. Init => Inv
  BY InvInit
<1>2. Inv /\ [Next]_vars => Inv'
  BY InvStep
<1> QED
  BY <1>1, <1>2, PTL DEF Spec

\* Every variable keeps its type: whatever a child answers while its client
\* is there is a text of the dictionary.
THEOREM TypeCorrect == ASSUME SourceIsText, InOrder(File) PROVE Spec => []TypeOK
<1>1. Inv => TypeOK
  BY DEF Inv
<1> QED
  BY <1>1, Invariance, PTL

\* Until one of its sides dies a connection carries one exchange at a time,
\* whatever other processes die, and at every limit of processes (lookup7.c,
\* write query on socket; await reply).
THEOREM InStepAlways == ASSUME SourceIsText, InOrder(File) PROVE Spec => []InStep
<1>1. Inv => InStep
  BY DEF Inv
<1> QED
  BY <1>1, Invariance, PTL
-----------------------------------------------------------------------------
(* The sockets implement the abstract service.                             *)

\* The call of a client, by where the client is.
LEMMA CallValues ==
  ASSUME NEW c \in Client
  PROVE  /\ pc[c] = "gone" \/ Lost(c) => CallOf(c) = "gone"
         /\ pc[c] = "idle" /\ ~Lost(c) => CallOf(c) = "idle"
         /\ pc[c] \in {"connect", "write", "read"} /\ ~Lost(c) => CallOf(c) = "busy"
  BY DEF CallOf

\* The same after a step.
LEMMA CallValuesNext ==
  ASSUME NEW c \in Client
  PROVE  /\ pc'[c] = "gone" \/ Lost(c)' => CallOf(c)' = "gone"
         /\ pc'[c] = "idle" /\ ~Lost(c)' => CallOf(c)' = "idle"
         /\ pc'[c] \in {"connect", "write", "read"} /\ ~Lost(c)' => CallOf(c)' = "busy"
  BY DEF CallOf

\* A client that does not move, and whose child neither, stays in its call.
LEMMA CallStays ==
  ASSUME NEW c \in Client, pc'[c] = pc[c], asks'[c] = asks[c], kid'[c] = kid[c],
         parent = "dead" <=> parent' = "dead"
  PROVE  CallOf(c)' = CallOf(c)
  BY DEF CallOf, Lost

\* Where no call changes, the service does nothing.
LEMMA CallsStay ==
  ASSUME \A c \in Client : CallOf(c)' = CallOf(c), UNCHANGED <<word, result>>
  PROVE  [Service!Next]_Service!vars
  BY DEF Service!vars

\* The service lets clients go, or they are gone already.
LEMMA Leaves ==
  ASSUME \A c \in Client : CallOf(c)' = "gone" \/ CallOf(c)' = CallOf(c),
         UNCHANGED <<word, result>>
  PROVE  [Service!Next]_Service!vars
<1> DEFINE S == {c \in Client : CallOf(c) # "gone" /\ CallOf(c)' = "gone"}
<1>1. \A c \in Client : CallOf(c)' = IF c \in S THEN "gone" ELSE CallOf(c)
  OBVIOUS
<1>2. \A c \in S : c \in Client /\ CallOf(c) # "gone"
  OBVIOUS
<1>3. Service!Leave(S)
  BY <1>1, <1>2 DEF Service!Leave
<1>4. S \in SUBSET Client
  OBVIOUS
<1> HIDE DEF S
<1> QED
  BY <1>3, <1>4 DEF Service!Next

\* Where nothing is promised any more, a client does as it likes.
LEMMA IsAdrift ==
  ASSUME NEW c \in Client, CallOf(c) = "gone",
         \A d \in Client : CallOf(d)' = CallOf(d),
         word' = [word EXCEPT ![c] = word'[c]], result' = [result EXCEPT ![c] = result'[c]]
  PROVE  [Service!Next]_Service!vars
<1>1. Service!Adrift(c)
  BY DEF Service!Adrift
<1> QED
  BY <1>1 DEF Service!Next

\* Nobody has called.
LEMMA ServiceInit == Init => Service!Init
<1> SUFFICES ASSUME Init PROVE Service!Init
  OBVIOUS
<1>1. 0 > 0 <=> FALSE
  OBVIOUS
<1>2. \A c \in Client : CallOf(c) = "idle"
  BY <1>1 DEF Init, CallOf, Lost
<1> QED
  BY <1>2 DEF Init, Service!Init

\* A question is asked.
LEMMA AskServes ==
  ASSUME Inv, NEW c \in Client, NEW w \in Word, Ask(c, w)
  PROVE  [Service!Next]_Service!vars
<1>1. /\ pc[c] = "idle" /\ asks'[c] = asks[c] + 1 /\ asks[c] \in Nat
      /\ pc'[c] = IF asks[c] = 0 THEN "connect" ELSE "write"
      /\ \A d \in Client \ {c} : asks'[d] = asks[d] /\ pc'[d] = pc[d]
      /\ word' = [word EXCEPT ![c] = w] /\ UNCHANGED <<result, kid, parent>>
  BY SockAssumption DEF Ask, Goto, serverVars, Inv, TypeOK
<1>2. \A d \in Client \ {c} : CallOf(d)' = CallOf(d)
  BY <1>1, CallStays
<1>3. Lost(c) <=> Lost(c)'
  <2>1. CASE asks[c] = 0
    BY <1>1, <2>1 DEF Lost
  <2>2. CASE asks[c] # 0
    <3>1. asks[c] > 0 /\ asks'[c] > 0 /\ pc'[c] = "write"
      BY <1>1, <2>2
    <3> QED
      BY <1>1, <3>1 DEF Lost
  <2> QED
    BY <2>1, <2>2
<1>4. CASE Lost(c)
  <2>1. CallOf(c) = "gone" /\ CallOf(c)' = "gone"
    BY <1>3, <1>4, CallValues, CallValuesNext
  <2>2. word'[c] = w /\ result' = [result EXCEPT ![c] = result'[c]]
    BY <1>1 DEF Inv, TypeOK
  <2> QED
    BY <1>1, <1>2, <2>1, <2>2, IsAdrift
<1>5. CASE ~Lost(c)
  <2>1. CallOf(c) = "idle" /\ CallOf(c)' = "busy"
    BY <1>1, <1>3, <1>5, CallValues, CallValuesNext
  <2>2. Service!Ask(c, w)
    BY <1>1, <1>2, <2>1 DEF Service!Ask
  <2> QED
    BY <2>2 DEF Service!Next
<1> QED
  BY <1>4, <1>5

\* A read returns: the reply, as long as the child of the client lives.
LEMMA ReadServes ==
  ASSUME Inv, NEW c \in Client, Read(c)
  PROVE  [Service!Next]_Service!vars
<1>1. /\ pc[c] = "read" /\ pc'[c] = "idle"
      /\ \A d \in Client \ {c} : pc'[d] = pc[d]
      /\ result' = [result EXCEPT ![c] = result'[c]]
      /\ UNCHANGED <<word, kid, asks, parent>>
  BY DEF Read, Goto, serverVars, Inv, TypeOK
<1>2. /\ \A d \in Client \ {c} : CallOf(d)' = CallOf(d)
      /\ Lost(c) <=> Lost(c)'
  BY <1>1, CallStays DEF Lost
<1>3. CASE Lost(c)
  <2>1. CallOf(c) = "gone" /\ CallOf(c)' = "gone"
    BY <1>2, <1>3, CallValues, CallValuesNext
  <2>2. word' = [word EXCEPT ![c] = word'[c]]
    BY <1>1 DEF Inv, TypeOK
  <2> QED
    BY <1>1, <1>2, <2>1, <2>2, IsAdrift
<1>4. CASE ~Lost(c)
  <2>1. CallOf(c) = "busy" /\ CallOf(c)' = "idle"
    BY <1>1, <1>2, <1>4, CallValues, CallValuesNext
  <2>2. Served(c)
    BY <1>1, <1>4, ServedOrLost DEF Inv
  <2>3. down[c] # <<>> /\ result' = [result EXCEPT ![c] = Head(down[c])]
    BY <2>2 DEF Read
  <2>4. Head(down[c]) = Lookup(word[c])
    BY <1>1, <1>4, <2>3 DEF Inv, RecordInv
  <2>5. Service!Reply(c)
    BY <1>1, <1>2, <2>1, <2>3, <2>4 DEF Service!Reply, Service!Lookup, Lookup
  <2> QED
    BY <2>5 DEF Service!Next
<1> QED
  BY <1>3, <1>4

\* connect() and write() return, or the client ends of them, or leaves.
LEMMA ClientServes ==
  ASSUME Inv, NEW c \in Client, Connect(c) \/ Write(c) \/ Leave(c)
  PROVE  [Service!Next]_Service!vars
<1>1. /\ \A d \in Client \ {c} : pc'[d] = pc[d]
      /\ \/ pc[c] = "connect" /\ pc'[c] = "write" /\ parent # "dead"
         \/ pc[c] = "write" /\ pc'[c] = "read"
         \/ pc'[c] = "gone"
      /\ UNCHANGED <<word, result, kid, asks, parent>>
  BY DEF Connect, Write, Leave, Goto, serverVars, Inv, TypeOK
<1>2. \A d \in Client \ {c} : CallOf(d)' = CallOf(d)
  BY <1>1, CallStays
<1>3. CASE pc[c] = "connect" /\ pc'[c] = "write" /\ parent # "dead"
  <2>1. ~Lost(c) /\ ~Lost(c)'
    <3>1. kid[c] = None
      BY <1>3 DEF Inv, LinkInv
    <3> QED
      BY <1>1, <1>3, <3>1 DEF Lost, None
  <2>2. CallOf(c)' = CallOf(c)
    BY <1>3, <2>1, CallValues, CallValuesNext
  <2> QED
    BY <1>1, <1>2, <2>2, CallsStay
<1>4. CASE pc[c] = "write" /\ pc'[c] = "read"
  <2>1. Lost(c) <=> Lost(c)'
    BY <1>1, <1>4 DEF Lost
  <2>2. CallOf(c)' = CallOf(c)
    BY <1>4, <2>1, CallValues, CallValuesNext
  <2> QED
    BY <1>1, <1>2, <2>2, CallsStay
<1>5. CASE pc'[c] = "gone"
  <2>1. CallOf(c)' = "gone"
    BY <1>5, CallValuesNext
  <2> QED
    BY <1>1, <1>2, <2>1, Leaves
<1> QED
  BY <1>1, <1>3, <1>4, <1>5

\* The parent ends: the clients whose child has not been forked are let go.
LEMMA ParentServes ==
  ASSUME UNCHANGED <<pc, asks, kid, word, result>>, parent' = "dead"
  PROVE  [Service!Next]_Service!vars
<1>1. ASSUME NEW c \in Client PROVE CallOf(c)' = "gone" \/ CallOf(c)' = CallOf(c)
  <2>1. Lost(c) => Lost(c)'
    BY DEF Lost
  <2> QED
    BY <2>1 DEF CallOf
<1> QED
  BY <1>1, Leaves

\* A child is forked: its client was waiting for it.
LEMMA ForkServes ==
  ASSUME Inv, Fork
  PROVE  [Service!Next]_Service!vars
<1>1. PICK c \in Client : c = cd /\ kid[c] = None /\ parent = "fork"
  BY DEF Fork, Inv, TypeOK, QueueInv
<1>2. UNCHANGED <<pc, word, result, asks>>
  BY DEF Fork, clientVars
<1>3. CASE parent' = "dead" /\ UNCHANGED kid
  BY <1>2, <1>3, ParentServes
<1>4. CASE parent' = "close" /\ kid' = [kid EXCEPT ![cd] = "read"]
  <2>1. kid'[c] = "read" /\ \A d \in Client \ {c} : kid'[d] = kid[d]
    BY <1>1, <1>4 DEF Inv, TypeOK
  <2>2. ~Lost(c) /\ ~Lost(c)'
    BY <1>1, <2>1 DEF Lost, None
  <2>3. CallOf(c)' = CallOf(c)
    BY <1>2, <2>2 DEF CallOf
  <2>4. \A d \in Client \ {c} : CallOf(d)' = CallOf(d)
    BY <1>1, <1>2, <1>4, <2>1, CallStays
  <2> QED
    BY <1>2, <2>3, <2>4, CallsStay
<1> QED
  BY <1>3, <1>4 DEF Fork

\* A child goes on, or ends: its client is let go.
LEMMA KidServes ==
  ASSUME Inv, NEW c \in Client, KidRead(c) \/ KidWrite(c) \/ KidDies(c)
  PROVE  [Service!Next]_Service!vars
<1>1. /\ kid[c] \in {"read", "write"} /\ kid'[c] \in {"read", "write", "zombie"}
      /\ \A d \in Client \ {c} : kid'[d] = kid[d]
      /\ UNCHANGED <<pc, word, result, asks, parent>>
  BY DEF KidRead, KidWrite, KidDies, clientVars, Inv, TypeOK
<1>2. \A d \in Client \ {c} : CallOf(d)' = CallOf(d)
  BY <1>1, CallStays
<1>3. CallOf(c)' = "gone" \/ CallOf(c)' = CallOf(c)
  <2>1. ~Lost(c)
    BY <1>1 DEF Lost, None
  <2> QED
    BY <1>1, <2>1 DEF CallOf
<1> QED
  BY <1>1, <1>2, <1>3, Leaves

\* Every step is one of the service, or none.
LEMMA ServiceStep ==
  ASSUME Inv, [Next]_vars
  PROVE  [Service!Next]_Service!vars
<1>1. ASSUME Accept \/ Close \/ UNCHANGED vars PROVE [Service!Next]_Service!vars
  <2>1. /\ UNCHANGED <<pc, word, result, asks, kid>>
        /\ parent = "dead" <=> parent' = "dead"
    BY <1>1 DEF Accept, Close, vars, serverVars, clientVars
  <2> QED
    BY <2>1, CallStays, CallsStay
<1>2. ASSUME ParentDies PROVE [Service!Next]_Service!vars
  BY <1>2, ParentServes DEF ParentDies, clientVars
<1> QED
  BY <1>1, <1>2, AskServes, ReadServes, ClientServes, ForkServes, KidServes
     DEF Next, ClientStep, ParentStep, KidStep, AtPrompt, Deaths

\* No client whose child lives prints anything but the answer, whoever else
\* dies: the safety part of ImplementsService.
THEOREM Implements == ASSUME SourceIsText, InOrder(File) PROVE Spec => Service!Spec
<1>1. Init => Service!Init
  BY ServiceInit
<1>2. Inv /\ [Next]_vars => [Service!Next]_Service!vars
  BY ServiceStep
<1> QED
  BY <1>1, <1>2, Invariance, PTL DEF Spec, Service!Spec
=============================================================================
