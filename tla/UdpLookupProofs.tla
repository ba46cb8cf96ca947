--------------------------- MODULE UdpLookupProofs ---------------------------
(***************************************************************************)
(* Proofs about UdpLookup, for any number of clients, questions and copies *)
(* of a datagram, and any file that was made of a text of the listed       *)
(* words, with its words in order (SourceIsText and InOrder).              *)
(*                                                                         *)
(* Inv is inductive: a client that has no datagram on its way when it      *)
(* sends has one after it, which the server turns into the one reply that  *)
(* it takes (OneOnItsWay); the reply is the answer because the search of   *)
(* the file finds it (Searches of DictFileProofs).  The address of a       *)
(* client that is answered from where it asks never changes (AddressInv),  *)
(* so that only the others can send to another host.                       *)
(***************************************************************************)
EXTENDS UdpLookup, DictFileProofs

\* What lookup5.c finds.
LEMMA MapFinds ==
  ASSUME SourceIsText, InOrder(File)
  PROVE  \A w \in Word : MapFind(File, w) = Lookup(w) /\ MapFind(File, w) \in Answer
  BY Searches DEF Lookup, Answer

\* One datagram less.
LEMMA Taken ==
  ASSUME NEW V, NEW f \in [Client -> [V -> 0..MaxCopies]],
         NEW c \in Client, NEW v \in V, f[c][v] > 0,
         NEW g, g = [f EXCEPT ![c][v] = @ - 1]
  PROVE  /\ g \in [Client -> [V -> 0..MaxCopies]]
         /\ g[c][v] = f[c][v] - 1
         /\ \A u \in V \ {v} : g[c][u] = f[c][u]
         /\ \A d \in Client \ {c} : g[d] = f[d]
<1>1. f[c][v] - 1 \in 0..MaxCopies
  BY UdpAssumption
<1> QED
  BY <1>1

\* ... and nowhere more than before.
LEMMA TakenLess ==
  ASSUME NEW V, NEW f \in [Client -> [V -> 0..MaxCopies]],
         NEW c \in Client, NEW v \in V, f[c][v] > 0,
         NEW g, g = [f EXCEPT ![c][v] = @ - 1], NEW d \in Client
  PROVE  \A u \in V : g[d][u] \in Nat /\ g[d][u] <= f[d][u]
<1>1. \A u \in V : f[d][u] \in Nat
  BY UdpAssumption
<1>2. f[c][v] \in Nat \ {0}
  BY UdpAssumption
<1>3. \A u \in V : g[d][u] = f[d][u] \/ (d = c /\ u = v /\ g[d][u] = f[c][v] - 1)
  OBVIOUS
<1> QED
  BY <1>1, <1>2, <1>3

\* One more.
LEMMA Added ==
  ASSUME NEW V, NEW f \in [Client -> [V -> 0..MaxCopies]],
         NEW c \in Client, NEW v \in V, f[c][v] < MaxCopies,
         NEW g, g = [f EXCEPT ![c][v] = @ + 1]
  PROVE  /\ g \in [Client -> [V -> 0..MaxCopies]]
         /\ g[c][v] = f[c][v] + 1
         /\ \A u \in V \ {v} : g[c][u] = f[c][u]
         /\ \A d \in Client \ {c} : g[d] = f[d]
<1>1. f[c][v] + 1 \in 0..MaxCopies
  BY UdpAssumption
<1> QED
  BY <1>1

\* An address that is written over is one.
LEMMA Overwritten ==
  ASSUME NEW old \in Address, NEW new \in Address, NEW n
  PROVE  /\ Overwrite(old, new, n) \in Address
         /\ old = new => Overwrite(old, new, n) = old
  BY DEF Overwrite, Address

-----------------------------------------------------------------------------
(* Types.                                                                  *)

\* Nothing is on its way at first.
LEMMA TypeInit == Init => TypeOK
<1> SUFFICES ASSUME Init PROVE TypeOK
  OBVIOUS
<1>1. 0 \in 0..MaxCopies /\ 0 \in 0..MaxAsk
  BY UdpAssumption
<1>2. Asked \in [Client -> Address]
  BY UdpAssumption
<1> QED
  BY <1>1, <1>2 DEF Init, TypeOK

\* Every step keeps the types, also of what is on its way.
LEMMA TypeStep ==
  ASSUME SourceIsText, InOrder(File), TypeOK, AskedInv, [Next]_vars
  PROVE  TypeOK'
<1>1. /\ requests \in [Client -> [Word -> 0..MaxCopies]]
      /\ replies \in [Client -> [Answer -> 0..MaxCopies]]
      /\ MaxAsk \in Nat /\ MaxCopies \in Nat
  BY UdpAssumption DEF TypeOK
<1>2. ASSUME NEW c \in Client, NEW w \in Word, Ask(c, w) PROVE TypeOK'
  <2>1. asks[c] + 1 \in 0..MaxAsk
    BY <1>1, <1>2 DEF TypeOK, Ask
  <2> QED
    BY <1>2, <2>1 DEF TypeOK, Ask, Goto, netVars, history
<1>3. ASSUME NEW c \in Client, Send(c) PROVE TypeOK'
  <2>1. word[c] \in Word
    BY <1>3 DEF Send, AskedInv
  <2>2. requests' \in [Client -> [Word -> 0..MaxCopies]]
    <3>1. CASE UNCHANGED requests
      BY <1>1, <3>1
    <3>2. CASE requests[c][word[c]] < MaxCopies
               /\ requests' = [requests EXCEPT ![c][word[c]] = @ + 1]
      BY <1>1, <2>1, <3>2, Added
    <3> QED
      BY <1>3, <3>1, <3>2 DEF Send
  <2>3. astray' \in SUBSET Client
    BY <1>3 DEF Send, TypeOK
  <2> QED
    BY <1>3, <2>2, <2>3 DEF TypeOK, Send, Goto
<1>4. ASSUME NEW c \in Client, Receive(c) PROVE TypeOK'
  <2>1. PICK a \in Answer : /\ replies[c][a] > 0
                            /\ replies' = [replies EXCEPT ![c][a] = @ - 1]
                            /\ result' = [result EXCEPT ![c] = a]
    BY <1>4 DEF Receive
  <2>2. replies' \in [Client -> [Answer -> 0..MaxCopies]]
    BY <1>1, <2>1, Taken
  <2>3. PICK n \in 0..h_length :
          server' = [server EXCEPT ![c] = Overwrite(@, Answering[c], n)]
    BY <1>4 DEF Receive
  <2>4. server[c] \in Address /\ Answering[c] \in Address
    BY UdpAssumption DEF TypeOK
  <2>5. Overwrite(server[c], Answering[c], n) \in Address
    BY <2>4, Overwritten
  <2>6. server' \in [Client -> Address]
    BY <2>3, <2>5 DEF TypeOK
  <2> QED
    BY <1>4, <2>1, <2>2, <2>6 DEF TypeOK, Receive, Goto, history
<1>5. ASSUME NEW c \in Client, Leave(c) PROVE TypeOK'
  BY <1>5 DEF TypeOK, Leave, Goto, netVars, history
<1>6. ASSUME Serve PROVE TypeOK'
  <2>1. PICK c \in Client, w \in Word :
          /\ requests[c][w] > 0
          /\ requests' = [requests EXCEPT ![c][w] = @ - 1]
          /\ replies[c][MapFind(File, w)] < MaxCopies
          /\ replies' = [replies EXCEPT ![c][MapFind(File, w)] = @ + 1]
    BY <1>6 DEF Serve
  <2>2. MapFind(File, w) \in Answer
    BY MapFinds
  <2>3. requests' \in [Client -> [Word -> 0..MaxCopies]]
    BY <1>1, <2>1, Taken
  <2>4. replies' \in [Client -> [Answer -> 0..MaxCopies]]
    BY <1>1, <2>1, <2>2, Added
  <2> QED
    BY <1>6, <2>3, <2>4 DEF TypeOK, Serve, clientVars, history
<1>7. ASSUME NEW c \in Client, NEW w \in Word, requests[c][w] > 0,
             requests' = [requests EXCEPT ![c][w] = @ - 1]
      PROVE  requests' \in [Client -> [Word -> 0..MaxCopies]]
  BY <1>1, <1>7, Taken
<1>8. ASSUME NEW c \in Client, NEW a \in Answer, replies[c][a] > 0,
             replies' = [replies EXCEPT ![c][a] = @ - 1]
      PROVE  replies' \in [Client -> [Answer -> 0..MaxCopies]]
  BY <1>1, <1>8, Taken
<1>9. ASSUME Lose PROVE TypeOK'
  BY <1>1, <1>7, <1>8, <1>9 DEF TypeOK, Lose, clientVars
<1>10. ASSUME NEW n \in 1..(MaxCopies - 1) PROVE n < MaxCopies
  BY <1>1
<1>11. ASSUME NEW c \in Client, NEW w \in Word, requests[c][w] \in 1..(MaxCopies - 1),
              requests' = [requests EXCEPT ![c][w] = @ + 1]
       PROVE  requests' \in [Client -> [Word -> 0..MaxCopies]]
  BY <1>1, <1>10, <1>11, Added
<1>12. ASSUME NEW c \in Client, NEW a \in Answer, replies[c][a] \in 1..(MaxCopies - 1),
              replies' = [replies EXCEPT ![c][a] = @ + 1]
       PROVE  replies' \in [Client -> [Answer -> 0..MaxCopies]]
  BY <1>1, <1>10, <1>12, Added
<1>13. ASSUME Duplicate PROVE TypeOK'
  BY <1>1, <1>11, <1>12, <1>13 DEF TypeOK, Duplicate, clientVars
<1>14. ASSUME UNCHANGED vars PROVE TypeOK'
  BY <1>14 DEF TypeOK, vars, netVars, clientVars, history
<1> QED
  BY <1>2, <1>3, <1>4, <1>5, <1>6, <1>9, <1>13, <1>14 DEF Next, ClientStep
-----------------------------------------------------------------------------
(* One datagram at most on its way.                                        *)

\* Every step keeps a word for who has asked.
LEMMA AskedStep ==
  ASSUME TypeOK, AskedInv, [Next]_vars
  PROVE  AskedInv'
<1>1. pc \in [Client -> {"idle", "send", "receive", "gone"}]
  BY DEF TypeOK
<1>2. word \in [Client -> Word \cup {Junk}]
  BY DEF TypeOK
<1>3. ASSUME NEW c \in Client, NEW w \in Word, Ask(c, w) PROVE AskedInv'
  BY <1>1, <1>2, <1>3 DEF Ask, Goto, AskedInv
<1>4. ASSUME NEW c \in Client, Send(c) PROVE AskedInv'
  BY <1>1, <1>4 DEF Send, Goto, AskedInv
<1>5. ASSUME NEW c \in Client, Receive(c) PROVE AskedInv'
  BY <1>1, <1>5 DEF Receive, Goto, AskedInv
<1>6. ASSUME NEW c \in Client, Leave(c) PROVE AskedInv'
  BY <1>1, <1>6 DEF Leave, Goto, AskedInv
<1>7. ASSUME Serve \/ Lose \/ Duplicate \/ UNCHANGED vars PROVE AskedInv'
  BY <1>7 DEF Serve, Lose, Duplicate, vars, clientVars, AskedInv
<1> QED
  BY <1>3, <1>4, <1>5, <1>6, <1>7 DEF Next, ClientStep

\* What a step does not touch stays as it is.
LEMMA Untouched ==
  ASSUME NEW d \in Client, OneAt(d), requests'[d] = requests[d], replies'[d] = replies[d],
         pc'[d] = pc[d], word'[d] = word[d]
  PROVE  OneAt(d)'
  BY DEF OneAt, Ours

\* The counts of one client.
LEMMA CountTypes ==
  ASSUME TypeOK, NEW c \in Client
  PROVE  /\ \A w \in Word : requests[c][w] \in Nat
         /\ \A a \in Answer : replies[c][a] \in Nat
         /\ \A w \in Word : Lookup(w) \in Answer
  BY UdpAssumption DEF TypeOK, Lookup, Answer

\* A question: nothing is on its way.
LEMMA AskOne ==
  ASSUME Inv, NEW c \in Client, NEW w \in Word, Ask(c, w)
  PROVE  OneOnItsWay'
<1>1. /\ pc[c] = "idle" /\ pc'[c] = "send"
      /\ \A d \in Client \ {c} : pc'[d] = pc[d] /\ word'[d] = word[d]
      /\ UNCHANGED <<requests, replies, twice>>
  BY DEF Ask, Goto, Inv, TypeOK, netVars, history
<1>2. ASSUME NEW d \in Client \ twice PROVE OneAt(d)'
  <2>1. OneAt(d)
    BY DEF Inv, OneOnItsWay
  <2>2. CASE d = c
    BY <1>1, <2>1, <2>2 DEF OneAt
  <2>3. CASE d # c
    BY <1>1, <2>1, <2>3, Untouched
  <2> QED
    BY <2>2, <2>3
<1> QED
  BY <1>1, <1>2 DEF OneOnItsWay

\* The request is the only datagram, and there is none when it has gone to
\* another host.
LEMMA SendOne ==
  ASSUME Inv, NEW c \in Client, Send(c)
  PROVE  OneOnItsWay'
<1>1. /\ pc[c] = "send" /\ pc'[c] = "receive" /\ word[c] \in Word
      /\ \A d \in Client \ {c} : pc'[d] = pc[d]
      /\ UNCHANGED <<replies, word, twice>>
  BY DEF Send, Goto, Inv, TypeOK, AskedInv
<1>2. /\ requests'[c][word[c]] \in {requests[c][word[c]], requests[c][word[c]] + 1}
      /\ \A u \in Word \ {word[c]} : requests'[c][u] = requests[c][u]
      /\ \A d \in Client \ {c} : requests'[d] = requests[d]
  BY <1>1, Added DEF Send, Inv, TypeOK
<1>3. ASSUME NEW d \in Client \ twice PROVE OneAt(d)'
  <2>1. OneAt(d)
    BY DEF Inv, OneOnItsWay
  <2>2. CASE d = c
    <3>1. /\ \A w \in Word : ~ (requests[c][w] > 0)
          /\ \A a \in Answer : ~ (replies[c][a] > 0)
      BY <1>1, <2>1, <2>2 DEF OneAt
    <3>2. /\ \A w \in Word : requests[c][w] = 0
          /\ \A a \in Answer : replies[c][a] = 0
      BY <3>1, CountTypes DEF Inv
    <3>3. \A w \in Word : requests'[c][w] > 0 => w = word[c]
      BY <1>2, <3>2
    <3>4. requests'[c][word[c]] + replies[c][Lookup(word[c])] <= 1
      BY <1>1, <1>2, <3>2, CountTypes DEF Inv
    <3> QED
      BY <1>1, <2>2, <3>2, <3>3, <3>4 DEF OneAt, Ours
  <2>3. CASE d # c
    BY <1>1, <1>2, <2>1, <2>3, Untouched
  <2> QED
    BY <2>2, <2>3
<1> QED
  BY <1>1, <1>3 DEF OneOnItsWay

\* What a client that takes a reply had on its way was that reply.
LEMMA TheReply ==
  ASSUME Inv, NEW c \in Client \ twice, pc[c] = "receive",
         NEW a \in Answer, replies[c][a] > 0
  PROVE  /\ a = Lookup(word[c]) /\ replies[c][a] = 1
         /\ \A w \in Word : requests[c][w] = 0
         /\ \A u \in Answer \ {a} : replies[c][u] = 0
<1>1. OneAt(c) /\ word[c] \in Word
  BY DEF Inv, OneOnItsWay, AskedInv
<1>2. /\ \A w \in Word : requests[c][w] > 0 => w = word[c]
      /\ \A u \in Answer : replies[c][u] > 0 => u = Lookup(word[c])
      /\ requests[c][word[c]] + replies[c][Lookup(word[c])] <= 1
  BY <1>1 DEF OneAt, Ours
<1>3. /\ \A w \in Word : requests[c][w] \in Nat
      /\ \A u \in Answer : replies[c][u] \in Nat
  BY CountTypes DEF Inv
<1>4. a = Lookup(word[c])
  BY <1>2
<1>5. replies[c][a] = 1 /\ requests[c][word[c]] = 0
  <2>1. requests[c][word[c]] \in Nat /\ replies[c][a] \in Nat
    BY <1>1, <1>3
  <2> QED
    BY <1>2, <1>4, <2>1
<1>6. \A w \in Word : requests[c][w] = 0
  BY <1>2, <1>3, <1>5
<1>7. \A u \in Answer \ {a} : replies[c][u] = 0
  BY <1>2, <1>3, <1>4
<1> QED
  BY <1>4, <1>5, <1>6, <1>7

\* With the reply the last datagram is gone.
LEMMA ReceiveOne ==
  ASSUME Inv, NEW c \in Client, Receive(c)
  PROVE  OneOnItsWay'
<1>1. /\ pc[c] = "receive" /\ pc'[c] = "idle"
      /\ \A d \in Client \ {c} : pc'[d] = pc[d]
      /\ UNCHANGED <<requests, word, twice>>
  BY DEF Receive, Goto, Inv, TypeOK, history
<1>2. PICK a \in Answer : replies[c][a] > 0 /\ replies' = [replies EXCEPT ![c][a] = @ - 1]
  BY DEF Receive
<1>3. /\ replies'[c][a] = replies[c][a] - 1
      /\ \A u \in Answer \ {a} : replies'[c][u] = replies[c][u]
      /\ \A d \in Client \ {c} : replies'[d] = replies[d]
  BY <1>2, Taken DEF Inv, TypeOK
<1>4. ASSUME NEW d \in Client \ twice PROVE OneAt(d)'
  <2>1. OneAt(d)
    BY DEF Inv, OneOnItsWay
  <2>2. CASE d = c
    <3>1. /\ replies[c][a] = 1
          /\ \A w \in Word : requests[c][w] = 0
          /\ \A u \in Answer \ {a} : replies[c][u] = 0
      BY <1>1, <1>2, <2>2, TheReply
    <3>2. \A u \in Answer : replies'[c][u] = 0
      BY <1>3, <3>1
    <3> QED
      BY <1>1, <2>2, <3>1, <3>2 DEF OneAt
  <2>3. CASE d # c
    BY <1>1, <1>3, <2>1, <2>3, Untouched
  <2> QED
    BY <2>2, <2>3
<1> QED
  BY <1>1, <1>4 DEF OneOnItsWay

\* The server makes the reply of the request.
LEMMA ServeOne ==
  ASSUME SourceIsText, InOrder(File), Inv, Serve
  PROVE  OneOnItsWay'
<1>1. PICK c \in Client, w \in Word :
        /\ requests[c][w] > 0
        /\ requests' = [requests EXCEPT ![c][w] = @ - 1]
        /\ replies[c][MapFind(File, w)] < MaxCopies
        /\ replies' = [replies EXCEPT ![c][MapFind(File, w)] = @ + 1]
  BY DEF Serve
<1>2. MapFind(File, w) = Lookup(w) /\ Lookup(w) \in Answer
  BY MapFinds
<1>3. /\ requests'[c][w] = requests[c][w] - 1
      /\ \A u \in Word \ {w} : requests'[c][u] = requests[c][u]
      /\ \A d \in Client \ {c} : requests'[d] = requests[d]
  BY <1>1, Taken DEF Inv, TypeOK
<1>4. /\ replies'[c][Lookup(w)] = replies[c][Lookup(w)] + 1
      /\ \A u \in Answer \ {Lookup(w)} : replies'[c][u] = replies[c][u]
      /\ \A d \in Client \ {c} : replies'[d] = replies[d]
  BY <1>1, <1>2, Added DEF Inv, TypeOK
<1>5. UNCHANGED <<pc, word, twice>>
  BY DEF Serve, clientVars, history
<1>6. ASSUME NEW d \in Client \ twice PROVE OneAt(d)'
  <2>1. OneAt(d)
    BY DEF Inv, OneOnItsWay
  <2>2. CASE d = c /\ pc[c] # "gone"
    <3>1. /\ \A u \in Word : requests[c][u] > 0 => pc[c] = "receive" /\ u = word[c]
          /\ \A u \in Answer : replies[c][u] > 0 => pc[c] = "receive" /\ u = Lookup(word[c])
          /\ pc[c] = "receive" => requests[c][word[c]] + replies[c][Lookup(word[c])] <= 1
      BY <2>1, <2>2 DEF OneAt, Ours
    <3>2. pc[c] = "receive" /\ w = word[c]
      BY <1>1, <3>1
    <3>3. \A u \in Word : requests'[c][u] > 0 => u = w
      BY <1>3, <3>1, <3>2
    <3>4. \A u \in Answer : replies'[c][u] > 0 => u = Lookup(w)
      BY <1>4, <3>1, <3>2
    <3>5. requests'[c][w] + replies'[c][Lookup(w)] <= 1
      <4>1. requests[c][w] \in Nat /\ replies[c][Lookup(w)] \in Nat
        BY <1>2, CountTypes DEF Inv
      <4>2. requests[c][w] + replies[c][Lookup(w)] <= 1
        BY <3>1, <3>2
      <4> QED
        BY <1>3, <1>4, <4>1, <4>2
    <3> QED
      BY <1>5, <2>2, <3>2, <3>3, <3>4, <3>5 DEF OneAt, Ours
  <2>3. CASE d = c /\ pc[c] = "gone"
    BY <1>5, <2>3 DEF OneAt
  <2>4. CASE d # c
    BY <1>3, <1>4, <1>5, <2>1, <2>4, Untouched
  <2> QED
    BY <2>2, <2>3, <2>4
<1> QED
  BY <1>5, <1>6 DEF OneOnItsWay

\* Fewer datagrams.
LEMMA Fewer ==
  ASSUME Inv, NEW d \in Client \ twice, pc'[d] = pc[d], word'[d] = word[d],
         \A w \in Word : requests'[d][w] \in Nat /\ requests'[d][w] <= requests[d][w],
         \A a \in Answer : replies'[d][a] \in Nat /\ replies'[d][a] <= replies[d][a]
  PROVE  OneAt(d)'
<1>1. OneAt(d)
  BY DEF Inv, OneOnItsWay
<1>2. CASE pc[d] = "gone"
  BY <1>2 DEF OneAt
<1>3. CASE pc[d] # "gone"
  <2>1. /\ \A w \in Word : requests[d][w] > 0 => pc[d] = "receive" /\ w = word[d]
        /\ \A a \in Answer : replies[d][a] > 0 => pc[d] = "receive" /\ a = Lookup(word[d])
        /\ pc[d] = "receive" => requests[d][word[d]] + replies[d][Lookup(word[d])] <= 1
    BY <1>1, <1>3 DEF OneAt, Ours
  <2>2. /\ \A w \in Word : requests[d][w] \in Nat
        /\ \A a \in Answer : replies[d][a] \in Nat
    BY CountTypes DEF Inv
  <2>3. \A w \in Word : requests'[d][w] > 0 => requests[d][w] > 0
    BY <2>2
  <2>4. \A a \in Answer : replies'[d][a] > 0 => replies[d][a] > 0
    BY <2>2
  <2>5. ASSUME pc[d] = "receive" PROVE requests'[d][word[d]] + replies'[d][Lookup(word[d])] <= 1
    <3>1. word[d] \in Word /\ Lookup(word[d]) \in Answer
      BY <2>5, CountTypes DEF Inv, AskedInv
    <3>2. /\ requests[d][word[d]] \in Nat /\ requests'[d][word[d]] \in Nat
          /\ requests'[d][word[d]] <= requests[d][word[d]]
      BY <2>2, <3>1
    <3>3. /\ replies[d][Lookup(word[d])] \in Nat /\ replies'[d][Lookup(word[d])] \in Nat
          /\ replies'[d][Lookup(word[d])] <= replies[d][Lookup(word[d])]
      BY <2>2, <3>1
    <3> QED
      BY <2>1, <2>5, <3>2, <3>3
  <2> QED
    BY <2>1, <2>3, <2>4, <2>5 DEF OneAt, Ours
<1> QED
  BY <1>2, <1>3

\* A loss leaves fewer.
LEMMA LoseOne ==
  ASSUME Inv, Lose
  PROVE  OneOnItsWay'
<1>1. UNCHANGED <<pc, word, twice>>
  BY DEF Lose, clientVars
<1>2. /\ requests \in [Client -> [Word -> 0..MaxCopies]]
      /\ replies \in [Client -> [Answer -> 0..MaxCopies]]
  BY DEF Inv, TypeOK
<1>3. ASSUME NEW d \in Client \ twice PROVE OneAt(d)'
  <2>1. \A w \in Word : requests[d][w] \in Nat /\ requests[d][w] <= requests[d][w]
    BY CountTypes DEF Inv
  <2>2. \A a \in Answer : replies[d][a] \in Nat /\ replies[d][a] <= replies[d][a]
    BY CountTypes DEF Inv
  <2>3. ASSUME NEW c \in Client, NEW w \in Word, requests[c][w] > 0,
               requests' = [requests EXCEPT ![c][w] = @ - 1], UNCHANGED replies
        PROVE  OneAt(d)'
    <3>1. \A u \in Word : requests'[d][u] \in Nat /\ requests'[d][u] <= requests[d][u]
      BY <1>2, <2>3, TakenLess
    <3> QED
      BY <1>1, <2>2, <2>3, <3>1, Fewer
  <2>4. ASSUME NEW c \in Client, NEW a \in Answer, replies[c][a] > 0,
               replies' = [replies EXCEPT ![c][a] = @ - 1], UNCHANGED requests
        PROVE  OneAt(d)'
    <3>1. \A u \in Answer : replies'[d][u] \in Nat /\ replies'[d][u] <= replies[d][u]
      BY <1>2, <2>4, TakenLess
    <3> QED
      BY <1>1, <2>1, <2>4, <3>1, Fewer
  <2> QED
    BY <2>3, <2>4 DEF Lose
<1> QED
  BY <1>1, <1>3 DEF OneOnItsWay

\* A client whose datagram comes twice is excused, the others have no more.
LEMMA DuplicateOne ==
  ASSUME Inv, Duplicate
  PROVE  OneOnItsWay'
<1>1. PICK c \in Client :
        /\ twice' = twice \cup {c} /\ UNCHANGED <<pc, word>>
        /\ \A d \in Client \ {c} : requests'[d] = requests[d] /\ replies'[d] = replies[d]
  BY DEF Duplicate, clientVars, Inv, TypeOK
<1>2. ASSUME NEW d \in Client \ twice' PROVE OneAt(d)'
  <2>1. d \in Client \ twice /\ d # c
    BY <1>1
  <2> QED
    BY <1>1, <2>1, Untouched DEF Inv, OneOnItsWay
<1> QED
  BY <1>2 DEF OneOnItsWay

\* A client that has left is excused too.
LEMMA LeaveOne ==
  ASSUME Inv, NEW c \in Client, Leave(c)
  PROVE  OneOnItsWay'
<1>1. /\ pc'[c] = "gone"
      /\ \A d \in Client \ {c} : pc'[d] = pc[d]
      /\ UNCHANGED <<requests, replies, word, twice>>
  BY DEF Leave, Goto, Inv, TypeOK, netVars, history
<1>2. ASSUME NEW d \in Client \ twice PROVE OneAt(d)'
  <2>1. CASE d = c
    BY <1>1, <2>1 DEF OneAt
  <2>2. CASE d # c
    BY <1>1, <2>2, Untouched DEF Inv, OneOnItsWay
  <2> QED
    BY <2>1, <2>2
<1> QED
  BY <1>1, <1>2 DEF OneOnItsWay

\* Every step keeps the address of a client that is answered from there.
LEMMA AddressStep ==
  ASSUME Inv, [Next]_vars
  PROVE  AddressInv'
<1> SUFFICES ASSUME NEW d \in Client \ Elsewhere
             PROVE  server'[d] = Asked[d] /\ d \notin astray'
  BY DEF AddressInv, Elsewhere
<1>1. server[d] = Asked[d] /\ d \notin astray /\ Answering[d] = Asked[d]
  BY DEF Inv, AddressInv, Elsewhere
<1>2. Asked[d] \in Home /\ Asked[d] \in Address
  BY UdpAssumption
<1>3. ASSUME NEW c \in Client, Send(c) PROVE server'[d] = Asked[d] /\ d \notin astray'
  BY <1>1, <1>2, <1>3 DEF Send
<1>4. ASSUME NEW c \in Client, Receive(c) PROVE server'[d] = Asked[d] /\ d \notin astray'
  <2>1. PICK n \in 0..h_length :
          server' = [server EXCEPT ![c] = Overwrite(@, Answering[c], n)]
    BY <1>4 DEF Receive
  <2>2. server'[d] \in {server[d], Overwrite(server[d], Answering[d], n)}
    BY <2>1 DEF Inv, TypeOK
  <2>3. Overwrite(server[d], Answering[d], n) = Asked[d]
    BY <1>1, <1>2, Overwritten
  <2> QED
    BY <1>1, <1>4, <2>2, <2>3 DEF Receive, history
<1>5. ASSUME UNCHANGED <<server, astray>> PROVE server'[d] = Asked[d] /\ d \notin astray'
  BY <1>1, <1>5
<1>6. ASSUME NEW c \in Client, (\E w \in Word : Ask(c, w)) \/ Leave(c)
      PROVE  UNCHANGED <<server, astray>>
  BY <1>6 DEF Ask, Leave, history
<1>7. ASSUME Serve \/ Lose \/ Duplicate \/ UNCHANGED vars PROVE UNCHANGED <<server, astray>>
  BY <1>7 DEF Serve, Lose, Duplicate, vars, clientVars, history
<1> QED
  BY <1>3, <1>4, <1>5, <1>6, <1>7 DEF Next, ClientStep

\* Every step keeps the invariant.
LEMMA InvStep ==
  ASSUME SourceIsText, InOrder(File), Inv, [Next]_vars
  PROVE  Inv'
<1>1. TypeOK' /\ AskedInv' /\ AddressInv'
  BY TypeStep, AskedStep, AddressStep DEF Inv
<1>2. ASSUME UNCHANGED vars PROVE OneOnItsWay'
  BY <1>2, Untouched DEF vars, netVars, clientVars, history, Inv, OneOnItsWay
<1>3. OneOnItsWay'
  BY <1>2, AskOne, SendOne, ReceiveOne, LeaveOne, ServeOne, LoseOne, DuplicateOne
     DEF Next, ClientStep
<1> QED
  BY <1>1, <1>3 DEF Inv

\* ... which holds from the start.
LEMMA InvInit == Init => Inv
<1> SUFFICES ASSUME Init PROVE Inv
  OBVIOUS
<1>1. AskedInv /\ AddressInv
  BY DEF Init, AskedInv, AddressInv
<1>2. ASSUME NEW c \in Client PROVE OneAt(c)
  <2>1. /\ \A w \in Word : requests[c][w] = 0
        /\ \A a \in Answer : replies[c][a] = 0
        /\ pc[c] = "idle"
    BY DEF Init
  <2> QED
    BY <2>1 DEF OneAt
<1> QED
  BY <1>1, <1>2, TypeInit DEF Inv, OneOnItsWay

\* Inv is inductive.
THEOREM Invariance == ASSUME SourceIsText, InOrder(File) PROVE Spec => []Inv
<1>1. Init => Inv
  BY InvInit
<1>2. Inv /\ [Next]_vars => Inv'
  BY InvStep
<1> QED
  BY <1>1, <1>2, PTL DEF Spec

\* Every variable keeps its type: no count of datagrams leaves 0..MaxCopies.
THEOREM TypeCorrect == ASSUME SourceIsText, InOrder(File) PROVE Spec => []TypeOK
<1>1. Inv => TypeOK
  BY DEF Inv
<1> QED
  BY <1>1, Invariance, PTL

\* A client of which no datagram is duplicated has at most one on its way,
\* whatever happens to the datagrams of others (lookup9.c, send a datagram &
\* await reply).
THEOREM OneOnItsWayAlways ==
  ASSUME SourceIsText, InOrder(File) PROVE Spec => []OneOnItsWay
<1>1. Inv => OneOnItsWay
  BY DEF Inv
<1> QED
  BY <1>1, Invariance, PTL
-----------------------------------------------------------------------------
(* The datagrams implement the abstract service.                           *)

\* The call of a client, by where the client is.
LEMMA CallValues ==
  ASSUME NEW c \in Client
  PROVE  /\ pc[c] = "gone" \/ c \in Excused => CallOf(c) = "gone"
         /\ pc[c] = "idle" /\ c \notin Excused => CallOf(c) = "idle"
         /\ pc[c] \in {"send", "receive"} /\ c \notin Excused => CallOf(c) = "busy"
  BY DEF CallOf

\* The same after a step.
LEMMA CallValuesNext ==
  ASSUME NEW c \in Client
  PROVE  /\ pc'[c] = "gone" \/ c \in Excused' => CallOf(c)' = "gone"
         /\ pc'[c] = "idle" /\ c \notin Excused' => CallOf(c)' = "idle"
         /\ pc'[c] \in {"send", "receive"} /\ c \notin Excused' => CallOf(c)' = "busy"
  BY DEF CallOf

\* A client that does not move, and none of whose datagrams is lost or
\* duplicated, stays in its call.
LEMMA CallStays ==
  ASSUME NEW c \in Client, pc'[c] = pc[c],
         c \in Excused <=> c \in Excused'
  PROVE  CallOf(c)' = CallOf(c)
  BY DEF CallOf

\* The service lets a client go, or it is gone already.
LEMMA Leaves ==
  ASSUME NEW c \in Client, CallOf(c)' = "gone",
         \A d \in Client \ {c} : CallOf(d)' = CallOf(d), UNCHANGED <<word, result>>
  PROVE  [Service!Next]_Service!vars
<1>1. CASE CallOf(c) = "gone"
  BY <1>1 DEF Service!vars
<1>2. CASE CallOf(c) # "gone"
  <2>1. Service!Leave({c}) /\ {c} \in SUBSET Client
    BY <1>2 DEF Service!Leave
  <2> QED
    BY <2>1 DEF Service!Next
<1> QED
  BY <1>1, <1>2

\* Where nothing is promised any more, a client does as it likes.
LEMMA IsAdrift ==
  ASSUME NEW c \in Client, CallOf(c) = "gone",
         \A d \in Client : CallOf(d)' = CallOf(d),
         word' = [word EXCEPT ![c] = word'[c]], result' = [result EXCEPT ![c] = result'[c]]
  PROVE  [Service!Next]_Service!vars
<1>1. Service!Adrift(c)
  BY DEF Service!Adrift
<1> QED
  BY <1>1 DEF Service!Next

\* Where no call changes, the service does nothing.
LEMMA CallsStay ==
  ASSUME \A c \in Client : CallOf(c)' = CallOf(c), UNCHANGED <<word, result>>
  PROVE  UNCHANGED Service!vars
  BY DEF Service!vars

\* Nobody has called.
LEMMA ServiceInit == Init => Service!Init
<1> SUFFICES ASSUME Init PROVE Service!Init
  OBVIOUS
<1>1. \A c \in Client : CallOf(c) = "idle"
  BY CallValues DEF Init, Excused
<1> QED
  BY <1>1 DEF Init, Service!Init

\* A question is asked.
LEMMA AskServes ==
  ASSUME TypeOK, NEW c \in Client, NEW w \in Word, Ask(c, w)
  PROVE  [Service!Next]_Service!vars
<1>1. /\ pc[c] = "idle" /\ pc'[c] = "send"
      /\ \A d \in Client \ {c} : pc'[d] = pc[d]
      /\ word' = [word EXCEPT ![c] = w] /\ UNCHANGED <<result, Excused>>
  BY DEF Ask, Goto, TypeOK, history, Excused, Elsewhere
<1>2. \A d \in Client \ {c} : CallOf(d)' = CallOf(d)
  BY <1>1, CallStays
<1>3. CASE c \in Excused
  <2>1. CallOf(c) = "gone" /\ CallOf(c)' = "gone"
    BY <1>1, <1>3, CallValues, CallValuesNext
  <2>2. word'[c] = w /\ result' = [result EXCEPT ![c] = result'[c]]
    BY <1>1 DEF TypeOK
  <2> QED
    BY <1>1, <1>2, <2>1, <2>2, IsAdrift
<1>4. CASE c \notin Excused
  <2>1. CallOf(c) = "idle" /\ CallOf(c)' = "busy"
    BY <1>1, <1>4, CallValues, CallValuesNext
  <2>2. Service!Ask(c, w)
    BY <1>1, <1>2, <2>1 DEF Service!Ask
  <2> QED
    BY <2>2 DEF Service!Next
<1> QED
  BY <1>3, <1>4

\* A question is sent, or goes to another host, and its client is let go.
LEMMA SendServes ==
  ASSUME Inv, NEW c \in Client, Send(c)
  PROVE  [Service!Next]_Service!vars
<1>1. /\ pc[c] = "send" /\ pc'[c] = "receive"
      /\ \A d \in Client \ {c} : pc'[d] = pc[d]
      /\ UNCHANGED <<word, result, lost, twice>>
  BY DEF Send, Goto, Inv, TypeOK
<1>2. \A d \in Client \ {c} : d \in Excused <=> d \in Excused'
  BY <1>1 DEF Send, Excused, Elsewhere
<1>3. \A d \in Client \ {c} : CallOf(d)' = CallOf(d)
  BY <1>1, <1>2, CallStays
<1>4. CASE UNCHANGED astray
  <2>1. c \in Excused <=> c \in Excused'
    BY <1>1, <1>4 DEF Excused, Elsewhere
  <2>2. CallOf(c)' = CallOf(c)
    BY <1>1, <2>1, CallValues, CallValuesNext
  <2> QED
    BY <1>1, <1>3, <2>2, CallsStay
<1>5. CASE server[c] \notin Home /\ astray' = astray \cup {c}
  <2>1. Asked[c] \in Home
    BY UdpAssumption
  <2>2. c \in Elsewhere
    BY <1>5, <2>1 DEF Inv, AddressInv
  <2>3. c \in Excused'
    BY <1>5, <2>2 DEF Excused, Elsewhere
  <2>4. CallOf(c)' = "gone"
    BY <2>3, CallValuesNext
  <2> QED
    BY <1>1, <1>3, <2>4, Leaves
<1> QED
  BY <1>4, <1>5 DEF Send

\* A datagram is taken: the answer, when nothing was lost or came twice.
LEMMA ReceiveServes ==
  ASSUME Inv, NEW c \in Client, Receive(c)
  PROVE  [Service!Next]_Service!vars
<1>1. PICK a \in Answer : replies[c][a] > 0 /\ result' = [result EXCEPT ![c] = a]
  BY DEF Receive
<1>2. /\ pc[c] = "receive" /\ pc'[c] = "idle"
      /\ \A d \in Client \ {c} : pc'[d] = pc[d]
      /\ UNCHANGED <<word, Excused>>
  BY DEF Receive, Goto, Inv, TypeOK, history, Excused, Elsewhere
<1>3. \A d \in Client \ {c} : CallOf(d)' = CallOf(d)
  BY <1>2, CallStays
<1>4. CASE c \in Excused
  <2>1. CallOf(c) = "gone" /\ CallOf(c)' = "gone"
    BY <1>2, <1>4, CallValues, CallValuesNext
  <2>2. result'[c] = a /\ word' = [word EXCEPT ![c] = word'[c]]
    BY <1>1, <1>2 DEF Inv, TypeOK
  <2> QED
    BY <1>1, <1>3, <2>1, <2>2, IsAdrift
<1>5. CASE c \notin Excused
  <2>1. CallOf(c) = "busy" /\ CallOf(c)' = "idle"
    BY <1>2, <1>5, CallValues, CallValuesNext
  <2>2. a = Lookup(word[c])
    BY <1>1, <1>2, <1>5, TheReply DEF Excused
  <2>3. Service!Reply(c)
    BY <1>1, <1>2, <1>3, <2>1, <2>2 DEF Service!Reply, Service!Lookup, Lookup
  <2> QED
    BY <2>3 DEF Service!Next
<1> QED
  BY <1>4, <1>5

\* A client leaves.
LEMMA LeaveServes ==
  ASSUME TypeOK, NEW c \in Client, Leave(c)
  PROVE  [Service!Next]_Service!vars
<1>1. /\ pc'[c] = "gone"
      /\ \A d \in Client \ {c} : pc'[d] = pc[d]
      /\ UNCHANGED <<word, result, Excused>>
  BY DEF Leave, Goto, TypeOK, history, Excused, Elsewhere
<1>2. CallOf(c)' = "gone" /\ \A d \in Client \ {c} : CallOf(d)' = CallOf(d)
  BY <1>1, CallStays, CallValuesNext
<1> QED
  BY <1>1, <1>2, Leaves

\* The network loses or duplicates a datagram: its client is let go.
LEMMA NetworkServes ==
  ASSUME Lose \/ Duplicate
  PROVE  [Service!Next]_Service!vars
<1>1. PICK c \in Client :
        /\ Excused' = Excused \cup {c}
        /\ UNCHANGED <<pc, word, result>>
  BY DEF Lose, Duplicate, clientVars, Excused, Elsewhere
<1>2. CallOf(c)' = "gone" /\ \A d \in Client \ {c} : CallOf(d)' = CallOf(d)
  BY <1>1, CallStays, CallValuesNext
<1> QED
  BY <1>1, <1>2, Leaves

\* Every step is one of the service, or none.
LEMMA ServiceStep ==
  ASSUME Inv, [Next]_vars
  PROVE  [Service!Next]_Service!vars
<1>1. ASSUME Serve \/ UNCHANGED vars PROVE UNCHANGED Service!vars
  <2>1. UNCHANGED <<pc, word, result, Excused>>
    BY <1>1 DEF Serve, vars, clientVars, history, Excused, Elsewhere
  <2> QED
    BY <2>1, CallStays, CallsStay
<1> QED
  BY <1>1, AskServes, SendServes, ReceiveServes, LeaveServes, NetworkServes
     DEF Next, ClientStep, Inv

\* No client of which the network neither loses nor duplicates a datagram
\* prints anything but the answer, whatever siz lets through: the safety part
\* of ImplementsService.
THEOREM Implements == ASSUME SourceIsText, InOrder(File) PROVE Spec => Service!Spec
<1>1. Init => Service!Init
  BY ServiceInit
<1>2. Inv /\ [Next]_vars => [Service!Next]_Service!vars
  BY ServiceStep
<1> QED
  BY <1>1, <1>2, Invariance, PTL DEF Spec, Service!Spec
=============================================================================
