--------------------------- MODULE FifoLookupProofs ---------------------------
(***************************************************************************)
(* Proofs about FifoLookup, for any number of clients and questions, any   *)
(* words, and any file that was made of a text of the listed words.        *)
(*                                                                         *)
(* Inv is inductive.  Requests come out of the well-known FIFO in the      *)
(* order of each client's questions, and the one the server has is ahead   *)
(* of those and behind the answers written (RequestInv, ReplyInv): this    *)
(* orders the answers.  Before the first request nothing can be in a       *)
(* client's FIFO, so that what comes is the answer to it (FirstInv).  As   *)
(* long as nobody is killed or asks twice, the server finds the client it  *)
(* writes to at its read() (ServerInv).                                    *)
(***************************************************************************)
EXTENDS FifoLookup, DictFileProofs

\* What lookup2.c finds.
LEMMA IndexFinds ==
  ASSUME SourceIsText
  PROVE  \A w \in Word : IndexFind(File, w) = Lookup(w) /\ Lookup(w) \in Answer
  BY Searches DEF Lookup, Answer

\* NoRequest is no request.
LEMMA Requests ==
  /\ NoRequest \notin Request /\ NoRequest.n = 0
  /\ \A r \in Request : r.id \in Client /\ r.word \in Word /\ r.n \in Nat /\ r.n >= 1 /\ r.n <= MaxAsk
  /\ \A r \in Reply : r.n \in Nat /\ r.n <= MaxAsk
<1>1. NoRequest.n = 0 /\ \A r \in Request : r.n \in 1..MaxAsk
  BY DEF NoRequest, Request
<1>2. \A r \in Request : r.n # 0
  BY <1>1, FifoAssumption
<1> QED
  BY <1>1, <1>2, FifoAssumption DEF Request, Reply

\* What a read() leaves is in the order it was in, behind at most one text
\* that is none.
LEMMA AfterReadIs ==
  ASSUME NEW b \in Seq(Reply), b # <<>>
  PROVE  /\ AfterRead(b) \in Seq(Reply)
         /\ \A k \in 1..Len(AfterRead(b)) :
              \/ k = 1 /\ AfterRead(b)[k].n = 0
              \/ \E m \in 2..Len(b) : AfterRead(b)[k] = b[m]
         /\ \A j, k \in 1..Len(AfterRead(b)) : j < k =>
              \E m \in 2..Len(b) :
                /\ AfterRead(b)[k] = b[m]
                /\ \/ AfterRead(b)[j].n = 0
                   \/ \E l \in 2..Len(b) : l < m /\ AfterRead(b)[j] = b[l]
<1> DEFINE texts == {k \in 1..Len(b) : ~Short(b[k])}
           least == CHOOSE j \in texts : \A m \in texts : j <= m
           rest  == SubSeq(b, least + 1, Len(b))
           junk  == [text |-> Junk, n |-> 0]
<1>1. Len(b) \in Nat
  BY LenProperties
<1>2. CASE texts = {}
  <2>1. AfterRead(b) = <<>>
    BY <1>2 DEF AfterRead
  <2>2. AfterRead(b) \in Seq(Reply) /\ Len(AfterRead(b)) = 0
    BY <2>1, EmptySeq
  <2> QED
    BY <2>2
<1>3. CASE texts # {}
  <2>1. \E j \in texts : \A m \in texts : j <= m
    <3>1. texts \subseteq Nat
      BY <1>1
    <3> QED
      BY <1>3, <3>1, Least
  <2>2. least \in 1..Len(b)
    BY <2>1
  <2> HIDE DEF least
  <2>3. /\ rest \in Seq(Reply) /\ Len(rest) = Len(b) - least
        /\ \A k \in 1..Len(rest) : rest[k] = b[least + k] /\ least + k \in 2..Len(b)
    <3>1. /\ least + 1 \in Int /\ Len(b) \in Int
          /\ Len(b) - (least + 1) + 1 = Len(b) - least
      BY <1>1, <2>2
    <3>2. \A k \in (least + 1)..Len(b) : b[k] \in Reply
      BY <1>1, <2>2, ElementOfSeq
    <3>3. /\ rest \in Seq(Reply)
          /\ Len(rest) = IF least + 1 <= Len(b) THEN Len(b) - (least + 1) + 1 ELSE 0
          /\ \A k \in 1..Len(b) - (least + 1) + 1 : rest[k] = b[least + 1 + k - 1]
      BY <3>1, <3>2, SubSeqProperties
    <3> HIDE DEF rest
    <3>4. Len(rest) = Len(b) - least
      BY <1>1, <2>2, <3>3
    <3>5. \A k \in 1..Len(rest) : least + 1 + k - 1 = least + k /\ least + k \in 2..Len(b)
      BY <1>1, <2>2, <3>4
    <3> QED
      BY <3>1, <3>3, <3>4, <3>5
  <2>4. AfterRead(b) = IF least = 1 THEN rest ELSE <<junk>> \o rest
    BY <1>3 DEF AfterRead, least
  <2> HIDE DEF rest
  <2>5. CASE least = 1
    <3>1. AfterRead(b) = rest
      BY <2>4, <2>5
    <3>2. \A j, k \in 1..Len(rest) : j < k =>
            /\ least + j \in 2..Len(b) /\ least + k \in 2..Len(b)
            /\ least + j < least + k
            /\ rest[j] = b[least + j] /\ rest[k] = b[least + k]
      BY <1>1, <2>2, <2>3
    <3>3. \A j, k \in 1..Len(rest) : j < k =>
            \E m \in 2..Len(b) :
              /\ rest[k] = b[m]
              /\ \E l \in 2..Len(b) : l < m /\ rest[j] = b[l]
      BY <3>2, Zenon
    <3>4. \A k \in 1..Len(rest) : \E m \in 2..Len(b) : rest[k] = b[m]
      BY <2>3, Zenon
    <3>5. \A k \in 1..Len(rest) :
             \/ k = 1 /\ rest[k].n = 0
             \/ \E m \in 2..Len(b) : rest[k] = b[m]
      BY <3>4
    <3>6. \A j, k \in 1..Len(rest) : j < k =>
            \E m \in 2..Len(b) :
              /\ rest[k] = b[m]
              /\ rest[j].n = 0 \/ \E l \in 2..Len(b) : l < m /\ rest[j] = b[l]
      BY <3>3
    <3>7. rest \in Seq(Reply)
      BY <2>3
    <3> DEFINE after == AfterRead(b)
    <3>8. after = rest
      BY <3>1
    <3> HIDE DEF after
    <3>9. /\ after \in Seq(Reply)
          /\ \A k \in 1..Len(after) :
               \/ k = 1 /\ after[k].n = 0
               \/ \E m \in 2..Len(b) : after[k] = b[m]
      BY <3>5, <3>7, <3>8
    <3>10. \A j, k \in 1..Len(after) : j < k =>
             \E m \in 2..Len(b) :
               /\ after[k] = b[m]
               /\ after[j].n = 0 \/ \E l \in 2..Len(b) : l < m /\ after[j] = b[l]
      BY <3>6, <3>8
    <3> QED
      BY <3>9, <3>10 DEF after
  <2>6. CASE least # 1
    <3>1. AfterRead(b) = <<junk>> \o rest
      BY <2>4, <2>6
    <3>2. junk \in Reply /\ junk.n = 0
      BY FifoAssumption DEF Reply
    <3> HIDE DEF junk
    <3>3. <<junk>> \in Seq(Reply) /\ Len(<<junk>>) = 1 /\ <<junk>>[1] = junk
      BY <3>2
    <3>4. /\ <<junk>> \o rest \in Seq(Reply)
          /\ Len(<<junk>> \o rest) = 1 + Len(rest)
          /\ (<<junk>> \o rest)[1] = junk
          /\ \A k \in 1..Len(rest) : (<<junk>> \o rest)[k + 1] = rest[k]
      BY <2>3, <3>2, <3>3, ConcatProperties, LenProperties
    <3>5. \A k \in 1..Len(AfterRead(b)) : k = 1 \/ k - 1 \in 1..Len(rest)
      BY <1>1, <2>2, <2>3, <3>1, <3>4
    <3>6. \A k \in 1..Len(AfterRead(b)) :
            \/ k = 1 /\ AfterRead(b)[k].n = 0
            \/ k - 1 \in 1..Len(rest) /\ AfterRead(b)[k] = b[least + (k - 1)]
                 /\ least + (k - 1) \in 2..Len(b)
      BY <2>3, <3>1, <3>2, <3>4, <3>5
    <3>7. AfterRead(b) \in Seq(Reply)
      BY <3>1, <3>4
    <3>8. \A j, k \in 1..Len(AfterRead(b)) : j < k =>
            /\ k - 1 \in 1..Len(rest) /\ AfterRead(b)[k] = b[least + (k - 1)]
            /\ least + (k - 1) \in 2..Len(b)
            /\ \/ AfterRead(b)[j].n = 0
               \/ /\ AfterRead(b)[j] = b[least + (j - 1)] /\ least + (j - 1) \in 2..Len(b)
                  /\ least + (j - 1) < least + (k - 1)
      <4>1. TAKE j, k \in 1..Len(AfterRead(b))
      <4>2. HAVE j < k
      <4>3. j \in Int /\ k \in Int /\ k # 1
        BY <4>2
      <4>4. least + (j - 1) < least + (k - 1)
        BY <2>2, <4>2, <4>3
      <4> QED
        BY <3>6, <4>3, <4>4
    <3>9. \A k \in 1..Len(AfterRead(b)) :
            \/ k = 1 /\ AfterRead(b)[k].n = 0
            \/ \E m \in 2..Len(b) : AfterRead(b)[k] = b[m]
      BY <3>6, Zenon
    <3>10. \A j, k \in 1..Len(AfterRead(b)) : j < k =>
             \E m \in 2..Len(b) :
               /\ AfterRead(b)[k] = b[m]
               /\ \/ AfterRead(b)[j].n = 0
                  \/ \E l \in 2..Len(b) : l < m /\ AfterRead(b)[j] = b[l]
      BY <3>8, Zenon
    <3> QED
      BY <3>7, <3>9, <3>10, Zenon
  <2> QED
    BY <2>5, <2>6
<1> QED
  BY <1>2, <1>3
-----------------------------------------------------------------------------
(* Types.                                                                  *)

\* Nothing was asked yet.
LEMMA TypeInit == Init => TypeOK
<1> SUFFICES ASSUME Init PROVE TypeOK
  OBVIOUS
<1>1. 0 \in 0..MaxAsk
  BY FifoAssumption
<1>2. <<>> \in Seq(Request) /\ <<>> \in Seq(Reply)
  OBVIOUS
<1> QED
  BY <1>1, <1>2 DEF Init, TypeOK

\* Where a client is.
LEMMA Types ==
  ASSUME TypeOK
  PROVE  /\ pc \in [Client -> {"idle", "connect", "connecting", "unlink", "write", "open",
                               "opening", "read", "close", "failed", "gone", "killed"}]
         /\ \A c \in Client :
              /\ asks[c] \in Nat /\ got[c] \in Nat /\ asks[c] <= MaxAsk /\ got[c] <= MaxAsk
              /\ buf[c] \in Seq(Reply) /\ Len(buf[c]) \in Nat
              /\ \A k \in 1..Len(buf[c]) : buf[c][k] \in Reply /\ buf[c][k].n \in Nat
         /\ Len(requests) \in Nat
         /\ \A i \in 1..Len(requests) : requests[i] \in Request
         /\ cli.n \in Nat /\ (cli # NoRequest => cli \in Request)
<1>1. /\ asks \in [Client -> 0..MaxAsk] /\ got \in [Client -> 0..MaxAsk] /\ MaxAsk \in Nat
      /\ buf \in [Client -> Seq(Reply)] /\ requests \in Seq(Request)
      /\ cli \in Request \cup {NoRequest}
      /\ pc \in [Client -> {"idle", "connect", "connecting", "unlink", "write", "open",
                            "opening", "read", "close", "failed", "gone", "killed"}]
  BY FifoAssumption DEF TypeOK
<1>2. \A c \in Client : /\ buf[c] \in Seq(Reply) /\ Len(buf[c]) \in Nat
                        /\ \A k \in 1..Len(buf[c]) : buf[c][k] \in Reply
  BY <1>1, ElementOfSeq, LenProperties
<1>3. Len(requests) \in Nat /\ \A i \in 1..Len(requests) : requests[i] \in Request
  BY <1>1, ElementOfSeq, LenProperties
<1> QED
  BY <1>1, <1>2, <1>3, Requests

\* Every step keeps the types.
LEMMA TypeStep ==
  ASSUME SourceIsText, TypeOK, CallInv, [Next]_vars
  PROVE  TypeOK'
<1>1. ASSUME NEW c \in Client, NEW w \in Word, Ask(c, w) PROVE TypeOK'
  <2>1. asks[c] + 1 \in 0..MaxAsk
    BY <1>1, FifoAssumption DEF TypeOK, Ask
  <2> QED
    BY <1>1, <2>1 DEF TypeOK, Ask, Goto, fifoVars, serverVars
<1>2. ASSUME NEW c \in Client, Connect(c) PROVE TypeOK'
  BY <1>2 DEF TypeOK, Connect, Goto
<1>3. ASSUME NEW c \in Client, Unlink(c) PROVE TypeOK'
  BY <1>3 DEF TypeOK, Unlink, Goto, serverVars
<1>4. ASSUME NEW c \in Client, Write(c) PROVE TypeOK'
  <2>1. [id |-> c, word |-> word[c], n |-> asks[c]] \in Request
    <3>1. pc[c] = "write"
      BY <1>4 DEF Write
    <3>2. asks[c] > 0 /\ asks[c] \in 0..MaxAsk /\ word[c] \in Word
      BY <3>1 DEF CallInv, TypeOK
    <3>3. asks[c] \in 1..MaxAsk
      BY <3>2, FifoAssumption
    <3> QED
      BY <3>2, <3>3 DEF Request
  <2>2. requests' \in Seq(Request)
    <3>1. requests \in Seq(Request)
      BY DEF TypeOK
    <3>2. \/ requests' = requests
          \/ requests' = Append(requests, [id |-> c, word |-> word[c], n |-> asks[c]])
      BY <1>4 DEF Write
    <3> QED
      BY <2>1, <3>1, <3>2, Sent
  <2> QED
    BY <1>4, <2>2 DEF TypeOK, Write, Goto, serverVars
<1>5. ASSUME NEW c \in Client, Open(c) PROVE TypeOK'
  BY <1>5 DEF TypeOK, Open, Goto, fifoVars
<1>6. ASSUME NEW c \in Client, Read(c) PROVE TypeOK'
  <2>1. CASE buf[c] # <<>>
    <3>1. buf[c] \in Seq(Reply)
      BY DEF TypeOK
    <3>2. AfterRead(buf[c]) \in Seq(Reply) /\ Head(buf[c]) \in Reply
      BY <2>1, <3>1, AfterReadIs, Received
    <3>3. Head(buf[c]).text \in Answer \cup {Junk} /\ Head(buf[c]).n \in 0..MaxAsk
      BY <3>2 DEF Reply
    <3>4. /\ pc' = [pc EXCEPT ![c] = "close"]
          /\ buf' = [buf EXCEPT ![c] = AfterRead(buf[c])]
          /\ result' = [result EXCEPT ![c] = Head(buf[c]).text]
          /\ UNCHANGED <<named, requests, fd, word, asks, spc, cli>>
      BY <1>6, <2>1 DEF Read, Goto, serverVars
    <3>5. got' \in [Client -> 0..MaxAsk]
      BY <1>6, <2>1, <3>3 DEF TypeOK, Read
    <3>6. /\ buf' \in [Client -> Seq(Reply)] /\ result' \in [Client -> Answer \cup {Junk}]
          /\ pc' \in [Client -> {"idle", "connect", "connecting", "unlink", "write", "open",
                                 "opening", "read", "close", "failed", "gone", "killed"}]
      BY <3>2, <3>3, <3>4 DEF TypeOK
    <3> QED
      BY <3>4, <3>5, <3>6 DEF TypeOK
  <2>2. CASE buf[c] = <<>>
    BY <1>6, <2>2 DEF TypeOK, Read, Goto, serverVars
  <2> QED
    BY <2>1, <2>2
<1>7. ASSUME NEW c \in Client, Close(c) \/ Quit(c) \/ Kill(c) PROVE TypeOK'
  <2>1. /\ buf \in [Client -> Seq(Reply)] /\ <<>> \in Seq(Reply)
        /\ buf' = buf \/ buf' = [buf EXCEPT ![c] = <<>>]
    BY <1>7 DEF TypeOK, Close, Quit, Kill
  <2>2. buf' \in [Client -> Seq(Reply)]
    BY <2>1
  <2>3. fd' = fd \/ fd' = fd \ {c}
    BY <1>7 DEF Close, Quit, Kill
  <2>4. \E l \in {"idle", "gone", "killed"} : pc' = [pc EXCEPT ![c] = l]
    BY <1>7 DEF Close, Quit, Kill, Goto
  <2>5. UNCHANGED <<named, requests, word, result, asks, got, spc, cli>>
    BY <1>7 DEF Close, Quit, Kill, serverVars
  <2> QED
    BY <2>2, <2>3, <2>4, <2>5 DEF TypeOK
<1>8. ASSUME ServerListen PROVE TypeOK'
  BY <1>8 DEF TypeOK, ServerListen, fifoVars
<1>9. ASSUME ServerRead PROVE TypeOK'
  <2>1. requests \in Seq(Request)
    BY DEF TypeOK
  <2>2. requests # <<>> => Head(requests) \in Request /\ Tail(requests) \in Seq(Request)
    BY <2>1, Received
  <2> QED
    BY <1>9, <2>2 DEF TypeOK, ServerRead, clientVars
<1>10. ASSUME ServerOpen PROVE TypeOK'
  BY <1>10 DEF TypeOK, ServerOpen, fifoVars
<1>11. ASSUME ServerWrite PROVE TypeOK'
  <2>1. cli \in Request
    BY <1>11, Types DEF ServerWrite, CallInv
  <2>2. Found(cli) \in Reply
    BY <2>1, Requests, IndexFinds, FifoAssumption DEF Found, Reply, Request
  <2>3. \A c \in Client : Append(buf[c], Found(cli)) \in Seq(Reply)
    BY <2>2, Types, Sent
  <2>4. cli.id \in Client /\ buf \in [Client -> Seq(Reply)]
    BY <2>1, Requests DEF TypeOK
  <2>5. buf' \in [Client -> Seq(Reply)]
    BY <1>11, <2>3, <2>4 DEF ServerWrite
  <2> QED
    BY <1>11, <2>1, <2>5 DEF TypeOK, ServerWrite, clientVars
<1>12. ASSUME ServerClose PROVE TypeOK'
  BY <1>12, EmptySeq DEF TypeOK, ServerClose, clientVars
<1>13. ASSUME UNCHANGED vars PROVE TypeOK'
  BY <1>13 DEF TypeOK, vars, fifoVars, clientVars, serverVars
<1> QED
  BY <1>1, <1>2, <1>3, <1>4, <1>5, <1>6, <1>7, <1>8, <1>9, <1>10, <1>11, <1>12, <1>13
  DEF Next, ClientStep, Calls, ServerStep
-----------------------------------------------------------------------------
(* Where the clients are.                                                  *)

\* The reply FIFO of a client is not open at first, ...
LEMMA CallInit == Init => CallInv
  BY DEF Init, CallInv, Connected, Writing

\* ... and every step keeps who has which FIFO open.
LEMMA CallStep ==
  ASSUME TypeOK, CallInv, [Next]_vars
  PROVE  CallInv'
<1> USE DEF Connected, Writing
<1>1. /\ pc \in [Client -> {"idle", "connect", "connecting", "unlink", "write", "open",
                            "opening", "read", "close", "failed", "gone", "killed"}]
      /\ word \in [Client -> Word \cup {Junk}]
      /\ asks \in [Client -> 0..MaxAsk] /\ MaxAsk \in Nat
      /\ \A c \in Client : asks[c] \in Nat
  BY Types, FifoAssumption DEF TypeOK
<1>2. ASSUME NEW c \in Client, NEW w \in Word, Ask(c, w) PROVE CallInv'
  BY <1>1, <1>2 DEF CallInv, Ask, Goto, fifoVars, serverVars
<1>3. ASSUME NEW c \in Client, Connect(c) PROVE CallInv'
  BY <1>1, <1>3 DEF CallInv, Connect, Goto
<1>4. ASSUME NEW c \in Client, Unlink(c) PROVE CallInv'
  BY <1>1, <1>4 DEF CallInv, Unlink, Goto, serverVars
<1>5. ASSUME NEW c \in Client, Write(c) PROVE CallInv'
  BY <1>1, <1>5 DEF CallInv, Write, Goto, serverVars
<1>6. ASSUME NEW c \in Client, Open(c) PROVE CallInv'
  BY <1>1, <1>6 DEF CallInv, Open, Goto, fifoVars
<1>7. ASSUME NEW c \in Client, Read(c) PROVE CallInv'
  BY <1>1, <1>7 DEF CallInv, Read, Goto, serverVars
<1>8. ASSUME NEW c \in Client, Close(c) \/ Quit(c) \/ Kill(c) PROVE CallInv'
  BY <1>1, <1>8 DEF CallInv, Close, Quit, Kill, Goto, serverVars
<1>9. ASSUME ServerListen PROVE CallInv'
  BY <1>1, <1>9 DEF CallInv, ServerListen, fifoVars
<1>10. ASSUME ServerRead PROVE CallInv'
  BY <1>1, <1>10 DEF CallInv, ServerRead, clientVars
<1>11. ASSUME ServerOpen PROVE CallInv'
  BY <1>1, <1>11 DEF CallInv, ServerOpen, Reading, fifoVars
<1>12. ASSUME ServerWrite \/ ServerClose PROVE CallInv'
  BY <1>12 DEF CallInv, ServerWrite, ServerClose, clientVars
<1>13. ASSUME UNCHANGED vars PROVE CallInv'
  BY <1>13 DEF CallInv, vars, fifoVars, clientVars, serverVars
<1> QED
  BY <1>2, <1>3, <1>4, <1>5, <1>6, <1>7, <1>8, <1>9, <1>10, <1>11, <1>12, <1>13
  DEF Next, ClientStep, Calls, ServerStep

\* No more requests were written than questions asked.
LEMMA WrittenIs ==
  ASSUME TypeOK, CallInv, NEW c \in Client
  PROVE  Written(c) \in Nat /\ Written(c) <= asks[c] /\ asks[c] <= Written(c) + 1
  BY Types DEF Written, CallInv

\* The number of requests written only grows; a new question is behind them,
\* and who has left does not come back.
LEMMA Grows ==
  ASSUME TypeOK, CallInv, [Next]_vars, NEW d \in Client
  PROVE  /\ Written(d)' >= Written(d)
         /\ (asks'[d] = asks[d] /\ word'[d] = word[d]) \/ asks'[d] > Written(d)
         /\ pc[d] \in {"gone", "killed"} => pc'[d] = pc[d]
<1> USE DEF Written
<1>1. /\ pc \in [Client -> {"idle", "connect", "connecting", "unlink", "write", "open",
                            "opening", "read", "close", "failed", "gone", "killed"}]
      /\ word \in [Client -> Word \cup {Junk}]
      /\ asks \in [Client -> 0..MaxAsk] /\ MaxAsk \in Nat
      /\ asks[d] \in Nat
  BY Types, FifoAssumption DEF TypeOK
<1> DEFINE before == {"connect", "connecting", "unlink", "write", "failed"}
<1>2. CASE \E c \in Client, w \in Word : Ask(c, w)
  BY <1>1, <1>2 DEF Ask, Goto
<1>3. CASE ~ \E c \in Client, w \in Word : Ask(c, w)
  <2>1. asks' = asks /\ word' = word
    BY <1>3 DEF Next, ClientStep, Calls, ServerStep, Connect, Unlink, Write, Open, Read, Close,
                Quit, Kill, ServerListen, ServerRead, ServerOpen, ServerWrite, ServerClose,
                vars, fifoVars, clientVars, serverVars
  <2>2. ASSUME NEW c \in Client, ClientStep(c) \/ Quit(c) \/ Kill(c)
        PROVE  (pc'[d] \in before => pc[d] \in before) /\ (pc[d] \in {"gone", "killed"} => pc'[d] = pc[d])
    BY <1>1, <1>3, <2>2
    DEF ClientStep, Calls, Connect, Unlink, Write, Open, Read, Close, Quit, Kill, Goto
  <2>3. ASSUME ServerStep \/ UNCHANGED vars
        PROVE  (pc'[d] \in before => pc[d] \in before) /\ (pc[d] \in {"gone", "killed"} => pc'[d] = pc[d])
    <3>1. CASE ServerListen
      BY <1>1, <3>1 DEF ServerListen
    <3>2. CASE ServerOpen
      BY <1>1, <3>2 DEF ServerOpen
    <3>3. CASE ServerRead \/ ServerWrite \/ ServerClose \/ UNCHANGED vars
      BY <3>3 DEF ServerRead, ServerWrite, ServerClose, vars, clientVars
    <3> QED
      BY <2>3, <3>1, <3>2, <3>3 DEF ServerStep
  <2>4. (pc'[d] \in before => pc[d] \in before) /\ (pc[d] \in {"gone", "killed"} => pc'[d] = pc[d])
    BY <2>2, <2>3 DEF Next
  <2> QED
    BY <1>1, <2>1, <2>4
<1> QED
  BY <1>2, <1>3
-----------------------------------------------------------------------------
(* The order of requests and answers.                                      *)

\* What stays true of a request, and of the clients.
LEMMA Stays ==
  ASSUME SourceIsText, Inv, [Next]_vars
  PROVE  /\ \A r \in Request : Genuine(r) =>
              r.n <= Written(r.id)' /\ (r.n = asks'[r.id] => r.word = word'[r.id])
         /\ \A c \in Client : pc[c] \in {"gone", "killed"} => pc'[c] \in {"gone", "killed"}
         /\ \A c \in Client : /\ Written(c) \in Nat /\ Written(c)' \in Nat
                              /\ Written(c)' >= Written(c)
<1>1. TypeOK /\ CallInv /\ TypeOK'
  BY TypeStep DEF Inv
<1>2. ASSUME NEW c \in Client
      PROVE  /\ Written(c) \in Nat /\ Written(c)' \in Nat /\ Written(c)' >= Written(c)
             /\ asks'[c] \in Nat
  <2>1. Written(c) \in Nat /\ Written(c)' >= Written(c)
    BY <1>1, WrittenIs, Grows
  <2>2. asks'[c] \in Nat /\ Written(c)' \in Int
    BY <1>1, FifoAssumption DEF TypeOK, Written
  <2> QED
    BY <2>1, <2>2
<1>3. \A c \in Client : pc[c] \in {"gone", "killed"} => pc'[c] \in {"gone", "killed"}
  BY <1>1, Grows
<1>4. ASSUME NEW r \in Request, Genuine(r)
      PROVE  r.n <= Written(r.id)' /\ (r.n = asks'[r.id] => r.word = word'[r.id])
  <2>1. r.id \in Client /\ r.n \in Nat /\ r.n <= Written(r.id) /\ asks[r.id] \in Nat
    BY <1>1, <1>4, Requests, Types DEF Genuine
  <2>2. (asks'[r.id] = asks[r.id] /\ word'[r.id] = word[r.id]) \/ asks'[r.id] > Written(r.id)
    BY <1>1, <2>1, Grows
  <2>3. r.n <= Written(r.id)'
    BY <1>2, <2>1
  <2>4. CASE asks'[r.id] > Written(r.id)
    BY <1>2, <2>1, <2>3, <2>4
  <2>5. CASE asks'[r.id] = asks[r.id] /\ word'[r.id] = word[r.id]
    BY <1>4, <2>3, <2>5 DEF Genuine
  <2> QED
    BY <2>2, <2>4, <2>5
<1> QED
  BY <1>2, <1>3, <1>4

\* A client whose FIFO stays as it is, or is emptied.
LEMMA ReplyStays ==
  ASSUME SourceIsText, Inv, [Next]_vars, NEW c \in Client,
         got'[c] = got[c], buf'[c] = buf[c] \/ buf'[c] = <<>>
  PROVE  /\ ReplyInv(c)'
         /\ \A n \in Nat : Ahead(c, n) =>
              got'[c] < n /\ \A k \in 1..Len(buf'[c]) : buf'[c][k].n < n
<1>1. ReplyInv(c) /\ TypeOK
  BY DEF Inv
<1>2. /\ Written(c) \in Nat /\ Written(c)' \in Nat /\ Written(c)' >= Written(c)
      /\ got[c] \in Nat /\ \A k \in 1..Len(buf[c]) : buf[c][k].n \in Nat
  BY <1>1, Stays, Types
<1>3. CASE buf'[c] = buf[c]
  BY <1>1, <1>2, <1>3 DEF ReplyInv, Ahead
<1>4. CASE buf'[c] = <<>>
  <2>1. Len(buf'[c]) = 0 /\ 1..0 = {}
    BY <1>4
  <2> QED
    BY <1>1, <1>2, <1>4, <2>1 DEF ReplyInv, Ahead
<1> QED
  BY <1>3, <1>4

\* Steps that leave the requests where they are and read nothing.
LEMMA QuietStep ==
  ASSUME SourceIsText, Inv, [Next]_vars, UNCHANGED <<requests, cli, got>>,
         \A c \in Client : buf'[c] = buf[c] \/ buf'[c] = <<>>,
         spc' \in {"open", "opening", "write"} => spc \in {"open", "opening", "write"}
  PROVE  (\A c \in Client : ReplyInv(c)') /\ RequestInv'
<1>1. /\ \A c \in Client : ReplyInv(c)'
      /\ \A c \in Client, n \in Nat : Ahead(c, n) =>
           got'[c] < n /\ \A k \in 1..Len(buf'[c]) : buf'[c][k].n < n
  BY ReplyStays
<1>2. /\ \A i \in 1..Len(requests) : requests[i] \in Request
      /\ cli # NoRequest => cli \in Request
      /\ \A r \in Request : r.id \in Client /\ r.n \in Nat
  BY Types, Requests DEF Inv
<1>3. RequestInv
  BY DEF Inv
<1>4. ASSUME NEW i \in 1..Len(requests) PROVE Genuine(requests[i])' /\ Ahead(requests[i].id, requests[i].n)'
  <2>1. Genuine(requests[i]) /\ Ahead(requests[i].id, requests[i].n)
    BY <1>3 DEF RequestInv
  <2>2. requests[i] \in Request
    BY <1>2
  <2>3. /\ requests[i].n <= Written(requests[i].id)'
        /\ requests[i].n = asks'[requests[i].id] => requests[i].word = word'[requests[i].id]
    BY <2>1, <2>2, Stays
  <2> QED
    BY <1>1, <1>2, <2>1, <2>2, <2>3 DEF Genuine, Ahead
<1>5. cli # NoRequest => Genuine(cli)'
  BY <1>2, <1>3, Stays DEF Genuine, RequestInv
<1>6. cli # NoRequest /\ spc' \in {"open", "opening", "write"} =>
        pc'[cli.id] \in {"gone", "killed"} \/ Ahead(cli.id, cli.n)'
  BY <1>1, <1>2, <1>3, Stays DEF Ahead, RequestInv
<1> QED
  BY <1>1, <1>3, <1>4, <1>5, <1>6 DEF RequestInv

\* The request of the last question comes last.
LEMMA WriteStep ==
  ASSUME SourceIsText, Inv, [Next]_vars, NEW c \in Client, Write(c)
  PROVE  (\A d \in Client : ReplyInv(d)') /\ RequestInv'
<1>1. TypeOK /\ CallInv /\ RequestInv /\ ReplyInv(c)
  BY DEF Inv
<1>2. /\ pc[c] = "write" /\ UNCHANGED <<got, buf, asks, word, cli, spc>>
      /\ \A d \in Client \ {c} : pc'[d] = pc[d]
      /\ pc'[c] = IF spc = "dead" THEN "gone" ELSE "open"
  BY <1>1, Types DEF Write, Goto, serverVars
<1>3. CASE spc = "dead"
  BY <1>2, <1>3, QuietStep DEF Write
<1>4. CASE spc # "dead"
  <2> DEFINE new == [id |-> c, word |-> word[c], n |-> asks[c]]
  <2>1. requests' = Append(requests, new)
    BY <1>4 DEF Write
  <2>2. /\ asks[c] \in Nat /\ asks[c] > 0 /\ Written(c) = asks[c] - 1 /\ Written(c)' = asks[c]
        /\ word[c] \in Word
    BY <1>1, <1>2, <1>4, Types DEF CallInv, Written
  <2>3. new.id = c /\ new.n = asks[c] /\ new.word = word[c]
    OBVIOUS
  <2>4. new \in Request
    <3>1. asks[c] \in 1..MaxAsk
      BY <1>1, <2>2, Types, FifoAssumption
    <3> QED
      BY <2>2, <3>1 DEF Request
  <2> HIDE DEF new
  <2>5. /\ Len(requests) \in Nat /\ Len(requests') = Len(requests) + 1
        /\ \A i \in 1..Len(requests) : requests'[i] = requests[i]
        /\ requests'[Len(requests) + 1] = new
        /\ \A i \in 1..Len(requests') : i \in 1..Len(requests) \/ i = Len(requests) + 1
        /\ \A i \in 1..Len(requests) : requests[i] \in Request
    <3>1. requests \in Seq(Request)
      BY <1>1 DEF TypeOK
    <3> QED
      BY <1>1, <2>1, <2>4, <3>1, Sent, Types
  <2>6. \A d \in Client : ReplyInv(d)'
    BY <1>2, ReplyStays
  <2>7. \A d \in Client, n \in Nat : Ahead(d, n) =>
          got'[d] < n /\ \A k \in 1..Len(buf'[d]) : buf'[d][k].n < n
    BY <1>2, ReplyStays
  <2>8. ASSUME NEW i \in 1..Len(requests)
        PROVE  /\ requests[i].id \in Client /\ requests[i].n \in Nat
               /\ requests[i].n <= Written(requests[i].id)'
               /\ requests[i].n = asks'[requests[i].id] => requests[i].word = word'[requests[i].id]
               /\ got'[requests[i].id] < requests[i].n
               /\ \A k \in 1..Len(buf'[requests[i].id]) : buf'[requests[i].id][k].n < requests[i].n
               /\ requests[i].id = c => requests[i].n < new.n
    <3>1. /\ requests[i] \in Request /\ requests[i].id \in Client /\ requests[i].n \in Nat
          /\ Genuine(requests[i]) /\ Ahead(requests[i].id, requests[i].n)
      BY <1>1, <2>5, Requests DEF RequestInv
    <3>2. requests[i].id = c => requests[i].n < new.n
      BY <2>2, <2>3, <3>1 DEF Genuine
    <3>3. /\ requests[i].n <= Written(requests[i].id)'
          /\ requests[i].n = asks'[requests[i].id] => requests[i].word = word'[requests[i].id]
      BY <2>5, <3>1, Stays
    <3>4. /\ got'[requests[i].id] < requests[i].n
          /\ \A k \in 1..Len(buf'[requests[i].id]) : buf'[requests[i].id][k].n < requests[i].n
      BY <2>7, <3>1
    <3> QED
      BY <3>1, <3>2, <3>3, <3>4
  <2>9. /\ new.n <= Written(c)' /\ new.word = word'[c]
        /\ got'[c] < new.n
        /\ \A k \in 1..Len(buf'[c]) : buf'[c][k].n < new.n
    <3>1. \A k \in 1..Len(buf[c]) : buf[c][k].n \in Nat
      BY <1>1, Types
    <3>2. \A k \in 1..Len(buf[c]) : buf[c][k].n <= asks[c] - 1
      BY <1>1, <2>2 DEF ReplyInv
    <3>3. got[c] <= asks[c] - 1 /\ got[c] \in Nat
      BY <1>1, <2>2, Types DEF ReplyInv
    <3>4. \A k \in 1..Len(buf[c]) : buf[c][k].n < asks[c]
      BY <2>2, <3>1, <3>2
    <3> QED
      BY <1>2, <2>2, <2>3, <3>3, <3>4
  <2>10. cli.id = c => cli.n < new.n
    <3>1. CASE cli = NoRequest
      BY <2>2, <2>3, <3>1, Requests
    <3>2. CASE cli # NoRequest
      BY <1>1, <2>2, <2>3, <3>2, Types DEF RequestInv, Genuine
    <3> QED
      BY <3>1, <3>2
  <2>11. \A i \in 1..Len(requests') :
           /\ Genuine(requests[i])'
           /\ Ahead(requests[i].id, requests[i].n)'
           /\ cli'.id = requests'[i].id => cli'.n < requests'[i].n
    <3>1. ASSUME NEW i \in 1..Len(requests)
          PROVE  /\ Genuine(requests[i])'
                 /\ Ahead(requests[i].id, requests[i].n)'
                 /\ cli'.id = requests'[i].id => cli'.n < requests'[i].n
      <4>1. requests'[i] = requests[i]
        BY <2>5
      <4>2. cli.id = requests[i].id => cli.n < requests[i].n
        BY <1>1 DEF RequestInv
      <4> QED
        BY <1>2, <2>8, <4>1, <4>2 DEF Genuine, Ahead
    <3>2. ASSUME NEW i, i = Len(requests) + 1
          PROVE  /\ Genuine(requests[i])'
                 /\ Ahead(requests[i].id, requests[i].n)'
                 /\ cli'.id = requests'[i].id => cli'.n < requests'[i].n
      <4>1. requests'[i] = new
        BY <2>5, <3>2
      <4> QED
        BY <1>2, <2>3, <2>9, <2>10, <4>1 DEF Genuine, Ahead
    <3> QED
      BY <2>5, <3>1, <3>2
  <2>12. \A i, j \in 1..Len(requests') :
           i < j /\ requests'[i].id = requests'[j].id => requests'[i].n < requests'[j].n
    BY <1>1, <2>3, <2>5, <2>8 DEF RequestInv
  <2>13. cli' # NoRequest =>
           /\ Genuine(cli)'
           /\ spc' \in {"open", "opening", "write"} =>
                pc'[cli'.id] \in {"gone", "killed"} \/ Ahead(cli.id, cli.n)'
    <3>1. SUFFICES ASSUME cli # NoRequest
                   PROVE  /\ Genuine(cli)'
                          /\ spc' \in {"open", "opening", "write"} =>
                               pc'[cli'.id] \in {"gone", "killed"} \/ Ahead(cli.id, cli.n)'
      BY <1>2
    <3>2. cli \in Request /\ cli.id \in Client /\ cli.n \in Nat /\ Genuine(cli)
      BY <1>1, <3>1, Types, Requests DEF RequestInv
    <3>3. Genuine(cli)'
      BY <1>2, <3>2, Stays DEF Genuine
    <3> QED
      BY <1>1, <1>2, <2>7, <3>1, <3>2, <3>3, Stays DEF RequestInv, Ahead
  <2> QED
    BY <2>6, <2>11, <2>12, <2>13 DEF RequestInv
<1> QED
  BY <1>3, <1>4

\* The answer that is read is the next one; what is left is behind it.
LEMMA ReadStep ==
  ASSUME SourceIsText, Inv, [Next]_vars, NEW c \in Client, Read(c)
  PROVE  (\A d \in Client : ReplyInv(d)') /\ RequestInv'
<1>1. TypeOK /\ CallInv /\ RequestInv /\ ReplyInv(c) /\ TypeOK'
  BY TypeStep DEF Inv
<1>2. /\ UNCHANGED <<requests, asks, word, cli, spc>>
      /\ pc[c] = "read" /\ pc'[c] = "close"
      /\ \A d \in Client \ {c} : pc'[d] = pc[d] /\ buf'[d] = buf[d] /\ got'[d] = got[d]
  BY <1>1, Types DEF Read, Goto, serverVars, TypeOK
<1>3. CASE buf[c] = <<>>
  BY <1>2, <1>3, QuietStep DEF Read
<1>4. CASE buf[c] # <<>>
  <2> DEFINE b == buf[c]
             a == buf'[c]
  <2>1. /\ a = AfterRead(b) /\ b \in Seq(Reply)
        /\ got'[c] = IF Head(b).n = 0 THEN got[c] ELSE Head(b).n
    BY <1>1, <1>2, <1>4 DEF Read, TypeOK
  <2>2. /\ Head(b) = b[1] /\ 1 \in 1..Len(b) /\ Len(b) \in Nat
        /\ \A k \in 1..Len(b) : b[k].n \in Nat
    <3>1. Len(b) \in Nat \ {0} /\ Head(b) = b[1]
      BY <1>4, <2>1, Received
    <3> QED
      BY <1>1, <3>1, Types
  <2>3. /\ \A k \in 1..Len(a) :
              \/ k = 1 /\ a[k].n = 0
              \/ \E m \in 2..Len(b) : a[k] = b[m]
        /\ \A j, k \in 1..Len(a) : j < k =>
              \E m \in 2..Len(b) :
                /\ a[k] = b[m]
                /\ \/ a[j].n = 0
                   \/ \E l \in 2..Len(b) : l < m /\ a[j] = b[l]
    <3>1. /\ \A k \in 1..Len(AfterRead(b)) :
               \/ k = 1 /\ AfterRead(b)[k].n = 0
               \/ \E m \in 2..Len(b) : AfterRead(b)[k] = b[m]
          /\ \A j, k \in 1..Len(AfterRead(b)) : j < k =>
               \E m \in 2..Len(b) :
                 /\ AfterRead(b)[k] = b[m]
                 /\ \/ AfterRead(b)[j].n = 0
                    \/ \E l \in 2..Len(b) : l < m /\ AfterRead(b)[j] = b[l]
      BY <1>4, <2>1, AfterReadIs
    <3>2. a = AfterRead(b)
      BY <2>1
    <3> HIDE DEF a, b
    <3> QED
      BY <3>1, <3>2
  <2>4. /\ \A k \in 1..Len(b) : b[k].n <= Written(c) /\ (b[k].n # 0 => got[c] < b[k].n)
        /\ \A j, k \in 1..Len(b) : j < k => b[j].n < b[k].n
        /\ got[c] <= Written(c) /\ Written(c) # 0
    BY <1>1, <1>4 DEF ReplyInv
  <2>5. Written(c)' = Written(c) /\ Written(c) \in Nat /\ got[c] \in Nat
    BY <1>1, <1>2, Types, WrittenIs DEF Written
  <2> HIDE DEF a, b
  <2>6. \A m \in 2..Len(b) : /\ m \in 1..Len(b) /\ b[m].n \in Nat /\ b[m].n > b[1].n
                             /\ b[m].n # 0 /\ got'[c] < b[m].n /\ b[m].n <= Written(c)
    BY <2>1, <2>2, <2>4, <2>5
  <2>7. got'[c] <= Written(c) /\ got'[c] \in Nat
    BY <2>1, <2>2, <2>4, <2>5
  <2>8. \A k \in 1..Len(a) : a[k].n <= Written(c) /\ (a[k].n # 0 => got'[c] < a[k].n)
    BY <2>3, <2>5, <2>6
  <2>9. \A j, k \in 1..Len(a) : j < k => a[j].n < a[k].n
    <3>1. TAKE j, k \in 1..Len(a)
    <3>2. HAVE j < k
    <3>3. PICK m \in 2..Len(b) : /\ a[k] = b[m]
                                 /\ \/ a[j].n = 0
                                    \/ \E l \in 2..Len(b) : l < m /\ a[j] = b[l]
      BY <2>3, <3>2
    <3>4. CASE a[j].n = 0
      BY <2>2, <2>6, <3>3, <3>4
    <3>5. CASE \E l \in 2..Len(b) : l < m /\ a[j] = b[l]
      BY <2>4, <2>6, <3>3, <3>5
    <3> QED
      BY <3>3, <3>4, <3>5
  <2>10. ReplyInv(c)'
    BY <2>4, <2>5, <2>7, <2>8, <2>9 DEF ReplyInv, a
  <2>11. \A d \in Client : ReplyInv(d)'
    BY <1>2, <2>10, ReplyStays
  <2>12. \A d \in Client, n \in Nat : Ahead(d, n) =>
           got'[d] < n /\ \A k \in 1..Len(buf'[d]) : buf'[d][k].n < n
    <3>1. ASSUME NEW n \in Nat, Ahead(c, n)
          PROVE  got'[c] < n /\ \A k \in 1..Len(buf'[c]) : buf'[c][k].n < n
      <4>1. got[c] < n /\ \A k \in 1..Len(b) : b[k].n < n
        BY <3>1 DEF Ahead, b
      <4>2. got'[c] < n
        BY <2>1, <2>2, <4>1
      <4>3. ASSUME NEW k \in 1..Len(a) PROVE a[k].n < n
        <5>1. CASE a[k].n = 0
          BY <2>5, <4>1, <5>1
        <5>2. CASE a[k].n # 0
          <6>1. PICK m \in 2..Len(b) : a[k] = b[m]
            BY <2>3, <5>2
          <6> QED
            BY <2>6, <4>1, <6>1
        <5> QED
          BY <5>1, <5>2
      <4> QED
        BY <4>2, <4>3 DEF a
    <3> QED
      BY <1>2, <3>1, ReplyStays
  <2>13. RequestInv'
    <3>1. ASSUME NEW i \in 1..Len(requests)
          PROVE  /\ Genuine(requests[i])'
                 /\ Ahead(requests[i].id, requests[i].n)'
      <4>1. /\ requests[i] \in Request /\ requests[i].id \in Client /\ requests[i].n \in Nat
            /\ Genuine(requests[i]) /\ Ahead(requests[i].id, requests[i].n)
        BY <1>1, Types, Requests DEF RequestInv
      <4> QED
        BY <1>2, <2>12, <4>1, Stays DEF Genuine, Ahead
    <3>2. cli # NoRequest => Genuine(cli)' /\ cli \in Request /\ cli.id \in Client /\ cli.n \in Nat
      BY <1>1, <1>2, Stays, Types, Requests DEF Genuine, RequestInv
    <3>3. cli # NoRequest /\ spc' \in {"open", "opening", "write"} =>
            pc'[cli.id] \in {"gone", "killed"} \/ Ahead(cli.id, cli.n)'
      BY <1>1, <1>2, <2>12, <3>2, Stays DEF Ahead, RequestInv
    <3> QED
      BY <1>1, <1>2, <3>1, <3>2, <3>3 DEF RequestInv
  <2> QED
    BY <2>11, <2>13
<1> QED
  BY <1>3, <1>4

\* At the end of the file the client of the request before has left.
LEMMA NobodyLeft ==
  ASSUME Inv, fd = {}, cli # NoRequest
  PROVE  pc[cli.id] \in {"gone", "killed"}
<1>1. TypeOK /\ CallInv /\ Genuine(cli) /\ cli \in Request
  BY Types DEF Inv, RequestInv
<1>2. /\ cli.id \in Client /\ cli.n >= 1 /\ cli.n <= Written(cli.id) /\ cli.n \in Nat
      /\ asks[cli.id] \in Nat /\ Written(cli.id) \in Nat
  BY <1>1, Requests, Types, WrittenIs DEF Genuine
<1>3. ~Connected(cli.id)
  BY <1>1, <1>2 DEF CallInv
<1> QED
  BY <1>1, <1>2, <1>3, Types DEF Connected, Written, CallInv

\* The request that is read is the next one.
LEMMA ServerReadStep ==
  ASSUME SourceIsText, Inv, [Next]_vars, ServerRead
  PROVE  (\A d \in Client : ReplyInv(d)') /\ RequestInv'
<1>1. TypeOK /\ CallInv /\ RequestInv
  BY DEF Inv
<1>2. /\ UNCHANGED <<pc, asks, word, got, buf>>
      /\ spc = "read" /\ spc' = "open"
  BY DEF ServerRead, clientVars
<1>3. \A d \in Client : ReplyInv(d)'
  BY <1>2, ReplyStays
<1>4. \A d \in Client : Written(d)' = Written(d)
  BY <1>2 DEF Written
<1>5. CASE requests # <<>> /\ cli' = Head(requests) /\ requests' = Tail(requests)
  <2>1. /\ requests[1] \in Request /\ 1 \in 1..Len(requests) /\ cli' = requests[1]
        /\ Len(requests) \in Nat
        /\ \A k \in 1..Len(requests') : /\ requests'[k] = requests[k + 1]
                                        /\ k + 1 \in 1..Len(requests) /\ k + 1 > 1
        /\ requests[1].id \in Client /\ requests[1].n \in Nat
        /\ \A k \in 1..Len(requests) : requests[k].id \in Client
    <3>1. requests \in Seq(Request)
      BY <1>1 DEF TypeOK
    <3>2. /\ Head(requests) = requests[1] /\ Len(requests) \in Nat \ {0}
          /\ Len(requests') = Len(requests) - 1
          /\ \A k \in 1..Len(requests') : requests'[k] = requests[k + 1]
      BY <1>5, <3>1, Received
    <3>3. 1 \in 1..Len(requests) /\ \A k \in 1..Len(requests') : k + 1 \in 1..Len(requests) /\ k + 1 > 1
      BY <3>2
    <3> QED
      BY <1>1, <1>5, <3>2, <3>3, Types, Requests
  <2>2. /\ Genuine(requests[1]) /\ Ahead(requests[1].id, requests[1].n)
        /\ \A k \in 1..Len(requests) : Genuine(requests[k]) /\ Ahead(requests[k].id, requests[k].n)
        /\ \A i, j \in 1..Len(requests) :
             i < j /\ requests[i].id = requests[j].id => requests[i].n < requests[j].n
    BY <1>1, <2>1 DEF RequestInv
  <2>3. Genuine(cli)' /\ Ahead(cli.id, cli.n)'
    BY <1>2, <1>4, <2>1, <2>2 DEF Genuine, Ahead
  <2>4. \A k \in 1..Len(requests') : /\ Genuine(requests[k])' /\ Ahead(requests[k].id, requests[k].n)'
                                     /\ cli'.id = requests'[k].id => cli'.n < requests'[k].n
    <3> TAKE k \in 1..Len(requests')
    <3>1. /\ requests'[k] = requests[k + 1] /\ k + 1 \in 1..Len(requests) /\ 1 < k + 1
          /\ 1 \in 1..Len(requests) /\ cli' = requests[1]
      BY <1>4, <2>1
    <3>2. Genuine(requests[k + 1]) /\ Ahead(requests[k + 1].id, requests[k + 1].n)
      BY <2>2, <3>1
    <3>3. requests[1].id = requests[k + 1].id => requests[1].n < requests[k + 1].n
      BY <2>2, <3>1
    <3>4. requests[k + 1].id \in Client
      BY <2>1, <3>1
    <3>5. Genuine(requests[k])'
      BY <1>2, <1>4, <3>1, <3>2, <3>4 DEF Genuine
    <3>6. Ahead(requests[k].id, requests[k].n)'
      BY <1>2, <3>1, <3>2 DEF Ahead
    <3> QED
      BY <3>1, <3>3, <3>5, <3>6
  <2>5. \A i, j \in 1..Len(requests') :
          i < j /\ requests'[i].id = requests'[j].id => requests'[i].n < requests'[j].n
    <3>1. \A i, j \in 1..Len(requests') : i < j => i + 1 < j + 1
      BY <2>1
    <3> QED
      BY <2>1, <2>2, <3>1
  <2> QED
    BY <1>3, <2>3, <2>4, <2>5 DEF RequestInv
<1>6. CASE requests = <<>> /\ fd = {} /\ UNCHANGED <<cli, requests>>
  <2>1. /\ Len(requests) = 0 /\ 1..0 = {} /\ UNCHANGED <<cli, requests>>
    BY <1>6
  <2>2. cli # NoRequest => Genuine(cli) /\ cli \in Request /\ cli.id \in Client
    BY <1>1, Types, Requests DEF RequestInv
  <2>3. cli # NoRequest => Genuine(cli)'
    BY <1>2, <1>4, <2>1, <2>2 DEF Genuine
  <2>4. cli # NoRequest => pc'[cli.id] \in {"gone", "killed"}
    BY <1>2, <1>6, NobodyLeft
  <2> QED
    BY <1>3, <2>1, <2>3, <2>4 DEF RequestInv
<1> QED
  BY <1>5, <1>6 DEF ServerRead

\* The answer that is written is behind those that are there.
LEMMA ServerWriteStep ==
  ASSUME SourceIsText, Inv, [Next]_vars, ServerWrite
  PROVE  (\A d \in Client : ReplyInv(d)') /\ RequestInv'
<1>1. TypeOK /\ CallInv /\ RequestInv
  BY DEF Inv
<1>2. /\ UNCHANGED <<requests, cli, pc, asks, word, got>>
      /\ spc = "write" /\ spc' \in {"close", "dead"} /\ cli # NoRequest
  BY <1>1 DEF ServerWrite, clientVars, CallInv
<1>3. CASE ~Reading(cli.id)
  <2>1. buf' = buf
    BY <1>3 DEF ServerWrite
  <2> QED
    BY <1>2, <2>1, QuietStep
<1>4. CASE Reading(cli.id)
  <2> DEFINE c == cli.id
             b == buf[c]
             a == buf'[c]
  <2>1. /\ cli \in Request /\ c \in Client /\ cli.n \in Nat /\ cli.n >= 1
        /\ Genuine(cli) /\ cli.n <= Written(c) /\ Written(c) \in Nat
        /\ got[c] \in Nat /\ got[c] <= Written(c)
        /\ b \in Seq(Reply) /\ Len(b) \in Nat /\ \A k \in 1..Len(b) : b[k].n \in Nat
    BY <1>1, <1>2, Requests, Types, WrittenIs DEF Inv, RequestInv, Genuine, ReplyInv
  <2>2. got[c] < cli.n /\ \A k \in 1..Len(b) : b[k].n < cli.n
    <3>1. pc[c] \notin {"gone", "killed"}
      BY <1>4 DEF Reading
    <3> QED
      BY <1>1, <1>2, <3>1 DEF RequestInv, Ahead
  <2>3. /\ a = Append(b, Found(cli)) /\ Found(cli) \in Reply /\ Found(cli).n = cli.n
        /\ \A d \in Client \ {c} : buf'[d] = buf[d]
    <3>1. Found(cli) \in Reply /\ Found(cli).n = cli.n
      BY <2>1, Requests, IndexFinds, FifoAssumption DEF Found, Reply, Request
    <3>2. buf \in [Client -> Seq(Reply)]
      BY <1>1 DEF TypeOK
    <3> QED
      BY <1>4, <2>1, <3>1, <3>2 DEF ServerWrite
  <2>4. /\ Len(a) = Len(b) + 1
        /\ \A k \in 1..Len(a) : \/ k \in 1..Len(b) /\ a[k] = b[k]
                                \/ k = Len(b) + 1 /\ a[k].n = cli.n
    <3> HIDE DEF a, b
    <3>1. /\ Len(a) = Len(b) + 1 /\ a[Len(b) + 1] = Found(cli)
          /\ \A k \in 1..Len(b) : a[k] = b[k]
      BY <2>1, <2>3, Sent
    <3>2. \A k \in 1..Len(a) : k \in 1..Len(b) \/ k = Len(b) + 1
      BY <2>1, <3>1
    <3>3. a[Len(b) + 1].n = cli.n
      BY <2>3, <3>1
    <3> QED
      BY <3>1, <3>2, <3>3
  <2>5. /\ \A k \in 1..Len(b) : b[k].n <= Written(c) /\ (b[k].n # 0 => got[c] < b[k].n)
        /\ \A j, k \in 1..Len(b) : j < k => b[j].n < b[k].n
    BY <2>1 DEF Inv, ReplyInv
  <2>6. \A d \in Client : Written(d)' = Written(d)
    BY <1>2 DEF Written
  <2>7. got'[c] = got[c]
    BY <1>2
  <2> HIDE DEF b, a
  <2>8. \A k \in 1..Len(a) : a[k].n <= Written(c) /\ (a[k].n # 0 => got[c] < a[k].n)
    BY <2>1, <2>2, <2>4, <2>5
  <2>9. \A j, k \in 1..Len(a) : j < k => a[j].n < a[k].n
    <3> TAKE j, k \in 1..Len(a)
    <3> HAVE j < k
    <3>1. j \in 1..Len(b) /\ a[j] = b[j]
      BY <2>1, <2>4
    <3>2. CASE k \in 1..Len(b) /\ a[k] = b[k]
      BY <2>5, <3>1, <3>2
    <3>3. CASE k = Len(b) + 1 /\ a[k].n = cli.n
      BY <2>2, <3>1, <3>3
    <3> QED
      BY <2>4, <3>2, <3>3
  <2>10. ASSUME NEW d \in Client, d = c PROVE ReplyInv(d)'
    <3>1. Written(c) # 0 /\ Written(d) = Written(c)
      BY <2>1, <2>10
    <3>2. Written(d)' = Written(c) /\ got'[d] = got[c] /\ buf'[d] = a
      BY <2>6, <2>7, <2>10, <3>1 DEF a
    <3> QED
      BY <2>1, <2>8, <2>9, <3>1, <3>2 DEF ReplyInv
  <2>11. \A d \in Client \ {c} : ReplyInv(d)'
    BY <1>2, <2>3, ReplyStays
  <2>12. \A d \in Client, n \in Nat : Ahead(d, n) /\ (d = c => cli.n < n) =>
           got'[d] < n /\ \A k \in 1..Len(buf'[d]) : buf'[d][k].n < n
    <3>1. ASSUME NEW n \in Nat, Ahead(c, n), cli.n < n
          PROVE  got'[c] < n /\ \A k \in 1..Len(a) : a[k].n < n
      <4>1. got[c] < n /\ \A k \in 1..Len(b) : b[k].n < n
        BY <3>1 DEF Ahead, b
      <4> QED
        BY <2>4, <2>7, <3>1, <4>1
    <3> QED
      BY <1>2, <2>3, <3>1, ReplyStays DEF a
  <2>13. ASSUME NEW i \in 1..Len(requests)
         PROVE  Genuine(requests[i])' /\ Ahead(requests[i].id, requests[i].n)'
    <3>1. /\ requests[i] \in Request /\ requests[i].id \in Client /\ requests[i].n \in Nat
          /\ Genuine(requests[i]) /\ Ahead(requests[i].id, requests[i].n)
          /\ cli.id = requests[i].id => cli.n < requests[i].n
      BY <1>1, Types, Requests DEF RequestInv
    <3>2. Genuine(requests[i])'
      BY <1>2, <2>6, <3>1 DEF Genuine
    <3> QED
      BY <1>2, <2>12, <3>1, <3>2 DEF Ahead
  <2>14. Genuine(cli)'
    BY <1>2, <2>1, <2>6 DEF Genuine
  <2>15. spc' = "close"
    BY <1>4 DEF ServerWrite
  <2>16. \A d \in Client : ReplyInv(d)'
    BY <2>10, <2>11
  <2> QED
    BY <1>1, <1>2, <2>13, <2>14, <2>15, <2>16 DEF RequestInv
<1> QED
  BY <1>3, <1>4

\* All steps together.
LEMMA OrderStep ==
  ASSUME SourceIsText, Inv, [Next]_vars
  PROVE  (\A d \in Client : ReplyInv(d)') /\ RequestInv'
<1>1. CASE \E c \in Client : Write(c)
  BY <1>1, WriteStep
<1>2. CASE \E c \in Client : Read(c)
  BY <1>2, ReadStep
<1>3. CASE ServerRead
  BY <1>3, ServerReadStep
<1>4. CASE ServerWrite
  BY <1>4, ServerWriteStep
<1>5. ASSUME NEW c \in Client, (\E w \in Word : Ask(c, w)) \/ Connect(c) \/ Unlink(c)
      PROVE  (\A d \in Client : ReplyInv(d)') /\ RequestInv'
  <2>1. /\ UNCHANGED <<requests, cli, got, buf>>
        /\ spc' = spc \/ spc' = "read"
    BY <1>5 DEF Ask, Connect, Unlink, fifoVars, serverVars
  <2> QED
    BY <2>1, QuietStep
<1>6. ASSUME NEW c \in Client, Open(c)
      PROVE  (\A d \in Client : ReplyInv(d)') /\ RequestInv'
  <2>1. /\ UNCHANGED <<requests, cli, got, buf>>
        /\ spc' = spc \/ (spc = "opening" /\ spc' = "write")
    BY <1>6 DEF Open, fifoVars
  <2> QED
    BY <2>1, QuietStep
<1>7. ASSUME NEW c \in Client, Close(c) \/ Quit(c) \/ Kill(c)
      PROVE  (\A d \in Client : ReplyInv(d)') /\ RequestInv'
  <2>1. /\ UNCHANGED <<requests, cli, got, spc>>
        /\ buf' = buf \/ buf' = [buf EXCEPT ![c] = <<>>]
    BY <1>7 DEF Close, Quit, Kill, serverVars
  <2>2. \A d \in Client : buf'[d] = buf[d] \/ buf'[d] = <<>>
    BY <2>1 DEF Inv, TypeOK
  <2> QED
    BY <2>1, <2>2, QuietStep
<1>8. CASE ServerListen \/ ServerOpen
  <2>1. /\ UNCHANGED <<requests, cli, got, buf>>
        /\ spc' \in {"open", "opening", "write"} => spc \in {"open", "opening", "write"}
    BY <1>8 DEF ServerListen, ServerOpen, fifoVars
  <2> QED
    BY <2>1, QuietStep
<1>9. CASE ServerClose
  <2>1. /\ UNCHANGED <<requests, cli, got>> /\ spc' = "read"
        /\ buf' = buf \/ buf' = [buf EXCEPT ![cli.id] = <<>>]
    BY <1>9 DEF ServerClose, clientVars
  <2>2. \A d \in Client : buf'[d] = buf[d] \/ buf'[d] = <<>>
    BY <2>1 DEF Inv, TypeOK
  <2> QED
    BY <2>1, <2>2, QuietStep
<1>10. CASE UNCHANGED vars
  <2>1. UNCHANGED <<requests, cli, got, buf, spc>>
    BY <1>10 DEF vars, fifoVars, clientVars, serverVars
  <2> QED
    BY <2>1, QuietStep
<1> QED
  BY <1>1, <1>2, <1>3, <1>4, <1>5, <1>6, <1>7, <1>8, <1>9, <1>10
  DEF Next, ClientStep, Calls, ServerStep
-----------------------------------------------------------------------------
(* The first exchange of a client.                                         *)

\* A step that has nothing to do with client d.
LEMMA FirstStays ==
  ASSUME NEW d \in Client, FirstInv(d),
         pc'[d] = pc[d], asks'[d] = asks[d], buf'[d] = buf[d], got'[d] = got[d],
         result'[d] = result[d], word'[d] = word[d],
         OnItsWay(d) /\ pc[d] \in {"open", "opening"} => OnItsWay(d)',
         spc = "write" /\ cli.id = d /\ pc[d] = "read" => spc' = "write" /\ cli'.id = d
  PROVE  FirstInv(d)'
  BY DEF FirstInv

\* There is one request of the first question.
LEMMA OneRequest ==
  ASSUME Inv, NEW c \in Client, asks[c] = 1, cli # NoRequest, cli.id = c
  PROVE  /\ cli.n = 1 /\ cli.word = word[c]
         /\ ~ \E i \in 1..Len(requests) : requests[i].id = c
<1>1. TypeOK /\ CallInv /\ RequestInv /\ cli \in Request
  BY Types DEF Inv
<1>2. Written(c) \in Nat /\ Written(c) <= 1
  BY <1>1, WrittenIs
<1>3. cli.n \in Nat /\ cli.n >= 1 /\ cli.n <= Written(c) /\ (cli.n = asks[c] => cli.word = word[c])
  BY <1>1, Requests DEF RequestInv, Genuine
<1>4. cli.n = 1 /\ cli.word = word[c]
  BY <1>2, <1>3
<1>5. ASSUME NEW i \in 1..Len(requests), requests[i].id = c PROVE FALSE
  <2>1. requests[i].n \in Nat /\ requests[i].n <= Written(c) /\ cli.n < requests[i].n
    BY <1>1, <1>5, Types, Requests DEF RequestInv, Genuine
  <2> QED
    BY <1>2, <1>4, <2>1
<1> QED
  BY <1>4, <1>5

\* The steps of a client leave the others where they are, but for the server
\* that two of them meet.
LEMMA AskFirst ==
  ASSUME Inv, NEW c \in Client,
         (\E w \in Word : Ask(c, w)) \/ Connect(c) \/ Unlink(c) \/ Quit(c) \/ Kill(c),
         NEW d \in Client
  PROVE  FirstInv(d)'
<1>1. TypeOK /\ FirstInv(d)
  BY DEF Inv
<1>2. /\ pc'[c] \in {"connect", "write", "connecting", "unlink", "failed", "gone", "killed"}
      /\ d # c => /\ pc'[d] = pc[d] /\ asks'[d] = asks[d] /\ word'[d] = word[d]
                  /\ buf'[d] = buf[d]
      /\ UNCHANGED <<requests, cli, result, got>>
  BY <1>1 DEF TypeOK, Ask, Connect, Unlink, Quit, Kill, Goto, fifoVars, serverVars
<1>3. spc' = spc \/ spc = "listening"
  BY DEF Ask, Connect, Unlink, Quit, Kill, serverVars
<1>4. CASE d = c
  BY <1>2, <1>4 DEF FirstInv
<1>5. CASE d # c
  BY <1>1, <1>2, <1>3, <1>5, FirstStays DEF OnItsWay
<1> QED
  BY <1>4, <1>5

\* The request of the first question is on its way.
LEMMA WriteFirst ==
  ASSUME Inv, NEW c \in Client, Write(c), NEW d \in Client
  PROVE  FirstInv(d)'
<1>1. TypeOK /\ CallInv /\ FirstInv(d) /\ ReplyInv(c)
  BY DEF Inv
<1>2. /\ pc[c] = "write" /\ UNCHANGED <<got, buf, asks, word, cli, spc, result>>
      /\ \A e \in Client \ {c} : pc'[e] = pc[e]
      /\ pc'[c] = IF spc = "dead" THEN "gone" ELSE "open"
  BY <1>1, Types DEF Write, Goto, serverVars
<1>3. CASE spc = "dead"
  <2>1. UNCHANGED requests
    BY <1>3 DEF Write
  <2> QED
    BY <1>1, <1>2, <1>3, <2>1, FirstStays DEF OnItsWay, FirstInv
<1>4. CASE spc # "dead"
  <2> DEFINE new == [id |-> c, word |-> word[c], n |-> asks[c]]
  <2>1. requests' = Append(requests, new) /\ new.id = c
    BY <1>4 DEF Write
  <2>2. new \in Request
    <3>1. asks[c] > 0 /\ asks[c] \in 0..MaxAsk /\ word[c] \in Word
      BY <1>1, <1>2 DEF CallInv, TypeOK
    <3>2. asks[c] \in 1..MaxAsk
      BY <3>1, FifoAssumption
    <3> QED
      BY <3>1, <3>2 DEF Request
  <2> HIDE DEF new
  <2>3. /\ Len(requests) \in Nat /\ Len(requests') = Len(requests) + 1
        /\ \A i \in 1..Len(requests) : requests'[i] = requests[i]
        /\ requests'[Len(requests) + 1] = new
    <3>1. requests \in Seq(Request)
      BY <1>1 DEF TypeOK
    <3> QED
      BY <2>1, <2>2, <3>1, Sent
  <2>4. /\ Len(requests) + 1 \in 1..Len(requests')
        /\ \A i \in 1..Len(requests) : i \in 1..Len(requests')
    BY <2>3
  <2>5. OnItsWay(c)'
    BY <2>1, <2>3, <2>4 DEF OnItsWay
  <2>6. OnItsWay(d) => OnItsWay(d)'
    BY <1>2, <2>3, <2>4 DEF OnItsWay
  <2>7. CASE d = c
    <3>1. asks[c] = 1 => buf[c] = <<>>
      BY <1>1, <1>2 DEF ReplyInv, Written
    <3> QED
      BY <1>2, <1>4, <2>5, <2>7, <3>1 DEF FirstInv
  <2>8. CASE d # c
    BY <1>1, <1>2, <2>6, <2>8, FirstStays
  <2> QED
    BY <2>7, <2>8
<1> QED
  BY <1>3, <1>4

\* The client meets the server at its request, or waits for it.
LEMMA OpenFirst ==
  ASSUME Inv, NEW c \in Client, Open(c), NEW d \in Client
  PROVE  FirstInv(d)'
<1>1. TypeOK /\ CallInv /\ FirstInv(d) /\ FirstInv(c)
  BY DEF Inv
<1>2. /\ pc[c] = "open" /\ UNCHANGED <<requests, got, buf, asks, word, cli, result>>
      /\ \A e \in Client \ {c} : pc'[e] = pc[e]
      /\ pc'[c] = IF Writing(c) THEN "read" ELSE "opening"
      /\ spc' = IF Writing(c) /\ spc = "opening" THEN "write" ELSE spc
  BY <1>1, Types DEF Open, Goto, fifoVars
<1>3. CASE d = c
  <2>1. SUFFICES ASSUME asks[c] = 1 PROVE FirstInv(d)'
    BY <1>2, <1>3 DEF FirstInv
  <2>2. buf[c] = <<>> /\ OnItsWay(c)
    BY <1>1, <1>2, <2>1 DEF FirstInv
  <2>3. CASE Writing(c)
    <3>1. cli # NoRequest /\ cli.id = c
      BY <1>1, <2>3 DEF CallInv, Writing
    <3>2. spc = "opening"
      BY <2>1, <2>2, <2>3, <3>1, OneRequest DEF OnItsWay, Writing
    <3> QED
      BY <1>2, <1>3, <2>2, <2>3, <3>1, <3>2 DEF FirstInv
  <2>4. CASE ~Writing(c)
    <3>1. OnItsWay(c)'
      BY <1>2, <2>2, <2>4 DEF OnItsWay
    <3> QED
      BY <1>2, <1>3, <2>2, <2>4, <3>1 DEF FirstInv
  <2> QED
    BY <2>3, <2>4
<1>4. CASE d # c
  <2>1. OnItsWay(d) => OnItsWay(d)'
    BY <1>2, <1>4 DEF OnItsWay, Writing
  <2> QED
    BY <1>1, <1>2, <1>4, <2>1, FirstStays
<1> QED
  BY <1>3, <1>4

\* The client waits for the answer, and prints it.
LEMMA ReadFirst ==
  ASSUME Inv, NEW c \in Client, Read(c) \/ Close(c), NEW d \in Client
  PROVE  FirstInv(d)'
<1>1. TypeOK /\ FirstInv(d) /\ FirstInv(c)
  BY DEF Inv
<1>2. /\ UNCHANGED <<requests, asks, word, cli, spc>>
      /\ \A e \in Client \ {c} : /\ pc'[e] = pc[e] /\ buf'[e] = buf[e] /\ got'[e] = got[e]
                                 /\ result'[e] = result[e]
  BY <1>1, Types DEF Read, Close, Goto, serverVars, TypeOK
<1>3. CASE d # c
  BY <1>1, <1>2, <1>3, FirstStays DEF OnItsWay
<1>4. CASE d = c /\ Close(c)
  <2>1. pc[c] = "close" /\ pc'[c] = "idle" /\ UNCHANGED <<got, result>>
    BY <1>1, <1>4, Types DEF Close, Goto
  <2> QED
    BY <1>1, <1>2, <1>4, <2>1 DEF FirstInv
<1>5. CASE d = c /\ Read(c)
  <2>1. SUFFICES ASSUME asks[c] = 1 PROVE FirstInv(d)'
    BY <1>2, <1>5 DEF FirstInv
  <2>2. pc[c] = "read" /\ pc'[c] = "close"
    BY <1>1, <1>5, Types DEF Read, Goto
  <2>3. buf[c] # <<>> \/ ~Writing(c)
    BY <1>5 DEF Read
  <2>4. buf[c] = <<[text |-> Lookup(word[c]), n |-> 1]>>
    BY <1>1, <2>1, <2>2, <2>3 DEF FirstInv, Writing
  <2>5. buf[c] # <<>> /\ Head(buf[c]).text = Lookup(word[c]) /\ Head(buf[c]).n = 1
    BY <2>4
  <2>6. got'[c] = 1 /\ result'[c] = Lookup(word[c])
    BY <1>1, <1>5, <2>5 DEF Read, TypeOK
  <2> QED
    BY <1>2, <1>5, <2>2, <2>6 DEF FirstInv
<1> QED
  BY <1>3, <1>4, <1>5

\* The server takes the request, ...
LEMMA ServerReadFirst ==
  ASSUME Inv, ServerListen \/ ServerRead, NEW d \in Client
  PROVE  FirstInv(d)'
<1>1. TypeOK /\ FirstInv(d) /\ requests \in Seq(Request)
  BY DEF Inv, TypeOK
<1>2. CASE ServerListen
  <2>1. /\ UNCHANGED <<requests, fd, buf, word, result, asks, got, cli>> /\ spc = "start"
        /\ pc'[d] = pc[d] \/ pc'[d] = "unlink"
    BY <1>1, <1>2 DEF ServerListen, fifoVars, TypeOK
  <2>2. CASE pc'[d] = "unlink"
    BY <2>2 DEF FirstInv
  <2>3. CASE pc'[d] = pc[d]
    BY <1>1, <2>1, <2>3, FirstStays DEF OnItsWay
  <2> QED
    BY <2>1, <2>2, <2>3
<1>3. CASE ServerRead
  <2>1. UNCHANGED <<pc, asks, word, got, buf, result>> /\ spc = "read" /\ spc' = "open"
    BY <1>3 DEF ServerRead, clientVars
  <2>2. ASSUME OnItsWay(d) PROVE OnItsWay(d)'
    <3>1. PICK i \in 1..Len(requests) : requests[i].id = d
      BY <2>1, <2>2 DEF OnItsWay
    <3>2. requests # <<>>
      BY <3>1
    <3>3. /\ cli' = requests[1] /\ Len(requests) \in Nat
          /\ Len(requests') = Len(requests) - 1
          /\ \A k \in 1..Len(requests') : requests'[k] = requests[k + 1]
      BY <1>1, <1>3, <3>2, Received DEF ServerRead
    <3>4. CASE i = 1
      <4>1. cli' \in Request
        BY <3>1, <3>3, <3>4, Types DEF Inv
      <4> QED
        BY <2>1, <3>1, <3>3, <3>4, <4>1, Requests DEF OnItsWay
    <3>5. CASE i # 1
      <4>1. i - 1 \in 1..Len(requests') /\ (i - 1) + 1 = i
        BY <3>3, <3>5
      <4>2. requests'[i - 1].id = d
        BY <3>1, <3>3, <4>1
      <4> QED
        BY <4>1, <4>2 DEF OnItsWay
    <3> QED
      BY <3>4, <3>5
  <2> QED
    BY <1>1, <2>1, <2>2, FirstStays
<1> QED
  BY <1>2, <1>3

\* ... meets the client, which has nothing in its FIFO yet, ...
LEMMA ServerOpenFirst ==
  ASSUME Inv, ServerOpen, NEW d \in Client
  PROVE  FirstInv(d)'
<1>1. TypeOK /\ FirstInv(d)
  BY DEF Inv
<1>2. UNCHANGED <<requests, buf, word, result, asks, got, cli>> /\ spc = "open"
  BY DEF ServerOpen, fifoVars
<1>3. CASE cli = NoRequest
  <2>1. UNCHANGED pc
    BY <1>3 DEF ServerOpen
  <2> QED
    BY <1>1, <1>2, <1>3, <2>1, FirstStays DEF OnItsWay
<1>4. CASE cli # NoRequest /\ ~Reading(cli.id)
  <2>1. UNCHANGED pc /\ spc' = "opening"
    BY <1>4 DEF ServerOpen
  <2> QED
    BY <1>1, <1>2, <1>4, <2>1, FirstStays DEF OnItsWay
<1>5. CASE cli # NoRequest /\ Reading(cli.id)
  <2>1. /\ spc' = "write" /\ cli.id \in Client
        /\ \A e \in Client : pc'[e] = IF e = cli.id /\ pc[e] = "opening" THEN "read" ELSE pc[e]
    BY <1>5, Types, Requests DEF Inv, ServerOpen
  <2>2. CASE d = cli.id /\ pc[d] = "opening"
    BY <1>1, <1>2, <2>1, <2>2 DEF FirstInv
  <2>3. CASE d # cli.id
    <3>1. OnItsWay(d) => OnItsWay(d)'
      BY <1>2, <2>3 DEF OnItsWay
    <3> QED
      BY <1>1, <1>2, <2>1, <2>3, <3>1, FirstStays
  <2>4. CASE d = cli.id /\ pc[d] # "opening"
    <3>1. pc[d] # "open"
      BY <1>5, <2>4 DEF Reading
    <3> QED
      BY <1>1, <1>2, <2>1, <2>4, <3>1, FirstStays
  <2> QED
    BY <2>2, <2>3, <2>4
<1> QED
  BY <1>3, <1>4, <1>5

\* ... and writes what it finds.
LEMMA ServerWriteFirst ==
  ASSUME SourceIsText, Inv, ServerWrite \/ ServerClose, NEW d \in Client
  PROVE  FirstInv(d)'
<1>1. TypeOK /\ CallInv /\ FirstInv(d) /\ RequestInv /\ buf \in [Client -> Seq(Reply)]
  BY DEF Inv, TypeOK
<1>2. /\ UNCHANGED <<requests, pc, word, result, asks, got, cli>> /\ spc \in {"write", "close"}
      /\ cli # NoRequest /\ cli.id \in Client
  BY <1>1, Types, Requests DEF ServerWrite, ServerClose, clientVars, CallInv
<1>3. OnItsWay(d) => OnItsWay(d)'
  BY <1>2 DEF OnItsWay
<1>4. CASE d # cli.id
  <2>1. buf'[d] = buf[d]
    BY <1>1, <1>2, <1>4 DEF ServerWrite, ServerClose
  <2> QED
    BY <1>1, <1>2, <1>3, <1>4, <2>1, FirstStays
<1>5. CASE d = cli.id /\ ServerClose
  <2>1. spc = "close" /\ (buf'[d] = buf[d] \/ (buf'[d] = <<>> /\ ~Reading(d)))
    BY <1>1, <1>2, <1>5 DEF ServerClose
  <2>2. CASE buf'[d] = buf[d]
    BY <1>1, <1>2, <1>3, <2>1, <2>2, FirstStays
  <2>3. CASE buf'[d] = <<>> /\ ~Reading(d)
    BY <1>1, <1>2, <1>3, <2>3 DEF FirstInv, Reading
  <2> QED
    BY <2>1, <2>2, <2>3
<1>6. CASE d = cli.id /\ ServerWrite /\ ~Reading(d)
  <2>1. UNCHANGED buf
    BY <1>6 DEF ServerWrite
  <2>2. pc[d] # "read"
    BY <1>6 DEF Reading
  <2> QED
    BY <1>1, <1>2, <1>3, <2>1, <2>2, FirstStays
<1>7. CASE d = cli.id /\ ServerWrite /\ Reading(d)
  <2>1. SUFFICES ASSUME asks[d] = 1 PROVE FirstInv(d)'
    BY <1>2 DEF FirstInv
  <2>2. /\ spc = "write" /\ buf'[d] = Append(buf[d], Found(cli))
        /\ pc[d] \in {"read", "close"}
    <3>1. pc[d] # "opening"
      BY <1>1, <1>7 DEF CallInv, Writing, ServerWrite
    <3> QED
      BY <1>1, <1>2, <1>7, <3>1 DEF ServerWrite, Reading
  <2>3. cli.n = 1 /\ cli.word = word[d] /\ cli \in Request
    BY <1>1, <1>2, <1>7, <2>1, OneRequest, Types
  <2>4. CASE pc[d] = "close"
    BY <1>1, <1>2, <2>4 DEF FirstInv
  <2>5. CASE pc[d] = "read"
    <3>1. Found(cli) = [text |-> Lookup(word[d]), n |-> 1]
      BY <2>3, IndexFinds, Requests DEF Found
    <3>2. Ahead(d, 1)
      BY <1>1, <1>2, <1>7, <2>2, <2>3, <2>5 DEF RequestInv
    <3>3. buf[d] # <<[text |-> Lookup(word[d]), n |-> 1]>>
      <4>1. SUFFICES ASSUME buf[d] = <<[text |-> Lookup(word[d]), n |-> 1]>> PROVE FALSE
        OBVIOUS
      <4>2. Len(buf[d]) = 1 /\ buf[d][1].n = 1
        BY <4>1
      <4> QED
        BY <3>2, <4>2 DEF Ahead
    <3>4. buf[d] = <<>>
      BY <1>1, <2>1, <2>5, <3>3 DEF FirstInv
    <3>5. buf'[d] = <<[text |-> Lookup(word[d]), n |-> 1]>>
      BY <2>2, <3>1, <3>4
    <3> QED
      BY <1>2, <2>5, <3>5 DEF FirstInv
  <2> QED
    BY <2>2, <2>4, <2>5
<1> QED
  BY <1>4, <1>5, <1>6, <1>7

\* All steps together.
LEMMA FirstStep ==
  ASSUME SourceIsText, Inv, [Next]_vars
  PROVE  \A d \in Client : FirstInv(d)'
<1>1. CASE UNCHANGED vars
  BY <1>1 DEF Inv, FirstInv, OnItsWay, vars, fifoVars, clientVars, serverVars
<1>2. CASE Next
  BY <1>2, AskFirst, WriteFirst, OpenFirst, ReadFirst, ServerReadFirst, ServerOpenFirst,
     ServerWriteFirst
  DEF Next, ClientStep, Calls, ServerStep
<1> QED
  BY <1>1, <1>2
-----------------------------------------------------------------------------
(* The server among clients that are as ServerSurvives wants them.         *)

\* Who is so after a step was so before it.
LEMMA PoliteBefore ==
  ASSUME TypeOK, CallInv, [Next]_vars, Polite'
  PROVE  Polite
<1>1. ASSUME NEW d \in Client PROVE asks'[d] = asks[d] \/ asks'[d] = asks[d] + 1
  <2>1. asks[d] \in Nat /\ asks \in [Client -> 0..MaxAsk]
    BY Types DEF TypeOK
  <2>2. ASSUME NEW c \in Client, NEW w \in Word, Ask(c, w)
        PROVE  asks'[d] = asks[d] \/ asks'[d] = asks[d] + 1
    BY <2>1, <2>2 DEF Ask
  <2>3. CASE ~ \E c \in Client, w \in Word : Ask(c, w)
    BY <2>3 DEF Next, ClientStep, Calls, ServerStep, Connect, Unlink, Write, Open, Read, Close,
                Quit, Kill, ServerListen, ServerRead, ServerOpen, ServerWrite, ServerClose,
                vars, fifoVars, clientVars, serverVars
  <2> QED
    BY <2>2, <2>3
<1>2. ASSUME NEW d \in Client PROVE pc[d] # "killed" /\ asks[d] <= 1
  <2>1. pc'[d] # "killed" /\ asks'[d] <= 1 /\ asks[d] \in Nat
    BY <1>2, Types DEF Polite
  <2>2. pc[d] # "killed"
    BY <2>1, Grows
  <2> QED
    BY <1>1, <2>1, <2>2
<1> QED
  BY <1>2 DEF Polite

\* Whoever has a request with the server then has asked one question.
LEMMA PoliteClient ==
  ASSUME Inv, Polite, cli # NoRequest
  PROVE  cli.id \in Client /\ asks[cli.id] = 1 /\ cli.n = 1
<1>1. TypeOK /\ CallInv /\ cli \in Request /\ Genuine(cli)
  BY Types DEF Inv, RequestInv
<1>2. /\ cli.id \in Client /\ cli.n \in Nat /\ cli.n >= 1 /\ cli.n <= Written(cli.id)
      /\ Written(cli.id) \in Nat /\ Written(cli.id) <= asks[cli.id]
      /\ asks[cli.id] \in Nat /\ asks[cli.id] <= 1
  BY <1>1, Requests, Types, WrittenIs DEF Polite, Genuine
<1> QED
  BY <1>2

\* A client that waits for the answer the server is about to write does not
\* read before it is written.
LEMMA ReaderWaits ==
  ASSUME Inv, Polite, spc \in {"open", "opening", "write"}, cli # NoRequest, pc[cli.id] # "gone"
  PROVE  /\ pc[cli.id] # "close"
         /\ pc[cli.id] = "read" => buf[cli.id] = <<>> /\ spc = "write"
<1> DEFINE c == cli.id
<1>1. /\ TypeOK /\ c \in Client /\ asks[c] = 1 /\ cli.n = 1 /\ FirstInv(c)
      /\ got[c] \in Nat
  BY PoliteClient, Types DEF Inv
<1>2. got[c] < 1 /\ \A k \in 1..Len(buf[c]) : buf[c][k].n < 1
  BY <1>1 DEF Inv, RequestInv, Polite, Ahead
<1>3. pc[c] # "close"
  BY <1>1, <1>2 DEF FirstInv
<1>4. buf[c] # <<[text |-> Lookup(word[c]), n |-> 1]>>
  <2>1. SUFFICES ASSUME buf[c] = <<[text |-> Lookup(word[c]), n |-> 1]>> PROVE FALSE
    OBVIOUS
  <2>2. Len(buf[c]) = 1 /\ buf[c][1].n = 1
    BY <2>1
  <2> QED
    BY <1>2, <2>2
<1> QED
  BY <1>1, <1>3, <1>4 DEF FirstInv

\* Every step keeps the server going.
LEMMA SurviveStep ==
  ASSUME SourceIsText, Inv, [Next]_vars
  PROVE  ServerInv'
<1> SUFFICES ASSUME Polite'
             PROVE  /\ spc' # "dead"
                    /\ spc' = "write" => pc'[cli'.id] = "read"
                    /\ spc' = "open" => cli' # NoRequest
                    /\ spc' = "read" /\ cli' = NoRequest =>
                         \E c \in Client : pc'[c] \in {"unlink", "write", "open", "opening"}
  BY DEF ServerInv
<1> DEFINE Goal == /\ spc' # "dead"
                   /\ spc' = "write" => pc'[cli'.id] = "read"
                   /\ spc' = "open" => cli' # NoRequest
                   /\ spc' = "read" /\ cli' = NoRequest =>
                        \E c \in Client : pc'[c] \in {"unlink", "write", "open", "opening"}
<1>1. TypeOK /\ CallInv /\ Polite
  BY PoliteBefore DEF Inv
<1>2. /\ spc # "dead"
      /\ spc = "write" => pc[cli.id] = "read"
      /\ spc = "open" => cli # NoRequest
      /\ spc = "read" /\ cli = NoRequest =>
           \E c \in Client : pc[c] \in {"unlink", "write", "open", "opening"}
  BY <1>1 DEF Inv, ServerInv
<1>3. /\ pc \in [Client -> {"idle", "connect", "connecting", "unlink", "write", "open",
                            "opening", "read", "close", "failed", "gone", "killed"}]
      /\ spc \in {"opening", "write", "close"} => cli # NoRequest
      /\ cli # NoRequest => cli.id \in Client
      /\ NoRequest \notin Request
  BY <1>1, Types, PoliteClient, Requests DEF CallInv, Inv
<1>4. ASSUME NEW c \in Client, NEW w \in Word, Ask(c, w) PROVE Goal
  BY <1>2, <1>3, <1>4 DEF Ask, Goto, serverVars
<1>5. ASSUME NEW c \in Client, Connect(c) PROVE Goal
  BY <1>2, <1>3, <1>5 DEF Connect, Goto
<1>6. ASSUME NEW c \in Client, Unlink(c) PROVE Goal
  BY <1>2, <1>3, <1>6 DEF Unlink, Goto, serverVars
<1>7. ASSUME NEW c \in Client, Write(c) PROVE Goal
  BY <1>2, <1>3, <1>7 DEF Write, Goto, serverVars
<1>8. ASSUME NEW c \in Client, Open(c) PROVE Goal
  BY <1>2, <1>3, <1>8 DEF Open, Goto, Writing
<1>9. ASSUME NEW c \in Client, Read(c) PROVE Goal
  <2>1. UNCHANGED <<spc, cli>> /\ pc[c] = "read" /\ \A d \in Client \ {c} : pc'[d] = pc[d]
    BY <1>3, <1>9 DEF Read, Goto, serverVars
  <2>2. ~ (spc = "write" /\ cli.id = c)
    BY <1>1, <1>3, <1>9, <2>1, ReaderWaits DEF Read, Writing
  <2> QED
    BY <1>2, <1>3, <2>1, <2>2
<1>10. ASSUME NEW c \in Client, Close(c) \/ Quit(c) \/ Kill(c) PROVE Goal
  <2>1. UNCHANGED <<spc, cli>>
    BY <1>10 DEF Close, Quit, Kill, serverVars
  <2>2. /\ pc[c] \in {"close", "idle"} \/ pc'[c] = "killed"
        /\ \A d \in Client \ {c} : pc'[d] = pc[d]
    BY <1>3, <1>10 DEF Close, Quit, Kill, Goto
  <2>3. pc'[c] # "killed"
    BY DEF Polite
  <2> QED
    BY <1>2, <1>3, <2>1, <2>2, <2>3
<1>11. CASE ServerListen
  BY <1>2, <1>3, <1>11 DEF ServerListen, fifoVars
<1>12. CASE ServerRead
  <2>1. UNCHANGED pc /\ spc = "read" /\ spc' = "open"
    BY <1>12 DEF ServerRead, clientVars
  <2>2. CASE requests # <<>> /\ cli' = Head(requests)
    <3>1. requests \in Seq(Request)
      BY <1>1 DEF TypeOK
    <3>2. cli' \in Request
      BY <2>2, <3>1, Received
    <3> QED
      BY <1>3, <2>1, <3>2
  <2>3. CASE fd = {} /\ UNCHANGED cli
    <3>1. \A c \in Client : ~Connected(c)
      BY <1>1, <2>3 DEF CallInv
    <3>2. cli # NoRequest
      BY <1>2, <2>1, <3>1 DEF Connected
    <3> QED
      BY <2>1, <2>3, <3>2
  <2> QED
    BY <1>12, <2>2, <2>3 DEF ServerRead
<1>13. CASE ServerOpen
  <2>1. spc = "open" /\ cli # NoRequest /\ UNCHANGED cli
    BY <1>2, <1>13 DEF ServerOpen
  <2>2. CASE Reading(cli.id)
    <3>1. pc[cli.id] = "opening"
      BY <1>1, <1>3, <2>1, <2>2, ReaderWaits DEF Reading
    <3>2. spc' = "write" /\ pc' = [pc EXCEPT ![cli.id] = "read"]
      BY <1>13, <2>1, <2>2, <3>1 DEF ServerOpen
    <3> QED
      BY <1>3, <2>1, <3>2
  <2>3. CASE ~Reading(cli.id)
    BY <1>13, <2>1, <2>3 DEF ServerOpen
  <2> QED
    BY <2>2, <2>3
<1>14. CASE ServerWrite
  <2>1. spc = "write" /\ pc[cli.id] = "read" /\ UNCHANGED <<pc, cli>> /\ Reading(cli.id)
    BY <1>2, <1>14 DEF ServerWrite, clientVars, Reading
  <2> QED
    BY <1>14, <2>1 DEF ServerWrite
<1>15. CASE ServerClose
  BY <1>3, <1>15 DEF ServerClose
<1>16. CASE UNCHANGED vars
  BY <1>2, <1>16 DEF vars, clientVars, serverVars
<1> QED
  BY <1>4, <1>5, <1>6, <1>7, <1>8, <1>9, <1>10, <1>11, <1>12, <1>13, <1>14, <1>15, <1>16
  DEF Next, ClientStep, Calls, ServerStep
-----------------------------------------------------------------------------
(* The results.                                                            *)

LEMMA InvInit == Init => Inv
<1> SUFFICES ASSUME Init PROVE Inv
  OBVIOUS
<1>1. TypeOK /\ CallInv
  BY TypeInit, CallInit
<1>2. requests = <<>> /\ cli = NoRequest /\ spc = "start" /\ Len(<<>>) = 0 /\ 1..0 = {}
  BY DEF Init
<1>3. ASSUME NEW c \in Client PROVE ReplyInv(c) /\ FirstInv(c)
  <2>1. /\ buf[c] = <<>> /\ Len(buf[c]) = 0 /\ got[c] = 0 /\ asks[c] = 0 /\ pc[c] = "idle"
    BY <1>2, <1>3 DEF Init
  <2>2. Written(c) = 0
    BY <2>1 DEF Written
  <2> QED
    BY <1>2, <2>1, <2>2 DEF ReplyInv, FirstInv
<1>4. RequestInv /\ ServerInv
  BY <1>2 DEF RequestInv, ServerInv
<1> QED
  BY <1>1, <1>3, <1>4 DEF Inv

LEMMA InvStep ==
  ASSUME SourceIsText, Inv, [Next]_vars
  PROVE  Inv'
  BY TypeStep, CallStep, OrderStep, FirstStep, SurviveStep DEF Inv

\* Inv holds in every state: the FIFOs carry requests and answers in the
\* order of the questions (fifo_server.c, lookup3.c).
THEOREM Invariance ==
  ASSUME SourceIsText
  PROVE  Spec => []Inv
<1>1. Inv /\ [Next]_vars => Inv'
  BY InvStep
<1> QED
  BY <1>1, InvInit, PTL DEF Spec

\* Every variable keeps its type.
THEOREM TypeCorrect ==
  ASSUME SourceIsText
  PROVE  Spec => []TypeOK
<1>1. Inv => TypeOK
  BY DEF Inv
<1> QED
  BY <1>1, Invariance, PTL

\* The answer to a client's first question is the right one, whatever the
\* other clients do and whoever is killed (lookup3.c, mkfifo).
THEOREM FirstAnswerAlways ==
  ASSUME SourceIsText
  PROVE  Spec => []FirstAnswerCorrect
<1>1. Inv => FirstAnswerCorrect
  BY DEF Inv, FirstInv, FirstAnswerCorrect
<1> QED
  BY <1>1, Invariance, PTL

\* The server survives as long as every client asks one question and leaves
\* at its prompt (fifo_server.c, SIGPIPE and the open of cli.id).
THEOREM ServerSurvivesAlways ==
  ASSUME SourceIsText
  PROVE  Spec => []ServerSurvives
<1>1. Inv => ServerSurvives
  <2> SUFFICES ASSUME Inv, spc = "dead", \A c \in Client : ~ (pc[c] = "killed" \/ asks[c] > 1)
               PROVE  FALSE
    BY DEF ServerSurvives
  <2>1. \A c \in Client : asks[c] \in Nat
    BY Types DEF Inv
  <2>2. Polite
    BY <2>1 DEF Polite
  <2> QED
    BY <2>2 DEF Inv, ServerInv
<1> QED
  BY <1>1, Invariance, PTL

\* No client is given an answer twice, or one to a question older than the
\* last one answered (fifo_server.c, one reply per request; lookup3.c, close).
THEOREM AnswersInOrderAlways ==
  ASSUME SourceIsText
  PROVE  Spec => AnswersInOrder
<1>1. ASSUME Inv, NEW c \in Client, Read(c), buf[c] # <<>>, Head(buf[c]).n # 0
      PROVE  got[c] < Head(buf[c]).n /\ Head(buf[c]).n <= asks[c]
  <2>1. TypeOK /\ CallInv /\ ReplyInv(c) /\ buf[c] \in Seq(Reply)
    BY <1>1, Types DEF Inv
  <2>2. Head(buf[c]) = buf[c][1] /\ 1 \in 1..Len(buf[c])
    BY <1>1, <2>1, Received
  <2>3. /\ buf[c][1].n \in Nat /\ buf[c][1].n <= Written(c) /\ got[c] < buf[c][1].n
        /\ Written(c) \in Nat /\ Written(c) <= asks[c] /\ asks[c] \in Nat
    BY <1>1, <2>1, <2>2, Types, WrittenIs DEF ReplyInv
  <2> QED
    BY <2>2, <2>3
<1>2. Inv /\ [Next]_vars =>
        [\A c \in Client : Read(c) /\ buf[c] # <<>> /\ Head(buf[c]).n # 0 =>
           got[c] < Head(buf[c]).n /\ Head(buf[c]).n <= asks[c]]_vars
  BY <1>1
<1> QED
  BY <1>2, Invariance, PTL DEF Spec, AnswersInOrder
=============================================================================
