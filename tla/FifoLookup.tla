----------------------------- MODULE FifoLookup -----------------------------
(***************************************************************************)
(* The dictionary service over named pipes (HW4, part 3).  Clients write   *)
(* requests into one well-known FIFO; each has a FIFO of its own for the   *)
(* replies, which both sides open and close again for every question.      *)
(*                                                                         *)
(* The FIFO is external.  open() waits for the other side: an opener that  *)
(* waits counts as a reader or a writer already, and the arrival of the    *)
(* other side lets both return, so the side that arrives second moves the  *)
(* first one on.  A read of an empty FIFO waits while it has a writer and  *)
(* returns 0 when it has none; a write without a reader is SIGPIPE; the    *)
(* contents go when the last side closes.  The server searches the file    *)
(* with lookup2.c (DictFile).                                              *)
(***************************************************************************)
EXTENDS DictFile

CONSTANTS
  Client,   \* processes that run main()
  MaxAsk    \* bound: questions per client

ASSUME FifoAssumption == MaxAsk \in Nat

VARIABLES
  named,         \* the well-known FIFO still has its name
  requests,      \* its contents
  fd,            \* the clients that have it open for writing (write_fd)
  buf,           \* the contents of each client's reply FIFO
  pc,            \* where each client is
  word, result,  \* tryit.word, and what main() printed last
  asks,          \* the number of the client's last question
  got,           \* history: the question whose answer it got last
  spc, cli       \* where the server is, and the request it read last

fifoVars   == <<named, requests, fd, buf>>
clientVars == <<pc, word, result, asks, got>>
serverVars == <<spc, cli>>
vars       == <<fifoVars, clientVars, serverVars>>

\* A request has its client's reply FIFO in it, and for the history the
\* number of the question; so has the answer.
Request == [id : Client, word : Word, n : 1..MaxAsk]
Reply   == [text : Answer \cup {Junk}, n : 0..MaxAsk]

NoRequest == [id |-> Junk, word |-> Junk, n |-> 0]

TypeOK ==
  /\ named \in BOOLEAN
  /\ requests \in Seq(Request) /\ fd \in SUBSET Client
  /\ buf \in [Client -> Seq(Reply)]
  /\ pc \in [Client -> {"idle", "connect", "connecting", "unlink", "write", "open",
                        "opening", "read", "close", "failed", "gone", "killed"}]
  /\ word \in [Client -> Word \cup {Junk}]
  /\ result \in [Client -> Answer \cup {Junk}]
  /\ asks \in [Client -> 0..MaxAsk] /\ got \in [Client -> 0..MaxAsk]
  /\ spc \in {"start", "listening", "read", "open", "opening", "write", "close", "dead"}
  /\ cli \in Request \cup {NoRequest}

Init ==
  /\ named = TRUE /\ requests = <<>> /\ fd = {}
  /\ buf = [c \in Client |-> <<>>]
  /\ pc = [c \in Client |-> "idle"]
  /\ word = [c \in Client |-> Junk] /\ result = [c \in Client |-> Junk]
  /\ asks = [c \in Client |-> 0] /\ got = [c \in Client |-> 0]
  /\ spc = "start" /\ cli = NoRequest

Goto(c, l) == pc' = [pc EXCEPT ![c] = l]

\* The two sides of the reply FIFO of c.
Reading(c) == pc[c] \in {"opening", "read", "close"}
Writing(c) == spc \in {"opening", "write", "close"} /\ cli.id = c
-----------------------------------------------------------------------------
(* The client: main() and lookup() of lookup3.c.                           *)

Ask(c, w) ==
  /\ pc[c] = "idle"
  /\ asks[c] < MaxAsk
  /\ word' = [word EXCEPT ![c] = w]
  /\ asks' = [asks EXCEPT ![c] = @ + 1]
  /\ Goto(c, IF asks[c] = 0 THEN "connect" ELSE "write")
  /\ UNCHANGED <<fifoVars, result, got, serverVars>>

\* open(resource, O_WRONLY), the first time: waits for the server, or fails
\* because the name is gone.
Connect(c) ==
  /\ pc[c] = "connect"
  /\ \/ /\ ~named
        /\ Goto(c, "failed")
        /\ UNCHANGED <<fd, spc>>
     \/ /\ named /\ spc \in {"start", "dead"}
        /\ Goto(c, "connecting")
        /\ fd' = fd \cup {c}
        /\ UNCHANGED spc
     \/ /\ named /\ spc \notin {"start", "dead"}
        /\ Goto(c, "unlink")
        /\ fd' = fd \cup {c}
        /\ spc' = IF spc = "listening" THEN "read" ELSE spc
  /\ UNCHANGED <<named, requests, buf, word, result, asks, got, cli>>

\* mkfifo(me.id), and cleanup(resource), which runs here and now.
Unlink(c) ==
  /\ pc[c] = "unlink"
  /\ named' = FALSE
  /\ Goto(c, "write")
  /\ UNCHANGED <<requests, fd, buf, word, result, asks, got, serverVars>>

Write(c) ==
  /\ pc[c] = "write"
  /\ IF spc = "dead"
       THEN /\ Goto(c, "gone")           \* SIGPIPE
            /\ fd' = fd \ {c}
            /\ UNCHANGED requests
       ELSE /\ requests' = Append(requests, [id |-> c, word |-> word[c], n |-> asks[c]])
            /\ Goto(c, "open")
            /\ UNCHANGED fd
  /\ UNCHANGED <<named, buf, word, result, asks, got, serverVars>>

\* open(me.id, O_RDONLY)
Open(c) ==
  /\ pc[c] = "open"
  /\ IF Writing(c)
       THEN /\ Goto(c, "read")
            /\ spc' = IF spc = "opening" THEN "write" ELSE spc
       ELSE /\ Goto(c, "opening")
            /\ UNCHANGED spc
  /\ UNCHANGED <<fifoVars, word, result, asks, got, cli>>

\* A read takes at most TEXT bytes: one text, or any short strings that are
\* there with the beginning of the text that follows them.
Short(r) == r.text \in {XXXX, Junk}

AfterRead(b) ==
  LET texts == {k \in 1..Len(b) : ~Short(b[k])}
  IN  IF texts = {} THEN <<>>
      ELSE LET k == CHOOSE j \in texts : \A m \in texts : j <= m
               rest == SubSeq(b, k + 1, Len(b))
           IN  IF k = 1 THEN rest ELSE <<[text |-> Junk, n |-> 0]>> \o rest

\* Mutant: the reply FIFO is read without waiting for its writer.
ReadNonblock(c) ==
  /\ pc[c] = "read"
  /\ \/ /\ buf[c] # <<>>
        /\ result' = [result EXCEPT ![c] = Head(buf[c]).text]
        /\ got' = [got EXCEPT ![c] = IF Head(buf[c]).n = 0 THEN @ ELSE Head(buf[c]).n]
        /\ buf' = [buf EXCEPT ![c] = AfterRead(@)]
     \/ /\ buf[c] = <<>>
        /\ \E t \in Answer \cup {Junk} : result' = [result EXCEPT ![c] = t]
        /\ UNCHANGED <<buf, got>>
  /\ Goto(c, "close")
  /\ UNCHANGED <<named, requests, fd, word, asks, serverVars>>

\* An answer, or the end of the file: then buf is left uninitialised.
Read(c) ==
  /\ pc[c] = "read"
  /\ \/ /\ buf[c] # <<>>
        /\ result' = [result EXCEPT ![c] = Head(buf[c]).text]
        /\ got' = [got EXCEPT ![c] = IF Head(buf[c]).n = 0 THEN @ ELSE Head(buf[c]).n]
        /\ buf' = [buf EXCEPT ![c] = AfterRead(@)]
     \/ /\ buf[c] = <<>> /\ ~Writing(c)
        /\ \E t \in Answer \cup {Junk} : result' = [result EXCEPT ![c] = t]
        /\ UNCHANGED <<buf, got>>
  /\ Goto(c, "close")
  /\ UNCHANGED <<named, requests, fd, word, asks, serverVars>>

Close(c) ==
  /\ pc[c] = "close"
  /\ Goto(c, "idle")
  /\ buf' = IF Writing(c) THEN buf ELSE [buf EXCEPT ![c] = <<>>]
  /\ UNCHANGED <<named, requests, fd, word, result, asks, got, serverVars>>

\* End of input at the prompt: write_fd is closed with the process.
Quit(c) ==
  /\ pc[c] = "idle"
  /\ Goto(c, "gone")
  /\ fd' = fd \ {c}
  /\ UNCHANGED <<named, requests, buf, word, result, asks, got, serverVars>>

\* A signal inside lookup(): every descriptor of the client is closed.
Kill(c) ==
  /\ pc[c] \notin {"idle", "failed", "gone", "killed"}
  /\ Goto(c, "killed")
  /\ fd' = fd \ {c}
  /\ buf' = IF Writing(c) THEN buf ELSE [buf EXCEPT ![c] = <<>>]
  /\ UNCHANGED <<named, requests, word, result, asks, got, serverVars>>
-----------------------------------------------------------------------------
(* The server: main() of fifo_server.c.                                    *)

\* open(argv[2], O_RDONLY)
ServerListen ==
  /\ spc = "start"
  /\ IF \E c \in Client : pc[c] = "connecting"
       THEN /\ spc' = "read"
            /\ pc' = [c \in Client |-> IF pc[c] = "connecting" THEN "unlink" ELSE pc[c]]
       ELSE /\ spc' = "listening"
            /\ UNCHANGED pc
  /\ UNCHANGED <<fifoVars, word, result, asks, got, cli>>

\* Mutant: the server looks at one request and leaves it in the FIFO.
ServerPeek ==
  /\ spc = "read" /\ requests # <<>>
  /\ cli' = Head(requests)
  /\ spc' = "open"
  /\ UNCHANGED <<fifoVars, clientVars>>

\* The result of read() is ignored: at the end of the file the server goes
\* on with the request it had.
ServerRead ==
  /\ spc = "read"
  /\ \/ /\ requests # <<>>
        /\ cli' = Head(requests) /\ requests' = Tail(requests)
     \/ /\ requests = <<>> /\ fd = {}
        /\ UNCHANGED <<cli, requests>>
  /\ spc' = "open"
  /\ UNCHANGED <<named, fd, buf, clientVars>>

\* open(cli.id, O_WRONLY); without a request there is no name to open.
ServerOpen ==
  /\ spc = "open"
  /\ IF cli = NoRequest
       THEN spc' = "dead" /\ UNCHANGED pc
       ELSE IF Reading(cli.id)
         THEN /\ spc' = "write"
              /\ pc' = IF pc[cli.id] = "opening" THEN [pc EXCEPT ![cli.id] = "read"] ELSE pc
         ELSE /\ spc' = "opening"
              /\ UNCHANGED pc
  /\ UNCHANGED <<fifoVars, word, result, asks, got, cli>>

Found(r) == [text |-> IndexFind(File, r.word), n |-> r.n]

\* The lookup, and the write of the text or of "XXXX".
ServerWrite ==
  /\ spc = "write"
  /\ IF Reading(cli.id)
       THEN /\ buf' = [buf EXCEPT ![cli.id] = Append(@, Found(cli))]
            /\ spc' = "close"
       ELSE /\ spc' = "dead"             \* SIGPIPE
            /\ UNCHANGED buf
  /\ UNCHANGED <<named, requests, fd, clientVars, cli>>

ServerClose ==
  /\ spc = "close"
  /\ spc' = "read"
  /\ buf' = IF Reading(cli.id) THEN buf ELSE [buf EXCEPT ![cli.id] = <<>>]
  /\ UNCHANGED <<named, requests, fd, clientVars, cli>>
-----------------------------------------------------------------------------
Calls(c) == \/ Connect(c) \/ Unlink(c) \/ Write(c) \/ Open(c) \/ Read(c) \/ Close(c)

ClientStep(c) == (\E w \in Word : Ask(c, w)) \/ Calls(c)

ServerStep ==
  ServerListen \/ ServerRead \/ ServerOpen \/ ServerWrite \/ ServerClose

Next == ServerStep \/ \E c \in Client : ClientStep(c) \/ Quit(c) \/ Kill(c)

\* Processes keep running.
Fairness == WF_vars(ServerStep) /\ \A c \in Client : WF_vars(Calls(c))

Spec     == Init /\ [][Next]_vars
FairSpec == Spec /\ Fairness
-----------------------------------------------------------------------------
(* Properties.                                                             *)

\* Whatever rendezvous are missed, no client is given an answer twice, or
\* one to a question older than the last one answered, or one it has not
\* asked (fifo_server.c, one reply per request; lookup3.c, close).
AnswersInOrder ==
  [][\A c \in Client : Read(c) /\ buf[c] # <<>> /\ Head(buf[c]).n # 0 =>
       got[c] < Head(buf[c]).n /\ Head(buf[c]).n <= asks[c]]_vars

\* The answer to a client's first question is the right one: no earlier
\* exchange can be left in its FIFO (lookup3.c, mkfifo).
FirstAnswerCorrect ==
  \A c \in Client : pc[c] = "idle" /\ asks[c] = 1 => result[c] = Lookup(word[c])

\* No deadly embrace over a first question (lookup3.c, head comment): it is
\* answered unless the well-known name is gone, the server has ended, a
\* client has left, or a client is past its first question.  A later one can
\* meet the server before it has closed the reply FIFO of the one before.
FirstAnswered ==
  \A c \in Client : pc[c] = "connect" ~>
    \/ pc[c] \in {"idle", "failed"}
    \/ spc = "dead"
    \/ \E d \in Client : pc[d] \in {"gone", "killed"} \/ asks[d] > 1

\* The server ends only because a client was killed inside lookup(), or met
\* the end of one connection in the next: as long as every client has asked
\* one question and leaves at its prompt, no reply is written without a
\* reader and no name is opened that was not read (fifo_server.c, SIGPIPE and
\* the open of cli.id), although read() goes on at the end of the file with
\* the request before.
ServerSurvives ==
  spc = "dead" => \E c \in Client : pc[c] = "killed" \/ asks[c] > 1
-----------------------------------------------------------------------------
(* With them inductive.                                                    *)

\* Who has the well-known FIFO open.
Connected(c) ==
  \/ pc[c] \in {"connecting", "unlink", "write", "open", "opening", "read", "close"}
  \/ pc[c] = "idle" /\ asks[c] > 0

\* The last question whose request was written.
Written(c) ==
  IF pc[c] \in {"connect", "connecting", "unlink", "write", "failed"}
    THEN asks[c] - 1 ELSE asks[c]

\* Nothing of question n, or of a later one, has come to client c's FIFO.
Ahead(c, n) ==
  got[c] < n /\ \A k \in 1..Len(buf[c]) : buf[c][k].n < n

CallInv ==
  /\ fd = {c \in Client : Connected(c)}
  /\ \A c \in Client :
       /\ pc[c] \notin {"idle", "gone"} => asks[c] > 0
       /\ pc[c] \in {"connect", "connecting", "unlink", "failed"} => asks[c] = 1
       /\ asks[c] > 0 => word[c] \in Word
       /\ pc[c] = "opening" => ~Writing(c)
  /\ spc \in {"opening", "write", "close"} => cli # NoRequest

\* The answers in c's FIFO are in the order of the questions, behind the last
\* one read; before the first request there is none.
ReplyInv(c) ==
  /\ got[c] <= Written(c)
  /\ \A k \in 1..Len(buf[c]) :
       /\ buf[c][k].n <= Written(c)
       /\ buf[c][k].n # 0 => got[c] < buf[c][k].n
  /\ \A j, k \in 1..Len(buf[c]) : j < k => buf[c][j].n < buf[c][k].n
  /\ Written(c) = 0 => buf[c] = <<>>

\* A request is of a question that was written, and has its word.
Genuine(r) ==
  r.n <= Written(r.id) /\ (r.n = asks[r.id] => r.word = word[r.id])

\* So are the requests, behind the one the server has, of which it may write
\* the answer.
RequestInv ==
  /\ \A i \in 1..Len(requests) :
       /\ Genuine(requests[i])
       /\ Ahead(requests[i].id, requests[i].n)
       /\ cli.id = requests[i].id => cli.n < requests[i].n
  /\ \A i, j \in 1..Len(requests) :
       i < j /\ requests[i].id = requests[j].id => requests[i].n < requests[j].n
  /\ cli # NoRequest =>
       /\ Genuine(cli)
       /\ spc \in {"open", "opening", "write"} =>
            pc[cli.id] \in {"gone", "killed"} \/ Ahead(cli.id, cli.n)

\* A request of c is in the FIFO, or the server is about to open for it.
OnItsWay(c) ==
  \/ \E i \in 1..Len(requests) : requests[i].id = c
  \/ cli # NoRequest /\ cli.id = c /\ spc \in {"open", "opening"}

\* The first exchange of client c: the request on its way, the server at the
\* answer, the answer in the FIFO, the answer printed.
FirstInv(c) ==
  asks[c] = 1 =>
    /\ pc[c] \in {"open", "opening"} => buf[c] = <<>> /\ OnItsWay(c)
    /\ pc[c] = "read" =>
         \/ buf[c] = <<>> /\ spc = "write" /\ cli.id = c
         \/ buf[c] = <<[text |-> Lookup(word[c]), n |-> 1]>>
    /\ pc[c] \in {"close", "idle"} => got[c] = 1 /\ result[c] = Lookup(word[c])

\* As long as clients are as ServerSurvives wants them, the server has a
\* request when it opens and a reader when it writes.
Polite == \A c \in Client : pc[c] # "killed" /\ asks[c] <= 1

ServerInv ==
  Polite =>
    /\ spc # "dead"
    /\ spc = "write" => pc[cli.id] = "read"
    /\ spc = "open" => cli # NoRequest
    /\ spc = "read" /\ cli = NoRequest =>
         \E c \in Client : pc[c] \in {"unlink", "write", "open", "opening"}

Inv ==
  /\ TypeOK /\ CallInv
  /\ \A c \in Client : ReplyInv(c) /\ FirstInv(c)
  /\ RequestInv /\ ServerInv
=============================================================================
