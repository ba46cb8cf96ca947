----------------------------- MODULE SockLookup -----------------------------
(***************************************************************************)
(* The dictionary service over stream sockets, Unix (HW9, part 1) or       *)
(* Internet (part 2).  The parent accepts connections and forks a child    *)
(* for each; the child answers its client until the dialog ends, with      *)
(* lookup5.c (DictFile).  Nobody waits for the children: they stay zombies *)
(* and count against the process limit.                                    *)
(*                                                                         *)
(* The socket is external: a connection waits in the backlog, data written *)
(* arrives in order, a read waits while the other side is open and empty,  *)
(* returns 0 when it has closed and an error when it has reset.            *)
(***************************************************************************)
EXTENDS DictFile, FiniteSets

CONSTANTS
  Client,    \* processes that run main()
  Backlog,   \* the argument of listen()
  MaxAsk     \* bound: questions per client

None == "none"

ASSUME SockAssumption == Backlog \in Nat /\ MaxAsk \in Nat /\ None \notin Client

VARIABLES
  tcp,            \* Internet sockets (part 2): the first write to a closed peer succeeds
  nproc,          \* how many children the process limit leaves room for
  backlog,        \* the connections that are not accepted yet
  parent, cd,     \* where the parent is, and the connection it has accepted
  kid, tryit,     \* where the child of each client is, and its record
  up, down,       \* what is on its way on each connection
  reset,          \* the connections that have been reset
  pc,             \* where each client is
  word, result,   \* tryit.word of the client, and what its main() printed last
  asks            \* how many questions the client has asked

serverVars == <<backlog, parent, cd, kid, tryit>>
sockVars   == <<up, down, reset>>
clientVars == <<pc, word, result, asks>>
system     == <<tcp, nproc>>
vars       == <<system, serverVars, sockVars, clientVars>>

\* A Dictrec on its way: the word and the text.
TypeOK ==
  /\ tcp \in BOOLEAN /\ nproc \in 1..Cardinality(Client)
  /\ backlog \in Seq(Client)
  /\ parent \in {"accept", "fork", "close", "dead"} /\ cd \in Client \cup {None}
  /\ kid \in [Client -> {None, "read", "write", "zombie"}]
  /\ tryit \in [Client -> Word \cup {Junk}]
  /\ up \in [Client -> Seq(Word)] /\ down \in [Client -> Seq(Answer)]
  /\ reset \in SUBSET Client
  /\ pc \in [Client -> {"idle", "connect", "write", "read", "gone"}]
  /\ word \in [Client -> Word \cup {Junk}]
  /\ result \in [Client -> Answer \cup {Junk}]
  /\ asks \in [Client -> 0..MaxAsk]

Init ==
  /\ tcp \in BOOLEAN /\ nproc \in 1..Cardinality(Client)
  /\ backlog = <<>> /\ parent = "accept" /\ cd = None
  /\ kid = [c \in Client |-> None] /\ tryit = [c \in Client |-> Junk]
  /\ up = [c \in Client |-> <<>>] /\ down = [c \in Client |-> <<>>]
  /\ reset = {}
  /\ pc = [c \in Client |-> "idle"]
  /\ word = [c \in Client |-> Junk] /\ result = [c \in Client |-> Junk]
  /\ asks = [c \in Client |-> 0]

Goto(c, l) == pc' = [pc EXCEPT ![c] = l]

Waiting(c) == \E k \in 1..Len(backlog) : backlog[k] = c

\* Some process of the server has the connection of c open, or it is still
\* in the backlog of a parent that is alive.
Served(c) == \/ kid[c] \in {"read", "write"}
             \/ parent # "dead" /\ (cd = c \/ Waiting(c))
-----------------------------------------------------------------------------
(* The client: main() and lookup() of lookup7.c and lookup8.c.             *)

Ask(c, w) ==
  /\ pc[c] = "idle"
  /\ asks[c] < MaxAsk
  /\ word' = [word EXCEPT ![c] = w]
  /\ asks' = [asks EXCEPT ![c] = @ + 1]
  /\ Goto(c, IF asks[c] = 0 THEN "connect" ELSE "write")
  /\ UNCHANGED <<system, serverVars, sockVars, result>>

\* connect() returns when the connection is in the backlog; DIE otherwise.
Connect(c) ==
  /\ pc[c] = "connect"
  /\ IF parent = "dead"
       THEN Goto(c, "gone") /\ UNCHANGED backlog
       ELSE /\ Len(backlog) < Backlog
            /\ backlog' = Append(backlog, c)
            /\ Goto(c, "write")
  /\ UNCHANGED <<system, parent, cd, kid, tryit, sockVars, word, result, asks>>

\* To a peer that has closed, SIGPIPE; over TCP the first such write is
\* accepted and answered by a reset.
Write(c) ==
  /\ pc[c] = "write"
  /\ \/ /\ Served(c)
        /\ up' = [up EXCEPT ![c] = Append(@, word[c])]
        /\ Goto(c, "read")
        /\ UNCHANGED reset
     \/ /\ ~Served(c) /\ tcp /\ c \notin reset
        /\ reset' = reset \cup {c}
        /\ Goto(c, "read")
        /\ UNCHANGED up
     \/ /\ ~Served(c) /\ (tcp => c \in reset)
        /\ Goto(c, "gone")
        /\ UNCHANGED <<up, reset>>
  /\ UNCHANGED <<system, serverVars, down, word, result, asks>>

\* Mutant: the text is used before the reply has come.
ReadNonblock(c) ==
  /\ pc[c] = "read"
  /\ result' = [result EXCEPT ![c] = IF down[c] # <<>> THEN Head(down[c]) ELSE @]
  /\ down' = [down EXCEPT ![c] = IF @ = <<>> THEN @ ELSE Tail(@)]
  /\ Goto(c, "idle")
  /\ UNCHANGED <<system, serverVars, up, reset, word, asks>>

\* The result of read() is ignored: at the end of the file, or on an error,
\* the record still holds the text it held before the question.
Read(c) ==
  /\ pc[c] = "read"
  /\ \/ /\ down[c] # <<>>
        /\ result' = [result EXCEPT ![c] = Head(down[c])]
        /\ down' = [down EXCEPT ![c] = Tail(@)]
     \/ /\ down[c] = <<>> /\ ~Served(c)
        /\ UNCHANGED <<result, down>>
  /\ Goto(c, "idle")
  /\ UNCHANGED <<system, serverVars, up, reset, word, asks>>

\* The process ends, at the prompt or inside lookup().
Leave(c) ==
  /\ pc[c] # "gone"
  /\ Goto(c, "gone")
  /\ UNCHANGED <<system, serverVars, sockVars, word, result, asks>>
-----------------------------------------------------------------------------
(* The server.                                                             *)

Accept ==
  /\ parent = "accept"
  /\ backlog # <<>>
  /\ cd' = Head(backlog) /\ backlog' = Tail(backlog)
  /\ parent' = "fork"
  /\ UNCHANGED <<system, kid, tryit, sockVars, clientVars>>

\* The children that have been forked, zombies included.
Children == {c \in Client : kid[c] # None}

\* The child has a record of its own, still uninitialised.  At the process
\* limit fork() fails, and DIE() ends the parent with all that it has open.
Fork ==
  /\ parent = "fork"
  /\ IF Cardinality(Children) < nproc
       THEN /\ kid' = [kid EXCEPT ![cd] = "read"]
            /\ parent' = "close"
            /\ UNCHANGED <<backlog, cd>>
       ELSE /\ parent' = "dead" /\ cd' = None /\ backlog' = <<>>
            /\ UNCHANGED kid
  /\ UNCHANGED <<system, tryit, sockVars, clientVars>>

\* Mutant: the parent keeps the connection open.
CloseSkipped ==
  /\ parent = "close"
  /\ parent' = "accept"
  /\ UNCHANGED <<system, backlog, cd, kid, tryit, sockVars, clientVars>>

Close ==
  /\ parent = "close"
  /\ cd' = None
  /\ parent' = "accept"
  /\ UNCHANGED <<system, backlog, kid, tryit, sockVars, clientVars>>

\* Mutant: the end of the file is taken for a word that has not come yet.
KidReadEofIgnored(c) ==
  /\ kid[c] = "read"
  /\ up[c] # <<>>
  /\ tryit' = [tryit EXCEPT ![c] = Head(up[c])]
  /\ up' = [up EXCEPT ![c] = Tail(@)]
  /\ kid' = [kid EXCEPT ![c] = "write"]
  /\ UNCHANGED <<system, backlog, parent, cd, down, reset, clientVars>>

\* while (read() != -1): the end of the file passes for one more request,
\* the one the record still holds; only a reset ends the dialog.
KidRead(c) ==
  /\ kid[c] = "read"
  /\ \/ /\ up[c] # <<>>
        /\ tryit' = [tryit EXCEPT ![c] = Head(up[c])]
        /\ up' = [up EXCEPT ![c] = Tail(@)]
        /\ kid' = [kid EXCEPT ![c] = "write"]
     \/ /\ up[c] = <<>> /\ pc[c] = "gone" /\ c \notin reset
        /\ kid' = [kid EXCEPT ![c] = "write"]
        /\ UNCHANGED <<tryit, up>>
     \/ /\ up[c] = <<>> /\ pc[c] = "gone" /\ c \in reset
        /\ kid' = [kid EXCEPT ![c] = "zombie"]
        /\ UNCHANGED <<tryit, up>>
  /\ UNCHANGED <<system, backlog, parent, cd, down, reset, clientVars>>

\* Mutant: nothing is written for a word that is not found.
KidWriteFoundOnly(c) ==
  /\ kid[c] = "write"
  /\ down' = [down EXCEPT ![c] = IF tryit[c] \in Listed THEN Append(@, tryit[c]) ELSE @]
  /\ kid' = [kid EXCEPT ![c] = "read"]
  /\ UNCHANGED <<system, backlog, parent, cd, tryit, up, reset, clientVars>>

\* The lookup and the reply.
KidWrite(c) ==
  /\ kid[c] = "write"
  /\ \/ /\ pc[c] # "gone"
        /\ down' = [down EXCEPT ![c] = Append(@, MapFind(File, tryit[c]))]
        /\ kid' = [kid EXCEPT ![c] = "read"]
        /\ UNCHANGED reset
     \/ /\ pc[c] = "gone" /\ tcp /\ c \notin reset
        /\ reset' = reset \cup {c}
        /\ kid' = [kid EXCEPT ![c] = "read"]
        /\ UNCHANGED down
     \/ /\ pc[c] = "gone" /\ (tcp => c \in reset)
        /\ kid' = [kid EXCEPT ![c] = "zombie"]       \* SIGPIPE
        /\ UNCHANGED <<down, reset>>
  /\ UNCHANGED <<system, backlog, parent, cd, tryit, up, clientVars>>

\* The child ends inside the dialog: the data file cannot be read (UNAVAIL)
\* or a signal.  Over TCP a connection that is closed unread is reset.
KidDies(c) ==
  /\ kid[c] \in {"read", "write"}
  /\ kid' = [kid EXCEPT ![c] = "zombie"]
  /\ reset' = IF tcp /\ up[c] # <<>> THEN reset \cup {c} ELSE reset
  /\ UNCHANGED <<system, backlog, parent, cd, tryit, up, down, clientVars>>

\* The parent is interrupted, or fork() or accept() fails for want of
\* something else: the children go on.
ParentDies ==
  /\ parent # "dead"
  /\ parent' = "dead" /\ cd' = None /\ backlog' = <<>>
  /\ UNCHANGED <<system, kid, tryit, sockVars, clientVars>>
-----------------------------------------------------------------------------
ClientStep(c) == (\E w \in Word : Ask(c, w)) \/ Connect(c) \/ Write(c) \/ Read(c)

ParentStep == Accept \/ Fork \/ Close
KidStep(c) == KidRead(c) \/ KidWrite(c)

AtPrompt == (\A c \in Client : pc[c] \in {"idle", "gone"}) /\ UNCHANGED vars

Deaths == ParentDies \/ \E c \in Client : KidDies(c)

Next ==
  \/ ParentStep \/ AtPrompt \/ Deaths
  \/ \E c \in Client : ClientStep(c) \/ KidStep(c) \/ Leave(c)

\* Processes keep running; a client at a full backlog is let in because the
\* others connect only once.
Fairness ==
  /\ WF_vars(ParentStep)
  /\ \A c \in Client : /\ WF_vars(Connect(c) \/ Write(c) \/ Read(c))
                       /\ WF_vars(KidStep(c))

Spec     == Init /\ [][Next]_vars
FairSpec == Spec /\ Fairness
-----------------------------------------------------------------------------
(* Properties.                                                             *)

\* The child of c has ended, or will never be forked.
Lost(c) ==
  /\ asks[c] > 0 /\ pc[c] # "connect"
  /\ kid[c] = "zombie" \/ (kid[c] = None /\ parent = "dead")

\* A connection carries one exchange at a time: until a side of it dies, a
\* client that waits has its request on its way, with its child, or its reply
\* on its way, and nothing else is (lookup7.c, write query on socket; await
\* reply).
InStep ==
  \A c \in Client : pc[c] # "gone" /\ ~Lost(c) =>
    /\ Len(up[c]) + Len(down[c]) + (IF kid[c] = "write" THEN 1 ELSE 0)
         = IF pc[c] = "read" THEN 1 ELSE 0

\* With InStep inductive: a connection is in the backlog, then with the
\* parent, then with its child, and in none of them before connect();
QueueInv ==
  /\ \A j, k \in 1..Len(backlog) : backlog[j] = backlog[k] => j = k
  /\ parent \in {"accept", "dead"} <=> cd = None
  /\ parent = "dead" => backlog = <<>>
  /\ parent = "fork" => kid[cd] = None
  /\ parent = "close" => kid[cd] # None
  /\ \A c \in Client : Waiting(c) => kid[c] = None /\ cd # c

LinkInv ==
  \A c \in Client :
    /\ Waiting(c) \/ cd = c \/ kid[c] # None => asks[c] > 0 /\ pc[c] # "connect"
    /\ asks[c] > 0 /\ pc[c] \notin {"connect", "gone"} /\ kid[c] = None /\ parent # "dead"
         => Waiting(c) \/ cd = c

\* who has asked has a word, and the one record on the way is about it.
WordInv ==
  \A c \in Client :
    /\ pc[c] \in {"connect", "write", "read"} => word[c] \in Word /\ asks[c] > 0
    /\ pc[c] # "gone" /\ kid[c] = "write" => tryit[c] \in Word

RecordInv ==
  \A c \in Client : pc[c] # "gone" /\ ~Lost(c) =>
    /\ up[c] # <<>> => Head(up[c]) = word[c]
    /\ kid[c] = "write" => tryit[c] = word[c]
    /\ down[c] # <<>> => Head(down[c]) = Lookup(word[c])

Inv == TypeOK /\ QueueInv /\ LinkInv /\ WordInv /\ InStep /\ RecordInv

\* A child outlives its client by a bounded number of steps: although it
\* takes the end of the file for a request, its writes end the dialog
\* (usock_server.c, end of client dialog).
KidEnds ==
  \A c \in Client : pc[c] = "gone" /\ kid[c] \in {"read", "write"} ~> kid[c] = "zombie"

\* A client's lookup as the abstract service sees it, which is rid of a
\* client whose child has died: that client reads the end of the file and
\* prints the text it had before.
CallOf(c) ==
  IF Lost(c) \/ pc[c] = "gone" THEN "gone"
  ELSE IF pc[c] = "idle" THEN "idle" ELSE "busy"

Service == INSTANCE LookupService
             WITH call <- [c \in Client |-> CallOf(c)], word <- word, result <- result

\* The sockets implement the abstract service, in what they answer and in
\* answering at all, whenever other clients, other children or the parent
\* end, of their own or at the process limit (usock_server.c, the fork).
ImplementsService == Service!FairSpec

\* No client hangs, whatever processes of the server end, and when: its call
\* returns, with the old text in the worst case, or the client dies of it
\* (usock_server.c, who closes cd; lookup7.c, the results of write and read).
CallsReturn ==
  \A c \in Client : pc[c] \in {"connect", "write", "read"} ~> pc[c] \in {"idle", "gone"}
=============================================================================
