------------------------------ MODULE UdpLookup ------------------------------
(***************************************************************************)
(* The dictionary service over UDP (HW9, part 3): the client sends one     *)
(* datagram and waits for one, with neither a timeout nor a second try;    *)
(* nothing in a datagram says which question it belongs to.  The server    *)
(* searches the file with lookup5.c (DictFile).                            *)
(*                                                                         *)
(* The client's address of the server is written over by recvfrom(), by as *)
(* much of the sender's as an uninitialised siz has room for.  The server  *)
(* takes datagrams for any address of its host; that it answers from the   *)
(* one that was asked is not said anywhere.                                *)
(*                                                                         *)
(* The network is external: a bag of datagrams, each of which may be lost, *)
(* delivered in any order, and delivered more than once.  A bag of at most *)
(* MaxCopies equal datagrams is a function to the number of copies.        *)
(***************************************************************************)
EXTENDS DictFile

CONSTANTS
  Client,      \* processes that run main(), each with a port of its own
  h_length,    \* bytes of an Internet address
  Home,        \* the addresses of the server's host
  Asked,       \* the one that gethostbyname() gives each client
  Answering,   \* the one from which the server's host sends to each client
  MaxAsk,      \* bound: questions per client
  MaxCopies    \* bound: equal datagrams on their way

Address == [1..h_length -> 0..255]

ASSUME UdpAssumption ==
  /\ h_length \in Nat /\ Home \subseteq Address
  /\ Asked \in [Client -> Home] /\ Answering \in [Client -> Home]
  /\ MaxAsk \in Nat /\ MaxCopies \in Nat \ {0}

VARIABLES
  requests,       \* datagrams to the server, with the client they come from
  replies,        \* datagrams to each client
  pc,             \* where each client is
  word, result,   \* tryit.word, and what main() printed last
  asks,           \* how many questions the client has asked
  server,         \* the client's address of the server
  lost, twice,    \* history: the clients of which a datagram was lost, or duplicated
  astray          \* history: the clients that have sent one to another host

netVars    == <<requests, replies>>
clientVars == <<pc, word, result, asks, server>>
history    == <<lost, twice, astray>>
vars       == <<netVars, clientVars, history>>

TypeOK ==
  /\ requests \in [Client -> [Word -> 0..MaxCopies]]
  /\ replies \in [Client -> [Answer -> 0..MaxCopies]]
  /\ pc \in [Client -> {"idle", "send", "receive", "gone"}]
  /\ word \in [Client -> Word \cup {Junk}]
  /\ result \in [Client -> Answer \cup {Junk}]
  /\ asks \in [Client -> 0..MaxAsk]
  /\ server \in [Client -> Address]
  /\ lost \in SUBSET Client /\ twice \in SUBSET Client /\ astray \in SUBSET Client

Init ==
  /\ requests = [c \in Client |-> [w \in Word |-> 0]]
  /\ replies = [c \in Client |-> [a \in Answer |-> 0]]
  /\ pc = [c \in Client |-> "idle"]
  /\ word = [c \in Client |-> Junk] /\ result = [c \in Client |-> Junk]
  /\ asks = [c \in Client |-> 0]
  /\ server = Asked
  /\ lost = {} /\ twice = {} /\ astray = {}

Goto(c, l) == pc' = [pc EXCEPT ![c] = l]
-----------------------------------------------------------------------------
(* The client: main() and lookup() of lookup9.c.                           *)

Ask(c, w) ==
  /\ pc[c] = "idle"
  /\ asks[c] < MaxAsk
  /\ word' = [word EXCEPT ![c] = w]
  /\ asks' = [asks EXCEPT ![c] = @ + 1]
  /\ Goto(c, "send")
  /\ UNCHANGED <<netVars, result, server, history>>

\* Mutant: the datagram is sent twice, to be on the safe side.
SendTwice(c) ==
  /\ pc[c] = "send"
  /\ requests[c][word[c]] + 1 < MaxCopies
  /\ requests' = [requests EXCEPT ![c][word[c]] = @ + 2]
  /\ Goto(c, "receive")
  /\ UNCHANGED <<replies, word, result, asks, server, history>>

\* sendto() the address that is there; what goes to another host is not
\* answered.
Send(c) ==
  /\ pc[c] = "send"
  /\ \/ /\ server[c] \in Home
        /\ requests[c][word[c]] < MaxCopies
        /\ requests' = [requests EXCEPT ![c][word[c]] = @ + 1]
        /\ UNCHANGED astray
     \/ /\ server[c] \notin Home
        /\ astray' = astray \cup {c}
        /\ UNCHANGED requests
  /\ Goto(c, "receive")
  /\ UNCHANGED <<replies, word, result, asks, server, lost, twice>>

\* The first n bytes of an address are written over.
Overwrite(old, new, n) == [i \in DOMAIN old |-> IF i <= n THEN new[i] ELSE old[i]]

\* Mutant: the address does not last until the next call, only first_time
\* does.
ReceiveForgets(c) ==
  /\ pc[c] = "receive"
  /\ \E a \in Answer :
       /\ replies[c][a] > 0
       /\ replies' = [replies EXCEPT ![c][a] = @ - 1]
       /\ result' = [result EXCEPT ![c] = a]
  /\ server' = [server EXCEPT ![c] = [i \in DOMAIN @ |-> 0]]
  /\ Goto(c, "idle")
  /\ UNCHANGED <<requests, word, asks, history>>

\* recvfrom() takes any datagram that has come to the client's port, and
\* stores it whatever the uninitialised siz holds: the record first, then as
\* much of the sender's address as siz has room for.  A negative siz is
\* EINVAL, at which nobody looks, and leaves the address as it is.
Receive(c) ==
  /\ pc[c] = "receive"
  /\ \E a \in Answer :
       /\ replies[c][a] > 0
       /\ replies' = [replies EXCEPT ![c][a] = @ - 1]
       /\ result' = [result EXCEPT ![c] = a]
  /\ \E n \in 0..h_length : server' = [server EXCEPT ![c] = Overwrite(@, Answering[c], n)]
  /\ Goto(c, "idle")
  /\ UNCHANGED <<requests, word, asks, history>>

Leave(c) ==
  /\ pc[c] # "gone"
  /\ Goto(c, "gone")
  /\ UNCHANGED <<netVars, word, result, asks, server, history>>
-----------------------------------------------------------------------------
\* The server's loop: recvfrom(), the lookup, and sendto() the sender.
Serve ==
  \E c \in Client, w \in Word :
    /\ requests[c][w] > 0
    /\ requests' = [requests EXCEPT ![c][w] = @ - 1]
    /\ LET text == MapFind(File, w)
       IN  /\ replies[c][text] < MaxCopies
           /\ replies' = [replies EXCEPT ![c][text] = @ + 1]
    /\ UNCHANGED <<clientVars, history>>

\* The network loses a datagram ...
Lose ==
  /\ \/ \E c \in Client, w \in Word :
          /\ requests[c][w] > 0
          /\ requests' = [requests EXCEPT ![c][w] = @ - 1]
          /\ lost' = lost \cup {c}
          /\ UNCHANGED replies
     \/ \E c \in Client, a \in Answer :
          /\ replies[c][a] > 0
          /\ replies' = [replies EXCEPT ![c][a] = @ - 1]
          /\ lost' = lost \cup {c}
          /\ UNCHANGED requests
  /\ UNCHANGED <<clientVars, twice, astray>>

\* ... or delivers it once more; once per client here.
Duplicate ==
  /\ \/ \E c \in Client \ twice, w \in Word :
          /\ requests[c][w] \in 1..(MaxCopies - 1)
          /\ requests' = [requests EXCEPT ![c][w] = @ + 1]
          /\ twice' = twice \cup {c}
          /\ UNCHANGED replies
     \/ \E c \in Client \ twice, a \in Answer :
          /\ replies[c][a] \in 1..(MaxCopies - 1)
          /\ replies' = [replies EXCEPT ![c][a] = @ + 1]
          /\ twice' = twice \cup {c}
          /\ UNCHANGED requests
  /\ UNCHANGED <<clientVars, lost, astray>>
-----------------------------------------------------------------------------
ClientStep(c) == (\E w \in Word : Ask(c, w)) \/ Send(c) \/ Receive(c)

Next == \/ Serve \/ Lose \/ Duplicate
        \/ \E c \in Client : ClientStep(c) \/ Leave(c)

\* Processes keep running, and the network delivers what it does not lose.
Fairness == WF_vars(Serve) /\ \A c \in Client : WF_vars(Send(c) \/ Receive(c))

Spec     == Init /\ [][Next]_vars
FairSpec == Spec /\ Fairness
-----------------------------------------------------------------------------
(* Properties.                                                             *)

\* The datagrams of c's exchange about w.
Ours(c, w) == requests[c][w] + replies[c][Lookup(w)]

OneAt(c) ==
  pc[c] # "gone" =>
    /\ \A w \in Word : requests[c][w] > 0 => pc[c] = "receive" /\ w = word[c]
    /\ \A a \in Answer : replies[c][a] > 0 => pc[c] = "receive" /\ a = Lookup(word[c])
    /\ pc[c] = "receive" => Ours(c, word[c]) <= 1

\* Until one of its datagrams is duplicated, a client that does not wait has
\* none on its way, and one that waits has at most one: the next question
\* cannot meet an old reply (lookup9.c, send a datagram & await reply).
OneOnItsWay == \A c \in Client \ twice : OneAt(c)

\* With it inductive: who has asked has a word.
AskedInv == \A c \in Client : pc[c] \in {"send", "receive"} => word[c] \in Word

\* The clients that are answered from another address than they ask.
Elsewhere == {c \in Client : Answering[c] # Asked[c]}

\* Whatever siz lets through, the address of the others is written over with
\* itself.
AddressInv == \A c \in Client \ Elsewhere : server[c] = Asked[c] /\ c \notin astray

Inv == TypeOK /\ AskedInv /\ OneOnItsWay /\ AddressInv

\* Who is promised nothing any more.
Excused == lost \cup twice \cup (astray \cap Elsewhere)

\* A client's lookup as the abstract service sees it, which is rid of a
\* client whose datagram is lost, and waits for ever, of one whose datagram
\* came twice, and can be taken for a reply to its next question, and of one
\* that sends to an address mixed of two.
CallOf(c) ==
  IF c \in Excused \/ pc[c] = "gone" THEN "gone"
  ELSE IF pc[c] = "idle" THEN "idle" ELSE "busy"

Service == INSTANCE LookupService
             WITH call <- [c \in Client |-> CallOf(c)], word <- word, result <- result

\* The datagrams implement the abstract service, in what is answered and in
\* answering at all, for every client of which the network neither loses
\* nor duplicates one, whatever it does to others (udp_server.c, sendto to
\* the sender); whatever siz holds, when the server answers from the address
\* that the client asks, and otherwise until the client's address is a
\* mixture that is not the server's (lookup9.c, the second use of server).
ImplementsService == Service!FairSpec
=============================================================================
