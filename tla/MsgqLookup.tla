----------------------------- MODULE MsgqLookup -----------------------------
(***************************************************************************)
(* The dictionary service over one System V message queue (HW4, part 4).   *)
(* Messages of type 1 are requests; a message of type n is the reply for   *)
(* the client whose pid is n.  msgsnd() blocks until the message fits into *)
(* the queue's bytes, msgrcv() until there is a message of its type.       *)
(*                                                                         *)
(* The kernel keeps one list and serves each type in order, so the queue   *)
(* is a sequence per type.  msgsnd() and msgrcv() are external.  The       *)
(* server searches the file with lookup2.c (DictFile).                     *)
(***************************************************************************)
EXTENDS DictFile, FiniteSets

CONSTANTS
  Client,               \* processes that run main(), one after the other or at once
  Pid,                  \* the pids the system hands out
  ReqBytes, RepBytes,   \* sizeof(ClientMessage), sizeof(ServerMessage)
  QBytes,               \* msg_qbytes of the queue
  MaxAsk                \* bound: questions asked in all

ASSUME MsgqAssumption ==
  /\ ReqBytes \in Nat \ {0} /\ RepBytes \in Nat \ {0} /\ QBytes \in Nat
  /\ MaxAsk \in Nat
  /\ Junk \notin Pid

VARIABLES
  requests,      \* the messages of type 1
  replies,       \* the messages of every other type
  bytes,         \* msg_cbytes
  pc, pid,       \* where each client is, and its pid
  stale,         \* history: pids whose last owner died with an answer due
  word, result,  \* tryit.word, and what main() printed last
  asks,          \* how many questions have been asked
  spc, rcv,      \* where the server is, and the request it has taken
  stopped        \* history: the server has been stopped

queueVars  == <<requests, replies, bytes>>
clientVars == <<pc, pid, stale, word, result, asks>>
serverVars == <<spc, rcv, stopped>>
vars       == <<queueVars, clientVars, serverVars>>

Request == [id : Pid, word : Word]

NoRequest == [id |-> Junk, word |-> Junk]

TypeOK ==
  /\ requests \in Seq(Request)
  /\ replies \in [Pid -> Seq(Answer)]
  /\ bytes \in 0..QBytes
  /\ pc \in [Client -> {"off", "idle", "send", "receive", "gone"}]
  /\ pid \in [Client -> Pid \cup {Junk}] /\ stale \in SUBSET Pid
  /\ word \in [Client -> Word \cup {Junk}]
  /\ result \in [Client -> Answer \cup {Junk}]
  /\ asks \in 0..MaxAsk
  /\ spc \in {"receive", "send", "down"}
  /\ rcv \in Request \cup {NoRequest}
  /\ stopped \in BOOLEAN

Init ==
  /\ requests = <<>> /\ replies = [p \in Pid |-> <<>>] /\ bytes = 0
  /\ pc = [c \in Client |-> "off"]
  /\ pid = [c \in Client |-> Junk] /\ stale = {}
  /\ word = [c \in Client |-> Junk] /\ result = [c \in Client |-> Junk]
  /\ asks = 0
  /\ spc = "receive" /\ rcv = NoRequest /\ stopped = FALSE

Goto(c, l) == pc' = [pc EXCEPT ![c] = l]

Alive(c) == pc[c] \notin {"off", "gone"}
-----------------------------------------------------------------------------
(* The client: main() and lookup() of lookup4.c.                           *)

\* A process starts, with a pid that no living process has: the system
\* hands the pids of dead processes out again.
Start(c, p) ==
  /\ pc[c] = "off"
  /\ \A d \in Client : Alive(d) => pid[d] # p
  /\ pid' = [pid EXCEPT ![c] = p]
  /\ Goto(c, "idle")
  /\ UNCHANGED <<queueVars, stale, word, result, asks, serverVars>>

Ask(c, w) ==
  /\ pc[c] = "idle"
  /\ asks < MaxAsk
  /\ word' = [word EXCEPT ![c] = w]
  /\ asks' = asks + 1
  /\ Goto(c, "send")
  /\ UNCHANGED <<queueVars, pid, stale, result, serverVars>>

\* Mutant: the request is sent a second time.
SendTwice(c) ==
  /\ pc[c] = "send"
  /\ bytes + 2 * ReqBytes <= QBytes
  /\ bytes' = bytes + 2 * ReqBytes
  /\ LET r == [id |-> pid[c], word |-> word[c]]
     IN  requests' = requests \o <<r, r>>
  /\ Goto(c, "receive")
  /\ UNCHANGED <<replies, pid, stale, word, result, asks, serverVars>>

Send(c) ==
  /\ pc[c] = "send"
  /\ bytes + ReqBytes <= QBytes
  /\ bytes' = bytes + ReqBytes
  /\ requests' = Append(requests, [id |-> pid[c], word |-> word[c]])
  /\ Goto(c, "receive")
  /\ UNCHANGED <<replies, pid, stale, word, result, asks, serverVars>>

\* Mutant: msgrcv with type 0 takes the first reply, whoever it is for.
ReceiveAny(c) ==
  /\ pc[c] = "receive"
  /\ \E p \in Pid :
       /\ replies[p] # <<>>
       /\ result' = [result EXCEPT ![c] = Head(replies[p])]
       /\ replies' = [replies EXCEPT ![p] = Tail(@)]
  /\ bytes' = bytes - RepBytes
  /\ Goto(c, "idle")
  /\ UNCHANGED <<requests, pid, stale, word, asks, serverVars>>

\* msgrcv() with the own pid as the type; the text is the answer.
Receive(c) ==
  /\ pc[c] = "receive"
  /\ replies[pid[c]] # <<>>
  /\ result' = [result EXCEPT ![c] = Head(replies[pid[c]])]
  /\ replies' = [replies EXCEPT ![pid[c]] = Tail(@)]
  /\ bytes' = bytes - RepBytes
  /\ Goto(c, "idle")
  /\ UNCHANGED <<requests, pid, stale, word, asks, serverVars>>

\* End of input at the prompt; the queue keeps what is in it.
Quit(c) ==
  /\ pc[c] = "idle"
  /\ Goto(c, "gone")
  /\ UNCHANGED <<queueVars, pid, stale, word, result, asks, serverVars>>

\* A signal during a lookup: what the client has sent, or its answer, stays
\* in the queue under its pid.
Kill(c) ==
  /\ pc[c] \in {"send", "receive"}
  /\ stale' = IF pc[c] = "receive" THEN stale \cup {pid[c]} ELSE stale
  /\ Goto(c, "gone")
  /\ UNCHANGED <<queueVars, pid, word, result, asks, serverVars>>
-----------------------------------------------------------------------------
(* The server's main loop.                                                 *)

\* msgrcv() with type -1: the lowest type up to 1, that is the requests.
ServerReceive ==
  /\ spc = "receive"
  /\ requests # <<>>
  /\ rcv' = Head(requests)
  /\ requests' = Tail(requests)
  /\ bytes' = bytes - ReqBytes
  /\ spc' = "send"
  /\ UNCHANGED <<replies, clientVars, stopped>>

\* Mutants: the answer goes out raw; it goes out with the type of the
\* message that was received.
ServerReplyRaw ==
  /\ spc = "send"
  /\ bytes + RepBytes <= QBytes
  /\ bytes' = bytes + RepBytes
  /\ replies' = [replies EXCEPT ![rcv.id] = Append(@, rcv.word)]
  /\ spc' = "receive"
  /\ UNCHANGED <<requests, clientVars, rcv, stopped>>

ServerReplyToSelf ==
  /\ spc = "send"
  /\ bytes + ReqBytes <= QBytes
  /\ bytes' = bytes + ReqBytes
  /\ requests' = Append(requests, rcv)
  /\ spc' = "receive"
  /\ UNCHANGED <<replies, clientVars, rcv, stopped>>

\* The lookup and msgsnd() with the sender's pid as the type.
ServerReply ==
  /\ spc = "send"
  /\ bytes + RepBytes <= QBytes
  /\ bytes' = bytes + RepBytes
  /\ replies' = [replies EXCEPT ![rcv.id] = Append(@, IndexFind(File, rcv.word))]
  /\ spc' = "receive"
  /\ UNCHANGED <<requests, clientVars, rcv, stopped>>

\* The server dies, with the request it has taken, and is started again on
\* the queue as it is.
ServerStop ==
  /\ spc # "down"
  /\ spc' = "down" /\ rcv' = NoRequest /\ stopped' = TRUE
  /\ UNCHANGED <<queueVars, clientVars>>

ServerStart ==
  /\ spc = "down"
  /\ spc' = "receive"
  /\ UNCHANGED <<queueVars, clientVars, rcv, stopped>>
-----------------------------------------------------------------------------
ClientStep(c) == (\E w \in Word : Ask(c, w)) \/ Send(c) \/ Receive(c) \/ Quit(c)

ServerStep == ServerReceive \/ ServerReply

\* Every user is content to stay at the prompt.
AtPrompt == (\A c \in Client : pc[c] \in {"off", "idle", "gone"}) /\ UNCHANGED vars

Next ==
  \/ ServerStep \/ ServerStop \/ ServerStart \/ AtPrompt
  \/ \E c \in Client : ClientStep(c) \/ Kill(c) \/ \E p \in Pid : Start(c, p)

\* Processes keep running; weak fairness is enough at a full queue because
\* only a bounded number of questions is asked.
Fairness ==
  WF_vars(ServerStep) /\ \A c \in Client : WF_vars(Send(c) \/ Receive(c))

Spec     == Init /\ [][Next]_vars
FairSpec == Spec /\ Fairness
-----------------------------------------------------------------------------
(* Properties.                                                             *)

\* A living client whose pid nobody left an answer due under.
Clean(c) == Alive(c) /\ pid[c] \notin stale

\* Every such client's lookup is in one place at most: its request in the
\* queue, the server, or its reply in the queue; and while it is in one of
\* them the client waits for it (lookup4.c, one msgsnd and one msgrcv per
\* call), however often its pid was used before.
OnePlace ==
  \A c \in Client : Clean(c) =>
    LET p == pid[c]
        asked == {k \in 1..Len(requests) : requests[k].id = p}
    IN  /\ \A j, k \in asked : j = k
        /\ Len(replies[p]) <= 1
        /\ asked # {} => spc # "send" \/ rcv.id # p
        /\ asked # {} \/ (spc = "send" /\ rcv.id = p) => replies[p] = <<>>
        /\ asked # {} \/ (spc = "send" /\ rcv.id = p) \/ replies[p] # <<>>
             => pc[c] = "receive"

\* A lookup that has started comes back or is killed, also when the queue has
\* just the room for the requests of all other clients and one reply
\* (lookup4.c, await reply; msgq_server.c, reply immediately).  What a client
\* that was killed in msgrcv(), or a stopped server, leaves in the queue may
\* keep others out for ever.
Answered ==
  \A c \in Client :
    pc[c] = "send" ~> pc[c] \in {"idle", "gone"} \/ stale # {} \/ stopped

\* A client's lookup as the abstract service sees it.  Nothing is promised to
\* a process that was given a stale pid: it takes its predecessor's answer.
CallOf(c) ==
  IF pc[c] = "gone" \/ pid[c] \in stale THEN "gone"
  ELSE IF pc[c] \in {"off", "idle"} THEN "idle" ELSE "busy"

Service == INSTANCE LookupService
             WITH call <- [c \in Client |-> CallOf(c)], word <- word, result <- result

\* The queue implements the abstract service, also when clients are killed,
\* pids are used again and the server is stopped and restarted at any point:
\* a crash can lose an answer, and can mix one up only for a process that has
\* the pid of one killed in msgrcv().
ImplementsService == Service!Spec
-----------------------------------------------------------------------------
(* Inductive invariant.                                                    *)

\* What the server finds for a word, whatever the data file holds.
Found == {IndexFind(File, w) : w \in Word}

\* The types, but for what is found; a lookup under way has its word.
QueueInv ==
  /\ requests \in Seq(Request) /\ replies \in [Pid -> Seq(Found)]
  /\ pc \in [Client -> {"off", "idle", "send", "receive", "gone"}]
  /\ word \in [Client -> Word \cup {Junk}]
  /\ \A c \in Client : pc[c] \in {"send", "receive"} => word[c] \in Word
  /\ pid \in [Client -> Pid \cup {Junk}] /\ stale \in SUBSET Pid
  /\ asks \in 0..MaxAsk
  /\ spc \in {"receive", "send", "down"}
  /\ rcv \in Request \cup {NoRequest} /\ (spc = "send" => rcv \in Request)
  /\ stopped \in BOOLEAN

\* msg_cbytes counts the messages: never below zero, never above the limit.
Held == UNION {{p} \X (1..Len(replies[p])) : p \in Pid}
BytesInv ==
  /\ IsFiniteSet(Held)
  /\ bytes = ReqBytes * Len(requests) + RepBytes * Cardinality(Held)
  /\ bytes <= QBytes

\* Living processes have pids of their own.
PidInv ==
  /\ \A c \in Client : IF pc[c] = "off" THEN pid[c] = Junk ELSE pid[c] \in Pid
  /\ \A c, d \in Client : Alive(c) /\ Alive(d) /\ pid[c] = pid[d] => c = d

\* Under a pid that is not stale there is at most one lookup, in one place,
\* and a living process that waits for it.
Asked(p)   == {k \in 1..Len(requests) : requests[k].id = p}
Serving(p) == spc = "send" /\ rcv.id = p
Awaited(p) == \E c \in Client : pid[c] = p /\ pc[c] = "receive"
PlaceInv ==
  \A p \in Pid \ stale :
    /\ \A j, k \in Asked(p) : j = k
    /\ Len(replies[p]) <= 1
    /\ Asked(p) # {} => ~Serving(p)
    /\ Asked(p) # {} \/ Serving(p) => replies[p] = <<>>
    /\ Asked(p) # {} \/ Serving(p) \/ replies[p] # <<>> => Awaited(p)

\* That lookup is for the word the process waits for.
WordInv ==
  \A c \in Client : Clean(c) /\ pc[c] = "receive" =>
    /\ \A k \in Asked(pid[c]) : requests[k].word = word[c]
    /\ Serving(pid[c]) => rcv.word = word[c]
    /\ \A k \in 1..Len(replies[pid[c]]) : replies[pid[c]][k] = IndexFind(File, word[c])

Inv == QueueInv /\ BytesInv /\ PidInv /\ PlaceInv /\ WordInv
=============================================================================
