---------------------------- MODULE LookupService ----------------------------
(***************************************************************************)
(* What every version of lookup() promises to main() (dict.h, main.c): a   *)
(* call that returns has found the definition of the word it was given, or *)
(* has found that there is none.  The transports are shown to implement    *)
(* this specification, or shown where they do not.                         *)
(***************************************************************************)
EXTENDS Dictionary

CONSTANT Client   \* the processes that run main()

VARIABLES
  call,     \* "idle" at the prompt, "busy" inside lookup(), or "gone"
  word,     \* the word asked for
  result    \* what main() printed last

vars == <<call, word, result>>

ServiceTypeOK ==
  /\ call \in [Client -> {"idle", "busy", "gone"}]
  /\ word \in [Client -> Word \cup {Junk}]
  /\ result \in [Client -> Answer \cup {Junk}]

Init ==
  /\ call = [c \in Client |-> "idle"]
  /\ word = [c \in Client |-> Junk]
  /\ result = [c \in Client |-> Junk]

Ask(c, w) ==
  /\ call[c] = "idle"
  /\ call' = [call EXCEPT ![c] = "busy"]
  /\ word' = [word EXCEPT ![c] = w]
  /\ UNCHANGED result

Reply(c) ==
  /\ call[c] = "busy"
  /\ call' = [call EXCEPT ![c] = "idle"]
  /\ result' = [result EXCEPT ![c] = Lookup(word[c])]
  /\ UNCHANGED word

\* End of input at the prompt, or a signal at any time; or what serves these
\* clients is lost.
Leave(S) ==
  /\ \A c \in S : call[c] # "gone"
  /\ call' = [c \in Client |-> IF c \in S THEN "gone" ELSE call[c]]
  /\ UNCHANGED <<word, result>>

\* From then on nothing is promised.
Adrift(c) ==
  /\ call[c] = "gone"
  /\ word' = [word EXCEPT ![c] = word'[c]]
  /\ result' = [result EXCEPT ![c] = result'[c]]
  /\ UNCHANGED call

Next ==
  \/ \E S \in SUBSET Client : Leave(S)
  \/ \E c \in Client : (\E w \in Word : Ask(c, w)) \/ Reply(c) \/ Adrift(c)

\* Safety: no call returns anything but the answer.
Spec == Init /\ [][Next]_vars

\* ... and every call returns, unless the client leaves.
FairSpec == Spec /\ \A c \in Client : WF_vars(Reply(c))
=============================================================================
