----------------------------- MODULE Dictionary -----------------------------
(***************************************************************************)
(* The dictionary every lookup server consults.  A word that has a record  *)
(* in the data file is Listed; its definition is named by the word itself, *)
(* so two words never share a definition and a mixed-up answer is always   *)
(* visible.  The servers answer the text "XXXX" for any other word.        *)
(***************************************************************************)
CONSTANTS
  Word,     \* the words a client may ask for
  Listed,   \* those that have a record in the data file
  XXXX,     \* the in-band text that means "not found"
  Junk      \* a string that is no word and no definition: uninitialised
            \* memory, a zero-filled record, a half-finished strcpy()

ASSUME DictionaryAssumption ==
  /\ Listed \subseteq Word
  /\ XXXX \notin Word
  /\ Junk \notin Word \cup {XXXX}

\* What a server may put into the text field, and what a client may report.
Answer == Listed \cup {XXXX}

\* lookup() of the server: FOUND yields the definition, NOTFOUND is turned
\* into "XXXX" by the server's main loop.
Lookup(w) == IF w \in Listed THEN w ELSE XXXX
=============================================================================
