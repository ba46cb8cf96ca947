---------------------------- MODULE MCFifoLookup ----------------------------
(***************************************************************************)
(* FifoLookup for TLC.  The text has its words out of order, so the index  *)
(* has to be sorted, and the search goes to both sides and past the end.   *)
(***************************************************************************)
EXTENDS FifoLookup, SequencesExt

MCSource == <<3, 3, 3, Blank, 1, 1, Blank, 2, 2, 2>>

ASSUME DictionaryText == SourceIsText

\* The text that convert.c is given for a sequence of words, two lines each.
TextOf(words) ==
  FoldLeft(LAMBDA lines, w : lines \o <<w, w, w, Blank>>, <<>>, words)

\* Every text of one to four different words out of five: convert.c makes one
\* record per word, and the three searches agree on every word.
ASSUME SearchesAgree ==
  \A n \in 1..4 : \A words \in [1..n -> 1..5] :
    IsInjective(words) =>
      LET file == Convert(TextOf(words))
      IN  /\ file = [i \in 1..n |-> Record(words[i], words[i])]
          /\ \A w \in 1..5 :
               LET text == IF \E i \in 1..n : words[i] = w THEN w ELSE XXXX
               IN  /\ LinearFind(file, w) = text
                   /\ IndexFind(file, w) = text
                   /\ InOrder(file) => MapFind(file, w) = text
=============================================================================
