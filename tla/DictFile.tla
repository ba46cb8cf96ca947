------------------------------ MODULE DictFile ------------------------------
(***************************************************************************)
(* The dictionary's data: convert.c makes a file of fixed-size records of  *)
(* a text, and three versions of lookup() search it (lookup1.c reads it    *)
(* through, lookup2.c sorts an index of it, lookup5.c maps it).  The       *)
(* servers call one of them; that what it finds is the answer, Lookup of   *)
(* Dictionary, is checked wherever a server is checked for its answers.    *)
(*                                                                         *)
(* Words are positive integers in the order of strcmp().  A line of the    *)
(* text is a word, a line of a definition, which is named by the word it   *)
(* defines, or Blank; every line ends in a newline.                        *)
(***************************************************************************)
EXTENDS Integers, SequencesExt, FiniteSetsExt, Dictionary

CONSTANT Source   \* the lines of the text the dictionary was converted from


Blank == 0
Empty == -1       \* a field of zero bytes

ASSUME SourceAssumption ==
  Word \subseteq Nat \ {Blank} /\ Source \in Seq(Word \cup {Blank}) /\ Source # <<>>

Record(w, t) == [word |-> w, text |-> t]
-----------------------------------------------------------------------------
(* convert.c                                                               *)

\* strcpy() of a definition's first line, strcat() of the others: the lines
\* of one definition make up that definition, any other mixture is none.
Join(text, line) == IF text \in {Empty, line} THEN line ELSE Junk

\* The main loop, from line i on: a word, and the lines of its definition up
\* to a blank line or the end of the file.
Convert(lines) ==
  LET Ends(i) == i > Len(lines) \/ lines[i] = Blank
      records[i \in 1..Len(lines) + 2] ==
        IF i > Len(lines) THEN <<>>
        ELSE LET end == Min({j \in i + 1..Len(lines) + 1 : Ends(j)})
                 text == FoldLeft(Join, Empty, SubSeq(lines, i + 1, end - 1))
             IN  <<Record(lines[i], text)>> \o records[end + 1]
  IN  records[1]

\* The file fixrec, which the servers are started with.
File == Convert(Source)
-----------------------------------------------------------------------------
(* lookup1.c, lookup2.c and lookup5.c.  NOTFOUND is given as XXXX, the     *)
(* text that every server sends for it.                                    *)

\* Sequential: the first record with the word.  The read that meets the end
\* of the file leaves the last record to be compared again, in vain.
LinearFind(file, w) ==
  LET hits == {i \in 1..Len(file) : file[i].word = w}
  IN  IF hits = {} THEN XXXX ELSE file[Min(hits)].text

\* Where the search may look: behind the first r[1] words, up to word r[2].
Ranges(words) == (0..Len(words)) \X (0..Len(words))

\* bsearch(): the index of the word among sorted words, or 0.
BSearch(words, w) ==
  LET find[r \in Ranges(words)] ==
        IF r[1] >= r[2] THEN 0
        ELSE LET mid == (r[1] + r[2]) \div 2
             IN  CASE w < words[mid + 1] -> find[<<r[1], mid>>]
                   [] w > words[mid + 1] -> find[<<mid + 1, r[2]>>]
                   [] OTHER              -> mid + 1
  IN  find[<<0, Len(words)>>]

\* The index of lookup2.c: every word with the place of its text, sorted (of
\* words that differ: qsort() leaves the order of equal ones open).  The loop
\* that reads the words goes round once more at the end of the file and sets
\* the offset of an entry behind the last; nothing reads that one.
Entries(file) == {[word |-> file[i].word, off |-> i] : i \in 1..Len(file)}

Index(file) ==
  LET Before(e) == {d \in Entries(file) : d.word < e.word}
  IN  [k \in 1..Cardinality(Entries(file)) |->
         CHOOSE e \in Entries(file) : Cardinality(Before(e)) = k - 1]

Words(table) == [i \in 1..Len(table) |-> table[i].word]

\* lookup2.c: the index is searched, and the text read from its offset.
IndexFind(file, w) ==
  LET table == Index(file)
      found == BSearch(Words(table), w)
  IN  IF found = 0 THEN XXXX ELSE file[table[found].off].text

\* lookup5.c: the mapped file itself is searched.
MapFind(file, w) ==
  LET found == BSearch(Words(file), w)
  IN  IF found = 0 THEN XXXX ELSE file[found].text

\* "We assume that the words are already in dictionary order" (lookup5.c).
InOrder(file) == \A i, j \in 1..Len(file) : i < j => file[i].word < file[j].word

\* A text of the listed words as convert.c wants it: articles with a blank
\* line between them, each with a word in its first line and the definition
\* of that word in the lines behind, of which there is one at least.
Heads(lines) == {i \in 1..Len(lines) : i = 1 \/ lines[i - 1] = Blank}

IsTextOf(lines, listed) ==
  /\ listed = {lines[i] : i \in Heads(lines)}
  /\ \A i, j \in Heads(lines) : lines[i] = lines[j] => i = j
  /\ \A i \in Heads(lines) : i < Len(lines) /\ lines[i + 1] # Blank
  /\ \A i \in Heads(lines) : \A j \in i..Len(lines) :
       (\A k \in i..j : lines[k] # Blank) => lines[j] = lines[i]

\* What the servers are started with: a file made of such a text.
SourceIsText == IsTextOf(Source, Listed)
=============================================================================
