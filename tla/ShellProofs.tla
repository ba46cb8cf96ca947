---------------------------- MODULE ShellProofs -----------------------------
(***************************************************************************)
(* Proofs about the shell and its mymv.                                    *)
(*                                                                         *)
(* ShellLine, for every line of tokens: LineInv is inductive.  The array of *)
(* words is the line with NULL written over what has been taken out, up to *)
(* the segment that comes next (VectorInv); what is redirected, and whether *)
(* a file is missing, follows from the operators passed (RedirectInv); the *)
(* commands started so far are the first ones of the line, linked one to   *)
(* the next (ChainInv).                                                    *)
(*                                                                         *)
(* ShellJobs, for any number of lines, commands on a line and processes,   *)
(* and pipes of any size: JobsInv is inductive.  A process is set up with  *)
(* what its parent had open, and closes the rest before it executes its    *)
(* command (EndsInv); a new process has had nothing open before (OrderInv). *)
(*                                                                         *)
(* Mymv, for any names, processes and sizes of files: MvInv is inductive.  *)
(* A file that was there from the beginning is reached by no name but its  *)
(* own, a new one only by the name it has been created for (FileInv,       *)
(* NewInv); of a process that moves alone the copy is the prefix of what it *)
(* has read, and the source is removed when the copy is complete (MoveInv). *)
(***************************************************************************)
EXTENDS ShellJobs, ShellLine, Mymv, SequenceTheorems, FiniteSetTheorems,
        WellFoundedInduction, TLAPS

-----------------------------------------------------------------------------
(* ShellLine.                                                              *)

-----------------------------------------------------------------------------
(* Walks over the array and over the line.                                 *)

LEMMA LeastOf ==
  ASSUME NEW S \in SUBSET Nat, S # {}
  PROVE  Min(S) \in S /\ \A x \in S : Min(S) <= x
<1>1. \A m, n \in Nat : <<m, n>> \in OpToRel(<, Nat) <=> m < n
  BY DEF OpToRel
<1>2. \E R : IsWellFoundedOn(R, Nat) /\ \A m, n \in Nat : <<m, n>> \in R <=> m < n
  BY <1>1, NatLessThanWellFounded, Zenon
<1>3. PICK R : IsWellFoundedOn(R, Nat) /\ \A m, n \in Nat : <<m, n>> \in R <=> m < n
  BY <1>2
<1>4. S \subseteq Nat /\ IsWellFoundedOn(R, Nat)
  BY <1>3
<1>5. PICK n \in S : \A m \in S : ~ (<<m, n>> \in R)
  BY <1>4, WFMin, Zenon
<1>6. ASSUME NEW m \in S PROVE n <= m
  <2>1. m \in Nat /\ n \in Nat
    OBVIOUS
  <2>2. ~ (m < n)
    BY <1>3, <1>5, <2>1, Zenon
  <2> QED
    BY <2>1, <2>2
<1> QED
  BY <1>6 DEF Min

LEMMA LineIs ==
  ASSUME LineTypeOK
  PROVE  /\ line \in Seq(Token) /\ Len(line) \in Nat \ {0}
         /\ \A i \in 1..Len(line) : line[i] \in Token /\ line[i] # NULL
<1>1. line \in Seq(Token) /\ line # <<>>
  BY DEF LineTypeOK
<1>2. Len(line) \in Nat \ {0}
  BY <1>1, EmptySeq
<1>3. \A i \in 1..Len(line) : line[i] \in Token
  BY <1>1, ElementOfSeq
<1> QED
  BY <1>1, <1>2, <1>3, LineAssumption

\* The first place with t, or the first NULL.
LEMMA FindIs ==
  ASSUME LineTypeOK, NEW t, NEW o \in 0..Len(line)
  PROVE  /\ Find(t, o) \in o..Len(line) /\ argv[Find(t, o)] \in {t, NULL}
         /\ \A i \in o..Len(line) : argv[i] \in {t, NULL} => Find(t, o) <= i
<1> DEFINE S == {i \in o..Len(line) : argv[i] \in {t, NULL}}
<1>1. Len(line) \in Nat
  BY LineIs
<1>2. Len(line) \in S /\ S \in SUBSET Nat
  BY <1>1 DEF LineTypeOK
<1>3. Min(S) \in S /\ \A x \in S : Min(S) <= x
  BY <1>2, LeastOf
<1>4. Find(t, o) = Min(S)
  BY DEF Find
<1> QED
  BY <1>3, <1>4

\* The first place of the line with a word in s, or the one behind the last.
LEMMA FirstIs ==
  ASSUME LineTypeOK, NEW s
  PROVE  /\ FirstOf(s) \in 1..(Len(line) + 1)
         /\ FirstOf(s) <= Len(line) => line[FirstOf(s)] \in s
         /\ \A i \in 1..Len(line) : line[i] \in s => FirstOf(s) <= i
<1> DEFINE S == Places(s) \cup {Len(line) + 1}
<1>1. Len(line) \in Nat
  BY LineIs
<1>2. S \in SUBSET Nat /\ S # {} /\ S \subseteq 1..(Len(line) + 1)
  BY <1>1 DEF Places
<1>3. Min(S) \in S /\ \A x \in S : Min(S) <= x
  BY <1>2, LeastOf
<1>4. FirstOf(s) = Min(S)
  BY DEF FirstOf
<1> QED
  BY <1>1, <1>2, <1>3, <1>4 DEF Places

LEMMA FirstOfMore ==
  ASSUME LineTypeOK, NEW s, NEW t
  PROVE  FirstOf(s \cup {t}) = IF FirstOf({t}) < FirstOf(s) THEN FirstOf({t}) ELSE FirstOf(s)
<1> DEFINE a == FirstOf({t})
           b == FirstOf(s)
           m == FirstOf(s \cup {t})
<1>1. /\ a \in 1..(Len(line) + 1) /\ (a <= Len(line) => line[a] = t)
      /\ \A i \in 1..Len(line) : line[i] = t => a <= i
  BY FirstIs
<1>2. /\ b \in 1..(Len(line) + 1) /\ (b <= Len(line) => line[b] \in s)
      /\ \A i \in 1..Len(line) : line[i] \in s => b <= i
  BY FirstIs
<1>3. /\ m \in 1..(Len(line) + 1) /\ (m <= Len(line) => line[m] \in s \cup {t})
      /\ \A i \in 1..Len(line) : line[i] \in s \cup {t} => m <= i
  BY FirstIs
<1>4. Len(line) \in Nat
  BY LineIs
<1> HIDE DEF a, b, m
<1>5. m <= a /\ m <= b
  BY <1>1, <1>2, <1>3, <1>4
<1>6. m = a \/ m = b
  BY <1>1, <1>2, <1>3, <1>4, <1>5
<1>7. m = IF a < b THEN a ELSE b
  BY <1>1, <1>2, <1>3, <1>5, <1>6
<1> QED
  BY <1>7 DEF a, b, m

\* Where the array holds the words of the line, a walk over it is one over
\* the line.
LEMMA WalkIs ==
  ASSUME LineTypeOK, NEW t \in Token, NEW o \in Nat, NEW c \in (o + 1)..(Len(line) + 1), Holds(o, c)
  PROVE  /\ Find(t, o) \in o..(c - 1) /\ ArgvEnd(o) = c - 1
         /\ argv[Find(t, o)] = NULL <=> Find(t, o) = c - 1
         /\ Find(t, o) < c - 1 => argv[Find(t, o)] = t /\ line[Find(t, o) + 1] = t
         /\ \A i \in (o + 1)..Find(t, o) : line[i] # t
<1>1. Len(line) \in Nat /\ o \in 0..Len(line) /\ c \in Nat
  BY LineIs
<1>2. \A i \in o..(c - 2) : argv[i] = line[i + 1] /\ argv[i] # NULL
  <2> TAKE i \in o..(c - 2)
  <2>1. i + 1 \in 1..Len(line)
    BY <1>1
  <2> QED
    BY <2>1, LineIs DEF Holds
<1>3. argv[c - 1] = NULL /\ c - 1 \in o..Len(line)
  BY <1>1 DEF Holds
<1> DEFINE f == Find(t, o)
           e == Find(NULL, o)
<1>4. f \in o..Len(line) /\ argv[f] \in {t, NULL}
      /\ \A i \in o..Len(line) : argv[i] \in {t, NULL} => f <= i
  BY <1>1, FindIs
<1>5. e \in o..Len(line) /\ argv[e] = NULL
      /\ \A i \in o..Len(line) : argv[i] = NULL => e <= i
  <2>1. e \in o..Len(line) /\ argv[e] \in {NULL, NULL}
        /\ \A i \in o..Len(line) : argv[i] \in {NULL, NULL} => e <= i
    BY <1>1, FindIs, Zenon
  <2> QED
    BY <2>1
<1>6. ArgvEnd(o) = e
  BY DEF ArgvEnd
<1> HIDE DEF f, e
<1>7. f <= c - 1 /\ e <= c - 1
  BY <1>3, <1>4, <1>5
<1>8. e = c - 1
  BY <1>1, <1>2, <1>5, <1>7
<1>9. f < c - 1 => argv[f] = t /\ line[f + 1] = t /\ argv[f] # NULL
  BY <1>1, <1>2, <1>4
<1>10. \A i \in (o + 1)..f : line[i] # t
  <2> TAKE i \in (o + 1)..f
  <2>1. i - 1 \in o..(c - 2) /\ i - 1 < f /\ i - 1 \in o..Len(line) /\ (i - 1) + 1 = i
    BY <1>1, <1>4, <1>7
  <2>2. argv[i - 1] # t
    BY <1>4, <2>1
  <2> QED
    BY <1>2, <2>1, <2>2
<1>11. /\ f \in o..(c - 1) /\ (argv[f] = NULL <=> f = c - 1)
  BY <1>1, <1>3, <1>4, <1>7, <1>9
<1> QED
  BY <1>6, <1>8, <1>9, <1>10, <1>11 DEF f

-----------------------------------------------------------------------------
(* The bars of the line and their numbers.                                 *)

Rank(b) == Cardinality({c \in Bars : c < b})

LEMMA BarsAre ==
  ASSUME LineTypeOK
  PROVE  /\ Cut \in 1..(Len(line) + 1)
         /\ Bars \subseteq 0..Cut /\ 0 \in Bars /\ Cut \in Bars /\ IsFiniteSet(Bars)
         /\ \A b \in Bars : b # 0 /\ b < Cut => line[b] = "|" /\ version = "HW2"
         /\ \A i \in 1..Len(line) : i < Cut /\ line[i] = "|" /\ version = "HW2" => i \in Bars
<1>1. Cut \in 1..(Len(line) + 1) /\ Len(line) \in Nat
  BY FirstIs, LineIs DEF Cut
<1>2. Known \cap {"|"} = IF version = "HW2" THEN {"|"} ELSE {}
  BY DEF Known, Operator, LineTypeOK
<1>3. Bars \subseteq 0..Cut /\ 0 \in Bars /\ Cut \in Bars
  BY <1>1 DEF Bars, Places
<1>4. IsFiniteSet(Bars)
  <2>1. IsFiniteSet(0..Cut)
    BY <1>1, FS_Interval
  <2> QED
    BY <1>3, <2>1, FS_Subset
<1>5. \A b \in Bars : b # 0 /\ b < Cut => line[b] = "|" /\ version = "HW2"
  BY <1>1, <1>2 DEF Bars, Places
<1>6. \A i \in 1..Len(line) : i < Cut /\ line[i] = "|" /\ version = "HW2" => i \in Bars
  BY <1>1, <1>2 DEF Bars, Places
<1> QED
  BY <1>1, <1>3, <1>4, <1>5, <1>6

LEMMA RankIs ==
  ASSUME LineTypeOK
  PROVE  /\ \A b : Rank(b) \in Nat
         /\ Rank(0) = 0
         /\ \A b, d \in Bars : b < d => Rank(b) < Rank(d)
         /\ Commands = Rank(Cut) /\ Commands \in Nat
<1>1. \A b : IsFiniteSet({c \in Bars : c < b})
  <2> TAKE b
  <2>1. {c \in Bars : c < b} \subseteq Bars
    OBVIOUS
  <2> QED
    BY <2>1, BarsAre, FS_Subset
<1>2. \A b : Rank(b) \in Nat
  BY <1>1, FS_CardinalityType DEF Rank
<1>3. Rank(0) = 0
  <2>1. {c \in Bars : c < 0} = {}
    BY BarsAre
  <2> QED
    BY <2>1, FS_EmptySet DEF Rank
<1>4. ASSUME NEW b \in Bars, NEW d \in Bars, b < d PROVE Rank(b) < Rank(d)
  <2>1. b \in Nat /\ d \in Nat /\ \A c \in Bars : c \in Nat
    BY BarsAre
  <2> DEFINE B == {c \in Bars : c < b}
             D == {c \in Bars : c < d}
  <2>2. B \subseteq D
    <3>1. ASSUME NEW c \in Bars, c < b PROVE c < d
      <4>1. c \in Nat /\ b < d
        BY <1>4, <2>1
      <4> QED
        BY <2>1, <3>1, <4>1
    <3> QED
      BY <3>1
  <2>3. b \in D /\ b \notin B
    BY <1>4, <2>1
  <2>4. IsFiniteSet(D) /\ IsFiniteSet(B) /\ Cardinality(B) \in Nat /\ Cardinality(D) \in Nat
    BY <1>1, FS_CardinalityType
  <2>5. Rank(b) = Cardinality(B) /\ Rank(d) = Cardinality(D)
    BY DEF Rank
  <2> HIDE DEF B, D
  <2>6. Cardinality(B) <= Cardinality(D) /\ (Cardinality(D) = Cardinality(B) => D = B)
    BY <2>2, <2>4, FS_Subset
  <2>7. D # B
    BY <2>3
  <2> QED
    BY <2>4, <2>5, <2>6, <2>7
<1>5. Commands = Rank(Cut)
  <2>1. Cut \in Bars /\ \A c \in Bars : c \in Nat /\ c <= Cut
    BY BarsAre
  <2>2. {c \in Bars : c < Cut} = Bars \ {Cut}
    BY <2>1
  <2>3. Cardinality(Bars \ {Cut}) = Cardinality(Bars) - 1
    BY <2>1, BarsAre, FS_RemoveElement
  <2> QED
    BY <2>2, <2>3 DEF Rank, Commands
<1> QED
  BY <1>2, <1>3, <1>4, <1>5

\* A bar is found by its number.
LEMMA NthIs == ASSUME LineTypeOK, NEW b \in Bars PROVE NthBar(Rank(b)) = b
<1>1. \A d \in Bars : Rank(d) = Rank(b) => d = b
  <2> TAKE d \in Bars
  <2>1. b \in Nat /\ d \in Nat
    BY BarsAre
  <2>2. Rank(b) \in Nat /\ Rank(d) \in Nat /\ (b < d => Rank(b) < Rank(d)) /\ (d < b => Rank(d) < Rank(b))
    BY RankIs
  <2> QED
    BY <2>1, <2>2
<1>2. NthBar(Rank(b)) = CHOOSE d \in Bars : Rank(d) = Rank(b)
  BY DEF NthBar, Rank
<1> QED
  BY <1>1, <1>2

LEMMA NextRank ==
  ASSUME LineTypeOK, NEW b \in Bars, NEW d \in Bars, b < d, \A c \in Bars : ~(b < c /\ c < d)
  PROVE  Rank(d) = Rank(b) + 1
<1>1. \A c \in Bars : c \in Nat
  BY BarsAre
<1>2. {c \in Bars : c < d} = {c \in Bars : c < b} \cup {b} /\ b \notin {c \in Bars : c < b}
  BY <1>1
<1>3. IsFiniteSet({c \in Bars : c < b})
  BY BarsAre, FS_Subset, {c \in Bars : c < b} \subseteq Bars
<1> QED
  BY <1>2, <1>3, FS_AddElement DEF Rank

-----------------------------------------------------------------------------
(* The command that comes next in the chain.                               *)

\* The words up to e are those of the line.
LEMMA WordsAre ==
  ASSUME LineTypeOK, NEW o \in Nat, NEW c \in (o + 1)..(Len(line) + 1), Holds(o, c),
         NEW e \in o..(c - 1)
  PROVE  /\ Words(o, e) = SubSeq(line, o + 1, e) /\ Words(o, e) \in Seq(Token)
         /\ Len(Words(o, e)) = e - o
<1>1. Len(line) \in Nat /\ c \in Nat /\ e \in Nat /\ \A i \in 1..Len(line) : line[i] \in Token
  BY LineIs
<1>2. \A k \in 1..(e - o) : argv[o + k - 1] = line[o + k] /\ o + k \in 1..Len(line)
  <2> TAKE k \in 1..(e - o)
  <2>1. o + k - 1 \in o..(c - 2) /\ o + k \in 1..Len(line) /\ (o + k - 1) + 1 = o + k
    BY <1>1
  <2> QED
    BY <2>1 DEF Holds
<1>3. Words(o, e) = [k \in 1..(e - o) |-> line[o + k]]
  BY <1>2 DEF Words
<1>4. Words(o, e) \in [1..(e - o) -> Token] /\ e - o \in Nat
  BY <1>1, <1>2, <1>3
<1>5. Words(o, e) \in Seq(Token) /\ Len(Words(o, e)) = e - o
  BY <1>4, SeqDef, LenProperties
<1>6. /\ SubSeq(line, o + 1, e) \in Seq(Token)
      /\ Len(SubSeq(line, o + 1, e)) = IF o + 1 <= e THEN e - (o + 1) + 1 ELSE 0
      /\ \A i \in 1..(e - (o + 1) + 1) : SubSeq(line, o + 1, e)[i] = line[(o + 1) + i - 1]
  <2>1. \A i \in (o + 1)..e : line[i] \in Token
    BY <1>1
  <2> QED
    BY <1>1, <2>1, SubSeqProperties
<1>7. Len(SubSeq(line, o + 1, e)) = e - o
      /\ \A i \in 1..(e - o) : SubSeq(line, o + 1, e)[i] = line[o + i]
  <2>1. e - (o + 1) + 1 = e - o /\ \A i \in 1..(e - o) : (o + 1) + i - 1 = o + i
    BY <1>1
  <2> QED
    BY <1>1, <1>6, <2>1
<1>8. \A i \in 1..(e - o) : Words(o, e)[i] = SubSeq(line, o + 1, e)[i]
  BY <1>3, <1>7
<1>9. Words(o, e) = SubSeq(line, o + 1, e)
  BY <1>5, <1>6, <1>7, <1>8, SeqEqual
<1> QED
  BY <1>5, <1>9

\* What pipe_present() meets: the bar behind the next command.
LEMMA NextBar ==
  ASSUME LineTypeOK, version = "HW2", at \in Bars, at < Cut, Holds(at, Cut)
  PROVE  LET bar == Find("|", at)
             k   == Rank(at) + 1
         IN  /\ bar \in at..(Cut - 1) /\ ArgvEnd(at) = Cut - 1 /\ bar + 1 \in Bars
             /\ argv[bar] = NULL <=> bar + 1 = Cut
             /\ Rank(bar + 1) = k
             /\ Segment(k) = SubSeq(line, at + 1, bar)
             /\ Segment(k) = Words(at, bar) /\ Len(Segment(k)) = bar - at
             /\ Segment(k) \in Seq(Token)
<1> DEFINE bar == Find("|", at)
           k == Rank(at) + 1
<1>1. /\ Cut \in 1..(Len(line) + 1) /\ at \in Nat /\ Len(line) \in Nat
      /\ Cut \in (at + 1)..(Len(line) + 1)
  BY BarsAre, LineIs
<1>2. "|" \in Token
  BY DEF Token, Operator
<1>3. /\ bar \in at..(Cut - 1) /\ ArgvEnd(at) = Cut - 1
      /\ argv[bar] = NULL <=> bar = Cut - 1
      /\ bar < Cut - 1 => argv[bar] = "|" /\ line[bar + 1] = "|"
      /\ \A i \in (at + 1)..bar : line[i] # "|"
  BY <1>1, <1>2, WalkIs
<1> HIDE DEF bar
<1>4. bar + 1 \in Bars
  BY <1>1, <1>3, BarsAre
<1>5. \A c \in Bars : ~(at < c /\ c < bar + 1)
  <2> TAKE c \in Bars
  <2> SUFFICES ASSUME at < c, c < bar + 1 PROVE FALSE
    OBVIOUS
  <2>1. c \in Nat /\ c # 0 /\ c < Cut /\ c \in (at + 1)..bar
    BY <1>1, <1>3, BarsAre
  <2>2. line[c] = "|"
    BY <2>1, BarsAre
  <2> QED
    BY <1>3, <2>1, <2>2
<1>6. Rank(bar + 1) = k /\ k \in Nat
  BY <1>1, <1>3, <1>4, <1>5, NextRank, RankIs
<1>7. NthBar(k) = bar + 1 /\ NthBar(k - 1) = at
  <2>1. k - 1 = Rank(at)
    BY RankIs
  <2> QED
    BY <1>4, <1>6, <2>1, NthIs
<1>8. Segment(k) = SubSeq(line, at + 1, bar)
  <2>1. (bar + 1) - 1 = bar
    BY <1>1, <1>3
  <2> QED
    BY <1>7, <2>1 DEF Segment
<1>9. Words(at, bar) = SubSeq(line, at + 1, bar) /\ Words(at, bar) \in Seq(Token)
      /\ Len(Words(at, bar)) = bar - at
  BY <1>1, <1>3, WordsAre
<1>10. argv[bar] = NULL <=> bar + 1 = Cut
  BY <1>1, <1>3
<1> QED
  BY <1>3, <1>4, <1>6, <1>8, <1>9, <1>10 DEF bar

-----------------------------------------------------------------------------
(* The invariant, call by call.                                            *)

\* With the first operator of some kinds the line is over; the next walk
\* looks for t, takes the word behind it, and leaves the words before it.
LEMMA Redirect ==
  ASSUME LineTypeOK, NEW s, NEW t \in Operator, version = "HW2", Holds(0, FirstOf(s))
  PROVE  LET i == Find(t, 0)
         IN  /\ i \in 0..Len(line)
             /\ argv[i] = NULL => FileOf(t, s) = NULL /\ Holds(0, FirstOf(s \cup {t}))
             /\ argv[i] # NULL =>
                  /\ i < Len(line) /\ argv[i + 1] = FileOf(t, s)
                  /\ argv' = CutFrom(i) /\ line' = line =>
                       /\ argv' \in [0..Len(line) -> Token \cup {NULL}] /\ argv'[Len(line)] = NULL
                       /\ argv'[FirstOf(s \cup {t}) - 1] = NULL
                       /\ \A k \in 0..(FirstOf(s \cup {t}) - 2) : argv'[k] = line[k + 1]
<1> DEFINE i == Find(t, 0)
           c == FirstOf(s)
           d == FirstOf({t})
           m == FirstOf(s \cup {t})
<1>1. Len(line) \in Nat \ {0} /\ 0 \in Nat /\ t \in Token
  BY LineIs DEF Token
<1>2. c \in 1..(Len(line) + 1) /\ c \in (0 + 1)..(Len(line) + 1)
  BY <1>1, FirstIs
<1>3. /\ i \in 0..(c - 1) /\ ArgvEnd(0) = c - 1
      /\ argv[i] = NULL <=> i = c - 1
      /\ i < c - 1 => argv[i] = t /\ line[i + 1] = t
      /\ \A k \in (0 + 1)..i : line[k] # t
  BY <1>1, <1>2, WalkIs
<1>4. m = IF d < c THEN d ELSE c
  BY FirstOfMore
<1>5. /\ d \in 1..(Len(line) + 1) /\ (d <= Len(line) => line[d] \in {t})
      /\ \A k \in 1..Len(line) : line[k] \in {t} => d <= k
  BY FirstIs
<1>6. t \in Known
  BY DEF Known
<1>7. FileOf(t, s) = IF d < c /\ d + 1 < c /\ d + 1 <= Len(line) THEN line[d + 1] ELSE NULL
  BY <1>6 DEF FileOf
<1>8. Holds(0, c)
  OBVIOUS
<1> HIDE DEF i, c, d, m
<1>9. i \in 0..Len(line)
  BY <1>1, <1>2, <1>3
<1>10. CASE argv[i] = NULL
  <2>1. i = c - 1
    BY <1>3, <1>10
  <2>2. ~(d < c)
    BY <1>1, <1>2, <1>3, <1>5, <2>1
  <2> QED
    BY <1>4, <1>7, <1>8, <1>9, <1>10, <2>2 DEF i, c, d, m
<1>11. CASE argv[i] # NULL
  <2>1. i < c - 1 /\ line[i + 1] = t
    BY <1>2, <1>3, <1>11
  <2>2. d = i + 1
    BY <1>1, <1>2, <1>3, <1>5, <2>1
  <2>3. m = i + 1 /\ i < Len(line)
    BY <1>1, <1>2, <1>3, <1>4, <2>1, <2>2
  <2>4. argv[i + 1] = FileOf(t, s)
    <3>1. CASE i + 2 < c
      <4>1. i + 1 \in 0..(c - 2) /\ d + 1 <= Len(line)
        BY <1>1, <1>2, <1>3, <2>2, <3>1
      <4>2. argv[i + 1] = line[(i + 1) + 1]
        BY <1>8, <4>1 DEF Holds
      <4> QED
        BY <1>1, <1>2, <1>3, <1>7, <2>1, <2>2, <3>1, <4>1, <4>2
    <3>2. CASE ~(i + 2 < c)
      <4>1. i + 1 = c - 1
        BY <1>2, <1>3, <2>1, <3>2
      <4> QED
        BY <1>2, <1>3, <1>7, <1>8, <2>2, <3>2, <4>1 DEF Holds
    <3> QED
      BY <3>1, <3>2
  <2>5. ASSUME argv' = CutFrom(i), line' = line
        PROVE  /\ argv' \in [0..Len(line) -> Token \cup {NULL}] /\ argv'[Len(line)] = NULL
               /\ argv'[m - 1] = NULL
               /\ \A k \in 0..(m - 2) : argv'[k] = line[k + 1]
    <3>1. DOMAIN argv = 0..Len(line) /\ argv \in [0..Len(line) -> Token \cup {NULL}]
          /\ argv[Len(line)] = NULL
      BY DEF LineTypeOK
    <3>2. argv' = [k \in 0..Len(line) |-> IF k \in i..ArgvEnd(i) THEN NULL ELSE argv[k]]
      BY <2>5, <3>1 DEF CutFrom
    <3>3. argv' \in [0..Len(line) -> Token \cup {NULL}] /\ argv'[Len(line)] = NULL
      BY <1>1, <3>1, <3>2
    <3>4. ArgvEnd(i) \in i..Len(line)
      BY <1>9, FindIs DEF ArgvEnd
    <3>5. argv'[m - 1] = NULL
      BY <1>9, <2>3, <3>2, <3>4
    <3>6. ASSUME NEW k \in 0..(m - 2) PROVE argv'[k] = line[k + 1]
      <4>1. k \in 0..Len(line) /\ k < i /\ k \in 0..(c - 2)
        BY <1>1, <1>2, <1>3, <1>9, <2>1, <2>3
      <4>2. argv'[k] = argv[k]
        BY <3>2, <4>1
      <4> QED
        BY <1>8, <4>1, <4>2 DEF Holds
    <3> QED
      BY <3>3, <3>5, <3>6
  <2> QED
    BY <1>9, <1>11, <2>3, <2>4, <2>5 DEF i, c, m
<1> QED
  BY <1>10, <1>11

LEMMA LineInvInit == LineInit => LineInv
<1> SUFFICES ASSUME LineInit PROVE LineInv
  OBVIOUS
<1>1. line \in Seq(Token) /\ line # <<>> /\ Len(line) \in Nat \ {0}
  BY LineAssumption, EmptySeq DEF LineInit
<1>2. \A i \in 0..(Len(line) - 1) : argv[i] = line[i + 1] /\ line[i + 1] \in Token
  <2> TAKE i \in 0..(Len(line) - 1)
  <2>1. i + 1 \in 1..Len(line) /\ i # Len(line) /\ i \in 0..Len(line)
    BY <1>1
  <2> QED
    BY <1>1, <2>1, ElementOfSeq DEF LineInit
<1>3. argv \in [0..Len(line) -> Token \cup {NULL}] /\ argv[Len(line)] = NULL
  BY <1>1, <1>2 DEF LineInit
<1>4. LineTypeOK
  <2>1. line \in Seq(Token) \ {<<>>} /\ argv \in [0..Len(line) -> Token \cup {NULL}]
        /\ argv[Len(line)] = NULL /\ at \in 0..Len(line)
    BY <1>1, <1>3 DEF LineInit
  <2>2. stages \in Seq(Stage) /\ printed \in Seq(Token \cup {NULL})
    BY EmptySeq DEF LineInit
  <2> QED
    BY <2>1, <2>2 DEF LineInit, LineTypeOK
<1>5. PhaseInv
  BY DEF LineInit, PhaseInv, session, Builtins
<1>6. VectorInv
  <2>1. Holds(0, Len(line) + 1)
    <3>1. (Len(line) + 1) - 1 = Len(line) /\ (Len(line) + 1) - 2 = Len(line) - 1
      BY <1>1
    <3> QED
      BY <1>2, <1>3, <3>1 DEF Holds
  <2> QED
    BY <2>1 DEF LineInit, VectorInv
<1>7. RedirectInv
  BY DEF LineInit, RedirectInv
<1>8. ChainInv
  BY EmptySeq DEF LineInit, ChainInv
<1>9. StartsInOrder /\ BuiltinsInShell
  BY DEF LineInit, StartsInOrder, BuiltinsInShell
<1> QED
  BY <1>4, <1>5, <1>6, <1>7, <1>8, <1>9 DEF LineInv

LEMMA MainKeepsInv == ASSUME LineInv, Main PROVE LineInv'
<1> USE DEF LineInv, Main, typed, session
<1>1. argv[0] = line[1]
  <2>1. 0 \in 0..((Len(line) + 1) - 2) /\ 0 + 1 = 1
    BY LineIs
  <2> QED
    BY <2>1 DEF VectorInv, Holds
<1>2. phase' = IF IsBuiltin THEN Builtin[line[1]] ELSE "background"
  BY <1>1 DEF IsBuiltin
<1>3. IsBuiltin => Builtin[line[1]] \in Builtins
  BY LineAssumption DEF IsBuiltin, is_builtin, Builtins
<1>4. phase' \in Builtins \cup {"background"}
  BY <1>2, <1>3
<1>5. IsBuiltin' = IsBuiltin /\ \A kind : Is(kind)' = Is(kind)
  BY DEF IsBuiltin, is_builtin, Is
<1>6. LineTypeOK'
  BY <1>4 DEF LineTypeOK, Builtins
<1>7. PhaseInv'
  BY <1>2, <1>3, <1>4, <1>5 DEF PhaseInv, Builtins, Is
<1>8. VectorInv'
  BY <1>4 DEF VectorInv, Builtins, Holds
<1>9. RedirectInv'
  BY <1>4 DEF RedirectInv, Builtins
<1>10. ChainInv'
  BY <1>4, EmptySeq DEF ChainInv, PhaseInv, Builtins
<1>11. StartsInOrder' /\ BuiltinsInShell'
  BY <1>4 DEF StartsInOrder, BuiltinsInShell, Builtins
<1> QED
  BY <1>6, <1>7, <1>8, <1>9, <1>10, <1>11

\* A builtin changes nothing but the state of the shell.
LEMMA BuiltinKeepsInv ==
  ASSUME LineInv, phase \in Builtins, Return, shellState' \in {"alive", "gone"},
         cwd' \in Directory \cup {"home"}, printed' \in Seq(Token \cup {NULL}),
         BuiltinsInShell'
  PROVE  LineInv'
<1> USE DEF LineInv, Return, typed, session
<1>1. IsBuiltin /\ IsBuiltin'
  BY DEF PhaseInv, Is, IsBuiltin, is_builtin
<1>2. LineTypeOK'
  BY DEF LineTypeOK
<1>3. PhaseInv'
  BY <1>1 DEF PhaseInv, Builtins
<1>4. VectorInv' /\ RedirectInv'
  BY DEF VectorInv, RedirectInv, Builtins
<1>5. stages' = <<>>
  BY <1>1 DEF PhaseInv
<1>6. ChainInv' /\ StartsInOrder'
  BY <1>1, <1>5, EmptySeq DEF ChainInv, StartsInOrder
<1> QED
  BY <1>2, <1>3, <1>4, <1>6

\* Where a builtin starts the array holds the whole line.
LEMMA WholeLine ==
  ASSUME LineInv, phase \in Builtins
  PROVE  /\ Is(phase) /\ Len(line) \in Nat \ {0} /\ stages = <<>> /\ ~run_in_background
         /\ shellState = "alive" /\ cwd = "home" /\ printed = <<>>
         /\ argv[Len(line)] = NULL
         /\ \A i \in 0..(Len(line) - 1) : argv[i] = line[i + 1] /\ argv[i] \in Token /\ argv[i] # NULL
<1> USE DEF LineInv
<1>1. Len(line) \in Nat \ {0} /\ \A i \in 1..Len(line) : line[i] \in Token /\ line[i] # NULL
  BY LineIs
<1>2. Holds(0, Len(line) + 1)
  BY DEF VectorInv
<1>3. (Len(line) + 1) - 1 = Len(line) /\ (Len(line) + 1) - 2 = Len(line) - 1
  BY <1>1
<1>4. Is(phase) /\ session = <<"alive", "home", <<>>>> /\ phase # "done"
  BY DEF PhaseInv, Builtins
<1>5. stages = <<>> /\ ~run_in_background
  BY <1>4 DEF PhaseInv, Is
<1>6. \A i \in 0..(Len(line) - 1) : i + 1 \in 1..Len(line)
  BY <1>1
<1> QED
  BY <1>1, <1>2, <1>3, <1>4, <1>5, <1>6 DEF Holds, session

\* Only one kind of builtin is meant.
LEMMA OneKind == \A a, b : Is(a) /\ Is(b) => a = b
BY DEF Is

LEMMA SameMeaning ==
  ASSUME UNCHANGED typed
  PROVE  /\ IsBuiltin' = IsBuiltin /\ \A kind : Is(kind)' = Is(kind)
         /\ Picks' = Picks
BY DEF typed, IsBuiltin, is_builtin, Is, Picks, atoi

LEMMA StrayIs ==
  ASSUME LineInv, phase \in Builtins, Stray
  PROVE  /\ shellState' \in {"alive", "gone"} /\ cwd' = "home"
         /\ printed' \in Seq(Token \cup {NULL})
<1>1. printed = <<>> /\ cwd = "home" /\ shellState = "alive"
  BY WholeLine
<1>2. <<>> \in Seq(Token \cup {NULL}) /\ <<NULL>> \in Seq(Token \cup {NULL})
  <2>1. NULL \in Token \cup {NULL}
    OBVIOUS
  <2> QED
    BY <2>1, EmptySeq
<1> QED
  BY <1>1, <1>2 DEF Stray

LEMMA AtoiIs == \A w : atoi(w) \in Nat
BY LineAssumption DEF atoi

LEMMA TailIs ==
  ASSUME LineInv, phase \in Builtins
  PROVE  Words(1, Len(line)) = Tail(line) /\ Words(1, Len(line)) \in Seq(Token)
<1>1. LineTypeOK /\ Len(line) \in Nat \ {0} /\ line \in Seq(Token) /\ line # <<>>
  BY WholeLine DEF LineInv, LineTypeOK
<1>2. Holds(1, Len(line) + 1)
  <2>1. (Len(line) + 1) - 1 = Len(line) /\ (Len(line) + 1) - 2 = Len(line) - 1
    BY <1>1
  <2>2. 1..(Len(line) - 1) \subseteq 0..(Len(line) - 1)
    BY <1>1
  <2> QED
    BY <2>1, <2>2, WholeLine DEF Holds
<1>3. Len(line) + 1 \in (1 + 1)..(Len(line) + 1) /\ Len(line) \in 1..((Len(line) + 1) - 1) /\ 1 \in Nat
  BY <1>1
<1>4. Words(1, Len(line)) = SubSeq(line, 1 + 1, Len(line)) /\ Words(1, Len(line)) \in Seq(Token)
  BY <1>1, <1>2, <1>3, WordsAre
<1>5. Tail(line) = SubSeq(line, 2, Len(line))
  BY <1>1, HeadTailProperties
<1> QED
  BY <1>4, <1>5

LEMMA EchoKeepsInv == ASSUME LineInv, Echo PROVE LineInv'
<1> DEFINE last == Len(line) - 1
           place == IF last >= 2 THEN atoi(argv[2]) ELSE 0
           nth == argv[1] = Dash /\ place > 0
<1>1. /\ phase = "echo" /\ phase \in Builtins /\ phase' = "done"
      /\ UNCHANGED <<line, version, run_in_background, stages>>
  BY DEF Echo, Return, Builtins, typed
<1>2. /\ Is("echo") /\ Len(line) \in Nat \ {0} /\ stages = <<>> /\ ~run_in_background
      /\ shellState = "alive" /\ cwd = "home" /\ printed = <<>>
      /\ \A i \in 0..(Len(line) - 1) : argv[i] = line[i + 1] /\ argv[i] \in Token /\ argv[i] # NULL
  BY <1>1, WholeLine
<1>3. Is("echo")' /\ IsBuiltin' /\ ~Is("quit")' /\ ~Is("cd")' /\ ~Is("show")' /\ ~Is("builtin")'
      /\ Picks' = Picks
  BY <1>1, <1>2, SameMeaning, OneKind DEF typed, Is
<1>4. last >= 2 => place = atoi(line[3]) /\ argv[1] = line[2]
  BY <1>2
<1>5. place \in Nat
  BY AtoiIs
<1>6. last >= 2 => (nth <=> Picks)
  BY <1>2, <1>4 DEF Picks
<1>7. CASE last < 2 \/ (nth /\ place + 2 > last)
  <2>1. Stray
    BY <1>7 DEF Echo
  <2>2. shellState' \in {"alive", "gone"} /\ cwd' = "home" /\ printed' \in Seq(Token \cup {NULL})
    BY <1>1, <2>1, StrayIs
  <2>3. last < 2 \/ (Picks /\ atoi(line[3]) > Len(line) - 3)
    BY <1>2, <1>4, <1>5, <1>6, <1>7
  <2>4. last < 2 <=> Len(line) < 3
    BY <1>2
  <2>5. ~(Len(line) >= 3) \/ ~(atoi(line[3]) <= Len(line) - 3)
    BY <1>2, <2>3, <2>4, AtoiIs
  <2>6. last < 2 \/ Picks
    BY <2>3
  <2>7. BuiltinsInShell'
    BY <1>1, <1>2, <1>3, <2>2, <2>3, <2>4, <2>5 DEF BuiltinsInShell, atoi
  <2> QED
    BY <1>1, <2>2, <2>7, BuiltinKeepsInv DEF Echo
<1>8. CASE ~(last < 2 \/ (nth /\ place + 2 > last))
  <2>1. /\ shellState' = "alive" /\ cwd' = "home"
        /\ printed' = IF nth THEN <<argv[place + 2]>> ELSE Words(1, last + 1)
    BY <1>2, <1>8 DEF Echo
  <2>2. last >= 2 /\ Len(line) >= 3 /\ last + 1 = Len(line)
    BY <1>2, <1>8
  <2>3. nth <=> Picks
    BY <1>6, <2>2
  <2>4. CASE nth
    <3>1. place + 2 \in 0..(Len(line) - 1) /\ (place + 2) + 1 = atoi(line[3]) + 3
      BY <1>2, <1>4, <1>5, <1>8, <2>2, <2>4
    <3>2. argv[place + 2] = line[atoi(line[3]) + 3] /\ argv[place + 2] \in Token
      BY <1>2, <3>1
    <3>3. printed' = <<line[atoi(line[3]) + 3]>> /\ printed' \in Seq(Token \cup {NULL})
      <4>1. line[atoi(line[3]) + 3] \in Token \cup {NULL}
        BY <3>2
      <4>2. <<line[atoi(line[3]) + 3]>> \in Seq(Token \cup {NULL})
        BY <4>1
      <4>3. printed' = <<line[atoi(line[3]) + 3]>>
        BY <2>1, <2>4, <3>2
      <4> QED
        BY <4>2, <4>3
    <3>4. BuiltinsInShell'
      BY <1>1, <1>2, <1>3, <2>1, <2>2, <2>3, <2>4, <3>3 DEF BuiltinsInShell, atoi
    <3> QED
      BY <1>1, <2>1, <3>3, <3>4, BuiltinKeepsInv DEF Echo
  <2>5. CASE ~nth
    <3>1. printed' = Tail(line) /\ printed' \in Seq(Token)
      BY <1>1, <2>1, <2>2, <2>5, TailIs
    <3>2. printed' \in Seq(Token \cup {NULL})
      BY <3>1, SeqMonotonic, Token \subseteq Token \cup {NULL}
    <3>3. BuiltinsInShell'
      BY <1>1, <1>2, <1>3, <2>1, <2>2, <2>3, <2>5, <3>1 DEF BuiltinsInShell
    <3> QED
      BY <1>1, <2>1, <3>2, <3>3, BuiltinKeepsInv DEF Echo
  <2> QED
    BY <2>4, <2>5
<1> QED
  BY <1>7, <1>8

LEMMA OtherBuiltinsKeepInv ==
  ASSUME LineInv, Cd \/ TellBuiltin \/ Show \/ ExitShell PROVE LineInv'
<1>1. /\ phase \in {"cd", "builtin", "show", "quit"} /\ phase \in Builtins /\ Return
      /\ phase' = "done" /\ UNCHANGED <<line, version, run_in_background, stages>>
  BY DEF Cd, TellBuiltin, Show, ExitShell, Return, Builtins, typed
<1>2. /\ Is(phase) /\ Len(line) \in Nat \ {0} /\ stages = <<>> /\ ~run_in_background
      /\ shellState = "alive" /\ cwd = "home" /\ printed = <<>> /\ argv[Len(line)] = NULL
      /\ \A i \in 0..(Len(line) - 1) : argv[i] = line[i + 1] /\ argv[i] \in Token /\ argv[i] # NULL
  BY <1>1, WholeLine
<1>3. /\ \A kind : Is(kind)' <=> kind = phase
      /\ IsBuiltin' /\ IsBuiltin
  BY <1>1, <1>2, SameMeaning, OneKind DEF typed, Is
<1>4. /\ Is("quit")' <=> phase = "quit"
      /\ Is("cd")' <=> phase = "cd"
      /\ Is("show")' <=> phase = "show"
      /\ Is("builtin")' <=> phase = "builtin"
      /\ Is("echo")' <=> phase = "echo"
  BY <1>3
<1>5. Len(line) >= 2 => argv[1] = line[2] /\ argv[1] \in Token /\ argv[1] # NULL
  BY <1>2
<1>6. Len(line) = 1 => argv[1] = NULL
  BY <1>2
<1>7. <<>> \in Seq(Token \cup {NULL})
  BY EmptySeq
<1>8. CASE Cd
  <2>1. phase = "cd" /\ shellState' = "alive" /\ printed' = <<>>
        /\ cwd' = IF argv[1] \in Directory THEN argv[1] ELSE "home"
    BY <1>2, <1>8 DEF Cd
  <2>2. argv[1] \in Directory => Len(line) >= 2
    BY <1>2, <1>6, LineAssumption DEF Token
  <2>3. cwd' # "home" => cwd' = line[2]
    BY <1>5, <2>1, <2>2
  <2>4. BuiltinsInShell'
    BY <1>1, <1>2, <1>4, <2>1, <2>3 DEF BuiltinsInShell
  <2> QED
    BY <1>1, <1>7, <2>1, <2>4, BuiltinKeepsInv
<1>9. CASE TellBuiltin
  <2>1. phase = "builtin"
    BY <1>9 DEF TellBuiltin
  <2>2. CASE argv[1] = NULL
    <3>1. shellState' \in {"alive", "gone"} /\ cwd' = "home" /\ printed' \in Seq(Token \cup {NULL})
      BY <1>1, <1>9, <2>2, StrayIs DEF TellBuiltin
    <3>2. Len(line) = 1
      <4>1. Len(line) \in Nat \ {0}
        BY <1>2
      <4>2. ~(Len(line) >= 2)
        BY <1>5, <2>2
      <4>3. \A n \in Nat \ {0} : ~(n >= 2) => n = 1
        OBVIOUS
      <4> QED
        BY <4>1, <4>2, <4>3
    <3>3. BuiltinsInShell'
      BY <1>1, <1>2, <1>4, <2>1, <3>1, <3>2 DEF BuiltinsInShell
    <3> QED
      BY <1>1, <3>1, <3>3, BuiltinKeepsInv
  <2>3. CASE argv[1] # NULL
    <3>1. shellState' = "alive" /\ cwd' = "home" /\ printed' = <<argv[1]>>
      BY <1>2, <1>9, <2>3 DEF TellBuiltin
    <3>2. argv[1] \in Token
      BY <1>2, <1>5, <1>6, <2>3
    <3>3. printed' \in Seq(Token \cup {NULL})
      BY <3>1, <3>2
    <3>4. BuiltinsInShell'
      BY <1>1, <1>2, <1>4, <2>1, <3>1 DEF BuiltinsInShell
    <3> QED
      BY <1>1, <3>1, <3>3, <3>4, BuiltinKeepsInv
  <2> QED
    BY <2>2, <2>3
<1>10. CASE Show
  <2>1. phase = "show" /\ shellState' \in {"alive", "gone"} /\ cwd' = "home" /\ printed' = <<>>
    BY <1>2, <1>10 DEF Show
  <2>2. BuiltinsInShell'
    BY <1>1, <1>2, <1>4, <2>1 DEF BuiltinsInShell
  <2> QED
    BY <1>1, <1>7, <2>1, <2>2, BuiltinKeepsInv
<1>11. CASE ExitShell
  <2>1. phase = "quit" /\ shellState' = "gone" /\ cwd' = "home" /\ printed' = <<>>
    BY <1>2, <1>11 DEF ExitShell
  <2>2. BuiltinsInShell'
    BY <1>1, <1>2, <1>4, <2>1 DEF BuiltinsInShell
  <2> QED
    BY <1>1, <1>7, <2>1, <2>2, BuiltinKeepsInv
<1> QED
  BY <1>8, <1>9, <1>10, <1>11

\* What a line means does not change.
LEMMA SameLine ==
  ASSUME UNCHANGED typed
  PROVE  /\ IsBuiltin' = IsBuiltin /\ Len(line') = Len(line) /\ version' = version
         /\ \A s : FirstOf(s)' = FirstOf(s)
         /\ Cut' = Cut /\ Bars' = Bars /\ Commands' = Commands
         /\ \A k : Segment(k)' = Segment(k) /\ (Starts(k)' <=> Starts(k))
         /\ Input' = Input /\ Output' = Output
<1> USE DEF typed
<1>1. IsBuiltin' = IsBuiltin
  BY DEF IsBuiltin, is_builtin
<1>2. \A s : FirstOf(s)' = FirstOf(s)
  BY DEF FirstOf, Places
<1>3. Cut' = Cut /\ Bars' = Bars
  BY DEF Cut, Bars, Known, FirstOf, Places
<1>4. Commands' = Commands
  BY <1>3 DEF Commands
<1>5. \A k : Segment(k)' = Segment(k)
  BY <1>3 DEF Segment, NthBar
<1>6. \A k : Starts(k)' <=> Starts(k)
  BY <1>4, <1>5 DEF Starts
<1>7. Input' = Input /\ Output' = Output
  BY DEF Input, Output, FileOf, Known, FirstOf, Places
<1> QED
  BY <1>1, <1>2, <1>3, <1>4, <1>5, <1>6, <1>7

\* Before the commands of a line are started there is little to say of it.
LEMMA WordsStep ==
  ASSUME LineInv, UNCHANGED <<typed, at, stages, missing, session>>,
         phase \in {"background", "in", "out"}, phase' \in {"exec", "in", "out"},
         phase' = "exec" => version = "HW1", phase' \in {"in", "out"} => version = "HW2",
         argv' \in [0..Len(line) -> Token \cup {NULL}], argv'[Len(line)] = NULL,
         run_in_background' \in BOOLEAN, sin' \in Token \cup {"tty", "pipe"}, sout' = "tty",
         phase' \in {"exec", "in"} => sin' = "tty" /\ Holds(0, FirstOf({"&"}))',
         phase' = "out" => sin' = Input /\ Holds(0, FirstOf({"&", "<"}))'
  PROVE  LineInv'
<1> USE DEF LineInv, typed
<1>1. ~IsBuiltin /\ ~IsBuiltin' /\ stages = <<>> /\ ~missing /\ at = 0
      /\ session = <<"alive", "home", <<>>>>
  BY SameLine DEF PhaseInv
<1>2. LineTypeOK'
  BY <1>1 DEF LineTypeOK, session
<1>3. PhaseInv'
  BY <1>1 DEF PhaseInv, Builtins, session
<1>4. VectorInv'
  BY SameLine DEF VectorInv, Builtins
<1>5. RedirectInv'
  BY SameLine DEF RedirectInv, Builtins
<1>6. ChainInv'
  BY <1>1, EmptySeq DEF ChainInv
<1>7. StartsInOrder' /\ BuiltinsInShell'
  BY DEF StartsInOrder, BuiltinsInShell
<1> QED
  BY <1>2, <1>3, <1>4, <1>5, <1>6, <1>7

LEMMA IsBackgroundKeepsInv == ASSUME LineInv, IsBackground PROVE LineInv'
<1> DEFINE i == Find("&", 0)
           d == FirstOf({"&"})
<1>1. LineTypeOK /\ Len(line) \in Nat \ {0} /\ phase = "background" /\ Holds(0, Len(line) + 1)
  BY LineIs DEF LineInv, IsBackground, VectorInv
<1>2. "&" \in Token /\ 0 \in Nat /\ Len(line) + 1 \in (0 + 1)..(Len(line) + 1)
  BY <1>1 DEF Token, Operator
<1>3. /\ i \in 0..((Len(line) + 1) - 1)
      /\ argv[i] = NULL <=> i = (Len(line) + 1) - 1
      /\ i < (Len(line) + 1) - 1 => argv[i] = "&" /\ line[i + 1] = "&"
      /\ \A k \in (0 + 1)..i : line[k] # "&"
  BY <1>1, <1>2, WalkIs
<1>4. /\ d \in 1..(Len(line) + 1) /\ (d <= Len(line) => line[d] \in {"&"})
      /\ \A k \in 1..Len(line) : line[k] \in {"&"} => d <= k
  BY <1>1, FirstIs
<1>5. argv' = [argv EXCEPT ![i] = NULL] /\ run_in_background' = (argv[i] = "&")
      /\ phase' = (IF version = "HW1" THEN "exec" ELSE "in")
      /\ UNCHANGED <<typed, at, sin, sout, stages, missing, session>>
  BY DEF IsBackground
<1>6. d' = d
  BY <1>5, SameLine
<1> HIDE DEF i, d
<1>7. d = i + 1
  BY <1>1, <1>3, <1>4
<1>8. argv \in [0..Len(line) -> Token \cup {NULL}] /\ argv[Len(line)] = NULL
  BY <1>1 DEF LineTypeOK
<1>9. argv' \in [0..Len(line) -> Token \cup {NULL}] /\ argv'[Len(line)] = NULL
  BY <1>1, <1>3, <1>5, <1>8
<1>10. argv'[d - 1] = NULL
  BY <1>1, <1>3, <1>5, <1>7, <1>8
<1>11. ASSUME NEW k \in 0..(d - 2) PROVE argv'[k] = line[k + 1]
  <2>1. k # i /\ k \in 0..((Len(line) + 1) - 2) /\ k \in 0..Len(line)
    BY <1>1, <1>3, <1>7
  <2> QED
    BY <1>1, <1>5, <1>8, <2>1 DEF Holds
<1>12. Holds(0, d)'
  <2>1. line' = line
    BY <1>5 DEF typed
  <2> QED
    BY <1>6, <1>10, <1>11, <2>1 DEF Holds
<1>13. version \in {"HW1", "HW2"} /\ sin = "tty" /\ sout = "tty"
  BY <1>1 DEF LineInv, LineTypeOK, RedirectInv
<1>14. run_in_background' \in BOOLEAN
  BY <1>5
<1> HIDE DEF Holds
<1> QED
  BY <1>1, <1>5, <1>9, <1>12, <1>13, <1>14, WordsStep DEF d

LEMMA RedirectInKeepsInv == ASSUME LineInv, RedirectIn PROVE LineInv'
<1> DEFINE i == Find("<", 0)
           s == {"&"}
           m == FirstOf(s \cup {"<"})
<1>1. LineTypeOK /\ phase = "in" /\ version = "HW2" /\ Holds(0, FirstOf(s)) /\ "<" \in Operator
      /\ Len(line) \in Nat
  BY LineIs DEF LineInv, RedirectIn, PhaseInv, VectorInv, Operator
<1>2. /\ i \in 0..Len(line)
      /\ argv[i] = NULL => FileOf("<", s) = NULL /\ Holds(0, m)
      /\ argv[i] # NULL =>
           /\ i < Len(line) /\ argv[i + 1] = FileOf("<", s)
           /\ argv' = CutFrom(i) /\ line' = line =>
                /\ argv' \in [0..Len(line) -> Token \cup {NULL}] /\ argv'[Len(line)] = NULL
                /\ argv'[m - 1] = NULL
                /\ \A k \in 0..(m - 2) : argv'[k] = line[k + 1]
  BY <1>1, Redirect
<1>3. UNCHANGED <<typed, at, run_in_background, sout, stages, missing, session>> /\ phase' = "out"
      /\ line' = line
  BY DEF RedirectIn, typed
<1>4. s \cup {"<"} = {"&", "<"}
  OBVIOUS
<1>5. FirstOf({"&", "<"})' = m
  BY <1>3, <1>4, SameLine
<1>6. sin = "tty" /\ sout = "tty" /\ run_in_background \in BOOLEAN
  BY <1>1 DEF LineInv, RedirectInv, LineTypeOK
<1>7. Readable \subseteq Token /\ NULL \notin Readable
  BY LineAssumption
<1>8. CASE argv[i] = NULL
  <2>1. sin' = "tty" /\ argv' = argv
    BY <1>6, <1>8 DEF RedirectIn
  <2>2. Input = "tty"
    BY <1>2, <1>7, <1>8 DEF Input
  <2>3. Holds(0, m)
    BY <1>2, <1>8
  <2>4. Holds(0, FirstOf({"&", "<"}))'
    BY <1>3, <1>5, <2>1, <2>3 DEF Holds
  <2>5. argv' \in [0..Len(line) -> Token \cup {NULL}] /\ argv'[Len(line)] = NULL
    BY <1>1, <2>1 DEF LineTypeOK
  <2> QED
    BY <1>1, <1>3, <1>6, <2>1, <2>2, <2>4, <2>5, WordsStep
<1>9. CASE argv[i] # NULL
  <2>1. sin' = (IF argv[i + 1] \in Readable THEN argv[i + 1] ELSE "tty") /\ argv' = CutFrom(i)
    BY <1>6, <1>9 DEF RedirectIn
  <2>2. sin' = Input
    BY <1>2, <1>9, <2>1 DEF Input
  <2>3. sin' \in Token \cup {"tty", "pipe"}
    BY <1>7, <2>1
  <2>4. /\ argv' \in [0..Len(line) -> Token \cup {NULL}] /\ argv'[Len(line)] = NULL
        /\ argv'[m - 1] = NULL
        /\ \A k \in 0..(m - 2) : argv'[k] = line[k + 1]
    BY <1>2, <1>3, <1>9, <2>1
  <2>5. Holds(0, FirstOf({"&", "<"}))'
    BY <1>3, <1>5, <2>4 DEF Holds
  <2> QED
    BY <1>1, <1>3, <1>6, <2>2, <2>3, <2>4, <2>5, WordsStep
<1> QED
  BY <1>8, <1>9

LEMMA RedirectOutKeepsInv == ASSUME LineInv, RedirectOut PROVE LineInv'
<1> DEFINE i == Find(">", 0)
           s == {"&", "<"}
           m == FirstOf(s \cup {">"})
<1>0. Writable \subseteq Token /\ NULL \notin Writable
  BY LineAssumption
<1>1. LineTypeOK /\ phase = "out" /\ version = "HW2" /\ Holds(0, FirstOf(s)) /\ ">" \in Operator
      /\ Len(line) \in Nat
  BY LineIs DEF LineInv, RedirectOut, PhaseInv, VectorInv, Operator
<1>2. /\ i \in 0..Len(line)
      /\ argv[i] = NULL => FileOf(">", s) = NULL /\ Holds(0, m)
      /\ argv[i] # NULL =>
           /\ i < Len(line) /\ argv[i + 1] = FileOf(">", s)
           /\ argv' = CutFrom(i) /\ line' = line =>
                /\ argv' \in [0..Len(line) -> Token \cup {NULL}] /\ argv'[Len(line)] = NULL
                /\ argv'[m - 1] = NULL
                /\ \A k \in 0..(m - 2) : argv'[k] = line[k + 1]
  BY <1>1, Redirect
<1>3. UNCHANGED <<typed, at, run_in_background, sin, stages, missing, session>> /\ phase' = "pipe"
      /\ line' = line /\ version' = version
  BY DEF RedirectOut, typed
<1>4. m = Cut
  <2>1. Known \ {"|"} = s \cup {">"}
    BY <1>1 DEF Known, Operator
  <2> QED
    BY <2>1 DEF Cut
<1>5. Cut' = Cut /\ Bars' = Bars /\ Input' = Input /\ Output' = Output /\ IsBuiltin' = IsBuiltin
  BY <1>3, SameLine
<1>6. sin = Input /\ sout = "tty" /\ at = 0 /\ stages = <<>> /\ ~missing /\ ~IsBuiltin
      /\ session = <<"alive", "home", <<>>>> /\ run_in_background \in BOOLEAN
  BY <1>1 DEF LineInv, RedirectInv, LineTypeOK, PhaseInv, Builtins
<1>7. /\ sout' = Output /\ sout' \in Token \cup {"tty"}
      /\ argv' \in [0..Len(line) -> Token \cup {NULL}] /\ argv'[Len(line)] = NULL
      /\ argv'[Cut - 1] = NULL
      /\ \A k \in 0..(Cut - 2) : argv'[k] = line[k + 1]
  <2>1. CASE argv[i] = NULL
    <3>1. sout' = "tty" /\ argv' = argv
      BY <1>6, <2>1 DEF RedirectOut
    <3>2. Output = "tty"
      BY <1>0, <1>2, <2>1 DEF Output
    <3>3. Holds(0, m)
      BY <1>2, <2>1
    <3>4. argv[Cut - 1] = NULL /\ \A k \in 0..(Cut - 2) : argv[k] = line[k + 1]
      BY <1>4, <3>3 DEF Holds
    <3>5. argv \in [0..Len(line) -> Token \cup {NULL}] /\ argv[Len(line)] = NULL
      BY <1>1 DEF LineTypeOK
    <3> QED
      BY <3>1, <3>2, <3>4, <3>5
  <2>2. CASE argv[i] # NULL
    <3>1. sout' = (IF argv[i + 1] \in Writable THEN argv[i + 1] ELSE "tty") /\ argv' = CutFrom(i)
      BY <1>6, <2>2 DEF RedirectOut
    <3>2. sout' = Output
      BY <1>2, <2>2, <3>1 DEF Output
    <3>3. sout' \in Token \cup {"tty"}
      BY <1>0, <3>1
    <3>4. /\ argv' \in [0..Len(line) -> Token \cup {NULL}] /\ argv'[Len(line)] = NULL
          /\ argv'[m - 1] = NULL
          /\ \A k \in 0..(m - 2) : argv'[k] = line[k + 1]
      BY <1>2, <1>3, <2>2, <3>1
    <3> QED
      BY <1>4, <3>2, <3>3, <3>4
  <2> QED
    BY <2>1, <2>2
<1>8. LineTypeOK'
  BY <1>1, <1>3, <1>6, <1>7 DEF LineTypeOK, typed, session
<1>9. PhaseInv'
  BY <1>1, <1>3, <1>5, <1>6 DEF PhaseInv, Builtins, session
<1>10. VectorInv'
  <2>1. Holds(at, Cut)'
    BY <1>3, <1>5, <1>6, <1>7 DEF Holds
  <2> QED
    BY <1>3, <2>1 DEF VectorInv, Builtins
<1>11. RedirectInv'
  BY <1>3, <1>5, <1>6, <1>7 DEF RedirectInv, Builtins
<1>12. ChainInv'
  <2>1. 0 \in Bars /\ 0 < Cut
    BY <1>1, BarsAre
  <2>2. Cardinality({b \in Bars : b < 0}) = 0
    BY <1>1, RankIs DEF Rank
  <2>3. Len(stages) = 0
    BY <1>6, EmptySeq
  <2> QED
    BY <1>3, <1>5, <1>6, <2>1, <2>2, <2>3 DEF ChainInv
<1>13. StartsInOrder' /\ BuiltinsInShell'
  BY <1>3 DEF StartsInOrder, BuiltinsInShell
<1> QED
  BY <1>8, <1>9, <1>10, <1>11, <1>12, <1>13 DEF LineInv

\* The shell of HW1: the words before the first "&" are the only command.
LEMMA ExecWholeKeepsInv == ASSUME LineInv, ExecWhole PROVE LineInv'
<1>1. LineTypeOK /\ phase = "exec" /\ version = "HW1" /\ Holds(0, FirstOf({"&"})) /\ ~IsBuiltin
      /\ Len(line) \in Nat /\ sin = "tty" /\ sout = "tty" /\ ~missing
      /\ session = <<"alive", "home", <<>>>>
  BY LineIs DEF LineInv, ExecWhole, PhaseInv, VectorInv, RedirectInv
<1>2. Known = {"&"}
  BY <1>1 DEF Known
<1>3. Known \ {"|"} = {"&"} /\ Known \cap {"|"} = {}
  BY <1>2
<1>4. Cut = FirstOf({"&"}) /\ Bars = {0, Cut}
  BY <1>3 DEF Cut, Bars, Places
<1>5. Cut \in 1..(Len(line) + 1) /\ 0 \in Bars /\ Cut \in Bars /\ Cut \in (0 + 1)..(Len(line) + 1)
      /\ 0 \in Nat
  BY <1>1, BarsAre
<1>6. Rank(0) = 0 /\ Rank(Cut) = 1 /\ Commands = 1
  <2>1. Rank(Cut) = Rank(0) + 1
    BY <1>1, <1>4, <1>5, NextRank
  <2> QED
    BY <1>1, <2>1, RankIs
<1>7. NthBar(0) = 0 /\ NthBar(1) = Cut
  BY <1>1, <1>5, <1>6, NthIs
<1>8. Segment(1) = SubSeq(line, 0 + 1, Cut - 1)
  <2>1. 1 - 1 = 0
    OBVIOUS
  <2> QED
    BY <1>7, <2>1 DEF Segment
<1>9. "&" \in Token
  BY DEF Token, Operator
<1>10. ArgvEnd(0) = Cut - 1
  BY <1>1, <1>4, <1>5, <1>9, WalkIs
<1>11. Words(0, Cut - 1) = Segment(1) /\ Segment(1) \in Seq(Token) /\ Len(Segment(1)) = Cut - 1
  <2>1. Cut - 1 \in 0..(Cut - 1) /\ (Cut - 1) - 0 = Cut - 1
    BY <1>5
  <2>2. Holds(0, Cut) /\ 0 \in 0..Len(line)
    BY <1>1, <1>4
  <2> QED
    BY <1>1, <1>5, <1>8, <2>1, <2>2, WordsAre
<1>12. argv[0] = NULL <=> Cut = 1
  <2>1. CASE Cut = 1
    BY <1>1, <1>4, <2>1 DEF Holds
  <2>2. CASE Cut # 1
    <3>1. 0 \in 0..(Cut - 2) /\ 0 + 1 \in 1..Len(line)
      BY <1>1, <1>5, <2>2
    <3> QED
      BY <1>1, <1>4, <2>2, <3>1, LineIs DEF Holds
  <2> QED
    BY <2>1, <2>2
<1>13. Starts(1) <=> Cut # 1
  BY <1>5, <1>6, <1>11, EmptySeq DEF Starts
<1>14. Input = "tty" /\ Output = "tty"
  <2>1. FileOf("<", {"&"}) = NULL /\ FileOf(">", {"&", "<"}) = NULL
    BY <1>2 DEF FileOf
  <2> QED
    BY <2>1, LineAssumption DEF Input, Output
<1>15. UNCHANGED <<typed, argv, at, run_in_background, sin, sout, missing, session>> /\ phase' = "done"
  BY DEF ExecWhole
<1>16. stages' = IF Cut = 1 THEN <<>>
                 ELSE <<[argv |-> Segment(1), in |-> "tty", out |-> "tty"]>>
  BY <1>1, <1>10, <1>11, <1>12 DEF ExecWhole
<1>17. stages' \in Seq(Stage) /\ Len(stages') = IF Cut = 1 THEN 0 ELSE 1
  <2>1. CASE Cut = 1
    BY <1>16, <2>1, EmptySeq
  <2>2. CASE Cut # 1
    <3>1. Segment(1) # <<>>
      BY <1>13, <2>2 DEF Starts
    <3>2. [argv |-> Segment(1), in |-> "tty", out |-> "tty"] \in Stage
      BY <1>11, <3>1 DEF Stage
    <3> QED
      BY <1>16, <2>2, <3>2
  <2> QED
    BY <2>1, <2>2
<1>18. \A k \in 1..Len(stages') :
         /\ stages'[k].argv = Segment(k) /\ Starts(k)
         /\ stages'[k].in = IF k > 1 THEN "pipe" ELSE Input
         /\ stages'[k].out = IF k < Commands THEN "pipe" ELSE Output
  <2> TAKE k \in 1..Len(stages')
  <2>1. k = 1 /\ Cut # 1
    BY <1>17
  <2>2. stages' = <<[argv |-> Segment(1), in |-> "tty", out |-> "tty"]>>
    BY <1>16, <2>1
  <2> QED
    BY <1>6, <1>13, <1>14, <2>1, <2>2
<1>19. LineTypeOK'
  BY <1>15, <1>17 DEF LineInv, LineTypeOK, typed, session
<1>20. PhaseInv'
  BY <1>1, <1>15, SameLine DEF LineInv, PhaseInv, Builtins, session
<1>21. VectorInv' /\ RedirectInv'
  BY <1>15 DEF VectorInv, RedirectInv, Builtins
<1>22. ChainInv'
  BY <1>15, <1>18, SameLine DEF ChainInv
<1>23. StartsInOrder'
  <2>1. Len(stages') < Commands => ~Starts(Len(stages') + 1)
    <3>1. CASE Cut = 1
      <4>1. Len(stages') + 1 = 1
        BY <1>17, <3>1
      <4> QED
        BY <1>13, <3>1, <4>1
    <3>2. CASE Cut # 1
      BY <1>6, <1>17, <3>2
    <3> QED
      BY <3>1, <3>2
  <2>2. missing' = FALSE /\ version' # "HW2"
    <3>1. missing \in BOOLEAN
      BY <1>1 DEF LineTypeOK
    <3> QED
      BY <1>1, <1>15, <3>1 DEF typed
  <2> QED
    BY <1>15, <1>18, <2>1, <2>2, SameLine DEF StartsInOrder
<1>24. BuiltinsInShell'
  BY <1>1, <1>15, SameLine DEF BuiltinsInShell, Is, session
<1> QED
  BY <1>19, <1>20, <1>21, <1>22, <1>23, <1>24 DEF LineInv

\* Where the next command ends, seen from the bar before it.
LEMMA PipeIs ==
  ASSUME LineInv, phase = "pipe"
  PROVE  LET bar == Find("|", at)
             k   == Len(stages) + 1
         IN  /\ bar \in at..(Cut - 1) /\ ArgvEnd(at) = Cut - 1 /\ bar + 1 \in Bars
             /\ argv[bar] = NULL <=> bar + 1 = Cut
             /\ Rank(bar + 1) = k /\ k \in Nat /\ k <= Commands
             /\ bar + 1 < Cut => k < Commands
             /\ Words(at, bar) = Segment(k) /\ Len(Segment(k)) = bar - at
             /\ Segment(k) \in Seq(Token)
<1> DEFINE bar == Find("|", at)
           k == Len(stages) + 1
<1>1. LineTypeOK /\ version = "HW2" /\ at \in Bars /\ at < Cut /\ Holds(at, Cut)
      /\ Len(stages) = Rank(at)
  BY DEF LineInv, PhaseInv, VectorInv, ChainInv, Rank
<1>2. /\ bar \in at..(Cut - 1) /\ ArgvEnd(at) = Cut - 1 /\ bar + 1 \in Bars
      /\ argv[bar] = NULL <=> bar + 1 = Cut
      /\ Rank(bar + 1) = k
      /\ Segment(k) = Words(at, bar) /\ Len(Segment(k)) = bar - at
      /\ Segment(k) \in Seq(Token)
  BY <1>1, NextBar
<1>3. Rank(at) \in Nat /\ Commands = Rank(Cut) /\ Commands \in Nat
      /\ \A b, d \in Bars : b < d => Rank(b) < Rank(d)
  BY <1>1, RankIs
<1>4. Cut \in Bars /\ Cut \in Nat /\ at \in Nat
  BY <1>1, BarsAre
<1> HIDE DEF bar
<1>5. bar + 1 < Cut => k < Commands
  BY <1>2, <1>3, <1>4
<1>6. k <= Commands /\ k \in Nat
  BY <1>1, <1>2, <1>3, <1>4, <1>5
<1> QED
  BY <1>2, <1>5, <1>6 DEF bar

\* The last command has no word when the last bar has none behind it.
LEMMA LastCommand ==
  ASSUME LineTypeOK, NEW d \in Bars, d < Cut, Rank(d) = Commands - 1
  PROVE  Segment(Commands) = <<>> <=> d = Cut - 1
<1>1. /\ Cut \in 1..(Len(line) + 1) /\ d \in Nat /\ Len(line) \in Nat /\ Cut \in Bars
      /\ line \in Seq(Token)
  BY BarsAre, LineIs
<1>2. NthBar(Commands - 1) = d /\ NthBar(Commands) = Cut
  BY <1>1, NthIs, RankIs
<1>3. Segment(Commands) = SubSeq(line, d + 1, Cut - 1)
  BY <1>2 DEF Segment
<1>4. /\ SubSeq(line, d + 1, Cut - 1) \in Seq(Token)
      /\ Len(SubSeq(line, d + 1, Cut - 1)) = IF d + 1 <= Cut - 1 THEN (Cut - 1) - (d + 1) + 1 ELSE 0
  <2>1. d + 1 \in Int /\ Cut - 1 \in Int /\ \A i \in (d + 1)..(Cut - 1) : line[i] \in Token
    BY <1>1, LineIs
  <2> QED
    BY <2>1, SubSeqProperties
<1>5. Len(Segment(Commands)) = Cut - 1 - d /\ Segment(Commands) \in Seq(Token)
  BY <1>1, <1>3, <1>4
<1> QED
  BY <1>1, <1>5, EmptySeq

LEMMA MissingKeepsInv == ASSUME LineInv, Missing PROVE LineInv'
<1> DEFINE bar == Find("|", at)
           k == Len(stages) + 1
<1>1. phase = "pipe" /\ LineTypeOK /\ version = "HW2" /\ ~IsBuiltin /\ at \in Bars
      /\ session = <<"alive", "home", <<>>>>
  BY DEF Missing, LineInv, PhaseInv, ChainInv
<1>2. /\ bar \in at..(Cut - 1) /\ ArgvEnd(at) = Cut - 1 /\ bar + 1 \in Bars
      /\ argv[bar] = NULL <=> bar + 1 = Cut
      /\ Rank(bar + 1) = k /\ k \in Nat /\ k <= Commands
      /\ bar + 1 < Cut => k < Commands
      /\ Words(at, bar) = Segment(k) /\ Len(Segment(k)) = bar - at
      /\ Segment(k) \in Seq(Token)
  BY <1>1, PipeIs
<1>3. UNCHANGED <<typed, argv, at, run_in_background, sin, sout, stages, session>>
      /\ phase' = "done" /\ missing' = TRUE /\ PipePresent(at) = -1
  BY DEF Missing
<1>4. at \in Nat /\ Cut \in Nat /\ Len(stages) \in Nat /\ Commands \in Nat /\ Cut \in Bars
  BY <1>1, BarsAre, RankIs, LenProperties DEF LineTypeOK
<1>5. bar = at \/ (argv[bar] # NULL /\ bar + 1 = ArgvEnd(at))
  <2> HIDE DEF bar
  <2>1. bar - at # -1
    BY <1>2, <1>4
  <2>2. PipePresent(at) = IF bar = at \/ (argv[bar] # NULL /\ bar + 1 = ArgvEnd(at)) THEN -1
                          ELSE IF argv[bar] = NULL THEN 0 ELSE bar - at
    BY DEF PipePresent, bar
  <2> QED
    BY <1>3, <2>1, <2>2
<1> HIDE DEF bar
<1>6. ~Starts(k)
  <2>1. CASE bar = at
    <3>1. Segment(k) = <<>>
      BY <1>2, <1>4, <2>1, EmptySeq
    <3> QED
      BY <3>1 DEF Starts
  <2>2. CASE argv[bar] # NULL /\ bar + 1 = ArgvEnd(at)
    <3>1. bar + 1 < Cut /\ bar + 1 = Cut - 1 /\ \A c \in Bars : ~(bar + 1 < c /\ c < Cut)
      <4>1. \A c \in Bars : c \in Nat
        BY <1>1, BarsAre
      <4> QED
        BY <1>2, <1>4, <2>2, <4>1
    <3>2. Rank(Cut) = k + 1
      BY <1>1, <1>2, <1>4, <3>1, NextRank
    <3>3. k = Commands - 1
      BY <1>1, <1>2, <1>4, <3>2, RankIs
    <3>4. Segment(Commands) = <<>>
      BY <1>1, <1>2, <3>1, <3>3, LastCommand
    <3> QED
      BY <3>3, <3>4 DEF Starts
  <2> QED
    BY <1>5, <2>1, <2>2
<1>7. Len(stages) < Commands
  BY <1>2, <1>4
<1>8. LineTypeOK'
  BY <1>1, <1>3 DEF LineTypeOK, typed, session
<1>9. PhaseInv'
  BY <1>1, <1>3, SameLine DEF PhaseInv, Builtins, session
<1>10. VectorInv' /\ RedirectInv'
  BY <1>3 DEF VectorInv, RedirectInv, Builtins
<1>11. ChainInv'
  BY <1>3, SameLine DEF LineInv, ChainInv
<1>12. StartsInOrder'
  <2>1. \A j \in 1..Len(stages) : stages[j].argv = Segment(j) /\ Starts(j)
    BY DEF LineInv, ChainInv
  <2>2. version' = "HW2"
    BY <1>1, <1>3 DEF typed
  <2> QED
    BY <1>3, <1>6, <1>7, <2>1, <2>2, SameLine DEF StartsInOrder
<1>13. BuiltinsInShell'
  BY <1>1, <1>3, SameLine DEF BuiltinsInShell, Is, session
<1> QED
  BY <1>8, <1>9, <1>10, <1>11, <1>12, <1>13 DEF LineInv

\* One more command is started, with what it inherits.
LEMMA StageAdded ==
  ASSUME LineInv, phase = "pipe", NEW o,
         o = IF Len(stages) + 1 < Commands THEN "pipe" ELSE Output,
         Segment(Len(stages) + 1) \in Seq(Token), Starts(Len(stages) + 1), UNCHANGED typed,
         stages' = Append(stages, [argv |-> Segment(Len(stages) + 1), in |-> sin, out |-> o])
  PROVE  /\ stages' \in Seq(Stage) /\ Len(stages') = Len(stages) + 1
         /\ \A j \in 1..Len(stages') :
              /\ stages'[j].argv = Segment(j) /\ Starts(j)
              /\ stages'[j].in = IF j > 1 THEN "pipe" ELSE Input
              /\ stages'[j].out = IF j < Commands THEN "pipe" ELSE Output
<1> DEFINE k == Len(stages) + 1
           new == [argv |-> Segment(k), in |-> sin, out |-> o]
<1>1. stages \in Seq(Stage) /\ Len(stages) \in Nat /\ sin \in Token \cup {"tty", "pipe"}
      /\ sout \in Token \cup {"tty"} /\ sout = Output
  BY LenProperties DEF LineInv, LineTypeOK, RedirectInv
<1>2. Segment(k) # <<>>
  BY DEF Starts
<1>3. o \in Token \cup {"tty", "pipe"}
  BY <1>1
<1>4. new \in Stage
  BY <1>1, <1>2, <1>3 DEF Stage
<1>5. new.argv = Segment(k) /\ new.in = sin /\ new.out = o
  OBVIOUS
<1>6. sin = IF k > 1 THEN "pipe" ELSE Input
  <2>1. stages = <<>> <=> Len(stages) = 0
    BY <1>1, EmptySeq
  <2> QED
    BY <1>1, <2>1 DEF LineInv, RedirectInv
<1> HIDE DEF new
<1>7. stages' = Append(stages, new)
  BY DEF new
<1>8. stages' \in Seq(Stage) /\ Len(stages') = k
      /\ (\A j \in 1..Len(stages) : stages'[j] = stages[j]) /\ stages'[k] = new
  BY <1>1, <1>4, <1>7, AppendProperties
<1>9. ASSUME NEW j \in 1..Len(stages')
      PROVE  /\ stages'[j].argv = Segment(j) /\ Starts(j)
             /\ stages'[j].in = IF j > 1 THEN "pipe" ELSE Input
             /\ stages'[j].out = IF j < Commands THEN "pipe" ELSE Output
  <2>1. CASE j = k
    BY <1>5, <1>6, <1>8, <2>1
  <2>2. CASE j # k
    <3>1. j \in 1..Len(stages) /\ stages'[j] = stages[j]
      BY <1>1, <1>8, <2>2
    <3> QED
      BY <3>1 DEF LineInv, ChainInv
  <2> QED
    BY <2>1, <2>2
<1> QED
  BY <1>8, <1>9

LEMMA ExecKeepsInv == ASSUME LineInv, ExecCommand PROVE LineInv'
<1> DEFINE bar == Find("|", at)
           k == Len(stages) + 1
<1>1. phase = "pipe" /\ LineTypeOK /\ version = "HW2" /\ ~IsBuiltin /\ at \in Bars /\ ~missing
      /\ session = <<"alive", "home", <<>>>> /\ sout = Output
  BY DEF ExecCommand, LineInv, PhaseInv, ChainInv, RedirectInv
<1>2. /\ bar \in at..(Cut - 1) /\ ArgvEnd(at) = Cut - 1 /\ bar + 1 \in Bars
      /\ argv[bar] = NULL <=> bar + 1 = Cut
      /\ Rank(bar + 1) = k /\ k \in Nat
      /\ Words(at, bar) = Segment(k) /\ Len(Segment(k)) = bar - at
      /\ Segment(k) \in Seq(Token)
  BY <1>1, PipeIs
<1>3. /\ UNCHANGED <<typed, argv, at, run_in_background, sin, sout, missing, session>>
      /\ phase' = "done" /\ PipePresent(at) = 0
      /\ stages' = Append(stages, [argv |-> Words(at, ArgvEnd(at)), in |-> sin, out |-> sout])
  BY DEF ExecCommand
<1>4. at \in Nat /\ Cut \in Nat /\ Cut \in Bars /\ Commands = Rank(Cut)
  BY <1>1, BarsAre, RankIs
<1> HIDE DEF bar
<1>5. bar # at /\ argv[bar] = NULL
  <2>1. PipePresent(at) = IF bar = at \/ (argv[bar] # NULL /\ bar + 1 = ArgvEnd(at)) THEN -1
                          ELSE IF argv[bar] = NULL THEN 0 ELSE bar - at
    BY DEF PipePresent, bar
  <2> QED
    BY <1>2, <1>3, <1>4, <2>1
<1>6. bar + 1 = Cut /\ k = Commands /\ ArgvEnd(at) = bar
  BY <1>2, <1>4, <1>5
<1>7. Starts(k)
  <2>1. Segment(k) # <<>>
    BY <1>2, <1>4, <1>5, EmptySeq
  <2> QED
    BY <1>2, <1>6, <2>1 DEF Starts
<1>8. /\ stages' \in Seq(Stage) /\ Len(stages') = k
      /\ \A j \in 1..Len(stages') :
           /\ stages'[j].argv = Segment(j) /\ Starts(j)
           /\ stages'[j].in = IF j > 1 THEN "pipe" ELSE Input
           /\ stages'[j].out = IF j < Commands THEN "pipe" ELSE Output
  <2>1. stages' = Append(stages, [argv |-> Segment(k), in |-> sin, out |-> Output])
    BY <1>1, <1>2, <1>3, <1>6
  <2>2. ~(k < Commands)
    BY <1>2, <1>6
  <2> QED
    BY <1>1, <1>2, <1>3, <1>7, <2>1, <2>2, StageAdded
<1>9. LineTypeOK'
  BY <1>1, <1>3, <1>8 DEF LineTypeOK, typed, session
<1>10. PhaseInv'
  BY <1>1, <1>3, SameLine DEF PhaseInv, Builtins, session
<1>11. VectorInv' /\ RedirectInv'
  BY <1>3 DEF VectorInv, RedirectInv, Builtins
<1>12. ChainInv'
  BY <1>3, <1>8, SameLine DEF ChainInv
<1>13. StartsInOrder'
  <2>1. ~(Len(stages') < Commands) /\ missing' = FALSE
    <3>1. missing \in BOOLEAN
      BY <1>1 DEF LineTypeOK
    <3> QED
      BY <1>1, <1>2, <1>3, <1>6, <1>8, <3>1
  <2> QED
    BY <1>3, <1>8, <2>1, SameLine DEF StartsInOrder
<1>14. BuiltinsInShell'
  BY <1>1, <1>3, SameLine DEF BuiltinsInShell, Is, session
<1> QED
  BY <1>9, <1>10, <1>11, <1>12, <1>13, <1>14 DEF LineInv

LEMMA ForkKeepsInv == ASSUME LineInv, Fork PROVE LineInv'
<1> DEFINE bar == Find("|", at)
           k == Len(stages) + 1
<1>1. phase = "pipe" /\ LineTypeOK /\ version = "HW2" /\ ~IsBuiltin /\ at \in Bars /\ ~missing
      /\ session = <<"alive", "home", <<>>>> /\ sout = Output /\ Holds(at, Cut)
  BY DEF Fork, LineInv, PhaseInv, VectorInv, ChainInv, RedirectInv
<1>2. /\ bar \in at..(Cut - 1) /\ ArgvEnd(at) = Cut - 1 /\ bar + 1 \in Bars
      /\ argv[bar] = NULL <=> bar + 1 = Cut
      /\ Rank(bar + 1) = k /\ k \in Nat
      /\ bar + 1 < Cut => k < Commands
      /\ Words(at, bar) = Segment(k) /\ Len(Segment(k)) = bar - at
      /\ Segment(k) \in Seq(Token)
  BY <1>1, PipeIs
<1>3. at \in Nat /\ Cut \in 1..(Len(line) + 1) /\ Len(line) \in Nat
  BY <1>1, BarsAre, LineIs
<1> HIDE DEF bar
<1>4. PipePresent(at) = IF bar = at \/ (argv[bar] # NULL /\ bar + 1 = ArgvEnd(at)) THEN -1
                        ELSE IF argv[bar] = NULL THEN 0 ELSE bar - at
  BY DEF PipePresent, bar
<1>5. at + PipePresent(at) > at
  BY DEF Fork
<1>6. bar # at /\ argv[bar] # NULL /\ bar + 1 # ArgvEnd(at) /\ at + PipePresent(at) = bar
  BY <1>2, <1>3, <1>4, <1>5
<1>7. /\ argv' = [argv EXCEPT ![bar] = NULL] /\ at' = bar + 1 /\ sin' = "pipe"
      /\ stages' = Append(stages, [argv |-> Words(at, bar), in |-> sin, out |-> "pipe"])
      /\ UNCHANGED <<typed, phase, run_in_background, sout, missing, session>>
  BY <1>6 DEF Fork
<1>8. bar + 1 < Cut /\ bar + 1 # Cut - 1 /\ bar < Cut - 1 /\ k < Commands
  BY <1>2, <1>3, <1>6
<1>9. Starts(k)
  <2>1. Segment(k) # <<>>
    BY <1>2, <1>3, <1>6, EmptySeq
  <2>2. k = Commands - 1 => Segment(Commands) # <<>>
    BY <1>1, <1>2, <1>8, LastCommand
  <2> QED
    BY <2>1, <2>2 DEF Starts
<1>10. /\ stages' \in Seq(Stage) /\ Len(stages') = k
       /\ \A j \in 1..Len(stages') :
            /\ stages'[j].argv = Segment(j) /\ Starts(j)
            /\ stages'[j].in = IF j > 1 THEN "pipe" ELSE Input
            /\ stages'[j].out = IF j < Commands THEN "pipe" ELSE Output
  <2>1. stages' = Append(stages, [argv |-> Segment(k), in |-> sin, out |-> "pipe"])
    BY <1>2, <1>7
  <2> QED
    BY <1>1, <1>2, <1>7, <1>8, <1>9, <2>1, StageAdded
<1>11. argv \in [0..Len(line) -> Token \cup {NULL}] /\ argv[Len(line)] = NULL
  BY <1>1 DEF LineTypeOK
<1>12. LineTypeOK'
  <2>1. argv' \in [0..Len(line) -> Token \cup {NULL}] /\ argv'[Len(line)] = NULL
    BY <1>2, <1>3, <1>7, <1>8, <1>11
  <2>2. at' \in 0..Len(line)
    BY <1>2, <1>3, <1>7, <1>8
  <2> QED
    BY <1>1, <1>7, <1>10, <2>1, <2>2 DEF LineTypeOK, typed, session
<1>13. PhaseInv'
  BY <1>1, <1>7, SameLine DEF PhaseInv, Builtins, session
<1>14. VectorInv'
  <2>1. argv'[Cut - 1] = NULL
    <3>1. Cut - 1 \in 0..Len(line) /\ argv[Cut - 1] = NULL
      BY <1>1, <1>3 DEF Holds
    <3> QED
      BY <1>2, <1>3, <1>7, <1>8, <1>11, <3>1
  <2>2. ASSUME NEW i \in (bar + 1)..(Cut - 2) PROVE argv'[i] = line[i + 1]
    <3>1. i \in 0..Len(line) /\ i # bar /\ i \in at..(Cut - 2)
      BY <1>2, <1>3
    <3> QED
      BY <1>1, <1>7, <1>11, <3>1 DEF Holds
  <2>3. Holds(at, Cut)'
    <3>1. line' = line /\ Cut' = Cut
      BY <1>7, SameLine DEF typed
    <3> QED
      BY <1>7, <2>1, <2>2, <3>1 DEF Holds
  <2> QED
    BY <1>1, <1>7, <2>3 DEF VectorInv, Builtins
<1>15. RedirectInv'
  <2>1. stages' # <<>>
    BY <1>2, <1>10, EmptySeq
  <2> QED
    BY <1>1, <1>7, <2>1, SameLine DEF RedirectInv, Builtins
<1>16. ChainInv'
  <2>1. Len(stages') = Cardinality({b \in Bars : b < bar + 1})
    BY <1>2, <1>10 DEF Rank
  <2> QED
    BY <1>2, <1>7, <1>8, <1>10, <2>1, SameLine DEF ChainInv
<1>17. StartsInOrder' /\ BuiltinsInShell'
  BY <1>1, <1>7 DEF StartsInOrder, BuiltinsInShell
<1> QED
  BY <1>12, <1>13, <1>14, <1>15, <1>16, <1>17 DEF LineInv

LEMMA UnchangedKeepsInv == ASSUME LineInv, UNCHANGED lineVars PROVE LineInv'
<1> USE DEF LineInv, lineVars, session
<1>1. UNCHANGED typed
  OBVIOUS
<1>2. LineTypeOK' /\ PhaseInv'
  BY <1>1, SameMeaning, SameLine DEF LineTypeOK, PhaseInv, typed
<1>3. VectorInv' /\ RedirectInv' /\ ChainInv'
  BY <1>1, SameLine DEF VectorInv, Holds, RedirectInv, ChainInv, typed
<1>4. StartsInOrder'
  BY <1>1, SameLine DEF StartsInOrder
<1>5. BuiltinsInShell'
  BY <1>1, SameMeaning DEF BuiltinsInShell, typed, atoi
<1> QED
  BY <1>2, <1>3, <1>4, <1>5

LEMMA LineInvStep == LineInv /\ [LineNext]_lineVars => LineInv'
BY MainKeepsInv, EchoKeepsInv, OtherBuiltinsKeepInv, IsBackgroundKeepsInv, ExecWholeKeepsInv,
   RedirectInKeepsInv, RedirectOutKeepsInv, MissingKeepsInv, ExecKeepsInv, ForkKeepsInv,
   UnchangedKeepsInv DEF LineNext, Done

\* LineInv is inductive.
THEOREM LineInvariance == LineSpec => []LineInv
BY LineInvInit, LineInvStep, PTL DEF LineSpec

\* Whatever a line has on it, its commands are started in their order, each
\* with its own words, up to the first that is missing (pipe_command.c).
THEOREM StartsInOrderAlways == LineSpec => []StartsInOrder
<1>1. LineInv => StartsInOrder
  BY DEF LineInv
<1> QED
  BY <1>1, LineInvariance, PTL

\* Whatever it has on it, they are one chain, with the files at its ends
\* (pipe_command.c, redirect.c).
THEOREM OneChainAlways == LineSpec => []OneChain
<1>1. LineInv => OneChain
  BY DEF LineInv, ChainInv, OneChain
<1> QED
  BY <1>1, LineInvariance, PTL

\* The builtins alone touch the shell (shell.c, builtin.c).
THEOREM BuiltinsInShellAlways == LineSpec => []BuiltinsInShell
<1>1. LineInv => BuiltinsInShell
  BY DEF LineInv
<1> QED
  BY <1>1, LineInvariance, PTL

\* The variables of the model keep their types.
THEOREM LineTypeCorrect == LineSpec => []LineTypeOK
<1>1. LineInv => LineTypeOK
  BY DEF LineInv
<1> QED
  BY <1>1, LineInvariance, PTL

-----------------------------------------------------------------------------
(* ShellJobs: pipelines and processes.                                     *)

\* The processes next to each other in a pipeline.
LEMMA Neighbours ==
  \A p \in Proc : /\ p = <<p[1], p[2]>> /\ p[1] \in Line /\ p[2] \in 1..MaxStages
                  /\ Left(p) # p /\ Right(p) # p /\ Left(Left(p)) # p
                  /\ Left(Right(p)) = p /\ Right(p)[1] = p[1]
                  /\ p[2] < MaxStages => Right(p) \in Proc
                  /\ p[2] > 1 => Left(p) \in Proc
  BY JobsAssumption DEF Proc, Line, Left, Right

\* The first command of a line, and no other one is in its place.
LEMMA Firsts ==
  \A j \in Line : First(j) \in Proc /\ First(j)[1] = j /\ \A p \in Proc : Right(p) # First(j)
<1>1. ASSUME NEW j \in Line PROVE First(j) \in Proc /\ First(j)[1] = j
  BY JobsAssumption DEF First, Proc, Line
<1>2. ASSUME NEW j \in Line, NEW p \in Proc PROVE Right(p) # First(j)
  <2>1. p[2] \in 1..MaxStages
    BY Neighbours
  <2>2. Right(p)[2] = p[2] + 1 /\ First(j)[2] = 1
    BY DEF Right, First
  <2> QED
    BY <2>1, <2>2, JobsAssumption
<1> QED
  BY <1>1, <1>2

\* Nobody has been started.
LEMMA JobsInvInit == JobsInit => JobsInv
<1> SUFFICES ASSUME JobsInit PROVE JobsInv
  OBVIOUS
<1>1. JobsTypeOK
  BY JobsAssumption DEF JobsInit, JobsTypeOK, Line
<1>2. SizeInv /\ OrderInv /\ EndsInv
  BY JobsAssumption DEF JobsInit, SizeInv, OrderInv, EndsInv, MayRead, MayWrite
<1> QED
  BY <1>1, <1>2 DEF JobsInv

-----------------------------------------------------------------------------
(* The steps, one lemma for each.                                          *)

\* Some processes end, and what they had open is closed.
LEMMA Ended ==
  ASSUME JobsInv, NEW S \in SUBSET Proc, \A p \in S : Alive(p),
         st' = [p \in Proc |-> IF p \in S \/ st[p] = "zombie"
                                 THEN IF Orphan(p, S) THEN "gone" ELSE "zombie"
                                 ELSE st[p]],
         rd' = [p \in Proc |-> rd[p] \ S], wr' = [p \in Proc |-> wr[p] \ S],
         pending' \in SUBSET Proc, UNCHANGED <<shellVars, data>>
  PROVE  JobsInv'
<1> USE DEF JobsInv, shellVars
<1>1. \A p \in Proc : st'[p] \in {"zombie", "gone"} \/ (st'[p] = st[p] /\ p \notin S)
  BY Zenon
<1>2. JobsTypeOK'
  <2>1. st' \in [Proc -> {"none", "masked", "split", "pipe", "talk", "listen", "run",
                          "zombie", "gone"}]
    BY DEF JobsTypeOK
  <2>2. rd' \in [Proc -> SUBSET Proc] /\ wr' \in [Proc -> SUBSET Proc]
    BY DEF JobsTypeOK
  <2> QED
    BY <2>1, <2>2 DEF JobsTypeOK
<1>3. SizeInv'
  BY <1>1 DEF SizeInv
<1>4. OrderInv'
  <2>1. \A p \in Proc : st[p] = "none" => st'[p] = "none"
    BY <1>1, Zenon DEF Alive
  <2> QED
    BY <1>1, <2>1 DEF OrderInv
<1>5. EndsInv'
  BY <1>1 DEF EndsInv, MayRead, MayWrite, JobsTypeOK
<1> QED
  BY <1>2, <1>3, <1>4, <1>5

LEMMA EndStep ==
  ASSUME JobsInv, NEW p \in Proc, Alive(p), End({p}), UNCHANGED <<shellVars, data>>
  PROVE  JobsInv'
<1>1. {p} \in SUBSET Proc /\ \A q \in {p} : Alive(q)
  OBVIOUS
<1>2. pending' \in SUBSET Proc
  BY DEF End, JobsInv, JobsTypeOK
<1>3. UNCHANGED <<shellVars, data>>
  OBVIOUS
<1> QED
  BY <1>1, <1>2, <1>3, Ended, Zenon DEF End

\* The shell goes on, and a child of it is taken away at most.
LEMMA ShellStep ==
  ASSUME JobsInv, (\E n \in 1..MaxStages, b \in BOOLEAN : ReadLine(n, b)) \/ Quit \/ Wait
  PROVE  JobsInv'
<1> USE DEF JobsInv
<1>1. \A p \in Proc : st'[p] = st[p] \/ (st[p] = "zombie" /\ st'[p] = "gone")
  <2>1. shell = "wait" => job \in Line
    BY JobsAssumption DEF SizeInv, Line
  <2> QED
    BY <2>1, Firsts DEF ReadLine, Quit, ShellGone, Wait, Goto, JobsTypeOK
<1>2. st' \in [Proc -> {"none", "masked", "split", "pipe", "talk", "listen", "run",
                       "zombie", "gone"}]
  BY DEF ReadLine, Quit, ShellGone, Wait, Goto, JobsTypeOK
<1>3. UNCHANGED <<pending, pipeVars>>
  BY DEF ReadLine, Quit, Wait, pipeVars
<1>4. /\ job' \in 0..MaxLines /\ (shell' \in {"fork", "wait"} => job' > 0)
      /\ shell' \in {"prompt", "fork", "wait", "gone"}
      /\ size' \in [Line -> 0..MaxStages] /\ background' \in [Line -> BOOLEAN]
  BY JobsAssumption DEF ReadLine, Quit, ShellGone, Wait, JobsTypeOK, SizeInv
<1>5. \A p \in Proc : st[p] # "none" => size'[p[1]] = size[p[1]]
  <2>1. \A p \in Proc : p[1] = job + 1 => st[p] = "none"
    BY Neighbours, JobsAssumption DEF OrderInv, SizeInv, Line
  <2> QED
    BY <2>1, Neighbours DEF ReadLine, Quit, Wait, JobsTypeOK
<1>6. \A p \in Proc : p[1] > job' \/ (p[1] = job' /\ shell' = "fork") =>
         p[1] > job \/ (p[1] = job /\ shell = "fork")
  BY Neighbours, JobsAssumption DEF ReadLine, Quit, ShellGone, Wait, Line, SizeInv
<1>7. JobsTypeOK'
  BY <1>2, <1>3, <1>4 DEF JobsTypeOK, pipeVars
<1>8. SizeInv'
  BY <1>1, <1>4, <1>5 DEF SizeInv
<1>9. OrderInv'
  <2>1. \A p \in Proc : st[p] = "none" => st'[p] = "none"
    BY <1>1
  <2> QED
    BY <1>1, <1>6, <2>1 DEF OrderInv
<1>10. EndsInv'
  BY <1>1, <1>3 DEF EndsInv, MayRead, MayWrite, pipeVars
<1> QED
  BY <1>7, <1>8, <1>9, <1>10

\* The child starts with nothing open, or the shell ends.
LEMMA RunCommandStep == JobsInv /\ RunCommand => JobsInv'
<1> SUFFICES ASSUME JobsInv, RunCommand PROVE JobsInv'
  OBVIOUS
<1> USE DEF JobsInv
<1>1. CASE ShellGone
  <2>1. \A p \in Proc : st'[p] = st[p] \/ (st[p] = "zombie" /\ st'[p] = "gone")
    BY <1>1 DEF ShellGone
  <2>2. st' \in [Proc -> {"none", "masked", "split", "pipe", "talk", "listen", "run",
                         "zombie", "gone"}]
    BY <1>1 DEF ShellGone, JobsTypeOK
  <2>3. JobsTypeOK'
    BY <1>1, <2>2 DEF ShellGone, RunCommand, JobsTypeOK, pipeVars
  <2>4. SizeInv'
    BY <1>1, <2>1 DEF ShellGone, RunCommand, SizeInv
  <2>5. OrderInv'
    <3>1. \A p \in Proc : st[p] = "none" => st'[p] = "none"
      BY <2>1
    <3> QED
      BY <1>1, <2>1, <3>1 DEF ShellGone, RunCommand, OrderInv
  <2>6. EndsInv'
    BY <2>1 DEF RunCommand, EndsInv, MayRead, MayWrite, pipeVars
  <2> QED
    BY <2>3, <2>4, <2>5, <2>6
<1>2. CASE Goto(First(job), "masked") /\ shell' = IF background[job] THEN "prompt" ELSE "wait"
  <2>1. job \in Line /\ First(job) \in Proc /\ First(job)[1] = job
    BY Firsts, JobsAssumption DEF RunCommand, SizeInv, Line
  <2>2. st[First(job)] = "none"
    BY <2>1 DEF RunCommand, OrderInv
  <2>3. \A p \in Proc : st'[p] = IF p = First(job) THEN "masked" ELSE st[p]
    BY <1>2, <2>1 DEF Goto, JobsTypeOK
  <2>4. JobsTypeOK'
    BY <1>2 DEF Goto, RunCommand, JobsTypeOK, pipeVars
  <2>5. SizeInv'
    BY <1>2, <2>3 DEF RunCommand, SizeInv
  <2>6. OrderInv'
    <3>1. \A p \in Proc : Right(p) # First(job) /\ p[1] \in Nat
      BY <2>1, Firsts, Neighbours DEF Line
    <3>2. \A p \in Proc : p[1] > job \/ (p[1] = job /\ shell' = "fork") => st'[p] = "none"
      BY <1>2, <2>1, <2>3, <3>1 DEF OrderInv, Line
    <3>3. ASSUME NEW p \in Proc, st'[p] \in {"none", "masked", "listen", "split", "pipe"}, Right(p) \in Proc
          PROVE  st'[Right(p)] = "none"
      BY <2>2, <2>3, <3>1, <3>3 DEF OrderInv
    <3> QED
      BY <3>2, <3>3 DEF RunCommand, OrderInv
  <2>7. EndsInv'
    BY <2>2, <2>3 DEF RunCommand, EndsInv, MayRead, MayWrite, pipeVars
  <2> QED
    BY <2>4, <2>5, <2>6, <2>7
<1> QED
  BY <1>1, <1>2 DEF RunCommand

\* A child gets its mask and is ready for the pipeline, or for its command.
LEMMA ReadyStep ==
  ASSUME JobsInv, NEW p \in Proc,
         (st[p] = "masked" /\ Goto(p, "split")) \/ (st[p] = "split" /\ Goto(p, "run")),
         UNCHANGED <<shellVars, pending, pipeVars>>
  PROVE  JobsInv'
<1> USE DEF JobsInv, shellVars, pipeVars
<1>1. \A q \in Proc : st'[q] = IF q = p THEN st'[p] ELSE st[q]
  BY DEF Goto, JobsTypeOK
<1>2. /\ st[p] \in {"masked", "split"} /\ st'[p] \in {"split", "run"}
      /\ st[p] = "split" => st'[p] = "run"
  BY DEF Goto, JobsTypeOK
<1>3. JobsTypeOK'
  BY DEF Goto, JobsTypeOK
<1>4. SizeInv'
  BY <1>1, <1>2 DEF SizeInv
<1>5. OrderInv'
  <2>1. \A q \in Proc : st[q] = "none" => st'[q] = "none"
    BY <1>1, <1>2
  <2>2. \A q \in Proc : st'[q] \in {"none", "masked", "listen", "split", "pipe"} =>
                          st[q] \in {"none", "masked", "listen", "split", "pipe"}
    BY <1>1, <1>2
  <2> QED
    BY <2>1, <2>2 DEF OrderInv
<1>6. EndsInv'
  BY <1>1, <1>2 DEF EndsInv, MayRead, MayWrite
<1> QED
  BY <1>3, <1>4, <1>5, <1>6

\* The process has both ends of its own pipe.
LEMMA MakePipeStep == ASSUME JobsInv, NEW p \in Proc, MakePipe(p) PROVE JobsInv'
<1> USE DEF JobsInv, MakePipe, shellVars
<1>1. \A q \in Proc : st'[q] = IF q = p THEN "pipe" ELSE st[q]
  BY DEF Goto, JobsTypeOK
<1>2. JobsTypeOK'
  BY DEF Goto, JobsTypeOK
<1>3. SizeInv'
  BY <1>1 DEF SizeInv
<1>4. OrderInv'
  <2>1. \A q \in Proc : st[q] = "none" => st'[q] = "none"
    BY <1>1
  <2>2. \A q \in Proc : st'[q] \in {"none", "masked", "listen", "split", "pipe"} =>
                          st[q] \in {"none", "masked", "listen", "split", "pipe"}
    BY <1>1
  <2> QED
    BY <2>1, <2>2 DEF OrderInv
<1>5. EndsInv'
  <2>0. rd \in [Proc -> SUBSET Proc] /\ wr \in [Proc -> SUBSET Proc]
    BY DEF JobsTypeOK
  <2>1. ASSUME NEW x \in Proc
        PROVE  /\ rd'[x] = IF x = p THEN {p} ELSE rd[x]
               /\ wr'[x] = IF x = p THEN {p} ELSE wr[x]
    BY <2>0, Zenon
  <2>2. ASSUME NEW q \in Proc, NEW x \in Proc
        PROVE  (q \in rd'[x] => x \in MayRead(q)') /\ (q \in wr'[x] => x \in MayWrite(q)')
    BY <1>1, <2>1 DEF EndsInv, MayRead, MayWrite
  <2> QED
    BY <2>2 DEF EndsInv
<1> QED
  BY <1>2, <1>3, <1>4, <1>5

\* The new process has had nothing open; it gets what its parent has.
LEMMA ForkRightStep == ASSUME JobsInv, NEW p \in Proc, ForkRight(p) PROVE JobsInv'
<1> USE DEF JobsInv, shellVars
<1> DEFINE q == Right(p)
<1>1. CASE End({p})
  BY <1>1, EndStep DEF ForkRight, Alive
<1>2. CASE /\ st' = [st EXCEPT ![p] = "talk", ![q] = "listen"]
           /\ rd' = [x \in Proc |-> IF p \in rd[x] THEN rd[x] \cup {q} ELSE rd[x]]
           /\ wr' = [x \in Proc |-> IF p \in wr[x] THEN wr[x] \cup {q} ELSE wr[x]]
           /\ UNCHANGED pending
  <2>1. st[p] = "pipe" /\ UNCHANGED <<shell, job, size, background, data>>
    BY DEF ForkRight
  <2>2. p[2] < size[p[1]] /\ size[p[1]] \in 0..MaxStages
    BY <2>1, Neighbours DEF SizeInv, JobsTypeOK
  <2>3. /\ q \in Proc /\ q # p /\ Left(q) = p /\ q[1] = p[1]
    BY <2>2, Neighbours, JobsAssumption
  <2>4. st[q] = "none"
    BY <2>1, <2>3 DEF OrderInv
  <2>5. \A y \in Proc : st'[y] = IF y = p THEN "talk" ELSE IF y = q THEN "listen" ELSE st[y]
    BY <1>2, <2>3 DEF JobsTypeOK
  <2>6. JobsTypeOK'
    BY <1>2, <2>1, <2>3 DEF JobsTypeOK
  <2>7. SizeInv'
    BY <2>1, <2>2, <2>5 DEF SizeInv
  <2>8. OrderInv'
    <3>1. ~(p[1] > job \/ (p[1] = job /\ shell = "fork"))
      BY <2>1 DEF OrderInv
    <3>2. \A y \in Proc : y[1] > job \/ (y[1] = job /\ shell = "fork") => st'[y] = "none"
      BY <2>3, <2>5, <3>1 DEF OrderInv
    <3>3. ASSUME NEW y \in Proc, st'[y] \in {"none", "masked", "listen", "split", "pipe"}, Right(y) \in Proc
          PROVE  st'[Right(y)] = "none"
      <4>1. y # p /\ st[y] \in {"none", "masked", "listen", "split", "pipe"}
        BY <2>4, <2>5, <3>3
      <4>2. st[Right(y)] = "none"
        BY <3>3, <4>1 DEF OrderInv
      <4>3. Right(y) # p
        BY <2>1, <4>2
      <4>4. Right(y) # q
        BY <2>3, <4>1, Neighbours
      <4> QED
        BY <2>5, <3>3, <4>2, <4>3, <4>4
    <3> QED
      BY <2>1, <3>2, <3>3 DEF OrderInv
  <2>9. EndsInv'
    <3>1. \A x \in Proc : q \notin rd[x] /\ q \notin wr[x]
      BY <2>3, <2>4 DEF EndsInv, MayRead, MayWrite
    <3>2. \A x \in Proc : /\ p \in rd[x] => x \in {Left(p), p}
                          /\ p \in wr[x] => x = p
      BY <2>1 DEF EndsInv, MayRead, MayWrite
    <3>3. MayRead(q)' = {Left(p), p} /\ MayWrite(q)' = {p}
      BY <2>3, <2>5 DEF MayRead, MayWrite
    <3>4. MayRead(p)' = {Left(p), p} /\ MayWrite(p)' = {p}
      BY <2>3, <2>5 DEF MayRead, MayWrite
    <3>5. \A y \in Proc \ {p, q} : MayRead(y)' = MayRead(y) /\ MayWrite(y)' = MayWrite(y)
      BY <2>5 DEF MayRead, MayWrite
    <3>6. ASSUME NEW x \in Proc
          PROVE  /\ q \in rd'[x] => x \in {Left(p), p}
                 /\ q \in wr'[x] => x \in {p}
                 /\ p \in rd'[x] => x \in {Left(p), p}
                 /\ p \in wr'[x] => x \in {p}
      <4>1. rd'[x] = IF p \in rd[x] THEN rd[x] \cup {q} ELSE rd[x]
        BY <1>2, Zenon
      <4>2. wr'[x] = IF p \in wr[x] THEN wr[x] \cup {q} ELSE wr[x]
        BY <1>2, Zenon
      <4>3. p # q /\ q \notin rd[x] /\ q \notin wr[x]
        BY <2>3, <3>1, Zenon
      <4>6. p \in rd[x] => x \in {Left(p), p}
        BY <3>2
      <4>7. p \in wr[x] => x \in {p}
        BY <3>2
      <4> HIDE DEF q
      <4>4. q \in rd'[x] \/ p \in rd'[x] => p \in rd[x]
        BY <4>1, <4>3
      <4>5. q \in wr'[x] \/ p \in wr'[x] => p \in wr[x]
        BY <4>2, <4>3
      <4> QED
        BY <4>4, <4>5, <4>6, <4>7, Zenon
    <3>7. ASSUME NEW y \in Proc \ {p, q}, NEW x \in Proc
          PROVE  /\ y \in rd'[x] => x \in MayRead(y)'
                 /\ y \in wr'[x] => x \in MayWrite(y)'
      <4>1. (y \in rd'[x] => y \in rd[x]) /\ (y \in wr'[x] => y \in wr[x])
        BY <1>2
      <4> QED
        BY <3>5, <4>1 DEF EndsInv
    <3>8. \A y, x \in Proc : /\ y \in rd'[x] => x \in MayRead(y)'
                             /\ y \in wr'[x] => x \in MayWrite(y)'
      <4> HIDE DEF q
      <4>1. ASSUME NEW y \in Proc, NEW x \in Proc
            PROVE  /\ y \in rd'[x] => x \in MayRead(y)'
                   /\ y \in wr'[x] => x \in MayWrite(y)'
        <5>1. CASE y = q
          BY <3>3, <3>6, <5>1
        <5>2. CASE y = p
          BY <3>4, <3>6, <5>2
        <5>3. CASE y \notin {p, q}
          BY <3>7, <5>3
        <5> QED
          BY <5>1, <5>2, <5>3
      <4> QED
        BY <4>1
    <3> QED
      BY <3>8 DEF EndsInv
  <2> QED
    BY <2>6, <2>7, <2>8, <2>9
<1> QED
  BY <1>1, <1>2 DEF ForkRight

\* The ends of a pipeline's neighbour, or its own, are closed.
LEMMA CloseStep ==
  ASSUME JobsInv, NEW p \in Proc, Talk(p) \/ Listen(p)
  PROVE  JobsInv'
<1> USE DEF JobsInv, shellVars
<1>1. \A q \in Proc : st'[q] = IF q = p THEN st'[p] ELSE st[q]
  BY DEF Goto, Talk, Listen, JobsTypeOK
<1>2. st[p] \in {"talk", "listen"} /\ st'[p] = IF st[p] = "talk" THEN "run" ELSE "split"
  BY DEF Goto, Talk, Listen, JobsTypeOK
<1>3. JobsTypeOK'
  BY DEF Goto, Talk, Listen, JobsTypeOK
<1>4. SizeInv'
  BY <1>1, <1>2 DEF SizeInv, Talk, Listen
<1>5. OrderInv'
  <2>1. \A q \in Proc : st[q] = "none" => st'[q] = "none"
    BY <1>1, <1>2
  <2>2. \A q \in Proc : st'[q] \in {"none", "masked", "listen", "split", "pipe"} =>
                          st[q] \in {"none", "masked", "listen", "split", "pipe"}
    BY <1>1, <1>2
  <2> QED
    BY <2>1, <2>2 DEF OrderInv, Talk, Listen
<1>6. EndsInv'
  <2>0. rd \in [Proc -> SUBSET Proc] /\ wr \in [Proc -> SUBSET Proc] /\ Left(p) # p
    BY Neighbours DEF JobsTypeOK
  <2>1. CASE Talk(p)
    <3>1. \A x \in Proc : rd'[x] = (IF x = p THEN rd[x] \ {p} ELSE rd[x]) /\ wr'[x] = wr[x]
      BY <2>0, <2>1, Zenon DEF Talk
    <3> QED
      BY <1>1, <1>2, <2>0, <2>1, <3>1 DEF EndsInv, Talk, MayRead, MayWrite
  <2>2. CASE Listen(p)
    <3>1. ASSUME NEW x \in Proc
          PROVE  /\ p \in rd'[x] => x = Left(p) /\ x \in {Left(Left(p)), Left(p)}
                 /\ p \notin wr'[x]
                 /\ rd'[x] \subseteq rd[x] /\ wr'[x] \subseteq wr[x]
      <4>1. rd'[x] = IF x = Left(p) THEN rd[x] ELSE rd[x] \ {p}
        BY <2>2 DEF Listen
      <4>2. wr' = [wr EXCEPT ![Left(p)] = wr[Left(p)] \ {p}] /\ st[p] = "listen"
        BY <2>2 DEF Listen
      <4>3. p \in wr[x] => x = Left(p)
        BY <4>2 DEF EndsInv, MayWrite
      <4>4. CASE x = Left(p)
        <5>1. wr'[x] = wr[x] \ {p}
          BY <2>0, <4>2, <4>4
        <5> QED
          BY <4>1, <4>4, <5>1
      <4>5. CASE x # Left(p)
        <5>1. wr'[x] = wr[x]
          BY <2>0, <4>2, <4>5
        <5> QED
          BY <4>1, <4>3, <4>5, <5>1
      <4> QED
        BY <4>4, <4>5
    <3> QED
      BY <1>1, <1>2, <2>0, <2>2, <3>1 DEF EndsInv, Listen, MayRead, MayWrite
  <2> QED
    BY <2>1, <2>2
<1> QED
  BY <1>3, <1>4, <1>5, <1>6

\* The commands read and write one unit.
LEMMA DataStep ==
  ASSUME JobsInv, data' \in [Proc -> 0..Room], UNCHANGED <<shellVars, st, pending, rd, wr>>
  PROVE  JobsInv'
  BY DEF JobsInv, shellVars, JobsTypeOK, SizeInv, OrderInv, EndsInv, MayRead, MayWrite

\* A step of a child or of a command.
LEMMA ChildStep ==
  ASSUME JobsInv, NEW p \in Proc, Setup(p) \/ Command(p) \/ GiveUp(p) \/ Exit(p)
  PROVE  JobsInv'
<1>1. CASE Unmask(p)
  <2>1. CASE End({p})
    BY <1>1, <2>1, EndStep DEF Unmask, Alive
  <2>2. CASE Goto(p, "split") /\ UNCHANGED <<pending, rd, wr>>
    BY <1>1, <2>2, ReadyStep DEF Unmask, pipeVars
  <2> QED
    BY <1>1, <2>1, <2>2 DEF Unmask
<1>2. CASE MakePipe(p)
  BY <1>2, MakePipeStep
<1>3. CASE ForkRight(p)
  BY <1>3, ForkRightStep
<1>4. CASE Talk(p) \/ Listen(p)
  BY <1>4, CloseStep
<1>5. CASE Exec(p)
  BY <1>5, ReadyStep DEF Exec
<1>6. CASE Write(p)
  <2>1. CASE End({p}) /\ UNCHANGED data
    BY <1>6, <2>1, EndStep DEF Write, Alive
  <2>2. CASE /\ data[p] < Room
             /\ data' = [data EXCEPT ![p] = @ + 1]
             /\ UNCHANGED <<st, pending, rd, wr>>
    <3>1. data' \in [Proc -> 0..Room]
      BY <2>2, JobsAssumption DEF JobsInv, JobsTypeOK
    <3> QED
      BY <1>6, <2>2, <3>1, DataStep DEF Write
  <2> QED
    BY <1>6, <2>1, <2>2 DEF Write
<1>7. CASE Read(p)
  <2>1. data' \in [Proc -> 0..Room]
    BY <1>7, Neighbours, JobsAssumption DEF Read, Reads, JobsInv, JobsTypeOK
  <2> QED
    BY <1>7, <2>1, DataStep DEF Read
<1>8. CASE EndOfFile(p)
  BY <1>8, EndStep DEF EndOfFile, Alive
<1>9. CASE GiveUp(p) \/ Exit(p)
  BY <1>9, EndStep DEF GiveUp, Exit, Alive
<1> QED
  BY <1>1, <1>2, <1>3, <1>4, <1>5, <1>6, <1>7, <1>8, <1>9 DEF Setup, Command

\* Control-C ends all processes but those that mask it.
LEMMA InterruptStep == JobsInv /\ Interrupt => JobsInv'
<1> SUFFICES ASSUME JobsInv, Interrupt PROVE JobsInv'
  OBVIOUS
<1> DEFINE masked == {p \in Proc : st[p] = "masked"}
           others == {p \in Proc : Alive(p)} \ masked
<1>1. others \in SUBSET Proc /\ \A p \in others : Alive(p)
  OBVIOUS
<1>2. pending' \in SUBSET Proc
  BY DEF Interrupt, JobsInv, JobsTypeOK
<1> QED
  BY <1>1, <1>2, Ended, Zenon DEF Interrupt

\* The induction.
LEMMA JobsInvStep == JobsInv /\ [JobsNext]_jobsVars => JobsInv'
<1> SUFFICES ASSUME JobsInv, [JobsNext]_jobsVars PROVE JobsInv'
  OBVIOUS
<1>1. CASE JobsNext
  BY <1>1, ShellStep, RunCommandStep, InterruptStep, ChildStep DEF JobsNext
<1>2. CASE UNCHANGED jobsVars
  BY <1>2 DEF jobsVars, shellVars, pipeVars, JobsInv, JobsTypeOK, SizeInv, OrderInv, EndsInv,
              MayRead, MayWrite
<1> QED
  BY <1>1, <1>2
-----------------------------------------------------------------------------
(* Theorems.                                                               *)

\* The inductive invariant of the shell and its children.
THEOREM JobsInvariance == JobsSpec => []JobsInv
  BY JobsInvInit, JobsInvStep, PTL DEF JobsSpec

\* A command that runs has no end of a pipe open but its own, for any number
\* of lines and commands, whatever fork() fails and whoever ends
\* (pipe_command.c, don't need read side, write side open).
THEOREM OnlyItsEndsAlways == JobsSpec => []OnlyItsEnds
<1>1. JobsInv => OnlyItsEnds
  BY DEF JobsInv, EndsInv, OnlyItsEnds, MayRead, MayWrite
<1> QED
  BY <1>1, JobsInvariance, PTL

\* No pipe holds more than it can, no process has ends of what is none.
THEOREM JobsTypeCorrect == JobsSpec => []JobsTypeOK
<1>1. JobsInv => JobsTypeOK
  BY DEF JobsInv
<1> QED
  BY <1>1, JobsInvariance, PTL

-----------------------------------------------------------------------------
(* mymv: names, files and blocks.                                          *)

\* None is neither a name nor a file, and a process is not a name.
LEMMA Names ==
  /\ None \notin Path /\ None \notin File /\ Path \cap Run = {}
  /\ Path \subseteq File /\ Run \subseteq File
  /\ Size \in Nat /\ Hole \in Block
<1>1. ASSUME None \in Path PROVE FALSE
  <2>1. PICK a \in {"cwd", "dir"}, w \in Word : None = <<a, w>>
    BY <1>1 DEF Path
  <2>2. Len(None) = 1 /\ Len(<<a, w>>) = 2
    BY DEF None
  <2> QED
    BY <2>1, <2>2
<1> QED
  BY <1>1, MymvAssumption DEF File, Block

LEMMA TargetIsName ==
  ASSUME NEW w \in Word, NEW to \in Word, NEW absolute \in BOOLEAN, NEW isDir \in BOOLEAN
  PROVE  Target(w, absolute, isDir, to) \in Path /\ <<"cwd", w>> \in Path
BY DEF Target, Path

\* What a write of chunk behind the first off blocks makes of a file.
LEMMA WrittenIs ==
  ASSUME NEW S, NEW blocks \in Seq(S), NEW chunk \in Seq(S), NEW off \in Nat, Hole \in S
  PROVE  /\ Written(blocks, off, chunk) \in Seq(S)
         /\ Len(Written(blocks, off, chunk)) =
              IF Len(blocks) > off + Len(chunk) THEN Len(blocks) ELSE off + Len(chunk)
         /\ \A k \in 1..(off + Len(chunk)) : Written(blocks, off, chunk)[k] =
              IF k > off THEN chunk[k - off] ELSE IF k <= Len(blocks) THEN blocks[k] ELSE Hole
<1> DEFINE most == IF Len(blocks) > off + Len(chunk) THEN Len(blocks) ELSE off + Len(chunk)
           file == [k \in 1..most |-> IF k \in (off + 1)..(off + Len(chunk)) THEN chunk[k - off]
                                      ELSE IF k <= Len(blocks) THEN blocks[k] ELSE Hole]
<1>1. most \in Nat /\ Len(chunk) \in Nat /\ Len(blocks) \in Nat
  BY LenProperties
<1>2. Written(blocks, off, chunk) = file
  BY DEF Written
<1>3. ASSUME NEW k \in 1..most PROVE file[k] \in S
  <2>1. CASE k \in (off + 1)..(off + Len(chunk))
    <3>1. k - off \in 1..Len(chunk)
      BY <2>1, <1>1
    <3> QED
      BY <3>1, <2>1, ElementOfSeq
  <2>2. CASE k \notin (off + 1)..(off + Len(chunk)) /\ k <= Len(blocks)
    <3>1. k \in 1..Len(blocks)
      BY <2>2, <1>1
    <3> QED
      BY <3>1, <2>2, ElementOfSeq
  <2> QED
    BY <2>1, <2>2
<1>4. file \in [1..most -> S]
  BY <1>3
<1>5. file \in Seq(S) /\ Len(file) = most
  BY <1>1, <1>4, SeqDef, LenProperties
<1>6. \A k \in 1..(off + Len(chunk)) : file[k] =
        IF k > off THEN chunk[k - off] ELSE IF k <= Len(blocks) THEN blocks[k] ELSE Hole
  <2> SUFFICES ASSUME NEW k \in 1..(off + Len(chunk))
               PROVE  file[k] = IF k > off THEN chunk[k - off]
                                ELSE IF k <= Len(blocks) THEN blocks[k] ELSE Hole
    OBVIOUS
  <2>1. k \in 1..most /\ (k \in (off + 1)..(off + Len(chunk)) <=> k > off)
    BY <1>1
  <2> HIDE DEF most
  <2> QED
    BY <2>1
<1> HIDE DEF file
<1> QED
  BY <1>2, <1>5, <1>6

\* The first n blocks read, and the next ones in a file.
LEMMA Part ==
  ASSUME NEW S, NEW s \in Seq(S), NEW m \in Nat, NEW n \in Nat, m <= n, n <= Len(s)
  PROVE  /\ SubSeq(s, m + 1, n) \in Seq(S) /\ Len(SubSeq(s, m + 1, n)) = n - m
         /\ \A k \in 1..(n - m) : SubSeq(s, m + 1, n)[k] = s[m + k]
<1>1. Len(s) \in Nat /\ \A k \in (m + 1)..n : s[k] \in S
  BY LenProperties, ElementOfSeq
<1>2. /\ SubSeq(s, m + 1, n) \in Seq(S)
      /\ Len(SubSeq(s, m + 1, n)) = IF m + 1 <= n THEN n - (m + 1) + 1 ELSE 0
      /\ \A k \in 1..(n - (m + 1) + 1) : SubSeq(s, m + 1, n)[k] = s[m + 1 + k - 1]
  BY <1>1, SubSeqProperties
<1>3. n - (m + 1) + 1 = n - m /\ \A k \in 1..(n - m) : m + 1 + k - 1 = m + k
  OBVIOUS
<1> QED
  BY <1>2, <1>3

-----------------------------------------------------------------------------
(* The file system, whatever the names are.                                *)

Base == MvTypeOK /\ CallInv /\ FileInv /\ NewInv /\ AskedInv /\ LengthInv

LEMMA BaseInit == MvInit => Base
<1> SUFFICES ASSUME MvInit PROVE Base
  OBVIOUS
<1> USE Names
<1>1. PICK there \in SUBSET Path, length \in [Path -> 0..Size] :
        /\ \A n \in Path \ there : length[n] = 0
        /\ entry = [n \in Path |-> IF n \in there THEN n ELSE None]
        /\ content = [f \in File |-> IF f \in Path THEN [k \in 1..length[f] |-> <<f, k>>] ELSE <<>>]
  BY DEF MvInit
<1>2. \A f \in File : content[f] \in Seq(Block) /\ Len(content[f]) <= Size
  <2> TAKE f \in File
  <2>1. CASE f \notin Path
    BY <1>1, <2>1, EmptySeq
  <2>2. CASE f \in Path
    <3>1. length[f] \in 0..Size
      BY <2>2
    <3>2. content[f] = [k \in 1..length[f] |-> <<f, k>>]
      BY <1>1, <2>2
    <3>3. content[f] \in [1..length[f] -> Block]
      BY <3>1, <3>2, <2>2 DEF Block
    <3>4. content[f] \in Seq(Block)
      BY <3>1, <3>3, SeqDef
    <3>5. Len(content[f]) = length[f]
      BY <3>4, <3>3, <3>1, LenProperties
    <3> QED
      BY <3>1, <3>4, <3>5
  <2> QED
    BY <2>1, <2>2
<1>3. content \in [File -> Seq(Block)]
  BY <1>1, <1>2
<1>4. entry \in [Path -> File \cup {None}] /\ \A n \in Path : entry[n] \in {n, None}
  BY <1>1
<1>5. MvTypeOK
  BY <1>3, <1>4, EmptySeq DEF MvInit, MvTypeOK
<1>6. CallInv /\ AskedInv
  BY DEF MvInit, CallInv, AskedInv
<1>7. FileInv
  BY <1>4 DEF MvInit, FileInv, LedTo
<1>8. NewInv
  BY <1>1, <1>4 DEF MvInit, NewInv
<1>9. LengthInv
  BY <1>2, EmptySeq DEF MvInit, LengthInv
<1> QED
  BY <1>5, <1>6, <1>7, <1>8, <1>9 DEF Base

\* A process that goes on without touching a file, a name or its buffer.
LEMMA StartKeepsBase ==
  ASSUME Base, NEW r \in Run, NEW w \in Word, NEW to \in Word, NEW absolute \in BOOLEAN,
         NEW isDir \in BOOLEAN, Start(r, w, absolute, isDir, to)
  PROVE  Base'
<1> USE Names DEF Base, Start, fsVars, history, MvGoto
<1>1. src'[r] \in Path /\ dst'[r] \in Path /\ src[r] = None /\ dst[r] = None
  BY TargetIsName DEF MvTypeOK, CallInv
<1>2. MvTypeOK'
  BY TargetIsName DEF MvTypeOK
<1>3. CallInv'
  BY <1>1 DEF CallInv, MvTypeOK
<1>4. \A n \in Path : LedTo(n) \subseteq LedTo(n)'
  BY <1>1 DEF LedTo, MvTypeOK
<1>5. FileInv'
  <2>1. fd1[r] = None /\ fd2[r] = None
    BY DEF CallInv
  <2> QED
    BY <1>1, <1>4, <2>1 DEF FileInv, MvTypeOK, CallInv
<1>6. NewInv' /\ LengthInv'
  BY DEF NewInv, LengthInv
<1>7. AskedInv'
  BY DEF AskedInv, MvTypeOK
<1> QED
  BY <1>2, <1>3, <1>5, <1>6, <1>7

\* A process that fails leaves everything as it is.
Stops(r) ==
  /\ pc' = [pc EXCEPT ![r] = "failed"]
  /\ UNCHANGED <<entry, content, src, dst, fd1, fd2, off1, off2, buf, before, agreed>>

LEMMA StopKeepsBase ==
  ASSUME Base, NEW r \in Run, pc[r] # "start", Stops(r) PROVE Base'
<1> USE DEF Base, Stops
<1>1. MvTypeOK'
  BY DEF MvTypeOK
<1>2. /\ pc'[r] = "failed" /\ \A q \in Run : q # r => pc'[q] = pc[q]
  BY DEF MvTypeOK
<1>3. CallInv'
  BY <1>2 DEF CallInv
<1>4. FileInv' /\ NewInv' /\ LengthInv'
  BY DEF FileInv, LedTo, NewInv, LengthInv
<1>5. AskedInv'
  BY <1>2 DEF AskedInv
<1> QED
  BY <1>1, <1>3, <1>4, <1>5

LEMMA OpenSourceKeepsBase ==
  ASSUME Base, NEW r \in Run, OpenSource(r) PROVE Base'
<1> USE Names DEF Base
<1>1. src[r] \in Path /\ pc[r] = "open"
  BY DEF CallInv, OpenSource
<1>2. CASE entry[src[r]] = None
  <2>1. Stops(r)
    BY <1>2 DEF OpenSource, Stops, Fail, MvGoto, fsVars
  <2> QED
    BY <1>1, <2>1, StopKeepsBase
<1>3. CASE entry[src[r]] # None
  <2>1. /\ fd1' = [fd1 EXCEPT ![r] = entry[src[r]]]
        /\ before' = [before EXCEPT ![r] = content[entry[src[r]]]]
        /\ pc' = [pc EXCEPT ![r] = "test"]
        /\ UNCHANGED <<entry, content, src, dst, fd2, off1, off2, buf, agreed>>
    BY <1>3 DEF OpenSource, MvGoto, fsVars
  <2>2. entry[src[r]] \in File
    BY <1>1, <1>3 DEF MvTypeOK
  <2>3. MvTypeOK'
    BY <2>1, <2>2 DEF MvTypeOK
  <2>4. /\ pc'[r] = "test" /\ \A q \in Run : q # r => pc'[q] = pc[q]
        /\ fd1'[r] = entry[src[r]] /\ \A q \in Run : q # r => fd1'[q] = fd1[q]
    BY <2>1 DEF MvTypeOK
  <2>5. CallInv'
    BY <1>1, <1>3, <2>1, <2>4 DEF CallInv
  <2>6. FileInv'
    BY <1>1, <2>1, <2>4 DEF FileInv, LedTo
  <2>7. NewInv' /\ LengthInv'
    BY <2>1 DEF NewInv, LengthInv
  <2>8. AskedInv'
    BY <2>1, <2>4 DEF AskedInv
  <2> QED
    BY <2>3, <2>5, <2>6, <2>7, <2>8
<1> QED
  BY <1>2, <1>3

LEMMA TestKeepsBase ==
  ASSUME Base, NEW r \in Run, Test(r) PROVE Base'
<1> USE Names DEF Base
<1>1. dst[r] \in Path /\ pc[r] = "test"
  BY DEF CallInv, Test
<1>2. ASSUME NEW l \in {"create", "truncate"}, pc' = [pc EXCEPT ![r] = l],
             agreed' \in SUBSET Run, agreed \subseteq agreed',
             l = "truncate" => r \in agreed', l = "create" => entry[dst[r]] = None,
             UNCHANGED <<entry, content, src, dst, fd1, fd2, off1, off2, buf, before>>
      PROVE  Base'
  <2>1. MvTypeOK'
    BY <1>2 DEF MvTypeOK
  <2>2. /\ pc'[r] = l /\ \A q \in Run : q # r => pc'[q] = pc[q]
    BY <1>2 DEF MvTypeOK
  <2>3. CallInv'
    BY <1>1, <1>2, <2>2 DEF CallInv
  <2>4. FileInv' /\ NewInv' /\ LengthInv'
    BY <1>2 DEF FileInv, LedTo, NewInv, LengthInv
  <2>5. AskedInv'
    BY <1>1, <1>2, <2>2 DEF AskedInv, CallInv
  <2> QED
    BY <2>1, <2>3, <2>4, <2>5
<1>3. agreed \in SUBSET Run
  BY DEF MvTypeOK
<1>4. CASE entry[dst[r]] = None
  BY <1>2, <1>3, <1>4 DEF Test, MvGoto, fsVars
<1>5. CASE entry[dst[r]] # None
  <2>1. CASE pc' = [pc EXCEPT ![r] = "truncate"] /\ agreed' = agreed \cup {r}
    <3>1. UNCHANGED <<entry, content, src, dst, fd1, fd2, off1, off2, buf, before>>
      BY DEF Test, fsVars
    <3> QED
      BY <1>2, <1>3, <2>1, <3>1
  <2>2. CASE Stops(r)
    BY <1>1, <2>2, StopKeepsBase
  <2> QED
    BY <1>5, <2>1, <2>2 DEF Test, Stops, MvGoto, Fail, fsVars
<1> QED
  BY <1>4, <1>5

LEMMA TruncateKeepsBase ==
  ASSUME Base, NEW r \in Run, Truncate(r) PROVE Base'
<1> USE Names DEF Base
<1>1. dst[r] \in Path /\ pc[r] = "truncate"
  BY DEF CallInv, Truncate
<1>2. CASE entry[dst[r]] = None
  <2>1. Stops(r)
    BY <1>2 DEF Truncate, Stops, Fail, MvGoto, history
  <2> QED
    BY <1>1, <2>1, StopKeepsBase
<1>3. CASE entry[dst[r]] # None
  <2>1. /\ fd2' = [fd2 EXCEPT ![r] = entry[dst[r]]]
        /\ content' = [content EXCEPT ![entry[dst[r]]] = <<>>]
        /\ pc' = [pc EXCEPT ![r] = "read"]
        /\ UNCHANGED <<entry, src, dst, fd1, off1, off2, buf, before, agreed>>
    BY <1>3 DEF Truncate, MvGoto, history
  <2>2. entry[dst[r]] \in File
    BY <1>1, <1>3 DEF MvTypeOK
  <2>3. MvTypeOK'
    BY <2>1, <2>2, EmptySeq DEF MvTypeOK
  <2>4. /\ pc'[r] = "read" /\ \A q \in Run : q # r => pc'[q] = pc[q]
        /\ fd2'[r] = entry[dst[r]] /\ \A q \in Run : q # r => fd2'[q] = fd2[q]
        /\ \A f \in File : content'[f] = IF f = entry[dst[r]] THEN <<>> ELSE content[f]
    BY <2>1, <2>2 DEF MvTypeOK
  <2>5. CallInv'
    BY <1>1, <1>3, <2>1, <2>4 DEF CallInv
  <2>6. FileInv'
    BY <1>1, <2>1, <2>4 DEF FileInv, LedTo
  <2>7. NewInv'
    BY <1>1, <1>3, <2>1, <2>4 DEF NewInv
  <2>8. LengthInv'
    BY <2>1, <2>4, EmptySeq DEF LengthInv
  <2>9. AskedInv'
    BY <1>1, <2>1, <2>4 DEF AskedInv
  <2> QED
    BY <2>3, <2>5, <2>6, <2>7, <2>8, <2>9
<1> QED
  BY <1>2, <1>3

LEMMA CreateKeepsBase ==
  ASSUME Base, NEW r \in Run, Create(r) PROVE Base'
<1> USE Names DEF Base, Create, history, MvGoto, Fail
<1>1. dst[r] \in Path /\ fd2[r] = None
  BY DEF CallInv
<1>2. MvTypeOK'
  BY <1>1 DEF MvTypeOK
<1>3. /\ entry'[dst[r]] = IF entry[dst[r]] = None THEN r ELSE entry[dst[r]]
      /\ \A n \in Path : n # dst[r] => entry'[n] = entry[n]
      /\ fd2'[r] = entry'[dst[r]] /\ \A q \in Run : q # r => fd2'[q] = fd2[q]
      /\ pc'[r] = "read" /\ \A q \in Run : q # r => pc'[q] = pc[q]
  BY <1>1 DEF MvTypeOK
<1>4. fd2'[r] # None
  BY <1>3
<1>5. CallInv'
  BY <1>3, <1>4 DEF CallInv
<1>6. FileInv'
  BY <1>1, <1>3 DEF FileInv, LedTo
<1>7. NewInv'
  BY <1>1, <1>3, <1>4 DEF NewInv
<1>8. LengthInv'
  BY DEF LengthInv
<1>9. AskedInv'
  <2>1. entry'[dst[r]] # dst[r]
    BY <1>1, <1>3 DEF AskedInv
  <2>2. fd2'[r] \notin Path
    <3>1. fd2'[r] \in LedTo(dst[r])
      BY <1>3, <1>1, <1>4 DEF FileInv, LedTo
    <3> QED
      BY <3>1, <2>1, <1>3 DEF LedTo
  <2> QED
    BY <1>1, <1>3, <2>1, <2>2 DEF AskedInv, CallInv
<1> QED
  BY <1>2, <1>5, <1>6, <1>7, <1>8, <1>9

LEMMA ReadKeepsBase ==
  ASSUME Base, NEW r \in Run, ReadFile(r) PROVE Base'
<1> USE Names DEF Base, history, fsVars
<1>1. fd1[r] \in File /\ fd2[r] # None /\ buf[r] = <<>> /\ pc[r] = "read"
  BY DEF CallInv, MvTypeOK, ReadFile
<1>2. content[fd1[r]] \in Seq(Block) /\ Len(content[fd1[r]]) \in 0..Size /\ off1[r] \in 0..Size
  BY <1>1, LenProperties DEF MvTypeOK, LengthInv
<1>3. CASE off1[r] >= Len(content[fd1[r]])
  <2>1. UNCHANGED <<fsVars, src, dst, fd1, fd2, off1, off2, buf, history>>
        /\ pc' = [pc EXCEPT ![r] = "remove"]
    BY <1>2, <1>3 DEF ReadFile, MvGoto
  <2>2. MvTypeOK'
    BY <2>1 DEF MvTypeOK
  <2>3. CallInv'
    BY <1>1, <2>1 DEF CallInv, MvTypeOK
  <2>4. FileInv' /\ NewInv' /\ LengthInv'
    BY <2>1 DEF FileInv, LedTo, NewInv, LengthInv
  <2>5. AskedInv'
    BY <1>1, <2>1 DEF AskedInv, MvTypeOK
  <2> QED
    BY <2>2, <2>3, <2>4, <2>5
<1>4. CASE off1[r] < Len(content[fd1[r]])
  <2> DEFINE upto == Least(off1[r] + 2, Len(content[fd1[r]]))
             part == SubSeq(content[fd1[r]], off1[r] + 1, upto)
  <2>1. UNCHANGED <<fsVars, src, dst, fd1, fd2, off2, history>>
        /\ pc' = [pc EXCEPT ![r] = "write"] /\ off1' = [off1 EXCEPT ![r] = upto]
        /\ buf' = [buf EXCEPT ![r] = part]
    BY <1>2, <1>4 DEF ReadFile, MvGoto
  <2>2. upto \in 0..Size /\ off1[r] < upto /\ upto <= off1[r] + 2
        /\ upto <= Len(content[fd1[r]])
    BY <1>2, <1>4 DEF Least
  <2>3. part \in Seq(Block) /\ Len(part) = upto - off1[r]
    <3>1. content[fd1[r]] \in Seq(Block) /\ off1[r] \in Nat /\ upto \in Nat
      BY <1>2, <2>2
    <3> HIDE DEF upto
    <3> QED
      BY <2>2, <3>1, Part
  <2> HIDE DEF upto, part
  <2>4. MvTypeOK'
    <3>1. off1' \in [Run -> 0..Size]
      BY <2>1, <2>2 DEF MvTypeOK
    <3>2. Len(part) <= 2
      BY <1>2, <2>2, <2>3
    <3>3. buf' \in [Run -> Seq(Block)] /\ \A q \in Run : Len(buf'[q]) <= 2
      BY <2>1, <2>3, <3>2 DEF MvTypeOK
    <3> QED
      BY <2>1, <3>1, <3>3 DEF MvTypeOK, fsVars, history
  <2>5. CallInv'
    BY <1>1, <2>1 DEF CallInv, MvTypeOK
  <2>6. FileInv' /\ NewInv'
    BY <2>1 DEF FileInv, LedTo, NewInv
  <2>7. LengthInv'
    <3>1. off2[r] <= off1[r]
      BY <1>1, <1>2, EmptySeq DEF LengthInv, MvTypeOK
    <3>2. off1'[r] = upto /\ buf'[r] = part /\ off2' = off2 /\ content' = content
      BY <2>1 DEF MvTypeOK, fsVars
    <3>3. \A q \in Run : q # r => off1'[q] = off1[q] /\ buf'[q] = buf[q]
      BY <2>1 DEF MvTypeOK
    <3>4. off2[r] + Len(part) <= upto
      BY <1>2, <2>2, <2>3, <3>1 DEF MvTypeOK
    <3> QED
      BY <3>2, <3>3, <3>4 DEF LengthInv
  <2>8. AskedInv'
    BY <1>1, <2>1 DEF AskedInv, MvTypeOK
  <2> QED
    BY <2>4, <2>5, <2>6, <2>7, <2>8
<1> QED
  BY <1>2, <1>3, <1>4

\* What write(r) does when it takes n blocks.
Takes(r, n) ==
  /\ content' = [content EXCEPT ![fd2[r]] = Written(@, off2[r], SubSeq(buf[r], 1, n))]
  /\ off2' = [off2 EXCEPT ![r] = @ + n]
  /\ buf' = [buf EXCEPT ![r] = <<>>]
  /\ pc' = [pc EXCEPT ![r] = "read"]
  /\ UNCHANGED <<entry, src, dst, fd1, fd2, off1, before, agreed>>

LEMMA WriteIs ==
  ASSUME Base, NEW r \in Run, WriteFile(r)
  PROVE  Stops(r) \/ \E n \in 1..Len(buf[r]) : Takes(r, n)
BY DEF WriteFile, Stops, Takes, MvGoto, Fail, fsVars, history

\* The blocks of the file a process writes to.
LEMMA TakesIs ==
  ASSUME Base, NEW r \in Run, pc[r] = "write", NEW n \in 1..Len(buf[r]), Takes(r, n)
  PROVE  /\ fd2[r] \in File /\ n \in Nat
         /\ off2[r] \in 0..Size /\ off2[r] + n <= off1[r] /\ off1[r] <= Size
         /\ \A f \in File : f # fd2[r] => content'[f] = content[f]
         /\ content'[fd2[r]] \in Seq(Block)
         /\ Len(content'[fd2[r]]) = IF Len(content[fd2[r]]) > off2[r] + n
                                      THEN Len(content[fd2[r]]) ELSE off2[r] + n
         /\ \A k \in 1..(off2[r] + n) : content'[fd2[r]][k] =
              IF k > off2[r] THEN buf[r][k - off2[r]]
              ELSE IF k <= Len(content[fd2[r]]) THEN content[fd2[r]][k] ELSE Hole
<1> USE Names DEF Base
<1>1. fd2[r] \in File
  BY DEF CallInv, MvTypeOK
<1>2. buf[r] \in Seq(Block) /\ Len(buf[r]) \in Nat /\ n \in Nat /\ n <= Len(buf[r])
  BY LenProperties DEF MvTypeOK
<1>3. off1[r] \in 0..Size /\ off2[r] \in 0..Size /\ off2[r] + Len(buf[r]) <= off1[r]
  BY DEF MvTypeOK, LengthInv
<1> DEFINE part == SubSeq(buf[r], 1, n)
           new == Written(content[fd2[r]], off2[r], part)
<1>4. part \in Seq(Block) /\ Len(part) = n /\ \A k \in 1..n : part[k] = buf[r][k]
  <2>1. /\ SubSeq(buf[r], 0 + 1, n) \in Seq(Block) /\ Len(SubSeq(buf[r], 0 + 1, n)) = n - 0
        /\ \A k \in 1..(n - 0) : SubSeq(buf[r], 0 + 1, n)[k] = buf[r][0 + k]
    BY <1>2, 0 \in Nat, 0 <= n, Part
  <2>2. 0 + 1 = 1 /\ n - 0 = n /\ \A k \in 1..n : 0 + k = k
    BY <1>2
  <2> QED
    BY <2>1, <2>2
<1>5. content[fd2[r]] \in Seq(Block) /\ content \in [File -> Seq(Block)]
  BY <1>1 DEF MvTypeOK
<1>6. content'[fd2[r]] = new /\ \A f \in File : f # fd2[r] => content'[f] = content[f]
  BY <1>1, <1>5 DEF Takes
<1> HIDE DEF part
<1>7. /\ new \in Seq(Block)
      /\ Len(new) = IF Len(content[fd2[r]]) > off2[r] + n
                      THEN Len(content[fd2[r]]) ELSE off2[r] + n
      /\ \A k \in 1..(off2[r] + n) : new[k] =
           IF k > off2[r] THEN part[k - off2[r]]
           ELSE IF k <= Len(content[fd2[r]]) THEN content[fd2[r]][k] ELSE Hole
  <2>1. off2[r] \in Nat
    BY <1>3
  <2>2. Len(part) = n /\ part \in Seq(Block)
    BY <1>4
  <2>3. Hole \in Block
    BY Names
  <2>4. /\ new \in Seq(Block)
        /\ Len(new) = IF Len(content[fd2[r]]) > off2[r] + Len(part)
                        THEN Len(content[fd2[r]]) ELSE off2[r] + Len(part)
        /\ \A k \in 1..(off2[r] + Len(part)) : new[k] =
             IF k > off2[r] THEN part[k - off2[r]]
             ELSE IF k <= Len(content[fd2[r]]) THEN content[fd2[r]][k] ELSE Hole
    <3>1. \A old, chunk \in Seq(Block), off \in Nat :
            /\ Written(old, off, chunk) \in Seq(Block)
            /\ Len(Written(old, off, chunk)) =
                 IF Len(old) > off + Len(chunk) THEN Len(old) ELSE off + Len(chunk)
            /\ \A k \in 1..(off + Len(chunk)) : Written(old, off, chunk)[k] =
                 IF k > off THEN chunk[k - off] ELSE IF k <= Len(old) THEN old[k] ELSE Hole
      BY <2>3, WrittenIs
    <3> QED
      BY <3>1, <2>1, <2>2, <1>5, Zenon
  <2> QED
    BY <2>2, <2>4, Zenon
<1>8. ASSUME NEW k \in 1..(off2[r] + n), k > off2[r]
      PROVE  part[k - off2[r]] = buf[r][k - off2[r]]
  <2>1. k - off2[r] \in 1..n
    BY <1>2, <1>3, <1>8
  <2> QED
    BY <2>1, <1>4
<1> HIDE DEF new
<1>9. \A k \in 1..(off2[r] + n) : content'[fd2[r]][k] =
        IF k > off2[r] THEN buf[r][k - off2[r]]
        ELSE IF k <= Len(content[fd2[r]]) THEN content[fd2[r]][k] ELSE Hole
  BY <1>6, <1>7, <1>8
<1>10. off2[r] + n <= off1[r] /\ off1[r] <= Size
  BY <1>2, <1>3, Names
<1> QED
  BY <1>1, <1>2, <1>3, <1>6, <1>7, <1>9, <1>10

LEMMA WriteKeepsBase ==
  ASSUME Base, NEW r \in Run, WriteFile(r) PROVE Base'
<1> USE Names DEF Base
<1>1. pc[r] = "write" /\ fd2[r] # None
  BY DEF WriteFile, CallInv
<1>2. CASE Stops(r)
  BY <1>1, <1>2, StopKeepsBase
<1>3. ASSUME NEW n \in 1..Len(buf[r]), Takes(r, n) PROVE Base'
  <2>1. /\ fd2[r] \in File /\ n \in Nat
        /\ off2[r] \in 0..Size /\ off2[r] + n <= off1[r] /\ off1[r] <= Size
        /\ \A f \in File : f # fd2[r] => content'[f] = content[f]
        /\ content'[fd2[r]] \in Seq(Block)
        /\ Len(content'[fd2[r]]) = IF Len(content[fd2[r]]) > off2[r] + n
                                     THEN Len(content[fd2[r]]) ELSE off2[r] + n
    BY <1>1, <1>3, TakesIs
  <2> USE <1>3 DEF Takes
  <2>2. MvTypeOK'
    <3>1. content' \in [File -> Seq(Block)]
      BY <2>1 DEF MvTypeOK
    <3>2. off2' \in [Run -> 0..Size]
      BY <2>1 DEF MvTypeOK
    <3>3. buf' \in [Run -> Seq(Block)] /\ \A q \in Run : Len(buf'[q]) <= 2
      BY EmptySeq DEF MvTypeOK
    <3> QED
      BY <3>1, <3>2, <3>3 DEF MvTypeOK
  <2>3. CallInv'
    BY <1>1 DEF CallInv, MvTypeOK
  <2>4. FileInv'
    BY DEF FileInv, LedTo
  <2>5. NewInv'
    BY <1>1, <2>1 DEF NewInv
  <2>6. LengthInv'
    <3>1. ASSUME NEW q \in Run PROVE off2'[q] + Len(buf'[q]) <= off1'[q]
      <4>1. CASE q = r
        BY <4>1, <2>1, EmptySeq DEF MvTypeOK
      <4>2. CASE q # r
        BY <4>2 DEF MvTypeOK, LengthInv
      <4> QED
        BY <4>1, <4>2
    <3>2. ASSUME NEW f \in File PROVE Len(content'[f]) <= Size
      BY <2>1 DEF LengthInv, MvTypeOK
    <3> QED
      BY <3>1, <3>2 DEF LengthInv
  <2>7. AskedInv'
    BY <1>1 DEF AskedInv, MvTypeOK
  <2> QED
    BY <2>2, <2>3, <2>4, <2>5, <2>6, <2>7
<1> QED
  BY <1>2, <1>3, WriteIs

LEMMA RemoveKeepsBase ==
  ASSUME Base, NEW r \in Run, Remove(r) PROVE Base'
<1> USE Names DEF Base
<1>1. src[r] \in Path /\ fd2[r] # None /\ pc[r] = "remove"
  BY DEF CallInv, Remove
<1>2. CASE entry[src[r]] = None
  <2>1. Stops(r)
    BY <1>2 DEF Remove, Stops, Fail, MvGoto, history
  <2> QED
    BY <1>1, <2>1, StopKeepsBase
<1>3. CASE entry[src[r]] # None
  <2>1. /\ entry' = [entry EXCEPT ![src[r]] = None]
        /\ pc' = [pc EXCEPT ![r] = "done"]
        /\ UNCHANGED <<content, src, dst, fd1, fd2, off1, off2, buf, before, agreed>>
    BY <1>3 DEF Remove, MvGoto, history
  <2>2. MvTypeOK'
    BY <2>1 DEF MvTypeOK
  <2>3. /\ pc'[r] = "done" /\ \A q \in Run : q # r => pc'[q] = pc[q]
        /\ \A n \in Path : entry'[n] \in {entry[n], None}
    BY <2>1 DEF MvTypeOK
  <2>4. CallInv'
    BY <1>1, <2>1, <2>3 DEF CallInv
  <2>5. FileInv'
    BY <2>1, <2>3 DEF FileInv, LedTo
  <2>6. NewInv' /\ LengthInv'
    BY <2>1, <2>3 DEF NewInv, LengthInv
  <2>7. AskedInv'
    <3>1. \A q \in Run : pc'[q] = "create" => dst[q] \in Path /\ q # r
      BY <2>3 DEF CallInv
    <3> QED
      BY <2>1, <2>3, <3>1 DEF AskedInv
  <2> QED
    BY <2>2, <2>4, <2>5, <2>6, <2>7
<1> QED
  BY <1>2, <1>3

LEMMA InterruptKeepsBase ==
  ASSUME Base, NEW r \in Run, Kill(r) PROVE Base'
<1>1. pc[r] # "start" /\ Stops(r)
  BY DEF Kill, Stops, Fail, MvGoto, fsVars, history
<1> QED
  BY <1>1, StopKeepsBase

LEMMA BaseStep == ASSUME Base, NEW r \in Run, Step(r) PROVE Base'
BY StartKeepsBase, OpenSourceKeepsBase, TestKeepsBase, TruncateKeepsBase, CreateKeepsBase,
   ReadKeepsBase, WriteKeepsBase, RemoveKeepsBase, InterruptKeepsBase DEF Step

-----------------------------------------------------------------------------
(* An ordinary move.                                                       *)

\* The files it has to do with.
LEMMA OwnFiles ==
  ASSUME Base, NEW r \in Run, Ordinary(r), pc[r] # "start"
  PROVE  /\ src[r] \in Path /\ dst[r] \in Path /\ src[r] # dst[r]
         /\ entry[src[r]] \in {None, src[r]} /\ entry[dst[r]] \in {None, dst[r], r}
         /\ fd1[r] \in {None, src[r]} /\ fd2[r] \in {None, dst[r], r}
         /\ \A q \in Run : q # r =>
              /\ src[q] \notin {src[r], dst[r]} /\ dst[q] \notin {src[r], dst[r]}
              /\ fd2[q] \notin {src[r], dst[r], r}
<1> USE Names DEF Base
<1>1. src[r] \in Path /\ dst[r] \in Path /\ src[r] # dst[r]
  BY DEF CallInv, Ordinary
<1>2. ASSUME NEW q \in Run, q # r
      PROVE  src[q] \notin {src[r], dst[r]} /\ dst[q] \notin {src[r], dst[r]}
  BY <1>1, <1>2 DEF Ordinary
<1>3. LedTo(src[r]) = {src[r]} /\ LedTo(dst[r]) = {dst[r], r}
  BY <1>1, <1>2 DEF LedTo
<1>4. entry[src[r]] \in {None, src[r]} /\ entry[dst[r]] \in {None, dst[r], r}
      /\ fd1[r] \in {None, src[r]} /\ fd2[r] \in {None, dst[r], r}
  BY <1>1, <1>3 DEF FileInv
<1>5. ASSUME NEW q \in Run, q # r PROVE fd2[q] \notin {src[r], dst[r], r}
  <2>1. fd2[q] = None \/ fd2[q] \in LedTo(dst[q])
    BY DEF FileInv
  <2>2. None \notin {src[r], dst[r], r}
    BY <1>1
  <2>3. CASE fd2[q] \in LedTo(dst[q])
    <3>1. fd2[q] = dst[q] \/ (fd2[q] \in Run /\ dst[fd2[q]] = dst[q])
      BY <2>3 DEF LedTo
    <3>2. dst[q] \notin {src[r], dst[r]} /\ dst[q] # r
      BY <1>2, <1>5 DEF MvTypeOK
    <3>3. fd2[q] \in Run => fd2[q] \notin {src[r], dst[r]}
      BY <1>1
    <3> QED
      BY <3>1, <3>2, <3>3
  <2> QED
    BY <2>1, <2>2, <2>3
<1> QED
  BY <1>1, <1>2, <1>4, <1>5

\* A step of another process leaves them, and its own state, as they are.
Untouched(r) ==
  /\ entry'[src[r]] = entry[src[r]] /\ entry'[dst[r]] = entry[dst[r]]
  /\ \A f \in {src[r], dst[r], r} : content'[f] = content[f]
  /\ pc'[r] = pc[r] /\ src'[r] = src[r] /\ dst'[r] = dst[r]
  /\ fd1'[r] = fd1[r] /\ fd2'[r] = fd2[r] /\ off1'[r] = off1[r] /\ off2'[r] = off2[r]
  /\ buf'[r] = buf[r] /\ before'[r] = before[r]

LEMMA OthersLeaveIt ==
  ASSUME Base, NEW r \in Run, Ordinary(r), pc[r] # "start", NEW q \in Run, q # r, Step(q)
  PROVE  Untouched(r)
<1> USE Names DEF Base, fsVars, history, MvGoto, Fail
<1>1. /\ src[r] \in Path /\ dst[r] \in Path
      /\ src[q] \notin {src[r], dst[r]} /\ dst[q] \notin {src[r], dst[r]}
      /\ fd2[q] \notin {src[r], dst[r], r}
  BY OwnFiles
<1>2. CASE \E w, to \in Word, absolute, isDir \in BOOLEAN : Start(q, w, absolute, isDir, to)
  BY <1>2 DEF Start, Untouched, MvTypeOK
<1>3. CASE OpenSource(q)
  <2>1. UNCHANGED <<entry, content, src, dst, fd2, off1, off2, buf, agreed>>
    BY <1>3 DEF OpenSource
  <2>2. pc'[r] = pc[r] /\ fd1'[r] = fd1[r] /\ before'[r] = before[r]
    BY <1>3 DEF OpenSource, MvTypeOK
  <2> QED
    BY <2>1, <2>2 DEF Untouched
<1>4. CASE Test(q)
  <2>1. UNCHANGED <<entry, content, src, dst, fd1, fd2, off1, off2, buf, before>>
    BY <1>4 DEF Test
  <2>2. pc'[r] = pc[r]
    BY <1>4 DEF Test, MvTypeOK
  <2> QED
    BY <2>1, <2>2 DEF Untouched
<1>5. CASE Truncate(q)
  <2>1. UNCHANGED <<entry, src, dst, fd1, off1, off2, buf, before>>
    BY <1>5 DEF Truncate
  <2>2. pc'[r] = pc[r] /\ fd2'[r] = fd2[r]
    BY <1>5 DEF Truncate, MvTypeOK
  <2>3. \A f \in {src[r], dst[r], r} : content'[f] = content[f]
    <3>1. dst[q] \in Path
      BY <1>5 DEF Truncate, CallInv
    <3>2. entry[dst[q]] = None \/ entry[dst[q]] \in LedTo(dst[q])
      BY <3>1 DEF FileInv
    <3>3. entry[dst[q]] \notin {src[r], dst[r], r}
      BY <1>1, <3>1, <3>2 DEF LedTo
    <3> QED
      <4>1. content \in [File -> Seq(Block)]
        BY DEF MvTypeOK
      <4>2. content' = content \/ content' = [content EXCEPT ![entry[dst[q]]] = <<>>]
        BY <1>5, Zenon DEF Truncate
      <4> QED
        BY <1>1, <3>3, <4>1, <4>2
  <2> QED
    BY <2>1, <2>2, <2>3 DEF Untouched
<1>6. CASE Create(q)
  <2>1. UNCHANGED <<content, src, dst, fd1, off1, off2, buf, before>>
    BY <1>6 DEF Create
  <2>2. pc'[r] = pc[r] /\ fd2'[r] = fd2[r]
    BY <1>6 DEF Create, MvTypeOK
  <2>3. entry'[src[r]] = entry[src[r]] /\ entry'[dst[r]] = entry[dst[r]]
    BY <1>1, <1>6 DEF Create, MvTypeOK
  <2> QED
    BY <2>1, <2>2, <2>3 DEF Untouched
<1>7. CASE ReadFile(q)
  <2>1. UNCHANGED <<entry, content, src, dst, fd1, fd2, off2, before>>
    BY <1>7 DEF ReadFile
  <2>2. pc'[r] = pc[r] /\ off1'[r] = off1[r] /\ buf'[r] = buf[r]
    BY <1>7 DEF ReadFile, MvTypeOK
  <2> QED
    BY <2>1, <2>2 DEF Untouched
<1>8. CASE WriteFile(q)
  <2>1. CASE Stops(q)
    BY <2>1 DEF Stops, Untouched, MvTypeOK
  <2>2. ASSUME NEW n \in 1..Len(buf[q]), Takes(q, n) PROVE Untouched(r)
    <3>1. \A f \in File : f # fd2[q] => content'[f] = content[f]
      BY <1>8, <2>2, TakesIs DEF WriteFile
    <3>2. \A f \in {src[r], dst[r], r} : content'[f] = content[f]
      BY <1>1, <3>1
    <3> QED
      BY <2>2, <3>2 DEF Takes, Untouched, MvTypeOK
  <2> QED
    BY <1>8, <2>1, <2>2, WriteIs
<1>9. CASE Remove(q)
  <2>1. UNCHANGED <<content, src, dst, fd1, fd2, off1, off2, buf, before>>
    BY <1>9 DEF Remove
  <2>2. pc'[r] = pc[r]
    BY <1>9 DEF Remove, MvTypeOK
  <2>3. entry'[src[r]] = entry[src[r]] /\ entry'[dst[r]] = entry[dst[r]]
    BY <1>1, <1>9 DEF Remove, MvTypeOK
  <2> QED
    BY <2>1, <2>2, <2>3 DEF Untouched
<1>10. CASE Kill(q)
  BY <1>10 DEF Kill, Untouched, MvTypeOK
<1> QED
  BY <1>2, <1>3, <1>4, <1>5, <1>6, <1>7, <1>8, <1>9, <1>10 DEF Step

\* A move that is ordinary after a step was so before.
LEMMA OrdinaryBefore ==
  ASSUME Base, NEW r \in Run, pc[r] # "start", Ordinary(r)', NEW q \in Run, Step(q)
  PROVE  Ordinary(r)
<1> USE Names DEF Base, fsVars, history, MvGoto, Fail
<1>1. src[r] \in Path /\ dst[r] \in Path
  BY DEF CallInv
<1>2. \A p \in Run : \/ src'[p] = src[p] /\ dst'[p] = dst[p]
                     \/ src[p] = None /\ dst[p] = None /\ p = q /\ pc[p] = "start"
  <2>1. CASE UNCHANGED <<src, dst>>
    BY <2>1
  <2>2. CASE \E w, to \in Word, absolute, isDir \in BOOLEAN : Start(q, w, absolute, isDir, to)
    BY <2>2 DEF Start, MvTypeOK, CallInv
  <2> QED
    BY <2>1, <2>2 DEF Step, OpenSource, Test, Truncate, Create, ReadFile, WriteFile, Remove, Kill
<1>3. src[r] # dst[r] /\ \A p \in Run \ {r} :
        {src[p], dst[p]} \cap {src[r], dst[r]} \subseteq {None}
  <2>1. src'[r] = src[r] /\ dst'[r] = dst[r]
    BY <1>2
  <2> QED
    BY <1>1, <1>2, <2>1 DEF Ordinary
<1>4. off2'[r] + Len(buf'[r]) = off1'[r]
  BY DEF Ordinary
<1>5. off2[r] + Len(buf[r]) = off1[r]
  <2>1. CASE off2'[r] = off2[r] /\ buf'[r] = buf[r] /\ off1'[r] = off1[r]
    BY <1>4, <2>1
  <2>2. CASE q = r /\ ReadFile(r)
    <3>1. off1[r] \in 0..Size /\ content[fd1[r]] \in Seq(Block) /\ buf[r] = <<>>
          /\ off2[r] \in 0..Size
      BY <2>2 DEF ReadFile, CallInv, MvTypeOK
    <3>2. CASE off1[r] < Len(content[fd1[r]])
      <4> DEFINE upto == Least(off1[r] + 2, Len(content[fd1[r]]))
                 part == SubSeq(content[fd1[r]], off1[r] + 1, upto)
      <4>1. buf'[r] = part /\ off1'[r] = upto /\ off2'[r] = off2[r]
        BY <2>2, <3>2 DEF ReadFile, MvTypeOK
      <4>2. upto \in Nat /\ off1[r] <= upto /\ upto <= Len(content[fd1[r]])
        BY <3>1, <3>2, LenProperties DEF Least
      <4>3. Len(part) = upto - off1[r]
        BY <3>1, <4>2, Part
      <4> HIDE DEF part, upto
      <4>4. off2[r] = off1[r]
        BY <1>4, <3>1, <4>1, <4>2, <4>3
      <4> QED
        BY <3>1, <4>4, EmptySeq
    <3>3. CASE ~(off1[r] < Len(content[fd1[r]]))
      BY <1>4, <2>2, <3>3 DEF ReadFile
    <3> QED
      BY <3>2, <3>3
  <2>3. CASE q = r /\ WriteFile(r)
    <3>1. CASE Stops(r)
      BY <1>4, <3>1 DEF Stops
    <3>2. ASSUME NEW n \in 1..Len(buf[r]), Takes(r, n)
          PROVE  off2[r] + Len(buf[r]) = off1[r]
      <4>1. off2'[r] = off2[r] + n /\ buf'[r] = <<>> /\ off1'[r] = off1[r]
        BY <3>2 DEF Takes, MvTypeOK
      <4>2. off2[r] \in Nat /\ off1[r] \in Nat /\ Len(buf[r]) \in Nat
            /\ off2[r] + Len(buf[r]) <= off1[r]
        BY LenProperties DEF MvTypeOK, LengthInv
      <4>3. Len(buf'[r]) = 0
        BY <4>1, EmptySeq
      <4> QED
        BY <1>4, <4>1, <4>2, <4>3
    <3> QED
      BY <2>3, <3>1, <3>2, WriteIs
  <2>4. CASE q # r /\ (ReadFile(q) \/ WriteFile(q))
    <3>1. CASE ReadFile(q)
      BY <1>4, <2>4, <3>1 DEF ReadFile, MvTypeOK
    <3>2. CASE WriteFile(q)
      <4>1. CASE Stops(q)
        BY <1>4, <4>1 DEF Stops
      <4>2. ASSUME NEW n \in 1..Len(buf[q]), Takes(q, n)
            PROVE  off2[r] + Len(buf[r]) = off1[r]
        BY <1>4, <2>4, <4>2 DEF Takes, MvTypeOK
      <4> QED
        BY <3>2, <4>1, <4>2, WriteIs
    <3> QED
      BY <2>4, <3>1, <3>2
  <2> QED
    BY <2>1, <2>2, <2>3, <2>4
       DEF Step, Start, OpenSource, Test, Truncate, Create, Remove, Kill
<1> QED
  BY <1>3, <1>5 DEF Ordinary

LEMMA UntouchedStays ==
  ASSUME Base, NEW r \in Run, Ordinary(r), pc[r] # "start", Faithful(r), Untouched(r)
  PROVE  Faithful(r)'
<1> USE Names DEF Untouched
<1>1. fd2[r] \in {None, dst[r], r}
  BY OwnFiles
<1>2. pc[r] \in {"read", "write", "remove", "done"} => fd2[r] # None
  BY DEF Base, CallInv
<1>3. pc[r] \in {"read", "write", "remove", "done"} => content'[fd2[r]] = content[fd2[r]]
  BY <1>1, <1>2
<1>4. pc[r] \in {"read", "write", "remove", "done"} => Copied(r)'
  <2> SUFFICES ASSUME pc[r] \in {"read", "write", "remove", "done"} PROVE Copied(r)'
    OBVIOUS
  <2>1. Copied(r)
    BY DEF Faithful
  <2> QED
    BY <1>3, <2>1 DEF Copied
<1> QED
  BY <1>4 DEF Faithful

\* The steps of the process itself.
LEMMA OpenFaithful ==
  ASSUME Base, NEW r \in Run, Ordinary(r), OpenSource(r), fd1'[r] # None
  PROVE  Faithful(r)'
<1> USE Names
<1>1. pc[r] = "open" /\ fd1[r] = None
  BY DEF OpenSource, Base, CallInv
<1>2. src[r] \in Path /\ entry[src[r]] \in {None, src[r]}
  BY <1>1, OwnFiles
<1>3. entry[src[r]] = src[r]
  BY <1>1, <1>2 DEF OpenSource, MvGoto, Fail
<1>4. /\ fd1' = [fd1 EXCEPT ![r] = src[r]] /\ before' = [before EXCEPT ![r] = content[src[r]]]
      /\ pc' = [pc EXCEPT ![r] = "test"] /\ UNCHANGED <<entry, content, src, dst>>
  BY <1>2, <1>3 DEF OpenSource, MvGoto, fsVars
<1>5. fd1'[r] = src[r] /\ before'[r] = content[src[r]] /\ pc'[r] = "test"
  BY <1>4 DEF Base, MvTypeOK
<1> QED
  BY <1>3, <1>4, <1>5 DEF Faithful

LEMMA StopFaithful ==
  ASSUME Base, NEW r \in Run, pc[r] # "done", Faithful(r), Stops(r)
  PROVE  Faithful(r)'
BY DEF Base, MvTypeOK, Stops, Faithful

LEMMA TestFaithful ==
  ASSUME Base, NEW r \in Run, Faithful(r), Test(r)
  PROVE  Faithful(r)'
<1>1. pc[r] = "test" /\ UNCHANGED <<entry, content, src, dst, fd1, before>>
  BY DEF Test, fsVars
<1>2. pc'[r] \in {"create", "truncate", "failed"} /\ (pc'[r] = "create" => entry[dst[r]] = None)
  <2>1. CASE entry[dst[r]] = None
    BY <2>1 DEF Test, MvGoto, Base, MvTypeOK
  <2>2. CASE entry[dst[r]] # None
    BY <2>2 DEF Test, MvGoto, Fail, Base, MvTypeOK
  <2> QED
    BY <2>1, <2>2
<1> QED
  BY <1>1, <1>2 DEF Faithful

\* The destination has been opened, and is empty.
LEMMA Opened ==
  ASSUME Base, NEW r \in Run, Ordinary(r), fd2[r] = None, fd1[r] # None, Faithful(r),
         pc[r] \in {"truncate", "create"}, pc'[r] = "read", fd2'[r] # src[r],
         UNCHANGED <<src, dst, fd1, off1, off2, buf, before>>,
         entry'[dst[r]] = fd2'[r], content'[fd2'[r]] = <<>>,
         entry'[src[r]] = entry[src[r]], content'[src[r]] = content[src[r]]
  PROVE  Faithful(r)'
<1>1. off1[r] = 0 /\ off2[r] = 0 /\ buf[r] = <<>> /\ Len(before[r]) \in Nat
  BY LenProperties DEF Base, CallInv, MvTypeOK
<1>2. Len(content'[fd2'[r]]) = 0 /\ Len(buf[r]) = 0
  BY <1>1, EmptySeq
<1>3. Copied(r)'
  BY <1>1, <1>2 DEF Copied
<1> QED
  BY <1>3 DEF Faithful

LEMMA TruncateFaithful ==
  ASSUME Base, NEW r \in Run, Ordinary(r), fd1[r] # None, Faithful(r), Truncate(r)
  PROVE  Faithful(r)'
<1> USE Names
<1>1. pc[r] = "truncate" /\ fd2[r] = None
  BY DEF Truncate, Base, CallInv
<1>2. /\ src[r] \in Path /\ dst[r] \in Path /\ src[r] # dst[r]
      /\ entry[dst[r]] \in {None, dst[r], r}
  BY <1>1, OwnFiles
<1>3. CASE entry[dst[r]] = None
  <2>1. Stops(r)
    BY <1>3 DEF Truncate, Stops, Fail, MvGoto, history
  <2> QED
    BY <1>1, <2>1, StopFaithful
<1>4. CASE entry[dst[r]] # None
  <2>1. /\ fd2' = [fd2 EXCEPT ![r] = entry[dst[r]]]
        /\ content' = [content EXCEPT ![entry[dst[r]]] = <<>>]
        /\ pc' = [pc EXCEPT ![r] = "read"]
        /\ UNCHANGED <<entry, src, dst, fd1, off1, off2, buf, before, agreed>>
    BY <1>4 DEF Truncate, MvGoto, history
  <2>2. entry[dst[r]] \in File /\ entry[dst[r]] # src[r]
    BY <1>2, <1>4
  <2>3. fd2'[r] = entry[dst[r]] /\ pc'[r] = "read" /\ content'[entry[dst[r]]] = <<>>
        /\ content'[src[r]] = content[src[r]]
    BY <1>2, <2>1, <2>2 DEF Base, MvTypeOK
  <2> QED
    BY <1>1, <2>1, <2>2, <2>3, Opened
<1> QED
  BY <1>3, <1>4

LEMMA CreateFaithful ==
  ASSUME Base, NEW r \in Run, Ordinary(r), fd1[r] # None, Faithful(r), Create(r)
  PROVE  Faithful(r)'
<1> USE Names
<1>1. pc[r] = "create" /\ fd2[r] = None
  BY DEF Create, Base, CallInv
<1>2. src[r] \in Path /\ dst[r] \in Path /\ src[r] # dst[r]
  BY <1>1, OwnFiles
<1>3. entry[dst[r]] = None
  BY <1>1 DEF Faithful
<1>4. /\ entry'[dst[r]] = r /\ entry'[src[r]] = entry[src[r]] /\ fd2'[r] = r
      /\ pc'[r] = "read" /\ UNCHANGED <<content, src, dst, fd1, off1, off2, buf, before>>
  BY <1>2, <1>3 DEF Create, MvGoto, history, Base, MvTypeOK
<1>5. content[r] = <<>> /\ r # src[r]
  BY <1>1, <1>2 DEF Base, NewInv
<1> QED
  BY <1>1, <1>4, <1>5, Opened

LEMMA ReadFaithful ==
  ASSUME Base, NEW r \in Run, Ordinary(r), Faithful(r), ReadFile(r)
  PROVE  Faithful(r)'
<1>1. pc[r] = "read" /\ buf[r] = <<>> /\ UNCHANGED <<entry, content, src, dst, fd1, fd2, off2, before>>
  BY DEF ReadFile, fsVars, history, Base, CallInv
<1>2. fd1[r] = src[r] /\ content[fd1[r]] = before[r] /\ Copied(r)
  BY <1>1 DEF Faithful
<1>3. off1[r] \in Nat /\ off2[r] = off1[r] /\ off1[r] <= Len(before[r])
      /\ before[r] \in Seq(Block) /\ Len(before[r]) \in Nat
  BY <1>1, <1>2, EmptySeq, LenProperties DEF Ordinary, Copied, Base, MvTypeOK
<1>4. CASE off1[r] < Len(before[r])
  <2> DEFINE upto == Least(off1[r] + 2, Len(before[r]))
             part == SubSeq(before[r], off1[r] + 1, upto)
  <2>1. buf'[r] = part /\ off1'[r] = upto /\ pc'[r] = "write"
    BY <1>2, <1>4 DEF ReadFile, MvGoto, Base, MvTypeOK
  <2>2. upto \in Nat /\ off1[r] <= upto /\ upto <= Len(before[r])
    BY <1>3, <1>4 DEF Least
  <2>3. Len(part) = upto - off1[r] /\ \A k \in 1..(upto - off1[r]) : part[k] = before[r][off1[r] + k]
    <3> HIDE DEF upto
    <3>1. \A s \in Seq(Block), m, n \in Nat : m <= n /\ n <= Len(s) =>
            /\ Len(SubSeq(s, m + 1, n)) = n - m
            /\ \A k \in 1..(n - m) : SubSeq(s, m + 1, n)[k] = s[m + k]
      BY Part
    <3> QED
      BY <1>3, <2>2, <3>1, Zenon
  <2> HIDE DEF part, upto
  <2>4. Copied(r)'
    BY <1>1, <1>2, <1>3, <2>1, <2>2, <2>3 DEF Copied
  <2> QED
    BY <1>1, <2>1, <2>4 DEF Faithful
<1>5. CASE ~(off1[r] < Len(before[r]))
  <2>1. pc'[r] = "remove" /\ UNCHANGED <<buf, off1>>
    BY <1>2, <1>5 DEF ReadFile, MvGoto, Base, MvTypeOK
  <2>2. Copied(r)'
    BY <1>1, <1>2, <2>1 DEF Copied
  <2>3. off1[r] = Len(before[r])
    BY <1>3, <1>5
  <2> QED
    BY <1>1, <2>1, <2>2, <2>3 DEF Faithful
<1> QED
  BY <1>4, <1>5

LEMMA WriteFaithful ==
  ASSUME Base, NEW r \in Run, Ordinary(r), Ordinary(r)', Faithful(r), WriteFile(r)
  PROVE  Faithful(r)'
<1> USE Names
<1>1. pc[r] = "write" /\ Copied(r)
  BY DEF WriteFile, Faithful
<1>2. CASE Stops(r)
  BY <1>1, <1>2, StopFaithful
<1>3. ASSUME NEW n \in 1..Len(buf[r]), Takes(r, n) PROVE Faithful(r)'
  <2>1. /\ fd2[r] \in File /\ n \in Nat
        /\ off2[r] \in 0..Size /\ off2[r] + n <= off1[r]
        /\ \A f \in File : f # fd2[r] => content'[f] = content[f]
        /\ Len(content'[fd2[r]]) = IF Len(content[fd2[r]]) > off2[r] + n
                                     THEN Len(content[fd2[r]]) ELSE off2[r] + n
        /\ \A k \in 1..(off2[r] + n) : content'[fd2[r]][k] =
             IF k > off2[r] THEN buf[r][k - off2[r]]
             ELSE IF k <= Len(content[fd2[r]]) THEN content[fd2[r]][k] ELSE Hole
    BY <1>1, <1>3, TakesIs
  <2>2. /\ off2'[r] = off2[r] + n /\ buf'[r] = <<>> /\ pc'[r] = "read"
        /\ UNCHANGED <<entry, src, dst, fd1, fd2, off1, before>>
    BY <1>3 DEF Takes, Base, MvTypeOK
  <2>3. Len(buf'[r]) = 0
    BY <2>2, EmptySeq
  <2>4. Len(content[fd2[r]]) = off2[r]
        /\ (\A k \in 1..off2[r] : content[fd2[r]][k] = before[r][k])
        /\ (\A k \in 1..Len(buf[r]) : buf[r][k] = before[r][off2[r] + k])
    BY <1>1 DEF Copied
  <2>5. off2[r] \in Nat /\ Len(buf[r]) \in Nat /\ n <= Len(buf[r])
    BY <2>1, LenProperties DEF Base, MvTypeOK
  <2>6. Len(content'[fd2[r]]) = off2[r] + n
    BY <2>1, <2>4, <2>5
  <2>7. ASSUME NEW k \in 1..(off2[r] + n) PROVE content'[fd2[r]][k] = before[r][k]
    <3>1. CASE k > off2[r]
      <4>1. k - off2[r] \in 1..Len(buf[r]) /\ off2[r] + (k - off2[r]) = k
        BY <2>1, <2>5, <3>1
      <4> QED
        BY <2>1, <2>4, <3>1, <4>1
    <3>2. CASE ~(k > off2[r])
      <4>1. k \in 1..off2[r] /\ k <= Len(content[fd2[r]])
        BY <2>1, <2>4, <2>5, <3>2
      <4> QED
        BY <2>1, <2>4, <3>2, <4>1
    <3> QED
      BY <3>1, <3>2
  <2>8. Copied(r)'
    <3>1. entry'[dst'[r]] = fd2'[r] /\ off1'[r] <= Len(before'[r])
      BY <1>1, <2>2 DEF Copied
    <3> QED
      BY <2>2, <2>3, <2>6, <2>7, <3>1 DEF Copied
  <2>9. content'[src[r]] = content[src[r]]
    <3>1. src[r] \in Path /\ dst[r] # src[r] /\ fd2[r] \in {None, dst[r], r}
      BY <1>1, OwnFiles
    <3> QED
      BY <2>1, <3>1
  <2> QED
    BY <1>1, <2>2, <2>8, <2>9 DEF Faithful
<1> QED
  BY <1>2, <1>3, WriteIs

LEMMA RemoveFaithful ==
  ASSUME Base, NEW r \in Run, Ordinary(r), Faithful(r), Remove(r)
  PROVE  Faithful(r)'
<1> USE Names
<1>1. pc[r] = "remove" /\ entry[src[r]] = src[r] /\ Copied(r) /\ off1[r] = Len(before[r])
  BY DEF Remove, Faithful
<1>2. src[r] \in Path /\ dst[r] \in Path /\ src[r] # dst[r]
  BY <1>1, OwnFiles
<1>3. /\ entry' = [entry EXCEPT ![src[r]] = None] /\ pc' = [pc EXCEPT ![r] = "done"]
      /\ UNCHANGED <<content, src, dst, fd1, fd2, off1, off2, buf, before>>
  BY <1>1, <1>2 DEF Remove, MvGoto, history
<1>4. entry'[src[r]] = None /\ entry'[dst[r]] = entry[dst[r]] /\ pc'[r] = "done"
  BY <1>2, <1>3 DEF Base, MvTypeOK
<1>5. Copied(r)'
  BY <1>1, <1>3, <1>4 DEF Copied
<1> QED
  BY <1>1, <1>3, <1>4, <1>5 DEF Faithful

LEMMA OwnFaithful ==
  ASSUME Base, NEW r \in Run, Ordinary(r), Ordinary(r)', fd1[r] # None => Faithful(r),
         Step(r), fd1'[r] # None
  PROVE  Faithful(r)'
<1>1. CASE pc[r] = "start"
  <2>1. fd1'[r] = None
    BY <1>1 DEF Step, Start, OpenSource, Test, Truncate, Create, ReadFile, WriteFile, Remove, Kill,
                Base, CallInv
  <2> QED
    BY <2>1
<1>2. CASE OpenSource(r)
  BY <1>2, OpenFaithful
<1>3. CASE Test(r) \/ Truncate(r) \/ Create(r) \/ ReadFile(r) \/ WriteFile(r) \/ Remove(r)
  <2>1. fd1[r] # None
    BY <1>3 DEF Test, Truncate, Create, ReadFile, WriteFile, Remove, Base, CallInv
  <2> QED
    BY <1>3, <2>1, TestFaithful, TruncateFaithful, CreateFaithful, ReadFaithful, WriteFaithful,
       RemoveFaithful
<1>4. CASE Kill(r)
  <2>1. pc[r] # "done" /\ Stops(r) /\ fd1'[r] = fd1[r]
    BY <1>4 DEF Kill, Stops, Fail, MvGoto, fsVars, history
  <2> QED
    BY <2>1, StopFaithful
<1> QED
  BY <1>1, <1>2, <1>3, <1>4 DEF Step, Start

LEMMA MoveStep == ASSUME Base, MoveInv, NEW q \in Run, Step(q) PROVE MoveInv'
<1> SUFFICES ASSUME NEW r \in Run, fd1'[r] # None, Ordinary(r)' PROVE Faithful(r)'
  BY DEF MoveInv
<1>1. CASE pc[r] = "start"
  <2>1. fd1'[r] = None
    BY <1>1, Names DEF Step, Start, OpenSource, Test, Truncate, Create, ReadFile, WriteFile, Remove,
                Kill, fsVars, history, Base, CallInv, MvTypeOK
  <2> QED
    BY <2>1
<1>2. CASE pc[r] # "start"
  <2>1. Ordinary(r) /\ (fd1[r] # None => Faithful(r))
    BY <1>2, OrdinaryBefore DEF MoveInv
  <2>2. CASE q = r
    BY <2>1, <2>2, OwnFaithful
  <2>3. CASE q # r
    <3>1. Untouched(r)
      BY <1>2, <2>1, <2>3, OthersLeaveIt
    <3>2. fd1[r] # None
      BY <3>1 DEF Untouched
    <3> QED
      BY <1>2, <2>1, <3>1, <3>2, UntouchedStays
  <2> QED
    BY <2>2, <2>3
<1> QED
  BY <1>1, <1>2

-----------------------------------------------------------------------------
(* mymv: theorems.                                                         *)

LEMMA InvIsBase == MvInv <=> Base /\ MoveInv
BY DEF MvInv, Base

LEMMA MvInvStep == MvInv /\ [MvNext]_mvVars => MvInv'
<1>1. ASSUME MvInv, NEW r \in Run, Step(r) PROVE MvInv'
  <2>1. Base /\ MoveInv
    BY <1>1, InvIsBase
  <2>2. Base' /\ MoveInv'
    BY <1>1, <2>1, BaseStep, MoveStep
  <2> QED
    BY <2>2 DEF MvInv, Base
<1>2. ASSUME MvInv, UNCHANGED mvVars PROVE MvInv'
  BY <1>2 DEF MvInv, MvTypeOK, CallInv, FileInv, LedTo, NewInv, AskedInv, LengthInv, MoveInv,
     Ordinary, Faithful, Copied, mvVars, fsVars, runVars, history
<1> QED
  BY <1>1, <1>2 DEF MvNext

LEMMA MvInvInit == MvInit => MvInv
<1> SUFFICES ASSUME MvInit PROVE MvInv
  OBVIOUS
<1>1. Base
  BY BaseInit
<1>2. MoveInv
  BY DEF MvInit, MoveInv
<1> QED
  BY <1>1, <1>2, InvIsBase

\* MvInv is inductive.
THEOREM MvInvariance == MvSpec => []MvInv
BY MvInvInit, MvInvStep, PTL DEF MvSpec

\* What an ordinary move has to keep can be found under one of its names.
LEMMA InvNeverLost == MvInv => NeverLost
<1> SUFFICES ASSUME MvInv, NEW r \in Run, fd1[r] # None, Ordinary(r)
             PROVE  \/ Contains(src[r], before[r]) /\ pc[r] # "done"
                    \/ Contains(dst[r], before[r]) /\ (pc[r] = "done" => entry[src[r]] = None)
  BY DEF NeverLost
<1> USE Names
<1>1. Base /\ Faithful(r)
  BY InvIsBase DEF MoveInv
<1>2. pc[r] # "start"
  BY <1>1 DEF Base, CallInv
<1>3. src[r] \in Path
  BY <1>1, <1>2, OwnFiles
<1>4. CASE pc[r] # "done"
  BY <1>1, <1>3, <1>4 DEF Faithful, Contains
<1>5. CASE pc[r] = "done"
  <2>1. Copied(r) /\ off1[r] = Len(before[r]) /\ entry[src[r]] = None
    BY <1>1, <1>5 DEF Faithful
  <2>2. fd2[r] \in File /\ buf[r] = <<>>
    BY <1>1, <1>5 DEF Base, CallInv, MvTypeOK
  <2>3. content[fd2[r]] \in Seq(Block) /\ before[r] \in Seq(Block) /\ off2[r] \in Nat
    BY <1>1, <2>2 DEF Base, MvTypeOK
  <2>4. off2[r] = Len(before[r])
    BY <2>1, <2>2, <2>3, EmptySeq DEF Ordinary
  <2>5. content[fd2[r]] = before[r]
    BY <2>1, <2>3, <2>4, SeqEqual DEF Copied
  <2> QED
    BY <2>1, <2>2, <2>5 DEF Copied, Contains
<1> QED
  BY <1>4, <1>5

\* mymv never loses what it moves: at every moment, interrupted or failed,
\* the content is to be found under one of the two names (mymv.c).
THEOREM NeverLostAlways == MvSpec => []NeverLost
BY MvInvariance, InvNeverLost, PTL

\* No old file is overwritten by a process whose user has not agreed (mymv.c).
THEOREM AskedFirstAlways == MvSpec => AskedFirst
<1> DEFINE Asked == \A n \in Path : content'[n] # content[n] =>
                      \E r \in agreed : dst[r] = n /\ fd2'[r] = n
<1>1. ASSUME MvInv, [MvNext]_mvVars PROVE [Asked]_mvVars
  <2> USE Names
  <2> SUFFICES ASSUME MvNext, NEW n \in Path, content'[n] # content[n]
               PROVE  \E r \in agreed : dst[r] = n /\ fd2'[r] = n
    BY <1>1
  <2>1. PICK r \in Run : Step(r)
    BY DEF MvNext
  <2>2. Base
    BY <1>1, InvIsBase
  <2>3. Truncate(r) \/ WriteFile(r)
    BY <2>1 DEF Step, Start, OpenSource, Test, Create, ReadFile, Remove, Kill, fsVars
  <2>4. dst[r] \in Path
    BY <2>2, <2>3 DEF Truncate, WriteFile, Base, CallInv
  <2>5. \A f : f \in LedTo(dst[r]) /\ f \in Path => f = dst[r]
    BY DEF LedTo
  <2>6. CASE Truncate(r)
    <3>1. /\ entry[dst[r]] # None /\ fd2' = [fd2 EXCEPT ![r] = entry[dst[r]]]
          /\ content' = [content EXCEPT ![entry[dst[r]]] = <<>>]
      BY <2>6 DEF Truncate
    <3>2. entry[dst[r]] = n
      BY <2>2, <3>1 DEF Base, MvTypeOK
    <3>3. n = dst[r]
      BY <2>2, <2>4, <2>5, <3>1, <3>2 DEF Base, FileInv
    <3>4. r \in agreed
      BY <2>2, <2>6 DEF Base, AskedInv, Truncate
    <3>5. fd2'[r] = n
      BY <2>2, <3>1, <3>2 DEF Base, MvTypeOK
    <3> QED
      BY <3>3, <3>4, <3>5
  <2>7. CASE WriteFile(r)
    <3>1. PICK m \in 1..Len(buf[r]) : Takes(r, m)
      BY <2>2, <2>7, WriteIs DEF Stops
    <3>2. \A f \in File : f # fd2[r] => content'[f] = content[f]
      BY <2>2, <2>7, <3>1, TakesIs DEF WriteFile
    <3>3. fd2[r] = n
      BY <3>2
    <3>4. n = dst[r]
      BY <2>2, <2>5, <3>3 DEF Base, FileInv
    <3>5. r \in agreed
      BY <2>2, <3>3 DEF Base, AskedInv
    <3>6. fd2' = fd2
      BY <3>1 DEF Takes
    <3> QED
      BY <3>3, <3>4, <3>5, <3>6
  <2> QED
    BY <2>3, <2>6, <2>7
<1>2. MvInv /\ [MvNext]_mvVars => [Asked]_mvVars
  BY <1>1
<1> QED
  BY <1>2, MvInvariance, PTL DEF MvSpec, AskedFirst

THEOREM MvTypeCorrect == MvSpec => []MvTypeOK
<1>1. MvInv => MvTypeOK
  BY DEF MvInv
<1> QED
  BY <1>1, MvInvariance, PTL
=============================================================================
