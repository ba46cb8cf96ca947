---------------------------- MODULE DictFileProofs ----------------------------
(***************************************************************************)
(* What the definitions of DictFile compute, for every text: convert.c     *)
(* makes one record for each word, with its definition, and each of the    *)
(* three searches finds it.                                                *)
(*                                                                         *)
(* The induction theorems of the library have an operator for a parameter, *)
(* which no prover here can instantiate.  That every set of natural        *)
(* numbers has a least one (Least) has none: what does not hold for some   *)
(* number does not for a least one, and that one leads to a contradiction. *)
(***************************************************************************)
EXTENDS DictFile, FiniteSetTheorems, SequenceTheorems, WellFoundedInduction, TLAPS

\* Every set of natural numbers that is not empty has a least one.
LEMMA Least ==
  ASSUME NEW T, T \subseteq Nat, T # {}
  PROVE  \E n \in T : \A m \in T : n <= m
<1>1. \A m, n \in Nat : <<m, n>> \in OpToRel(<, Nat) <=> m < n
  BY DEF OpToRel
<1>2. \E R : IsWellFoundedOn(R, Nat) /\ \A m, n \in Nat : <<m, n>> \in R <=> m < n
  BY <1>1, NatLessThanWellFounded, Zenon
<1>3. PICK R : IsWellFoundedOn(R, Nat) /\ \A m, n \in Nat : <<m, n>> \in R <=> m < n
  BY <1>2
<1>4. IsWellFoundedOn(R, Nat)
  BY <1>3
<1>5. PICK n \in T : \A m \in T : ~ (<<m, n>> \in R)
  BY <1>4, WFMin, Zenon
<1>6. ASSUME NEW m \in T PROVE n <= m
  <2>1. m \in Nat /\ n \in Nat
    OBVIOUS
  <2>2. ~ (m < n)
    BY <1>3, <1>5, <2>1, Zenon
  <2> QED
    BY <2>1, <2>2
<1> QED
  BY <1>6

-----------------------------------------------------------------------------
(* bsearch().                                                              *)

\* The recursion of bsearch(), on a set D of ranges: the middle, and the
\* ranges below and above it.
Middle(r) == (r[1] + r[2]) \div 2
Lower(r)  == <<r[1], Middle(r)>>
Upper(r)  == <<Middle(r) + 1, r[2]>>
Half(words, w, g, r) ==
  IF r[1] >= r[2] THEN 0
  ELSE CASE w < words[Middle(r) + 1] -> g[Lower(r)]
         [] w > words[Middle(r) + 1] -> g[Upper(r)]
         [] OTHER                    -> Middle(r) + 1
Halves(words, w, D, g) == g = [r \in D |-> Half(words, w, g, r)]

\* The definition, expanded.
LEMMA SearchIs ==
  \A words, w :
    BSearch(words, w) = (CHOOSE g : Halves(words, w, Ranges(words), g))[<<0, Len(words)>>]
  BY DEF BSearch, Halves, Half, Middle, Lower, Upper

\* How many words there are in a range.
Width(r) == IF r[1] >= r[2] THEN 0 ELSE r[2] - r[1]

LEMMA Widths ==
  ASSUME NEW words \in Seq(Int), NEW r \in Ranges(words)
  PROVE  /\ Len(words) \in Nat
         /\ r[1] \in 0..Len(words) /\ r[2] \in 0..Len(words)
         /\ Width(r) \in 0..Len(words)
         /\ Width(r) = 0 <=> r[1] >= r[2]
         /\ r[1] >= r[2] \/ r[1] < r[2]
<1>1. Len(words) \in Nat
  BY LenProperties
<1>2. r[1] \in 0..Len(words) /\ r[2] \in 0..Len(words)
  BY DEF Ranges
<1> QED
  BY <1>1, <1>2 DEF Width

\* Both halves are smaller ranges.
LEMMA Smaller ==
  ASSUME NEW words \in Seq(Int), NEW r \in Ranges(words), r[1] < r[2]
  PROVE  /\ Lower(r) \in Ranges(words) /\ Width(Lower(r)) < Width(r)
         /\ Upper(r) \in Ranges(words) /\ Width(Upper(r)) < Width(r)
         /\ Middle(r) \in Int /\ Middle(r) + 1 \in 1..Len(words)
         /\ words[Middle(r) + 1] \in Int
<1> DEFINE lo == r[1]
           hi == r[2]
<1>1. lo \in 0..Len(words) /\ hi \in 0..Len(words) /\ Len(words) \in Nat /\ lo < hi
  BY Widths
<1>2. Middle(r) \in Nat /\ lo <= Middle(r) /\ Middle(r) < hi
  BY <1>1 DEF Middle
<1>3. /\ Middle(r) \in 0..Len(words) /\ Middle(r) + 1 \in 1..Len(words)
      /\ Middle(r) + 1 \in 0..Len(words)
  BY <1>1, <1>2
<1>4. words[Middle(r) + 1] \in Int
  BY <1>3, ElementOfSeq
<1>5. Lower(r) \in Ranges(words) /\ Upper(r) \in Ranges(words)
  BY <1>1, <1>3 DEF Ranges, Lower, Upper
<1>6. /\ Lower(r)[1] = lo /\ Lower(r)[2] = Middle(r)
      /\ Upper(r)[1] = Middle(r) + 1 /\ Upper(r)[2] = hi
  BY DEF Lower, Upper
<1>7. Width(Lower(r)) < Width(r) /\ Width(Upper(r)) < Width(r)
  BY <1>1, <1>2, <1>6 DEF Width
<1> QED
  BY <1>2, <1>3, <1>4, <1>5, <1>7

\* Ranges of n words at most.
Narrow(words, n) == {r \in Ranges(words) : Width(r) <= n}

\* There is such a function: on empty ranges, and on one word more each time.
LEMMA HalvesExist ==
  ASSUME NEW words \in Seq(Int), NEW w \in Int
  PROVE  \A n \in Nat : \E g : Halves(words, w, Narrow(words, n), g)
<1> DEFINE Bad == {n \in Nat : ~ \E g : Halves(words, w, Narrow(words, n), g)}
<1> SUFFICES ASSUME Bad # {} PROVE FALSE
  OBVIOUS
<1>1. PICK n \in Bad : \A m \in Bad : n <= m
  BY Least
<1>2. n \in Nat
  OBVIOUS
<1>3. CASE n = 0
  <2> DEFINE g == [r \in Narrow(words, 0) |-> 0]
  <2>1. ASSUME NEW r \in Narrow(words, 0) PROVE r[1] >= r[2]
    <3>1. r \in Ranges(words) /\ Width(r) <= 0
      BY DEF Narrow
    <3> QED
      BY <3>1, Widths
  <2>2. Halves(words, w, Narrow(words, 0), g)
    BY <2>1 DEF Halves, Half
  <2> QED
    BY <1>3, <2>2
<1>4. CASE n # 0
  <2>1. n - 1 \in Nat /\ n - 1 \notin Bad
    BY <1>1, <1>4
  <2>2. PICK g : Halves(words, w, Narrow(words, n - 1), g)
    BY <2>1
  <2> DEFINE h == [r \in Narrow(words, n) |-> Half(words, w, g, r)]
  <2>3. ASSUME NEW r \in Narrow(words, n) PROVE Half(words, w, h, r) = Half(words, w, g, r)
    <3>1. CASE r[1] >= r[2]
      BY <3>1 DEF Half
    <3>2. CASE r[1] < r[2]
      <4>1. r \in Ranges(words) /\ Width(r) <= n
        BY DEF Narrow
      <4>2. /\ Lower(r) \in Ranges(words) /\ Width(Lower(r)) < Width(r)
            /\ Upper(r) \in Ranges(words) /\ Width(Upper(r)) < Width(r)
        BY <3>2, <4>1, Smaller
      <4>3. Width(r) \in Nat /\ Width(Lower(r)) \in Nat /\ Width(Upper(r)) \in Nat
        BY <4>1, <4>2, Widths
      <4>4. /\ Width(Lower(r)) <= n - 1 /\ Width(Lower(r)) <= n
            /\ Width(Upper(r)) <= n - 1 /\ Width(Upper(r)) <= n
        BY <1>2, <4>1, <4>2, <4>3
      <4>5. /\ Lower(r) \in Narrow(words, n - 1) /\ Lower(r) \in Narrow(words, n)
            /\ Upper(r) \in Narrow(words, n - 1) /\ Upper(r) \in Narrow(words, n)
        BY <4>2, <4>4 DEF Narrow
      <4>6. h[Lower(r)] = g[Lower(r)] /\ h[Upper(r)] = g[Upper(r)]
        BY <2>2, <4>5 DEF Halves
      <4> HIDE DEF h
      <4> QED
        BY <4>6 DEF Half
    <3>3. r[1] >= r[2] \/ r[1] < r[2]
      BY Widths DEF Narrow
    <3> QED
      BY <3>1, <3>2, <3>3
  <2>4. Halves(words, w, Narrow(words, n), h)
    BY <2>3 DEF Halves
  <2> QED
    BY <2>4
<1> QED
  BY <1>3, <1>4

\* g, at a range outside which the words are smaller or greater than w, finds
\* it or finds that it is not there.
Finds(words, w, g, r) ==
  (/\ \A i \in 1..Len(words) : i <= r[1] => words[i] < w
   /\ \A i \in 1..Len(words) : i > r[2] => words[i] > w)
  => \/ g[r] = 0 /\ \A i \in 1..Len(words) : words[i] # w
     \/ g[r] \in 1..Len(words) /\ words[g[r]] = w

LEMMA HalvesFind ==
  ASSUME NEW words \in Seq(Int), NEW w \in Int,
         \A i, j \in 1..Len(words) : i < j => words[i] < words[j],
         NEW g, Halves(words, w, Ranges(words), g)
  PROVE  \A r \in Ranges(words) : Finds(words, w, g, r)
<1> DEFINE Bad == {n \in Nat : \E r \in Ranges(words) : Width(r) = n /\ ~Finds(words, w, g, r)}
<1>1. Len(words) \in Nat /\ \A i \in 1..Len(words) : words[i] \in Int
  BY LenProperties, ElementOfSeq
<1> SUFFICES ASSUME Bad # {} PROVE FALSE
  BY Widths
<1>2. PICK n \in Bad : \A m \in Bad : n <= m
  BY Least
<1>3. PICK r \in Ranges(words) : Width(r) = n /\ ~Finds(words, w, g, r)
  OBVIOUS
<1>4. g[r] = Half(words, w, g, r)
  BY DEF Halves
<1>5. /\ \A i \in 1..Len(words) : i <= r[1] => words[i] < w
      /\ \A i \in 1..Len(words) : i > r[2] => words[i] > w
  BY <1>3 DEF Finds
<1>6. r[1] < r[2]
  <2> SUFFICES ASSUME r[1] >= r[2] PROVE FALSE
    BY Widths
  <2>1. g[r] = 0
    BY <1>4 DEF Half
  <2>2. \A i \in 1..Len(words) : i <= r[1] \/ i > r[2]
    BY <1>1, Widths
  <2>3. \A i \in 1..Len(words) : words[i] # w
    BY <1>1, <1>5, <2>2
  <2> QED
    BY <1>3, <2>1, <2>3 DEF Finds
<1>7. /\ Lower(r) \in Ranges(words) /\ Width(Lower(r)) < Width(r)
      /\ Upper(r) \in Ranges(words) /\ Width(Upper(r)) < Width(r)
      /\ Middle(r) \in Int /\ Middle(r) + 1 \in 1..Len(words)
      /\ words[Middle(r) + 1] \in Int
  BY <1>6, Smaller
<1>8. ASSUME NEW s \in Ranges(words), Width(s) < Width(r) PROVE Finds(words, w, g, s)
  <2>1. Width(s) \in Nat /\ Width(r) \in Nat
    BY Widths
  <2>2. Width(s) \notin Bad
    BY <1>2, <1>3, <1>8, <2>1
  <2> QED
    BY <2>1, <2>2
<1>9. /\ Lower(r)[1] = r[1] /\ Lower(r)[2] = Middle(r)
      /\ Upper(r)[1] = Middle(r) + 1 /\ Upper(r)[2] = r[2]
  BY DEF Lower, Upper
<1>10. CASE w < words[Middle(r) + 1]
  <2>1. ASSUME NEW i \in 1..Len(words), i > Middle(r) PROVE words[i] > w
    <3>1. i = Middle(r) + 1 \/ Middle(r) + 1 < i
      BY <1>7, <2>1
    <3>2. words[i] = words[Middle(r) + 1] \/ words[Middle(r) + 1] < words[i]
      BY <3>1, <1>7
    <3> QED
      BY <3>2, <1>10, <1>1, <1>7
  <2>2. g[r] = g[Lower(r)]
    <3>1. ~(r[1] >= r[2]) /\ ~(w > words[Middle(r) + 1])
      BY <1>6, <1>7, <1>10, Widths
    <3> QED
      BY <1>4, <1>10, <3>1 DEF Half
  <2>3. Finds(words, w, g, Lower(r))
    BY <1>7, <1>8
  <2> QED
    BY <1>3, <1>5, <1>9, <2>1, <2>2, <2>3 DEF Finds
<1>11. CASE w > words[Middle(r) + 1]
  <2>1. ASSUME NEW i \in 1..Len(words), i <= Middle(r) + 1 PROVE words[i] < w
    <3>1. i = Middle(r) + 1 \/ i < Middle(r) + 1
      BY <1>7, <2>1
    <3>2. words[i] = words[Middle(r) + 1] \/ words[i] < words[Middle(r) + 1]
      BY <3>1, <1>7
    <3> QED
      BY <3>2, <1>11, <1>1, <1>7
  <2>2. g[r] = g[Upper(r)]
    <3>1. ~(r[1] >= r[2]) /\ ~(w < words[Middle(r) + 1])
      BY <1>6, <1>7, <1>11, Widths
    <3> QED
      BY <1>4, <1>11, <3>1 DEF Half
  <2>3. Finds(words, w, g, Upper(r))
    BY <1>7, <1>8
  <2> QED
    BY <1>3, <1>5, <1>9, <2>1, <2>2, <2>3 DEF Finds
<1>12. CASE words[Middle(r) + 1] = w
  <2>1. g[r] = Middle(r) + 1
    BY <1>4, <1>6, <1>7, <1>12, Widths DEF Half
  <2> QED
    BY <1>3, <1>7, <1>12, <2>1 DEF Finds
<1> QED
  BY <1>10, <1>11, <1>12, <1>7

\* bsearch() finds every word that is there, among words in order, and no
\* other one (lookup2.c, lookup5.c).
THEOREM Search ==
  ASSUME NEW words \in Seq(Int), NEW w \in Int,
         \A i, j \in 1..Len(words) : i < j => words[i] < words[j]
  PROVE  \/ BSearch(words, w) = 0 /\ \A i \in 1..Len(words) : words[i] # w
         \/ BSearch(words, w) \in 1..Len(words) /\ words[BSearch(words, w)] = w
<1>1. Len(words) \in Nat
  BY LenProperties
<1>2. Narrow(words, Len(words)) = Ranges(words)
  BY <1>1, Widths DEF Narrow
<1>3. \E g : Halves(words, w, Ranges(words), g)
  BY <1>1, <1>2, HalvesExist
<1> DEFINE g == CHOOSE g : Halves(words, w, Ranges(words), g)
           all == <<0, Len(words)>>
<1>4. Halves(words, w, Ranges(words), g)
  BY <1>3
<1>5. BSearch(words, w) = g[all]
  BY SearchIs
<1> HIDE DEF g
<1>6. all \in Ranges(words) /\ all[1] = 0 /\ all[2] = Len(words)
  BY <1>1 DEF Ranges
<1>7. Finds(words, w, g, all)
  BY <1>4, <1>6, HalvesFind
<1> HIDE DEF all
<1> QED
  BY <1>1, <1>5, <1>6, <1>7 DEF Finds

-----------------------------------------------------------------------------
(* The three searches, on a file of records.                               *)

\* A record for each listed word, with its definition, and no other.
IsFileOf(file, listed) ==
  /\ file \in Seq([word : listed, text : listed])
  /\ \A i \in 1..Len(file) : file[i].text = file[i].word
  /\ \A w \in listed : \E i \in 1..Len(file) : file[i].word = w
  /\ \A i, j \in 1..Len(file) : file[i].word = file[j].word => i = j

\* The types of a file's records.
LEMMA FileTypes ==
  ASSUME NEW listed, NEW file, IsFileOf(file, listed)
  PROVE  /\ Len(file) \in Nat
         /\ \A i \in 1..Len(file) : file[i].word \in listed /\ file[i].text = file[i].word
<1>1. file \in Seq([word : listed, text : listed])
  BY DEF IsFileOf
<1>2. Len(file) \in Nat
  BY <1>1, LenProperties
<1>3. ASSUME NEW i \in 1..Len(file) PROVE file[i].word \in listed
  <2>1. file[i] \in [word : listed, text : listed]
    BY <1>1, ElementOfSeq
  <2> QED
    BY <2>1
<1> QED
  BY <1>2, <1>3 DEF IsFileOf

\* How many entries belong before one in the index.
Rank(file, e) == Cardinality({d \in Entries(file) : d.word < e.word})

\* The entries are as many as they have words.
LEMMA EntriesDiffer ==
  ASSUME NEW listed, listed \subseteq Int, NEW file, IsFileOf(file, listed)
  PROVE  /\ IsFiniteSet(Entries(file)) /\ Cardinality(Entries(file)) \in Nat
         /\ \A e \in Entries(file) : /\ e.word \in Int /\ e.off \in 1..Len(file)
                                     /\ file[e.off].word = e.word
         /\ \A d, e \in Entries(file) : d.word = e.word => d = e
<1> DEFINE E == Entries(file)
           f == [i \in 1..Len(file) |-> [word |-> file[i].word, off |-> i]]
<1>1. Len(file) \in Nat /\ \A i \in 1..Len(file) : file[i].word \in Int
  BY FileTypes
<1>2. IsFiniteSet(1..Len(file))
  BY <1>1, FS_Interval
<1>3. f \in Surjection(1..Len(file), E)
  BY DEF Surjection, Entries
<1>4. IsFiniteSet(E) /\ Cardinality(E) \in Nat
  BY <1>2, <1>3, FS_Surjection, FS_CardinalityType
<1>5. ASSUME NEW e \in E
      PROVE  e.word \in Int /\ e.off \in 1..Len(file) /\ file[e.off].word = e.word
  BY <1>1 DEF Entries
<1>6. ASSUME NEW d \in E, NEW e \in E, d.word = e.word PROVE d = e
  <2>1. PICK i \in 1..Len(file) : d = [word |-> file[i].word, off |-> i]
    BY DEF Entries
  <2>2. PICK j \in 1..Len(file) : e = [word |-> file[j].word, off |-> j]
    BY DEF Entries
  <2>3. i = j
    BY <1>6, <2>1, <2>2 DEF IsFileOf
  <2> QED
    BY <2>1, <2>2, <2>3
<1> QED
  BY <1>4, <1>5, <1>6

\* What belongs before has a smaller rank.
LEMMA RankGrows ==
  ASSUME NEW listed, listed \subseteq Int, NEW file, IsFileOf(file, listed),
         NEW d \in Entries(file), NEW e \in Entries(file), d.word < e.word
  PROVE  Rank(file, d) < Rank(file, e)
<1> DEFINE E == Entries(file)
           Before(x) == {y \in E : y.word < x.word}
<1>1. IsFiniteSet(E) /\ \A x \in E : x.word \in Int
  BY EntriesDiffer
<1>2. IsFiniteSet(Before(d)) /\ IsFiniteSet(Before(e))
  BY <1>1, FS_Subset
<1>3. d \notin Before(d) /\ Before(d) \cup {d} \subseteq Before(e)
  BY <1>1
<1>4. Cardinality(Before(d) \cup {d}) = Cardinality(Before(d)) + 1
  BY <1>2, <1>3, FS_AddElement
<1>5. Cardinality(Before(d) \cup {d}) <= Cardinality(Before(e))
  BY <1>2, <1>3, FS_Subset
<1>6. Cardinality(Before(d)) \in Nat /\ Cardinality(Before(e)) \in Nat
  BY <1>2, FS_CardinalityType
<1> QED
  BY <1>4, <1>5, <1>6 DEF Rank

\* The ranks are those that there are: each entry has one of its own.
LEMMA Ranks ==
  ASSUME NEW listed, listed \subseteq Int, NEW file, IsFileOf(file, listed)
  PROVE  /\ \A e \in Entries(file) : Rank(file, e) \in 0..Cardinality(Entries(file)) - 1
         /\ \A d, e \in Entries(file) : Rank(file, d) = Rank(file, e) => d = e
         /\ \A k \in 0..Cardinality(Entries(file)) - 1 :
              \E e \in Entries(file) : Rank(file, e) = k
<1> DEFINE E == Entries(file)
           n == Cardinality(E)
           f == [e \in E |-> Rank(file, e)]
<1>1. IsFiniteSet(E) /\ n \in Nat /\ \A x \in E : x.word \in Int
  BY EntriesDiffer
<1>2. ASSUME NEW e \in E PROVE Rank(file, e) \in 0..n - 1
  <2> DEFINE B == {d \in E : d.word < e.word}
  <2>1. B \subseteq E \ {e}
    BY <1>1
  <2>2. IsFiniteSet(E \ {e}) /\ Cardinality(E \ {e}) = n - 1
    BY <1>1, FS_RemoveElement
  <2>3. IsFiniteSet(B) /\ Cardinality(B) <= n - 1
    BY <2>1, <2>2, FS_Subset
  <2>4. Cardinality(B) \in Nat
    BY <2>3, FS_CardinalityType
  <2> HIDE DEF n, E
  <2>5. Cardinality(B) \in 0..n - 1
    BY <1>1, <2>3, <2>4
  <2> QED
    BY <2>5 DEF Rank, E
<1>3. ASSUME NEW d \in E, NEW e \in E, Rank(file, d) = Rank(file, e) PROVE d = e
  <2>1. Rank(file, d) \in Int /\ Rank(file, e) \in Int
    BY <1>2
  <2>2. ~ (Rank(file, d) < Rank(file, e)) /\ ~ (Rank(file, e) < Rank(file, d))
    BY <1>3, <2>1
  <2>3. ~ (d.word < e.word)
    BY <2>2, RankGrows
  <2>4. ~ (e.word < d.word)
    BY <2>2, RankGrows
  <2>5. d.word = e.word
    BY <1>1, <2>3, <2>4
  <2> QED
    BY <2>5, EntriesDiffer
<1>4. f \in Injection(E, 0..n - 1)
  BY <1>2, <1>3 DEF Injection, IsInjective
<1>5. IsFiniteSet(0..n - 1) /\ Cardinality(0..n - 1) = n
  <2>1. ASSUME NEW m \in Nat PROVE IsFiniteSet(0..m - 1) /\ Cardinality(0..m - 1) = m
    BY FS_Interval
  <2> QED
    BY <1>1, <2>1
<1>6. f \in Surjection(E, 0..n - 1)
  BY <1>4, <1>5, FS_Injection
<1>7. \A k \in 0..n - 1 : \E e \in E : Rank(file, e) = k
  BY <1>6 DEF Surjection
<1> QED
  BY <1>2, <1>3, <1>7

\* The index has every entry, in the order of the words.
LEMMA Sorted ==
  ASSUME NEW listed, listed \subseteq Int, NEW file, IsFileOf(file, listed)
  PROVE  /\ Index(file) \in Seq(Entries(file))
         /\ \A e \in Entries(file) : \E k \in 1..Len(Index(file)) : Index(file)[k] = e
         /\ \A i, j \in 1..Len(Index(file)) :
              i < j => Index(file)[i].word < Index(file)[j].word
<1> DEFINE E == Entries(file)
           n == Cardinality(E)
           t == [k \in 1..n |-> CHOOSE e \in E : Rank(file, e) = k - 1]
<1>1. Index(file) = t
  BY DEF Index, Rank
<1>2. n \in Nat /\ \A e \in E : e.word \in Int
  BY EntriesDiffer
<1> HIDE DEF n
<1>3. ASSUME NEW k \in 1..n PROVE t[k] \in E /\ Rank(file, t[k]) = k - 1
  <2>1. k - 1 \in 0..n - 1
    BY <1>2
  <2>2. \E e \in E : Rank(file, e) = k - 1
    BY <2>1, Ranks DEF n
  <2> QED
    BY <2>2
<1>4. t \in Seq(E) /\ Len(t) = n
  <2>1. t \in [1..n -> E]
    BY <1>3
  <2> HIDE DEF t, E
  <2> QED
    BY <1>2, <2>1
<1> HIDE DEF t
<1>5. ASSUME NEW e \in E PROVE \E k \in 1..n : t[k] = e
  <2>1. Rank(file, e) \in 0..n - 1
    BY Ranks DEF n
  <2>2. Rank(file, e) + 1 \in 1..n /\ (Rank(file, e) + 1) - 1 = Rank(file, e)
    BY <1>2, <2>1
  <2>3. t[Rank(file, e) + 1] \in E /\ Rank(file, t[Rank(file, e) + 1]) = Rank(file, e)
    BY <1>3, <2>2
  <2>4. t[Rank(file, e) + 1] = e
    BY <2>3, Ranks
  <2> QED
    BY <2>2, <2>4
<1>6. ASSUME NEW i \in 1..n, NEW j \in 1..n, i < j PROVE t[i].word < t[j].word
  <2>1. t[i] \in E /\ t[j] \in E /\ Rank(file, t[i]) = i - 1 /\ Rank(file, t[j]) = j - 1
    BY <1>3
  <2>2. t[i].word # t[j].word
    <3>1. i - 1 # j - 1
      BY <1>2, <1>6
    <3>2. t[i] # t[j]
      BY <2>1, <3>1
    <3> QED
      BY <2>1, <3>2, EntriesDiffer
  <2>3. ~ (t[j].word < t[i].word)
    <3>1. ~ (j - 1 < i - 1)
      BY <1>2, <1>6
    <3>2. ~ (Rank(file, t[j]) < Rank(file, t[i]))
      BY <2>1, <3>1
    <3> QED
      BY <2>1, <3>2, RankGrows
  <2> QED
    BY <1>2, <2>1, <2>2, <2>3
<1> QED
  BY <1>1, <1>4, <1>5, <1>6

\* What a listed word's record has for a text; and any other word has none.
LEMMA Answers ==
  ASSUME NEW file, IsFileOf(file, Listed), NEW w \in Word
  PROVE  /\ \A i \in 1..Len(file) : file[i].word = w => file[i].text = Lookup(w)
         /\ (\A i \in 1..Len(file) : file[i].word # w) => XXXX = Lookup(w)
<1>1. \A i \in 1..Len(file) : file[i].word \in Listed /\ file[i].text = file[i].word
  BY FileTypes
<1>2. w \in Listed => \E i \in 1..Len(file) : file[i].word = w
  BY DEF IsFileOf
<1> QED
  BY <1>1, <1>2 DEF Lookup

\* lookup2.c finds every word in any file of records.
THEOREM IndexCorrect ==
  ASSUME NEW file, IsFileOf(file, Listed), NEW w \in Word
  PROVE  IndexFind(file, w) = Lookup(w)
<1> DEFINE table == Index(file)
           words == Words(table)
<1>0. Listed \subseteq Int /\ w \in Int
  BY DictionaryAssumption, SourceAssumption
<1>1. /\ table \in Seq(Entries(file)) /\ Len(table) \in Nat
      /\ \A e \in Entries(file) : \E k \in 1..Len(table) : table[k] = e
      /\ \A i, j \in 1..Len(table) : i < j => table[i].word < table[j].word
  BY <1>0, Sorted, LenProperties
<1>2. ASSUME NEW k \in 1..Len(table)
      PROVE  /\ table[k].word \in Int /\ table[k].off \in 1..Len(file)
             /\ file[table[k].off].word = table[k].word
  <2>1. table[k] \in Entries(file)
    BY <1>1, ElementOfSeq
  <2> QED
    BY <1>0, <2>1, EntriesDiffer
<1> HIDE DEF table
<1>3. words \in Seq(Int) /\ Len(words) = Len(table)
  <2>1. words \in [1..Len(table) -> Int]
    BY <1>2 DEF Words
  <2>2. Len(table) \in Nat
    BY <1>1
  <2> HIDE DEF words
  <2> QED
    BY <2>1, <2>2
<1>4. \A k \in 1..Len(table) : words[k] = table[k].word
  BY DEF Words
<1> HIDE DEF words
<1> DEFINE found == BSearch(words, w)
<1>5. \/ found = 0 /\ \A i \in 1..Len(words) : words[i] # w
      \/ found \in 1..Len(words) /\ words[found] = w
  BY <1>0, <1>1, <1>3, <1>4, Search
<1> HIDE DEF found
<1>6. IndexFind(file, w) = IF found = 0 THEN XXXX ELSE file[table[found].off].text
  BY DEF IndexFind, table, words, found
<1>7. CASE found = 0 /\ \A i \in 1..Len(words) : words[i] # w
  <2>1. ASSUME NEW i \in 1..Len(file) PROVE file[i].word # w
    <3> DEFINE e == [word |-> file[i].word, off |-> i]
    <3>1. e \in Entries(file)
      BY DEF Entries
    <3>2. PICK k \in 1..Len(table) : table[k] = e
      BY <1>1, <3>1
    <3>3. words[k] = file[i].word
      BY <1>4, <3>2
    <3> QED
      BY <1>3, <1>7, <3>3
  <2> QED
    BY <1>6, <1>7, <2>1, Answers
<1>8. CASE found \in 1..Len(words) /\ words[found] = w
  <2>1. found # 0
    BY <1>1, <1>3, <1>8
  <2>2. table[found].off \in 1..Len(file) /\ file[table[found].off].word = w
    BY <1>2, <1>3, <1>4, <1>8
  <2> QED
    BY <1>6, <2>1, <2>2, Answers
<1> QED
  BY <1>5, <1>7, <1>8

\* lookup5.c finds every word in a file of records whose words are in order.
THEOREM MapCorrect ==
  ASSUME NEW file, IsFileOf(file, Listed), InOrder(file), NEW w \in Word
  PROVE  MapFind(file, w) = Lookup(w)
<1> DEFINE words == Words(file)
<1>0. Listed \subseteq Int /\ w \in Int
  BY DictionaryAssumption, SourceAssumption
<1>1. Len(file) \in Nat /\ \A k \in 1..Len(file) : file[k].word \in Int
  BY <1>0, FileTypes
<1>2. words \in Seq(Int) /\ Len(words) = Len(file)
  <2>1. words \in [1..Len(file) -> Int]
    BY <1>1 DEF Words
  <2> HIDE DEF words
  <2> QED
    BY <1>1, <2>1
<1>3. \A k \in 1..Len(file) : words[k] = file[k].word
  BY DEF Words
<1> HIDE DEF words
<1> DEFINE found == BSearch(words, w)
<1>4. \/ found = 0 /\ \A i \in 1..Len(words) : words[i] # w
      \/ found \in 1..Len(words) /\ words[found] = w
  <2>1. \A i, j \in 1..Len(words) : i < j => words[i] < words[j]
    BY <1>2, <1>3 DEF InOrder
  <2> QED
    BY <1>0, <1>2, <2>1, Search
<1> HIDE DEF found
<1>5. MapFind(file, w) = IF found = 0 THEN XXXX ELSE file[found].text
  BY DEF MapFind, words, found
<1>6. CASE found = 0 /\ \A i \in 1..Len(words) : words[i] # w
  BY <1>2, <1>3, <1>5, <1>6, Answers
<1>7. CASE found \in 1..Len(words) /\ words[found] = w
  <2>1. found # 0
    BY <1>1, <1>2, <1>7
  <2> QED
    BY <1>2, <1>3, <1>5, <1>7, <2>1, Answers
<1> QED
  BY <1>4, <1>6, <1>7

\* lookup1.c finds every word in any file of records.
THEOREM LinearCorrect ==
  ASSUME NEW file, IsFileOf(file, Listed), NEW w \in Word
  PROVE  LinearFind(file, w) = Lookup(w)
<1> DEFINE hits == {i \in 1..Len(file) : file[i].word = w}
<1>1. LinearFind(file, w) = IF hits = {} THEN XXXX ELSE file[Min(hits)].text
  BY DEF LinearFind
<1>2. CASE hits = {}
  BY <1>1, <1>2, Answers
<1>3. CASE hits # {}
  <2>1. hits \subseteq Nat
    BY FileTypes
  <2>2. \E n \in hits : \A m \in hits : n <= m
    BY <1>3, <2>1, Least
  <2>3. Min(hits) \in hits
    BY <2>2 DEF Min
  <2> QED
    BY <1>1, <1>3, <2>3, Answers
<1> QED
  BY <1>2, <1>3
-----------------------------------------------------------------------------
(* convert.c: the lines of one definition.                                 *)

\* The recursion of FoldLeft, on a set D of sets of places in seq.
Joins(seq, D, g) ==
  g = [s \in D |-> IF s = {} THEN Empty ELSE Join(g[s \ {Max(s)}], seq[Max(s)])]

\* The definition, expanded.
LEMMA JoinIs ==
  \A seq : FoldLeft(Join, Empty, seq) =
            (CHOOSE g : Joins(seq, SUBSET DOMAIN seq, g))[DOMAIN seq]
  BY DEF FoldLeft, MapThenFoldSet, Joins

\* A set of places, and what is left of it without the last.
LEMMA LastPlace ==
  ASSUME NEW n \in Nat, NEW s \in SUBSET (1..n)
  PROVE  /\ IsFiniteSet(s) /\ Cardinality(s) \in Nat
         /\ Cardinality(s) = 0 <=> s = {}
         /\ s # {} => /\ Max(s) \in s
                      /\ Cardinality(s \ {Max(s)}) = Cardinality(s) - 1
<1>1. IsFiniteSet(1..n)
  BY FS_Interval
<1>2. IsFiniteSet(s)
  BY <1>1, FS_Subset
<1>3. Cardinality(s) \in Nat /\ (Cardinality(s) = 0 <=> s = {})
  BY <1>2, FS_CardinalityType, FS_EmptySet
<1>4. ASSUME s # {} PROVE Max(s) \in s
  <2> DEFINE T == {n - x : x \in s}
  <2>1. T \subseteq Nat /\ T # {}
    <3>1. ASSUME NEW x \in s PROVE n - x \in Nat
      <4>1. x \in 1..n
        OBVIOUS
      <4> QED
        BY <4>1
    <3> QED
      BY <1>4, <3>1
  <2>2. PICK k \in T : \A m \in T : k <= m
    BY <2>1, Least
  <2>3. PICK x \in s : k = n - x
    OBVIOUS
  <2>4. \A y \in s : n - x <= n - y
    BY <2>2, <2>3
  <2>5. \A y \in s : x >= y
    BY <2>4
  <2> QED
    BY <2>5 DEF Max
<1>5. ASSUME s # {} PROVE Cardinality(s \ {Max(s)}) = Cardinality(s) - 1
  BY <1>2, <1>4, <1>5, FS_RemoveElement
<1> QED
  BY <1>2, <1>3, <1>4, <1>5

\* Sets of k places at most, out of n.
Few(n, k) == {s \in SUBSET (1..n) : Cardinality(s) <= k}

\* There is such a function: on no places, and on one more each time.
LEMMA JoinsExist ==
  ASSUME NEW n \in Nat, NEW seq
  PROVE  \A k \in Nat : \E g : Joins(seq, Few(n, k), g)
<1> DEFINE Bad == {k \in Nat : ~ \E g : Joins(seq, Few(n, k), g)}
<1> SUFFICES ASSUME Bad # {} PROVE FALSE
  OBVIOUS
<1>1. PICK k \in Bad : \A m \in Bad : k <= m
  BY Least
<1>2. k \in Nat
  OBVIOUS
<1>3. CASE k = 0
  <2> DEFINE g == [s \in Few(n, 0) |-> Empty]
  <2>1. ASSUME NEW s \in Few(n, 0) PROVE s = {}
    <3>1. s \in SUBSET (1..n) /\ Cardinality(s) <= 0
      BY DEF Few
    <3>2. Cardinality(s) \in Nat /\ (Cardinality(s) = 0 <=> s = {})
      BY <3>1, LastPlace
    <3> QED
      BY <3>1, <3>2
  <2>2. Joins(seq, Few(n, 0), g)
    BY <2>1 DEF Joins
  <2> QED
    BY <1>3, <2>2
<1>4. CASE k # 0
  <2>1. k - 1 \in Nat /\ k - 1 \notin Bad
    BY <1>1, <1>4
  <2>2. PICK g : Joins(seq, Few(n, k - 1), g)
    BY <2>1
  <2> DEFINE next(s) == IF s = {} THEN Empty ELSE Join(g[s \ {Max(s)}], seq[Max(s)])
             h == [s \in Few(n, k) |-> next(s)]
  <2>3. ASSUME NEW s \in Few(n, k), s # {}
        PROVE  s \ {Max(s)} \in Few(n, k) /\ s \ {Max(s)} \in Few(n, k - 1)
    <3>1. s \in SUBSET (1..n) /\ Cardinality(s) <= k
      BY DEF Few
    <3>2. Cardinality(s) \in Nat /\ Cardinality(s \ {Max(s)}) = Cardinality(s) - 1
      BY <2>3, <3>1, LastPlace
    <3>3. s \ {Max(s)} \in SUBSET (1..n)
      BY <3>1
    <3>4. Cardinality(s \ {Max(s)}) <= k - 1 /\ Cardinality(s \ {Max(s)}) <= k
      BY <1>2, <3>1, <3>2
    <3> QED
      BY <3>3, <3>4 DEF Few
  <2>4. \A s \in Few(n, k - 1) : g[s] = next(s)
    BY <2>2 DEF Joins
  <2>5. \A s \in Few(n, k) : s # {} => h[s \ {Max(s)}] = g[s \ {Max(s)}]
    BY <2>3, <2>4
  <2>6. Joins(seq, Few(n, k), h)
    BY <2>5 DEF Joins
  <2> QED
    BY <2>6
<1> QED
  BY <1>3, <1>4

\* Lines that all belong to the definition w make up that definition.
LEMMA Joined ==
  ASSUME NEW n \in Nat \ {0}, NEW w \in Nat, NEW seq, DOMAIN seq = 1..n,
         \A i \in 1..n : seq[i] = w
  PROVE  FoldLeft(Join, Empty, seq) = w
<1>1. \E g : Joins(seq, SUBSET (1..n), g)
  <2>1. Few(n, n) = SUBSET (1..n)
    <3> SUFFICES ASSUME NEW s \in SUBSET (1..n) PROVE Cardinality(s) <= n
      BY DEF Few
    <3>1. IsFiniteSet(1..n) /\ Cardinality(1..n) = n
      BY FS_Interval
    <3>2. Cardinality(s) <= Cardinality(1..n)
      BY <3>1, FS_Subset
    <3> QED
      BY <3>1, <3>2
  <2>2. \E g : Joins(seq, Few(n, n), g)
    BY JoinsExist
  <2> QED
    BY <2>1, <2>2
<1> DEFINE g == CHOOSE g : Joins(seq, SUBSET (1..n), g)
<1>2. Joins(seq, SUBSET (1..n), g)
  BY <1>1
<1>3. FoldLeft(Join, Empty, seq) = g[1..n]
  BY JoinIs
<1> HIDE DEF g
<1> DEFINE Bad == {k \in Nat : \E s \in SUBSET (1..n) : Cardinality(s) = k /\ s # {} /\ g[s] # w}
<1>4. ASSUME Bad # {} PROVE FALSE
  <2>1. PICK k \in Bad : \A m \in Bad : k <= m
    BY <1>4, Least
  <2>2. PICK s \in SUBSET (1..n) : Cardinality(s) = k /\ s # {} /\ g[s] # w
    OBVIOUS
  <2> DEFINE r == s \ {Max(s)}
  <2>3. /\ k \in Nat \ {0} /\ Max(s) \in 1..n
        /\ r \in SUBSET (1..n) /\ Cardinality(r) = k - 1
    BY <2>2, LastPlace
  <2>4. g[s] = Join(g[r], seq[Max(s)]) /\ seq[Max(s)] = w
    BY <1>2, <2>2, <2>3 DEF Joins
  <2>5. r = {} => g[r] = Empty
    BY <1>2, <2>3 DEF Joins
  <2>6. r # {} => g[r] = w
    <3>1. k - 1 \in Nat /\ k - 1 \notin Bad
      BY <2>1, <2>3
    <3> QED
      BY <2>3, <3>1
  <2> HIDE DEF r
  <2>7. Join(g[r], seq[Max(s)]) = w
    BY <2>4, <2>5, <2>6 DEF Join
  <2> QED
    BY <2>2, <2>4, <2>7
<1>5. Cardinality(1..n) \in Nat /\ 1..n # {}
  <2>1. 1..n \in SUBSET (1..n) /\ 1 \in 1..n
    OBVIOUS
  <2> QED
    BY <2>1, LastPlace
<1> QED
  BY <1>3, <1>4, <1>5
-----------------------------------------------------------------------------
(* convert.c: the main loop.                                               *)

\* Where the article that begins at line i ends.
End(lines, i) ==
  Min({j \in i + 1..Len(lines) + 1 : j > Len(lines) \/ lines[j] = Blank})

\* The recursion of Convert, on a set D of lines.
Article(lines, g, i) ==
  IF i > Len(lines) THEN <<>>
  ELSE <<Record(lines[i], FoldLeft(Join, Empty, SubSeq(lines, i + 1, End(lines, i) - 1)))>>
       \o g[End(lines, i) + 1]
Articles(lines, D, g) == g = [i \in D |-> Article(lines, g, i)]

\* The definition, expanded.
LEMMA ConvertIs ==
  \A lines : Convert(lines) = (CHOOSE g : Articles(lines, 1..Len(lines) + 2, g))[1]
  BY DEF Convert, Articles, Article, End

\* Every article ends, at the first blank line or at the end of the file.
LEMMA Ending ==
  ASSUME NEW lines, Len(lines) \in Nat, NEW i \in 1..Len(lines)
  PROVE  /\ End(lines, i) \in i + 1..Len(lines) + 1
         /\ End(lines, i) <= Len(lines) => lines[End(lines, i)] = Blank
         /\ \A j \in i + 1..Len(lines) : j < End(lines, i) => lines[j] # Blank
<1> DEFINE T == {j \in i + 1..Len(lines) + 1 : j > Len(lines) \/ lines[j] = Blank}
<1>1. Len(lines) + 1 \in T /\ T \subseteq Nat
  OBVIOUS
<1>2. \E n \in T : \A m \in T : n <= m
  BY <1>1, Least
<1>3. Min(T) \in T /\ \A m \in T : Min(T) <= m
  BY <1>2 DEF Min
<1>4. End(lines, i) = Min(T)
  BY DEF End
<1>5. ASSUME NEW j \in i + 1..Len(lines), j < Min(T) PROVE lines[j] # Blank
  <2>1. j \notin T
    BY <1>1, <1>3, <1>5
  <2> QED
    BY <2>1
<1> QED
  BY <1>3, <1>4, <1>5

\* The last k lines, and one.
Behind(lines, k) == {i \in 1..Len(lines) + 2 : i + k >= Len(lines) + 2}

\* There is such a function: behind the end, and on one line more each time.
LEMMA ArticlesExist ==
  ASSUME NEW lines, Len(lines) \in Nat
  PROVE  \A k \in Nat : \E g : Articles(lines, Behind(lines, k), g)
<1> DEFINE Bad == {k \in Nat : ~ \E g : Articles(lines, Behind(lines, k), g)}
<1> SUFFICES ASSUME Bad # {} PROVE FALSE
  OBVIOUS
<1>1. PICK k \in Bad : \A m \in Bad : k <= m
  BY Least
<1>2. k \in Nat
  OBVIOUS
<1>3. CASE k = 0
  <2> DEFINE g == [i \in Behind(lines, 0) |-> <<>>]
  <2>1. \A i \in Behind(lines, 0) : i > Len(lines)
    BY DEF Behind
  <2>2. Articles(lines, Behind(lines, 0), g)
    BY <2>1 DEF Articles, Article
  <2> QED
    BY <1>3, <2>2
<1>4. CASE k # 0
  <2>1. k - 1 \in Nat /\ k - 1 \notin Bad
    BY <1>1, <1>4
  <2>2. PICK g : Articles(lines, Behind(lines, k - 1), g)
    BY <2>1
  <2> DEFINE h == [i \in Behind(lines, k) |-> Article(lines, g, i)]
  <2>3. ASSUME NEW i \in Behind(lines, k) PROVE Article(lines, h, i) = Article(lines, g, i)
    <3>1. CASE i > Len(lines)
      BY <3>1 DEF Article
    <3>2. CASE i \in 1..Len(lines)
      <4> DEFINE next == End(lines, i) + 1
      <4>1. End(lines, i) \in i + 1..Len(lines) + 1
        BY <3>2, Ending
      <4>2. i + k >= Len(lines) + 2
        BY DEF Behind
      <4>3. next \in Behind(lines, k - 1) /\ next \in Behind(lines, k)
        BY <1>2, <3>2, <4>1, <4>2 DEF Behind
      <4> HIDE DEF next
      <4>4. g[next] = Article(lines, g, next) /\ h[next] = Article(lines, g, next)
        BY <2>2, <4>3 DEF Articles
      <4> HIDE DEF h
      <4> QED
        BY <4>4 DEF Article, next
    <3>3. i > Len(lines) \/ i \in 1..Len(lines)
      BY DEF Behind
    <3> QED
      BY <3>1, <3>2, <3>3
  <2>4. Articles(lines, Behind(lines, k), h)
    BY <2>3 DEF Articles
  <2> QED
    BY <2>4
<1> QED
  BY <1>3, <1>4
\* A record more, of another word.
LEMMA OneMore ==
  ASSUME NEW listed, NEW file, IsFileOf(file, listed), NEW w, w \notin listed
  PROVE  IsFileOf(<<Record(w, w)>> \o file, listed \cup {w})
<1> DEFINE more == listed \cup {w}
           R == [word : more, text : more]
           new == <<Record(w, w)>> \o file
<1>1. /\ Len(file) \in Nat /\ file \in Seq(R)
      /\ \A i \in 1..Len(file) : file[i].word \in listed /\ file[i].text = file[i].word
  <2>1. file \in Seq([word : listed, text : listed])
    BY DEF IsFileOf
  <2>2. [word : listed, text : listed] \subseteq R
    OBVIOUS
  <2>3. file \in Seq(R)
    BY <2>1, <2>2, SeqMonotonic
  <2> QED
    BY <2>3, FileTypes
<1>2. <<Record(w, w)>> \in Seq(R) /\ Len(<<Record(w, w)>>) = 1
  BY DEF Record
<1> HIDE DEF R
<1>3. /\ new \in Seq(R) /\ Len(new) = 1 + Len(file)
      /\ \A i \in 1..1 + Len(file) :
           new[i] = IF i <= 1 THEN <<Record(w, w)>>[i] ELSE file[i - 1]
  BY <1>1, <1>2, ConcatProperties
<1>4. new[1] = Record(w, w) /\ Record(w, w).word = w /\ Record(w, w).text = w
  BY <1>1, <1>3 DEF Record
<1>5. \A i \in 1..Len(file) : i + 1 \in 1..Len(new) /\ new[i + 1] = file[i]
  BY <1>1, <1>3
<1>6. \A i \in 1..Len(new) : i # 1 => i - 1 \in 1..Len(file) /\ new[i] = file[i - 1]
  BY <1>1, <1>3
<1> HIDE DEF new
<1>7. \A i \in 1..Len(new) : new[i].text = new[i].word
  BY <1>1, <1>4, <1>6
<1>8. ASSUME NEW v \in more PROVE \E i \in 1..Len(new) : new[i].word = v
  <2>1. CASE v = w
    BY <1>1, <1>3, <1>4, <2>1
  <2>2. CASE v \in listed
    <3>1. PICK i \in 1..Len(file) : file[i].word = v
      BY <2>2 DEF IsFileOf
    <3> QED
      BY <1>5, <3>1
  <2> QED
    BY <2>1, <2>2
<1>9. ASSUME NEW i \in 1..Len(new), NEW j \in 1..Len(new), new[i].word = new[j].word
      PROVE  i = j
  <2>1. CASE i = 1 /\ j = 1
    BY <2>1
  <2>2. CASE i = 1 /\ j # 1
    BY <1>1, <1>4, <1>6, <1>9, <2>2
  <2>3. CASE i # 1 /\ j = 1
    BY <1>1, <1>4, <1>6, <1>9, <2>3
  <2>4. CASE i # 1 /\ j # 1
    <3>1. i - 1 \in 1..Len(file) /\ j - 1 \in 1..Len(file)
      BY <1>6, <2>4
    <3>2. file[i - 1].word = file[j - 1].word
      BY <1>6, <1>9, <2>4
    <3>3. i - 1 = j - 1
      BY <3>1, <3>2 DEF IsFileOf
    <3>4. i \in Int /\ j \in Int
      BY <1>1, <1>3
    <3> QED
      BY <3>3, <3>4
  <2> QED
    BY <2>1, <2>2, <2>3, <2>4
<1> QED
  BY <1>3, <1>7, <1>8, <1>9 DEF IsFileOf, new, R

\* The words of the articles from line i on.
WordsFrom(lines, i) == {lines[j] : j \in {j \in Heads(lines) : j >= i}}

\* An article is a record, and the words of the articles behind it are the
\* others.
LEMMA ArticleRecord ==
  ASSUME NEW lines, NEW listed, listed \subseteq Nat \ {Blank}, IsTextOf(lines, listed),
         lines \in Seq(Nat), NEW i \in Heads(lines)
  PROVE  LET next == End(lines, i) + 1
         IN  /\ FoldLeft(Join, Empty, SubSeq(lines, i + 1, End(lines, i) - 1)) = lines[i]
             /\ next \in i + 2..Len(lines) + 2
             /\ next > Len(lines) \/ next \in Heads(lines)
             /\ lines[i] \notin WordsFrom(lines, next)
             /\ WordsFrom(lines, i) = WordsFrom(lines, next) \cup {lines[i]}
<1> DEFINE n == Len(lines)
           end == End(lines, i)
           next == end + 1
<1>1. n \in Nat /\ i \in 1..n /\ lines \in [1..n -> Nat]
  BY LenProperties DEF Heads
<1>2. /\ end \in i + 1..n + 1
      /\ end <= n => lines[end] = Blank
      /\ \A j \in i + 1..n : j < end => lines[j] # Blank
  BY <1>1, Ending
<1>3. lines[i] \in Nat /\ lines[i] # Blank
  BY DEF IsTextOf
<1>4. i < n /\ lines[i + 1] # Blank
  BY DEF IsTextOf
<1> HIDE DEF n, end
<1>5. end - 1 \in i + 1..n
  <2>1. i + 1 <= n /\ end # i + 1
    BY <1>1, <1>2, <1>4
  <2> QED
    BY <1>1, <1>2, <2>1
<1>6. ASSUME NEW j \in i + 1..end - 1 PROVE j \in 1..n /\ lines[j] = lines[i]
  <2>1. j \in i..n /\ j < end
    BY <1>1, <1>2
  <2>2. \A k \in i..j : lines[k] # Blank
    BY <1>1, <1>2, <1>3, <2>1
  <2> QED
    BY <1>1, <2>1, <2>2 DEF IsTextOf, n
<1>7. FoldLeft(Join, Empty, SubSeq(lines, i + 1, end - 1)) = lines[i]
  <2> DEFINE sub == SubSeq(lines, i + 1, end - 1)
             m == (end - 1) - (i + 1) + 1
  <2>1. \A j \in i + 1..end - 1 : lines[j] \in Nat
    BY <1>3, <1>6
  <2>2. i + 1 \in Int /\ end - 1 \in Int /\ i + 1 <= end - 1
    BY <1>1, <1>2, <1>5
  <2>3. /\ sub \in Seq(Nat)
        /\ Len(sub) = IF i + 1 <= end - 1 THEN m ELSE 0
        /\ \A k \in 1..m : sub[k] = lines[i + 1 + k - 1]
    BY <2>1, <2>2, SubSeqProperties
  <2>4. m \in Nat \ {0} /\ DOMAIN sub = 1..m
    BY <2>2, <2>3, LenProperties
  <2>5. ASSUME NEW k \in 1..m PROVE sub[k] = lines[i]
    <3>1. i + 1 + k - 1 \in i + 1..end - 1
      BY <1>1, <1>2, <1>5
    <3> QED
      BY <1>6, <2>3, <3>1
  <2> HIDE DEF sub, m
  <2> QED
    BY <1>3, <2>4, <2>5, Joined DEF sub
<1>8. next \in i + 2..n + 2
  BY <1>1, <1>2, <1>5
<1>9. next > n \/ next \in Heads(lines)
  <2> SUFFICES ASSUME next <= n PROVE next \in Heads(lines)
    BY <1>1, <1>2
  <2>1. next \in 1..n /\ next - 1 = end /\ end <= n
    BY <1>1, <1>2
  <2> QED
    BY <1>2, <2>1 DEF Heads, n
<1>10. ASSUME NEW j \in Heads(lines), j >= i, j # i PROVE j >= next
  <2>1. j \in 1..n /\ (j = 1 \/ lines[j - 1] = Blank)
    BY DEF Heads, n
  <2>2. j - 1 \in i..n /\ lines[j - 1] = Blank
    BY <1>1, <1>10, <2>1
  <2>3. ~ (j - 1 < end)
    BY <1>1, <1>2, <1>3, <2>2
  <2> QED
    BY <1>1, <1>2, <2>1, <2>3
<1>11. \A j \in Heads(lines) : j >= next => j >= i /\ j # i
  BY <1>1, <1>8 DEF Heads, n
<1>12. lines[i] \notin WordsFrom(lines, next)
  BY <1>11 DEF WordsFrom, IsTextOf
<1>13. WordsFrom(lines, i) = WordsFrom(lines, next) \cup {lines[i]}
  <2>1. i >= i
    BY <1>1
  <2> QED
    BY <1>10, <1>11, <2>1 DEF WordsFrom
<1> QED
  BY <1>7, <1>8, <1>9, <1>12, <1>13 DEF n, end

\* The file that the servers are started with has a record for each listed
\* word, with its definition (convert.c).
THEOREM ConvertCorrect ==
  ASSUME SourceIsText
  PROVE  IsFileOf(File, Listed)
<1> DEFINE n == Len(Source)
           g == CHOOSE g : Articles(Source, 1..n + 2, g)
<1>1. n \in Nat \ {0} /\ Source \in Seq(Nat) /\ Listed \subseteq Nat \ {Blank}
  <2>1. Source \in Seq(Word \cup {Blank}) /\ Word \cup {Blank} \subseteq Nat
    BY SourceAssumption DEF Blank
  <2>2. Source \in Seq(Nat)
    BY <2>1, SeqMonotonic
  <2>3. n \in Nat \ {0}
    BY <2>2, SourceAssumption, EmptySeq
  <2> QED
    BY <2>2, <2>3, SourceAssumption, DictionaryAssumption
<1>2. Articles(Source, 1..n + 2, g)
  <2>1. Behind(Source, n + 1) = 1..n + 2
    BY <1>1 DEF Behind
  <2>2. \E h : Articles(Source, Behind(Source, n + 1), h)
    BY <1>1, ArticlesExist
  <2> QED
    BY <2>1, <2>2
<1>3. File = g[1]
  BY ConvertIs DEF File
<1> HIDE DEF g
<1> DEFINE Good(i) == IsFileOf(g[i], WordsFrom(Source, i))
           Wrong(i) == (i > n \/ i \in Heads(Source)) /\ ~Good(i)
           Bad == {k \in Nat : \E i \in 1..n + 2 : i + k = n + 2 /\ Wrong(i)}
<1> HIDE DEF Good, Wrong
<1>4. ASSUME Bad # {} PROVE FALSE
  <2>1. PICK k \in Bad : \A m \in Bad : k <= m
    BY <1>4, Least
  <2>2. PICK i \in 1..n + 2 : i + k = n + 2 /\ Wrong(i)
    OBVIOUS
  <2>3. g[i] = Article(Source, g, i)
    BY <1>2 DEF Articles
  <2>4. CASE i > n
    <3>1. g[i] = <<>>
      BY <2>3, <2>4 DEF Article
    <3>2. WordsFrom(Source, i) = {}
      BY <1>1, <2>4 DEF WordsFrom, Heads
    <3>3. IsFileOf(<<>>, {})
      BY EmptySeq DEF IsFileOf
    <3> QED
      BY <2>2, <3>1, <3>2, <3>3 DEF Good, Wrong
  <2>5. CASE i \in Heads(Source)
    <3> DEFINE next == End(Source, i) + 1
               text == FoldLeft(Join, Empty, SubSeq(Source, i + 1, End(Source, i) - 1))
    <3>1. /\ text = Source[i]
          /\ next \in i + 2..n + 2
          /\ next > n \/ next \in Heads(Source)
          /\ Source[i] \notin WordsFrom(Source, next)
          /\ WordsFrom(Source, i) = WordsFrom(Source, next) \cup {Source[i]}
      BY <1>1, <2>5, ArticleRecord DEF SourceIsText
    <3>2. ~ (i > n)
      BY <1>1, <2>5 DEF Heads
    <3>3. g[i] = <<Record(Source[i], text)>> \o g[next]
      BY <2>3, <3>2 DEF Article
    <3> HIDE DEF next, text
    <3>4. Good(next)
      <4> DEFINE m == n + 2 - next
      <4>1. m \in Nat /\ m < k /\ next + m = n + 2 /\ next \in 1..n + 2
        BY <1>1, <2>2, <3>1
      <4> HIDE DEF m
      <4>2. m \notin Bad
        <5>1. k \in Nat /\ ~ (k <= m)
          BY <4>1
        <5> QED
          BY <2>1, <5>1
      <4> QED
        BY <3>1, <4>1, <4>2 DEF Wrong
    <3>5. IsFileOf(<<Record(Source[i], Source[i])>> \o g[next],
                   WordsFrom(Source, next) \cup {Source[i]})
      BY <3>1, <3>4, OneMore DEF Good
    <3> QED
      BY <2>2, <3>1, <3>3, <3>5 DEF Good, Wrong
  <2> QED
    BY <2>2, <2>4, <2>5 DEF Wrong
<1>5. 1 \in Heads(Source) /\ 1 + (n + 1) = n + 2 /\ n + 1 \in Nat /\ 1 \in 1..n + 2
  BY <1>1 DEF Heads
<1>6. Good(1)
  BY <1>4, <1>5 DEF Wrong
<1>7. WordsFrom(Source, 1) = Listed
  BY <1>1 DEF WordsFrom, SourceIsText, IsTextOf, Heads
<1> QED
  BY <1>3, <1>6, <1>7 DEF Good

\* Whatever the text of the listed words, the servers' searches lead to the
\* answer for every word; lookup5.c where its words are in order.
THEOREM Searches ==
  ASSUME SourceIsText
  PROVE  \A w \in Word : /\ LinearFind(File, w) = Lookup(w)
                         /\ IndexFind(File, w) = Lookup(w)
                         /\ InOrder(File) => MapFind(File, w) = Lookup(w)
  BY ConvertCorrect, LinearCorrect, IndexCorrect, MapCorrect
-----------------------------------------------------------------------------
(* What the queue and the sockets carry arrives in order.                   *)

\* What is received is the first message; the others move up.
LEMMA Received ==
  ASSUME NEW S, NEW s \in Seq(S), s # <<>>
  PROVE  /\ Head(s) \in S /\ Tail(s) \in Seq(S) /\ Head(s) = s[1]
         /\ Len(s) \in Nat \ {0} /\ Len(Tail(s)) = Len(s) - 1
         /\ \A k \in 1..Len(Tail(s)) : Tail(s)[k] = s[k + 1]
  BY HeadTailProperties, LenProperties, EmptySeq

\* ... and where there is at most one, none is left.
LEMMA LastReceived ==
  ASSUME NEW S, NEW s \in Seq(S), s # <<>>, Len(s) <= 1
  PROVE  Tail(s) = <<>> /\ Len(Tail(s)) = 0
<1>1. /\ Tail(s) \in Seq(S) /\ Len(s) \in Nat \ {0}
      /\ Len(Tail(s)) = Len(s) - 1
  BY Received
<1>2. \A n \in Nat \ {0} : n <= 1 => n - 1 = 0
  OBVIOUS
<1>3. Len(Tail(s)) = 0
  BY <1>1, <1>2, Zenon
<1> QED
  BY <1>1, <1>3, EmptySeq, Zenon

\* What is sent comes last.
LEMMA Sent ==
  ASSUME NEW S, NEW s \in Seq(S), NEW m \in S
  PROVE  /\ Append(s, m) \in Seq(S) /\ Append(s, m) # <<>>
         /\ Len(s) \in Nat /\ Len(Append(s, m)) = Len(s) + 1
         /\ \A k \in 1..Len(s) : Append(s, m)[k] = s[k]
         /\ Append(s, m)[Len(s) + 1] = m
  BY AppendProperties, LenProperties
=============================================================================
