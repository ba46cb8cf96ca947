-------------------------------- MODULE Mymv --------------------------------
(***************************************************************************)
(* mymv (HW3, part 2) moves a file by copying it and removing the          *)
(* original: "mymv file1 file2" or "mymv file directory".  Several may run *)
(* at once, and each may be interrupted between any two system calls.      *)
(*                                                                         *)
(* The file system is external: names lead to files, a process keeps the   *)
(* file it has opened, a file without a name stays until it is closed.     *)
(* A file holds a sequence of blocks, of which read() takes at most two;   *)
(* the disk may fill up, then write() writes less or fails.                *)
(***************************************************************************)
EXTENDS Integers, Sequences

CONSTANTS
  Run,        \* the processes
  Word,       \* file names, in the working directory and in the other one
  Size        \* bound: blocks in a file

Path == {"cwd", "dir"} \X Word
None == <<"none">>
Hole == <<"hole", 0>>

ASSUME MymvAssumption == Size \in Nat /\ Run \cap Path = {} /\ None \notin Run

VARIABLES
  entry,      \* the file each name leads to; a file is named after its maker
  content,    \* the blocks of each file
  pc,         \* where each process is
  src, dst,   \* argv[1], and fileName: both as the names they mean
  fd1, fd2,   \* the files it has open
  off1, off2, \* how far it has read and written
  buf,        \* what it has read and not yet written
  before,     \* history: what the source held when it was opened
  agreed      \* history: the processes that may overwrite their destination

fsVars  == <<entry, content>>
runVars == <<pc, src, dst, fd1, fd2, off1, off2, buf>>
history == <<before, agreed>>
mvVars    == <<fsVars, runVars, history>>

\* Files that are there from the beginning, and those that a process makes.
File  == (Path \cup Run)
Block == (Path \X (1..Size)) \cup {Hole}

MvTypeOK ==
  /\ entry \in [Path -> File \cup {None}]
  /\ content \in [File -> Seq(Block)]
  /\ pc \in [Run -> {"start", "open", "test", "truncate", "create", "read", "write",
                     "remove", "done", "failed"}]
  /\ src \in [Run -> Path \cup {None}] /\ dst \in [Run -> Path \cup {None}]
  /\ fd1 \in [Run -> File \cup {None}] /\ fd2 \in [Run -> File \cup {None}]
  /\ off1 \in [Run -> 0..Size] /\ off2 \in [Run -> 0..Size]
  /\ buf \in [Run -> Seq(Block)] /\ before \in [Run -> Seq(Block)]
  /\ \A r \in Run : Len(buf[r]) <= 2
  /\ agreed \in SUBSET Run

\* Some of the names are there, each with a file of its own.
MvInit ==
  /\ \E there \in SUBSET Path, length \in [Path -> 0..Size] :
       /\ \A n \in Path \ there : length[n] = 0
       /\ entry = [n \in Path |-> IF n \in there THEN n ELSE None]
       /\ content = [f \in File |-> IF f \in Path THEN [k \in 1..length[f] |-> <<f, k>>] ELSE <<>>]
  /\ pc = [r \in Run |-> "start"]
  /\ src = [r \in Run |-> None] /\ dst = [r \in Run |-> None]
  /\ fd1 = [r \in Run |-> None] /\ fd2 = [r \in Run |-> None]
  /\ off1 = [r \in Run |-> 0] /\ off2 = [r \in Run |-> 0]
  /\ buf = [r \in Run |-> <<>>] /\ before = [r \in Run |-> <<>>]
  /\ agreed = {}

MvGoto(r, l) == pc' = [pc EXCEPT ![r] = l]
Fail(r)    == MvGoto(r, "failed")

\* fileName: the second argument, or the first one as it stands, seen from
\* the directory main() has changed to.
Target(w, absolute, isDir, to) ==
  IF ~isDir THEN <<"cwd", to>> ELSE IF absolute THEN <<"cwd", w>> ELSE <<"dir", w>>
-----------------------------------------------------------------------------
Start(r, w, absolute, isDir, to) ==
  /\ pc[r] = "start"
  /\ src' = [src EXCEPT ![r] = <<"cwd", w>>]
  /\ dst' = [dst EXCEPT ![r] = Target(w, absolute, isDir, to)]
  /\ MvGoto(r, "open")
  /\ UNCHANGED <<fsVars, fd1, fd2, off1, off2, buf, history>>

\* access() and open() of the source.
OpenSource(r) ==
  /\ pc[r] = "open"
  /\ IF entry[src[r]] = None
       THEN Fail(r) /\ UNCHANGED <<fd1, before>>
       ELSE /\ fd1' = [fd1 EXCEPT ![r] = entry[src[r]]]
            /\ before' = [before EXCEPT ![r] = content[entry[src[r]]]]
            /\ MvGoto(r, "test")
  /\ UNCHANGED <<fsVars, src, dst, fd2, off1, off2, buf, agreed>>

\* Mutant: the destination is opened without the question.
TestNotAsked(r) ==
  /\ pc[r] = "test"
  /\ MvGoto(r, "create")
  /\ UNCHANGED <<fsVars, src, dst, fd1, fd2, off1, off2, buf, history>>

\* access() of the destination; when it is there the user is asked.
Test(r) ==
  /\ pc[r] = "test"
  /\ IF entry[dst[r]] = None
       THEN MvGoto(r, "create") /\ UNCHANGED agreed
       ELSE \/ MvGoto(r, "truncate") /\ agreed' = agreed \cup {r}
            \/ Fail(r) /\ UNCHANGED agreed
  /\ UNCHANGED <<fsVars, src, dst, fd1, fd2, off1, off2, buf, before>>

\* open(O_WRONLY | O_TRUNC)
Truncate(r) ==
  /\ pc[r] = "truncate"
  /\ IF entry[dst[r]] = None
       THEN Fail(r) /\ UNCHANGED <<content, fd2>>
       ELSE /\ fd2' = [fd2 EXCEPT ![r] = entry[dst[r]]]
            /\ content' = [content EXCEPT ![entry[dst[r]]] = <<>>]
            /\ MvGoto(r, "read")
  /\ UNCHANGED <<entry, src, dst, fd1, off1, off2, buf, history>>

\* open(O_WRONLY | O_CREAT): a file that has come meanwhile is opened as it is.
Create(r) ==
  /\ pc[r] = "create"
  /\ entry' = [entry EXCEPT ![dst[r]] = IF @ = None THEN r ELSE @]
  /\ fd2' = [fd2 EXCEPT ![r] = entry'[dst[r]]]
  /\ MvGoto(r, "read")
  /\ UNCHANGED <<content, src, dst, fd1, off1, off2, buf, history>>

Least(a, b) == IF a < b THEN a ELSE b

\* Mutant: one block too few is read, and taken for the end.
ReadToLast(r) ==
  /\ pc[r] = "read"
  /\ LET file == content[fd1[r]]
         upto == Least(off1[r] + 2, Len(file) - 1)
     IN IF off1[r] < Len(file) - 1
          THEN /\ buf' = [buf EXCEPT ![r] = SubSeq(file, off1[r] + 1, upto)]
               /\ off1' = [off1 EXCEPT ![r] = upto]
               /\ MvGoto(r, "write")
          ELSE MvGoto(r, "remove") /\ UNCHANGED <<buf, off1>>
  /\ UNCHANGED <<fsVars, src, dst, fd1, fd2, off2, history>>

ReadFile(r) ==
  /\ pc[r] = "read"
  /\ LET file == content[fd1[r]]
         upto == Least(off1[r] + 2, Len(file))
     IN IF off1[r] < Len(file)
          THEN /\ buf' = [buf EXCEPT ![r] = SubSeq(file, off1[r] + 1, upto)]
               /\ off1' = [off1 EXCEPT ![r] = upto]
               /\ MvGoto(r, "write")
          ELSE MvGoto(r, "remove") /\ UNCHANGED <<buf, off1>>
  /\ UNCHANGED <<fsVars, src, dst, fd1, fd2, off2, history>>

\* The blocks after writing a chunk behind the first off.
Written(blocks, off, chunk) ==
  LET most == IF Len(blocks) > off + Len(chunk) THEN Len(blocks) ELSE off + Len(chunk)
  IN [k \in 1..most |-> IF k \in (off + 1)..(off + Len(chunk)) THEN chunk[k - off]
                        ELSE IF k <= Len(blocks) THEN blocks[k] ELSE Hole]

\* Only -1 is an error: what a short write leaves out is not written later.
WriteFile(r) ==
  /\ pc[r] = "write"
  /\ \/ /\ \E n \in 1..Len(buf[r]) :
             /\ content' = [content EXCEPT ![fd2[r]] =
                              Written(@, off2[r], SubSeq(buf[r], 1, n))]
             /\ off2' = [off2 EXCEPT ![r] = @ + n]
        /\ buf' = [buf EXCEPT ![r] = <<>>]
        /\ MvGoto(r, "read")
     \/ /\ Fail(r)
        /\ UNCHANGED <<content, off2, buf>>
  /\ UNCHANGED <<entry, src, dst, fd1, fd2, off1, history>>

\* chdir() back, and remove() of the name the source has been opened by.
Remove(r) ==
  /\ pc[r] = "remove"
  /\ IF entry[src[r]] = None
       THEN Fail(r) /\ UNCHANGED entry
       ELSE /\ entry' = [entry EXCEPT ![src[r]] = None]
            /\ MvGoto(r, "done")
  /\ UNCHANGED <<content, src, dst, fd1, fd2, off1, off2, buf, history>>

Kill(r) ==
  /\ pc[r] \notin {"start", "done", "failed"}
  /\ Fail(r)
  /\ UNCHANGED <<fsVars, src, dst, fd1, fd2, off1, off2, buf, history>>
-----------------------------------------------------------------------------
Step(r) ==
  \/ \E w, to \in Word, absolute, isDir \in BOOLEAN : Start(r, w, absolute, isDir, to)
  \/ OpenSource(r) \/ Test(r) \/ Truncate(r) \/ Create(r)
  \/ ReadFile(r) \/ WriteFile(r) \/ Remove(r) \/ Kill(r)

MvNext == \E r \in Run : Step(r)

MvSpec == MvInit /\ [][MvNext]_mvVars
-----------------------------------------------------------------------------
(* Properties.                                                             *)

Contains(n, blocks) == entry[n] # None /\ content[entry[n]] = blocks

\* The move of r is an ordinary one: its names are two, no other process uses
\* them, and every write() has taken all it was given.
Ordinary(r) ==
  /\ src[r] # dst[r]
  /\ \A q \in Run \ {r} : {src[q], dst[q]} \cap {src[r], dst[r]} \subseteq {None}
  /\ off2[r] + Len(buf[r]) = off1[r]

\* From the moment it has been opened the content of the source is to be
\* found under one of the two names, wherever the move is interrupted or
\* fails; and a move that has ended well is a renaming: the old name is gone
\* and the new one has all of it (mymv.c, copy and then remove).
NeverLost ==
  \A r \in Run : fd1[r] # None /\ Ordinary(r) =>
    \/ Contains(src[r], before[r]) /\ pc[r] # "done"
    \/ Contains(dst[r], before[r]) /\ (pc[r] = "done" => entry[src[r]] = None)

\* A file that was there before the moves is emptied or written only by a
\* process whose user has agreed to overwrite that name, whatever other moves
\* do between access() and open() (mymv.c, the question).  A file that
\* another move has just made can be written over unasked: open() creates
\* without O_EXCL.
AskedFirst ==
  [][\A n \in Path : content'[n] # content[n] =>
       \E r \in agreed : dst[r] = n /\ fd2'[r] = n]_mvVars
-----------------------------------------------------------------------------
(* Inductive invariant.                                                    *)

\* How far each process has got: with its names, with its files open.
CallInv ==
  \A r \in Run :
    /\ IF pc[r] = "start" THEN src[r] = None /\ dst[r] = None
                          ELSE src[r] \in Path /\ dst[r] \in Path
    /\ pc[r] \in {"start", "open"} => fd1[r] = None
    /\ pc[r] \in {"test", "truncate", "create", "read", "write", "remove", "done"} => fd1[r] # None
    /\ IF pc[r] \in {"read", "write", "remove", "done"} THEN fd2[r] # None
        ELSE pc[r] # "failed" => fd2[r] = None
    /\ fd2[r] = None => off1[r] = 0 /\ off2[r] = 0
    /\ pc[r] \notin {"write", "failed"} => buf[r] = <<>>

\* A name leads to its own file or to one that a move to it has made, and so
\* do the descriptors that were opened by it.
LedTo(n) == {n} \cup {q \in Run : dst[q] = n}

FileInv ==
  /\ \A n \in Path : entry[n] = None \/ entry[n] \in LedTo(n)
  /\ \A r \in Run : /\ fd1[r] = None \/ fd1[r] \in LedTo(src[r])
                    /\ fd2[r] = None \/ fd2[r] \in LedTo(dst[r])

\* The file of a process that has not made one yet is empty and not in use.
NewInv ==
  \A r \in Run : fd2[r] = None =>
    /\ content[r] = <<>>
    /\ \A n \in Path : entry[n] # r
    /\ \A q \in Run : fd2[q] # r

\* Who has an old file open for writing has asked; a process that creates
\* its destination does not find the old file there.
AskedInv ==
  \A r \in Run : /\ pc[r] = "truncate" \/ fd2[r] \in Path => r \in agreed
                 /\ pc[r] = "create" => entry[dst[r]] # dst[r]

\* No more is written than was read, and no file grows beyond the longest.
LengthInv ==
  /\ \A r \in Run : off2[r] + Len(buf[r]) <= off1[r]
  /\ \A f \in File : Len(content[f]) <= Size

\* An ordinary move: the source is as it was, and the destination has what
\* has been written, which is the beginning of it; buf comes next.
Copied(r) ==
  /\ entry[dst[r]] = fd2[r]
  /\ off1[r] <= Len(before[r])
  /\ Len(content[fd2[r]]) = off2[r]
  /\ \A k \in 1..off2[r] : content[fd2[r]][k] = before[r][k]
  /\ \A k \in 1..Len(buf[r]) : buf[r][k] = before[r][off2[r] + k]

Faithful(r) ==
  /\ fd1[r] = src[r] /\ content[src[r]] = before[r]
  /\ entry[src[r]] = IF pc[r] = "done" THEN None ELSE src[r]
  /\ pc[r] = "create" => entry[dst[r]] = None
  /\ pc[r] \in {"read", "write", "remove", "done"} => Copied(r)
  /\ pc[r] \in {"remove", "done"} => off1[r] = Len(before[r])

MoveInv == \A r \in Run : fd1[r] # None /\ Ordinary(r) => Faithful(r)

MvInv == MvTypeOK /\ CallInv /\ FileInv /\ NewInv /\ AskedInv /\ LengthInv /\ MoveInv
=============================================================================
