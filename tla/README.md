# Formal models of Network_System_Programming

The repository holds the homework of a course on network system programming
in C: small programs about processes, pipes, signals, System V and POSIX IPC
and sockets. This directory describes the concurrent ones in TLA+, checks them
with TLC on small instances and proves the central ones with TLAPS.

    tlc -workers 2 -config ShmExchange.cfg MCShmLookup
    tlapm ShmLookupProofs.tla

and so for `SharedStateProofs`, `ShellProofs`, `DictFileProofs`, `MsgqLookupProofs`,
`FifoLookupProofs`, `UdpLookupProofs` and `SockLookupProofs`.

Every run in the table below is one configuration of the same name. The
definitions carry the names of the functions and variables of the source.
`PROJECT.json` maps each of them to its lines and lists the hazards.

## 1. Inventory

The programs fall into four groups. Programs of different groups share no
state; within a group they interact as the last column says.

| part | source | state | operations | interaction |
|---|---|---|---|---|
| dictionary contract | `HW8/main.c`, `dict.h` | the word and text of one `Dictrec` | `lookup()`: FOUND, NOTFOUND, UNAVAIL | the same `main()` is linked with each transport |
| dictionary data | `HW2/part3/convert.c`, `lookup1.c`, `HW3/part3/lookup2.c`, `HW8/lookup5.c` | a file of records, an index of it or a map | convert a text; search through, by index, in the map | each server calls one of the searches |
| shared-memory dictionary | `HW8/shm_server.c`, `lookup6.c` | one shared record, two semaphores, the `SEM_UNDO` adjustments | grab, put word, alert, await, release, read text; wait, look up, notify | shared memory and semaphores |
| message-queue dictionary | `HW4/part4` | one queue for both directions | `msgsnd`, `msgrcv` by type (pid) | messages |
| named-pipe dictionary | `HW4/part3` | a well-known FIFO, a reply FIFO per client | open (a rendezvous), write, read, close, unlink | pipes |
| stream-socket dictionary | `HW9/part1`, `HW9/part2` | a backlog, a connection and a child per client | connect, accept, fork, write, read | connections |
| datagram dictionary | `HW9/part3` | datagrams on their way | `sendto`, `recvfrom` | an unreliable network |
| shared stack | `HW6/stack.c` | a buffer, an index, a named semaphore | `push`, `pop` by parent and child | shared memory under a semaphore |
| machine pool | `HW5/vm.c` | a group of three semaphores, six threads | `reserve`, `release`, spawn, join, cleanup | one `semop()` on all three |
| packet ring | `HW7/posix`, `HW7/systemv` | an unsynchronized ring, ids seen per block, a count | write in turn; wipe, poll, report | shared memory without a lock |
| shell, a line | `HW2/part2` (also in HW4), `HW1` | the vector of words, descriptors 0 and 1 | `is_background`, `redirect_in`, `redirect_out`, `pipe_and_exec` | each pass changes the array the next one reads |
| shell, builtins | `HW2/part2/builtin.c` (also in HW4) | the shell's directory, and its life | `echo`, `cd`, `builtin`, `pwd`, `id`, `hostname`, `exit` | `main()` calls them with the vector before any pass |
| shell, its processes | `HW4/part1`, `HW4/part2` | children, pipes, signal masks | fork, wait, pipe, dup, exec | signals, pipes, `waitpid` |
| mymv | `HW3/part2/mymv.c` | two open files, the offsets, the directory entries | open, truncate or create, copy, remove | several runs on one file system |

Not modelled: the
timer of HW4/part2 (`set_timer`, `stop_timer`), which reads the clock and prints;
`myls`, one process that prints what it reads; the programs of HW2/part1,
straight lines of system calls with output; the documents and build files.

What is hard to get right, by part, and the properties that say it:

* **Shared memory**: one semaphore is used in both directions; clients die
  with it taken; adjustments are applied at exit and run out.
  `Exclusion`, `MutexAvailable`, `AnswerReady`, `OnlyOnRequest`, `Answered`,
  and `ResultCorrect`, which fails.
* **Message queue**: the queue fills up from both sides, crashes leave messages,
  and pids are used again. `OnePlace`, `ImplementsService`, `Answered`.
* **Named pipes**: two blocking rendezvous in different orders, end of
  file, SIGPIPE. `FirstAnswerCorrect`, `AnswersInOrder`, `FirstAnswered`,
  `ServerSurvives`.
* **Sockets**: who has a connection open, and who notices its end; children no
  parent waits for. `InStep`, `ImplementsService`, `KidEnds`, `CallsReturn`. Datagrams:
  what the network does to them, and an address that is written over by each answer.
  `OneOnItsWay`, `ImplementsService`.
* **Stack**: waiting inside the semaphore; runs that are interrupted.
  `Exclusion`, `NothingLost`, `NeverSleepsInside`, `Finishes`.
* **Pool**: several resources at once, cleanup after the last use, or too early.
  `Conservation`, `GroupOutlivesThreads`, `Termination`.
* **Ring**: lapping, wiping, counting. `CountedOnce`, `NeverBack`, `ReportsInTime`.
* **Shell**: operators that cut words from each other, files that cannot be opened or
  made, pipe ends that stay
  open, an interrupt between fork and mask, builtins that look behind the
  vector. `StartsInOrder`, `OneChain`, `BuiltinsInShell`;
  `OnlyItsEnds`, `EndReaches`, `InterruptNotLost`.
* **mymv**: interruption and failure between copy and remove, and between test and
  open. `NeverLost`, `AskedFirst`.

## 2. Modules

    Dictionary ── LookupService            what lookup() promises
        │              ▲ INSTANCE LookupService WITH call <- ..., word <- ..., result <- ...
        ├── ShmLookup ── ShmLookupProofs   HW8
        └── DictFile ── DictFileProofs     convert.c, lookup1.c, lookup2.c, lookup5.c
              ├── MsgqLookup (implements)  HW4/part4, with lookup2.c
              ├── FifoLookup               HW4/part3, with lookup2.c
              ├── SockLookup (implements)  HW9/part1, part2, with lookup5.c
              └── UdpLookup  (implements)  HW9/part3, with lookup5.c
    MsgqLookupProofs, FifoLookupProofs, SockLookupProofs, UdpLookupProofs
                 each of its module and DictFileProofs
    SharedStack   HW6              ──┐
    VmPool        HW5              ──┼── SharedStateProofs
    PacketRing    HW7              ──┘
    ShellLine     HW1, HW2/part2   ──┐
    ShellJobs     HW4              ──┼── ShellProofs
    Mymv          HW3/part2        ──┘

The last six have names of their own for the parts of the specification
(`StackInit`, `PoolNext`, `RingSpec`, `LineSpec`, `JobsInv`, `MvTypeOK` and so on), so
that one module can hold the proofs about several of them.

Each `MC...` module only extends its module for TLC and gives data their
values: the table of `VmPool`, the text of the dictionary, the names of
`ShellLine`. The constants are parameters with a named assumption; those called
`Max...`, `Slots`, `Room` and `Size` are bounds of the model, the others are
values of the program.

**Dictionary, LookupService.** A word that has a record is `Listed`; its
definition is named by the word, so that a mixed-up answer shows. `Junk`
is a buffer no answer has been written to, or one half written. The service has
one call per client: `Ask`, `Reply` with the right answer, `Leave`. From a
client that has left nothing is expected any more (`Adrift`); the refinements use
this for clients whose server or datagrams are lost.

**DictFile.** The data behind `lookup()`. `Convert` is the loop of `convert.c`, from
the lines of a text to records; `LinearFind`, `IndexFind` and `MapFind` are the
searches of `lookup1.c`, `lookup2.c` and `lookup5.c`. The servers' models answer
with the search their program is linked with, on the file converted from `Source`,
while the properties compare with `Lookup`, which knows only the set of listed
words: a search that goes wrong is a wrong answer of the server. `SourceIsText` says
what a text must be for that: articles with one blank line between them, one
for each listed word. That the three searches then find the answer is proved for every text
(section 4), and `MCFifoLookup` has TLC evaluate it on every text of one to four of
five words, in any order for the index and in dictionary order for the map. Only
`ShmLookup` answers with `Lookup` itself, which keeps its proofs free of the search.

**ShmLookup** (`shm_server.c`, `lookup6.c`). One action per `semop()`; a
`strcpy()` that another process may see half done is a Begin step that leaves
`Junk` and an End step. `adj0`, `adj1` are the kernel's adjustments:
an operation that would take one out of range fails (ERANGE) and, as no result
is looked at, the program goes on as if it had not. `Quit`, `Kill`, `ServerStop`,
`ServerStart` are departures. `ended` remembers that the server has ended, or that a
client has whose undone adjustment others notice (`Disturbs`): on a semaphore at
zero the undo of its +2's is clamped away, and a client that takes back its own
request in time harms nobody.
`Spec` is without departures, `CrashSpec` with them.

**SharedStack** (`stack.c`). The write to the slot and the change of the
index are separate steps. `Interrupt` ends a run; `named` and `sem` survive
it, as the named semaphore does.

**MsgqLookup**. The kernel's list is kept as one sequence per
message type with the sum of bytes; `Send` and `ServerReply` wait for
room. A process may start with any pid that no living one has; `stale` is a
history of the pids whose owner was killed in `msgrcv()`, with an answer due.

**FifoLookup**. An opener that waits counts as a reader or writer
already; the side that arrives second moves the first one on. `Unlink` is the
"cleanup handler", which removes the well-known name at once. `Read` and
`AfterRead` follow the code in taking up to 480 bytes, that is a text or a
short answer with what comes behind it. `Kill` closes what a client has open.

**VmPool** (`vm.c`). A `semop()` that does not fit waits and is carried out at
some later moment at which it fits; the order of the waiting ones is not kept.
All error returns of `main()` are in the model. A machine may run for any time.

**PacketRing**. Segments are numbered, the name leads to one or none; this
covers the variant that creates the segment in the consumer (System V) and the
one that fails (POSIX). The consumer's counter is kept modulo the blocks;
`ConsumerOverflow` may happen at any poll and ends in `"undefined"`. Both programs
are given the same number of blocks.

**SockLookup**. The parent accepts, forks, closes; the child reads, answers, and
ends when a write kills it. `tcp` chooses between Internet and Unix
sockets, which differ in the first write to a closed peer. Any process
may die at any time. `nproc` is how many children, zombies included, there may be:
the `fork()` after that fails, and the parent ends with the connection it has
accepted.

**UdpLookup**. Requests and replies are bags; `Lose` and `Duplicate` are the
network's. `server` is the client's address of the server, over which `recvfrom()`
writes the sender's, as many bytes of it as the uninitialised `siz` has room for: any
number in `Receive`. The server's host may have several addresses (`Home`), of which a client asks
one and is answered from one, the same or not, as the host's routes have it. What is sent
to an address that is not the host's gets no answer; `astray` is a history of the clients
that have sent such a datagram. `Excused` says who is promised nothing any more.

**ShellLine**. `Main` looks for the first word among the builtins; each of them is
an action on the line as it was typed, operators included, and `Stray` is the
choice between the outcomes of an access outside the vector. `version` chooses the
shell: that of HW1 has fewer builtins and knows no operator but "&". For other lines, the
array of words with its NULLs; each pass is an action, and `pipe_and_exec` a
step per recursion. The meaning the properties compare with is defined from the
places of the operators alone. `Readable` and `Writable` are the names that
`open()` can open and `creat()` can make: neither result is looked at, and where the
call fails `dup2()` fails as well and the descriptor stays as it was.

**ShellJobs**. A process is a pair of line and place. `rd` and `wr` hold, for each
pipe, the processes that have an end of it open, through fork and dup. Commands
are external: they read and write one unit at a time.

**Mymv**. Names lead to files, descriptors keep them. The disk may fill up, so a
write may be short or fail. `agreed` is a history of the runs whose user has
agreed to overwrite.

## 3. Runs

| run | instance | states | shows |
|---|---|---|---|
| `ShmExchange` | 2 clients, 2 words, 2 questions each, SEMVMX 5 | 0.5 million | exclusion survives every client's end; as long as no end disturbs an exchange the handshake gives each client its answer until the adjustment is used up |
| `ShmRelease` | 2 clients, 1 question each, nobody leaves | (violation) | a client prints another client's answer |
| `StackRun` | 2 processes, 3 slots, any number of runs | 2 thousand | nothing lost; nobody has to wait inside the semaphore |
| `MsgqQueue` | 3 clients, 2 pids, 3 questions, room for one request and one reply | 0.5 million | implements the service; calls return; a pid used again is harmless unless its owner was killed in `msgrcv()` |
| `FifoOrder` | 2 clients, 2 questions each, 4 words of which 3 are listed | 0.8 million | answers in order; first questions are answered, and right, and do not end the server; the three searches agree |
| `VmPool` | the table and totals of `vm.c` | 13 thousand | never more in use than there is, whatever fails; cleanup after the last use; termination |
| `RingCount` | 3 blocks, 7 packets | 2 thousand | counts and ids; the report of a consumer that is in time |
| `SockDialog` | 2 clients, 2 questions, backlog 1, both kinds of socket, both limits of processes | 0.4 million | implements the service, with liveness, whoever else dies; no call hangs |
| `UdpDatagrams` | 2 clients, 2 questions, 3 words, 3 equal datagrams, 2 addresses of the server | 0.5 million | the same where no datagram is lost or doubled, nor sent to a mixed address |
| `LineMeaning` | 38,716 lines: up to 5 words over 2 names and 4 operators, up to 4 over 9 names; both shells | 0.4 million | commands started, their order and connections, with files that can be opened or made and others; what a builtin does |
| `JobsPipeline` | 2 lines of up to 3 commands, 4 processes | 80 thousand | pipe ends, end of input, early interrupts |
| `MvMove` | 2 processes, 2 names in 2 directories, files of 2 blocks | 1 million | an ordinary move never loses its file; no file is emptied unasked |

**Bounds.** Two clients are the least for an answer to go astray, and two
questions the least for one to be left over from an earlier question. A third client
and two pids let a pid be used again while the other one is busy. The dictionary
of `FifoOrder` has three records and that of `UdpDatagrams` two, so the binary search goes to
both sides and misses. Addresses have two bytes, so that half of each makes one that is
neither; one client is answered from the address it asks, the other one is not. Of the
two names of the longer lines in `LineMeaning` one is a directory, which `open()` opens and
`creat()` does not, the other has no file yet, where it is the other way round. SEMVMX is
odd as 32767 is and small enough to be used up within the run. The queue
holds one request (136 bytes) and one reply (488), the least at which a full
queue does not block everybody. The stack's size and number of processes, and the
pool's table, are the program's own. Seven packets on three blocks lap the
ring twice and leave a remainder. Three commands have a middle one, which has
both a pipe to read and one to write; four processes for two such lines let every
`fork()` fail. `read()` takes at most two blocks at once in `Mymv`, so files of two
blocks are copied in one or two rounds, and short writes are met.
Type invariants are checked where the run lists them; those of all components are
proved.

**Fairness.** Weak fairness for every process that can go on, because the
scheduler runs every runnable process; none for what users do (`Ask`,
`Quit`), for deaths or for commands that may run for ever. `ShmLookup` has
strong fairness for `Grab`: the kernel serves semaphore waiters in order. In
`VmPool`, `MsgqLookup` and `SharedStack` weak fairness is enough, because each
competitor takes the resource a bounded number of times. The network of
`UdpLookup` delivers what it does not lose.

**Deadlock** is checked in `ShmRelease`, `StackRun`, `SockDialog` and
`LineMeaning`. The other systems really stop: `VmPool`, `PacketRing` and `Mymv`
end; `FifoLookup`, `MsgqLookup` (after a crash), `UdpLookup` (a lost
datagram) and `ShmLookup` (with departures) have states in which everybody waits;
`ShellJobs` ends with its last line.

## 4. Proofs

The theorems hold for every value of the constants that the named assumptions
of the modules allow: any set of clients, any words, any number of questions,
any size of queue, ring, stack or table. The assumptions say that sizes are natural
numbers and that a value that stands for "none" is not one of the others
(`Junk` no pid, `None` no client or process); those with more to them are named below. Each
inductive invariant was checked by TLC on the instance of its run first.

**ShmLookupProofs** assumes an odd `SEMVMX` from 2 on (`ShmAssumption`,
`ParityAssumption`; it is 32767).

* `Invariance`: `Spec => []Inv`. `AnswerReady` is not inductive. What makes it so
  is that the server's adjustment counts its decrements, so that its
  parity is that of semaphore 1 (`ServerInv`): at 0 or 2 the server is at
  `wait`, at 1 it is at work. A positive value has a client at
  `await` whose word is in the record (`RequestInv`), of which there is only one
  (`MutexInv`, `OneInside`); its word is then followed through
  the lookup into the text (`TextInv`).
* `CrashInvariance`: `CrashSpec => []CrashInv`. With departures the part about
  semaphore 0 (`DepartInv`) is kept until the server stops, and all of
  `Inv` until an end disturbs an exchange. A client's exit keeps `DepartInv` because
  its adjustment of semaphore 0 is 1 exactly while it is inside; one that is not
  `Disturbs` keeps the rest (`ExitKeepsRest`): semaphore 1 is then 0, before and
  after, or 2 from the client's own alert, which goes to 0 with it.
* `MutexAvailableAlways` needs a part that also survives the restart (`UnitsInv`):
  semaphore 0 and the clients inside make one unit, or two after SETALL with a
  client inside. SETALL clears that client's adjustment, so it ends at -1 after the
  client's release, and its exit takes the unit too many away. There is
  one such client at most (`Short`), as the model's server restarts once: with a
  second restart there would be another.
* `ExclusionAlways`, `AnswerReadyAlways`, `ServerOnlyOnRequest`: the other properties
  of the run `ShmExchange`. `TypeCorrect` includes the range of every adjustment
  under ERANGE and the clamping at exit.

**SharedStateProofs** on the stack takes any finite set of processes not larger than the
number of slots (`StackAssumption`; the code has two processes and three slots).

* `StackInvariance`: `StackSpec => []StackInv`. The index is the number of processes that are
  `Ahead`, that is, have raised it and not yet lowered it, and from the index on
  the slots are empty except for the one that is being filled or cleared
  (`ShapeInv`). This needs `Exclusion`, which needs that a holder keeps the
  semaphore at zero (`LockInv`), not that it is free otherwise, and so survives
  interrupted runs.
* `NoSleepInside`: a process that pushes is not `Ahead`, so the index is below the
  number of processes; one that pops is, so the index is above zero.
* `NothingLostAlways`: the slots in use, with the one being filled or
  read, hold exactly the characters that were written and not returned, each in one
  slot (`ContentInv`). When nobody is inside these are the slots below the index and
  the characters pushed. `StackTypeCorrect` bounds index and semaphore.

**SharedStateProofs** on the pool holds for any number of threads, kinds of resource and
table whose requests are positive and fit in the totals (`VmAssumption`).

* `Sums`: what a sum over the running machines is when one starts or ends.
* `PoolInvariance`: the totals are conserved while `main()` starts and joins, not
  exceeded while the group exists, and the machines never hold more than the whole, also
  when an error of `main()` has removed the group under them (`HeldInv`);
  threads start in order (`StartInv`) and all have ended
  when the group is removed, unless one could not be created (`EndInv`).
* `ConservationAlways`, `GroupOutlives`, `PoolTypeCorrect`.

**SharedStateProofs** on the ring holds for any number of blocks and packets and any
moment at which the two programs start.

* `RingInvariance`: a block the consumer has wiped holds -1 or a packet that
  belongs there (`ReadyInv`), none less than what it has seen in it (`WatchInv`), and
  of the packets of a block none beyond `id_check` has been counted (`SeenInv`).
  A changed id is therefore a packet not yet counted.
* `CountedOnceAlways`, `NeverGoesBack` (an action property), `RingTypeCorrect`.

**DictFileProofs**: what the data's definitions compute for every text.

* `Search`: `bsearch()` finds a word among any words in order exactly if it is there.
* `ConvertCorrect`: under `SourceIsText` the converted file has one record for
  each listed word, with its whole definition.
* `IndexCorrect`, `MapCorrect`, `LinearCorrect`, and from them `Searches`: the three
  searches give `Lookup` for every word; the map where `InOrder(File)`, as the
  comment at `lookup5.c:3-4` assumes. That the index's choice by rank is a sorted
  array is part of the first.

The library's induction theorems take an operator, which no prover here can
instantiate. The proofs go by the least counterexample instead: a set of
numbers that is not empty has a least one (`Least`, from `WFMin` of the library),
and the least one for which something fails contradicts the step. The existence of the
recursive functions, without which their equations say nothing, is shown in the same
way, by functions on longer and longer parts of their domain.

**MsgqLookupProofs**: `Spec` has departures, restarts and pids that are used again.

* `Invariance`: `OnePlace` speaks of living clients only; the invariant has to speak
  of pids (`PlaceInv`): under a pid that is not stale there is one lookup at most,
  in one place, and a living process waits for it. Pids of living processes differ
  (`PidInv`), so that a new process with that pid finds nothing of an older one;
  `WordInv` follows the word. `BytesInv` says that `msg_cbytes` counts
  what is in the queue, so that it is never negative nor above the limit.
* `OnePlaceAlways`; `TypeCorrect` and `Implements` (`Spec => ImplementsService`)
  under `SourceIsText`, which is where what the server finds becomes the answer. Every
  step is a step of the service or a stutter.

**UdpLookupProofs** and **SockLookupProofs** suppose `SourceIsText` and
`InOrder(File)`: the search decides what is sent. That the addresses a client asks and is
answered from are the host's is `UdpAssumption`.

* Datagrams: `OneOnItsWayAlways`, inductive with the types and a word for everybody who
  has asked (`AskedInv`); the network may reorder, lose and duplicate. The refinement
  also needs that a client answered from the address it asks keeps it (`AddressInv`):
  overwriting the first bytes of an address with its own changes nothing
  (`Overwritten`).
* Sockets: `InStepAlways`. `InStep` is about a connection and its child, and
  becomes inductive with the places of a connection: in the backlog once, then with
  the parent, then with a child (`QueueInv`), so that a client whose child has not died
  has one or will have one (`LinkInv`); `RecordInv` says that the one record on its way
  is about the client's word. It holds for both kinds of socket, every backlog and
  every limit of processes.
* `Implements` of each: `Spec => Service!Spec`, the safety part of `ImplementsService`.
  Its other part, that the service answers, is fairness and stays with TLC.

**FifoLookupProofs** supposes `SourceIsText`, and takes any number of clients and
questions, whoever is killed.

* `Invariance`. What a client reads depends on a chain of four: its calls (`CallInv`,
  which also says who has the well-known FIFO open), the requests in that FIFO and the
  one the server holds (`RequestInv`), the answers in the client's own FIFO
  (`ReplyInv`). Each is in the order of the client's questions, and while a request is
  in the FIFO or with the server nothing of that question or a later one has come to
  the reply FIFO (`Ahead`). The read of a closed FIFO gives no answer and
  leaves the order as it was (`AfterReadIs`).
* `AnswersInOrderAlways`, an action property, follows from it for every question.
* `FirstAnswerAlways` needs where the first exchange is (`FirstInv`): until it is read
  the request is in the FIFO or the server is about to open for it (`OnItsWay`), and
  the FIFO of a client that has asked nothing before is empty. For a second question
  this is false, which is why the property stops at the first.
* `ServerSurvivesAlways`: while nobody is killed or asks twice (`Polite`), the client
  whose request is being answered is at its `read()` when the server writes, and the
  server never opens for a request it does not have (`ServerInv`); at an empty FIFO
  without writers it cannot be without a request, because somebody is on the way to
  write one.

**ShellProofs** on a command line takes any set of lines of tokens of any length, any
names, and any table of builtins (`LineAssumption`: the names of builtins and
directories are names, files have any words as names, `creat()` makes no directory, a line is
not empty, NULL is no word).

* `LineInvariance`. The properties compare what the shell starts with the places of
  the operators in the line; the invariant relates the array to the line at each call:
  from the present segment on it is the line, with NULL in place of the first operator
  that a pass has found (`VectorInv`), descriptors 0 and 1 are what the operators
  passed so far say, as far as their files could be opened or made (`RedirectInv`),
  and as many commands have been started as
  there are bars behind the process that goes on, each with its segment and its ends
  (`ChainInv`). Segments are numbered by counting bars, so the proof needs that the
  bar with n bars before it is the next one after the n-th (`NthBar`, from `LeastOf`
  and the cardinality of finite sets).
* `StartsInOrderAlways`, `OneChainAlways`, `BuiltinsInShellAlways`, `LineTypeCorrect`. The
  accesses of `echo` and `builtin` outside the vector are part of the third.

**ShellProofs** on jobs takes any number of lines, commands on a line and processes,
and pipes of any size (`JobsAssumption`).

* `JobsInvariance`. `OnlyItsEnds` is about commands that run; the invariant says which
  ends a process may have open at every place of `pipe_command.c` before that
  (`EndsInv` with `MayRead` and `MayWrite`): a child of the pipeline has its parent's two
  pipes until it has closed what is not its own. That nothing older is open in its
  place needs that a pipeline is set up from left to right (`OrderInv`) and that only a
  process with a command behind it makes a pipe (`SizeInv`).
* `OnlyItsEndsAlways`, whichever forks fail and whoever is interrupted; `JobsTypeCorrect`.

**ShellProofs** on mymv takes any names, any number of processes and files of any
length (`MymvAssumption`: a process, which names the file it makes, is no path).

* `MvInvariance`. `Ordinary` moves share no name with another one, but the file system is
  shared by all: a name leads to its own file or to one that a move to that name has
  made, and so do the descriptors (`FileInv`); the file a process will make is empty and
  unused (`NewInv`); who has an old file open for writing has asked (`AskedInv`). For an
  ordinary move the source is as it was when it was opened, and the destination followed
  by the buffer is the beginning of it (`MoveInv`, with `Copied`); at `remove()` it is all
  of it.
* `NeverLostAlways`: at every moment one of the two names has the content, and a move that
  has ended well is a renaming. `AskedFirstAlways` (an action property) holds for
  every move, ordinary or not. `MvTypeCorrect`.

The proofs have one lemma for each action (or group of actions that disturb the
same conjuncts), one step for each in the induction, and PTL at the end. They also
served the models: where two guards of a CASE could hold at once, TLC takes the first
one and the provers may not, and such definitions now say which one is meant.

Every safety invariant and every action property that a passing run checks is proved.
Only model-checked: the liveness properties (`Answered`, `Finishes`, `FirstAnswered`,
`Termination`, `ReportsInTime`, `KidEnds`, `CallsReturn`, `EndReaches`,
`InterruptNotLost`), because fairness and ENABLED are beyond the prover, also where a
refinement promises them; and `ResultCorrect`, which is false.

## 5. Where the code does not do what it says

The run `ShmRelease` shows the first; the others are met in the models, and
the properties are stated so that they do not depend on them.

* `lookup6.c:68` releases semaphore 0 before the text is read at 70-71. Against
  `shm_server.c:55-56` a client can return another client's answer.
* `lookup6.c:62`: alert has SEM_UNDO, so a client that exits, even normally,
  takes 2 per lookup off semaphore 1; when another client has just raised it the
  request disappears. The properties hold for all exits but those (`Disturbs`).
* `shm_server.c:108`: the server's adjustment grows by 2 per lookup; at 32767,
  after 16383 lookups, the notification fails with ERANGE and the waiting client
  stays.
* `shm_server.c:79`: a restarted server sets both semaphores, so a client that is
  inside may be joined by another one.
* `stack.c:61`: `sem_open` with O_CREAT gives the value 1 only to a new name; an
  interrupted run may leave 0 behind, and the next one waits for ever.
* `vm.c:265`: requests that fit overtake larger ones that wait, against "first come,
  first served" (`vm.c:11`). If a thread cannot be created (`vm.c:152`)
  the group is removed while others use it: the running machines lose it and those that
  wait never run.
* `msgq_server.c:79`: with the queue full of requests server and clients wait for
  each other. `lookup4.c:57`: a killed client's reply is read by the next process
  with its pid; `ImplementsService` holds for every other one.
* `fifo_server.c:54,78` and `lookup3.c:71`: a client that asks again before the server
  has closed its reply FIFO reads the end of file (and returns an
  uninitialised buffer), and the server then waits for it in `open()` for ever, the
  "deadly embrace" of `lookup3.c:8-9`. `lookup3.c:55` removes the well-known
  FIFO when the first client connects. A client that leaves early ends the server
  by SIGPIPE (`fifo_server.c:65`).
* `consumer.c:61-79`: a consumer that starts after the last packet, or wipes it,
  polls for ever; the counter overflows after 2^31 polls.
* `lookup7.c:57`: `read()` unchecked; after the server's death the previous text is
  returned as the new word's definition. The children of the socket servers are
  never waited for, and the `fork()` that fails ends the server; a client that has
  been accepted then, or waits in the backlog, gets the end of the connection
  (`CallsReturn`).
* `lookup9.c:68`: no timeout and no sequence number; a lost datagram blocks
  the client, a duplicated one answers its next question. `lookup9.c:66-68`: `siz` is
  uninitialised and `server` is written over with as much of the sender's address as it
  has room for; where the host answers from another of its addresses the next question
  may go to a mixture of the two, and be lost.
* `builtin.c:76`: `echo` with fewer than two words takes `atoi()` of NULL, or of what
  is behind the array; `echo -n 5 a` prints what is behind it; `builtin` alone
  compares with NULL. A builtin ignores redirections, bars and "&": `echo a > f`
  prints `a > f`. `-n` prints one word and the newline; the comment at
  `builtin.c:24` says that it leaves out the newline.
* `is_background.c:22`: an "&" anywhere puts the line in the background and
  hides what follows; `redirect_in.c:41-44` removes everything behind "<", so
  `a < f | b` starts only `a`. `redirect_in.c` and `redirect_out.c:37-39` do not look at
  the results of `open()` and `creat()`: the command then runs with the shell's own input or
  output. `chmod()` is called even so and makes the name 0664, which takes the execute
  permission from a directory behind ">" (not in the model); the mode given to
  `creat()` is made of flags of `open()`.
* `mymv.c:86,97,109`: a file moved to another name of itself is emptied; two
  moves can take one destination; a short write is not noticed.

## 6. Plan

In order of importance. Done: all modules of section 2, their runs, and the
proofs of section 4.

1. Proofs: the safety side is complete. Left are the steps of the liveness arguments
   that are safety, such as that a measure of the work left never rises.
2. Model: the order of waiting `semop()` calls in `VmPool`; the timer in
   `ShellJobs`, with the processor times that `waitpid()` adds up. Each would
   extend a run that is there.
