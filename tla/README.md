# A TLA+ development for ParaCrash

ParaCrash tests whether a parallel file system (BeeGFS, OrangeFS, GlusterFS), with
or without HDF5 and MPI-IO on top, survives a crash. It records the system calls of
all servers while a workload runs, works out in which orders their effects may reach
the disks, builds the *crash states* that may be left, replays each one on the
servers and compares what the file system then serves with the legal prefixes of the
workload. The repository also holds the two programs ParaCrash leans on: the Recorder
library, which traces the MPI program, and h5inspect, a version of the HDF Group's
h5check that logs which object each part of an HDF5 file belongs to. This directory models
the core of all three in TLA+, checks it with TLC and proves its main invariants with TLAPS.

## 1. Inventory

### ParaCrash/

| part | source | state | operations | interacts with |
|---|---|---|---|---|
| recording | `pfs_record.py`, `config.py`, `pfs_config.py`, `scripts/` | mount point, snapshots (tar files), trace files | prepare, snapshot, strace/mpirun, collect | produces the traces all other parts read |
| trace parsing | `pfs_utils.py` 64-312, `pfs.py` 48-120, 223-305, 485-545 | descriptor, offset and size tables per process | `add_syscall`, `set/get/remove_desc`, `set_offset`, `set_size` | fills `service.syscalls` |
| send/receive correlation | `pfs_utils.py` 527-579 | queues of unmatched messages | `format_sendrecv` | gives the graph its cross-server edges |
| execution graph | `pfs_csg.py` 569-645 | a DAG over calls | `dependencies`, `nicely_remove_node`, `reduction` | input of causality and crash states |
| causality | `pfs_csg.py` 421-470 | `hbgraph`, `pbgraph` | `persists_before_all` | asked for every victim |
| crash states | `pfs_csg.py` 50-170, 353-418 | `crash_states` | frontiers, victims, pruning, duplicates | feeds the exploration |
| exploration | `pfs_csg.py` 172-349 | `current_atomic`, `reorder_bugs`, `atomic_bugs` | the loop, auxiliary states, the report | calls `crash_func` back |
| emulation | `pfs_check` 42-164, `pfs_utils.py` 622-779 | the servers' disks, which servers run, `last_state` | stop, restore, replay, start, check | is `crash_func` |
| workloads, legal replay | `pfs.py` 309-588 | barrier groups, legal prefixes | `create_syscalls`, `legal_replay` | gives the verdict its references |
| MPI ordering | `pfs_csg.py` 517-565 | none | `MPI.persists_before_all` | adds lost calls in parallel runs |
| operation and object mapping | `pfs.py` 590-767 | `mapping`, `rev_mapping`, object table | `match`, `locate`, `build`, `query`, `is_datachunk` | static and dynamic pruning for HDF5 |

### Recorder/

| part | source | state | operations | interacts with |
|---|---|---|---|---|
| wrappers | `lib/recorder-posix.c`, `recorder-mpi.c` | none | each interposed function: time, real call, record | called by the program and by the MPI library on the way of its own calls |
| logger | `lib/recorder-logger.c`, `recorder-mpi-init-finalize.c` | record buffer, data and metadata file, counters | `logger_init`, `write_record`, `membufAppend`, `logger_exit` | writes the traces `MPI_Workload` reads |
| utilities | `lib/recorder-utils.c` | file name table | `realrealpath`, `get_filename` | used by the wrappers |
| HDF5 wrappers | `lib/recorder-hdf5.c` | none | as above | ParaCrash skips their records |
| readers | `tools/` | none | offline converters, plots | not used by ParaCrash |

### h5inspect/

| part | source | state | operations | interacts with |
|---|---|---|---|---|
| walk | `src/h5checker.c` | address table, calls in progress | superblock, object headers, messages, symbol tables, B-trees, links | calls the logger and all parts below |
| dense storage | `src/h5checkerV2_0.c` | none | v2 B-trees, fractal heap, lookup of an object | called for dense links and attributes |
| drivers | `src/h5checker.c` 900-1900 | the open driver, members | `FD_open`, `FD_read`, end of file | all reads |
| filters | `src/h5pline.c` | none | deflate, shuffle, fletcher32, N-bit, scale-offset, the pipeline | filtered heap blocks |
| errors | `src/h5error.c` | 32 slots | `error_push`, `error_print`, `error_clear` | every check |
| logger | `src/h5logger.c` | objects, current object | `logger_new_obj`, `logger_set/get`, the dump | read by `OBJMapping` |

### Hard behaviours

* **ordering**: calls of several servers, ordered only by messages and fsyncs; the
  combinations of one frontier and two victims are far more than a test lists;
* **stale state**: with `-in`, disks, running servers and `last_state` are carried
  from one crash state to the next; the exploration prunes by what it found before;
* **lists changed while in use**: duplicate removal by value, `real_atomic` aliasing
  `current_atomic`, grouping by neighbourhood in a list that `-opt` reorders;
* **partial failure**: an exception while a state is replayed ends the run;
* **numeric edges**: empty lists that mean "none" in one function and "all" in
  another, prefixes recognised by length, slices that are one too short;
* **concurrency**: ranks that share a trace directory, barriers in MPI runs, messages
  between servers that are read in parts;
* **resource bounds**: a record buffer, an error stack of 32 slots, the logger's arrays,
  the most filters and entries a file may have;
* **long walks**: h5check must end on a file whose links or addresses form cycles, and
  an error deep in the walk must reach `main` through callers that only count.

The list with source lines is under "hazards" in `PROJECT.json`.

### What makes each part correct

* *causality, crash states*: every cut is consistent and no consistent cut is missed;
  a server is left with a prefix of what it did; a flushed call is not lost; reducing
  the list loses no disk image that should be tested.
* *exploration*: pruning hides no cause without a trace; each failure leads to a report; a
  reported call matters.
* *emulation*: a check depends on its crash state only, never on the states before it. The
  code keeps this for the calls performed and, on BeeGFS, breaks it for directories.
* *execution graph*: removing messages keeps happens-before. *Correlation*: each
  receive is paired with its send. *Parsing*: a call has the path its descriptor had
  when it was issued. *Legal replay*: the prefixes are those the barriers allow.
  *Mapping*: a write is mapped to the stripes and objects it overlaps.
* *Recorder*: each record is written once, in order; the metadata describes the trace.
* *h5check*: it ends, accepts exactly the sound files, and follows each message once;
  *its logger*: each range is noted under the object it belongs to.

## 2. Modules

| module | models | state |
|---|---|---|
| `Causality` | the two orders and what is lost with a call, as operators on a trace | none |
| `CrashStates` | `crash()` up to the exploration | frontiers, victims, the list of states, what remains of it |
| `Explore` | `crash()` from the `-opt` path to the report, both auxiliary explorations | the loop's rank, `current_atomic`, both bug lists |
| `ExactReplay` | abstract: a check sees exactly the calls of its crash state | `keeps`, `checked`, `seen` |
| `Emulate` | `__perform_crash`, `CrashState.emulate`, `real_perform`, `pfs_stop/restore/start`; refines `ExactReplay` | disks with their trees, running servers, what they loaded, `last_state` |
| `ExecGraph` | from the servers' calls to the graph: receives merged, messages matched, edges, communication calls taken out, reduction | the log, the servers, their connections; `syscalls`, `correlated`, `edges` |
| `Wrappers` | the interposed functions and what each records | none |
| `Recorder` | the library inside the ranks of an MPI program | clock, trace directory, and per rank: calls in progress, descriptors, buffer, files, counters, name table; the sizes of the files |
| `MPIWorkload` | `MPI_Workload`: reading the traces, barriers, legal replays | the workload, the replays |
| `H5Check` | h5check's walk, its error stack, the logger | the stack of calls in progress, address table, error count, log, current object |
| `BTree2`, `FractalHeap`, `Dense` | v2 B-trees, the fractal heap, and what is stored in them | one walk, one search, one scan, one read |
| `Drivers`, `Filters`, `Storage` | virtual files, filters, and the reading of a filtered block | the open driver, the read in progress, the block in the pipeline |
| `Folding` | what `FoldLeft` computes, for any operator | none |
| `CrashStates_proof`, `Explore_proof`, `Emulate_proof`, `ExecGraph_proof`, `H5Check_proof`, `Soundness_proof`, `Recorder_proof` | theorems | |
| `MC...` | values of the constants for TLC | |

`CrashStates` EXTENDS `Causality`; `Explore` EXTENDS `CrashStates` and runs it as its
first phase. `Emulate` implements `ExactReplay`:
`Abstract == INSTANCE ExactReplay WITH keeps <- fstype = "beegfs"`. `MPIWorkload`
EXTENDS `Recorder`, which EXTENDS `Wrappers`: the reader works on the traces the library
wrote. `Dense` EXTENDS `FractalHeap`, which EXTENDS `BTree2`; `Storage` EXTENDS `Filters`
and `Drivers`. What `ExecGraph` ends with, a reduced graph of file system calls, is what a
trace of `Causality` is.

### How the models correspond to the code

**Causality.** A call is its number in the list `PFS.create_syscalls` sorts by
timestamp. A trace holds what the orders depend on: the server, the kind (an fsync, a
write of raw HDF5 data, or any other call), the names, and the cross-server edges of the reduced graph.
`nx.transitive_closure` is stated through down-closed sets, so that no recursion is
needed. Recorded names are absolute and services have directories of their own, so
`has_same_path` implies the same server. Traces are acyclic: `transitive_reduction`
raises otherwise.

**CrashStates.** One action per loop body: `VisitFrontier` (lines 75-84),
`TryVictims` (86-109), `StaticPrune` (117-143), `ScanDuplicates` (145-161),
`RemoveDuplicates` (164-170). The loops are deterministic and so is the model: the
frontier and the victims are chosen by the order of `itertools.product` and of the
reversed `combinations`. A list of calls that is always sorted is a set. The list of
lost calls, which may name a call once per victim, is one set per victim. Positions in
the list stand for object identity, which `list.remove` uses. The empty frontier is
included, as in the code.

**Explore.** `Generate` runs `CrashStates`; the order of the loop is that of the list
or, with `-opt`, any path through it that keeps the first and the last state in place: the
solver is a library's, and greedy, so that nothing is known of the cost of its path. The verdict of
`crash_func` comes from *vulnerabilities*: a pair `<<a, b>>` makes every state fail
that holds `b` without `a`. This covers an order the program assumes (one pair) and
an atomic group (two pairs). An fsync is in no pair, since replaying it changes no
disk. Clause a) of the dynamic pruning is absent since it never holds
(section 5). The empty state never fails: the initial snapshot is among the legal
prefixes.

**Emulate.** A disk holds a tree of files and directories, and the sequence of calls
performed since its snapshot was restored, which stands for the contents of the files; a
server serves what its disk held when it was started. `Raises` and `Applied` are what the
`real_perform` of each class does to a tree: `Mkdir` makes the directories above as well, an
exception of a call that had failed when it was recorded is swallowed, any other ends the
program. `restore_snapshot` differs: on OrangeFS and GlusterFS everything goes before the
snapshot is unpacked, on BeeGFS only the files do (`find -type f`), so that directories made
since stay (`kept`). The three file systems also
differ in which servers stop and start and are all modelled, as is GlusterFS's
exception for truncate. The calls of a test come from a recorded run: performed in full on
the snapshot they give the trees that were recorded (`RecordedAssumption`). `CheckState` leaves
the verdict open. `last_state` is compared by its calls only.

Abstractions of these: file contents, attributes and owners; top-level names with a dot, which
`rm -rf dir/*` leaves; the client mount; progress bars, timings and printed text.

**ExecGraph.** The servers run small programs of operations, sends and receives; their
calls are numbered as strace stamps them. There is one connection for each pair of
servers, in order, and what is sent arrives at any later time. A message may be read in
a header and a body, which `format_sendrecv` merges; a send no server received is taken
by the code for communication with the client, which is not traced (`ServicesAssumption`). `syscalls` holds
positions of the log, whose order is that of the time stamps, and so is a set. `CreateSyscalls`,
`Dependencies` and `Reduction` are the three steps of the code. The recording ends when
nothing is on its way.

**Recorder and MPIWorkload.** A rank is in a stack of calls, since `MPI_File_*` makes
POSIX calls that are wrapped as well. A record is taken when the call returns and goes
to the buffer piece by piece, as `membufAppend` is called; a piece has a size of 1, but a
payload has its own. `logger_init` is one action per file system call, as all ranks
prepare the same directory. Barriers wait for all ranks, a broadcast for its root, and no
other collective has to wait. `logger_exit` writes the metadata before it writes the rest of
the buffer, so that a rank whose data file could not be opened crashes between the two.
`kernel`, `disk` and `written` are not state of the code: what a
descriptor really refers to and where its position is, how long the files really are, and the
records in the order they were made, for the
properties. A descriptor's position moves by the result of a call, in the reader by the length
asked for. The reader has the descriptor tables, the file sizes that it takes `SEEK_END` from
(those before the run, raised by each write), the assertions on the two MPI writes it knows, and
what it raises: for a size it does not know, another `whence`, barriers that do not match. A rank
without barriers is not counted by the assertion on their number, and is missed only if the
search for duplicates comes to it (`Unreadable`). `ReadTraces` and `LegalReplay` are the two loops of `MPI_Workload`. The trace
is in text, which is how ParaCrash starts the library.

**H5Check.** The C functions call each other recursively; their frames are a stack, and
each action is what a function does between two reads. A block is a record of what it
holds, at an address; a fault is a wrong version or checksum (`soft`), a block that cannot
be read (`stop`), a message that cannot be decoded (`message`), or a free list of a local heap
that leads back into itself (`loop`). All `logger_*` and
`error_*` calls are part of the action that makes them. The superblock has K values of its own:
`check_superblock` replaces them by the defaults, and nodes are checked against these, while
what is a sound file (`Damaged`) and where a node ends (`SymNodeExtent`) goes by those of the file.
The process can end without a word: `StackOverflow` (a datatype or a node that leads to itself),
`LoggerOverrun` (more children, ranges or a longer name than the logger's arrays hold),
the symbol table node that is larger than its buffer, an allocation that fails
(continuation blocks that lead to each other), the header of a superblock extension, read
without a current object; on a circular free list it spins. What is behind an array is not
modelled: an overrun that does not end the process may leave any log, so the properties of the log
except such runs (`Overrun`). The dense storage is one step here,
detailed in `Dense`.

**Dense.** `check_fheap` and `check_btree2` keep worklists in depth-first order instead of
frames. Sizes and the doubling table are as in the code, with rows of 8, 8, 16, 32...
bytes. `Compare` truncates the difference of two ids to `IntBits` bits, as the code does to
an `int`. Memory that is read before it is written holds any of `Uninitialized`. An offset for
which the table has no row (`BeyondTable`, or beyond the root's rows: `HF_read` admits an offset
equal to the heap's size) is looked up all the same, and what is read behind the arrays is any
address or ends the process. A huge object is read raw, also when it went through filters: its message
decodes to anything (`ReadsRaw`). Indirect blocks are assumed to fit the buffer they are read into
(4096 bytes); attribute messages are read but not decoded.

**Storage.** `Drivers` reads through single files, families and multi files, `Filters`
undoes deflate, shuffle, fletcher32, N-bit and scale-offset on buffers of bytes; N-bit and
scale-offset go over the bits as the code does. Deflate, which is zlib's, is a mark, a
length and the bytes. A filter that fails returns the largest size, which is what (size_t)
FAIL is. The mask of filters a block was stored without is part of the request and looked at by
nothing, as the branch for it is compiled out; `filter_pline`'s assertions end the process
(`PipelineAborts`). The filters that *store* a block belong to the HDF5 library; `MCStorage` writes them
from the format, so that reading and storing are independent.

## 3. Runs

| run | bounds | shows |
|---|---|---|
| `crash_states` | 5 calls; two servers with one special call and one message, which may be stamped before its cause; three servers with up to two special calls, two names and one message | types and the five properties of the generated list (90 169 states) |
| `explore` | 5 calls, up to three servers, one special call, one message; one vulnerability or atomic pair, or two vulnerabilities at once | types and four properties of exploration and report (793 735 states) |
| `base_state` | the same | finding 1 |
| `opt_explore` | 4 calls, `-opt` | finding 2 |
| `emulate` | 5 calls of three servers, one of which makes, removes and makes again a directory and one of which failed when recorded; any sequence over all prefix states and those without one more call; three file systems, with and without `-in`; two initial disks | types, three invariants, refinement of `ExactReplay` (57 117 states) |
| `restored_backup` | the same | finding 4 |
| `graph` | every program of two servers with up to three steps each and as many receives as sends; requests and answers, twice, in one part or two; three servers asked by the client in turn; every interleaving | the reduced graph has the order of the calls (265 644 states) |
| `workload` | two ranks, twenty small programs: barriers, MPI-IO calls, reused descriptors, seeks, short and failed writes, a rank that alone closes a file, calls the reader refuses, payloads just below, at and above a buffer of 9 bytes; trace directory absent, empty or left by an earlier run | five properties of traces, parsing and legal replays (147 882 states) |
| `h5check` | files of up to 12 blocks: old and new groups, cycles of links, of nodes, datatypes and continuations, nodes above their K, objects above the logger's arrays, and variants with errors; up to two damaged blocks | types, five properties and that the check ends or spins (221 952 states) |
| `dense` | heaps of up to 6 rows, full and sparse, every offset of interest, the heap's size included; trees of depth 0 to 2 with two indexes; an `int` of 5 bits and ids up to 29 apart; one damaged block, blocks misplaced or in a cycle | types, four properties and that the check ends (51 555 states) |
| `storage` | files of up to 13 bytes in up to six members, reads at every address; bytes of 4 bits; every N-bit integer of two bytes and eleven nested types, scale-offset integers of one to three bytes; pipelines of up to four filters, which is `MaxFilters`; every byte of a stored block changed, every end of it lost; blocks stored without one of their filters | types, three properties (58 722 states) |
| `filter_failure` | the damaged blocks of `storage` | finding 3 |

Five calls are the least for which two victims, a dependent of one of them, an fsync
and a pivot are different calls, and for which two frontiers give equal states with
different lost calls. Three servers are needed to see an fsync on one server ordering
calls of a second but not of a third; the exploration compares states by server only
under `-opt`. One message is enough for each ordering in question; the theorems of
section 4 cover any number. The emulation depends on the last tested state and the current one, and
all pairs of them occur.

Two servers with three steps give every order of two messages and the calls around them;
a third server is needed for an order that passes through the client. Two ranks give every
relation of a call to a barrier. The buffer of 9 bytes is smaller than a record and a
payload of 8, 9 or 11 bytes is just below, at and above it, the three cases of
`membufAppend`. The files of `h5check` hold each kind of group, index and message that
leads elsewhere, one cycle of links, and headers reached by two links; two faults are what
makes an error hide another. Heaps of six rows have direct blocks, indirect ones, and
indirect ones inside them. Bytes of 4 bits have a first, a middle and a last partial byte
like those of 8; 5 bits of an `int` are truncated as 32 are.

`CHECK_DEADLOCK FALSE` in the configurations of the exploration and the emulation: the
program ends. The other modules have a step that stutters when the program is over, and
deadlock is checked.

**Fairness.** `H5Check` and `Dense` assume weak fairness of the whole next-state relation, for
`CheckEnds` and `DenseEnds`: one thread runs the check and nothing else disables it. The
others state safety and assume none; that the exploration ends is plain, its loops go over
finite lists.

### Properties

* `ConsistentCuts`: the cuts are exactly the sets closed under happens-before.
* `ServerPrefix`: no state keeps a call of a server and loses an earlier one.
* `FlushedBeforePivot`: no state loses a call flushed before its pivot.
* `OneOfEach`: no position is removed twice (Python would raise), and each set of
  calls that survives pruning survives exactly once.
* `NoImageLost`: whatever pruning and duplicate removal drop, each disk image that is legal for
  the persists-before graph and does not end in a data chunk is tested, under one state or
  another, for traces whose messages go forward in time. Where a message is stamped before its cause the
  last call of a cut need not be a maximal one, and an image can be lost: timestamps
  come from several strace processes on several hosts.
* `CausesTold`: the cause `a` of a bug `<<a, b>>`, when `b` needs `a` before it and `a` can be lost
  without `b`, is named in the report, or a call that is lost together with `a` is: not only the
  calls of another bug. It is stated of the least cut that holds `b`. More cannot be said: clause c)
  skips a state when any of its lost calls is reported, and a skipped state may be the only one that
  shows a second cause. TLC refutes the statement that each cause itself is named.
* `FailureReported`: if an explored state failed, the report names a call that has to
  be persisted first. It is stated for traces without raw data chunks, whose messages go
  forward in time. With a chunk and two fsyncs it is false (section 5), on six calls of four
  servers, beyond the bounds of the run.
* `GroupsExplained`: a reported atomic group ends with the last call of a cut that passes, and
  at most one of the calls before it could be left out of that cut without a failure.
* `EachCallReportedOnce`: as named.
* `OptimalPathReports`: with `-opt`, a silent failure is due to a path that is not the best one. False
  (section 5).
* `ServesCrashState`, `RemembersDisks`: the two sides of the incremental mode. A check sees servers
  that performed exactly the calls of its crash state; left-over directories are there on
  BeeGFS only; and where there are none, a server that lost no call before one it kept has the very tree
  it had in the recorded run.
* `BackupRestored`: a restored server holds its snapshot. False on BeeGFS (section 5).
* `OnlyGapsRaise`: replay raises only for an auxiliary state, which leaves out one call, or on disks
  that kept directories (a file to be made where a directory was left, say).
* `ChecksExactReplay`: every check is a check of `ExactReplay`, whose servers may have directories
  beside those of the snapshot where the file system keeps them.
* `HappensBeforeKept`: the graph has a path between two file system calls exactly when
  one caused the other: on one server, through messages, or through the client. It is
  stated for recordings in which no message is cut by the first file system call. With
  such a message it fails: `pfs.py:112` drops network calls before the first operation, so a
  send goes while its receive stays, later pairs are shifted, and the graph may even get a
  cycle, which `transitive_reduction` refuses.
* `TraceComplete`: file and buffer hold all records of a rank, in order, once, and the
  file alone after `MPI_Finalize`; this is also said of what a rank had written when it crashed. A
  rank crashes only if there are others and the directory held no file at the
  start: another rank then removes what it has just made. In a directory with the files of an
  earlier run no rank may crash.
* `MetaDescribesTrace`: counters and file names agree with the records; of a rank that crashes at
  its end they describe the records that are lost with the buffer.
* `WritesPlaced`: a call of the workload has the file, and a write the offset, that the
  kernel gave it. Of a descriptor on which `read`, `dup`, or a write of less than was asked was called,
  or a seek to the end of a file whose size the trace does not tell, nothing is said: the code
  misplaces what follows. Nor is anything said of writes that are not in the workload: on a
  descriptor of `creat` the reader drops them without a word.
* `ReplaysAreCuts`, `CutsAreReplayed`: no legal replay is a state the program cannot reach,
  and no reachable state is missing. The second needs that each rank has done something
  and that all that ParaCrash takes for a barrier is one: `MPI_File_close`, `set_view`,
  `write_at_all` and `Bcast` are taken for barriers and need not synchronise. With such a
  call in one rank only, replays are missing.
* `HeaderReadOnce`: the table of addresses keeps the walk over links finite.
* `CheckEnds`: h5inspect ends, by its exit or by a signal, or spins on a free list that leads back into
  itself, the one loop without an end. A datatype or a tree node that leads to itself ends with the
  stack, continuations in a cycle with the memory.
* `CurrentObjectIsOpen`: the logger's global is put back on every path.
* `LogOnlyOfSoundFiles`, `ErrorsFlushed`: an error anywhere reaches `main`, printed, and a log is
  written exactly for sound files. The first is stated of files with the default K values, whose
  objects fit the logger's arrays and whose headers fit the memory. Damage is
  also a name met twice, if only because a node is under two entries of a group's tree, a
  shared message whose header holds no datatype, and a node with more entries than K allows:
  `2K+1` for an indexed storage node, as the message of the code says.
* `LogDescribesFile`: each object that links lead to by name only is logged once with the
  ranges that the file gives it. Objects with continued headers, committed datatypes, dense groups and what they
  link to are left out, and so is the end of a header with a checksum: the code logs their ranges wrongly
  (section 5). `Mixed` has an object linked densely and by name, whose named slot stays empty.
* `ManagedObjectsFound`: an object whose offset is below the heap's size is read from the block the
  doubling table assigns it, and every stored object of a sound heap is found.
* `FindExact`: the search finds a record exactly when there is one, for ids that differ by
  less than an `int` holds.
* `FollowedOnce`: messages in dense storage are followed once; a bad record hides no other.
* `AcceptedIffSound`, `DenseEnds`: as named; sound storage is that of objects the code can read: tiny
  ones are refused always, filtered huge ones are read raw, and those without filters whose id is not
  their address depend on uninitialized memory.
* `ReadsVirtualFile`, `OpenedIfWhole`: bytes come from the member that has them, and a file
  is refused exactly when its end is missing.
* `BlockRestored`: a block stored through all of a pipeline shorter than `MaxFilters` comes out as it
  went in. N-bit or scale-offset that had nothing to do, with deflate or fletcher32 behind, may make the
  block be refused, but never come out as other bytes; nothing is said of N-bit compounds whose
  first member is an array of arrays or compounds, nor of scale-offset integers of sizes C does not
  have, nor of blocks stored without some filter or through a full pipeline, which the code serves
  wrongly (section 5).

## 4. Theorems

All are proved for any values of the constants that satisfy the named assumptions.

`CrashStates_proof` (assumptions: `NumCalls` is a natural number, services are
numbered, the traces are well typed and acyclic):

* `TypeCorrect`: `Spec => []TypeOK`.
* `CutsAreConsistent`: `Spec => []ConsistentCuts`. A frontier that respects each
  cross-server edge gives a set closed under the edges (`FrontierClosed`); each such
  set comes from the frontier of its last calls (`CutHasFrontier`), which is still to
  be visited or in the list (`Visited`).
* `ServersKeepPrefix`: `Spec => []ServerPrefix`. persists-before is upward closed along a
  server (`PersistsUpward`), so the dependents of a victim form a suffix, and a
  victim with a dependent on the pivot's server before the pivot cannot be lost.
* `FlushedCallsSurvive`: `Spec => []FlushedBeforePivot`.

The invariants are not inductive: a reordered state must be known to come from a
closed cut and from victims for which `persists_before_all` returned a list.
`IInv` adds this (`States`, `Lost`), what is known of the frontier being visited
(`Visiting`), that the inputs never change (`Inputs`), and that every frontier is
accounted for (`Visited`).

Two more are about what remains of the list. `OneOfEachHolds`: `Spec => []OneOfEach`,
for any list of states. The scan compares a state with the next of its chain only, so a state
may be compared long before it is scanned. `Seen` holds the states scanned and, of each chain
begun, the next one; of each chain in `Seen` exactly one state is unmarked (`OneLeft`). A step
of the scan adds the next state of one chain (`SeenGrows`) and marks one of two (`MarkOne`),
never one that was marked, since the later of the two is new. When all are scanned `Seen` is
the whole list.

`NoImageIsLost`: `Spec => []NoImageLost`, for each legal image whose last call is not a data chunk,
whatever else it holds. `Tried` says that the list has a state for each frontier
passed and each choice of victims that can be lost, so that it has the one with the same image
whose pivot is the last remaining call; duplicate removal leaves one like it.

`Emulate_proof` (assumptions: calls are numbers, each has a server, tested states are
sets of calls; `RecordedAssumption`: the recorded run can be performed again on the snapshot and gives
the recorded trees; `InitialDisksAssumption`: at the beginning the disks hold what some first calls
leave):

* `TypeCorrect`, `ChecksSeeCrashState`, `RemembersDisksHolds`, `OnlyGapsRaiseHolds`:
  types and the three invariants.
* `Refinement`: `Spec => Abstract!Spec`. `CheckState` is the abstract `Check`, every
  other step stutters.

Here `IInv` describes the disks at every step: what is performed and what is still to do make up
the crash state, in order (`Partial`); a server outside the list of differing servers
already holds its part and has it loaded (`Restoring`, `Emulating`). `Kept` adds the trees: a disk
without left-over directories that performed a prefix of its server's calls has the tree that was
recorded after them. So the next call finds what it found when it was recorded, and performs
(`NextPerforms`), and leaves the next recorded tree (`AppendAsRecorded`); a call can only raise on a disk
with a gap or with something left over. That a restore empties a disk is used for OrangeFS and GlusterFS alone.

`Explore_proof` (the assumptions of `CrashStates_proof`; vulnerabilities are pairs of calls):

* `ExplorationGenerates`: the exploration takes the generator's steps and no other on its
  variables, so that the theorems about `CrashStates` hold of the states explored.
* `ExploreTypesHold`: `ExploreSpec => []ExploreTypeOK`.
* `GroupsAreExplained`: `ExploreSpec => []GroupsExplained`. The list is changed while it is tried,
  and `remove` takes the first occurrence, so that what was tried and what is removed may be
  different positions. `Balanced` counts instead: a call that could be left out occurs
  as often as it is still to be tried, the first call of the group once more.
* `CausesAreTold`: `ExploreSpec => []CausesTold`, in any order of exploration. Take the least cut that
  holds `b`. Its calls without `a` and what goes with it are the calls of a state that the list tries
  (`CauseLoss`), and duplicate removal keeps a state with the same calls that lists no more
  (`LightInv`, below), so one that has lost just what `a` drags along. This state fails. Either
  it was explored, and then each lost call that does harm alone is told, `a` among them; or clause c)
  skipped it, and then one of its lost calls is reported already. The final filter takes a call off the
  list only when it is in an atomic group.
* `CallsReportedOnce`: `ExploreSpec => [](Forward => EachCallReportedOnce)`, in any order of
  exploration. A state lists a call twice when both victims drag it along, and then the report
  would too. What keeps such a state out is the removal of duplicates (`LiveListOnce`, in
  `CrashStates_proof`). A victim drags along what its server journals after it and what persists
  after it because an fsync stands between. The cut without the calls of the second kind is
  consistent too, and losing the victims there, or only one of them when it drags the other
  along, leaves the same calls; that state lists fewer and is earlier in the list
  (`LighterBefore`). `Listed` gives the order of the list, smaller cuts first and then fewer
  victims; `LightInv` says that of states with the same calls the scan keeps one that lists
  no more than any before it. `NoneTwice` then keeps apart the calls reported, found and still to
  be tried. `Forward` is needed for `LiveListOnce`: with a message stamped before its cause TLC
  finds, on seven calls of five servers with two fsyncs, a kept state that lists a call twice.
* `FailuresAreReported`: `ExploreSpec => [](~ OptExplore => FailureReported)`. Take a failing state
  that misses the first call `a` of a vulnerability and has the second. If its cut has `a`, the
  state is reordered and tells each of its lost calls that does harm alone (`ExploredTold`). If
  not, look at the last call `y` of what need not come after `a` (`MissedCall`). When `y` is after
  `a`, the list tries the cut up to `y` with `a` alone lost; of the states with those calls one
  that lists no more is left (`LightInv`), and it is reordered, since a cut goes as the duplicate
  of a later state (`CutsLose`): so `a` is told (`LoneLoss`, `LoneLossTold`). When all that need not
  come after `a` ends before it, the cut of everything up to `y` is left and fails. Then take the
  last failing cut that is left, and the first call `a` of a vulnerability that it breaks: either
  `a` is told as above, or this cut is the one of everything up to `y`, and the next cut left is
  one that ends in `a` (`NextEndsIn`, from the order of `product()`, `Sorted`). That cut passes, so
  it ends the run and the group names `a` (`RunOpen`, `RunsEnd`). The conditions are those of the
  property, no raw data chunk and no message stamped before its cause, and the default order:
  in the order of `-opt` the property is violated (run `opt_explore`).

`H5Check_proof` (assumption: an address leads to a block of the kind it is read as; anything
else is the fault `stop`):

* `ReadOnce`: `Spec => []HeaderReadOnce`, for any file, faults and links, and for any of the limits. `ReadOnceInv` adds that
  a header that was read is in the table; only `HeaderPrefix` touches either, every other action
  leaves both alone (`Untouched`).
* `CurrentIsOpen`: `Spec => []CurrentObjectIsOpen`. The frames that wait for a link
  form a chain in the log, each object the last child of the one before, and the end of the
  chain is the current object (`OpenInv`). Every action works on the top frame, calls, follows a
  link or returns (`Kinds`), and the chain is kept by each of the four.
* `ErrorsArePrinted`: `Spec => []ErrorsFlushed`. While an error is unprinted some frame on the
  stack has counted it and has still to print (`Blame`). That counts are numbers needs the
  types of the frames (`Typed`).
* `H5TypesHold`: `Spec => []H5TypeOK`. An object is added to the log as the last child of the
  current one, behind it; every other note leaves the children alone (`LogStep`).

`Soundness_proof` (the assumptions of `H5Check_proof`): `LogsSoundFiles`:
`Spec => []LogOnlyOfSoundFiles`, for any file, links, cycles and faults. It is a theorem about files
that have the K values of the code: the conditions of the property, `Regular` in the proof, are
what the code needs (section 5, "Other disagreements"). The property compares
the verdict with everything that can be reached from the superblock, so the proof is in two
halves.

* No damage is passed over. As long as no error was found, `Covers` keeps what has been dealt with: a block is
  `Covered` when it is undamaged and whatever it leads to is covered or a header of the table; this is the
  greatest such set, so that it grows with the table. The blocks at work are not covered yet: `Progress` says
  how far each function of the stack has come (the chunks a header has read and the continuations it still
  has to follow, the messages treated, the children and records done, the names of a group so far), and
  `Waiting` ties it to the function it called. A function that returns has its block covered
  (`HeaderCovered`, `BtreeDelivered`, `SymDelivered`, `Btree2Delivered`). With an empty stack the table is covered too,
  so what is covered is closed and holds the root: it holds all that is reached (`CoverDecides`).
* No sound file is refused. `SoundP` keeps each function inside what is reached, and the names of a group's nodes
  apart from those given by its caller, so that none of the conditions under which an error is pushed
  holds (`Fine`). A name is compared with all nodes met before, while `Damaged` compares children of one node:
  `ChildApart` and `NoEntryErrors` bring the two together.

An error once found is never taken back (`Adds`, `GoodBefore`), also when it is printed by another function.
What is reached is a recursive function over the number of steps; that it is the least closed set
that holds the root (`ClosureIsLeast`, `ClosureIsStable`) is shown by induction over a set of numbers.

`ExecGraph_proof` (assumptions: the client is not a traced server; a program is a sequence of
steps for each server): `KeepsOrder`: `Spec => []HappensBeforeKept`, for any number of servers, any
programs and any interleaving. The steps of the argument are those of the code:

* What the log and the connections hold (`LogInv`, `ConnectionInv`, together `MessagesAreRead`): each body
  is read after its header with nothing of the same sender in between, messages of two servers are
  read in the order they were sent, and a message that was not read is on its way. Each action of a
  server appends one call (`Appends`), so there is one lemma for the log (`LogGrows`), one for
  the connections (`ConnectionsKept`), and one per action.
* Merging keeps of each message the first receive (`WithoutBodiesKeeps`): a header that nothing of its
  sender followed waits (`MergedUntil`), so a body always finds a header and goes. It need not be its
  own: an earlier header without a body still waits, and is taken first. This has no effect on the order.
* The n-th send is matched with the n-th receive, so the pairs are the messages when the map from receives to
  sends is monotone and reaches all of them (`RanksAgree`, `MatchesMessages`). This is where
  `StartsQuiet` is needed.
* The paths between file system calls are then those of `Causes` (`EdgesAreCauses`, `PathsAreCauses`): an edge is
  a cause, and a cause is a path of chains, matched pairs and edges through the client.
* Taking a call out leaves exactly the paths between the other nodes (`RemovalKeepsPaths`, and
  `RemovalKeepsAcyclic` for the next one), and so does taking out all of them in turn (`ClearedPaths`);
  transitive reduction keeps the paths of a graph whose edges go forward (`ReducedPaths`).

A path is stated by the transitive relations that hold the edges. The fold that computes
`Reachability`, which adds the paths through one node after another, is shown to give the same
(`ReachabilityIsPaths`, an instance of `Folding`). `IInv` adds to these what each later phase has computed
(`PhaseInv`): they compute from the log alone, which no longer changes (`FrameLog` and the other Frame lemmas).

`Folding` (no assumptions): `FoldEmpty`, `FoldStep`, `FoldInvariant`: what a fold over a sequence
gives for the empty sequence and for one more element, and what it keeps. `FoldLeft` is a
recursive function over the parts of a domain; that there is exactly one such function is shown
by induction, which the prover takes for a set of numbers (`Inductive`). The operator is a
constant of the module, so that each instance is about one operator.

`Recorder_proof` (assumptions: the buffer has a size; there are finitely many ranks;
`ProgramsAssumption`: files are in directories that are there, and a program calls `MPI_Init` and
`MPI_Finalize` at most once, as MPI demands, and `MPI_Finalize` after `MPI_Init`, without which
the library never writes the rest of its buffer;
`InvocationsAssumption`: lengths are numbers, and each call but these two has a list of arguments):

* `AppendKeepsOrder`: for any sizes, `MembufAppend` puts the piece behind all that was appended
  before, and the position stays inside the buffer.
* `LineWritten`: a record is behind all that was written before, however its pieces fall on
  the end of the buffer. It is the fold of `MembufAppend` over the pieces, an instance of
  `Folding`; the stream of all records is the fold of the concatenation (`FlattenIsFold`).
* `TraceIsComplete`: `Spec => []TraceComplete`. `IInv` adds what a rank that lost its files knows of
  the others (`DirInv`: it made the directory itself, so another one removed it, and it was empty
  then; the files of an earlier run are never removed, so there were none), that a rank that records has called `MPI_Init` and not yet `MPI_Finalize` (`SessionInv`),
  and that a rank that does not record has an empty buffer (`TraceInv`).
* `MetaIsRight`: `Spec => []MetaDescribesTrace`. Until `MPI_Finalize` the counters and the table
  describe the records made so far, after it no record is made (`RankMeta`, on top of `IInv`); the
  metadata are written from them before the buffer is, so a rank that crashes in between has described the
  records it loses. A
  table is its names, each once (`TableOf`), kept by the fold of `RealRealPath` over the arguments
  (`PathsEntered`); the counter is the number of records of each function (`TallyStep`); and a
  record ends in exactly one of its pieces (`OneMoreLine`), so that the lines counted
  in the file are the records made.

Only model-checked: `EachCallReportedOnce` for traces that are not `Forward`; of `MPIWorkload` what the reader does, as it filters sequences with `SelectSeq`, which
the prover cannot expand; `LogDescribesFile`, which needs a history of what was noted; `Dense` and `Storage`, whose loops are recursive operators or
run over bits; and liveness, which is out of the prover's reach.

## 5. Findings

1. **The pruning clause "no bugs in base state" never applies.** It looks for a
   `CrashState` in a list of lists of calls. Calls are reported as reordered whose cut
   fails with nothing lost. Run `base_state`.
2. **`-opt` can lose a failure.** Failing cuts are reported when a passing cut
   follows; even a path of least cost may put none after them. Run `opt_explore`.
3. **A failed filter can go unnoticed.** A filter returns FAIL as a size; `filter_pline`
   takes only 0 for a failure. With a checksum followed by a filter that sets the size
   anew, a block with a wrong checksum is accepted. Run `filter_failure`.
4. **A BeeGFS server is not restored to its backup.** `restore_snapshot` removes the files that
   `find -type f` lists and unpacks the snapshot over the rest: directories of the recorded run and of
   earlier crash states stay, and a check sees them. Run `restored_backup`.

Other disagreements met on the way, which the models keep as they are in the code; where
a property would fail on one, its conditions leave it out:

* pfs_csg.py: a state may break the persists-before order it was made from: `persists_before_all` (457-465)
  adds the direct successors of the victim, and `pbgraph` is not transitive across servers. Take a
  victim `v` and a later call `c` of the same server on another file, an fsync of `c`'s file, and a
  call `d` of a second server after that fsync. Losing `v` loses `c` and its fsync, and keeps `d`.
* h5checker.c: `check_superblock` (6553) replaces the K values of the file by the defaults, and a sound file
  with more entries in a node than these allow is refused (6687, 6875). The header of a superblock extension is
  checked before the logger has an object, which ends the process (8906). The range of a continued header begins
  at its first block and has the size of the last, and leaves out the checksum of version 2 (8909).
* h5pline.c: the mask of excluded filters is not looked at (1621): a block stored without some filter is
  refused, wrong, or ends the process. A pipeline with as many filters as are allowed ends the process
  (1615).
* pfs.py: the assertion that all ranks have as many barriers (357) looks at a table that only ranks with a
  barrier are in. Closing an MPI file counts as a barrier, and one rank may do it alone: what this
  rank does afterwards is then in no legal replay.
* h5checker.c: `EDF` overwrites the errors counted so far (7712); a committed datatype overwrites
  the base of the dataset
  that uses it; an object's second name is logged with zeros; the children of a dense group
  are logged into the group, also when a name leads to them later; a local heap's free list that
  leads back into itself is followed for ever (7131); the logger's arrays have no bounds checks; reads of
  family and multi files add the user block twice (928).
* h5checkerV2_0.c: tiny objects are always refused (3342); huge objects of an unfiltered heap
  are searched with a record of the filtered layout (2987), filtered ones are read without the pipeline
  (3103); an offset equal to the heap's size is admitted (3143); `sect_type > nclasses` is off by
  one (1461); ids are compared by a truncated difference (447).
* h5pline.c: N-bit rewinds its parameters in arrays of arrays and compounds (812, 822);
  N-bit and scale-offset that pass data on return the size of the buffer (905, 1467).
* Recorder: ranks race for the trace directory when it is absent or empty; `MPI_File_write_at_all` is
  recorded with the beginning of the view for an offset (recorder-mpi.c:377).
* pfs_utils.py: a failed or short write moves the offset by what was asked (224); writes on descriptors
  of `creat` are dropped (207); a seek to the end of a file that was only created raises a KeyError
  (pfs.py:517).
* pfs_csg.py: with data chunks, the report may name only calls that were on disk. Calls 1 (an
  fsync) and 2 on server 3, chunk 3 on server 1, 4 and its fsync 5 on server 4, 6 on server 2;
  messages from 2 to 3 and from 5 to 6; 2 must not be on disk without 4. The cut {1, 2} fails. The
  cut {1, 2, 4} passes and would close the group with 4, but goes as a duplicate of {1, 2, 3, 4}
  without its chunk 3; the next cut that is left, {4, 5, 6}, makes the group of 2 and 6, and 4
  is not named. Seen when a proof of `FailureReported` failed.
* pfs.py: `query` leaves out the last object (760); a program without a barrier, or with the
  trace of a rank too many, ends the reader.

## 6. Not modelled, and why

* *Mapping* (`locate`, `match`, `build`, `query`): functions over ranges without a state;
  the hazard at `pfs.py:649` has no property. `Causality` takes "is a data
  chunk" as given. It would be the next module.
* *MPI extension of `persists_before_all`* (`pfs_csg.py:100`): it needs the calls of ranks in
  the trace of `Causality`; the hazard there has no property.
* *POSIX workload*: its legal replays are the prefixes of one list.
* *Parsing of strace*: the calls Recorder does not have (`*at`, attributes, sockets); open flags
  other than `O_CREAT`, `O_APPEND` among them.
* *Recorder*: HDF5 wrappers, whose records ParaCrash skips; the compressed modes, which it
  does not use; threads, which
  share one buffer without a lock; ranks that are killed; sub-communicators, which the parser
  ignores; calls of one rank with equal times.
* *h5check*: external links and the API entry points; messages shared through a heap (SOHM);
  file format 1.6; what is in a superblock extension; floating-point scale-offset;
  szip, which is not in the build; indirect blocks larger than their buffer; the contents of
  attribute messages.
* *Verdict*: runs `diff`, `h5dump` or a user's program. `Explore` takes it from a set of
  vulnerabilities.
* *Recording, configuration, scripts, offline readers*: process control and I/O.
* *Emulation*: the timeout path of `__perform_crash` is unreachable as `legal_replay` is on by
  default and no option turns it off. `-NR` (no restart) makes `pfs_start` and `pfs_stop`
  no-ops; what a running server then serves depends on the file system.

Theorems worth proving next: `LogDescribesFile` on top of `CurrentIsOpen` and `LogsSoundFiles`.

## 7. Running

    tlc -config MCCrashStates.cfg MCCrashStates
    tlc -config MCExplore.cfg MCExplore
    tlc -config BaseState.cfg MCExplore
    tlc -config OptExplore.cfg MCExplore
    tlc -config MCEmulate.cfg MCEmulate
    tlc -config RestoredBackup.cfg MCEmulate
    tlc -config MCExecGraph.cfg MCExecGraph
    tlc -config MCWorkload.cfg MCWorkload
    tlc -config MCH5Check.cfg MCH5Check
    tlc -config MCDense.cfg MCDense
    tlc -config MCStorage.cfg MCStorage
    tlc -config FilterFailure.cfg MCStorage
    tlapm CrashStates_proof.tla
    tlapm Explore_proof.tla
    tlapm Emulate_proof.tla
    tlapm ExecGraph_proof.tla
    tlapm H5Check_proof.tla
    tlapm Soundness_proof.tla
    tlapm Folding.tla
    tlapm Recorder_proof.tla
