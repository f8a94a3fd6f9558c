------------------------------ MODULE Recorder ------------------------------
(***************************************************************************)
(* The Recorder library inside the ranks of an MPI program, as ParaCrash   *)
(* preloads it (RECORDER_COMPRESSION_MODE=0).  Each rank runs its program; *)
(* a wrapper takes the start time, makes the real call, and writes a       *)
(* record when it returns.  MPI_Init starts the logger: every rank         *)
(* prepares the same trace directory by itself.  MPI_Finalize writes the   *)
(* metadata and the rest of the buffer.                                    *)
(*                                                                         *)
(* A call is a record: fn and its arguments, `inner` the calls the library *)
(* it belongs to makes on its way.  A record in the trace is a sequence of *)
(* pieces, one for each append to the buffer.                              *)
(*                                                                         *)
(* kernel, disk and written are not state of the library: what the kernel  *)
(* knows of a rank's descriptors and of the files, and the records in the  *)
(* order they were made.                                                   *)
(***************************************************************************)
EXTENDS Integers, Sequences, FiniteSets, Bags, SequencesExt, Wrappers

CONSTANTS Ranks,        \* the ranks, 0 among them
          Invocations,  \* the calls that the programs make
          Programs,     \* records: calls (one sequence per rank), mpi_only,
                        \* found (what the trace directory is at the start),
                        \* sizes (of the files that are there at the start)
          BufSize,      \* bytes of the buffer of records (6 MB in the code)
          Canonical     \* the file each path name stands for (realpath)

ASSUME RanksAssumption == Ranks \subseteq Nat /\ IsFiniteSet(Ranks) /\ 0 \in Ranks
ASSUME BufSizeAssumption == BufSize \in Nat \ {0}

\* <rank>.itf, <rank>.mt and recorder.mt.
FileKinds == {"itf", "mt", "global"}

\* Files are in directories that are there; a program starts MPI at most
\* once, and then ends it once and later, as MPI demands.
ASSUME ProgramsAssumption ==
  \A p \in Programs :
    /\ p.calls \in [Ranks -> Seq(Invocations)]
    /\ p.found \in [exists : BOOLEAN, files : SUBSET [kind : FileKinds, rank : Nat]]
    /\ p.found.files # {} => p.found.exists
    /\ \A f \in DOMAIN p.sizes : p.sizes[f] \in Nat
    /\ \A r \in Ranks : \A i \in DOMAIN p.calls[r] :
         /\ p.calls[r][i].fn = "MPI_Init" =>
              \E j \in DOMAIN p.calls[r] : j > i /\ p.calls[r][j].fn = "MPI_Finalize"
         /\ p.calls[r][i].fn \in {"MPI_Init", "MPI_Finalize"} =>
              \A j \in DOMAIN p.calls[r] : p.calls[r][j].fn = p.calls[r][i].fn => j = i

VARIABLES program,    \* the program that runs
          clock,      \* the time
          dir,        \* the trace directory: exists, files
          pc,         \* where each rank is
          at, stack,  \* its next call, and the calls it is in
          kernel,     \* its descriptors, as the kernel sees them
          disk,       \* the sizes of the files
          recording, data, meta,   \* __recording, and its two files
          total, count, table,     \* __logger.localDef and the file name table
          mem,        \* the buffer and the data file
          summary,    \* what logger_exit wrote in the metadata file
          written     \* its records, in the order of their ends

appVars == <<program, clock, at, stack, kernel, disk>>
localVars == <<total, count, table, summary>>
recorderVars == <<appVars, dir, pc, recording, data, meta, localVars, mem, written>>

NoFile == "none"

\* The collective calls of all ranks that order them.
Collectives == {"PMPI_Barrier", "PMPI_Bcast"}

RecorderInit ==
  /\ program \in Programs
  /\ clock = 0
  /\ dir = program.found
  /\ pc = [r \in Ranks |-> "app"]
  /\ at = [r \in Ranks |-> 1]
  /\ stack = [r \in Ranks |-> <<>>]
  /\ kernel = [r \in Ranks |-> <<>>]
  /\ disk = [f \in DOMAIN program.sizes |-> [size |-> program.sizes[f], told |-> TRUE]]
  /\ recording = [r \in Ranks |-> FALSE]
  /\ data = [r \in Ranks |-> "closed"]
  /\ meta = [r \in Ranks |-> "closed"]
  /\ total = [r \in Ranks |-> 0]
  /\ count = [r \in Ranks |-> EmptyBag]
  /\ table = [r \in Ranks |-> <<>>]
  /\ mem = [r \in Ranks |-> [file |-> <<>>, buf |-> <<>>, pos |-> 0]]
  /\ summary = [r \in Ranks |-> <<>>]
  /\ written = [r \in Ranks |-> <<>>]

-----------------------------------------------------------------------------
(* The trace directory (logger_init). *)

FileOf(r, kind) == [kind |-> kind, rank |-> r]

\* fopen: a file in a directory that is not there cannot be made.
OpenIn(r, kind, handle) ==
  /\ handle' = [handle EXCEPT ![r] = IF dir.exists THEN "open" ELSE "null"]
  /\ dir' = IF dir.exists THEN [dir EXCEPT !.files = @ \union {FileOf(r, kind)}] ELSE dir

AccessDir(r) ==
  /\ pc[r] = "access"
  /\ pc' = [pc EXCEPT ![r] = IF dir.exists THEN "remove" ELSE "mkdir"]
  /\ UNCHANGED <<appVars, dir, recording, data, meta, localVars, mem, written>>

\* remove: only an empty directory goes.
RemoveDir(r) ==
  /\ pc[r] = "remove"
  /\ dir' = IF dir.files = {} THEN [dir EXCEPT !.exists = FALSE] ELSE dir
  /\ pc' = [pc EXCEPT ![r] = "mkdir"]
  /\ UNCHANGED <<appVars, recording, data, meta, localVars, mem, written>>

MakeDir(r) ==
  /\ pc[r] = "mkdir"
  /\ dir' = [dir EXCEPT !.exists = TRUE]
  /\ pc' = [pc EXCEPT ![r] = "data"]
  /\ UNCHANGED <<appVars, recording, data, meta, localVars, mem, written>>

OpenData(r) ==
  /\ pc[r] = "data"
  /\ OpenIn(r, "itf", data)
  /\ pc' = [pc EXCEPT ![r] = "meta"]
  /\ UNCHANGED <<appVars, recording, meta, localVars, mem, written>>

OpenMeta(r) ==
  /\ pc[r] = "meta"
  /\ OpenIn(r, "mt", meta)
  /\ pc' = [pc EXCEPT ![r] = IF r = 0 THEN "global" ELSE "start"]
  /\ UNCHANGED <<appVars, recording, data, localVars, mem, written>>

\* Rank 0 writes recorder.mt without asking whether it could be opened.
WriteGlobal(r) ==
  /\ pc[r] = "global"
  /\ dir' = IF dir.exists THEN [dir EXCEPT !.files = @ \union {FileOf(r, "global")}] ELSE dir
  /\ pc' = [pc EXCEPT ![r] = IF dir.exists THEN "start" ELSE "crashed"]
  /\ UNCHANGED <<appVars, recording, data, meta, localVars, mem, written>>

StartRecording(r) ==
  /\ pc[r] = "start"
  /\ recording' = [recording EXCEPT ![r] = TRUE]
  /\ pc' = [pc EXCEPT ![r] = "app"]
  /\ UNCHANGED <<appVars, dir, data, meta, localVars, mem, written>>

-----------------------------------------------------------------------------
(* The buffer of records (struct MemBuf). *)

MembufDump(m) == [file |-> m.file \o m.buf, buf |-> <<>>, pos |-> 0]

AppendPastBuffer(m, piece) ==
  IF piece.size >= BufSize
  THEN [m EXCEPT !.file = Append(@, piece)]
  ELSE LET room == IF m.pos + piece.size >= BufSize THEN MembufDump(m) ELSE m
       IN  [room EXCEPT !.buf = Append(@, piece), !.pos = @ + piece.size]

MembufAppend(m, piece) ==
  IF piece.size >= BufSize
  THEN [MembufDump(m) EXCEPT !.file = Append(@, piece)]
  ELSE LET room == IF m.pos + piece.size >= BufSize THEN MembufDump(m) ELSE m
       IN  [room EXCEPT !.buf = Append(@, piece), !.pos = @ + piece.size]

\* tstart, tend, res and the name with three blanks between them, a blank
\* before each argument, and the end of the line; `left` counts the pieces
\* of the record that come after this one.
NumPieces(rec) == 8 + 2 * Len(rec.args)

IsPayload(rec, i) ==
  i > 8 /\ i % 2 = 1 /\ rec.args[(i - 7) \div 2].kind = "payload"

Pieces(line, rec) ==
  [i \in 1..NumPieces(rec) |->
     [line |-> line, left |-> NumPieces(rec) - i,
      size |-> IF IsPayload(rec, i) THEN rec.len ELSE 1]]

WriteInText(m, line, rec) == FoldLeft(MembufAppend, m, Pieces(line, rec))

-----------------------------------------------------------------------------
(* The record of a call (the two interceptor macros, write_record). *)

ArgKinds(c) == IF c.fn \in {"open", "open64"} /\ c.creat
               THEN CreatingOpenArgs ELSE WrapperArgs[c.fn]

\* A call that has a wrapper has a list of arguments.
ASSUME InvocationsAssumption ==
  \A c \in Invocations :
    /\ c.inner \in Seq(Invocations) /\ c.len \in Nat
    /\ c.fn \notin {"MPI_Init", "MPI_Finalize"} => ArgKinds(c) \in Seq(STRING)

\* What an argument of this kind is for the call; a second path is c.to.
ArgValue(c, i) ==
  LET kind == ArgKinds(c)[i]
  IN  CASE kind = "path" -> IF \E j \in 1..(i - 1) : ArgKinds(c)[j] = "path"
                            THEN Canonical[c.to] ELSE Canonical[c.file]
        [] kind \in {"fd", "stream", "handle"} -> c.fd
        [] kind = "flags" -> c.creat
        [] kind \in {"payload", "length"} -> c.len
        [] kind = "offset" -> c.off
        [] kind = "whence" -> c.whence
        [] kind = "view" -> c.view
        [] kind = "count" -> c.count
        [] kind = "type" -> c.type
        [] OTHER -> 0

Arguments(c) ==
  [i \in DOMAIN ArgKinds(c) |-> [kind |-> ArgKinds(c)[i], val |-> ArgValue(c, i)]]

EnterAlways(names, arg) == IF arg.kind = "path" THEN Append(names, arg.val) ELSE names

\* The file name table after an argument: with its path, unless that is
\* there already.
RealRealPath(names, arg) ==
  IF arg.kind = "path" /\ \A i \in DOMAIN names : names[i] # arg.val
  THEN Append(names, arg.val) ELSE names

\* What the kernel knows of the descriptor the call is made on.
OnFile(r, c) ==
  IF c.fd \in DOMAIN kernel[r] THEN kernel[r][c.fd]
  ELSE [file |-> NoFile, off |-> 0, seen |-> FALSE, astray |-> FALSE]

RecordOf(r, c, tstart) ==
  [fn |-> c.fn, tstart |-> tstart,
   res |-> IF c.fn \in ResultKept THEN c.res ELSE 0,
   args |-> Arguments(c), len |-> c.len, call |-> at[r], on |-> OnFile(r, c)]

\* fwrite to the file that could not be opened ends the process.
Logged(r, rec) ==
  LET m == WriteInText(mem[r], total[r] + 1, rec)
  IN  IF data[r] = "null" /\ m.file # mem[r].file
      THEN /\ pc' = [pc EXCEPT ![r] = "crashed"]
           /\ UNCHANGED <<mem, written, total, count, table>>
      ELSE /\ mem' = [mem EXCEPT ![r] = m]
           /\ written' = [written EXCEPT ![r] = Append(@, rec)]
           /\ total' = [total EXCEPT ![r] = @ + 1]
           /\ count' = [count EXCEPT ![r] = @ (+) SetToBag({rec.fn})]
           /\ table' = [table EXCEPT ![r] = FoldLeft(RealRealPath, @, rec.args)]
           /\ UNCHANGED pc

-----------------------------------------------------------------------------
(* The program: a call begins and ends. *)

Calls(r) == program.calls[r]

Top(r) == Last(stack[r])

HasNext(r) == IF stack[r] = <<>> THEN at[r] <= Len(Calls(r))
              ELSE Top(r).next <= Len(Top(r).call.inner)

NextCall(r) == IF stack[r] = <<>> THEN Calls(r)[at[r]] ELSE Top(r).call.inner[Top(r).next]

\* The calls a rank is in, with the innermost past its next inner call.
Advanced(s) == IF s = <<>> THEN s ELSE [s EXCEPT ![Len(s)].next = @ + 1]

Begin(r) ==
  /\ pc[r] = "app" /\ HasNext(r)
  /\ NextCall(r).fn \notin {"MPI_Init", "MPI_Finalize"}
  /\ clock' = clock + 2
  /\ stack' = [stack EXCEPT ![r] =
       Append(Advanced(@), [call |-> NextCall(r), next |-> 1, tstart |-> clock'])]
  /\ UNCHANGED <<program, at, kernel, disk, dir, pc, recording, data, meta, localVars, mem, written>>

\* MPI_Init and MPI_Init_thread start the logger after the real call.
CallInit(r) ==
  /\ pc[r] = "app" /\ stack[r] = <<>> /\ HasNext(r) /\ NextCall(r).fn = "MPI_Init"
  /\ pc' = [pc EXCEPT ![r] = "access"]
  /\ at' = [at EXCEPT ![r] = @ + 1]
  /\ UNCHANGED <<program, clock, stack, kernel, disk, dir, recording, data, meta, localVars, mem, written>>

CollectivesOf(r) == SelectSeq([i \in DOMAIN Calls(r) |-> i], LAMBDA i : Calls(r)[i].fn \in Collectives)

\* q is in the collective call number j of its program, or past it.
HasEntered(q, j) == LET i == CollectivesOf(q)[j] IN at[q] > i \/ (at[q] = i /\ stack[q] # <<>>)

\* A barrier waits for every rank and a broadcast for its root, rank 0; no
\* other collective call has to wait.
MayReturn(r, c) ==
  Len(stack[r]) = 1 /\ c.fn \in Collectives =>
    LET j == CHOOSE n \in DOMAIN CollectivesOf(r) : CollectivesOf(r)[n] = at[r]
    IN  \A q \in IF c.fn = "PMPI_Barrier" THEN Ranks ELSE {0} : HasEntered(q, j)

\* What a call moves: nothing when it fails.
Moved(c) == IF c.res > 0 THEN c.res ELSE 0

\* No other rank has a call on the file.
OnlyOf(r, f) ==
  \A q \in Ranks \ {r} : \A i \in DOMAIN Calls(q) :
    LET c == Calls(q)[i]
    IN  \A name \in {c.file, c.to} \ {NoFile} : Canonical[name] # f

SizeOf(f) == IF f \in DOMAIN disk THEN disk[f] ELSE [size |-> 0, told |-> FALSE]

\* The descriptors after the call.  "seen": the trace shows that it was
\* opened.  "astray": the position may have been moved, or the number been
\* given away, by a call the trace reader skips or takes for another: a
\* read, a descriptor of the same open file, a write of less than was asked,
\* a seek to an end the trace does not tell.
KernelAfter(r, c) ==
  LET known == kernel[r]
      desc == OnFile(r, c)
      Opened(d, seen) ==
        (d :> [file |-> Canonical[c.file], off |-> 0, seen |-> seen, astray |-> FALSE]) @@ known
      To(off, astray) == [known EXCEPT ![c.fd].off = off, ![c.fd].astray = @ \/ astray]
      end == SizeOf(desc.file)
  IN  CASE c.fn \in {"open", "open64", "creat", "creat64"} ->
             IF c.res >= 0 THEN Opened(c.res, recording[r] /\ c.fn \in {"open", "open64"}) ELSE known
        [] c.fn = "PMPI_File_open" -> Opened(c.fd, FALSE)
        [] c.fn \in {"close", "PMPI_File_close"} ->
             [d \in DOMAIN known \ {c.fd} |-> known[d]]
        [] c.fn \in {"dup", "dup2"} ->
             (c.res :> [desc EXCEPT !.astray = TRUE])
             @@ [d \in DOMAIN known |-> IF d = c.fd THEN [known[d] EXCEPT !.astray = TRUE] ELSE known[d]]
        [] c.fn \in {"read", "readv", "write", "writev"} /\ c.fd \in DOMAIN known ->
             To(desc.off + Moved(c), c.fn # "write" \/ c.res # c.len)
        [] c.fn \in {"lseek", "lseek64"} /\ c.fd \in DOMAIN known ->
             CASE c.whence = "set" -> To(c.off, FALSE)
               [] c.whence = "cur" -> To(desc.off + c.off, FALSE)
               [] c.whence = "end" -> To(end.size + c.off, ~end.told \/ ~OnlyOf(r, desc.file))
               [] OTHER -> To(desc.off, TRUE)
        [] OTHER -> known

\* The sizes after the call.  "told": they are those at the start and what
\* the writes in the trace have made of them.
DiskAfter(r, c) ==
  LET desc == OnFile(r, c)
      Now(f, size, told) == (f :> [size |-> size, told |-> told]) @@ disk
      named == {Canonical[name] : name \in {c.file, c.to} \ {NoFile}}
      start == IF c.fn = "write" THEN desc.off ELSE c.off
      old == SizeOf(desc.file)
  IN  CASE c.fn \in {"open", "open64"} ->
             IF c.res >= 0 /\ c.creat /\ Canonical[c.file] \notin DOMAIN disk
             THEN Now(Canonical[c.file], 0, TRUE) ELSE disk
        [] c.fn \in {"write", "pwrite", "pwrite64"} /\ desc.file # NoFile ->
             Now(desc.file, Max({old.size, start + Moved(c)}),
                 old.told /\ desc.seen /\ ~desc.astray /\ recording[r] /\ c.res = c.len)
        [] c.fn \in {"writev", "ftruncate"} /\ desc.file # NoFile -> Now(desc.file, 0, FALSE)
        [] c.fn \in {"creat", "creat64", "truncate", "unlink", "remove", "rename", "link"} ->
             [f \in DOMAIN disk \union named |->
                IF f \in named THEN [size |-> 0, told |-> FALSE] ELSE disk[f]]
        [] OTHER -> disk

End(r) ==
  /\ pc[r] = "app" /\ stack[r] # <<>> /\ ~HasNext(r)
  /\ LET c == Top(r).call
     IN  /\ MayReturn(r, c)
         /\ kernel' = [kernel EXCEPT ![r] = KernelAfter(r, c)]
         /\ disk' = DiskAfter(r, c)
         /\ IF recording[r] THEN Logged(r, RecordOf(r, c, Top(r).tstart))
            ELSE UNCHANGED <<pc, mem, written, total, count, table>>
  /\ stack' = [stack EXCEPT ![r] = Front(@)]
  /\ at' = IF Len(stack[r]) = 1 THEN [at EXCEPT ![r] = @ + 1] ELSE at
  /\ UNCHANGED <<program, clock, dir, recording, data, meta, summary>>

\* logger_exit: the metadata, with the file names in the order they were
\* added, and only then the rest of the buffer; a file is closed when it
\* has been written.
LoggerExit(r) ==
  LET m == MembufDump(mem[r])
      described == meta[r] # "null"
      dumped == described /\ (data[r] = "null" => m.file = mem[r].file)
  IN  /\ recording' = [recording EXCEPT ![r] = FALSE]
      /\ summary' = IF described THEN [summary EXCEPT ![r] =
           [num_files |-> Len(table[r]), total |-> total[r], count |-> count[r], names |-> table[r]]]
           ELSE summary
      /\ table' = IF described THEN [table EXCEPT ![r] = <<>>] ELSE table
      /\ meta' = IF described THEN [meta EXCEPT ![r] = "closed"] ELSE meta
      /\ mem' = IF dumped THEN [mem EXCEPT ![r] = m] ELSE mem
      /\ data' = IF dumped THEN [data EXCEPT ![r] = "closed"] ELSE data
      /\ pc' = [pc EXCEPT ![r] = IF dumped THEN "app" ELSE "crashed"]

CallFinalize(r) ==
  /\ pc[r] = "app" /\ stack[r] = <<>> /\ HasNext(r) /\ NextCall(r).fn = "MPI_Finalize"
  /\ LoggerExit(r)
  /\ at' = [at EXCEPT ![r] = @ + 1]
  /\ UNCHANGED <<program, clock, stack, kernel, disk, dir, total, count, written>>

RecorderNext ==
  \E r \in Ranks :
    \/ AccessDir(r) \/ RemoveDir(r) \/ MakeDir(r) \/ OpenData(r) \/ OpenMeta(r)
    \/ WriteGlobal(r) \/ StartRecording(r)
    \/ Begin(r) \/ CallInit(r) \/ End(r) \/ CallFinalize(r)

ProgramOver == \A r \in Ranks : pc[r] = "app" /\ stack[r] = <<>> /\ ~HasNext(r)
=============================================================================
