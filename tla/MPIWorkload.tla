---------------------------- MODULE MPIWorkload ----------------------------
(***************************************************************************)
(* What ParaCrash makes of the traces of an MPI program (MPI_Workload in   *)
(* pfs.py, Syscall.add_syscall in pfs_utils.py): the file calls of each    *)
(* rank, numbered by the barriers between them, and the legal replays, the *)
(* states a correct file system may leave behind.                          *)
(*                                                                         *)
(* On OrangeFS (program.mpi_only) the MPI calls are the workload, on the   *)
(* other file systems the POSIX calls are.                                 *)
(***************************************************************************)
EXTENDS Recorder, FiniteSets

VARIABLES phase,     \* "recording", "read", "replayed", "raised"
          workload,  \* the calls of each rank
          replays    \* the sequences of calls legal_replay performs

vars == <<recorderVars, phase, workload, replays>>

-----------------------------------------------------------------------------
(* Reading the traces. *)

\* No two calls of a workload, and no two lines, have the same time.
InTimeOrder(time) ==
  LET S == DOMAIN time
  IN  [i \in 1..Cardinality(S) |->
         CHOOSE x \in S : Cardinality({y \in S : time[y] < time[x]}) = i - 1]

\* The numbers of the records in a trace file, one for each end of a line.
LineEnd(piece) == IF piece.left = 0 THEN <<piece.line>> ELSE <<>>

Lines(r) == FlattenSeq([i \in DOMAIN mem[r].file |-> LineEnd(mem[r].file[i])])

RecordAt(l) == written[l.rank][l.n]

SortedLines ==
  InTimeOrder([l \in UNION {{[rank |-> r, n |-> n] : n \in Range(Lines(r))} : r \in Ranks}
                 |-> RecordAt(l).tstart])

\* What the reader keeps: a descriptor table and the calls of each rank, and
\* the file sizes, which the ranks share.
EmptyTables ==
  [fds |-> [r \in Ranks |-> <<>>], calls |-> [r \in Ranks |-> <<>>],
   fsztable |-> program.sizes, raised |-> FALSE]

Raise(t) == [t EXCEPT !.raised = TRUE]

GetDesc(t, r, fd) ==
  IF fd \in DOMAIN t.fds[r] THEN t.fds[r][fd] ELSE [file |-> NoFile, off |-> 0]

SetDesc(t, r, fd, file) == [t EXCEPT !.fds[r] = (fd :> [file |-> file, off |-> 0]) @@ @]

KeepDesc(t, r, fd) == t

RemoveDesc(t, r, fd) == [t EXCEPT !.fds[r] = [d \in DOMAIN @ \ {fd} |-> @[d]]]

\* The end of a file is known when the file was there before the run or has
\* been written to in the trace; a whence of another kind is refused.
SetOffset(t, r, fd, off, whence) ==
  LET desc == GetDesc(t, r, fd)
      To(n) == [t EXCEPT !.fds[r][fd].off = n]
  IN  CASE fd \notin DOMAIN t.fds[r] -> t
        [] fd \in DOMAIN t.fds[r] /\ whence = "set" -> To(off)
        [] fd \in DOMAIN t.fds[r] /\ whence = "cur" -> To(desc.off + off)
        [] fd \in DOMAIN t.fds[r] /\ whence = "end" /\ desc.file \in DOMAIN t.fsztable ->
             To(t.fsztable[desc.file] + off)
        [] OTHER -> Raise(t)

\* A write up to here: the size is raised, never lowered.
SetSize(t, file, end) ==
  IF file \notin DOMAIN t.fsztable \/ end > t.fsztable[file]
  THEN [t EXCEPT !.fsztable = (file :> end) @@ @] ELSE t

\* A call of the workload.  fn, call and on say where it comes from and are
\* read by the properties only.
Syscall(kind, file, off, time, rec) ==
  [kind |-> kind, file |-> file, off |-> off, time |-> time, id |-> 0,
   fn |-> rec.fn, call |-> rec.call, on |-> rec.on]

Add(t, r, kind, file, off, time, rec) ==
  [t EXCEPT !.calls[r] = Append(@, Syscall(kind, file, off, time, rec))]

\* Whether a call has failed, or written less than it was asked to, is not
\* looked at.  A write on a descriptor that is not in the table (of creat,
\* of dup, opened before MPI_Init) is left out.
AddPosix(t, r, rec) ==
  LET arg(i) == rec.args[i].val
      desc == GetDesc(t, r, arg(1))
      New(u, kind, file, off) == Add(u, r, kind, file, off, rec.tstart, rec)
  IN  CASE rec.fn \in {"open", "open64"} ->
             LET opened == SetDesc(t, r, rec.res, arg(1))
             IN  IF arg(2) THEN New(opened, "creat", arg(1), 0) ELSE opened
        [] rec.fn = "close" -> RemoveDesc(t, r, arg(1))
        [] rec.fn \in {"lseek", "lseek64"} -> SetOffset(t, r, arg(1), arg(2), arg(3))
        [] rec.fn \in {"pwrite", "pwrite64"} /\ desc.file # NoFile ->
             New(SetSize(t, desc.file, arg(4) + arg(3)), "pwrite", desc.file, arg(4))
        [] rec.fn = "write" /\ desc.file # NoFile ->
             LET end == desc.off + arg(3)
             IN  New(SetSize(SetOffset(t, r, arg(1), end, "set"), desc.file, end),
                     "pwrite", desc.file, desc.off)
        [] rec.fn = "ftruncate" -> New(t, "truncate", desc.file, 0)
        [] rec.fn \in {"fsync", "fdatasync"} -> New(t, "fsync", desc.file, 0)
        [] rec.fn \in {"unlink", "mkdir", "rename", "link"} -> New(t, "name", arg(1), 0)
        [] OTHER -> t

\* The two writes are asserted to be of one element, and of bytes.
AddMPI(t, r, rec) ==
  LET arg(i) == rec.args[i].val
      file == GetDesc(t, r, arg(1)).file
      New(u, kind, name, off, time) == Add(u, r, kind, name, off, time, rec)
  IN  CASE rec.fn = "PMPI_File_open" ->
             LET opened == SetDesc(t, r, arg(5), arg(2))
             IN  IF arg(3) THEN New(opened, "creat", arg(2), 0, rec.tstart) ELSE opened
        [] rec.fn = "PMPI_File_write_at_all" ->
             IF arg(4) # 1 THEN Raise(t)
             ELSE New(New(t, "barrier", NoFile, 0, rec.tstart), "pwrite", file, arg(2), rec.tstart + 1)
        [] rec.fn = "PMPI_File_write_at" ->
             IF arg(5) # "MPI_BYTE" THEN Raise(t)
             ELSE New(t, "pwrite", file, arg(2), rec.tstart)
        [] rec.fn = "PMPI_File_sync" -> New(t, "fsync", file, 0, rec.tstart)
        [] OTHER -> t

AddSyscall(t, line) ==
  LET rec == RecordAt(line)
      IsBarrier == rec.fn \in {"PMPI_Barrier", "PMPI_Bcast", "PMPI_File_close", "PMPI_File_set_view"}
  IN  IF t.raised THEN t
      ELSE IF IsBarrier THEN Add(t, line.rank, "barrier", NoFile, 0, rec.tstart, rec)
      ELSE IF program.mpi_only THEN AddMPI(t, line.rank, rec)
      ELSE AddPosix(t, line.rank, rec)

Parsed == FoldLeft(AddSyscall, EmptyTables, SortedLines)

-----------------------------------------------------------------------------
(* Barriers. *)

IsBarrier(s) == s.kind = "barrier"

Barriers(calls) == SelectSeq([i \in DOMAIN calls |-> i], LAMBDA i : IsBarrier(calls[i]))

\* Barrier n follows another one at once.
Follows(parsed, r, n) ==
  n > 1 /\ n \in DOMAIN Barriers(parsed[r])
  /\ Barriers(parsed[r])[n] - 1 = Barriers(parsed[r])[n - 1]

\* The assertion counts the barriers of the ranks that have any.  A rank
\* that has none is missed only if the search for duplicates comes to it:
\* for the first barrier it stops at rank 0, for a later one at the first
\* rank whose barrier does not follow another.
Unreadable(parsed) ==
  LET numbers == {Len(Barriers(parsed[r])) : r \in {q \in Ranks : Barriers(parsed[q]) # <<>>}}
  IN  \/ Cardinality(numbers) # 1
      \/ \E r \in Ranks, n \in 1..Max(numbers) :
           Barriers(parsed[r]) = <<>> /\ \A q \in Ranks : q < r => Follows(parsed, q, n)

\* The lines of a trace of an earlier run that belong to no process.
StrayTrace == \E f \in dir.files : f.kind = "itf" /\ f.rank \notin Ranks

DuplicatedInOne(parsed) ==
  {n \in UNION {DOMAIN Barriers(parsed[r]) : r \in Ranks} : \E r \in Ranks : Follows(parsed, r, n)}

\* The barriers that follow another one at once in every rank.
Duplicated(parsed) ==
  {n \in UNION {DOMAIN Barriers(parsed[r]) : r \in Ranks} : \A r \in Ranks : Follows(parsed, r, n)}

WithoutDuplicates(parsed, r) ==
  LET dropped == {Barriers(parsed[r])[n] : n \in Duplicated(parsed)}
      kept == SelectSeq([i \in DOMAIN parsed[r] |-> i], LAMBDA i : i \notin dropped)
  IN  [i \in DOMAIN kept |-> parsed[r][kept[i]]]

\* A barrier has its number, another call that of the last barrier before.
Numbered(calls) ==
  [i \in DOMAIN calls |->
     [calls[i] EXCEPT !.id = Cardinality({j \in 1..i : IsBarrier(calls[j])})]]

ReadTraces ==
  /\ phase = "recording" /\ ProgramOver
  /\ LET parsed == Parsed
     IN  IF StrayTrace \/ parsed.raised \/ Unreadable(parsed.calls)
         THEN phase' = "raised" /\ UNCHANGED workload
         ELSE /\ phase' = "read"
              /\ workload' = [r \in Ranks |-> Numbered(WithoutDuplicates(parsed.calls, r))]
  /\ UNCHANGED <<recorderVars, replays>>

-----------------------------------------------------------------------------
(* Legal replays. *)

\* One call of each rank: the last one performed there.
Combinations ==
  LET longest == Max({Len(workload[r]) : r \in Ranks})
  IN  {f \in [Ranks -> 1..longest] : \A r \in Ranks : f[r] \in DOMAIN workload[r]}

Consistent(f) ==
  /\ \A r \in Ranks : workload[r][f[r]].kind # "fsync"
  /\ \A r, q \in Ranks : workload[r][f[r]].id = workload[q][f[q]].id

CallAt(c) == workload[c.rank][c.n]

AllCalls == UNION {{[rank |-> r, n |-> n] : n \in DOMAIN workload[r]} : r \in Ranks}

PerformedBefore(f) ==
  InTimeOrder([c \in {d \in AllCalls : CallAt(d).time < workload[d.rank][f[d.rank]].time}
                 |-> CallAt(c).time])

PerformedUpTo(f) ==
  InTimeOrder([c \in {d \in AllCalls : CallAt(d).time <= workload[d.rank][f[d.rank]].time}
                 |-> CallAt(c).time])

\* Without a combination the mask cannot be built (all_combinations[-1]).
LegalReplay ==
  /\ phase = "read"
  /\ LET frontiers == {f \in Combinations : Consistent(f)}
     IN  IF frontiers = {}
         THEN phase' = "raised" /\ UNCHANGED replays
         ELSE phase' = "replayed" /\ replays' = {PerformedUpTo(f) : f \in frontiers}
  /\ UNCHANGED <<recorderVars, workload>>

Recording == phase = "recording" /\ RecorderNext /\ UNCHANGED <<phase, workload, replays>>

\* mpirun ends the job when a rank is lost.
Over == phase \in {"replayed", "raised"} \/ \E r \in Ranks : pc[r] = "crashed"

Stopped == Over /\ UNCHANGED vars

Init ==
  /\ RecorderInit
  /\ phase = "recording"
  /\ workload = [r \in Ranks |-> <<>>]
  /\ replays = {}

Next == Recording \/ ReadTraces \/ LegalReplay \/ Stopped

Spec == Init /\ [][Next]_vars

-----------------------------------------------------------------------------
(* Properties. *)

\* Whatever the sizes of the pieces, the data file and the buffer hold all
\* records of a rank in their order and nothing twice (membufAppend), and
\* the file alone does once the programs are over.  A rank crashes only if
\* there are others and the trace directory held no file when they started:
\* another rank removes a directory that is still empty (logger_init).
TraceComplete ==
  \A r \in Ranks :
    LET stream == FlattenSeq([k \in DOMAIN written[r] |-> Pieces(k, written[r][k])])
    IN  /\ mem[r].file \o mem[r].buf = stream
        /\ mem[r].pos = FoldLeft(LAMBDA n, p : n + p.size, 0, mem[r].buf)
        /\ mem[r].pos < BufSize
        /\ phase # "recording" => mem[r].buf = <<>>
        /\ pc[r] = "crashed" => Cardinality(Ranks) > 1 /\ program.found.files = {}

\* The metadata a rank leaves describes its trace: the number of records,
\* how many of each function, and each file named in them exactly once
\* (logger_exit, write_record, realrealpath).  When the rank could not write
\* its trace, and crashed after the metadata, they describe the records
\* that are lost.
MetaDescribesTrace ==
  \A r \in Ranks :
    summary[r] # <<>> =>
      LET numbers == IF pc[r] = "crashed" THEN [i \in DOMAIN written[r] |-> i] ELSE Lines(r)
          lines == [i \in DOMAIN numbers |-> written[r][numbers[i]]]
          paths(rec) == {a.val : a \in {b \in Range(rec.args) : b.kind = "path"}}
          named == UNION {paths(lines[i]) : i \in DOMAIN lines}
      IN  /\ summary[r].total = Len(lines)
          /\ \A i \in DOMAIN lines :
               summary[r].count[lines[i].fn]
                 = Cardinality({j \in DOMAIN lines : lines[j].fn = lines[i].fn})
          /\ IsInjective(summary[r].names) /\ Range(summary[r].names) = named
          /\ summary[r].num_files = Cardinality(named)

\* A call the workload has on a file was made on that file, and a write on
\* the place it went to: the tables built from the traces (set_desc,
\* remove_desc, set_offset, set_size) follow the descriptors through reuse,
\* nesting and seeks from the start, the position or the end.  Of a call on
\* a descriptor that was not open nothing is said, nor of one that is
\* astray, see KernelAfter; a write that is not in the workload has no place.
WritesPlaced ==
  \A r \in Ranks : \A i \in DOMAIN workload[r] :
    LET s == workload[r][i]
    IN  /\ s.kind \in {"pwrite", "fsync", "truncate"} /\ s.file # NoFile
        /\ s.on.file # NoFile /\ ~s.on.astray
        => s.file = s.on.file /\ (s.fn = "write" => s.off = s.on.off)

\* The program orders s before t: same rank, or a barrier or broadcast
\* between them.
Ordered(s, t) ==
  \/ s.rank = t.rank /\ s.n < t.n
  \/ /\ s.rank # t.rank
     /\ \E j \in DOMAIN CollectivesOf(s.rank) :
          LET i == CollectivesOf(s.rank)[j]
          IN  /\ CallAt(s).call < i /\ CallAt(t).call > CollectivesOf(t.rank)[j]
              /\ \/ Calls(s.rank)[i].fn = "PMPI_Barrier"
                 \/ Calls(s.rank)[i].fn = "PMPI_Bcast" /\ s.rank = 0

Effects(calls) == {c \in calls : CallAt(c).kind \notin {"barrier", "fsync"}}

\* No legal replay is a state the program cannot reach: it performs, with a
\* call, what the program orders before it, and performs that first
\* (create_syscalls, legal_replay).
ReplaysAreCuts ==
  \A replay \in replays : \A i \in DOMAIN replay :
    \A s \in AllCalls : Ordered(s, replay[i]) /\ s \in Effects(AllCalls) =>
      \E j \in 1..(i - 1) : replay[j] = s

\* Every state the program can reach is a legal replay, provided that each
\* rank has had an effect and that all that is taken for a barrier is one,
\* so that every rank has as many (legal_replay has no combination for a
\* rank that has done nothing, nor, past the first barrier, for a program in
\* which one rank alone closes an MPI file).
CutsAreReplayed ==
  phase = "replayed"
  /\ (\A c \in AllCalls : CallAt(c).kind = "barrier" => CallAt(c).fn = "PMPI_Barrier") =>
    \A done \in SUBSET Effects(AllCalls) :
      /\ \A r \in Ranks : \E c \in done : c.rank = r
      /\ \A t \in done, s \in Effects(AllCalls) : Ordered(s, t) => s \in done
      => \E replay \in replays : Effects(Range(replay)) = done
=============================================================================
