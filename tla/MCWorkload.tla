----------------------------- MODULE MCWorkload -----------------------------
(***************************************************************************)
(* Two ranks and small programs: file calls on both sides of barriers,     *)
(* barriers in a row, calls of MPI-IO that make POSIX calls, descriptors   *)
(* used again, payloads just below, at and above the size of the buffer,   *)
(* and calls the reader of the traces refuses.                             *)
(***************************************************************************)
EXTENDS MPIWorkload

Call == [fn |-> "", file |-> NoFile, to |-> NoFile, fd |-> 0, res |-> 0, len |-> 1,
         off |-> 0, creat |-> FALSE, whence |-> "set", view |-> 0,
         count |-> 1, type |-> "MPI_BYTE", inner |-> <<>>]

Fn(name) == [Call EXCEPT !.fn = name]
On(name, fd) == [Fn(name) EXCEPT !.fd = fd]
Opens(name, file, res, creat) == [Fn(name) EXCEPT !.file = file, !.res = res, !.creat = creat]
Write(fd, len) == [On("write", fd) EXCEPT !.len = len, !.res = len]
PWrite(fd, off, len) == [On("pwrite", fd) EXCEPT !.off = off, !.len = len, !.res = len]
Seek(fd, off, whence) == [On("lseek", fd) EXCEPT !.off = off, !.whence = whence]
Within(call, inner) == [call EXCEPT !.inner = inner]

Start == Fn("MPI_Init")
Finish == Fn("MPI_Finalize")
Barrier == Fn("PMPI_Barrier")
Bcast == Fn("PMPI_Bcast")

Small == 1
JustFits == BufSize - 1

\* The trace directory of an earlier run of as many ranks.
Earlier == [exists |-> TRUE, files |-> {FileOf(0, "itf"), FileOf(1, "itf")}]

Two(first, second) ==
  [calls |-> [r \in Ranks |-> IF r = 0 THEN first ELSE second], mpi_only |-> FALSE,
   found |-> Earlier, sizes |-> <<>>]

\* Writes on both sides of a barrier; a name with two spellings.
Around ==
  Two(<<Start, Opens("open", "f", 3, TRUE), Write(3, JustFits), Barrier, Write(3, BufSize), Finish>>,
      <<Opens("open", "g", 3, TRUE), Start, Opens("open64", "./g", 4, FALSE), PWrite(4, 2, BufSize + 2),
        Barrier, Write(3, Small), Finish>>)

\* Two barriers in a row on one rank, on the other with a call between.
Rows ==
  Two(<<Start, Opens("open", "f", 3, TRUE), Barrier, Barrier, On("fsync", 3), Write(3, Small), Finish>>,
      <<Start, Opens("open", "g", 3, TRUE), Barrier, Write(3, Small), Barrier, Write(3, Small), Finish>>)

RowsOnBoth ==
  Two(<<Start, Opens("open", "f", 3, TRUE), Barrier, Barrier, Write(3, Small), Finish>>,
      <<Start, Opens("open", "g", 3, TRUE), Barrier, Barrier, Write(3, Small), Finish>>)

\* Descriptor 3 is used again for a file the reader does not see opened,
\* 4 is redirected by dup2.
Reuse ==
  Two(<<Start, Opens("open", "f", 3, TRUE), Write(3, Small), Seek(3, 4, "cur"), Write(3, Small),
        On("close", 3), Opens("creat", "g", 3, TRUE), Write(3, Small), Barrier, Finish>>,
      <<Start, Barrier, Opens("open", "g", 4, TRUE), [On("dup2", 5) EXCEPT !.res = 4],
        Write(4, Small), Finish>>)

\* The root of a broadcast goes on; a rename names two files.
Broadcast ==
  Two(<<Start, Opens("open", "f", 3, TRUE), Bcast, [Fn("rename") EXCEPT !.file = "f", !.to = "h"], Finish>>,
      <<Start, Opens("open", "g", 3, TRUE), Bcast, Write(3, Small), Finish>>)

\* MPI-IO: as the workload on OrangeFS, and as the calls it makes elsewhere.
MPIFile(fh, other) ==
  <<Start,
    Within([Opens("PMPI_File_open", "f", 0, TRUE) EXCEPT !.fd = fh], <<Opens("open", "f", 3, TRUE)>>),
    On("PMPI_File_write_at_all", fh), other,
    Within(On("PMPI_File_close", fh), <<On("close", 3)>>), Finish>>

Collective ==
  Two(MPIFile(90, On("PMPI_File_sync", 90)),
      MPIFile(91, Within([On("PMPI_File_write_at", 91) EXCEPT !.off = 5, !.len = JustFits],
                         <<PWrite(3, 5, JustFits)>>)))

\* The trace directory is not there, or empty, or holds the trace of a
\* third rank as well; once without a barrier, which the reader asserts.
Minimal(found) ==
  [Two(<<Start, Opens("open", "f", 3, TRUE), Barrier, Finish>>,
       <<Start, Opens("open", "g", 3, TRUE), Barrier, Finish>>) EXCEPT !.found = found]

Alone ==
  Two(<<Start, Opens("open", "f", 3, TRUE), Finish>>, <<Start, Opens("open", "g", 3, TRUE), Finish>>)

\* Seeks to the end of a file that was there and has grown, in one rank; in
\* the other a write of less than asked, a failed open and a failed write.
Ends ==
  [Two(<<Start, Opens("open", "f", 3, FALSE), Seek(3, 1, "end"), Write(3, Small), PWrite(3, 6, JustFits),
         Seek(3, 0, "end"), Write(3, Small), Barrier, Finish>>,
       <<Start, Opens("open", "g", 3, TRUE), [Write(3, 2) EXCEPT !.res = 1], Write(3, Small),
         Opens("open", "h", -1, FALSE), [Write(-1, Small) EXCEPT !.res = -1], Barrier, Finish>>)
     EXCEPT !.sizes = "f" :> 2]

\* Seeks the reader cannot follow: to the end of a file made in the run, or
\* to its next hole.
SeekOnly(whence) ==
  Two(<<Start, Opens("open", "f", 3, TRUE), Seek(3, 0, whence), Barrier, Finish>>, <<Start, Barrier, Finish>>)

\* One rank alone opens MPI files, writes to the last and closes them.
Solo(handles) ==
  <<Start>> \o [i \in DOMAIN handles |-> [Opens("PMPI_File_open", "f", 0, TRUE) EXCEPT !.fd = handles[i]]]
  \o <<[On("PMPI_File_write_at", Last(handles)) EXCEPT !.off = 5]>>
  \o [i \in DOMAIN handles |-> On("PMPI_File_close", handles[i])] \o <<Finish>>

NotSolo == <<Start, Opens("open", "g", 3, TRUE), Write(3, Small), Finish>>

\* Writes the reader does not take: of two elements, or not of bytes.
Refused(write) ==
  LET calls == <<Start, [Opens("PMPI_File_open", "f", 0, TRUE) EXCEPT !.fd = 90], write, Finish>>
  IN  [Two(calls, <<Start, Finish>>) EXCEPT !.mpi_only = TRUE]

MCRanks == {0, 1}
MCPrograms ==
  {Around, Rows, RowsOnBoth, Reuse, Broadcast, Collective, [Collective EXCEPT !.mpi_only = TRUE], Alone,
   Ends, SeekOnly("end"), SeekOnly("hole"),
   Two(Solo(<<90>>), NotSolo), [Two(Solo(<<90>>), <<Start, Finish>>) EXCEPT !.mpi_only = TRUE],
   Two(Solo(<<90, 91>>), NotSolo), Two(NotSolo, Solo(<<90>>)),
   Refused([On("PMPI_File_write_at_all", 90) EXCEPT !.count = 2]),
   Refused([On("PMPI_File_write_at", 90) EXCEPT !.type = "MPI_INT"]),
   Minimal([exists |-> FALSE, files |-> {}]), Minimal([exists |-> TRUE, files |-> {}]),
   Minimal([exists |-> TRUE, files |-> {FileOf(2, "itf")}])}
MCInvocations ==
  LET calls == UNION {UNION {Range(p.calls[r]) : r \in Ranks} : p \in MCPrograms}
  IN  calls \union UNION {Range(c.inner) : c \in calls}
MCCanonical == [name \in {"f", "g", "h"} |-> name] @@ "./g" :> "g"
=============================================================================
