------------------------------- MODULE Storage -------------------------------
(***************************************************************************)
(* From the name of a file to a block of a heap in memory: file_init opens *)
(* the file with the driver its superblock names and compares its end with *)
(* the end of the allocated addresses; check_dblock reads a block and      *)
(* undoes the filters of the heap's pipeline, the last one first.          *)
(*                                                                         *)
(* A request is [addr, size, pline, mask, want]: where the block is, its   *)
(* bytes in the file, its filters [id, cd], those that were left out when  *)
(* it was stored, and its size in memory.                                  *)
(***************************************************************************)
EXTENDS Drivers, Filters

CONSTANT Cases  \* records [disk, req, plain]: the input and what was stored

VARIABLES
    req,
    plain,      \* the block that was stored, <<>> when nothing sound was
    pc,
    res,        \* "run", "ok", "fail" or "crash"
    pipe        \* filter_pline [i, nbytes, buf, failed]

vars == <<disk, fd, io, req, plain, pc, res, pipe>>
input == <<disk, req, plain>>

IdlePipe == [i |-> 0, nbytes |-> 0, buf |-> <<>>, failed |-> FALSE]

Stop(why) == pc' = "done" /\ res' = why
Goto(where) == pc' = where /\ UNCHANGED res

(* The file is opened with the default driver...                           *)
Open ==
    /\ pc = "open"
    /\ OpenDefault
    /\ IF fd'.driver = "none" THEN Stop("fail") ELSE Goto("driver")
    /\ UNCHANGED <<input, io, pipe>>

(* ...and again with the one the superblock names.                         *)
OpenAgain ==
    /\ pc = "driver"
    /\ IF DecodeFails THEN UNCHANGED fd /\ Stop("fail")
       ELSE IF DriverId(disk.info) = "sec2" THEN UNCHANGED fd /\ Goto("eof")
       ELSE IF DriverId(disk.info) = "multi" /\ NoName THEN UNCHANGED fd /\ Stop("crash")
       ELSE /\ Reopen
            /\ IF fd'.driver = "none" THEN Stop("fail") ELSE Goto("eof")
    /\ UNCHANGED <<input, io, pipe>>

CompareEof ==
    /\ pc = "eof"
    /\ IF Eof < disk.eoa THEN Stop("fail") /\ UNCHANGED io
       ELSE Goto("read") /\ ReadStart(req.addr, req.size)
    /\ UNCHANGED <<input, fd, pipe>>

(* check_dblock: the block's bytes.                                        *)
ReadBlock ==
    /\ pc = "read" /\ ReadStep
    /\ UNCHANGED <<input, fd, pc, res, pipe>>

BlockRead ==
    /\ pc = "read" /\ io.res \in {"ok", "fail"}
    /\ IF io.res = "fail" THEN Stop("fail")
       ELSE IF req.pline # <<>> /\ PipelineAborts(req.pline, io.buf) THEN Stop("crash")
       ELSE Goto("filter")
    /\ pipe' = [i |-> Len(req.pline), nbytes |-> Len(io.buf), buf |-> io.buf, failed |-> FALSE]
    /\ UNCHANGED <<input, fd, io>>

(* filter_pline: one filter.  req.mask is not looked at: the test of       *)
(* filter_mask is compiled out, and a filter that the block says was left  *)
(* out is undone all the same.                                             *)
UndoFilter ==
    /\ pc = "filter" /\ pipe.i > 0
    /\ LET f == req.pline[pipe.i]
       IN IF f.id \notin Registered THEN Stop("fail") /\ UNCHANGED pipe
          ELSE IF Crashes(f, pipe.nbytes, pipe.buf) THEN Stop("crash") /\ UNCHANGED pipe
          ELSE \E garbage \in Uninitialized :
               LET out == Apply(f, pipe.nbytes, pipe.buf, garbage)
               IN IF out.nbytes = 0 THEN Stop("fail") /\ UNCHANGED pipe
                  ELSE /\ pipe' = [i |-> pipe.i - 1, nbytes |-> out.nbytes, buf |-> out.buf,
                                   failed |-> pipe.failed \/ out.nbytes = FilterFailed]
                       /\ UNCHANGED <<pc, res>>
    /\ UNCHANGED <<input, fd, io>>

(* The bytes that came out must be as many as the block has.               *)
FiltersUndone ==
    /\ pc = "filter" /\ pipe.i = 0
    /\ Stop(IF pipe.nbytes = req.want THEN "ok" ELSE "fail")
    /\ UNCHANGED <<input, fd, io, pipe>>

Init ==
    /\ \E c \in Cases : disk = c.disk /\ req = c.req /\ plain = c.plain
    /\ fd = Closed /\ io = IdleIo /\ pipe = IdlePipe
    /\ pc = "open" /\ res = "run"

Done == pc = "done" /\ UNCHANGED vars

Next ==
    \/ Open \/ OpenAgain \/ CompareEof \/ ReadBlock \/ BlockRead \/ UndoFilter \/ FiltersUndone
    \/ Done

Spec == Init /\ [][Next]_vars

-----------------------------------------------------------------------------
(* What the files hold, by the format: where each member begins, and the   *)
(* byte at an address.                                                     *)
Base(m) ==
    CASE disk.info = "NCSAfami" -> m * disk.msize
      [] disk.info = "NCSAmult" -> MembAddr[m]
      [] OTHER -> 0

(* Families whose members but the last are full, multi files whose members *)
(* do not overlap, each type first among those stored in its member.       *)
SoundDisk ==
    /\ disk.super = 0 \/ disk.info = "none"
    /\ disk.info \in {"none", "NCSAfami", "NCSAmult"}
    /\ First \in DOMAIN disk.memb
    /\ disk.info = "NCSAfami" =>
          \A m \in DOMAIN disk.memb :
             /\ m \in 1..Cardinality(DOMAIN disk.memb) \cup {0}
             /\ (m + 1 \in DOMAIN disk.memb /\ Len(disk.memb[m + 1]) > 0) => Len(disk.memb[m]) = disk.msize
             /\ Len(disk.memb[m]) <= disk.msize
             /\ m # 0 => m - 1 \in DOMAIN disk.memb
    /\ disk.info = "NCSAmult" =>
          /\ Members \subseteq DOMAIN disk.memb
          /\ \A m \in Members : m \in Unmapped
          /\ \A m, n \in Members : Base(m) < Base(n) => Base(m) + Len(disk.memb[m]) <= Base(n)

(* The members that hold a byte, counted from the beginning of the user    *)
(* block, and the byte.                                                    *)
Homes(at) ==
    {m \in IF disk.info = "NCSAmult" THEN Members ELSE DOMAIN disk.memb :
        Base(m) <= at /\ at < Base(m) + Len(disk.memb[m])}
ByteAt(at) == LET m == CHOOSE m \in Homes(at) : TRUE IN disk.memb[m][at - Base(m) + 1]
EndStored == CHOOSE e \in 0..AddrUndef : /\ e = 0 \/ Homes(e - 1) # {}
                                         /\ \A at \in e..AddrUndef : Homes(at) = {}

(* One read stays in one member of a multi file.                           *)
CanBeRead(addr, size) ==
    LET span == (addr + disk.super)..(addr + disk.super + size - 1)
    IN  /\ \A at \in span : Homes(at) # {}
        /\ disk.info = "NCSAmult" =>
              \E m \in Members : \A at \in span : m \in Homes(at)

(* A compound whose first member is an array of arrays or compounds and    *)
(* not its last one.                                                       *)
Rewound(cd) ==
    /\ cd[4] = CompoundClass /\ cd[6] > 1
    /\ cd[8] = ArrayClass /\ cd[10] \in {ArrayClass, CompoundClass}

(* Filters that give back the size of the buffer as that of the data.      *)
PassesOn(f) ==
    \/ f.id = "nbit" /\ f.cd[2] # 0
    \/ f.id = "scaleoffset" /\ f.cd[2] = f.cd[5] * ByteBits

(* Filters whose values are undone right; the pipelines that get them the  *)
(* right number of bytes as well: what passes on the size of the buffer    *)
(* needs a buffer that is no longer than its data.                         *)
ValuesKept(pline) ==
    \A k \in DOMAIN pline :
        /\ pline[k].id = "nbit" => ~ Rewound(pline[k].cd)
        /\ pline[k].id = "scaleoffset" => pline[k].cd[5] \in IntSizes
Undoable(pline) ==
    /\ ValuesKept(pline)
    /\ \A k, l \in DOMAIN pline : k < l /\ PassesOn(pline[k]) => pline[l].id \notin {"deflate", "fletcher32"}

(* A block as the library stores one, its pipeline applied to it but for   *)
(* the filters in the mask.                                                *)
StoredSoundly == SoundDisk /\ plain # <<>>
Restored == SubSeq(pipe.buf, 1, req.want) = plain

-----------------------------------------------------------------------------
(* Types.  Every byte a filter puts out is a byte.                         *)
StorageTypeOK ==
    /\ fd.driver \in {"none", "sec2", "multi", "family"} /\ fd.memb \subseteq DOMAIN disk.memb
    /\ io.res \in {"idle", "run", "ok", "fail"} /\ io.size \in 0..req.size
    /\ pc \in {"open", "driver", "eof", "read", "filter", "done"}
    /\ res \in {"run", "ok", "fail", "crash"} /\ (pc = "done") = (res # "run")
    /\ pipe.i \in 0..Len(req.pline) /\ pipe.nbytes \in 0..SizeMax
    /\ req.pline # <<>> => \A j \in DOMAIN pipe.buf : pipe.buf[j] \in Byte

(* A read gets the bytes at its addresses, whichever members they are in,  *)
(* also when it begins or ends where a member does, and it fails only when *)
(* some of them are nowhere.                                               *)
ReadsVirtualFile ==
    SoundDisk /\ io.res \in {"ok", "fail"} =>
        /\ io.res = "ok" => io.buf = [j \in 1..req.size |-> ByteAt(req.addr + disk.super + j - 1)]
        /\ CanBeRead(req.addr, req.size) => io.res = "ok"

(* A file is opened exactly when nothing is missing at its end; a family   *)
(* may have empty members behind it.                                       *)
OpenedIfWhole ==
    SoundDisk =>
        /\ pc \in {"read", "filter"} => EndStored >= disk.eoa
        /\ pc = "done" /\ io.res = "idle" => EndStored < disk.eoa

(* A block stored through all of a pipeline of fewer than MaxFilters       *)
(* filters comes out as it went in, the bits that an N-bit type does not   *)
(* use cleared, except for what the code gets wrong: an N-bit or           *)
(* scale-offset filter that had nothing to do and was followed by deflate  *)
(* or fletcher32 may make check_dblock refuse the block, but never take    *)
(* other bytes for it; a compound that begins with an array of arrays or   *)
(* of compounds, and integers of a size C does not have, may come out as   *)
(* anything.                                                               *)
BlockRestored ==
    StoredSoundly /\ req.mask = {} /\ Len(req.pline) < MaxFilters /\ pc = "done" =>
        /\ Undoable(req.pline) => res = "ok" /\ Restored
        /\ ValuesKept(req.pline) => res = "fail" \/ (res = "ok" /\ Restored)

(* "I/O should fail if filter fails."                                      *)
FailedFilterFails == res = "ok" => ~ pipe.failed

=============================================================================
