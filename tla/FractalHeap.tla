----------------------------- MODULE FractalHeap -----------------------------
(***************************************************************************)
(* The fractal heap of h5checkerV2_0.c: check_fheap goes over the blocks   *)
(* of a heap, HF_get_obj_info and HF_read fetch one object by its heap ID. *)
(*                                                                         *)
(* The managed objects lie in one address space that a doubling table cuts *)
(* into blocks: the rows of a table hold width blocks each, of the size    *)
(* start, start, 2 start, 4 start...; a block too large for a direct block *)
(* is an indirect one, with a table of its own.                            *)
(*                                                                         *)
(* A heap is [hdr, dtable, table, rows, man_size, max_man, id_len, filter, *)
(* flags, fs, block, huge]; block gives at an address [rows, off, ents]:   *)
(* the rows of an indirect block (0 for a direct one), its offset in the   *)
(* heap's space and the addresses of its children.  huge is the v2 B-tree  *)
(* of the objects that are too large for a block.                          *)
(***************************************************************************)
EXTENDS BTree2

CONSTANTS
    Overhead,       \* HF_MAN_ABS_DIRECT_OVERHEAD
    SizeofAddr, SizeofSize, \* of the file
    OffsetBits,     \* the bits of an offset (ck_hsize_t)
    WidthLimit,     \* HF_WIDTH_LIMIT
    DirectLimit,    \* HF_MAX_DIRECT_SIZE_LIMIT
    MaxIdLen,       \* HF_MAX_ID_LEN
    Uninitialized   \* the ids that uninitialized memory may hold

VARIABLES
    heap,           \* the heap, fixed
    scan,           \* check_fheap
    read            \* HF_get_obj_info and HF_read

Log2(n) == IF n = 0 THEN 0 ELSE CHOOSE k \in 0..n : 2^k <= n /\ n < 2^(k + 1)
PowerOfTwo(n) == n > 0 /\ n = 2^Log2(n)

-----------------------------------------------------------------------------
(* The doubling table [width, start, max_direct, max_index].               *)

(* check_dtable                                                            *)
DtableFails(t) ==
    \/ ~ PowerOfTwo(t.width) \/ ~ PowerOfTwo(t.start) \/ ~ PowerOfTwo(t.max_direct)
    \/ t.width > WidthLimit \/ t.max_direct > DirectLimit
    \/ t.max_index = 0

(* HF_dtable_init                                                          *)
StartBits(t) == Log2(t.start)
FirstRowBits(t) == StartBits(t) + Log2(t.width)
NumIdFirstRow(t) == t.start * t.width
MaxRootRows(t) == (t.max_index - FirstRowBits(t)) + 1
MaxDirectRows(t) == (Log2(t.max_direct) - StartBits(t)) + 2
RowBlockSize(t, row) == IF row = 0 THEN t.start ELSE t.start * 2^(row - 1)

(* Mutant: the first row is counted once too few.                          *)
LookupRowLess(t, off) ==
    LET high == Log2(off)
        row == high - FirstRowBits(t)
    IN  IF off < NumIdFirstRow(t) THEN [row |-> 0, col |-> off \div t.start]
        ELSE [row |-> row, col |-> (off - 2^high) \div RowBlockSize(t, row)]

(* Mutant: the column is computed from the whole offset.                   *)
LookupUnmasked(t, off) ==
    LET row == (Log2(off) - FirstRowBits(t)) + 1
    IN  IF off < NumIdFirstRow(t) THEN [row |-> 0, col |-> off \div t.start]
        ELSE [row |-> row, col |-> off \div RowBlockSize(t, row)]

(* HF_dtable_lookup: the row and column of the block that covers off.      *)
Lookup(t, off) ==
    LET high == Log2(off)
        row == (high - FirstRowBits(t)) + 1
    IN  IF off < NumIdFirstRow(t) THEN [row |-> 0, col |-> off \div t.start]
        ELSE [row |-> row, col |-> (off - 2^high) \div RowBlockSize(t, row)]

(* An offset for whose row the table has no block size: what is behind the *)
(* array is read and divided by.                                           *)
BeyondTable(t, off) == Lookup(t, off).row >= MaxRootRows(t)

(* HF_dtable_size_to_rows: the rows of an indirect block of that size.     *)
SizeToRows(t, size) == (Log2(size) - FirstRowBits(t)) + 1

(* A table whose rows make sense: its blocks have rows of their own, and   *)
(* the direct ones come first.                                             *)
DtableMatches(t, rows) ==
    /\ t.max_index <= OffsetBits
    /\ MaxDirectRows(t) <= MaxRootRows(t) /\ rows <= MaxRootRows(t)
    /\ \A row \in MaxDirectRows(t)..(MaxRootRows(t) - 1) :
          SizeToRows(t, RowBlockSize(t, row)) > 0

Entry(t, rc) == rc.row * t.width + rc.col
RowOf(t, entry) == entry \div t.width

-----------------------------------------------------------------------------
(* check_fheap                                                             *)

IdleScan == [pc |-> "idle", res |-> "none", todo |-> <<>>]
NoId == [type |-> "none", off |-> 0, size |-> 0, key |-> 0]
IdleRead == [pc |-> "idle", res |-> FALSE, id |-> NoId, at |-> Undef, size |-> 0,
             rows |-> 0, row |-> 0, col |-> 0]

(* HF_huge_init: an ID long enough holds the address of a huge object.     *)
HugeIdsDirect(h) ==
    h.id_len - 1 >= SizeofAddr + SizeofSize + IF h.filter THEN 4 + SizeofSize ELSE 0

(* The free-space manager's header and its list of sections.               *)
FreeSpaceHdrFails(h) == h.fs # Undef /\ BadAt(h.fs) # "none"
FreeSpaceSectFails(h) == h.fs # Undef /\ "sections" \in h.flags

(* check_fheap_hdr                                                         *)
HeapHdrFails(h) ==
    \/ BadAt(h.hdr) # "none"
    \/ "unknown" \in h.flags \/ h.id_len > MaxIdLen
    \/ DtableFails(h.dtable)
    \/ h.dtable.max_direct < h.max_man
    \/ h.dtable.max_index > 8 * SizeofSize
    \/ FreeSpaceHdrFails(h) \/ FreeSpaceSectFails(h)

(* check_iblock_real on a block that its parent gives nrows rows: read     *)
(* with another number than it was written with, it has no checksum where  *)
(* it should be.  Its own offset in the heap is not compared with anything. *)
BlockAt(a) == heap.block[a]
Readable(a) == a \in DOMAIN heap.block /\ BadAt(a) = "none"
IblockFails(a, nrows) ==
    ~ Readable(a) \/ BlockAt(a).rows # nrows \/ Range(BlockAt(a).ents) \subseteq {Undef}

(* check_dblock, filters included.                                         *)
DblockFails(a) == ~ Readable(a) \/ BlockAt(a).rows # 0

ScanHeader ==
    /\ scan.pc = "header"
    /\ scan' = IF HeapHdrFails(heap) THEN [scan EXCEPT !.pc = "done", !.res = "fail"]
               ELSE [scan EXCEPT !.pc = "blocks",
                        !.todo = IF heap.table = Undef THEN <<>>
                                 ELSE <<[at |-> heap.table, rows |-> heap.rows]>>]
    /\ UNCHANGED walk

(* Mutant: a child has as many rows as its parent.                         *)
HeapChildrenAsLarge(a, nrows) ==
    LET t == heap.dtable
        rows(e) == IF RowOf(t, e - 1) < MaxDirectRows(t) THEN 0 ELSE nrows
        all == [e \in 1..(nrows * t.width) |-> [at |-> BlockAt(a).ents[e], rows |-> rows(e)]]
    IN  SelectSeq(all, LAMBDA c : c.at # Undef)

(* The defined children of a block, direct ones with 0 rows.               *)
HeapChildren(a, nrows) ==
    LET t == heap.dtable
        rows(e) == LET row == RowOf(t, e - 1)
                   IN  IF row < MaxDirectRows(t) THEN 0
                       ELSE SizeToRows(t, RowBlockSize(t, row))
        all == [e \in 1..(nrows * t.width) |-> [at |-> BlockAt(a).ents[e], rows |-> rows(e)]]
    IN  SelectSeq(all, LAMBDA c : c.at # Undef)

(* check_iblock: children in order, the first error ends it all.           *)
ScanIblock ==
    /\ scan.pc = "blocks" /\ scan.todo # <<>> /\ Head(scan.todo).rows > 0
    /\ LET b == Head(scan.todo)
       IN scan' = IF IblockFails(b.at, b.rows) THEN [scan EXCEPT !.pc = "done", !.res = "fail"]
                  ELSE [scan EXCEPT !.todo = HeapChildren(b.at, b.rows) \o Tail(@)]
    /\ UNCHANGED walk

ScanDblock ==
    /\ scan.pc = "blocks" /\ scan.todo # <<>> /\ Head(scan.todo).rows = 0
    /\ scan' = IF DblockFails(Head(scan.todo).at)
               THEN [scan EXCEPT !.pc = "done", !.res = "fail"]
               ELSE [scan EXCEPT !.todo = Tail(@)]
    /\ UNCHANGED walk

(* The tree of huge objects is walked without a callback.                  *)
ScanHuge ==
    /\ scan.pc = "blocks" /\ scan.todo = <<>>
    /\ IF heap.huge.hdr = Undef
       THEN scan' = [scan EXCEPT !.pc = "done", !.res = "ok"] /\ UNCHANGED walk
       ELSE scan' = [scan EXCEPT !.pc = "huge"] /\ WalkStart(heap.huge)

ScanHugeRecord ==
    /\ scan.pc = "huge" /\ Walking /\ RecordsLeft
    /\ WalkRecord(TRUE)
    /\ UNCHANGED scan

ScanHugeDone ==
    /\ scan.pc = "huge" /\ ~ Walking
    /\ scan' = [scan EXCEPT !.pc = "done", !.res = walk.res]
    /\ UNCHANGED walk

ScanNext ==
    ScanHeader \/ ScanIblock \/ ScanDblock \/ ScanHuge \/ ScanHugeRecord \/ ScanHugeDone

-----------------------------------------------------------------------------
(* HF_get_obj_info and HF_read.  An ID is [type, off, size, key]: managed  *)
(* objects have an offset and a size, huge ones a key or an address (off). *)

ReadReturns(res) == read' = [read EXCEPT !.pc = "done", !.res = res]
ReadFails == ReadReturns(FALSE)

(* An assertion does not hold, or memory is used that is not the process's *)
(* own: h5check is killed.                                                 *)
ReadDies == read' = [read EXCEPT !.pc = "dead"]

ReadStart(id) == read' = [IdleRead EXCEPT !.pc = "info", !.id = id]

(* An ID of another version or type is refused.  A tiny object is copied   *)
(* out of its ID, and HF_read fails all the same: the statement that sets  *)
(* the return value is not under the condition.  An ID of another version  *)
(* is taken apart before it is refused; it may be that of a huge object.   *)
ReadOther ==
    /\ read.pc = "info" /\ read.id.type \notin {"managed", "huge"}
    /\ \/ ReadFails
       \/ read.id.type = "version" /\ heap.huge.hdr = Undef /\ ReadDies
    /\ UNCHANGED find

(* HF_huge_get_obj_info looks the key up with a record laid out as for     *)
(* filtered objects; the comparison takes it for a record of the tree's    *)
(* class, and finds the id only where both layouts have it.                *)
TreeClass == IF heap.filter THEN "filt_indir" ELSE "indir"
SearchKeys(id) ==
    IF IdField(TreeClass) = IdField("filt_indir") THEN {id.key} ELSE Uninitialized

(* The heap must have a tree of huge objects, also when it is not used.    *)
ReadHugeInfo ==
    /\ read.pc = "info" /\ read.id.type = "huge"
    /\ IF heap.huge.hdr = Undef THEN ReadDies /\ UNCHANGED find
       ELSE IF HugeIdsDirect(heap)
       THEN /\ read' = [read EXCEPT !.pc = "huge", !.at = read.id.off, !.size = read.id.size]
            /\ UNCHANGED find
       ELSE /\ read' = [read EXCEPT !.pc = "find"]
            /\ \E key \in SearchKeys(read.id) : FindStart(heap.huge, key)

ReadHugeFound ==
    /\ read.pc = "find" /\ ~ Finding
    /\ IF find.res = "ok"
       THEN read' = [read EXCEPT !.pc = "huge", !.at = find.got.addr, !.size = find.got.len]
       ELSE ReadFails
    /\ UNCHANGED find

(* HF_huge_read reads what is there, a filtered object with its filters on. *)
ReadHuge ==
    /\ read.pc = "huge"
    /\ IF read.at = Undef \/ read.size = 0 THEN ReadDies
       ELSE ReadReturns(BadAt(read.at) # "stop")
    /\ UNCHANGED find

ReadsRaw(id) == id.type = "huge" /\ heap.filter

(* HF_man_read.  An object that cannot be managed is an error, and looked  *)
(* for all the same.                                                       *)
Unmanaged(id) ==
    \/ id.off > heap.man_size
    \/ id.size > heap.dtable.max_direct
    \/ id.size > heap.max_man

(* What it asserts, and check_dblock of its address.                       *)
Asserted(id) == id.off > 0 /\ id.size > 0 /\ (heap.rows = 0 => heap.table # Undef)

(* HF_man_dblock_locate goes into an indirect block.                       *)
Enter(a, nrows, off) ==
    LET rc == Lookup(heap.dtable, off)
    IN  read' = [read EXCEPT !.pc = "locate", !.at = a, !.rows = nrows,
                    !.row = rc.row, !.col = rc.col]

(* The root's row may be one that the root does not have.                  *)
ReadManaged ==
    /\ read.pc = "info" /\ read.id.type = "managed"
    /\ \/ ~ Asserted(read.id) /\ ReadDies
       \/ /\ Asserted(read.id) /\ heap.rows = 0
          /\ read' = [read EXCEPT !.pc = "dblock", !.at = heap.table]
       \/ /\ Asserted(read.id) /\ heap.rows > 0
          /\ \/ BeyondTable(heap.dtable, read.id.off) /\ ReadDies
             \/ IF IblockFails(heap.table, heap.rows) THEN ReadFails
                ELSE Enter(heap.table, heap.rows, read.id.off)
    /\ UNCHANGED find

(* The entry of a row that the block does not have is what lies behind its *)
(* array, and the rows of a child there follow from any block size.        *)
OutOfBlock == read.row >= read.rows
Slot ==
    IF OutOfBlock THEN DOMAIN heap.block \cup {Undef}
    ELSE {BlockAt(read.at).ents[Entry(heap.dtable, read) + 1]}
ChildRows ==
    IF read.row >= MaxRootRows(heap.dtable) THEN 0..read.rows
    ELSE {SizeToRows(heap.dtable, RowBlockSize(heap.dtable, read.row))}

ReadDirect ==
    /\ read.pc = "locate" /\ read.row < MaxDirectRows(heap.dtable)
    /\ \/ OutOfBlock /\ ReadDies
       \/ \E child \in Slot : IF child = Undef THEN ReadFails
                              ELSE read' = [read EXCEPT !.pc = "dblock", !.at = child]
    /\ UNCHANGED find

(* The offset in a child: what the child says of itself is not compared    *)
(* with anything, and the difference wraps.                                *)
Relative(off, a) == (off - BlockAt(a).off) % 2^OffsetBits

(* One indirect block further down.                                        *)
Descend(child, nrows) ==
    LET off == Relative(read.id.off, child)
    IN  IF IblockFails(child, nrows) THEN ReadFails
        ELSE \/ BeyondTable(heap.dtable, off) /\ ReadDies
             \/ IF Lookup(heap.dtable, off).row >= nrows THEN ReadFails
                ELSE Enter(child, nrows, off)

ReadIndirect ==
    /\ read.pc = "locate" /\ read.row >= MaxDirectRows(heap.dtable)
    /\ \E nrows \in ChildRows :
          IF nrows >= read.rows THEN ReadFails
          ELSE \/ OutOfBlock /\ ReadDies
               \/ \E child \in Slot : Descend(child, nrows)
    /\ UNCHANGED find

(* The size the doubling table gives the block.                            *)
BlockSize == IF heap.rows = 0 THEN heap.dtable.start ELSE RowBlockSize(heap.dtable, read.row)

(* The object lies in the block, behind its prefix.                        *)
Fits(id, a) ==
    LET off == Relative(id.off, a)
    IN  off >= Overhead /\ off < BlockSize /\ off + id.size <= BlockSize

ReadDblock ==
    /\ read.pc = "dblock"
    /\ IF DblockFails(read.at) \/ ~ Fits(read.id, read.at) THEN ReadFails
       ELSE ReadReturns(~ Unmanaged(read.id))
    /\ UNCHANGED find

ReadNext ==
    \/ ReadOther \/ ReadHugeInfo \/ ReadHugeFound \/ ReadHuge
    \/ ReadManaged \/ ReadDirect \/ ReadIndirect \/ ReadDblock

=============================================================================
