-------------------------------- MODULE Dense --------------------------------
(***************************************************************************)
(* Groups and attributes in dense storage (decode_validate_messages, link  *)
(* and attribute info): the messages are objects of a fractal heap and one *)
(* or two v2 B-trees index them by creation order and by name.  The heap   *)
(* is checked, opened, and both trees are walked with a callback that      *)
(* reads a record's message from the heap and, if it is a link, decodes    *)
(* and follows it.                                                         *)
(***************************************************************************)
EXTENDS FractalHeap

CONSTANTS
    Cases           \* the inputs: records [heap, corder, name, bad]

(* The parameters of a doubling table that is accepted go together, as     *)
(* those of a header with the right checksum do.                           *)
ASSUME CasesAssumption ==
    \A c \in Cases : LET t == c.heap.dtable IN
        DtableFails(t) \/ t.max_direct < c.heap.max_man \/ DtableMatches(t, c.heap.rows)

VARIABLES
    index,          \* the trees [corder, name], fixed
    pc,
    opened,         \* the heap was checked and opened
    followed,       \* the records whose messages were read and followed
    err             \* ret_err and ret_other_err

vars == <<bad, walk, find, heap, scan, read, index, pc, opened, followed, err>>
input == <<bad, heap, index>>

(* check_fheap, then HF_open, which validates the header again.            *)
CheckHeap ==
    /\ pc = "heap" /\ scan.pc = "done"
    /\ pc' = "corder"
    /\ opened' = (scan.res = "ok")
    /\ err' = IF scan.res = "ok" THEN err ELSE err + 1
    /\ UNCHANGED <<input, walk, find, scan, read, followed>>

(* An index that is not there is passed over.                              *)
StartIndex(where, tree, next) ==
    /\ pc = where
    /\ IF tree.hdr = Undef THEN pc' = next /\ UNCHANGED walk
       ELSE pc' = where \o " walk" /\ WalkStart(tree)
    /\ UNCHANGED <<input, find, scan, read, opened, followed, err>>

EndIndex(where, next) ==
    /\ pc = where \o " walk" /\ ~ Walking
    /\ pc' = next
    /\ err' = IF walk.res = "ok" THEN err ELSE err + 1
    /\ UNCHANGED <<input, walk, find, scan, read, opened, followed>>

Indexing == pc \in {"corder walk", "name walk"} /\ Walking
AtRecord == Indexing /\ walk.rec > 0 /\ RecordsLeft

(* Without a heap the records are passed over.                             *)
PassRecord ==
    /\ AtRecord /\ ~ opened
    /\ WalkRecord(TRUE)
    /\ UNCHANGED <<input, find, scan, read, pc, opened, followed, err>>

(* G_dense_ck_fh_msg_cb, A_dense_ck_fh_msg_cb                              *)
CallRecord ==
    /\ AtRecord /\ opened /\ read.pc = "idle"
    /\ ReadStart(NextRecord.id)
    /\ UNCHANGED <<input, walk, find, scan, pc, opened, followed, err>>

(* The message is decoded, and the header a hard link leads to checked.    *)
(* What was read with its filters on may be anything.                      *)
Decodes ==
    IF ~ read.res THEN {FALSE}
    ELSE IF ReadsRaw(read.id) THEN BOOLEAN
    ELSE {NextRecord.mesg # "damaged"}

FollowRecord ==
    /\ AtRecord /\ read.pc = "done"
    /\ \E ok \in Decodes :
          /\ WalkRecord(ok)
          /\ followed' = IF ok THEN Append(followed, [tree |-> walk.tree.hdr, key |-> NextRecord.key])
                         ELSE followed
    /\ read' = IdleRead
    /\ UNCHANGED <<input, find, scan, pc, opened, err>>

ReadRecord ==
    /\ AtRecord /\ opened
    /\ ReadNext
    /\ UNCHANGED <<input, walk, scan, pc, opened, followed, err>>

FindRecord ==
    /\ FindInternal \/ FindLeaf
    /\ UNCHANGED <<input, walk, scan, read, pc, opened, followed, err>>

WalkStep ==
    /\ WalkRead \/ WalkDown
    /\ UNCHANGED <<input, find, scan, read, pc, opened, followed, err>>

ScanStep ==
    /\ pc = "heap" /\ ScanNext
    /\ UNCHANGED <<input, find, read, pc, opened, followed, err>>

Init ==
    /\ \E c \in Cases :
          /\ heap = c.heap /\ bad = c.bad
          /\ index = [corder |-> c.corder, name |-> c.name]
    /\ walk = IdleWalk /\ find = IdleFind /\ read = IdleRead
    /\ scan = [IdleScan EXCEPT !.pc = "header"]
    /\ pc = "heap" /\ opened = FALSE /\ followed = <<>> /\ err = 0

Ended == pc = "done" \/ read.pc = "dead"
Finished == Ended /\ UNCHANGED vars

Next ==
    \/ ScanStep \/ CheckHeap
    \/ StartIndex("corder", index.corder, "name") \/ EndIndex("corder", "name")
    \/ StartIndex("name", index.name, "done") \/ EndIndex("name", "done")
    \/ WalkStep \/ PassRecord \/ CallRecord \/ ReadRecord \/ FindRecord \/ FollowRecord
    \/ Finished

(* One thread, which runs until the message is validated.                  *)
Spec == Init /\ [][Next]_vars /\ WF_vars(Next)

-----------------------------------------------------------------------------
(* What the heap and its indexes hold.                                     *)

(* The blocks that the doubling table reaches, each with the offset and    *)
(* size the format gives it.                                               *)
RowStart(t, row) == IF row = 0 THEN 0 ELSE t.start * t.width * 2^(row - 1)
ChildAt(t, b, e) ==
    LET row == (e - 1) \div t.width
        size == RowBlockSize(t, row)
    IN  [at |-> BlockAt(b.at).ents[e], off |-> b.off + RowStart(t, row) + size * ((e - 1) % t.width),
         size |-> size, rows |-> IF size <= t.max_direct THEN 0
                                 ELSE Cardinality({r \in 1..b.rows : RowStart(t, r) <= size})]

Layout ==
    LET t == heap.dtable
        root == [at |-> heap.table, off |-> 0, rows |-> heap.rows, size |-> t.start]
        below(b) == IF b.rows = 0 \/ b.at \notin DOMAIN heap.block \/ BlockAt(b.at).rows # b.rows
                    THEN {}
                    ELSE {c \in {ChildAt(t, b, e) : e \in DOMAIN BlockAt(b.at).ents} : c.at # Undef}
        reach[n \in 0..4] ==
            IF n = 0 THEN {root} ELSE reach[n - 1] \cup UNION {below(b) : b \in reach[n - 1]}
    IN  IF heap.table = Undef THEN {} ELSE reach[4]

(* Every block is where the doubling table puts it.                        *)
HeapPlaced ==
    \A b \in Layout :
        /\ b.at \in DOMAIN heap.block
        /\ BlockAt(b.at).off = b.off /\ BlockAt(b.at).rows = b.rows

HeapSound ==
    /\ ~ HeapHdrFails(heap) /\ HeapPlaced
    /\ \A b \in Layout : BadAt(b.at) = "none"
    /\ heap.huge.hdr # Undef => BadAt(heap.huge.hdr) = "none"
    /\ \A a \in NodesOf(heap.huge) : BadAt(a) = "none"

TreeSound(tree) ==
    /\ Ordered(tree) /\ BadAt(tree.hdr) = "none"
    /\ \A a \in NodesOf(tree) : BadAt(a) = "none"

(* A managed object lies in a direct block and not over its prefix.        *)
Stored(id) ==
    /\ ~ Unmanaged(id) /\ id.size > 0
    /\ \E b \in Layout : /\ b.rows = 0 /\ b.at # Undef
                         /\ b.off + Overhead <= id.off /\ id.off + id.size <= b.off + b.size

Trees == {t \in {index.corder, index.name} : t.hdr # Undef}
IndexRecords == UNION {RecordsOf(t) : t \in Trees}

(* What can be read: managed objects, and huge ones whose ID holds their   *)
(* address and that went through no filter.                                *)
Fetchable(id) ==
    \/ id.type = "managed" /\ Stored(id)
    \/ /\ id.type = "huge" /\ HugeIdsDirect(heap) /\ ~ heap.filter
       /\ heap.huge.hdr # Undef /\ id.off # Undef /\ id.size > 0 /\ BadAt(id.off) # "stop"

DenseSound ==
    /\ HeapSound
    /\ \A t \in Trees : TreeSound(t)
    /\ \A r \in IndexRecords : r.mesg # "damaged" /\ Fetchable(r.id)

-----------------------------------------------------------------------------
(* Types.                                                                  *)
DenseTypeOK ==
    /\ walk.res \in {"idle", "run", "ok", "fail"} /\ find.res \in {"idle", "run", "ok", "fail"}
    /\ walk.res = "run" => walk.todo # <<>> /\ walk.rec \in 0..(Len(WalkNode.recs) + 1)
    /\ \A j \in DOMAIN walk.todo : walk.todo[j].depth \in 0..walk.tree.depth
    /\ find.res = "run" => find.depth \in 0..find.tree.depth
    /\ scan.pc \in {"header", "blocks", "huge", "done"}
    /\ \A j \in DOMAIN scan.todo : scan.todo[j].rows \in 0..heap.rows
    /\ read.pc \in {"idle", "info", "find", "huge", "locate", "dblock", "done", "dead"}
    /\ read.pc = "locate" /\ read.id.off < heap.man_size /\ HeapPlaced =>
          read.row \in 0..(read.rows - 1) /\ read.col \in 0..(heap.dtable.width - 1)
    /\ opened \in BOOLEAN /\ err \in 0..3

(* HF_man_read finds the managed objects of a heap: what it finds for an   *)
(* offset below the heap's size lies in the direct block to which the      *)
(* doubling table assigns that offset, also in a heap where another block  *)
(* says of itself that it is elsewhere, and in a sound heap every object   *)
(* that is stored is found.  (At the heap's size, which the code admits,   *)
(* it may find anything: no row of the root is there.)                     *)
ManagedObjectsFound ==
    read.pc \in {"done", "dead"} /\ read.id.type = "managed" =>
        /\ read.res /\ read.id.off < heap.man_size =>
              \E b \in Layout : b.at = read.at /\ b.rows = 0
                            /\ read.id.off \in (b.off + Overhead)..(b.off + b.size - 1)
        /\ HeapSound /\ Stored(read.id) => read.res

(* B2_find descends to the record with the key, and to none when there is  *)
(* no such record, as long as two ids of a tree differ by less than an int *)
(* can hold.                                                               *)
FindExact ==
    find.res \in {"ok", "fail"} /\ TreeSound(find.tree) =>
        LET keys == {r.key : r \in RecordsOf(find.tree)}
            near == \A k \in keys : k - find.key \in (-(2^(IntBits - 1)))..(2^(IntBits - 1) - 1)
        IN  near => /\ (find.res = "ok" <=> find.key \in keys)
                    /\ (find.res = "ok" => find.got.key = find.key)

(* The messages of sound dense storage are followed once for each index,   *)
(* those of a damaged one at most once; a record that cannot be read does  *)
(* not hide the ones behind it in its node.                                *)
FollowedOnce ==
    /\ IsInjective(followed)
    /\ pc = "done" /\ DenseSound =>
          Range(followed) = UNION {{[tree |-> t.hdr, key |-> r.key] : r \in RecordsOf(t)} : t \in Trees}
    /\ \A t \in Trees :
          pc = "done" /\ HeapSound /\ t.depth = 0 /\ BadAt(t.hdr) = "none" /\ BadAt(t.root) # "stop" =>
             \A r \in RecordsOf(t) :
                r.mesg # "damaged" /\ r.id.type = "managed" /\ Stored(r.id) =>
                    [tree |-> t.hdr, key |-> r.key] \in Range(followed)

(* Sound storage passes, without an error and without the end of the       *)
(* process, when every record leads to an object that the code can read:   *)
(* not to a tiny one, and not to a huge one that is filtered (it is read   *)
(* raw) or looked up (without filters that depends on uninitialized        *)
(* memory).  What passes is sound as far as its blocks and nodes go, and   *)
(* every message that was decoded as it is stored is undamaged.            *)
AcceptedIffSound ==
    Ended =>
        /\ DenseSound => pc = "done" /\ err = 0
        /\ pc = "done" /\ err = 0 =>
              /\ HeapSound \/ ~ HeapPlaced \/ ~ Ordered(heap.huge)
              /\ \A t \in Trees : \A a \in NodesOf(t) \cup {t.hdr} : BadAt(a) = "none"
              /\ \A r \in IndexRecords :
                    /\ r.id.type \in {"managed", "huge"}
                    /\ r.mesg # "damaged" \/ ReadsRaw(r.id)

(* The check ends, also when the addresses in the heap or in a tree form a *)
(* cycle: children get fewer rows, and less depth, than their parent.      *)
DenseEnds == <>Ended

=============================================================================
