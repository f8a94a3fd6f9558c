------------------------------- MODULE H5Check -------------------------------
(***************************************************************************)
(* h5inspect: h5check walks an HDF5 file from the superblock to every      *)
(* object header that a hard link reaches, and notes in the logger which   *)
(* addresses belong to which object.  The calls of the check_* functions   *)
(* are an explicit stack of frames; an error is pushed on the error stack, *)
(* counted by the function that found it and printed when this function    *)
(* returns.                                                                *)
(*                                                                         *)
(* A file is a function from addresses to blocks.  The bytes of a block    *)
(* are replaced by what the walk reads from it and by a fault: "soft" is   *)
(* counted and the function goes on, "stop" ends the function, "message"   *)
(* makes the messages of a header chunk undecodable, "loop" lets the free  *)
(* list of a local heap lead back to one of its blocks.                    *)
(***************************************************************************)
EXTENDS Integers, FiniteSets, SequencesExt

CONSTANTS
    Addr,           \* the addresses at which a block starts
    Files,          \* the files: records [super, root, block]
    Faults,         \* what may be wrong with a file: functions on Addr
    SnodeHdr, GpEntry, LeafDefault, \* SNODE_SIZEOF_HDR, GP_SIZEOF_ENTRY, CRT_SYM_LEAF_DEF
    SnodeDefault, IstoreDefault,    \* BT_SNODE_K, BT_ISTORE_K
    MaxObj, MaxSub, NameMax,        \* what the logger's arrays hold
    NameLength(_),  \* the length of a name
    MaxDepth,       \* the frames that fit the stack of the process
    MaxMesgs,       \* the messages of one header that fit its memory
    Undef           \* CK_ADDR_UNDEF

ASSUME AddrAssumption == Addr \subseteq Nat /\ IsFiniteSet(Addr) /\ Undef \notin Addr
ASSUME SizeAssumption ==
    {SnodeHdr, GpEntry, LeafDefault, SnodeDefault, IstoreDefault} \subseteq Nat \ {0}
ASSUME LimitAssumption == {MaxObj, MaxSub, NameMax, MaxDepth, MaxMesgs} \subseteq Nat \ {0}
ASSUME FaultsAssumption ==
    Faults \subseteq [Addr -> {"none", "soft", "stop", "message", "loop"}]

-----------------------------------------------------------------------------
(* What the blocks of a file hold.  An address leads to a block of the     *)
(* kind it is read as: where the bytes are those of another kind, the      *)
(* block has the fault "stop".                                             *)
Of(f, kind) == {a \in Addr : f.block[a].kind = kind}
Headers(f) == Of(f, "chunk")
Indexes(f, leaf) ==
    {a \in Of(f, "bt2") : Len(f.block[a].items) = 1 /\ f.block[a].items[1] \in Of(f, leaf)}

(* Link or attribute information: of a compact group or object, without    *)
(* heap and indexes, or of a dense one.                                    *)
Infos(f, kind, leaf) ==
    [kind : {kind}, fheap : {Undef}, corder : {Undef}, byname : {Undef}]
    \cup [kind : {kind}, fheap : Of(f, "heap"), corder : Indexes(f, leaf) \cup {Undef},
          byname : Indexes(f, leaf) \cup {Undef}]

Messages(f) ==
    [kind : {"nil", "data", "datatype", "unknown"}]
    \cup [kind : {"cont"}, at : Headers(f), size : Nat]
    \cup [kind : {"edf"}, heap : Of(f, "heap"), bad : Nat]
    \cup [kind : {"group"}, heap : Of(f, "heap"), tree : Of(f, "groups")]
    \cup [kind : {"layout"}, index : {1}, tree : Of(f, "raw") \cup {Undef}]
    \cup [kind : {"layout"}, index : {2}, tree : Indexes(f, "chunks") \cup {Undef}]
    \cup Infos(f, "linfo", "links") \cup Infos(f, "ainfo", "attrs")
    \cup [kind : {"shared"}, header : Headers(f)]
    \cup [kind : {"link"}, name : Int, header : Headers(f) \cup {Undef}]

Entries(f) == [name : Int, header : Headers(f) \cup {Undef}, slink : BOOLEAN]

Items(f, b) ==
    CASE b.kind = "chunk" -> Messages(f)
      [] b.kind = "groups" -> Of(f, IF b.level > 0 THEN "groups" ELSE "sym")
      [] b.kind = "raw" /\ b.level > 0 -> Of(f, "raw")
      [] b.kind = "sym" -> Entries(f)
      [] b.kind = "bt2" -> {a \in Addr : f.block[a].kind \in {"chunks", "links", "attrs"}}
      [] b.kind = "links" -> Headers(f) \cup {Undef}
      [] OTHER -> Range(b.items)

ASSUME FilesAssumption ==
    \A f \in Files :
        /\ f.root \in Headers(f)
        /\ \A a \in Addr :
              /\ f.block[a].items \in Seq(Items(f, f.block[a]))
              /\ f.block[a].level \in Nat
              /\ f.block[a].level > 0 => f.block[a].kind \in {"groups", "raw"}

NSlots == 32        \* H5E_NSLOTS
SUCCEED == 0
FAIL == -1
NoRange == <<0, 0>>

VARIABLES
    file, fault,    \* the input, fixed
    pc,             \* the part of main that runs
    stack,          \* the active check_* functions, the innermost first
    obj_table,      \* the object headers met through links
    log,            \* the logger's objects, the root first
    current_obj,    \* the logger's current object; 0 is NULL
    superblock,     \* the logger's range of the superblock
    estack,         \* the errors pushed and not printed
    nerrors,        \* the calls of error_print
    dumped,         \* logger_dump has written the log
    opened,         \* how often each header was read through a link
    starved         \* an allocation failed

vars == <<file, fault, pc, stack, obj_table, log, current_obj, superblock,
          estack, nerrors, dumped, opened, starved>>

input == <<file, fault>>
logger == <<log, current_obj, superblock>>
errors == <<estack, nerrors>>

Block(a) == file.block[a]
Extent(a) == <<a, a + Block(a).size>>
Top == Head(stack)

RootName == ""      \* the name main gives the root object

(* logger_new_obj: a dataset until a group message is met.  path is the    *)
(* length of the name that logger_obj_dump gives it.                       *)
NewObj(name, path) ==
    [name |-> name, path |-> path, type |-> "DATASET", base |-> 0,
     obj_header |-> NoRange, local_heap |-> NoRange, data_segment |-> NoRange,
     btree_nodes |-> <<>>, sym_nodes |-> <<>>, data_chunks |-> <<>>, subgroups |-> <<>>]

(* More was noted of an object than its arrays hold, its name among it:    *)
(* the logger writes over whatever is behind.                              *)
Overfull(l) ==
    \E o \in DOMAIN l :
        \/ Len(l[o].subgroups) > MaxSub
        \/ o > 1 /\ NameLength(l[o].name) >= NameMax
        \/ Len(l[o].btree_nodes) > MaxObj
        \/ Len(l[o].sym_nodes) > MaxObj
        \/ Len(l[o].data_chunks) > MaxObj

(* A path that is too long for the buffer it is put together in.           *)
LongPath(l) == \E o \in DOMAIN l : l[o].path >= NameMax

Overrun(l) == Overfull(l) \/ LongPath(l)

(* The frame of a function that was just called.                           *)
Frame(fn, at) ==
    [fn |-> fn, at |-> at, pc |-> "enter", i |-> 1, ret_err |-> 0,
     ret_other_err |-> 0, want |-> FALSE, curr_obj |-> 0, mesg |-> <<>>,
     chunk |-> at, chunk_size |-> 0, mode |-> "none", todo |-> <<>>, names |-> {}]

(* A function runs when its frame fits the stack of the process.           *)
Running(fn, where) ==
    pc = "check" /\ stack # <<>> /\ Len(stack) <= MaxDepth /\ Top.fn = fn /\ Top.pc = where

Replace(f) == stack' = <<f>> \o Tail(stack)
Call(f, caller) == stack' = <<f, caller>> \o Tail(stack)

(* error_push: errors beyond the slots are forgotten.                      *)
Pushed(n) == IF estack + n < NSlots THEN estack + n ELSE NSlots
Push(n) == estack' = Pushed(n) /\ UNCHANGED nerrors

(* Mutant: the errors are cleared without being printed.                   *)
FlushUncounted(err) ==
    IF err > 0 THEN estack' = 0 /\ UNCHANGED nerrors ELSE UNCHANGED errors

(* Mutant: errors found by an inner call are left to the caller to print.  *)
FlushInMainOnly(err) == UNCHANGED errors

(* error_print and error_clear, by the function that counted an error.     *)
Flush(err) ==
    IF err > 0 THEN estack' = 0 /\ nerrors' = nerrors + 1 ELSE UNCHANGED errors

Result(f) == IF f.ret_err # 0 \/ f.ret_other_err # 0 THEN FAIL ELSE SUCCEED

Failed(res) == IF res = FAIL THEN 1 ELSE 0

(* find_in_ohdr on the header a shared message points to, at a datatype.   *)
HasDatatype(f) == \E j \in DOMAIN f.mesg : f.mesg[j].kind = "datatype"
SharedFails(f, res) == IF res = FAIL \/ ~ HasDatatype(f) THEN 1 ELSE 0

(* What the caller p makes of the value res returned by f.                 *)
Absorb(p, f, res) ==
    CASE p.fn = "header" ->
            [p EXCEPT !.pc = "return", !.ret_other_err = @ + Failed(res)]
      [] p.fn = "messages" /\ f.want ->          \* OBJ_shared_read
            [p EXCEPT !.i = @ + 1, !.ret_err = @ + SharedFails(f, res)]
      [] p.fn = "messages" /\ f.fn = "btree2" ->
            [p EXCEPT !.ret_other_err = @ + Failed(res)]
      [] p.fn = "btree2" ->                      \* the callback's result
            [p EXCEPT !.i = @ + 1, !.ret_err = @ + Failed(res)]
      [] p.fn = "btree" ->
            [p EXCEPT !.i = @ + 1, !.ret_other_err = @ + Failed(res), !.names = f.names]
      [] OTHER ->
            [p EXCEPT !.i = @ + 1, !.ret_other_err = @ + Failed(res), !.curr_obj = 0]

(* Errors the caller pushes because of the value returned.                 *)
PushedByCaller(p, f, res) ==
    CASE p.fn = "btree2" -> 2 * Failed(res)
      [] p.fn = "messages" /\ f.want ->
            IF res = FAIL THEN 1 ELSE IF HasDatatype(f) THEN 0 ELSE 2
      [] OTHER -> 0

(* Mutant: a symbol table node leaves its last child current.              *)
RestoredByMessages(p) ==
    IF p.fn = "messages" /\ p.curr_obj # 0 THEN p.curr_obj ELSE current_obj

(* After a link the caller makes its own object current again.             *)
Restored(p) == IF p.curr_obj # 0 THEN p.curr_obj ELSE current_obj

(* The innermost function returns res; it prints the errors it counted.    *)
Return(res, unprinted) ==
    /\ LET f == Top
           rest == Tail(stack)
           p == Head(rest)
       IN IF rest = <<>>
          THEN stack' = <<>> /\ UNCHANGED current_obj /\ Flush(unprinted)
          ELSE /\ stack' = <<Absorb(p, f, res)>> \o Tail(rest)
               /\ current_obj' = Restored(p)
               /\ LET n == PushedByCaller(p, f, res)
                  IN IF n = 0 THEN Flush(unprinted)
                     ELSE /\ estack' = IF unprinted > 0 THEN n ELSE Pushed(n)
                          /\ nerrors' = IF unprinted > 0 THEN nerrors + 1 ELSE nerrors
    /\ UNCHANGED <<input, pc, obj_table, log, superblock, dumped, opened, starved>>

-----------------------------------------------------------------------------
(* The superblock is [vers, bad, ext, leaf_k, snode_k, istore_k]: its      *)
(* version, the fields that do not hold what the format asks for, whether  *)
(* a version 2 or 3 has an extension, and the K values of the file.        *)

Latest == 3

(* Versions 0 and 1, and the index of version 1.                           *)
SuperblockV01(s) ==
    {"freespace", "rootsym", "sharedhead", "sizes", "leaf_k", "internal_k", "flags"}
    \cup (IF s.vers > 0 THEN {"istore_k"} ELSE {})

(* What follows them: the addresses and the root group's entry...          *)
AddressesV01 == {"base", "extension", "eoa", "entry"}

(* ...and, when its address is defined, the driver information block.      *)
DriverInfoBlock == {"driver"}

(* Versions 2 and 3: no K values, and a checksum.                          *)
SuperblockV23 == {"sizes", "flags", "eoa", "checksum"}

(* check_superblock for the current format: a later version is an error    *)
(* and is read as the latest one.                                          *)
SuperblockFails(s) ==
    \/ s.vers > Latest
    \/ s.bad \cap (IF s.vers \in {0, 1}
                   THEN SuperblockV01(s) \cup AddressesV01 \cup DriverInfoBlock
                   ELSE SuperblockV23) # {}

(* Without a signature at 0, 512, 1024... an error is printed, and the     *)
(* superblock is read at address 0.                                        *)
SignatureErrors(s) == IF "signature" \in s.bad THEN 1 ELSE 0

(* The K values that versions 0 and 1 decode are replaced by the defaults. *)
LeafK(s) == LeafDefault
BtreeK(s, kind) == IF kind = "groups" THEN SnodeDefault ELSE IstoreDefault

GpNodeSize(k) == SnodeHdr + 2 * k * GpEntry

(* file_init reads the superblock before main makes the root object; the   *)
(* file must not be shorter than the superblock says.  The header of an    *)
(* extension is checked, and noted, while the logger has no object yet.    *)
FileInit ==
    /\ pc = "init"
    /\ LET s == file.super
       IN IF ~ SuperblockFails(s) /\ s.ext
          THEN /\ pc' = "crashed" /\ UNCHANGED <<stack, log, current_obj, superblock, estack>>
               /\ nerrors' = nerrors + SignatureErrors(s)
          ELSE IF SuperblockFails(s) \/ "size" \in s.bad
          THEN /\ pc' = "done" /\ estack' = 0
               /\ nerrors' = nerrors + SignatureErrors(s) + 1
               /\ UNCHANGED <<stack, log, current_obj, superblock>>
          ELSE /\ pc' = "check" /\ UNCHANGED estack
               /\ nerrors' = nerrors + SignatureErrors(s)
               /\ superblock' = <<0, 1>>
               /\ log' = <<NewObj(RootName, 1)>> /\ current_obj' = 1
               /\ stack' = <<Frame("header", file.root)>>
    /\ UNCHANGED <<input, obj_table, dumped, opened, starved>>

-----------------------------------------------------------------------------
(* check_obj_header                                                        *)

(* A header met before is not read again, unless the caller wants it.      *)
Found == Top.at \in obj_table          \* table_search
Inserted == obj_table \cup {Top.at}    \* table_insert

HeaderSeen ==
    /\ Running("header", "enter")
    /\ Found /\ ~ Top.want
    /\ Return(SUCCEED, 0)

(* Mutant: an object met again is walked again.                            *)
HeaderPrefixUntabled ==
    /\ Running("header", "enter")
    /\ ~ Found \/ Top.want
    /\ obj_table' = obj_table \cup (IF Top.want THEN {Top.at} ELSE {})
    /\ opened' = IF Top.want THEN opened ELSE [opened EXCEPT ![Top.at] = @ + 1]
    /\ Replace([Top EXCEPT !.pc = "chunk", !.chunk_size = Block(Top.at).size])
    /\ UNCHANGED <<input, logger, errors, pc, dumped, starved>>

(* The prefix of version 1 or 2.                                           *)
HeaderPrefix ==
    /\ Running("header", "enter")
    /\ ~ Found \/ Top.want
    /\ obj_table' = Inserted
    /\ opened' = IF Top.want THEN opened ELSE [opened EXCEPT ![Top.at] = @ + 1]
    /\ IF fault[Top.at] = "stop"
       THEN Replace([Top EXCEPT !.ret_err = @ + 1, !.pc = "done"]) /\ Push(1)
       ELSE /\ Replace([Top EXCEPT !.pc = "chunk", !.chunk_size = Block(Top.at).size])
            /\ UNCHANGED errors
    /\ UNCHANGED <<input, logger, pc, dumped, starved>>

(* The messages of a chunk, each with the chunk it was read from.          *)
ReadFrom(m, a) == [k \in DOMAIN m \cup {"chunk"} |-> IF k = "chunk" THEN a ELSE m[k]]
MessagesOf(a) == [j \in DOMAIN Block(a).items |-> ReadFrom(Block(a).items[j], a)]

Decodes(m) == fault[m.chunk] # "message"

(* The first continuation message after curmesg that decodes, or 0.        *)
Continuation(mesg, from) ==
    LET good == {j \in from..Len(mesg) : mesg[j].kind = "cont" /\ Decodes(mesg[j])}
    IN IF good = {} THEN 0 ELSE Min(good)

(* Those passed over on the way because they do not decode.                *)
Corrupt(mesg, from, to) ==
    {j \in from..(IF to = 0 THEN Len(mesg) ELSE to) :
        mesg[j].kind = "cont" /\ ~ Decodes(mesg[j])}

(* Chunks that lead to each other are read again and again, until there is *)
(* no memory for their messages.                                           *)
Stopped == Top.chunk # Top.at /\ fault[Top.chunk] = "stop"     \* no CONT signature
Full == Len(Top.mesg) + Len(Block(Top.chunk).items) > MaxMesgs

HeaderFull ==
    /\ Running("header", "chunk")
    /\ ~ Stopped /\ Full
    /\ Replace([Top EXCEPT !.mesg = SubSeq(@ \o MessagesOf(Top.chunk), 1, MaxMesgs),
                          !.ret_err = @ + 1, !.pc = "done"])
    /\ Push(1)
    /\ starved' = TRUE
    /\ UNCHANGED <<input, logger, pc, obj_table, dumped, opened>>

(* One pass of the loop over the chunks: the messages are collected, then  *)
(* the next continuation message is looked for.                            *)
HeaderChunk ==
    /\ Running("header", "chunk")
    /\ Stopped \/ ~ Full
    /\ LET a == Top.chunk
           mesg == Top.mesg \o MessagesOf(a)
           next == Continuation(mesg, Top.i)
           corrupt == Cardinality(Corrupt(mesg, Top.i, next))
           errs == corrupt + IF fault[a] = "soft" THEN 1 ELSE 0
       IN IF Stopped
          THEN Replace([Top EXCEPT !.ret_err = @ + 1, !.pc = "done"]) /\ Push(1)
          ELSE /\ Replace([Top EXCEPT !.mesg = mesg, !.ret_err = @ + errs,
                             !.i = IF next = 0 THEN 1 ELSE next + 1,
                             !.pc = IF next = 0 THEN "log" ELSE "chunk",
                             !.chunk = IF next = 0 THEN a ELSE mesg[next].at,
                             !.chunk_size = IF next = 0 THEN @ ELSE mesg[next].size])
               /\ Push(errs + corrupt)
    /\ UNCHANGED <<input, logger, pc, obj_table, dumped, opened, starved>>

(* The current object gets its base address and the range of its header:   *)
(* the prefix of the first chunk and the size of the chunk that was read   *)
(* last, without the checksum.                                             *)
HeaderLog ==
    /\ Running("header", "log")
    /\ log' = [log EXCEPT ![current_obj].base = Top.at,
                          ![current_obj].obj_header = <<Top.at, Top.at + Block(Top.at).prefix + Top.chunk_size>>]
    /\ Replace([Top EXCEPT !.pc = "done"])
    /\ UNCHANGED <<input, errors, pc, obj_table, current_obj, superblock, dumped, opened, starved>>

(* Its errors are printed before the messages are validated.               *)
HeaderDone ==
    /\ Running("header", "done")
    /\ IF Top.mesg = <<>>
       THEN Return(Result(Top), Top.ret_err)
       ELSE /\ Call([Frame("messages", Top.at) EXCEPT !.mesg = Top.mesg],
                    [Top EXCEPT !.pc = "return"])
            /\ Flush(Top.ret_err)
            /\ UNCHANGED <<input, logger, pc, obj_table, dumped, opened, starved>>

HeaderReturn ==
    /\ Running("header", "return")
    /\ Return(Result(Top), 0)

-----------------------------------------------------------------------------
(* decode_validate_messages                                                *)

InMessages == Running("messages", "enter") /\ Top.i <= Len(Top.mesg)
Mesg == Top.mesg[Top.i]

(* Mutant: a message that was decoded is taken again.                      *)
SameMesg(f) == f
NextMesg(f) == [f EXCEPT !.i = @ + 1]
Kept == UNCHANGED <<input, pc, superblock, obj_table, dumped, opened, starved>>

(* Continuations and NIL messages are passed over; a message without       *)
(* structures of its own only has to be decoded.                           *)
MessageDecoded ==
    /\ InMessages
    /\ \/ Mesg.kind \in {"cont", "nil"}
       \/ Mesg.kind \in {"data", "datatype"} /\ Decodes(Mesg)
    /\ Replace(NextMesg(Top))
    /\ Kept /\ UNCHANGED <<log, current_obj, errors>>

(* An unknown or undecodable message is an error; the next one is tried.   *)
MessageUnread ==
    /\ InMessages
    /\ Mesg.kind \notin {"cont", "nil"}
    /\ Mesg.kind = "unknown" \/ ~ Decodes(Mesg)
    /\ Replace([NextMesg(Top) EXCEPT !.ret_err = @ + 1])
    /\ Push(IF Mesg.kind = "unknown" THEN 1 ELSE 2)
    /\ Kept /\ UNCHANGED <<log, current_obj>>

(* check_lheap: the ranges are noted even when the heap is damaged.        *)
HeapFails(a) == fault[a] \in {"soft", "stop"}
LheapLogged(l, a) ==
    [l EXCEPT ![current_obj].local_heap = Extent(a),
              ![current_obj].data_segment = <<Block(a).items[1], Block(a).items[2]>>]
HeapFlush(a) ==
    IF HeapFails(a) THEN estack' = 0 /\ nerrors' = nerrors + 1 ELSE UNCHANGED errors

(* Its free list is followed to the end, and has none when it leads back.  *)
Spins(a) == fault[a] = "loop"

Spinning ==
    /\ InMessages
    /\ Mesg.kind \in {"edf", "group"} /\ Decodes(Mesg) /\ Spins(Mesg.heap)

HeapSpins == Spinning /\ UNCHANGED vars

(* External data files: the result of the heap replaces the errors of      *)
(* others counted so far; in a heap that could be read, names that are     *)
(* empty or out of it are errors.                                          *)
MessageEdf ==
    /\ InMessages
    /\ Mesg.kind = "edf" /\ Decodes(Mesg) /\ ~ Spins(Mesg.heap)
    /\ log' = LheapLogged(log, Mesg.heap)
    /\ IF HeapFails(Mesg.heap)
       THEN HeapFlush(Mesg.heap) /\ Replace([NextMesg(Top) EXCEPT !.ret_other_err = FAIL])
       ELSE /\ Push(Mesg.bad)
            /\ Replace([NextMesg(Top) EXCEPT !.ret_other_err = SUCCEED, !.ret_err = @ + Mesg.bad])
    /\ Kept /\ UNCHANGED current_obj

(* Chunked data, indexed by a version 1 or a version 2 B-tree.             *)
MessageLayout ==
    /\ InMessages
    /\ Mesg.kind = "layout" /\ Decodes(Mesg)
    /\ IF Mesg.tree = Undef THEN Replace(NextMesg(Top))
       ELSE IF Mesg.index = 1 THEN Call(Frame("btree", Mesg.tree), Top)
       ELSE Call([Frame("btree2", Mesg.tree) EXCEPT !.mode = "chunks"], NextMesg(Top))
    /\ Kept /\ UNCHANGED <<log, current_obj, errors>>

(* A symbol table: the tree is not walked when the heap is damaged.        *)
MessageGroup ==
    /\ InMessages
    /\ Mesg.kind = "group" /\ Decodes(Mesg) /\ ~ Spins(Mesg.heap)
    /\ log' = LheapLogged([log EXCEPT ![current_obj].type = "GROUP"], Mesg.heap)
    /\ HeapFlush(Mesg.heap)
    /\ IF HeapFails(Mesg.heap)
       THEN Replace([NextMesg(Top) EXCEPT !.ret_other_err = @ + 1])
       ELSE Call(Frame("btree", Mesg.tree), Top)
    /\ Kept /\ UNCHANGED current_obj

Defined(a) == IF a = Undef THEN <<>> ELSE <<a>>     \* addr_defined

(* Link and attribute information: the fractal heap, when there is one,    *)
(* then the index by creation order, then the one by name.  Without its    *)
(* heap an index is walked without the callback that follows the links.    *)
FheapFails(m) == m.fheap # Undef /\ HeapFails(m.fheap)

MessageInfo ==
    /\ InMessages
    /\ Mesg.kind \in {"linfo", "ainfo"} /\ Decodes(Mesg)
    /\ LET bad == FheapFails(Mesg)
           cb == IF bad \/ Mesg.fheap = Undef THEN "none"
                 ELSE IF Mesg.kind = "linfo" THEN "links" ELSE "attrs"
           trees == Defined(Mesg.corder) \o Defined(Mesg.byname)
       IN /\ Replace([Top EXCEPT !.pc = "indexes", !.mode = cb, !.todo = trees,
                                 !.ret_other_err = @ + IF bad THEN 1 ELSE 0])
          /\ IF bad THEN HeapFlush(Mesg.fheap) ELSE UNCHANGED errors
    /\ log' = IF Mesg.kind = "linfo" THEN [log EXCEPT ![current_obj].type = "GROUP"] ELSE log
    /\ Kept /\ UNCHANGED current_obj

MessageIndex ==
    /\ Running("messages", "indexes")
    /\ IF Top.todo = <<>>
       THEN Replace([NextMesg(Top) EXCEPT !.pc = "enter"])
       ELSE Call([Frame("btree2", Head(Top.todo)) EXCEPT !.mode = Top.mode],
                 [Top EXCEPT !.todo = Tail(@)])
    /\ Kept /\ UNCHANGED <<log, current_obj, errors>>

(* A committed datatype: the header it points to is read again.            *)
MessageShared ==
    /\ InMessages
    /\ Mesg.kind = "shared" /\ Decodes(Mesg)
    /\ Call([Frame("header", Mesg.header) EXCEPT !.want = TRUE], Top)
    /\ Kept /\ UNCHANGED <<log, current_obj, errors>>

PathBelow(l, name) == l[current_obj].path + NameLength(name) + 1

(* Mutant: the object is added to itself.                                  *)
DescendSwapped(l, name) ==
    Append([l EXCEPT ![current_obj].subgroups = Append(@, current_obj)],
           NewObj(name, PathBelow(l, name)))

(* logger_new_obj and logger_add_subgroup for a child of the current       *)
(* object, which becomes current while its header is checked.              *)
Descend(l, name) ==
    Append([l EXCEPT ![current_obj].subgroups = Append(@, Len(l) + 1)],
           NewObj(name, PathBelow(l, name)))

(* Mutant: the child is noted, and the parent stays current.               *)
FollowLinkInPlace(name, header) ==
    /\ log' = Descend(log, name)
    /\ UNCHANGED current_obj
    /\ Call(Frame("header", header), [Top EXCEPT !.curr_obj = current_obj])

FollowLink(name, header) ==
    /\ log' = Descend(log, name)
    /\ current_obj' = Len(log) + 1
    /\ Call(Frame("header", header), [Top EXCEPT !.curr_obj = current_obj])

(* A link message; only hard links are followed.                           *)
MessageLink ==
    /\ InMessages
    /\ Mesg.kind = "link" /\ Decodes(Mesg)
    /\ IF Mesg.header # Undef THEN FollowLink(Mesg.name, Mesg.header)
       ELSE Replace(NextMesg(Top)) /\ UNCHANGED <<log, current_obj>>
    /\ Kept /\ UNCHANGED errors

MessagesDone ==
    /\ Running("messages", "enter")
    /\ Top.i > Len(Top.mesg)
    /\ Return(Result(Top), Top.ret_err)

-----------------------------------------------------------------------------
(* check_btree: one node of a version 1 B-tree and what is below it        *)

(* "Entries should not exceed 2K+1".                                       *)
Exceeds(b, k) == Len(b.items) > 2 * k + 1

BtreeNode ==
    /\ Running("btree", "enter")
    /\ LET b == Block(Top.at)
           errs == (IF fault[Top.at] = "soft" THEN 1 ELSE 0)
                   + (IF Exceeds(b, BtreeK(file.super, b.kind)) THEN 1 ELSE 0)
       IN IF fault[Top.at] = "stop"
          THEN Replace([Top EXCEPT !.ret_err = 1, !.pc = "done"]) /\ Push(1) /\ UNCHANGED log
          ELSE /\ log' = [log EXCEPT ![current_obj].btree_nodes = Append(@, Extent(Top.at))]
               /\ Replace([Top EXCEPT !.ret_err = errs, !.pc = "entries"])
               /\ Push(errs)
    /\ Kept /\ UNCHANGED current_obj

BtreeEntry ==
    /\ Running("btree", "entries")
    /\ Top.i <= Len(Block(Top.at).items)
    /\ LET b == Block(Top.at)
           child == b.items[Top.i]
       IN CASE b.level > 0 ->
                  Call([Frame("btree", child) EXCEPT !.names = Top.names], Top) /\ UNCHANGED log
            [] b.level = 0 /\ b.kind = "groups" ->
                  Call([Frame("sym", child) EXCEPT !.names = Top.names], Top) /\ UNCHANGED log
            [] OTHER ->
                  /\ Replace([Top EXCEPT !.i = @ + 1])
                  /\ log' = [log EXCEPT ![current_obj].data_chunks = Append(@, child)]
    /\ Kept /\ UNCHANGED <<current_obj, errors>>

BtreeDone ==
    /\ \/ Running("btree", "entries") /\ Top.i > Len(Block(Top.at).items)
       \/ Running("btree", "done")
    /\ Return(Result(Top), Top.ret_err)

-----------------------------------------------------------------------------
(* check_sym: a symbol table node                                          *)

(* Names already met in the group, names out of order and entries without  *)
(* a header are errors of the node.                                        *)
EntryErrors(ents, names) ==
    LET before(u) == names \cup {ents[v].name : v \in 1..(u - 1)}
    IN  Cardinality({u \in DOMAIN ents : ents[u].name \in before(u)})
        + Cardinality({u \in DOMAIN ents : u > 1 /\ ents[u - 1].name >= ents[u].name})
        + Cardinality({u \in DOMAIN ents : ~ ents[u].slink /\ ents[u].header = Undef})

SymExtent(a) == <<a, a + GpNodeSize(LeafK(file.super))>>

(* The names of a group, kept over the nodes of its tree.                  *)
WithNames(names, ents) == names \cup {ents[u].name : u \in DOMAIN ents}

(* The buffer and the vector of entries have room for 2K of them; nsyms    *)
(* beyond is an error, and the entries are decoded all the same.           *)
Room == 2 * LeafK(file.super)
TooMany(a) == Len(Block(a).items) > Room

(* The errors found in a node: what is read behind the room may be taken   *)
(* for a duplicate, for out of order and for undefined, or not.            *)
NodeErrors(a, names) ==
    LET ents == Block(a).items
        soft == IF fault[a] = "soft" THEN 1 ELSE 0
    IN IF TooMany(a)
       THEN {EntryErrors(SubSeq(ents, 1, Room), names) + soft + n : n \in 1..(1 + 3 * (Len(ents) - Room))}
       ELSE {EntryErrors(ents, names) + soft}

(* Entry i, or whatever lies behind the room taken for an entry.           *)
EntryAt(a, i) ==
    IF i <= Room THEN {Block(a).items[i]}
    ELSE [name : {0}, header : Headers(file) \cup {Undef}, slink : {FALSE}]

(* A node cannot be read when it is damaged, and may not be when the file  *)
(* gives its nodes less room and ends behind it.                           *)
SymUnread ==
    /\ Running("sym", "enter")
    /\ fault[Top.at] = "stop" \/ file.super.leaf_k < LeafK(file.super)
    /\ Replace([Top EXCEPT !.ret_err = 1, !.pc = "done"])
    /\ Push(1)
    /\ Kept /\ UNCHANGED <<log, current_obj>>

SymNode ==
    /\ Running("sym", "enter")
    /\ fault[Top.at] # "stop"
    /\ \E errs \in NodeErrors(Top.at, Top.names) :
          /\ Replace([Top EXCEPT !.ret_err = errs, !.pc = "entries",
                                 !.names = WithNames(@, Block(Top.at).items)])
          /\ Push(errs)
    /\ log' = [log EXCEPT ![current_obj].sym_nodes = Append(@, SymExtent(Top.at))]
    /\ Kept /\ UNCHANGED current_obj

SymEntry ==
    /\ Running("sym", "entries")
    /\ Top.i <= Len(Block(Top.at).items)
    /\ \E ent \in EntryAt(Top.at, Top.i) :
          IF ~ ent.slink /\ ent.header # Undef THEN FollowLink(ent.name, ent.header)
          ELSE Replace([Top EXCEPT !.i = @ + 1]) /\ UNCHANGED <<log, current_obj>>
    /\ Kept /\ UNCHANGED errors

SymDone ==
    /\ \/ Running("sym", "entries") /\ Top.i > Len(Block(Top.at).items)
       \/ Running("sym", "done")
    /\ Return(Result(Top), Top.ret_err)

-----------------------------------------------------------------------------
(* check_btree2 on a tree of one leaf (BTree2 has the deeper ones).  The   *)
(* links found through the heap are followed without an object of their    *)
(* own in the logger.                                                      *)

Btree2Header ==
    /\ Running("btree2", "enter")
    /\ IF fault[Top.at] \in {"soft", "stop"}
       THEN Replace([Top EXCEPT !.ret_err = 1, !.pc = "done"]) /\ Push(1)
       ELSE /\ Replace([Top EXCEPT !.pc = "leaf", !.chunk = Block(Top.at).items[1]])
            /\ UNCHANGED errors
    /\ log' = [log EXCEPT ![current_obj].btree_nodes = Append(@, Extent(Top.at))]
    /\ Kept /\ UNCHANGED current_obj

(* check_bt2_leaf: the node is noted when it has been dealt with.          *)
Btree2Leaf ==
    /\ Running("btree2", "leaf")
    /\ IF fault[Top.chunk] = "stop"
       THEN Replace([Top EXCEPT !.ret_err = 1, !.pc = "node"]) /\ Push(1)
       ELSE Replace([Top EXCEPT !.pc = "records"]) /\ UNCHANGED errors
    /\ Kept /\ UNCHANGED <<log, current_obj>>

(* One record: a chunk is noted, a link followed, after an error too.      *)
Btree2Record ==
    /\ Running("btree2", "records")
    /\ Top.i <= Len(Block(Top.chunk).items)
    /\ LET rec == Block(Top.chunk).items[Top.i]
       IN CASE Top.mode = "chunks" ->
                  /\ Replace([Top EXCEPT !.i = @ + 1])
                  /\ log' = [log EXCEPT ![current_obj].data_chunks = Append(@, rec)]
            [] Top.mode = "links" /\ rec # Undef ->
                  Call(Frame("header", rec), Top) /\ UNCHANGED log
            [] OTHER -> Replace([Top EXCEPT !.i = @ + 1]) /\ UNCHANGED log
    /\ Kept /\ UNCHANGED <<current_obj, errors>>

Btree2Node ==
    /\ \/ Running("btree2", "records") /\ Top.i > Len(Block(Top.chunk).items)
       \/ Running("btree2", "node")
    /\ log' = [log EXCEPT ![current_obj].btree_nodes = Append(@, Extent(Top.chunk))]
    /\ IF Top.pc = "records" /\ fault[Top.chunk] = "soft"
       THEN Replace([Top EXCEPT !.ret_err = @ + 1, !.pc = "done"]) /\ Push(1)
       ELSE Replace([Top EXCEPT !.pc = "done"]) /\ UNCHANGED errors
    /\ Kept /\ UNCHANGED current_obj

Btree2Done ==
    /\ Running("btree2", "done")
    /\ Return(Result(Top), Top.ret_err)

-----------------------------------------------------------------------------
(* Where the process may be killed: by a frame that does not fit its stack *)
(* any more, by the write of an entry behind the vector, from the write    *)
(* behind an array of the logger on at any step, and by a long path when   *)
(* the log is written.                                                     *)
Crash ==
    /\ pc' = "crashed"
    /\ UNCHANGED <<input, stack, obj_table, logger, errors, dumped, opened, starved>>

StackOverflow == pc = "check" /\ Len(stack) > MaxDepth /\ Crash
SymOverrun == Running("sym", "enter") /\ TooMany(Top.at) /\ fault[Top.at] # "stop" /\ Crash
LoggerOverrun ==
    /\ \/ pc = "check" /\ Overfull(log)
       \/ pc = "done" /\ Overrun(log)
    /\ Crash

CrashStep == StackOverflow \/ SymOverrun \/ LoggerOverrun

-----------------------------------------------------------------------------
(* The end of main: the log is written when no error was printed.          *)
MainCheck ==
    /\ pc = "check" /\ stack = <<>>
    /\ pc' = "done"
    /\ UNCHANGED <<input, stack, obj_table, logger, errors, dumped, opened, starved>>

MainDone ==
    /\ pc = "done"
    /\ pc' = "exit"
    /\ dumped' = (nerrors = 0)
    /\ UNCHANGED <<input, stack, obj_table, logger, errors, opened, starved>>

Init ==
    /\ file \in Files
    /\ fault \in Faults
    /\ pc = "init" /\ stack = <<>>
    /\ obj_table = {} /\ log = <<>> /\ current_obj = 0 /\ superblock = NoRange
    /\ estack = 0 /\ nerrors = 0
    /\ dumped = FALSE
    /\ opened = [a \in Addr |-> 0]
    /\ starved = FALSE

HeaderStep ==
    HeaderSeen \/ HeaderPrefix \/ HeaderFull \/ HeaderChunk \/ HeaderLog \/ HeaderDone \/ HeaderReturn

MessageStep ==
    \/ MessageDecoded \/ MessageUnread \/ MessageEdf \/ MessageLayout \/ MessageGroup
    \/ MessageInfo \/ MessageIndex \/ MessageShared \/ MessageLink \/ MessagesDone

NodeStep ==
    \/ BtreeNode \/ BtreeEntry \/ BtreeDone
    \/ SymUnread \/ SymNode \/ SymEntry \/ SymDone
    \/ Btree2Header \/ Btree2Leaf \/ Btree2Record \/ Btree2Node \/ Btree2Done

Ended == pc \in {"exit", "crashed"}
Done == Ended /\ UNCHANGED vars

Next ==
    \/ FileInit \/ HeaderStep \/ MessageStep \/ NodeStep \/ HeapSpins
    \/ CrashStep \/ MainCheck \/ MainDone \/ Done

(* h5inspect is one thread that runs until main returns or the process is  *)
(* killed.                                                                 *)
Spec == Init /\ [][Next]_vars /\ WF_vars(Next)

-----------------------------------------------------------------------------
(* What the file says, against which the log and the verdict are compared. *)

MesgTargets(m) ==
    (CASE m.kind = "cont" -> {m.at}
       [] m.kind = "group" -> {m.heap, m.tree}
       [] m.kind = "edf" -> {m.heap}
       [] m.kind = "layout" -> {m.tree}
       [] m.kind \in {"linfo", "ainfo"} -> {m.fheap, m.corder, m.byname}
       [] m.kind \in {"shared", "link"} -> {m.header}
       [] OTHER -> {}) \ {Undef}

ChunkTargets(f, a) == UNION {MesgTargets(m) : m \in Range(f.block[a].items)}
TreeTargets(f, a) ==
    LET b == f.block[a]
    IN IF b.kind \in {"groups", "bt2"} \/ (b.kind = "raw" /\ b.level > 0)
       THEN Range(b.items) ELSE {}
LinkTargets(f, a) ==
    LET b == f.block[a]
    IN CASE b.kind = "sym" -> {e.header : e \in {g \in Range(b.items) : ~ g.slink}} \ {Undef}
         [] b.kind = "links" -> Range(b.items) \ {Undef}
         [] OTHER -> {}

Targets(f, a) ==
    IF f.block[a].kind = "chunk" THEN ChunkTargets(f, a)
    ELSE TreeTargets(f, a) \cup LinkTargets(f, a)

(* A header goes on where its continuation messages say.                   *)
ContTargets(f, a) ==
    IF f.block[a].kind = "chunk"
    THEN {m.at : m \in {k \in Range(f.block[a].items) : k.kind = "cont"}} ELSE {}

(* The blocks reached from those of S by steps that next allows.           *)
Closure(S, next) ==
    LET reach[n \in 0..Cardinality(Addr)] ==
            IF n = 0 THEN S
            ELSE reach[n - 1] \cup UNION {next[a] : a \in reach[n - 1]}
    IN reach[Cardinality(Addr)]

Reached(f) == Closure({f.root}, [a \in Addr |-> Targets(f, a)])
Chunks(f, h) == Closure({h}, [a \in Addr |-> ContTargets(f, a)])
Nodes(f, S) == Closure(S, [a \in Addr |-> TreeTargets(f, a)])

(* A committed datatype is in one of the chunks of its header.             *)
HoldsDatatype(f, h) ==
    \E a \in Chunks(f, h) : \E m \in Range(f.block[a].items) : m.kind = "datatype"

(* The same name under two entries of a node of a group's tree, so in two  *)
(* symbol table nodes, or in one that is met twice.                        *)
OwnNames(f, a) ==
    IF f.block[a].kind = "sym" THEN {e.name : e \in Range(f.block[a].items)} ELSE {}
NamesUnder(f, a) == UNION {OwnNames(f, b) : b \in Nodes(f, {a})}
Twins(f, a) ==
    LET items == f.block[a].items
    IN  \E i, j \in DOMAIN items :
            i < j /\ NamesUnder(f, items[i]) \cap NamesUnder(f, items[j]) # {}

(* A fault matters where the walk reads: a message fault in a header chunk *)
(* with a message to decode, any other one everywhere.  What a node may    *)
(* hold is measured by the K values of the file.                           *)
Damaged(f, flt, a) ==
    LET b == f.block[a]
    IN  \/ flt[a] \in {"soft", "stop"}
        \/ /\ b.kind = "chunk"
           /\ \E m \in Range(b.items) :
                 \/ flt[a] = "message" /\ m.kind # "nil"
                 \/ m.kind = "unknown"
                 \/ m.kind = "edf" /\ m.bad > 0
                 \/ m.kind = "shared" /\ ~ HoldsDatatype(f, m.header)
        \/ /\ b.kind \in {"groups", "raw"}
           /\ Exceeds(b, IF b.kind = "groups" THEN f.super.snode_k ELSE f.super.istore_k)
        \/ /\ b.kind = "sym"
           /\ EntryErrors(b.items, {}) > 0 \/ Len(b.items) > 2 * f.super.leaf_k
        \/ b.kind = "groups" /\ Twins(f, a)

SuperblockDamaged(s) == SuperblockFails(s) \/ {"signature", "size"} \cap s.bad # {}

FileDamaged(f, flt) ==
    SuperblockDamaged(f.super) \/ \E a \in Reached(f) : Damaged(f, flt, a)

(* The K values that the code puts in the place of those of the file.      *)
DefaultK(s) ==
    s.leaf_k = LeafDefault /\ s.snode_k = SnodeDefault /\ s.istore_k = IstoreDefault

(* A header in the file: its prefix, its messages and, in version 2, the   *)
(* checksum behind them; a symbol table node in the file.                  *)
HeaderExtent(f, h) ==
    <<h, h + f.block[h].prefix + f.block[h].size + f.block[h].tail>>
SymNodeExtent(f, a) == <<a, a + GpNodeSize(f.super.leaf_k)>>

(* The headers that links lead to, by name; the rest is met through an     *)
(* index of links or as a committed datatype.                              *)
NamedHeaders(f) ==
    {f.root}
    \cup UNION {LinkTargets(f, a) : a \in {b \in Reached(f) : f.block[b].kind = "sym"}}
    \cup {m.header : m \in {k \in UNION {Range(f.block[a].items) :
                a \in {b \in Reached(f) : f.block[b].kind = "chunk"}} :
                    k.kind = "link" /\ k.header # Undef}}

(* An object whose ranges the log can hold: one chunk, and no messages     *)
(* that lead through other headers without a name.                         *)
Plain(f, h) ==
    \A m \in Range(f.block[h].items) :
        /\ m.kind \notin {"cont", "shared"}
        /\ m.kind = "linfo" => m.fheap = Undef

CommittedType(f, h) ==
    \E a \in Reached(f) :
        /\ f.block[a].kind = "chunk"
        /\ \E m \in Range(f.block[a].items) : m.kind = "shared" /\ m.header = h

(* An object that a node of an index of links holds: it is followed        *)
(* without a name, and noted in the slot of the group that is open.        *)
Indexed(f, h) ==
    \E a \in Reached(f) : f.block[a].kind = "links" /\ h \in LinkTargets(f, a)

TreeOf(f, h) ==
    LET mesgs == Range(f.block[h].items)
        roots == {m.tree : m \in {k \in mesgs : k.kind \in {"group", "layout"}}}
                 \cup UNION {{m.corder, m.byname} : m \in {k \in mesgs : k.kind = "ainfo"}}
    IN Nodes(f, roots \ {Undef})

-----------------------------------------------------------------------------
(* Types.                                                                  *)
H5TypeOK ==
    /\ pc \in {"init", "check", "done", "exit", "crashed"}
    /\ obj_table \subseteq Addr
    /\ current_obj \in 0..Len(log)
    /\ estack \in 0..NSlots /\ nerrors \in Nat
    /\ dumped \in BOOLEAN /\ starved \in BOOLEAN
    /\ opened \in [Addr -> Nat]
    /\ \A o \in DOMAIN log :
          /\ log[o].type \in {"DATASET", "GROUP"}
          /\ log[o].base \in Addr \cup {0}
          /\ \A j \in DOMAIN log[o].subgroups : log[o].subgroups[j] \in (o + 1)..Len(log)

(* However many links lead to an object, and also when they form a cycle,  *)
(* its header is read through them once.                                   *)
HeaderReadOnce == \A a \in Addr : opened[a] <= 1

(* While an object is checked the logger's current object is the one made  *)
(* for the link that led to it, so its ranges are noted under its name;    *)
(* when the check of a child is over it is the parent again.               *)
CurrentObjectIsOpen ==
    pc = "check" =>
        LET open == {j \in DOMAIN stack : stack[j].curr_obj # 0}
        IN current_obj = IF open = {} THEN 1
                         ELSE Last(log[stack[Min(open)].curr_obj].subgroups)

(* A log is written exactly for the files without damage, in whatever      *)
(* block, however deep, and whoever reads it, the damage is.  The file     *)
(* must have the K values that check_superblock puts in the place of its   *)
(* own, no object with more than the logger's arrays hold, and no header   *)
(* with more messages than fit the memory.                                 *)
LogOnlyOfSoundFiles ==
    pc = "exit" /\ DefaultK(file.super) /\ ~ Overrun(log) /\ ~ starved =>
        (dumped <=> ~ FileDamaged(file, fault))

(* "errors should have been flushed already in check_obj_header()" (main): *)
(* no error is left unprinted when h5inspect ends.                         *)
ErrorsFlushed == pc \in {"done", "exit"} => estack = 0

(* The log of a sound file names every object that links lead to by name   *)
(* only, once, and gives a plain object the blocks that the file gives it. *)
(* The same two conditions; a header's range is that of the file when no   *)
(* checksum follows its messages.                                          *)
LogDescribesFile ==
    pc = "exit" /\ dumped /\ DefaultK(file.super) /\ ~ Overrun(log) =>
        LET based(h) == {o \in DOMAIN log : log[o].base = h}
        IN \A h \in {g \in NamedHeaders(file) : /\ Plain(file, g)
                                              /\ ~ CommittedType(file, g)
                                              /\ ~ Indexed(file, g)} :
              /\ Cardinality(based(h)) = 1
              /\ \A o \in based(h) :
                    /\ Block(h).tail = 0 => log[o].obj_header = HeaderExtent(file, h)
                    /\ Range(log[o].btree_nodes) =
                          {Extent(a) : a \in {b \in TreeOf(file, h) : Block(b).kind # "sym"}}
                    /\ Range(log[o].sym_nodes) =
                          {SymNodeExtent(file, a) :
                              a \in {b \in TreeOf(file, h) : Block(b).kind = "sym"}}
                    /\ Range(log[o].data_chunks) =
                          UNION {Range(Block(a).items) :
                                 a \in {b \in TreeOf(file, h) : Block(b).kind \in {"raw", "chunks"}
                                                         /\ Block(b).level = 0}}

(* h5inspect ends, also when hard links form a cycle, a datatype or a tree *)
(* leads to itself (the stack of the process ends it) and continuation     *)
(* blocks lead to each other (its memory does), except on a local heap     *)
(* whose free list leads back to one of its blocks: this list has no end.  *)
CheckEnds == <>(Ended \/ Spinning)

=============================================================================
