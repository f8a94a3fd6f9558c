----------------------------- MODULE MCH5Check ------------------------------
(***************************************************************************)
(* Six files of up to twelve blocks: an old style group with a chunked     *)
(* dataset, link messages that form a cycle and name an object twice,      *)
(* dense links with a continued header, an object linked densely and by    *)
(* name, a committed datatype, and a link to a continued header; and some  *)
(* of them with errors, with blocks that lead to themselves, with more in  *)
(* a node than the K of the file or of the code allows, or with more than  *)
(* the logger's arrays hold.  Up to two blocks are damaged.                *)
(***************************************************************************)
EXTENDS H5Check

Bytes(kind, items) ==
    [kind |-> kind, size |-> 4, level |-> 0, prefix |-> 2, tail |-> 0, items |-> items]
Header(mesgs) == Bytes("chunk", mesgs)
Header2(mesgs) == [Header(mesgs) EXCEPT !.tail = 1]
Heap(a) == Bytes("heap", <<a + 6, a + 8>>)
Entry(n, h) == [name |-> n, header |-> h, slink |-> h = Undef]
Hard(n, h) == [kind |-> "link", name |-> n, header |-> h]
Message(kind) == [kind |-> kind]
Group(heap, tree) == [kind |-> "group", heap |-> heap, tree |-> tree]
Layout(index, tree) == [kind |-> "layout", index |-> index, tree |-> tree]
Edf(heap, bad) == [kind |-> "edf", heap |-> heap, bad |-> bad]
Cont(at) == [kind |-> "cont", at |-> at, size |-> 2]
Shared(at) == [kind |-> "shared", header |-> at]
Info(kind, fheap, corder, byname) ==
    [kind |-> kind, fheap |-> fheap, corder |-> corder, byname |-> byname]

MCAddr == {10 * n : n \in 1..12}
MCUndef == 0
Compact == Info("linfo", MCUndef, MCUndef, MCUndef)
MCNameLength(name) == IF name = 9 THEN 20 ELSE 1
Unused == Bytes("heap", <<0, 0>>)
Blocks(f) == [a \in MCAddr |-> IF a \in DOMAIN f THEN f[a] ELSE Unused]
Sound == [vers |-> 0, bad |-> {}, ext |-> FALSE, leaf_k |-> 2, snode_k |-> 1, istore_k |-> 1]
File(f) == [super |-> Sound, root |-> 10, block |-> Blocks(f)]

OldGroup == File(
    10 :> Header(<<Group(20, 30)>>) @@ 20 :> Heap(20)
 @@ 30 :> Bytes("groups", <<40>>)
 @@ 40 :> Bytes("sym", <<Entry(1, 50), Entry(2, 60), Entry(3, MCUndef)>>)
 @@ 50 :> Header(<<Message("datatype"), Layout(1, 70)>>)
 @@ 60 :> Header(<<Message("nil"), Edf(90, 0), Layout(1, MCUndef)>>)
 @@ 70 :> [Bytes("raw", <<80>>) EXCEPT !.level = 1]
 @@ 80 :> Bytes("raw", <<<<82, 84>>, <<84, 86>>>>) @@ 90 :> Heap(90))

LinkCycle == File(
    10 :> Header(<<Compact, Hard(1, 50), Hard(2, 60), Hard(3, MCUndef)>>)
 @@ 50 :> Header2(<<Hard(1, 10), Hard(2, 60), Group(20, 30)>>) @@ 20 :> Heap(20)
 @@ 30 :> Bytes("groups", <<40, 90>>)
 @@ 40 :> Bytes("sym", <<Entry(3, 50)>>) @@ 90 :> Bytes("sym", <<Entry(4, 70)>>)
 @@ 60 :> Header(<<Message("datatype"), Message("data")>>)
 @@ 70 :> Header(<<Info("ainfo", 20, MCUndef, 80)>>) @@ 80 :> Bytes("bt2", <<100>>)
 @@ 100 :> Bytes("attrs", <<1>>))

DenseLinks == File(
    10 :> Header2(<<Info("linfo", 20, 40, 30)>>) @@ 20 :> Heap(20)
 @@ 30 :> Bytes("bt2", <<100>>) @@ 100 :> Bytes("links", <<50, 60>>)
 @@ 40 :> Bytes("bt2", <<110>>) @@ 110 :> Bytes("links", <<60, MCUndef, 50>>)
 @@ 50 :> Header(<<Cont(70), Message("datatype")>>)
 @@ 70 :> Header(<<Layout(2, 80)>>) @@ 80 :> Bytes("bt2", <<120>>)
 @@ 120 :> Bytes("chunks", <<<<82, 84>>>>)
 @@ 60 :> Header(<<Layout(2, 90)>>) @@ 90 :> Bytes("bt2", <<120>>))

Mixed == File(
    10 :> Header(<<Info("linfo", 20, MCUndef, 30), Hard(1, 60)>>) @@ 20 :> Heap(20)
 @@ 30 :> Bytes("bt2", <<100>>) @@ 100 :> Bytes("links", <<50>>)
 @@ 60 :> Header(<<Hard(2, 50)>>) @@ 50 :> Header(<<Message("data")>>))

Committed == File(
    10 :> Header(<<Hard(1, 50), Hard(2, 60)>>)
 @@ 50 :> Header(<<Shared(60), Message("data")>>)
 @@ 60 :> Header(<<Cont(70)>>)
 @@ 70 :> Header(<<Message("datatype")>>))

Continued == File(
    10 :> Header(<<Hard(1, 50)>>)
 @@ 50 :> Header(<<Cont(70), Message("datatype")>>)
 @@ 70 :> Header(<<Message("data")>>))

(* The same group with something wrong in its superblock, an entry or a    *)
(* node twice in its symbol table, a message of a later format, no         *)
(* datatype where one is shared, or an external file without a name.       *)
BadSuper == {[OldGroup EXCEPT !.super.vers = v, !.super.bad = b] :
                v \in {0, 2, 4}, b \in {{"signature"}, {"leaf_k"}, {"checksum"}, {"size"}}}
BadNames == {[LinkCycle EXCEPT !.block[90].items = <<Entry(n, 70), Entry(3, MCUndef)>>] : n \in {3, 2}}
               \cup {[LinkCycle EXCEPT !.block[30].items = <<40, 90, 40>>]}
BadHeaders == {[Committed EXCEPT !.block[70].items = m] :
                  m \in {<<Message("datatype"), Message("unknown")>>, <<Message("data")>>}}
              \cup {[OldGroup EXCEPT !.block[60].items = <<Edf(90, 2)>>]}

(* More entries in a node than its K allows, by the file or by the code.   *)
Chunk(n) == <<80 + n, 81 + n>>
ManyChunks == [OldGroup EXCEPT !.block[80].items = [n \in 1..4 |-> Chunk(n)]]
ManyEntries ==
    [OldGroup EXCEPT !.block[40].items = [n \in 1..5 |-> Entry(n, IF n = 4 THEN 60 ELSE MCUndef)]]
OtherK(f, v, leaf, istore) ==
    [f EXCEPT !.super.vers = v, !.super.leaf_k = leaf, !.super.istore_k = istore]

(* Blocks that lead to themselves: a datatype, a node, a continuation.     *)
Circles ==
    {[Committed EXCEPT !.block[60].items = <<Message("datatype"), Shared(60)>>],
     [OldGroup EXCEPT !.block[30] = [@ EXCEPT !.level = 1, !.items = <<30>>]],
     [Continued EXCEPT !.block[70].items = <<Cont(50)>>]}

(* More children than the logger's array holds, more chunks, a long name.  *)
Large ==
    {[Continued EXCEPT !.block[10].items = <<Compact>> \o [n \in 1..4 |-> Hard(n, 50)]],
     [OldGroup EXCEPT !.block[70].items = <<80, 90>>,
                      !.block[80].items = [n \in 1..3 |-> Chunk(n)],
                      !.block[90] = Bytes("raw", [n \in 1..2 |-> Chunk(3 + n)]),
                      !.block[60].items = <<Message("nil")>>],
     [Continued EXCEPT !.block[10].items = <<Compact, Hard(9, 50)>>]}

(* A superblock with an extension, a header that ends in a checksum, and K *)
(* values other than the code's.                                           *)
Extended == [Continued EXCEPT !.super.vers = 2, !.super.ext = TRUE]
Checksummed == [Continued EXCEPT !.block[50] = Header2(<<Message("data")>>)]
OtherKs ==
    {OtherK(ManyChunks, 1, 2, 2), OtherK(OldGroup, 0, 1, 1), OtherK(ManyEntries, 0, 3, 1)}
MCFiles ==
    {OldGroup, LinkCycle, DenseLinks, Mixed, Committed, Continued}
    \cup BadSuper \cup BadNames \cup BadHeaders \cup Circles \cup Large
    \cup OtherKs \cup {Extended, Checksummed, ManyChunks, ManyEntries}

NoFault == [a \in MCAddr |-> "none"]
OneFault ==
    {[NoFault EXCEPT ![a] = f] : a \in MCAddr, f \in {"soft", "stop", "message", "loop"}}
Unfaulted == {NoFault}
MCFaults ==
    Unfaulted \cup OneFault
    \cup {[NoFault EXCEPT ![a] = "soft", ![b] = "stop"] : a, b \in MCAddr}
=============================================================================
