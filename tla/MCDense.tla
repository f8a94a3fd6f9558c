------------------------------- MODULE MCDense -------------------------------
(***************************************************************************)
(* Small heaps and indexes for Dense.  Block addresses are 1000 upwards,   *)
(* tree nodes and headers lie below 100.                                   *)
(***************************************************************************)
EXTENDS Dense

Table == [width |-> 2, start |-> 8, max_direct |-> 16, max_index |-> 9]

(* A heap with the blocks that keep accepts, laid out as the format says:  *)
(* rows of 8, 8, 16, 32, 64 and 128; rows 3, 4 and 5 are tables of 2, 3    *)
(* and 4 rows.                                                             *)
At(off, rows) == 1000 + 8 * off + rows
Start(row) == IF row = 0 THEN 0 ELSE 16 * 2^(row - 1)
Size(row) == IF row = 0 THEN 8 ELSE 8 * 2^(row - 1)
RowsIn(row) == IF row < 3 THEN 0 ELSE row - 1
Child2(off, e) == [off |-> off + Start(e \div 2) + Size(e \div 2) * (e % 2), rows |-> RowsIn(e \div 2)]

Inside(b) == {Child2(b.off, e) : e \in 0..(2 * b.rows - 1)}
BlocksFrom(root, keep(_)) ==
    LET kept(b) == {c \in Inside(b) : keep(c)}
        one == {root} \cup kept(root)
        two == one \cup UNION {kept(b) : b \in one}
    IN  two \cup UNION {kept(b) : b \in two}

BlockMap(blocks, keep(_)) ==
    [a \in {At(b.off, b.rows) : b \in blocks} |->
        LET b == CHOOSE c \in blocks : At(c.off, c.rows) = a
        IN  [rows |-> b.rows, off |-> b.off,
             ents |-> [e \in 1..(2 * b.rows) |->
                        LET c == Child2(b.off, e - 1)
                        IN  IF keep(c) THEN At(c.off, c.rows) ELSE Undef]]]

Heap(rows, keep(_)) ==
    [hdr |-> 90, dtable |-> Table, table |-> At(0, rows), rows |-> rows,
     man_size |-> IF rows = 0 THEN 8 ELSE Start(rows), max_man |-> 8, id_len |-> 7,
     filter |-> FALSE, flags |-> {}, fs |-> 91, huge |-> NoTree,
     block |-> BlockMap(BlocksFrom([off |-> 0, rows |-> rows], keep), keep)]

All(b) == TRUE
Few(b) == b.off \in {0, 32, 48, 64, 256, 320, 384, 448, 480, 496}
Root0 == Heap(0, All)
Rows(n) == Heap(n, All)
Full == Heap(6, All)
Sparse == Heap(6, Few)
Small == Heap(4, All)

Fine == <<>>
Managed(off, size) == [type |-> "managed", off |-> off, size |-> size, key |-> 0]
Huge(key) == [type |-> "huge", off |-> 50, size |-> 4, key |-> key]
Tiny == [type |-> "tiny", off |-> 0, size |-> 2, key |-> 0]
Version == [Tiny EXCEPT !.type = "version"]

Rec(key, id) == [key |-> key, id |-> id, mesg |-> "hard", addr |-> 50]
Leaf(recs) == [recs |-> recs, kids |-> <<>>]
OneLeaf(hdr, recs) ==
    [hdr |-> hdr, root |-> hdr + 1, depth |-> 0, node |-> (hdr + 1 :> Leaf(recs))]

(* A tree of depth 2 over the records k*d+1, k*d+2...                      *)
DeepTree(hdr, rec(_), kid) ==
    [hdr |-> hdr, root |-> hdr + 1, depth |-> 2,
     node |-> (hdr + 1 :> [recs |-> <<rec(3)>>, kids |-> <<hdr + 2, hdr + 3>>])
           @@ (hdr + 2 :> [recs |-> <<rec(2)>>, kids |-> <<hdr + 4, hdr + 5>>])
           @@ (hdr + 3 :> [recs |-> <<rec(5), rec(7)>>, kids |-> <<hdr + 6, hdr + 7, kid>>])
           @@ (hdr + 4 :> Leaf(<<rec(1)>>))
           @@ (hdr + 5 :> Leaf(<<>>))
           @@ (hdr + 6 :> Leaf(<<rec(4)>>))
           @@ (hdr + 7 :> Leaf(<<rec(6)>>))
           @@ (hdr + 8 :> Leaf(<<rec(8), rec(9), rec(10)>>))]

Case(h, c, n, b) == [heap |-> h, corder |-> c, name |-> n, bad |-> b]

(* Every offset of interest in a full and in a sparse heap.                *)
Offsets == {8 * k + j : k \in 0..63, j \in {1, 2, 6}} \cup {0, 512}
OffsetCases ==
    {Case(h, OneLeaf(1, <<Rec(1, Managed(off, 2))>>), NoTree, Fine) :
        h \in {Sparse, Small}, off \in {o \in Offsets : o <= 512}}
    \cup {Case(Full, OneLeaf(1, <<Rec(1, Managed(off, s))>>), NoTree, Fine) :
        off \in {30, 34, 50, 63, 66, 130, 250, 258, 322, 386, 390, 450, 498, 506}, s \in {2, 8}}
    \cup {Case(Root0, OneLeaf(1, <<Rec(1, Managed(off, s))>>), NoTree, Fine) :
        off \in 1..9, s \in {2, 9}}
    \cup {Case(Rows(n), OneLeaf(1, <<Rec(1, Managed(off, s))>>), NoTree, Fine) :
        n \in 1..4, off \in {2, 16, 18, 32, 34, 64, 66, 128}, s \in {0, 2, 9}}

(* Indexes of ten records, one node or block damaged, or none.             *)
TenIds(k) == Rec(k, Managed(<<2, 34, 50, 66, 258, 322, 386, 450, 482, 498>>[k], 2))
Later(k) == Rec(k + 10, Managed(<<2, 34, 50, 66, 258, 322, 386, 450, 482, 498>>[k], 2))
Damages ==
    {Fine} \cup {(a :> d) : a \in 1..9 \cup {12, 90, 91, At(0, 6), At(48, 0), At(384, 4)},
                                        d \in {"soft", "stop"}}
IndexCases ==
    {Case(Sparse, DeepTree(1, TenIds, kid), DeepTree(11, Later, 19), b) : kid \in {9, 2}, b \in Damages}

(* One block that says it is somewhere else; a table that holds itself.    *)
Moved(h, a, off) == [h EXCEPT !.block[a].off = off]
Cyclic == [Sparse EXCEPT !.block[At(0, 6)].ents[7] = At(0, 6)]
OnlyItself == [Heap(6, LAMBDA b : FALSE) EXCEPT !.block[At(0, 6)].ents[12] = At(0, 6)]
OddHeaps ==
    {Moved(Sparse, At(256, 4), 192), Moved(Sparse, At(384, 4), 256), Moved(Sparse, At(48, 0), 64), Cyclic,
     OnlyItself, [Sparse EXCEPT !.flags = {"sections"}], [Sparse EXCEPT !.flags = {"unknown"}],
     [Sparse EXCEPT !.dtable.width = 3], [Sparse EXCEPT !.dtable.max_direct = 4],
     [Sparse EXCEPT !.dtable.width = 8], [Sparse EXCEPT !.dtable.max_direct = 64],
     [Sparse EXCEPT !.fs = Undef], [Sparse EXCEPT !.table = Undef],
     [Root0 EXCEPT !.table = Undef], [Root0 EXCEPT !.id_len = 40]}
OddCases ==
    {Case(h, OneLeaf(1, <<Rec(1, Managed(off, 2)), Rec(2, id), Rec(3, Managed(34, 2))>>),
          OneLeaf(11, <<Rec(1, Managed(322, 2))>>), Fine) :
        h \in OddHeaps, off \in {50, 258, 322, 386, 450}, id \in {Tiny, Version, Huge(1)}}
    \cup {Case(h, OneLeaf(1, <<[Rec(1, Managed(50, 2)) EXCEPT !.mesg = "damaged"], Rec(2, Managed(34, 2))>>),
               OneLeaf(11, <<>>), Fine) : h \in {Sparse, Root0}}

(* Huge objects: ids that are near each other, and ids that are not.       *)
HugeNear(k) == [key |-> k, addr |-> 50, len |-> 4]
HugeFar(k) == [key |-> 3 * k, addr |-> 50, len |-> IF k = 3 THEN 0 ELSE 4]
HugeHeaps ==
    {[Root0 EXCEPT !.huge = t, !.filter = f, !.id_len = l] :
        t \in {DeepTree(21, HugeNear, 29), DeepTree(21, HugeFar, 29), OneLeaf(21, <<>>)},
        f \in BOOLEAN, l \in {7, 17, 32}}
HugeCases ==
    {Case(h, OneLeaf(1, <<Rec(1, Huge(k)), Rec(2, Managed(2, 2))>>), NoTree, b) :
        h \in HugeHeaps, k \in {0, 1, 2, 3, 5, 6, 7, 8, 9, 10, 11, 30},
        b \in {Fine, (24 :> "soft"), (50 :> "stop")}}

MCCases == OffsetCases \cup IndexCases \cup OddCases \cup HugeCases
MCUninitialized == {0, 4}

=============================================================================
