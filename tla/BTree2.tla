------------------------------- MODULE BTree2 -------------------------------
(***************************************************************************)
(* Version 2 B-trees as h5check reads them (h5checkerV2_0.c): check_btree2 *)
(* walks a tree and hands every record to a callback, B2_find looks one    *)
(* record up.  Neither has state that outlives the call; both trust the    *)
(* depth in the tree's header and not what a node says of itself.          *)
(*                                                                         *)
(* A tree is [hdr, root, depth, node]: the address of its header, the      *)
(* address and depth of its root and the nodes.  A node is [recs, kids]:   *)
(* its records and, in an internal node, the addresses of its children.    *)
(***************************************************************************)
EXTENDS Integers, FiniteSets, SequencesExt

CONSTANTS
    IntBits,    \* the bits of a C int
    Undef       \* CK_ADDR_UNDEF

ASSUME IntBitsAssumption == IntBits \in Nat \ {0}

VARIABLES
    bad,        \* what is wrong with the block at an address, fixed
    walk,       \* check_btree2
    find        \* B2_find

(* At an address "soft" is a version, type or checksum that is not right,  *)
(* "stop" a block that cannot be read or has another signature.            *)
BadAt(a) == IF a \in DOMAIN bad THEN bad[a] ELSE "none"

NoTree == [hdr |-> Undef, root |-> Undef, depth |-> 0, node |-> <<>>]

NoRecord == [key |-> 0]

IdleWalk == [res |-> "idle", tree |-> NoTree, todo |-> <<>>, rec |-> 0, err |-> 0]
IdleFind == [res |-> "idle", tree |-> NoTree, key |-> 0, at |-> Undef, depth |-> 0, got |-> NoRecord]

(* check_bt2_hdr: every error makes it fail.                               *)
HeaderFails(tree) == BadAt(tree.hdr) # "none"

(* A node's signature says whether it is a leaf.                           *)
IsLeaf(tree, a) == tree.node[a].kids = <<>>
CannotRead(tree, a, depth) ==
    BadAt(a) = "stop" \/ a \notin DOMAIN tree.node \/ (IsLeaf(tree, a) # (depth = 0))

(* The fields of a record of each class, in the order of its structure; a  *)
(* decoder fills them all and never fails.                                 *)
RecordFields ==
    [indir      |-> <<"addr", "len", "id">>,
     filt_indir |-> <<"addr", "len", "filter_mask", "obj_size", "id">>,
     dir        |-> <<"addr", "len">>,
     filt_dir   |-> <<"addr", "len", "filter_mask", "obj_size">>]

IdField(class) == CHOOSE j \in DOMAIN RecordFields[class] : RecordFields[class][j] = "id"

-----------------------------------------------------------------------------
(* check_btree2: the nodes still to check, the next one first, each with   *)
(* the depth its parent gives it.                                          *)

(* A tree without a root "shouldn't happen".                               *)
WalkStart(tree) ==
    walk' = IF HeaderFails(tree) \/ tree.root = Undef
            THEN [IdleWalk EXCEPT !.res = "fail", !.tree = tree]
            ELSE [IdleWalk EXCEPT !.res = "run", !.tree = tree,
                     !.todo = <<[at |-> tree.root, depth |-> tree.depth]>>]

Walking == walk.res = "run"
WalkNode == walk.tree.node[Head(walk.todo).at]
RecordsLeft == walk.rec \in 1..Len(WalkNode.recs)
NextRecord == WalkNode.recs[walk.rec]

(* check_bt2_leaf, check_bt2_internal: the node is read.                   *)
WalkRead ==
    /\ Walking /\ walk.rec = 0
    /\ LET ptr == Head(walk.todo)
       IN walk' = IF CannotRead(walk.tree, ptr.at, ptr.depth)
                  THEN [walk EXCEPT !.res = "fail"]
                  ELSE [walk EXCEPT !.rec = 1,
                           !.err = IF BadAt(ptr.at) = "soft" THEN 1 ELSE 0]

(* Mutant: the records behind one whose callback fails are left out.       *)
WalkRecordStop(ok) ==
    walk' = IF ok THEN [walk EXCEPT !.rec = @ + 1]
            ELSE [walk EXCEPT !.rec = Len(WalkNode.recs) + 1, !.err = @ + 1]

(* The callback has dealt with a record; its failure fails the node, after *)
(* the records that follow.                                                *)
WalkRecord(ok) ==
    walk' = [walk EXCEPT !.rec = @ + 1, !.err = IF ok THEN @ ELSE @ + 1]

(* Mutant: the last child is forgotten.                                    *)
ChildrenButLast(ptr, kids) ==
    IF kids = <<>> THEN <<>>
    ELSE [j \in 1..(Len(kids) - 1) |-> [at |-> kids[j], depth |-> ptr.depth - 1]]

Children(ptr, kids) == [j \in DOMAIN kids |-> [at |-> kids[j], depth |-> ptr.depth - 1]]

(* check_bt2_real: an error ends the walk, otherwise the children follow.  *)
WalkDown ==
    /\ Walking /\ walk.rec > Len(WalkNode.recs)
    /\ LET todo == Children(Head(walk.todo), WalkNode.kids) \o Tail(walk.todo)
       IN walk' = IF walk.err > 0 THEN [walk EXCEPT !.res = "fail"]
                  ELSE [walk EXCEPT !.todo = todo, !.rec = 0,
                                    !.res = IF todo = <<>> THEN "ok" ELSE "run"]

-----------------------------------------------------------------------------
(* B2_find                                                                 *)

(* The difference of two 64-bit ids, returned as an int.                   *)
Compare(a, b) ==
    LET d == (a - b) % 2^IntBits
    IN  IF d < 2^(IntBits - 1) THEN d ELSE d - 2^IntBits

(* Mutant: the last record of the upper half is left out.                  *)
LocateShort(keys, key) ==
    LET search[b \in (0..Len(keys)) \X (0..Len(keys))] ==
            LET idx == (b[1] + b[2]) \div 2
                cmp == Compare(key, keys[idx + 1])
                rest == IF cmp < 0 THEN <<b[1], idx>> ELSE <<idx + 1, b[2] - 1>>
            IN  IF cmp = 0 \/ rest[1] >= rest[2] THEN [cmp |-> cmp, idx |-> idx]
                ELSE search[rest]
    IN  IF keys = <<>> THEN [cmp |-> -1, idx |-> 0] ELSE search[<<0, Len(keys)>>]

(* B2_locate_record: a binary search; it returns the last comparison and   *)
(* the index, from 0, at which it was made.                                *)
Locate(keys, key) ==
    LET search[b \in (0..Len(keys)) \X (0..Len(keys))] ==
            LET idx == (b[1] + b[2]) \div 2
                cmp == Compare(key, keys[idx + 1])
                rest == IF cmp < 0 THEN <<b[1], idx>> ELSE <<idx + 1, b[2]>>
            IN  IF cmp = 0 \/ rest[1] >= rest[2] THEN [cmp |-> cmp, idx |-> idx]
                ELSE search[rest]
    IN  IF keys = <<>> THEN [cmp |-> -1, idx |-> 0] ELSE search[<<0, Len(keys)>>]

(* The keys of a node's records.                                           *)
Keys(recs) == [j \in DOMAIN recs |-> recs[j].key]

FindStart(tree, key) ==
    find' = IF HeaderFails(tree) \/ tree.node[tree.root].recs = <<>>
            THEN [IdleFind EXCEPT !.res = "fail", !.tree = tree, !.key = key]
            ELSE [IdleFind EXCEPT !.res = "run", !.tree = tree, !.key = key,
                                  !.at = tree.root, !.depth = tree.depth]

Finding == find.res = "run"
FindNode == find.tree.node[find.at]

(* A node that is damaged at all is not searched.                          *)
Refused == CannotRead(find.tree, find.at, find.depth) \/ BadAt(find.at) # "none"

(* The child that may hold the key.                                        *)
Child(l) == IF l.cmp > 0 THEN l.idx + 1 ELSE l.idx

FindInternal ==
    /\ Finding /\ find.depth > 0
    /\ IF Refused THEN find' = [find EXCEPT !.res = "fail"]
       ELSE LET l == Locate(Keys(FindNode.recs), find.key)
            IN find' = IF l.cmp = 0
                       THEN [find EXCEPT !.res = "ok", !.got = FindNode.recs[l.idx + 1]]
                       ELSE [find EXCEPT !.at = FindNode.kids[Child(l) + 1],
                                         !.depth = @ - 1]

FindLeaf ==
    /\ Finding /\ find.depth = 0
    /\ IF Refused THEN find' = [find EXCEPT !.res = "fail"]
       ELSE LET l == Locate(Keys(FindNode.recs), find.key)
            IN find' = IF l.cmp = 0
                       THEN [find EXCEPT !.res = "ok", !.got = FindNode.recs[l.idx + 1]]
                       ELSE [find EXCEPT !.res = "fail"]

-----------------------------------------------------------------------------
(* What a tree holds: the records of the nodes reached from its root.      *)
NodesOf(tree) ==
    LET reach[d \in 0..tree.depth] ==
            IF d = 0 THEN {tree.root}
            ELSE reach[d - 1] \cup
                 UNION {Range(tree.node[a].kids) : a \in reach[d - 1] \cap DOMAIN tree.node}
    IN  reach[tree.depth] \cap DOMAIN tree.node

RecordsOf(tree) == UNION {Range(tree.node[a].recs) : a \in NodesOf(tree)}

(* Records in order, children between them, every leaf at the same depth.  *)
Ordered(tree) ==
    LET inorder[a \in DOMAIN tree.node, d \in 0..tree.depth] ==
            LET keys == Keys(tree.node[a].recs)
                kids == tree.node[a].kids
            IN  IF d = 0 \/ kids = <<>> THEN keys
                ELSE FlattenSeq([j \in 1..Len(kids) |->
                        inorder[kids[j], d - 1] \o
                            (IF j <= Len(keys) THEN <<keys[j]>> ELSE <<>>)])
        all == inorder[tree.root, tree.depth]
    IN  /\ \A a \in NodesOf(tree) : Len(tree.node[a].kids) \in {0, Len(tree.node[a].recs) + 1}
        /\ \A j \in 1..(Len(all) - 1) : all[j] < all[j + 1]
        /\ all # <<>> => Last(all) - all[1] < 2^(IntBits - 1)

=============================================================================
