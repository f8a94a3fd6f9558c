---------------------------- MODULE Soundness_proof ----------------------------
(***************************************************************************)
(* The verdict of h5check, for any file and its faults: LogsSoundFiles, a  *)
(* log is written exactly when no block that the superblock leads to is    *)
(* damaged.                                                                *)
(*                                                                         *)
(* While no error has been found every block dealt with is covered: it is  *)
(* undamaged, and whatever it leads to is covered or a header in the       *)
(* table.  Progress says of each check_* function how far it has come with *)
(* its block, Waiting what the caller of a function is owed, and SoundP    *)
(* where in the file the walk can be when there is no damage at all, which *)
(* keeps a function from counting an error there.  When the walk is over   *)
(* the headers of the table are covered too, so the covered blocks are     *)
(* closed under what they lead to and hold the root: they hold everything  *)
(* that is reached.                                                        *)
(***************************************************************************)
EXTENDS H5Check_proof

-----------------------------------------------------------------------------
(* What has been dealt with while no error was found.  The table T holds   *)
(* the headers met; a block is covered when it is undamaged and whatever   *)
(* it leads to is covered or in the table.                                 *)
Closed(F, flt, T, S) == \A a \in S : ~ Damaged(F, flt, a) /\ Targets(F, a) \subseteq S \cup T
Covered(F, flt, T) == UNION {S \in SUBSET Addr : Closed(F, flt, T, S)}
Met(F, flt, T) == Covered(F, flt, T) \cup T

Unharmed(flt, a) == flt[a] \notin {"soft", "stop"}

Treated(F, flt, m, M) ==
    \/ m.kind \in {"cont", "nil"}
    \/ /\ flt[m.chunk] # "message" /\ m.kind # "unknown"
       /\ MesgTargets(m) \subseteq M
       /\ m.kind = "edf" => ~ (m.bad > 0)
       /\ m.kind = "shared" => HoldsDatatype(F, m.header)

TreatedBefore(F, flt, s, n, M) == \A j \in 1 .. Len(s) : j < n => Treated(F, flt, s[j], M)

(* The messages of a header come from the chunks C.                        *)
From(F, C, m) == \E c \in C : \E x \in Range(F.block[c].items) : m = ReadFrom(x, c)

Known(f, C) == IF f.pc = "chunk" THEN C \cup {f.chunk} ELSE C

Reading(F, flt, f, C) ==
    /\ C \subseteq Headers(F) /\ Known(f, C) \subseteq Chunks(F, f.at)
    /\ f.at \in Known(f, C) /\ (f.pc = "chunk" => f.i <= Len(f.mesg) + 1)
    /\ \A c \in C : Unharmed(flt, c)
    /\ \A j \in 1 .. Len(f.mesg) : From(F, C, f.mesg[j])
    /\ \A c \in C : \A x \in Range(F.block[c].items) :
          \E j \in 1 .. Len(f.mesg) : f.mesg[j] = ReadFrom(x, c)
    /\ \A j \in 1 .. Len(f.mesg) :
          f.mesg[j].kind = "cont" /\ (f.pc = "chunk" => j < f.i) =>
              flt[f.mesg[j].chunk] # "message" /\ f.mesg[j].at \in Known(f, C)

HeaderP(F, flt, f) ==
    /\ f.pc = "enter" => f.mesg = << >> /\ f.chunk = f.at /\ f.i = 1
    /\ f.pc # "enter" => flt[f.at] # "stop" /\ \E C \in SUBSET Addr : Reading(F, flt, f, C)

Indexing(F, flt, f, M) ==
    LET m == f.mesg[f.i]
    IN  /\ f.i <= Len(f.mesg)
        /\ m.kind \in {"linfo", "ainfo"} /\ flt[m.chunk] # "message" /\ m.fheap \in M \cup {Undef}
        /\ f.todo # << >> => f.mode = IF m.kind = "linfo" THEN "links" ELSE "attrs"
        /\ {m.corder, m.byname} \ {Undef} \subseteq M \cup {f.todo[k] : k \in 1 .. Len(f.todo)}
        /\ \A k \in 1 .. Len(f.todo) : f.todo[k] \in Indexes(F, f.mode)

MessagesP(F, flt, f, M) ==
    /\ f.pc \in {"enter", "indexes"}
    /\ TreatedBefore(F, flt, f.mesg, f.i, M)
    /\ f.pc = "indexes" => Indexing(F, flt, f, M)

(* A node has no more entries than the K value of the file allows.         *)
Within(F, a) ==
    ~ Exceeds(F.block[a],
              IF F.block[a].kind = "groups" THEN F.super.snode_k ELSE F.super.istore_k)

Inner(F, a) == F.block[a].kind = "groups" \/ F.block[a].level > 0

Apart(S, R) == S \cap R = {}

BtreeP(F, flt, f, B, M) ==
    LET items == F.block[f.at].items
    IN  /\ f.pc \in {"enter", "entries"} /\ B \subseteq f.names
        /\ f.pc = "enter" => f.i = 1
        /\ f.pc = "entries" => Unharmed(flt, f.at) /\ Within(F, f.at)
        /\ Inner(F, f.at) =>
              \A j \in 1 .. Len(items) : j < f.i =>
                 /\ items[j] \in M
                 /\ NamesUnder(F, items[j]) \subseteq f.names
                 /\ Apart(B, NamesUnder(F, items[j]))
                 /\ \A k \in 1 .. Len(items) : k < j =>
                       Apart(NamesUnder(F, items[k]), NamesUnder(F, items[j]))

EntryTargets(e) == IF e.slink THEN {} ELSE {e.header} \ {Undef}

SymP(F, flt, f, B, M) ==
    LET items == F.block[f.at].items
    IN  /\ f.pc \in {"enter", "entries"} /\ B \subseteq f.names
        /\ f.pc = "enter" => f.i = 1
        /\ f.pc = "entries" =>
              /\ Unharmed(flt, f.at) /\ EntryErrors(items, B) = 0
              /\ ~ (Len(items) > 2 * F.super.leaf_k)
              /\ OwnNames(F, f.at) \subseteq f.names
              /\ \A j \in 1 .. Len(items) : j < f.i => EntryTargets(items[j]) \subseteq M

RecordsMet(F, f, n, M) ==
    LET items == F.block[F.block[f.at].items[1]].items
    IN  f.mode = "links" =>
           \A j \in 1 .. Len(items) : j < n => items[j] \in M \cup {Undef}

Btree2P(F, flt, f, M) ==
    LET leaf == F.block[f.at].items[1]
    IN  /\ f.pc \in {"enter", "leaf", "records", "done"}
        /\ f.mode \in {"chunks", "links", "attrs"} /\ f.at \in Indexes(F, f.mode)
        /\ f.pc \in {"enter", "leaf"} => f.i = 1
        /\ f.pc # "enter" => Unharmed(flt, f.at)
        /\ f.pc \in {"records", "done"} => flt[leaf] # "stop"
        /\ f.pc = "records" => RecordsMet(F, f, f.i, M)
        /\ f.pc = "done" => Unharmed(flt, leaf) /\ RecordsMet(F, f, Len(F.block[leaf].items) + 1, M)

(* Where the walk is in a sound file.                                      *)
SoundP(F, f, B) ==
    LET items == F.block[f.at].items
    IN  /\ f.at \in Reached(F)
        /\ f.fn = "messages" =>
              /\ \A j \in 1 .. Len(f.mesg) : From(F, Reached(F) \cap Headers(F), f.mesg[j])
              /\ \A k \in 1 .. Len(f.todo) : f.todo[k] \in Reached(F)
        /\ f.fn = "btree" =>
              /\ Apart(B, NamesUnder(F, f.at))
              /\ f.names \subseteq B \cup
                    (IF Inner(F, f.at)
                     THEN UNION {NamesUnder(F, items[j]) : j \in {k \in 1 .. Len(items) : k < f.i}}
                     ELSE {})
        /\ f.fn = "sym" =>
              /\ Apart(B, OwnNames(F, f.at))
              /\ f.names \subseteq B \cup (IF f.pc = "enter" THEN {} ELSE OwnNames(F, f.at))

Progress(F, flt, f, B, M) ==
    /\ f.ret_err = 0 /\ f.ret_other_err = 0
    /\ f.fn = "header" => HeaderP(F, flt, f)
    /\ f.fn = "messages" => MessagesP(F, flt, f, M)
    /\ f.fn = "btree" => BtreeP(F, flt, f, B, M)
    /\ f.fn = "sym" => SymP(F, flt, f, B, M)
    /\ f.fn = "btree2" => Btree2P(F, flt, f, M)
    /\ ~ FileDamaged(F, flt) => SoundP(F, f, B)

(* The function that runs.                                                 *)
Runs(F, flt, f, B, M) ==
    /\ Progress(F, flt, f, B, M)
    /\ f.fn = "header" /\ f.pc = "return" => TreatedBefore(F, flt, f.mesg, Len(f.mesg) + 1, M)

(* The function p waits for g.                                             *)
AtMesg(p) == p.pc = "enter" /\ p.i <= Len(p.mesg)

Waiting(F, flt, p, g, M) ==
    /\ p.fn = "header" => p.pc = "return" /\ g.fn = "messages" /\ g.mesg = p.mesg /\ g.at = p.at
    /\ p.fn = "messages" =>
          /\ g.fn \in {"header", "btree", "btree2"}
          /\ g.want =>
                /\ AtMesg(p) /\ p.mesg[p.i].kind = "shared" /\ p.mesg[p.i].header = g.at
                /\ flt[p.mesg[p.i].chunk] # "message"
          /\ g.fn # "btree2" /\ ~ g.want => AtMesg(p) /\ Treated(F, flt, p.mesg[p.i], M)
    /\ p.fn = "btree" =>
          /\ p.pc = "entries" /\ Inner(F, p.at) /\ p.i <= Len(F.block[p.at].items)
          /\ F.block[p.at].items[p.i] = g.at /\ g.fn \in {"btree", "sym"}
    /\ p.fn = "sym" =>
          /\ p.pc = "entries" /\ p.i <= Len(F.block[p.at].items)
          /\ EntryTargets(F.block[p.at].items[p.i]) \subseteq M /\ g.fn = "header" /\ ~ g.want
    /\ p.fn = "btree2" =>
          /\ p.pc = "records" /\ g.fn = "header" /\ ~ g.want
          /\ F.block[F.block[p.at].items[1]].items[p.i] = g.at

Suspended(F, flt, p, B, g, M) ==
    Progress(F, flt, p, B, M \cup {g.at}) /\ Waiting(F, flt, p, g, M \cup {g.at})

(* The names that a function is given by its caller.                       *)
Given(p) == IF p.fn = "btree" THEN p.names ELSE {}
GivenAt(s, d) == IF d = 1 THEN {} ELSE Given(Deep(s, d - 1))

OpenHeader(f, h) == f.fn = "header" /\ f.pc # "enter" /\ f.at = h

Covers(F, flt, s, T) ==
    LET M == Met(F, flt, T)
        n == Len(s)
    IN  /\ \A d \in 1 .. n - 1 : Suspended(F, flt, Deep(s, d), GivenAt(s, d), Deep(s, d + 1), M)
        /\ n >= 1 => Runs(F, flt, Deep(s, n), GivenAt(s, n), M)
        /\ \A h \in T : h \in Covered(F, flt, T) \/ \E d \in 1 .. n : OpenHeader(Deep(s, d), h)
        /\ F.root \in M \/ (n >= 1 /\ Deep(s, 1).fn = "header" /\ Deep(s, 1).at = F.root)

Good == nerrors = 0 /\ estack = 0

(* The K values of the file are those the code uses, and memory suffices.  *)
Regular == DefaultK(file.super) /\ ~ starved

CoverInv ==
    /\ pc = "init" => obj_table = {} /\ nerrors = 0
    /\ pc \notin {"check", "crashed"} => stack = << >>
    /\ Regular =>
         /\ pc \notin {"init", "crashed"} /\ Good =>
              ~ SuperblockDamaged(file.super) /\ Covers(file, fault, stack, obj_table)
         /\ ~ FileDamaged(file, fault) /\ pc # "crashed" => Good
    /\ pc = "exit" => dumped = (nerrors = 0)

-----------------------------------------------------------------------------
(* What can be reached.  Induction is for a set of numbers; the recursive  *)
(* function of Closure exists, and after as many steps as there are        *)
(* addresses it finds nothing new.                                         *)
LEMMA Inductive ==
    ASSUME NEW S, 0 \in S, \A n \in Nat : n \in S => n + 1 \in S
    PROVE  \A n \in Nat : n \in S
<1>. SUFFICES ASSUME NEW n \in Nat, n \notin S PROVE FALSE
  OBVIOUS
<1>. DEFINE Others == {k \in Nat : k \notin S}
            k == Min(Others)
<1>1. k \in Others /\ \A j \in Others : k <= j
  <2>1. Others \in SUBSET Nat /\ Others # {}
    OBVIOUS
  <2>. HIDE DEF Others
  <2>. QED BY <2>1, LeastOpen
<1>. HIDE DEF k
<1>2. k # 0 /\ k - 1 \in Nat /\ k - 1 + 1 = k
  BY <1>1
<1>3. k - 1 \notin S
  BY <1>1, <1>2
<1>. QED BY <1>1, <1>2, <1>3

Steps(S, next, n, g) ==
    g = [k \in 0 .. n |-> IF k = 0 THEN S
                          ELSE g[k - 1] \cup UNION {next[a] : a \in g[k - 1]}]

LEMMA StepsExist == ASSUME NEW S, NEW next PROVE \A n \in Nat : \E g : Steps(S, next, n, g)
<1>. DEFINE N == {n \in Nat : \E g : Steps(S, next, n, g)}
<1>1. 0 \in N
  <2>. DEFINE g == [k \in 0 .. 0 |-> S]
  <2>1. Steps(S, next, 0, g)
    BY DEF Steps
  <2>. QED BY <2>1
<1>2. ASSUME NEW n \in Nat, n \in N PROVE n + 1 \in N
  <2>1. PICK g : Steps(S, next, n, g)
    BY <1>2
  <2>. DEFINE more == g[n] \cup UNION {next[a] : a \in g[n]}
              h == [k \in 0 .. n + 1 |-> IF k = n + 1 THEN more ELSE g[k]]
              r == [k \in 0 .. n + 1 |-> IF k = 0 THEN S
                          ELSE h[k - 1] \cup UNION {next[a] : a \in h[k - 1]}]
  <2>2. \A k \in 0 .. n : g[k] = IF k = 0 THEN S ELSE g[k - 1] \cup UNION {next[a] : a \in g[k - 1]}
    BY <2>1 DEF Steps
  <2>3. ASSUME NEW k \in 0 .. n + 1 PROVE h[k] = r[k]
    <3>1. CASE k = 0
      <4>1. h[k] = g[0] /\ r[k] = S /\ 0 \in 0 .. n
        BY <3>1
      <4>. QED BY <2>2, <4>1
    <3>2. CASE k = n + 1
      <4>1. k - 1 = n /\ h[n] = g[n] /\ n \in 0 .. n + 1
        BY <3>2
      <4>2. h[k] = more
        BY <3>2
      <4>3. r[k] = h[k - 1] \cup UNION {next[a] : a \in h[k - 1]}
        BY <3>2
      <4>. QED BY <4>1, <4>2, <4>3
    <3>3. CASE k # 0 /\ k # n + 1
      <4>1. k - 1 \in 0 .. n /\ k \in 0 .. n /\ k - 1 # n + 1 /\ k - 1 \in 0 .. n + 1
        BY <3>3
      <4>2. h[k] = g[k] /\ h[k - 1] = g[k - 1]
        BY <3>3, <4>1
      <4>3. r[k] = h[k - 1] \cup UNION {next[a] : a \in h[k - 1]}
        BY <3>3
      <4>4. g[k] = g[k - 1] \cup UNION {next[a] : a \in g[k - 1]}
        BY <2>2, <3>3, <4>1
      <4>. QED BY <4>2, <4>3, <4>4
    <3>. QED BY <3>1, <3>2, <3>3
  <2>4. h = r
    BY <2>3
  <2>5. Steps(S, next, n + 1, h)
    BY <2>4 DEF Steps
  <2>. QED BY <2>5
<1>. HIDE DEF N
<1>3. \A n \in Nat : n \in N
  BY <1>1, <1>2, Inductive
<1>. QED BY <1>3 DEF N

LEMMA ClosureSteps ==
    ASSUME NEW S, NEW next
    PROVE  /\ Cardinality(Addr) \in Nat
           /\ \E g : /\ Steps(S, next, Cardinality(Addr), g)
                     /\ Closure(S, next) = g[Cardinality(Addr)]
<1>. DEFINE n == Cardinality(Addr)
            g == CHOOSE h : Steps(S, next, n, h)
<1>1. n \in Nat
  BY AddrAssumption, FS_CardinalityType
<1>2. Closure(S, next) = g[n]
  BY DEF Closure, Steps
<1>. HIDE DEF n
<1>3. Steps(S, next, n, g)
  BY <1>1, StepsExist
<1>. QED BY <1>1, <1>2, <1>3 DEF n

Taken(S, next, n, g) ==
    /\ g[0] = S
    /\ \A k \in Nat : k + 1 <= n => g[k + 1] = g[k] \cup UNION {next[a] : a \in g[k]}

LEMMA StepsTaken ==
    ASSUME NEW S, NEW next, NEW n \in Nat, NEW g, Steps(S, next, n, g) PROVE Taken(S, next, n, g)
<1>1. \A k \in 0 .. n : g[k] = IF k = 0 THEN S ELSE g[k - 1] \cup UNION {next[a] : a \in g[k - 1]}
  BY DEF Steps
<1>2. g[0] = S
  <2>1. 0 \in 0 .. n
    OBVIOUS
  <2>. QED BY <1>1, <2>1
<1>3. ASSUME NEW k \in Nat, k + 1 <= n PROVE g[k + 1] = g[k] \cup UNION {next[a] : a \in g[k]}
  <2>1. PICK j : j = k + 1
    OBVIOUS
  <2>2. j \in 0 .. n /\ j # 0 /\ j - 1 = k
    BY <1>3, <2>1
  <2>3. g[j] = g[j - 1] \cup UNION {next[a] : a \in g[j - 1]}
    BY <1>1, <2>2
  <2>. QED BY <2>1, <2>2, <2>3
<1>. QED BY <1>2, <1>3 DEF Taken

Stable(next, S) == \A a \in S : next[a] \subseteq S

LEMMA ClosureIsLeast ==
    ASSUME NEW S, NEW next, NEW R, S \subseteq R, Stable(next, R)
    PROVE  Closure(S, next) \subseteq R
<1>. DEFINE n == Cardinality(Addr)
<1>1. PICK g : Steps(S, next, n, g) /\ Closure(S, next) = g[n]
  BY ClosureSteps
<1>2. n \in Nat
  BY ClosureSteps
<1>. HIDE DEF n
<1>. DEFINE N == {k \in Nat : k <= n => g[k] \subseteq R}
<1>3. /\ g[0] = S
      /\ \A k \in Nat : k + 1 <= n => g[k + 1] = g[k] \cup UNION {next[a] : a \in g[k]}
  <2>1. Taken(S, next, n, g)
    BY <1>1, <1>2, StepsTaken
  <2>. QED BY <2>1 DEF Taken
<1>4. 0 \in N
  BY <1>2, <1>3
<1>5. ASSUME NEW k \in Nat, k \in N PROVE k + 1 \in N
  <2>. SUFFICES ASSUME k + 1 <= n PROVE g[k + 1] \subseteq R
    OBVIOUS
  <2>1. g[k] \subseteq R
    BY <1>2, <1>5
  <2>3. g[k + 1] = g[k] \cup UNION {next[a] : a \in g[k]}
    BY <1>3
  <2>. QED BY <2>1, <2>3 DEF Stable
<1>. HIDE DEF N
<1>6. \A k \in Nat : k \in N
  BY <1>4, <1>5, Inductive
<1>. QED BY <1>1, <1>2, <1>6 DEF N

LEMMA ClosureIsStable ==
    ASSUME NEW S, S \subseteq Addr, NEW next, \A a \in Addr : next[a] \subseteq Addr
    PROVE  /\ S \subseteq Closure(S, next) /\ Closure(S, next) \subseteq Addr
           /\ Stable(next, Closure(S, next))
<1>. DEFINE n == Cardinality(Addr)
<1>1. PICK g : Steps(S, next, n, g) /\ Closure(S, next) = g[n]
  BY ClosureSteps
<1>2. n \in Nat /\ IsFiniteSet(Addr)
  BY ClosureSteps, AddrAssumption
<1>3. /\ g[0] = S
      /\ \A k \in Nat : k + 1 <= n => g[k + 1] = g[k] \cup UNION {next[a] : a \in g[k]}
  <2>1. Taken(S, next, n, g)
    BY <1>1, <1>2, StepsTaken
  <2>. QED BY <2>1 DEF Taken
<1>. DEFINE N == {k \in Nat : k <= n =>
                    /\ S \subseteq g[k] /\ g[k] \subseteq Addr
                    /\ Stable(next, g[k]) \/ Cardinality(g[k]) >= k}
<1>4. 0 \in N
  <2>1. g[0] = S /\ IsFiniteSet(S)
    BY <1>2, <1>3, FS_Subset
  <2>2. Cardinality(S) \in Nat
    BY <2>1, FS_CardinalityType
  <2>. QED BY <2>1, <2>2
<1>5. ASSUME NEW k \in Nat, k \in N PROVE k + 1 \in N
  <2>. SUFFICES ASSUME k + 1 <= n
                PROVE  /\ S \subseteq g[k + 1] /\ g[k + 1] \subseteq Addr
                       /\ Stable(next, g[k + 1]) \/ Cardinality(g[k + 1]) >= k + 1
    OBVIOUS
  <2>1. /\ S \subseteq g[k] /\ g[k] \subseteq Addr
        /\ Stable(next, g[k]) \/ Cardinality(g[k]) >= k
    <3>1. k <= n
      BY <1>2
    <3>. QED BY <1>5, <3>1
  <2>3. g[k + 1] = g[k] \cup UNION {next[a] : a \in g[k]}
    BY <1>3
  <2>4. S \subseteq g[k + 1] /\ g[k + 1] \subseteq Addr /\ g[k] \subseteq g[k + 1]
    BY <2>1, <2>3
  <2>5. CASE Stable(next, g[k])
    <3>1. g[k + 1] = g[k]
      BY <2>3, <2>5 DEF Stable
    <3>. QED BY <2>4, <2>5, <3>1
  <2>6. CASE ~ Stable(next, g[k]) /\ Cardinality(g[k]) >= k
    <3>1. g[k + 1] # g[k]
      BY <2>3, <2>6 DEF Stable
    <3>2. IsFiniteSet(g[k + 1]) /\ IsFiniteSet(g[k])
      BY <1>2, <2>1, <2>4, FS_Subset
    <3>3. /\ Cardinality(g[k]) <= Cardinality(g[k + 1])
          /\ Cardinality(g[k]) # Cardinality(g[k + 1])
      BY <2>4, <3>1, <3>2, FS_Subset
    <3>4. Cardinality(g[k]) \in Nat /\ Cardinality(g[k + 1]) \in Nat
      BY <3>2, FS_CardinalityType
    <3>. QED BY <2>4, <2>6, <3>3, <3>4
  <2>. QED BY <2>1, <2>5, <2>6
<1>. HIDE DEF N
<1>6. \A k \in Nat : k \in N
  BY <1>4, <1>5, Inductive
<1>7. /\ S \subseteq g[n] /\ g[n] \subseteq Addr
      /\ Stable(next, g[n]) \/ Cardinality(g[n]) >= n
  BY <1>2, <1>6 DEF N
<1>8. Stable(next, Addr)
  BY DEF Stable
<1>9. Cardinality(g[n]) >= n => g[n] = Addr
  <2>1. Cardinality(g[n]) <= Cardinality(Addr) /\ (Cardinality(Addr) = Cardinality(g[n]) => Addr = g[n])
    BY <1>2, <1>7, FS_Subset
  <2>2. Cardinality(g[n]) \in Nat
    BY <1>2, <1>7, FS_Subset, FS_CardinalityType
  <2>. QED BY <1>2, <2>1, <2>2
<1>. QED BY <1>1, <1>7, <1>8, <1>9

-----------------------------------------------------------------------------
(* What a file has, and where it leads.                                    *)
LEMMA FileItems ==
    ASSUME NEW F \in Files, NEW a \in Addr
    PROVE  LET b == F.block[a]
           IN  /\ b.items \in Seq(Items(F, b)) /\ Range(b.items) \subseteq Items(F, b)
               /\ IsList(b.items)
               /\ \A j \in 1 .. Len(b.items) : b.items[j] \in Range(b.items)
               /\ \A x \in Range(b.items) : \E j \in 1 .. Len(b.items) : b.items[j] = x
<1>1. F.block[a].items \in Seq(Items(F, F.block[a]))
  BY FilesAssumption
<1>. DEFINE items == F.block[a].items
            I == Items(F, F.block[a])
<1>2. items \in Seq(I)
  BY <1>1
<1>. HIDE DEF items, I
<1>3. /\ Range(items) \subseteq I /\ IsList(items)
      /\ \A j \in 1 .. Len(items) : items[j] \in Range(items)
      /\ \A x \in Range(items) : \E j \in 1 .. Len(items) : items[j] = x
  BY <1>2 DEF Range, IsList
<1>. QED BY <1>2, <1>3 DEF items, I

LEMMA ChunkItems ==
    ASSUME NEW F \in Files, NEW a \in Headers(F) PROVE Range(F.block[a].items) \subseteq Messages(F)
<1>1. a \in Addr /\ F.block[a].kind = "chunk"
  BY DEF Headers, Of
<1>2. Items(F, F.block[a]) = Messages(F)
  BY <1>1 DEF Items
<1>. QED BY <1>1, <1>2, FileItems

LEMMA MesgTargetsTyped ==
    ASSUME NEW F, NEW m \in Messages(F)
    PROVE  MesgTargets(m) \subseteq Addr /\ (m.kind = "cont" => m.at \in Headers(F))
<1>1. CASE m.kind \in {"nil", "data", "datatype", "unknown"}
  BY <1>1 DEF MesgTargets
<1>2. CASE m.kind = "cont"
  BY <1>2 DEF MesgTargets, Messages, Infos, Headers, Of
<1>3. CASE m.kind = "edf"
  BY <1>3 DEF MesgTargets, Messages, Infos, Headers, Of
<1>4. CASE m.kind = "group"
  BY <1>4 DEF MesgTargets, Messages, Infos, Headers, Of
<1>5. CASE m.kind = "layout"
  BY <1>5 DEF MesgTargets, Messages, Infos, Headers, Of, Indexes
<1>6. CASE m.kind \in {"linfo", "ainfo"}
  BY <1>6 DEF MesgTargets, Messages, Infos, Headers, Of, Indexes
<1>7. CASE m.kind \in {"shared", "link"}
  BY <1>7 DEF MesgTargets, Messages, Infos, Headers, Of
<1>8. m.kind \in {"nil", "data", "datatype", "unknown", "cont", "edf", "group", "layout",
                  "linfo", "ainfo", "shared", "link"}
  BY DEF Messages, Infos
<1>. QED BY <1>1, <1>2, <1>3, <1>4, <1>5, <1>6, <1>7, <1>8

LEMMA TreeTargetsTyped ==
    ASSUME NEW F \in Files, NEW a \in Addr PROVE TreeTargets(F, a) \subseteq Addr
<1>. DEFINE b == F.block[a]
<1>1. Range(b.items) \subseteq Items(F, b) /\ (b.level > 0 => b.kind \in {"groups", "raw"})
  BY FileItems, FilesAssumption
<1>2. CASE b.kind = "groups"
  BY <1>1, <1>2 DEF TreeTargets, Items, Of
<1>3. CASE b.kind = "bt2"
  BY <1>1, <1>3 DEF TreeTargets, Items, Of
<1>4. CASE b.kind = "raw" /\ b.level > 0
  BY <1>1, <1>4 DEF TreeTargets, Items, Of
<1>5. CASE ~ (b.kind \in {"groups", "bt2"} \/ (b.kind = "raw" /\ b.level > 0))
  BY <1>5 DEF TreeTargets
<1>. QED BY <1>2, <1>3, <1>4, <1>5

LEMMA LinkTargetsTyped ==
    ASSUME NEW F \in Files, NEW a \in Addr PROVE LinkTargets(F, a) \subseteq Headers(F)
<1>. DEFINE b == F.block[a]
<1>1. Range(b.items) \subseteq Items(F, b)
  BY FileItems
<1>2. CASE b.kind = "sym"
  <2>1. Items(F, b) = Entries(F)
    BY <1>2 DEF Items
  <2>2. \A e \in Entries(F) : e.header \in Headers(F) \cup {Undef}
    BY DEF Entries
  <2>. HIDE DEF b
  <2>3. LinkTargets(F, a) = {e.header : e \in {g \in Range(b.items) : ~ g.slink}} \ {Undef}
    BY <1>2 DEF LinkTargets, b
  <2>. QED BY <1>1, <2>1, <2>2, <2>3
<1>3. CASE b.kind = "links"
  BY <1>1, <1>3 DEF LinkTargets, Items
<1>4. CASE b.kind \notin {"sym", "links"}
  BY <1>4 DEF LinkTargets
<1>. QED BY <1>2, <1>3, <1>4

LEMMA ChunkTargetsTyped ==
    ASSUME NEW F \in Files, NEW a \in Headers(F) PROVE ChunkTargets(F, a) \subseteq Addr
BY ChunkItems, MesgTargetsTyped DEF ChunkTargets

LEMMA TargetsTyped == ASSUME NEW F \in Files, NEW a \in Addr PROVE Targets(F, a) \subseteq Addr
<1>1. CASE F.block[a].kind = "chunk"
  BY <1>1, ChunkTargetsTyped DEF Targets, Headers, Of
<1>2. CASE F.block[a].kind # "chunk"
  BY <1>2, TreeTargetsTyped, LinkTargetsTyped DEF Targets, Headers, Of
<1>. QED BY <1>1, <1>2

LEMMA ContTargetsTyped ==
    ASSUME NEW F \in Files, NEW a \in Addr
    PROVE  ContTargets(F, a) \subseteq Headers(F) /\ ContTargets(F, a) \subseteq Targets(F, a)
<1>1. CASE F.block[a].kind = "chunk"
  <2>1. a \in Headers(F)
    BY <1>1 DEF Headers, Of
  <2>2. \A m \in Range(F.block[a].items) :
           m.kind = "cont" => m.at \in Headers(F) /\ m.at \in MesgTargets(m)
    <3>1. \A m \in Messages(F) : m.kind = "cont" => m.at \in Headers(F)
      BY MesgTargetsTyped
    <3>2. Undef \notin Headers(F)
      BY AddrAssumption DEF Headers, Of
    <3>3. \A m : m.kind = "cont" => MesgTargets(m) = {m.at} \ {Undef}
      BY DEF MesgTargets
    <3>. QED BY <2>1, <3>1, <3>2, <3>3, ChunkItems
  <2>. QED BY <1>1, <2>2 DEF ContTargets, Targets, ChunkTargets
<1>2. CASE F.block[a].kind # "chunk"
  BY <1>2 DEF ContTargets
<1>. QED BY <1>1, <1>2

-----------------------------------------------------------------------------
(* The closures used, each the least set that holds what it leads to.      *)
LEMMA ReachedFacts ==
    ASSUME NEW F \in Files
    PROVE  /\ F.root \in Reached(F) /\ Reached(F) \subseteq Addr
           /\ \A a \in Reached(F) : Targets(F, a) \subseteq Reached(F)
           /\ \A R \in SUBSET Addr :
                 F.root \in R /\ (\A a \in R : Targets(F, a) \subseteq R) => Reached(F) \subseteq R
<1>. DEFINE next == [a \in Addr |-> Targets(F, a)]
<1>1. F.root \in Addr
  BY FilesAssumption DEF Headers, Of
<1>2. \A a \in Addr : next[a] = Targets(F, a) /\ next[a] \subseteq Addr
  BY TargetsTyped
<1>3. Reached(F) = Closure({F.root}, next)
  BY DEF Reached
<1>. HIDE DEF next
<1>4. /\ {F.root} \subseteq Reached(F) /\ Reached(F) \subseteq Addr
      /\ Stable(next, Reached(F))
  BY <1>1, <1>2, <1>3, ClosureIsStable
<1>5. ASSUME NEW R \in SUBSET Addr, F.root \in R, \A a \in R : Targets(F, a) \subseteq R
      PROVE  Reached(F) \subseteq R
  <2>1. Stable(next, R) /\ {F.root} \subseteq R
    BY <1>2, <1>5 DEF Stable
  <2>. QED BY <1>3, <2>1, ClosureIsLeast
<1>. QED BY <1>2, <1>4, <1>5 DEF Stable

LEMMA ChunksFacts ==
    ASSUME NEW F \in Files, NEW h \in Addr
    PROVE  /\ h \in Chunks(F, h) /\ Chunks(F, h) \subseteq Addr
           /\ \A a \in Chunks(F, h) : ContTargets(F, a) \subseteq Chunks(F, h)
           /\ \A R \in SUBSET Addr :
                 h \in R /\ (\A a \in R : ContTargets(F, a) \subseteq R) => Chunks(F, h) \subseteq R
<1>. DEFINE next == [a \in Addr |-> ContTargets(F, a)]
<1>1. {h} \subseteq Addr
  OBVIOUS
<1>2. \A a \in Addr : next[a] = ContTargets(F, a) /\ next[a] \subseteq Addr
  BY ContTargetsTyped DEF Headers, Of
<1>3. Chunks(F, h) = Closure({h}, next)
  BY DEF Chunks
<1>. HIDE DEF next
<1>4. /\ {h} \subseteq Chunks(F, h) /\ Chunks(F, h) \subseteq Addr
      /\ Stable(next, Chunks(F, h))
  BY <1>1, <1>2, <1>3, ClosureIsStable
<1>5. ASSUME NEW R \in SUBSET Addr, h \in R, \A a \in R : ContTargets(F, a) \subseteq R
      PROVE  Chunks(F, h) \subseteq R
  <2>1. Stable(next, R) /\ {h} \subseteq R
    BY <1>2, <1>5 DEF Stable
  <2>. QED BY <1>3, <2>1, ClosureIsLeast
<1>. QED BY <1>2, <1>4, <1>5 DEF Stable

LEMMA ChunksReached ==
    ASSUME NEW F \in Files, NEW h \in Reached(F) PROVE Chunks(F, h) \subseteq Reached(F)
<1>1. h \in Addr /\ Reached(F) \in SUBSET Addr
  BY ReachedFacts
<1>2. \A a \in Reached(F) : ContTargets(F, a) \subseteq Reached(F)
  BY <1>1, ReachedFacts, ContTargetsTyped
<1>. QED BY <1>1, <1>2, ChunksFacts

LEMMA NodesFacts ==
    ASSUME NEW F \in Files, NEW h \in Addr
    PROVE  /\ h \in Nodes(F, {h}) /\ Nodes(F, {h}) \subseteq Addr
           /\ \A a \in Nodes(F, {h}) : TreeTargets(F, a) \subseteq Nodes(F, {h})
           /\ \A R \in SUBSET Addr :
                 h \in R /\ (\A a \in R : TreeTargets(F, a) \subseteq R) => Nodes(F, {h}) \subseteq R
<1>. DEFINE next == [a \in Addr |-> TreeTargets(F, a)]
<1>1. {h} \subseteq Addr
  OBVIOUS
<1>2. \A a \in Addr : next[a] = TreeTargets(F, a) /\ next[a] \subseteq Addr
  BY TreeTargetsTyped
<1>3. Nodes(F, {h}) = Closure({h}, next)
  BY DEF Nodes
<1>. HIDE DEF next
<1>4. /\ {h} \subseteq Nodes(F, {h}) /\ Nodes(F, {h}) \subseteq Addr
      /\ Stable(next, Nodes(F, {h}))
  <2>1. PICK S : S = {h}
    OBVIOUS
  <2>2. S \subseteq Closure(S, next) /\ Closure(S, next) \subseteq Addr /\ Stable(next, Closure(S, next))
    BY <1>1, <1>2, <2>1, ClosureIsStable
  <2>. QED BY <1>3, <2>1, <2>2
<1>5. ASSUME NEW R \in SUBSET Addr, h \in R, \A a \in R : TreeTargets(F, a) \subseteq R
      PROVE  Nodes(F, {h}) \subseteq R
  <2>1. Stable(next, R) /\ {h} \subseteq R
    BY <1>2, <1>5 DEF Stable
  <2>. QED BY <1>3, <2>1, ClosureIsLeast
<1>. QED BY <1>2, <1>4, <1>5 DEF Stable

(* The names under a node are its own and those under its children.        *)
LEMMA NamesOfChild ==
    ASSUME NEW F \in Files, NEW a \in Addr
    PROVE  /\ OwnNames(F, a) \subseteq NamesUnder(F, a)
           /\ \A c \in TreeTargets(F, a) : NamesUnder(F, c) \subseteq NamesUnder(F, a)
<1>1. a \in Nodes(F, {a}) /\ Nodes(F, {a}) \in SUBSET Addr
  BY NodesFacts
<1>2. ASSUME NEW c \in TreeTargets(F, a) PROVE NamesUnder(F, c) \subseteq NamesUnder(F, a)
  <2>1. c \in Addr /\ c \in Nodes(F, {a})
    BY <1>1, NodesFacts
  <2>2. Nodes(F, {c}) \subseteq Nodes(F, {a})
    BY <1>1, <2>1, NodesFacts
  <2>. QED BY <2>2 DEF NamesUnder
<1>. QED BY <1>1, <1>2 DEF NamesUnder

LEMMA NamesOfNode ==
    ASSUME NEW F \in Files, NEW a \in Addr, NEW N, OwnNames(F, a) \subseteq N,
           \A c \in TreeTargets(F, a) : NamesUnder(F, c) \subseteq N
    PROVE  NamesUnder(F, a) \subseteq N
<1>. DEFINE R == {b \in Addr : OwnNames(F, b) \subseteq N}
            below == {a} \cup UNION {Nodes(F, {c}) : c \in TreeTargets(F, a)}
<1>1. ASSUME NEW c \in TreeTargets(F, a)
      PROVE  c \in Addr /\ c \in Nodes(F, {c}) /\ Nodes(F, {c}) \subseteq R
             /\ \A b \in Nodes(F, {c}) : TreeTargets(F, b) \subseteq Nodes(F, {c})
  <2>1. c \in Addr
    BY TreeTargetsTyped
  <2>2. c \in Nodes(F, {c}) /\ Nodes(F, {c}) \subseteq Addr
        /\ \A b \in Nodes(F, {c}) : TreeTargets(F, b) \subseteq Nodes(F, {c})
    BY <2>1, NodesFacts
  <2>3. \A b \in Nodes(F, {c}) : OwnNames(F, b) \subseteq N
    BY DEF NamesUnder
  <2>. QED BY <2>1, <2>2, <2>3
<1>2. below \in SUBSET Addr /\ a \in below /\ below \subseteq R
  BY <1>1
<1>3. \A b \in below : TreeTargets(F, b) \subseteq below
  BY <1>1
<1>. HIDE DEF below
<1>4. Nodes(F, {a}) \subseteq below
  BY <1>2, <1>3, NodesFacts
<1>. QED BY <1>2, <1>4 DEF NamesUnder

-----------------------------------------------------------------------------
(* What is covered: the greatest closed set; it grows with the table.      *)
LEMMA CoveredFacts ==
    ASSUME NEW F, NEW flt, NEW T
    PROVE  /\ Covered(F, flt, T) \subseteq Addr /\ Closed(F, flt, T, Covered(F, flt, T))
           /\ Met(F, flt, T) = Covered(F, flt, T) \cup T
BY DEF Covered, Closed, Met

LEMMA Cover ==
    ASSUME NEW F, NEW flt, NEW T, NEW S \in SUBSET Addr,
           \A a \in S : ~ Damaged(F, flt, a) /\ Targets(F, a) \subseteq S \cup Met(F, flt, T)
    PROVE  S \subseteq Covered(F, flt, T)
<1>. DEFINE C == Covered(F, flt, T)
<1>1. C \subseteq Addr /\ Closed(F, flt, T, C) /\ Met(F, flt, T) = C \cup T
  BY CoveredFacts
<1>2. Covered(F, flt, T) = UNION {R \in SUBSET Addr : Closed(F, flt, T, R)}
  BY DEF Covered
<1>. HIDE DEF C
<1>3. Closed(F, flt, T, S \cup C)
  BY <1>1 DEF Closed
<1>. QED BY <1>1, <1>2, <1>3

LEMMA MetGrows ==
    ASSUME NEW F, NEW flt, NEW T, NEW T2, T \subseteq T2
    PROVE  /\ Covered(F, flt, T) \subseteq Covered(F, flt, T2)
           /\ Met(F, flt, T) \subseteq Met(F, flt, T2)
<1>1. Covered(F, flt, T) \subseteq Covered(F, flt, T2)
  BY DEF Covered, Closed
<1>. QED BY <1>1 DEF Met

(* With more that is met, what has been dealt with stays so.               *)
LEMMA TreatedGrows ==
    ASSUME NEW F, NEW flt, NEW m, NEW M, NEW N, M \subseteq N, Treated(F, flt, m, M)
    PROVE  Treated(F, flt, m, N)
BY DEF Treated

LEMMA TreatedBeforeGrows ==
    ASSUME NEW F, NEW flt, NEW s, NEW n, NEW M, NEW N, M \subseteq N, TreatedBefore(F, flt, s, n, M)
    PROVE  TreatedBefore(F, flt, s, n, N)
BY TreatedGrows DEF TreatedBefore

LEMMA ProgressGrows ==
    ASSUME NEW F, NEW flt, NEW f, NEW B, NEW M, NEW N, M \subseteq N, Progress(F, flt, f, B, M)
    PROVE  Progress(F, flt, f, B, N)
<1>1. MessagesP(F, flt, f, M) => MessagesP(F, flt, f, N)
  BY TreatedBeforeGrows DEF MessagesP, Indexing
<1>2. BtreeP(F, flt, f, B, M) => BtreeP(F, flt, f, B, N)
  BY DEF BtreeP
<1>3. SymP(F, flt, f, B, M) => SymP(F, flt, f, B, N)
  BY DEF SymP
<1>4. Btree2P(F, flt, f, M) => Btree2P(F, flt, f, N)
  BY DEF Btree2P, RecordsMet
<1>. QED BY <1>1, <1>2, <1>3, <1>4 DEF Progress

(* What a waiting function needs to know of the one it waits for.          *)
SameCall(f, x) ==
    /\ x.fn = f.fn /\ x.at = f.at /\ x.want = f.want
    /\ f.fn = "messages" => x.mesg = f.mesg
    /\ f.fn = "header" /\ f.pc # "enter" => x.pc # "enter"

LEMMA SuspendedSame ==
    ASSUME NEW F, NEW flt, NEW p, NEW B, NEW f, NEW x, SameCall(f, x),
           NEW M, NEW N, M \subseteq N, Suspended(F, flt, p, B, f, M)
    PROVE  Suspended(F, flt, p, B, x, N)
<1>1. M \cup {f.at} \subseteq N \cup {x.at}
  BY DEF SameCall
<1>2. Progress(F, flt, p, B, N \cup {x.at})
  BY <1>1, ProgressGrows DEF Suspended
<1>3. \A m : Treated(F, flt, m, M \cup {f.at}) => Treated(F, flt, m, N \cup {x.at})
  BY <1>1, TreatedGrows
<1>4. Waiting(F, flt, p, x, N \cup {x.at})
  BY <1>1, <1>3 DEF SameCall, Suspended, Waiting
<1>. QED BY <1>2, <1>4 DEF Suspended

-----------------------------------------------------------------------------
(* A function at the top goes on, calls another or returns.                *)
LEMMA CovReplaced ==
    ASSUME NEW F, NEW flt, NEW s, IsList(s), s # << >>, NEW T, Covers(F, flt, s, T),
           NEW x, SameCall(Head(s), x), NEW T2, T \subseteq T2, \A h \in T2 : h \in T \/ OpenHeader(x, h),
           Runs(F, flt, x, GivenAt(s, Len(s)), Met(F, flt, T2))
    PROVE  Covers(F, flt, << x >> \o Tail(s), T2)
<1>. DEFINE t == << x >> \o Tail(s)
            n == Len(s)
            M == Met(F, flt, T)
            N == Met(F, flt, T2)
<1>1. /\ n \in Nat /\ n >= 1 /\ Deep(s, n) = Head(s)
      /\ IsList(t) /\ Len(t) = n /\ Deep(t, n) = x /\ SameBelow(s, t, n - 1)
  BY TopReplaced, Highest
<1>2. /\ \A d \in 1 .. n - 1 : Suspended(F, flt, Deep(s, d), GivenAt(s, d), Deep(s, d + 1), M)
      /\ \A h \in T : h \in Covered(F, flt, T) \/ \E d \in 1 .. n : OpenHeader(Deep(s, d), h)
      /\ F.root \in M \/ (n >= 1 /\ Deep(s, 1).fn = "header" /\ Deep(s, 1).at = F.root)
  BY DEF Covers
<1>3. M \subseteq N /\ Covered(F, flt, T) \subseteq Covered(F, flt, T2)
  BY MetGrows
<1>4. Runs(F, flt, x, GivenAt(s, n), N)
  OBVIOUS
<1>. HIDE DEF t, n, M, N
<1>5. \A d \in 1 .. n - 1 : Deep(t, d) = Deep(s, d)
  BY <1>1 DEF SameBelow
<1>6. \A d \in 1 .. n : GivenAt(t, d) = GivenAt(s, d)
  <2>. SUFFICES ASSUME NEW d \in 1 .. n, d # 1 PROVE Deep(t, d - 1) = Deep(s, d - 1)
    BY DEF GivenAt
  <2>1. d - 1 \in 1 .. n - 1
    BY <1>1
  <2>. QED BY <1>5, <2>1
<1>7. ASSUME NEW d \in 1 .. n - 1
      PROVE  Suspended(F, flt, Deep(t, d), GivenAt(t, d), Deep(t, d + 1), N)
  <2>1. d \in 1 .. n /\ d + 1 \in 1 .. n
    BY <1>1
  <2>2. Suspended(F, flt, Deep(s, d), GivenAt(s, d), Deep(s, d + 1), M)
    BY <1>2
  <2>3. SameCall(Deep(s, d + 1), Deep(t, d + 1))
    <3>1. CASE d + 1 = n
      BY <1>1, <3>1
    <3>2. CASE d + 1 # n
      <4>1. d + 1 \in 1 .. n - 1
        BY <1>1, <3>2
      <4>. QED BY <1>5, <4>1 DEF SameCall
    <3>. QED BY <3>1, <3>2
  <2>4. Suspended(F, flt, Deep(s, d), GivenAt(s, d), Deep(t, d + 1), N)
    BY <1>3, <2>2, <2>3, SuspendedSame
  <2>. QED BY <1>5, <1>6, <2>1, <2>4
<1>8. ASSUME NEW h \in T2
      PROVE  h \in Covered(F, flt, T2) \/ \E d \in 1 .. n : OpenHeader(Deep(t, d), h)
  <2>1. CASE h \notin T
    BY <1>1, <2>1
  <2>2. CASE h \in T /\ h \notin Covered(F, flt, T2)
    <3>1. PICK d \in 1 .. n : OpenHeader(Deep(s, d), h)
      BY <1>2, <1>3, <2>2
    <3>2. CASE d = n
      BY <1>1, <3>1, <3>2 DEF OpenHeader, SameCall
    <3>3. CASE d # n
      <4>1. d \in 1 .. n - 1
        BY <1>1, <3>3
      <4>. QED BY <1>5, <3>1, <4>1
    <3>. QED BY <3>2, <3>3
  <2>. QED BY <2>1, <2>2
<1>9. F.root \in N \/ (n >= 1 /\ Deep(t, 1).fn = "header" /\ Deep(t, 1).at = F.root)
  <2>1. CASE n = 1
    BY <1>1, <1>2, <1>3, <2>1 DEF SameCall
  <2>2. CASE n # 1
    <3>1. 1 \in 1 .. n - 1
      BY <1>1, <2>2
    <3>. QED BY <1>2, <1>3, <1>5, <3>1
  <2>. QED BY <2>1, <2>2
<1>10. Runs(F, flt, Deep(t, n), GivenAt(t, n), N)
  BY <1>1, <1>4, <1>6
<1>. QED BY <1>1, <1>7, <1>8, <1>9, <1>10 DEF Covers, t, n, N

LEMMA CovCalled ==
    ASSUME NEW F, NEW flt, NEW s, IsList(s), s # << >>, NEW T, Covers(F, flt, s, T),
           NEW x, NEW y, SameCall(Head(s), y),
           Suspended(F, flt, y, GivenAt(s, Len(s)), x, Met(F, flt, T)),
           Runs(F, flt, x, Given(y), Met(F, flt, T))
    PROVE  Covers(F, flt, << x, y >> \o Tail(s), T)
<1>. DEFINE t == << x, y >> \o Tail(s)
            n == Len(s)
            M == Met(F, flt, T)
<1>1. /\ n \in Nat /\ n >= 1 /\ Deep(s, n) = Head(s)
      /\ IsList(t) /\ Len(t) = n + 1 /\ Deep(t, n) = y /\ Deep(t, n + 1) = x /\ SameBelow(s, t, n - 1)
  BY TopCalls, Highest
<1>2. /\ \A d \in 1 .. n - 1 : Suspended(F, flt, Deep(s, d), GivenAt(s, d), Deep(s, d + 1), M)
      /\ \A h \in T : h \in Covered(F, flt, T) \/ \E d \in 1 .. n : OpenHeader(Deep(s, d), h)
      /\ F.root \in M \/ (n >= 1 /\ Deep(s, 1).fn = "header" /\ Deep(s, 1).at = F.root)
  BY DEF Covers
<1>3. Suspended(F, flt, y, GivenAt(s, n), x, M) /\ Runs(F, flt, x, Given(y), M)
  OBVIOUS
<1>. HIDE DEF t, n, M
<1>5. \A d \in 1 .. n - 1 : Deep(t, d) = Deep(s, d)
  BY <1>1 DEF SameBelow
<1>6. (\A d \in 1 .. n : GivenAt(t, d) = GivenAt(s, d)) /\ GivenAt(t, n + 1) = Given(y)
  <2>1. ASSUME NEW d \in 1 .. n, d # 1 PROVE Deep(t, d - 1) = Deep(s, d - 1)
    <3>1. d - 1 \in 1 .. n - 1
      BY <1>1, <2>1
    <3>. QED BY <1>5, <3>1
  <2>2. n + 1 # 1 /\ n + 1 - 1 = n
    BY <1>1
  <2>. QED BY <1>1, <2>1, <2>2 DEF GivenAt
<1>7. ASSUME NEW d \in 1 .. n
      PROVE  Suspended(F, flt, Deep(t, d), GivenAt(t, d), Deep(t, d + 1), M)
  <2>1. CASE d = n
    BY <1>1, <1>3, <1>6, <2>1
  <2>2. CASE d # n
    <3>1. d \in 1 .. n - 1
      BY <1>1, <2>2
    <3>2. Suspended(F, flt, Deep(s, d), GivenAt(s, d), Deep(s, d + 1), M)
      BY <1>2, <3>1
    <3>3. SameCall(Deep(s, d + 1), Deep(t, d + 1))
      <4>1. CASE d + 1 = n
        BY <1>1, <4>1
      <4>2. CASE d + 1 # n
        <5>1. d + 1 \in 1 .. n - 1
          BY <1>1, <3>1, <4>2
        <5>. QED BY <1>5, <5>1 DEF SameCall
      <4>. QED BY <4>1, <4>2
    <3>4. Suspended(F, flt, Deep(s, d), GivenAt(s, d), Deep(t, d + 1), M)
      BY <3>2, <3>3, SuspendedSame
    <3>. QED BY <1>5, <1>6, <3>1, <3>4
  <2>. QED BY <2>1, <2>2
<1>8. ASSUME NEW h \in T
      PROVE  h \in Covered(F, flt, T) \/ \E d \in 1 .. n + 1 : OpenHeader(Deep(t, d), h)
  <2>. SUFFICES ASSUME h \notin Covered(F, flt, T)
                PROVE  \E d \in 1 .. n + 1 : OpenHeader(Deep(t, d), h)
    OBVIOUS
  <2>1. PICK d \in 1 .. n : OpenHeader(Deep(s, d), h)
    BY <1>2
  <2>2. d \in 1 .. n + 1
    BY <1>1
  <2>3. CASE d = n
    BY <1>1, <2>1, <2>2, <2>3 DEF OpenHeader, SameCall
  <2>4. CASE d # n
    <3>1. d \in 1 .. n - 1
      BY <1>1, <2>4
    <3>. QED BY <1>5, <2>1, <2>2, <3>1
  <2>. QED BY <2>3, <2>4
<1>9. F.root \in M \/ (n + 1 >= 1 /\ Deep(t, 1).fn = "header" /\ Deep(t, 1).at = F.root)
  <2>1. CASE n = 1
    BY <1>1, <1>2, <2>1 DEF SameCall
  <2>2. CASE n # 1
    <3>1. 1 \in 1 .. n - 1
      BY <1>1, <2>2
    <3>. QED BY <1>1, <1>2, <1>5, <3>1
  <2>. QED BY <2>1, <2>2
<1>10. Runs(F, flt, Deep(t, n + 1), GivenAt(t, n + 1), M) /\ n + 1 - 1 = n
  BY <1>1, <1>3, <1>6
<1>. QED BY <1>1, <1>7, <1>8, <1>9, <1>10 DEF Covers, t, n, M

LEMMA CovReturned ==
    ASSUME NEW F, NEW flt, NEW s, IsList(s), s # << >>, Tail(s) # << >>, NEW T, Covers(F, flt, s, T),
           \A h : OpenHeader(Head(s), h) => h \in Covered(F, flt, T),
           NEW x, SameCall(Head(Tail(s)), x),
           Runs(F, flt, x, GivenAt(s, Len(s) - 1), Met(F, flt, T))
    PROVE  Covers(F, flt, << x >> \o Tail(Tail(s)), T)
<1>. DEFINE t == << x >> \o Tail(Tail(s))
            n == Len(s)
            M == Met(F, flt, T)
<1>1. /\ n \in Nat /\ n >= 2 /\ Deep(s, n) = Head(s) /\ Deep(s, n - 1) = Head(Tail(s))
      /\ IsList(t) /\ Len(t) = n - 1 /\ Deep(t, n - 1) = x /\ SameBelow(s, t, n - 2)
  BY TopReturns, Highest
<1>2. /\ \A d \in 1 .. n - 1 : Suspended(F, flt, Deep(s, d), GivenAt(s, d), Deep(s, d + 1), M)
      /\ \A h \in T : h \in Covered(F, flt, T) \/ \E d \in 1 .. n : OpenHeader(Deep(s, d), h)
      /\ F.root \in M \/ (n >= 1 /\ Deep(s, 1).fn = "header" /\ Deep(s, 1).at = F.root)
  BY DEF Covers
<1>3. Runs(F, flt, x, GivenAt(s, n - 1), M)
  OBVIOUS
<1>. HIDE DEF t, n, M
<1>5. \A d \in 1 .. n - 2 : Deep(t, d) = Deep(s, d)
  BY <1>1 DEF SameBelow
<1>6. \A d \in 1 .. n - 1 : GivenAt(t, d) = GivenAt(s, d)
  <2>. SUFFICES ASSUME NEW d \in 1 .. n - 1, d # 1 PROVE Deep(t, d - 1) = Deep(s, d - 1)
    BY DEF GivenAt
  <2>1. d - 1 \in 1 .. n - 2
    BY <1>1
  <2>. QED BY <1>5, <2>1
<1>7. ASSUME NEW d \in 1 .. n - 1 - 1
      PROVE  Suspended(F, flt, Deep(t, d), GivenAt(t, d), Deep(t, d + 1), M)
  <2>1. d \in 1 .. n - 1 /\ d \in 1 .. n - 2
    BY <1>1
  <2>2. Suspended(F, flt, Deep(s, d), GivenAt(s, d), Deep(s, d + 1), M)
    BY <1>2, <2>1
  <2>3. SameCall(Deep(s, d + 1), Deep(t, d + 1))
    <3>1. CASE d + 1 = n - 1
      BY <1>1, <3>1
    <3>2. CASE d + 1 # n - 1
      <4>1. d + 1 \in 1 .. n - 2
        BY <1>1, <3>2
      <4>. QED BY <1>5, <4>1 DEF SameCall
    <3>. QED BY <3>1, <3>2
  <2>4. Suspended(F, flt, Deep(s, d), GivenAt(s, d), Deep(t, d + 1), M)
    BY <2>2, <2>3, SuspendedSame
  <2>. QED BY <1>5, <1>6, <2>1, <2>4
<1>8. ASSUME NEW h \in T
      PROVE  h \in Covered(F, flt, T) \/ \E d \in 1 .. n - 1 : OpenHeader(Deep(t, d), h)
  <2>. SUFFICES ASSUME h \notin Covered(F, flt, T)
                PROVE  \E d \in 1 .. n - 1 : OpenHeader(Deep(t, d), h)
    OBVIOUS
  <2>1. PICK d \in 1 .. n : OpenHeader(Deep(s, d), h)
    BY <1>2
  <2>2. d # n /\ d \in 1 .. n - 1
    BY <1>1, <2>1
  <2>3. CASE d = n - 1
    BY <1>1, <2>1, <2>2, <2>3 DEF OpenHeader, SameCall
  <2>4. CASE d # n - 1
    <3>1. d \in 1 .. n - 2
      BY <1>1, <2>2, <2>4
    <3>. QED BY <1>5, <2>1, <2>2, <3>1
  <2>. QED BY <2>3, <2>4
<1>9. F.root \in M \/ (n - 1 >= 1 /\ Deep(t, 1).fn = "header" /\ Deep(t, 1).at = F.root)
  <2>1. CASE n = 2
    <3>1. n - 1 = 1
      BY <2>1
    <3>. QED BY <1>1, <1>2, <3>1 DEF SameCall
  <2>2. CASE n # 2
    <3>1. 1 \in 1 .. n - 2
      BY <1>1, <2>2
    <3>. QED BY <1>1, <1>2, <1>5, <3>1
  <2>. QED BY <2>1, <2>2
<1>10. Runs(F, flt, Deep(t, n - 1), GivenAt(t, n - 1), M) /\ n - 1 \in 1 .. n - 1
  BY <1>1, <1>3, <1>6
<1>. QED BY <1>1, <1>7, <1>8, <1>9, <1>10 DEF Covers, t, n, M

(* The header of the root is the last one to return.                       *)
LEMMA CovEnded ==
    ASSUME NEW F, NEW flt, NEW s, IsList(s), s # << >>, Tail(s) = << >>, NEW T, Covers(F, flt, s, T),
           \A h : OpenHeader(Head(s), h) => h \in Covered(F, flt, T),
           Head(s).fn = "header" => Head(s).at \in Met(F, flt, T)
    PROVE  Covers(F, flt, << >>, T)
<1>1. Len(s) = 1 /\ Deep(s, 1) = Head(s)
  <2>1. PICK S : s \in Seq(S)
    BY DEF IsList
  <2>2. Len(Tail(s)) = Len(s) - 1 /\ Len(<< >>) = 0 /\ Len(s) \in Nat
    BY <2>1, EmptyList
  <2>3. Len(s) = 1
    <3>1. Len(Tail(s)) = 0
      BY <2>2
    <3>. QED BY <2>2, <3>1
  <2>. QED BY <2>3, Highest
<1>2. /\ \A h \in T : h \in Covered(F, flt, T) \/ \E d \in 1 .. 1 : OpenHeader(Deep(s, d), h)
      /\ F.root \in Met(F, flt, T) \/ (Deep(s, 1).fn = "header" /\ Deep(s, 1).at = F.root)
  BY <1>1 DEF Covers
<1>3. (\A h \in T : h \in Covered(F, flt, T)) /\ F.root \in Met(F, flt, T)
  BY <1>1, <1>2
<1>4. Len(<< >>) = 0 /\ 1 .. 0 - 1 = {}
  BY EmptyList
<1>. QED BY <1>3, <1>4 DEF Covers

-----------------------------------------------------------------------------
(* A message with its chunk is the message.                                *)
LEMMA MesgRead ==
    ASSUME NEW F, NEW x \in Messages(F), NEW c
    PROVE  LET m == ReadFrom(x, c)
           IN  /\ m.kind = x.kind /\ m.chunk = c /\ MesgTargets(m) = MesgTargets(x)
               /\ m.kind = "cont" => m.at = x.at
               /\ m.kind = "shared" => m.header = x.header
               /\ m.kind = "edf" => m.bad = x.bad
<1>. DEFINE m == ReadFrom(x, c)
<1>1. "kind" \in DOMAIN x /\ "chunk" \notin DOMAIN x
  BY DEF Messages, Infos
<1>2. (\A k \in DOMAIN x : m[k] = x[k]) /\ m.chunk = c
  BY <1>1 DEF ReadFrom
<1>. HIDE DEF m
<1>3. m.kind = x.kind
  BY <1>1, <1>2
<1>4. x.kind = "cont" => m.at = x.at
  BY <1>2 DEF Messages, Infos
<1>5. x.kind = "group" => m.heap = x.heap /\ m.tree = x.tree
  BY <1>2 DEF Messages, Infos
<1>6. x.kind = "edf" => m.heap = x.heap /\ m.bad = x.bad
  BY <1>2 DEF Messages, Infos
<1>7. x.kind = "layout" => m.tree = x.tree
  BY <1>2 DEF Messages, Infos
<1>8. x.kind \in {"linfo", "ainfo"} => m.fheap = x.fheap /\ m.corder = x.corder /\ m.byname = x.byname
  BY <1>2 DEF Messages, Infos
<1>9. x.kind \in {"shared", "link"} => m.header = x.header
  BY <1>2 DEF Messages, Infos
<1>10. MesgTargets(m) = MesgTargets(x)
  BY <1>3, <1>4, <1>5, <1>6, <1>7, <1>8, <1>9 DEF MesgTargets
<1>. QED BY <1>2, <1>3, <1>4, <1>6, <1>9, <1>10 DEF m

LEMMA MesgFrom ==
    ASSUME NEW F \in Files, NEW C \in SUBSET Headers(F), NEW m, From(F, C, m)
    PROVE  \E c \in C : \E x \in Range(F.block[c].items) :
              /\ x \in Messages(F) /\ m = ReadFrom(x, c)
              /\ m.kind = x.kind /\ m.chunk = c /\ MesgTargets(m) = MesgTargets(x)
              /\ m.kind = "cont" => m.at = x.at
              /\ m.kind = "shared" => m.header = x.header
              /\ m.kind = "edf" => m.bad = x.bad
<1>1. PICK c \in C : \E x \in Range(F.block[c].items) : m = ReadFrom(x, c)
  BY DEF From
<1>2. PICK x \in Range(F.block[c].items) : m = ReadFrom(x, c)
  BY <1>1
<1>3. x \in Messages(F)
  BY ChunkItems
<1>. QED BY <1>2, <1>3, MesgRead

LEMMA FromGrows ==
    ASSUME NEW F, NEW C, NEW D, C \subseteq D, NEW m, From(F, C, m) PROVE From(F, D, m)
BY DEF From

(* The blocks of a sound file.                                             *)
LEMMA SoundAt ==
    ASSUME NEW F, NEW flt, ~ FileDamaged(F, flt), NEW a \in Reached(F)
    PROVE  ~ Damaged(F, flt, a) /\ Unharmed(flt, a)
BY DEF FileDamaged, Damaged, Unharmed

LEMMA SoundMesg ==
    ASSUME NEW F \in Files, NEW flt, ~ FileDamaged(F, flt), NEW m,
           From(F, Reached(F) \cap Headers(F), m)
    PROVE  /\ m.kind # "nil" => flt[m.chunk] # "message"
           /\ m.kind # "unknown" /\ (m.kind = "shared" => HoldsDatatype(F, m.header))
           /\ m.kind = "edf" => ~ (m.bad > 0)
           /\ MesgTargets(m) \subseteq Reached(F)
<1>1. PICK c \in Reached(F) \cap Headers(F) : \E x \in Range(F.block[c].items) :
              /\ x \in Messages(F) /\ m = ReadFrom(x, c)
              /\ m.kind = x.kind /\ m.chunk = c /\ MesgTargets(m) = MesgTargets(x)
              /\ m.kind = "cont" => m.at = x.at
              /\ m.kind = "shared" => m.header = x.header
              /\ m.kind = "edf" => m.bad = x.bad
  BY MesgFrom
<1>2. PICK x \in Range(F.block[c].items) :
              /\ m.kind = x.kind /\ m.chunk = c /\ MesgTargets(m) = MesgTargets(x)
              /\ m.kind = "shared" => m.header = x.header
              /\ m.kind = "edf" => m.bad = x.bad
  BY <1>1
<1>3. F.block[c].kind = "chunk" /\ ~ Damaged(F, flt, c)
  BY SoundAt DEF Headers, Of
<1>4. MesgTargets(x) \subseteq Targets(F, c) /\ Targets(F, c) \subseteq Reached(F)
  BY <1>3, ReachedFacts DEF Targets, ChunkTargets
<1>. QED BY <1>2, <1>3, <1>4 DEF Damaged

(* A heap leads nowhere.                                                   *)
LEMMA HeapCovered ==
    ASSUME NEW F, NEW flt, NEW T, NEW a \in Of(F, "heap"), Unharmed(flt, a)
    PROVE  a \in Met(F, flt, T)
<1>1. a \in Addr /\ F.block[a].kind = "heap"
  BY DEF Of
<1>2. ~ Damaged(F, flt, a) /\ Targets(F, a) = {}
  BY <1>1 DEF Damaged, Unharmed, Targets, TreeTargets, LinkTargets
<1>3. {a} \subseteq Covered(F, flt, T)
  BY <1>1, <1>2, Cover
<1>. QED BY <1>3 DEF Met

-----------------------------------------------------------------------------
(* A header whose messages have all been dealt with: its chunks are        *)
(* covered, and the datatype is found if there is one.                     *)
LEMMA ChunksRead ==
    ASSUME NEW F \in Files, NEW flt, NEW f, NEW C, Reading(F, flt, f, C), f.pc # "chunk"
    PROVE  /\ f.at \in C /\ C \in SUBSET Headers(F) /\ C \subseteq Chunks(F, f.at)
           /\ \A c \in C : ContTargets(F, c) \subseteq C
<1>1. Known(f, C) = C /\ C \in SUBSET Headers(F)
  BY DEF Known, Reading
<1>2. ASSUME NEW c \in C, NEW x \in Range(F.block[c].items), x.kind = "cont" PROVE x.at \in C
  <2>1. PICK j \in 1 .. Len(f.mesg) : f.mesg[j] = ReadFrom(x, c)
    BY DEF Reading
  <2>2. x \in Messages(F)
    BY <1>1, ChunkItems
  <2>3. f.mesg[j].kind = "cont" /\ f.mesg[j].at = x.at
    BY <1>2, <2>1, <2>2, MesgRead
  <2>. QED BY <1>1, <2>3 DEF Reading
<1>3. f.at \in C /\ C \subseteq Chunks(F, f.at)
  BY <1>1 DEF Reading
<1>. QED BY <1>1, <1>2, <1>3 DEF ContTargets

LEMMA HeaderCovered ==
    ASSUME NEW F \in Files, NEW flt, NEW T, NEW f, NEW C, Reading(F, flt, f, C), f.pc # "chunk",
           TreatedBefore(F, flt, f.mesg, Len(f.mesg) + 1, Met(F, flt, T)), IsList(f.mesg)
    PROVE  f.at \in Covered(F, flt, T)
<1>1. f.at \in C /\ C \in SUBSET Headers(F) /\ \A c \in C : ContTargets(F, c) \subseteq C
  BY ChunksRead
<1>. DEFINE M == Met(F, flt, T)
<1>2. ASSUME NEW c \in C, NEW x \in Range(F.block[c].items)
      PROVE  /\ x.kind # "nil" => flt[c] # "message"
             /\ x.kind # "unknown" /\ (x.kind = "shared" => HoldsDatatype(F, x.header))
             /\ x.kind = "edf" => ~ (x.bad > 0)
             /\ MesgTargets(x) \subseteq C \cup M
  <2>1. PICK j \in 1 .. Len(f.mesg) : f.mesg[j] = ReadFrom(x, c)
    BY DEF Reading
  <2>2. x \in Messages(F)
    BY <1>1, ChunkItems
  <2>. DEFINE m == f.mesg[j]
  <2>3. /\ m.kind = x.kind /\ m.chunk = c /\ MesgTargets(m) = MesgTargets(x)
        /\ m.kind = "shared" => m.header = x.header
        /\ m.kind = "edf" => m.bad = x.bad
    BY <2>1, <2>2, MesgRead
  <2>4. Treated(F, flt, m, M)
    BY ListType DEF TreatedBefore
  <2>5. CASE x.kind = "nil"
    BY <2>5 DEF MesgTargets
  <2>6. CASE x.kind = "cont"
    <3>1. flt[c] # "message"
      BY <2>3, <2>6 DEF Reading
    <3>2. x.at \in C
      BY <1>1, <2>6 DEF ContTargets, Headers, Of
    <3>. QED BY <2>6, <3>1, <3>2 DEF MesgTargets
  <2>7. CASE x.kind \notin {"nil", "cont"}
    BY <2>3, <2>4, <2>7 DEF Treated
  <2>. QED BY <2>5, <2>6, <2>7
<1>3. C \in SUBSET Addr /\ \A c \in C : F.block[c].kind = "chunk"
  BY <1>1 DEF Headers, Of
<1>4. \A c \in C : Unharmed(flt, c)
  BY DEF Reading
<1>5. ASSUME NEW c \in C PROVE ~ Damaged(F, flt, c) /\ Targets(F, c) \subseteq C \cup M
  <2>1. ~ Damaged(F, flt, c)
    BY <1>2, <1>3, <1>4 DEF Damaged, Unharmed
  <2>2. Targets(F, c) \subseteq C \cup M
    BY <1>2, <1>3 DEF Targets, ChunkTargets
  <2>. QED BY <2>1, <2>2
<1>. QED BY <1>1, <1>3, <1>5, Cover

LEMMA DatatypeFound ==
    ASSUME NEW F \in Files, NEW flt, NEW f, NEW C, Reading(F, flt, f, C), f.pc # "chunk",
           IsList(f.mesg), f.at \in Addr
    PROVE  HasDatatype(f) <=> HoldsDatatype(F, f.at)
<1>1. /\ f.at \in C /\ C \in SUBSET Headers(F) /\ C \subseteq Chunks(F, f.at)
      /\ \A c \in C : ContTargets(F, c) \subseteq C
  BY ChunksRead
<1>2. DOMAIN f.mesg = 1 .. Len(f.mesg)
  BY ListType
<1>3. ASSUME HasDatatype(f) PROVE HoldsDatatype(F, f.at)
  <2>1. PICK j \in 1 .. Len(f.mesg) : f.mesg[j].kind = "datatype"
    BY <1>2, <1>3 DEF HasDatatype
  <2>2. From(F, C, f.mesg[j])
    BY DEF Reading
  <2>3. PICK c \in C : \E x \in Range(F.block[c].items) : f.mesg[j].kind = x.kind
    BY <1>1, <2>2, MesgFrom
  <2>. QED BY <1>1, <2>1, <2>3 DEF HoldsDatatype
<1>4. ASSUME HoldsDatatype(F, f.at) PROVE HasDatatype(f)
  <2>1. Chunks(F, f.at) \subseteq C
    <3>1. C \in SUBSET Addr
      BY <1>1 DEF Headers, Of
    <3>. QED BY <1>1, <3>1, ChunksFacts
  <2>2. PICK c \in C : \E x \in Range(F.block[c].items) : x.kind = "datatype"
    BY <1>4, <2>1 DEF HoldsDatatype
  <2>3. PICK x \in Range(F.block[c].items) : x.kind = "datatype"
    BY <2>2
  <2>4. PICK j \in 1 .. Len(f.mesg) : f.mesg[j] = ReadFrom(x, c)
    BY DEF Reading
  <2>5. x \in Messages(F)
    BY <1>1, ChunkItems
  <2>6. f.mesg[j].kind = "datatype"
    BY <2>3, <2>4, <2>5, MesgRead
  <2>. QED BY <1>2, <2>6 DEF HasDatatype
<1>. QED BY <1>3, <1>4

-----------------------------------------------------------------------------
(* A node that has been dealt with is covered, and the names under it are  *)
(* those noted.                                                            *)
Delivered(F, flt, f, B, M) ==
    /\ f.fn = "messages" => TreatedBefore(F, flt, f.mesg, Len(f.mesg) + 1, M)
    /\ f.fn # "messages" => f.at \in M
    /\ f.fn \in {"btree", "sym"} =>
          /\ B \subseteq f.names /\ NamesUnder(F, f.at) \subseteq f.names
          /\ Apart(B, NamesUnder(F, f.at))
          /\ ~ FileDamaged(F, flt) => f.names \subseteq B \cup NamesUnder(F, f.at)

LEMMA BtreeDelivered ==
    ASSUME NEW F \in Files, NEW flt, NEW T, NEW f, NEW B, Typed(F, f), f.fn = "btree",
           BtreeP(F, flt, f, B, Met(F, flt, T)), f.pc = "entries",
           f.i > Len(F.block[f.at].items), ~ FileDamaged(F, flt) => SoundP(F, f, B)
    PROVE  Delivered(F, flt, f, B, Met(F, flt, T))
<1>. DEFINE a == f.at
            b == F.block[a]
            items == b.items
            M == Met(F, flt, T)
<1>1. a \in Addr /\ b.kind \in {"groups", "raw"} /\ f.i \in Nat /\ Unharmed(flt, a) /\ B \subseteq f.names
      /\ Within(F, a)
  BY DEF Typed, Of, BtreeP
<1>2. /\ IsList(items) /\ Len(items) \in Nat /\ DOMAIN items = 1 .. Len(items)
      /\ \A j \in 1 .. Len(items) : items[j] \in Range(items)
      /\ \A x \in Range(items) : \E j \in 1 .. Len(items) : items[j] = x
  BY <1>1, FileItems, ListType
<1>3. Inner(F, a) => \A j \in 1 .. Len(items) :
         /\ items[j] \in M /\ NamesUnder(F, items[j]) \subseteq f.names
         /\ Apart(B, NamesUnder(F, items[j]))
         /\ \A k \in 1 .. Len(items) : k < j => Apart(NamesUnder(F, items[k]), NamesUnder(F, items[j]))
  <2>1. Inner(F, a) => \A j \in 1 .. Len(items) : j < f.i =>
           /\ items[j] \in M /\ NamesUnder(F, items[j]) \subseteq f.names
           /\ Apart(B, NamesUnder(F, items[j]))
           /\ \A k \in 1 .. Len(items) : k < j => Apart(NamesUnder(F, items[k]), NamesUnder(F, items[j]))
    BY DEF BtreeP
  <2>2. PICK i, m : i = f.i /\ m = Len(items)
    OBVIOUS
  <2>3. i \in Nat /\ m \in Nat /\ i > m
    BY <1>1, <1>2, <2>2
  <2>4. \A j \in 1 .. m : j < i
    BY <2>3
  <2>. HIDE DEF items, M
  <2>. QED BY <2>1, <2>2, <2>4
<1>4. LinkTargets(F, a) = {} /\ OwnNames(F, a) = {}
  BY <1>1 DEF LinkTargets, OwnNames
<1>5. TreeTargets(F, a) = IF Inner(F, a) THEN Range(items) ELSE {}
  BY <1>1, FilesAssumption DEF TreeTargets, Inner
<1>. HIDE DEF M, items
<1>6. Targets(F, a) \subseteq M
  BY <1>1, <1>2, <1>3, <1>4, <1>5 DEF Targets
<1>7. ~ Damaged(F, flt, a)
  <2>1. b.kind = "groups" => ~ Twins(F, a)
    BY <1>2, <1>3 DEF Inner, Twins, Apart, items
  <2>. QED BY <1>1, <2>1 DEF Damaged, Unharmed, Within
<1>8. a \in M
  <2>1. {a} \subseteq Covered(F, flt, T)
    BY <1>1, <1>6, <1>7, Cover DEF M
  <2>. QED BY <2>1 DEF M, Met
<1>9. NamesUnder(F, a) \subseteq f.names
  <2>1. \A c \in TreeTargets(F, a) : NamesUnder(F, c) \subseteq f.names
    BY <1>2, <1>3, <1>5
  <2>. QED BY <1>1, <1>4, <2>1, NamesOfNode
<1>10. Apart(B, NamesUnder(F, a))
  <2>1. PICK N : N = UNION {NamesUnder(F, d) : d \in TreeTargets(F, a)}
    OBVIOUS
  <2>2. OwnNames(F, a) \subseteq N /\ \A c \in TreeTargets(F, a) : NamesUnder(F, c) \subseteq N
    BY <1>4, <2>1
  <2>3. NamesUnder(F, a) \subseteq N
    BY <1>1, <2>2, NamesOfNode
  <2>4. \A d \in TreeTargets(F, a) : Apart(B, NamesUnder(F, d))
    BY <1>2, <1>3, <1>5
  <2>. QED BY <2>1, <2>3, <2>4 DEF Apart
<1>11. ~ FileDamaged(F, flt) => f.names \subseteq B \cup NamesUnder(F, a)
  <2>. SUFFICES ASSUME ~ FileDamaged(F, flt) PROVE f.names \subseteq B \cup NamesUnder(F, a)
    OBVIOUS
  <2>1. f.names \subseteq B \cup
           (IF Inner(F, a)
            THEN UNION {NamesUnder(F, items[j]) : j \in {k \in 1 .. Len(items) : k < f.i}} ELSE {})
    BY DEF SoundP, items
  <2>2. \A c \in TreeTargets(F, a) : NamesUnder(F, c) \subseteq NamesUnder(F, a)
    BY <1>1, NamesOfChild
  <2>3. Inner(F, a) => \A j \in 1 .. Len(items) : NamesUnder(F, items[j]) \subseteq NamesUnder(F, a)
    BY <1>2, <1>5, <2>2
  <2>. QED BY <2>1, <2>3
<1>. QED BY <1>1, <1>8, <1>9, <1>10, <1>11 DEF Delivered, M

(* The errors of the entries of a node, by the names met before.           *)
LEMMA NoEntryErrors ==
    ASSUME NEW F \in Files, NEW a \in Of(F, "sym"), NEW B
    PROVE  LET items == F.block[a].items
           IN  EntryErrors(items, B) = 0 <=> EntryErrors(items, {}) = 0 /\ Apart(B, OwnNames(F, a))
<1>. DEFINE items == F.block[a].items
            before(N, u) == N \cup {items[v].name : v \in 1..(u - 1)}
            X(N) == {u \in DOMAIN items : items[u].name \in before(N, u)}
            Y == {u \in DOMAIN items : u > 1 /\ items[u - 1].name >= items[u].name}
            Z == {u \in DOMAIN items : ~ items[u].slink /\ items[u].header = Undef}
<1>1. /\ IsList(items) /\ Len(items) \in Nat /\ DOMAIN items = 1 .. Len(items)
      /\ \A j \in 1 .. Len(items) : items[j] \in Range(items)
      /\ \A x \in Range(items) : \E j \in 1 .. Len(items) : items[j] = x
  BY FileItems, ListType DEF Of
<1>2. OwnNames(F, a) = {items[u].name : u \in DOMAIN items}
  <2>1. OwnNames(F, a) = {e.name : e \in Range(items)}
    BY DEF OwnNames, Of
  <2>2. /\ \A u \in DOMAIN items : items[u] \in Range(items)
        /\ \A x \in Range(items) : \E u \in DOMAIN items : items[u] = x
    BY <1>1
  <2>. HIDE DEF items
  <2>. QED BY <2>1, <2>2
<1>. HIDE DEF items
<1>3. \A S \in SUBSET DOMAIN items : Cardinality(S) \in Nat /\ (Cardinality(S) = 0 <=> S = {})
  <2>. SUFFICES ASSUME NEW S \in SUBSET DOMAIN items
                PROVE  Cardinality(S) \in Nat /\ (Cardinality(S) = 0 <=> S = {})
    OBVIOUS
  <2>1. IsFiniteSet(1 .. Len(items))
    BY <1>1, FS_Interval
  <2>2. IsFiniteSet(S)
    BY <1>1, <2>1, FS_Subset
  <2>. QED BY <2>2, FS_CardinalityType, FS_EmptySet
<1>4. ASSUME NEW N PROVE EntryErrors(items, N) = 0 <=> X(N) = {} /\ Y = {} /\ Z = {}
  <2>1. EntryErrors(items, N) = Cardinality(X(N)) + Cardinality(Y) + Cardinality(Z)
    BY DEF EntryErrors
  <2>2. X(N) \in SUBSET DOMAIN items /\ Y \in SUBSET DOMAIN items /\ Z \in SUBSET DOMAIN items
    OBVIOUS
  <2>. HIDE DEF X, Y, Z
  <2>3. /\ Cardinality(X(N)) \in Nat /\ Cardinality(Y) \in Nat /\ Cardinality(Z) \in Nat
        /\ Cardinality(X(N)) = 0 <=> X(N) = {} /\ TRUE
        /\ Cardinality(Y) = 0 <=> Y = {} /\ TRUE
        /\ Cardinality(Z) = 0 <=> Z = {} /\ TRUE
    BY <1>3, <2>2
  <2>. QED BY <2>1, <2>3
<1>5. X(B) = {} <=> X({}) = {} /\ Apart(B, OwnNames(F, a))
  BY <1>2 DEF Apart
<1>. QED BY <1>4, <1>5 DEF items

LEMMA SymDelivered ==
    ASSUME NEW F \in Files, NEW flt, NEW T, NEW f, NEW B, Typed(F, f), f.fn = "sym",
           SymP(F, flt, f, B, Met(F, flt, T)), f.pc = "entries",
           f.i > Len(F.block[f.at].items), ~ FileDamaged(F, flt) => SoundP(F, f, B)
    PROVE  Delivered(F, flt, f, B, Met(F, flt, T))
<1>. DEFINE a == f.at
            b == F.block[a]
            items == b.items
            M == Met(F, flt, T)
<1>1. /\ a \in Addr /\ a \in Of(F, "sym") /\ b.kind = "sym" /\ f.i \in Nat /\ Unharmed(flt, a)
      /\ B \subseteq f.names /\ OwnNames(F, a) \subseteq f.names /\ EntryErrors(items, B) = 0
      /\ ~ (Len(items) > 2 * F.super.leaf_k)
  BY DEF Typed, Of, SymP
<1>2. /\ IsList(items) /\ Len(items) \in Nat
      /\ \A x \in Range(items) : \E j \in 1 .. Len(items) : items[j] = x
  BY <1>1, FileItems, ListType
<1>3. \A x \in Range(items) : EntryTargets(x) \subseteq M
  <2>1. \A j \in 1 .. Len(items) : j < f.i => EntryTargets(items[j]) \subseteq M
    BY DEF SymP
  <2>2. \A j \in 1 .. Len(items) : j < f.i
    <3>1. PICK i, m : i = f.i /\ m = Len(items)
      OBVIOUS
    <3>2. i \in Nat /\ m \in Nat /\ i > m
      BY <1>1, <1>2, <3>1
    <3>3. \A j \in 1 .. m : j < i
      BY <3>2
    <3>. QED BY <3>1, <3>3
  <2>. HIDE DEF M, items
  <2>. QED BY <1>2, <2>1, <2>2
<1>. HIDE DEF M, items
<1>4. TreeTargets(F, a) = {} /\ LinkTargets(F, a) \subseteq M
  BY <1>1, <1>3 DEF TreeTargets, LinkTargets, EntryTargets, items
<1>5. EntryErrors(items, {}) = 0 /\ Apart(B, OwnNames(F, a))
  BY <1>1, NoEntryErrors DEF items
<1>6. ~ Damaged(F, flt, a) /\ Targets(F, a) \subseteq M
  <2>1. EntryErrors(items, {}) = 0 => ~ (EntryErrors(items, {}) > 0)
    OBVIOUS
  <2>2. ~ Damaged(F, flt, a)
    BY <1>1, <1>5, <2>1 DEF Damaged, Unharmed, items
  <2>. QED BY <1>1, <1>4, <2>2 DEF Targets
<1>7. a \in M
  <2>1. {a} \subseteq Covered(F, flt, T)
    BY <1>1, <1>6, Cover DEF M
  <2>. QED BY <2>1 DEF M, Met
<1>8. NamesUnder(F, a) = OwnNames(F, a)
  <2>1. NamesUnder(F, a) \subseteq OwnNames(F, a)
    BY <1>1, <1>4, NamesOfNode
  <2>. QED BY <1>1, <2>1, NamesOfChild
<1>9. ~ FileDamaged(F, flt) => f.names \subseteq B \cup OwnNames(F, a)
  BY DEF SoundP
<1>. QED BY <1>1, <1>5, <1>7, <1>8, <1>9 DEF Delivered, M

LEMMA Btree2Delivered ==
    ASSUME NEW F \in Files, NEW flt, NEW T, NEW f, NEW B, Typed(F, f), f.fn = "btree2",
           Btree2P(F, flt, f, Met(F, flt, T)), f.pc = "done"
    PROVE  Delivered(F, flt, f, B, Met(F, flt, T))
<1>. DEFINE a == f.at
            leaf == F.block[a].items[1]
            items == F.block[leaf].items
            M == Met(F, flt, T)
<1>1. /\ a \in Addr /\ leaf \in Addr /\ F.block[a].kind = "bt2" /\ Len(F.block[a].items) = 1
      /\ F.block[leaf].kind = f.mode /\ f.mode \in {"chunks", "links", "attrs"}
      /\ Unharmed(flt, a) /\ Unharmed(flt, leaf)
  BY DEF Btree2P, Indexes, Of
<1>2. Range(F.block[a].items) = {leaf}
  <2>1. \A x \in Range(F.block[a].items) : \E j \in 1 .. 1 : F.block[a].items[j] = x
    BY <1>1, FileItems
  <2>2. \A j \in 1 .. 1 : F.block[a].items[j] \in Range(F.block[a].items)
    BY <1>1, FileItems
  <2>3. \A j \in 1 .. 1 : j = 1
    OBVIOUS
  <2>. QED BY <2>1, <2>2, <2>3
<1>3. /\ Len(items) \in Nat
      /\ \A x \in Range(items) : \E j \in 1 .. Len(items) : items[j] = x
  BY <1>1, FileItems, ListType
<1>4. f.mode = "links" => Range(items) \ {Undef} \subseteq M
  <2>1. RecordsMet(F, f, Len(items) + 1, M)
    BY DEF Btree2P
  <2>2. f.mode = "links" =>
           \A j \in 1 .. Len(items) : j < Len(items) + 1 => items[j] \in M \cup {Undef}
    BY <2>1 DEF RecordsMet
  <2>. HIDE DEF items, M
  <2>. QED BY <1>3, <2>2
<1>. HIDE DEF M, items
<1>5. Targets(F, a) \subseteq {leaf} /\ Targets(F, leaf) \subseteq M
  BY <1>1, <1>2, <1>4, FilesAssumption DEF Targets, TreeTargets, LinkTargets, items
<1>6. ~ Damaged(F, flt, a) /\ ~ Damaged(F, flt, leaf)
  BY <1>1 DEF Damaged, Unharmed
<1>7. {a, leaf} \subseteq Covered(F, flt, T)
  <2>1. PICK S : S = {a, leaf}
    OBVIOUS
  <2>2. S \in SUBSET Addr /\ \A c \in S : ~ Damaged(F, flt, c) /\ Targets(F, c) \subseteq S \cup M
    BY <1>1, <1>5, <1>6, <2>1
  <2>3. S \subseteq Covered(F, flt, T)
    BY <2>2, Cover DEF M
  <2>. QED BY <2>1, <2>3
<1>. QED BY <1>7 DEF Delivered, Met

(* The names under a node of raw data: none.                               *)
LEMMA NoNames ==
    ASSUME NEW F \in Files, NEW a \in Of(F, "raw") PROVE NamesUnder(F, a) = {}
<1>. DEFINE R == Of(F, "raw")
<1>1. R \in SUBSET Addr /\ a \in R /\ a \in Addr
  BY DEF Of
<1>2. ASSUME NEW c \in R PROVE TreeTargets(F, c) \subseteq R
  <2>1. c \in Addr /\ F.block[c].kind = "raw"
    BY DEF Of
  <2>2. Range(F.block[c].items) \subseteq Items(F, F.block[c])
    BY <2>1, FileItems
  <2>3. F.block[c].level > 0 => Items(F, F.block[c]) = R
    BY <2>1 DEF Items
  <2>. QED BY <2>1, <2>2, <2>3 DEF TreeTargets
<1>3. Nodes(F, {a}) \subseteq R
  BY <1>1, <1>2, NodesFacts
<1>. QED BY <1>3 DEF NamesUnder, OwnNames, Of

-----------------------------------------------------------------------------
(* What a function that waited goes on with, when nothing went wrong.      *)
Alike(p, x) ==
    /\ x.fn = p.fn /\ x.at = p.at /\ x.want = p.want /\ x.pc = p.pc /\ x.mesg = p.mesg
    /\ x.chunk = p.chunk /\ x.mode = p.mode /\ x.todo = p.todo

Clean(x) == x.ret_err = 0 /\ x.ret_other_err = 0

LEMMA NothingFailed == Failed(SUCCEED) = 0 /\ SUCCEED # FAIL
BY DEF Failed, SUCCEED, FAIL

LEMMA HeaderAbsorbs ==
    ASSUME NEW F, NEW flt, NEW p, NEW f, NEW B, NEW M, NEW x, Alike(p, x), Clean(x),
           p.fn = "header", IsList(p.mesg),
           Suspended(F, flt, p, B, f, M), Delivered(F, flt, f, Given(p), M)
    PROVE  Runs(F, flt, x, B, M)
<1>1. Progress(F, flt, p, B, M \cup {f.at}) /\ p.pc = "return" /\ f.fn = "messages" /\ f.mesg = p.mesg
  BY DEF Suspended, Waiting
<1>2. HeaderP(F, flt, p)
  BY <1>1 DEF Progress
<1>3. HeaderP(F, flt, x)
  <2>1. PICK C \in SUBSET Headers(F) : Reading(F, flt, p, C)
    BY <1>1, <1>2 DEF HeaderP, Reading
  <2>2. PICK C2 \in SUBSET Addr : C2 = C
    BY DEF Headers, Of
  <2>3. Reading(F, flt, x, C)
    BY <1>1, <2>1 DEF Alike, Reading, Known
  <2>. QED BY <1>1, <1>2, <2>2, <2>3 DEF HeaderP, Alike
<1>4. ~ FileDamaged(F, flt) => SoundP(F, x, B)
  BY <1>1 DEF Progress, SoundP, Alike
<1>5. TreatedBefore(F, flt, x.mesg, Len(x.mesg) + 1, M)
  BY <1>1 DEF Delivered, Alike
<1>. QED BY <1>3, <1>4, <1>5 DEF Runs, Progress, Clean, Alike

LEMMA MessagesAbsorb ==
    ASSUME NEW F, NEW flt, NEW p, NEW f, NEW B, NEW M, NEW x, Alike(p, x), Clean(x),
           p.fn = "messages", IsList(p.mesg), p.i \in Nat,
           x.i = IF f.fn = "btree2" THEN p.i ELSE p.i + 1,
           Suspended(F, flt, p, B, f, M), Delivered(F, flt, f, Given(p), M),
           f.want => f.fn = "header" /\ HoldsDatatype(F, f.at)
    PROVE  Runs(F, flt, x, B, M)
<1>1. f.fn \in {"header", "btree", "btree2"} /\ f.at \in M
  BY DEF Suspended, Waiting, Delivered
<1>2. M \cup {f.at} = M
  BY <1>1
<1>3. Progress(F, flt, p, B, M) /\ Waiting(F, flt, p, f, M)
  BY <1>2 DEF Suspended
<1>4. MessagesP(F, flt, p, M)
  BY <1>3 DEF Progress
<1>5. ~ FileDamaged(F, flt) => SoundP(F, x, B)
  BY <1>3 DEF Progress, SoundP, Alike
<1>6. MessagesP(F, flt, x, M)
  <2>1. CASE f.fn = "btree2"
    BY <1>4, <2>1 DEF Alike, MessagesP, Indexing
  <2>2. CASE f.fn # "btree2"
    <3>1. p.pc = "enter" /\ p.i <= Len(p.mesg) /\ Treated(F, flt, p.mesg[p.i], M)
      <4>1. CASE f.want
        <5>. DEFINE m == p.mesg[p.i]
        <5>1. AtMesg(p) /\ m.kind = "shared" /\ m.header = f.at /\ flt[m.chunk] # "message"
          BY <1>3, <4>1 DEF Waiting
        <5>. HIDE DEF m
        <5>2. MesgTargets(m) \subseteq M
          BY <1>1, <5>1 DEF MesgTargets
        <5>3. Treated(F, flt, m, M)
          BY <4>1, <5>1, <5>2 DEF Treated
        <5>. QED BY <5>1, <5>3 DEF AtMesg, m
      <4>2. CASE ~ f.want
        BY <1>3, <2>2, <4>2 DEF Waiting, AtMesg
      <4>. QED BY <4>1, <4>2
    <3>2. ASSUME NEW j \in 1 .. Len(p.mesg), j < p.i + 1 PROVE Treated(F, flt, p.mesg[j], M)
      <4>1. j = p.i \/ j < p.i
        BY <3>2
      <4>. QED BY <1>4, <3>1, <4>1 DEF MessagesP, TreatedBefore
    <3>. QED BY <2>2, <3>1, <3>2 DEF Alike, MessagesP, TreatedBefore
  <2>. QED BY <2>1, <2>2
<1>. QED BY <1>5, <1>6 DEF Runs, Progress, Clean, Alike

LEMMA BtreeAbsorbs ==
    ASSUME NEW F \in Files, NEW flt, NEW p, NEW f, NEW B, NEW M, NEW x, Alike(p, x), Clean(x),
           p.fn = "btree", p.at \in Addr, p.i \in Nat, p.i >= 1, x.i = p.i + 1, x.names = f.names,
           Suspended(F, flt, p, B, f, M), Delivered(F, flt, f, Given(p), M)
    PROVE  Runs(F, flt, x, B, M)
<1>. DEFINE items == F.block[p.at].items
<1>1. f.fn \in {"btree", "sym"} /\ f.at \in M
  BY DEF Suspended, Waiting, Delivered
<1>2. M \cup {f.at} = M
  BY <1>1
<1>3. Progress(F, flt, p, B, M) /\ Waiting(F, flt, p, f, M)
  BY <1>2 DEF Suspended
<1>4. /\ BtreeP(F, flt, p, B, M) /\ p.pc = "entries" /\ Inner(F, p.at)
      /\ p.i <= Len(items) /\ items[p.i] = f.at
      /\ ~ FileDamaged(F, flt) => SoundP(F, p, B)
  BY <1>3 DEF Progress, Waiting
<1>5. Len(items) \in Nat
  BY FileItems, ListType
<1>. HIDE DEF items
<1>6. /\ p.names \subseteq f.names /\ NamesUnder(F, f.at) \subseteq f.names
      /\ Apart(p.names, NamesUnder(F, f.at))
      /\ ~ FileDamaged(F, flt) => f.names \subseteq p.names \cup NamesUnder(F, f.at)
  BY <1>1 DEF Delivered, Given
<1>7. /\ B \subseteq p.names /\ Unharmed(flt, p.at) /\ Within(F, p.at)
      /\ \A j \in 1 .. Len(items) : j < p.i =>
                 /\ items[j] \in M
                 /\ NamesUnder(F, items[j]) \subseteq p.names
                 /\ Apart(B, NamesUnder(F, items[j]))
                 /\ \A k \in 1 .. Len(items) : k < j =>
                       Apart(NamesUnder(F, items[k]), NamesUnder(F, items[j]))
  BY <1>4 DEF BtreeP, items
<1>8. ASSUME NEW j \in 1 .. Len(items), j < p.i + 1
      PROVE  /\ items[j] \in M
             /\ NamesUnder(F, items[j]) \subseteq f.names
             /\ Apart(B, NamesUnder(F, items[j]))
             /\ \A k \in 1 .. Len(items) : k < j =>
                   Apart(NamesUnder(F, items[k]), NamesUnder(F, items[j]))
  <2>1. CASE j < p.i
    BY <1>6, <1>7, <2>1
  <2>2. CASE j = p.i
    BY <1>1, <1>4, <1>6, <1>7, <2>2 DEF Apart
  <2>. QED BY <1>8, <2>1, <2>2
<1>9. BtreeP(F, flt, x, B, M)
  <2>1. B \subseteq x.names /\ x.pc = "entries" /\ x.at = p.at /\ x.i = p.i + 1 /\ x.names = f.names
    BY <1>4, <1>6, <1>7 DEF Alike
  <2>. QED BY <1>7, <1>8, <2>1 DEF BtreeP, items
<1>10. ASSUME ~ FileDamaged(F, flt) PROVE SoundP(F, x, B)
  <2>. DEFINE U(n) == UNION {NamesUnder(F, items[j]) : j \in {k \in 1 .. Len(items) : k < n}}
  <2>1. p.at \in Reached(F) /\ Apart(B, NamesUnder(F, p.at)) /\ p.names \subseteq B \cup U(p.i)
    BY <1>4, <1>10 DEF SoundP, items
  <2>2. U(p.i) \subseteq U(p.i + 1)
    BY <1>5
  <2>3. NamesUnder(F, f.at) \subseteq U(p.i + 1)
    <3>1. p.i \in {k \in 1 .. Len(items) : k < p.i + 1}
      BY <1>4, <1>5
    <3>. QED BY <1>4, <3>1
  <2>. HIDE DEF U
  <2>4. f.names \subseteq B \cup U(p.i + 1)
    BY <1>6, <1>10, <2>1, <2>2, <2>3
  <2>5. x.fn = "btree" /\ x.at = p.at /\ x.names = f.names /\ x.i = p.i + 1 /\ Inner(F, x.at)
    BY <1>4 DEF Alike
  <2>6. x.at \in Reached(F) /\ Apart(B, NamesUnder(F, x.at)) /\ x.names \subseteq B \cup U(x.i)
    BY <2>1, <2>4, <2>5
  <2>. QED BY <2>5, <2>6 DEF SoundP, U, items
<1>. QED BY <1>9, <1>10 DEF Runs, Progress, Clean, Alike

LEMMA SymAbsorbs ==
    ASSUME NEW F \in Files, NEW flt, NEW p, NEW f, NEW B, NEW M, NEW x, Alike(p, x), Clean(x),
           p.fn = "sym", p.i \in Nat, x.i = p.i + 1, x.names = p.names,
           Suspended(F, flt, p, B, f, M), Delivered(F, flt, f, Given(p), M)
    PROVE  Runs(F, flt, x, B, M)
<1>. DEFINE items == F.block[p.at].items
<1>1. f.fn = "header" /\ f.at \in M
  BY DEF Suspended, Waiting, Delivered
<1>2. M \cup {f.at} = M
  BY <1>1
<1>3. Progress(F, flt, p, B, M) /\ Waiting(F, flt, p, f, M)
  BY <1>2 DEF Suspended
<1>4. /\ SymP(F, flt, p, B, M) /\ p.pc = "entries" /\ EntryTargets(items[p.i]) \subseteq M
      /\ ~ FileDamaged(F, flt) => SoundP(F, p, B)
  BY <1>3 DEF Progress, Waiting
<1>5. ASSUME NEW j \in 1 .. Len(items), j < p.i + 1 PROVE EntryTargets(items[j]) \subseteq M
  <2>1. j < p.i \/ j = p.i
    BY <1>5
  <2>. QED BY <1>4, <2>1 DEF SymP
<1>. HIDE DEF items
<1>6. SymP(F, flt, x, B, M)
  BY <1>4, <1>5 DEF SymP, Alike, items
<1>7. ~ FileDamaged(F, flt) => SoundP(F, x, B)
  BY <1>4 DEF SoundP, Alike
<1>. QED BY <1>6, <1>7 DEF Runs, Progress, Clean, Alike

LEMMA Btree2Absorbs ==
    ASSUME NEW F \in Files, NEW flt, NEW p, NEW f, NEW B, NEW M, NEW x, Alike(p, x), Clean(x),
           p.fn = "btree2", p.i \in Nat, x.i = p.i + 1,
           Suspended(F, flt, p, B, f, M), Delivered(F, flt, f, Given(p), M)
    PROVE  Runs(F, flt, x, B, M)
<1>. DEFINE items == F.block[F.block[p.at].items[1]].items
<1>1. f.fn = "header" /\ f.at \in M
  BY DEF Suspended, Waiting, Delivered
<1>2. M \cup {f.at} = M
  BY <1>1
<1>3. Progress(F, flt, p, B, M) /\ Waiting(F, flt, p, f, M)
  BY <1>2 DEF Suspended
<1>4. /\ Btree2P(F, flt, p, M) /\ p.pc = "records" /\ items[p.i] = f.at
      /\ ~ FileDamaged(F, flt) => SoundP(F, p, B)
  BY <1>3 DEF Progress, Waiting
<1>5. RecordsMet(F, p, p.i, M)
  BY <1>4 DEF Btree2P
<1>6. ASSUME p.mode = "links", NEW j \in 1 .. Len(items), j < p.i + 1 PROVE items[j] \in M \cup {Undef}
  <2>1. j < p.i \/ j = p.i
    BY <1>6
  <2>. QED BY <1>1, <1>4, <1>5, <1>6, <2>1 DEF RecordsMet
<1>7. RecordsMet(F, x, x.i, M)
  <2>. HIDE DEF items
  <2>1. x.mode = p.mode /\ x.at = p.at /\ x.i = p.i + 1
    BY DEF Alike
  <2>. QED BY <1>6, <2>1 DEF RecordsMet, items
<1>8. Btree2P(F, flt, x, M)
  <2>1. x.mode = p.mode /\ x.at = p.at /\ x.pc = "records"
    BY <1>4 DEF Alike
  <2>. QED BY <1>4, <1>7, <2>1 DEF Btree2P
<1>9. ~ FileDamaged(F, flt) => SoundP(F, x, B)
  BY <1>4 DEF SoundP, Alike
<1>. QED BY <1>8, <1>9 DEF Runs, Progress, Clean, Alike

-----------------------------------------------------------------------------
LEMMA AbsorbRuns ==
    ASSUME NEW F \in Files, NEW flt, NEW p, Typed(F, p), NEW f, Typed(F, f), NEW B, NEW M,
           Suspended(F, flt, p, B, f, M), Delivered(F, flt, f, Given(p), M),
           p.fn = "messages" /\ f.want => HasDatatype(f) /\ HoldsDatatype(F, f.at)
    PROVE  LET x == Absorb(p, f, SUCCEED)
           IN  SameCall(p, x) /\ Runs(F, flt, x, B, M) /\ PushedByCaller(p, f, SUCCEED) = 0
<1>. DEFINE x == Absorb(p, f, SUCCEED)
<1>1. /\ Fields \subseteq DOMAIN p /\ p.at \in Addr /\ p.i \in Nat /\ p.i >= 1
      /\ p.fn \in {"header", "messages"} => IsList(p.mesg)
      /\ p.fn \in {"header", "messages", "btree", "sym", "btree2"}
      /\ f.want => f.fn = "header"
  BY DEF Typed, Mesgs
<1>2. Clean(p) /\ Waiting(F, flt, p, f, M \cup {f.at})
  BY DEF Suspended, Progress, Clean
<1>3. PushedByCaller(p, f, SUCCEED) = 0
  BY <1>1, NothingFailed DEF PushedByCaller
<1>4. CASE p.fn = "header"
  <2>1. x = [p EXCEPT !.pc = "return", !.ret_other_err = @ + Failed(SUCCEED)]
    BY <1>4 DEF Absorb
  <2>2. p.pc = "return"
    BY <1>2, <1>4 DEF Waiting
  <2>. HIDE DEF x
  <2>3. Alike(p, x) /\ Clean(x)
    BY <1>1, <1>2, <2>1, <2>2, NothingFailed DEF Alike, Clean, Fields
  <2>4. Runs(F, flt, x, B, M)
    BY <1>1, <1>4, <2>3, HeaderAbsorbs
  <2>. QED BY <1>3, <2>3, <2>4 DEF SameCall, Alike, x
<1>5. CASE p.fn = "messages"
  <2>0. SharedFails(f, SUCCEED) = 0 \/ ~ f.want
    BY <1>5, NothingFailed DEF SharedFails
  <2>1. \/ f.fn # "btree2" /\ x = [p EXCEPT !.i = @ + 1, !.ret_err = @ + SharedFails(f, SUCCEED)] /\ f.want
        \/ f.fn = "btree2" /\ x = [p EXCEPT !.ret_other_err = @ + Failed(SUCCEED)]
        \/ f.fn # "btree2" /\ x = [p EXCEPT !.i = @ + 1, !.ret_other_err = @ + Failed(SUCCEED), !.curr_obj = 0]
    BY <1>1, <1>5 DEF Absorb
  <2>. HIDE DEF x
  <2>3. Alike(p, x) /\ Clean(x) /\ x.i = IF f.fn = "btree2" THEN p.i ELSE p.i + 1
    <3>1. CASE f.want /\ f.fn # "btree2" /\ x = [p EXCEPT !.i = @ + 1, !.ret_err = @ + SharedFails(f, SUCCEED)]
      BY <1>1, <1>2, <2>0, <3>1 DEF Alike, Clean, Fields
    <3>2. CASE f.fn = "btree2" /\ x = [p EXCEPT !.ret_other_err = @ + Failed(SUCCEED)]
      BY <1>1, <1>2, <3>2, NothingFailed DEF Alike, Clean, Fields
    <3>3. CASE f.fn # "btree2" /\ x = [p EXCEPT !.i = @ + 1, !.ret_other_err = @ + Failed(SUCCEED), !.curr_obj = 0]
      BY <1>1, <1>2, <3>3, NothingFailed DEF Alike, Clean, Fields
    <3>. QED BY <2>1, <3>1, <3>2, <3>3
  <2>4. Runs(F, flt, x, B, M)
    BY <1>1, <1>5, <2>3, MessagesAbsorb
  <2>. QED BY <1>3, <1>5, <2>3, <2>4 DEF SameCall, Alike, x
<1>6. CASE p.fn = "btree"
  <2>1. x = [p EXCEPT !.i = @ + 1, !.ret_other_err = @ + Failed(SUCCEED), !.names = f.names]
    BY <1>6 DEF Absorb
  <2>. HIDE DEF x
  <2>3. Alike(p, x) /\ Clean(x) /\ x.i = p.i + 1 /\ x.names = f.names
    BY <1>1, <1>2, <2>1, NothingFailed DEF Alike, Clean, Fields
  <2>4. Runs(F, flt, x, B, M)
    BY <1>1, <1>6, <2>3, BtreeAbsorbs
  <2>. QED BY <1>3, <1>6, <2>3, <2>4 DEF SameCall, Alike, x
<1>7. CASE p.fn = "sym"
  <2>1. x = [p EXCEPT !.i = @ + 1, !.ret_other_err = @ + Failed(SUCCEED), !.curr_obj = 0]
    BY <1>7 DEF Absorb
  <2>. HIDE DEF x
  <2>3. Alike(p, x) /\ Clean(x) /\ x.i = p.i + 1 /\ x.names = p.names
    BY <1>1, <1>2, <2>1, NothingFailed DEF Alike, Clean, Fields
  <2>4. Runs(F, flt, x, B, M)
    BY <1>1, <1>7, <2>3, SymAbsorbs
  <2>. QED BY <1>3, <1>7, <2>3, <2>4 DEF SameCall, Alike, x
<1>8. CASE p.fn = "btree2"
  <2>1. x = [p EXCEPT !.i = @ + 1, !.ret_err = @ + Failed(SUCCEED)]
    BY <1>8 DEF Absorb
  <2>. HIDE DEF x
  <2>3. Alike(p, x) /\ Clean(x) /\ x.i = p.i + 1
    BY <1>1, <1>2, <2>1, NothingFailed DEF Alike, Clean, Fields
  <2>4. Runs(F, flt, x, B, M)
    BY <1>1, <1>8, <2>3, Btree2Absorbs
  <2>. QED BY <1>3, <1>8, <2>3, <2>4 DEF SameCall, Alike, x
<1>. QED BY <1>1, <1>4, <1>5, <1>6, <1>7, <1>8

-----------------------------------------------------------------------------
(* The walk goes on without an error: either it is known to have found     *)
(* none, or there is none to be found.                                     *)
MetNow == Met(file, fault, obj_table)
GivenNow == GivenAt(stack, Len(stack))

Walking ==
    DefaultK(file.super) /\ ErrInv /\ ErrorWalks /\ Good /\ Covers(file, fault, stack, obj_table)
Quiet == nerrors' = 0 /\ estack' = 0
Fine == Quiet \/ ~ FileDamaged(file, fault)
WalksOn == Quiet /\ Covers(file, fault, stack', obj_table')

LEMMA TopRuns ==
    ASSUME Walking
    PROVE  /\ Runs(file, fault, Top, GivenNow, MetNow)
           /\ Progress(file, fault, Top, GivenNow, MetNow)
           /\ Typed(file, Top) /\ file \in Files /\ Fields \subseteq DOMAIN Top
           /\ IsList(stack) /\ stack # << >> /\ Top = Head(stack)
           /\ Top.ret_err = 0 /\ Top.ret_other_err = 0 /\ nerrors = 0 /\ estack = 0
<1>1. IsList(stack) /\ stack # << >> /\ Top = Head(stack)
  BY DEF Walking, ErrInv, Stacked, ErrorWalks, Walks, Top
<1>2. Len(stack) \in Nat /\ Len(stack) >= 1 /\ Deep(stack, Len(stack)) = Top
  BY <1>1, Highest
<1>3. Runs(file, fault, Top, GivenNow, MetNow)
  BY <1>2 DEF Walking, Covers, GivenNow, MetNow
<1>4. Typed(file, Top) /\ file \in Files /\ Fields \subseteq DOMAIN Top
  BY TopTyped DEF Walking
<1>. QED BY <1>1, <1>3, <1>4 DEF Runs, Progress, Walking, Good

LEMMA GoesOn ==
    ASSUME Walking, Quiet, NEW x, Replace(x), obj_table' = obj_table, SameCall(Top, x),
           Runs(file, fault, x, GivenNow, MetNow)
    PROVE  WalksOn
<1>1. IsList(stack) /\ stack # << >> /\ Top = Head(stack)
  BY TopRuns
<1>2. Covers(file, fault, << x >> \o Tail(stack), obj_table)
  BY <1>1, CovReplaced DEF Walking, GivenNow, MetNow
<1>. QED BY <1>2 DEF WalksOn, Replace

LEMMA GoesIn ==
    ASSUME Walking, Quiet, NEW x, NEW y, Call(x, y), obj_table' = obj_table, SameCall(Top, y),
           Suspended(file, fault, y, GivenNow, x, MetNow),
           Runs(file, fault, x, Given(y), MetNow)
    PROVE  WalksOn
<1>1. IsList(stack) /\ stack # << >> /\ Top = Head(stack)
  BY TopRuns
<1>2. Covers(file, fault, << x, y >> \o Tail(stack), obj_table)
  BY <1>1, CovCalled DEF Walking, GivenNow, MetNow
<1>. QED BY <1>2 DEF WalksOn, Call

LEMMA GoesOut ==
    ASSUME Walking, Fine, Return(SUCCEED, 0), Delivered(file, fault, Top, GivenNow, MetNow),
           \A h : OpenHeader(Top, h) => h \in Covered(file, fault, obj_table),
           Top.want => (HasDatatype(Top) <=> HoldsDatatype(file, Top.at))
    PROVE  WalksOn
<1>1. /\ IsList(stack) /\ stack # << >> /\ Top = Head(stack) /\ file \in Files /\ Typed(file, Top)
      /\ nerrors = 0 /\ estack = 0
  BY TopRuns
<1>2. obj_table' = obj_table
  BY DEF Return
<1>3. CASE Tail(stack) = << >>
  <2>1. stack' = << >> /\ Quiet
    BY <1>1, <1>3 DEF Return, Flush, errors, Quiet
  <2>2. Top.fn = "header" => Top.at \in MetNow
    BY DEF Delivered
  <2>3. Covers(file, fault, << >>, obj_table)
    BY <1>1, <1>3, <2>2, CovEnded DEF Walking, MetNow
  <2>. QED BY <1>2, <2>1, <2>3 DEF WalksOn
<1>4. CASE Tail(stack) # << >>
  <2>. DEFINE p == Head(Tail(stack))
              x == Absorb(p, Top, SUCCEED)
              n == Len(stack)
              B == GivenAt(stack, n - 1)
  <2>1. n \in Nat /\ n >= 2 /\ Deep(stack, n) = Top /\ Deep(stack, n - 1) = p
    BY <1>1, <1>4, TopReturns, Highest
  <2>. HIDE DEF p, n
  <2>2. Typed(file, p)
    BY <2>1 DEF Walking, ErrInv, Stacked, n
  <2>3. Suspended(file, fault, p, B, Top, MetNow)
    <3>1. n - 1 \in 1 .. n - 1 /\ n - 1 + 1 = n
      BY <2>1
    <3>2. \A d \in 1 .. n - 1 :
             Suspended(file, fault, Deep(stack, d), GivenAt(stack, d), Deep(stack, d + 1), MetNow)
      BY DEF Walking, Covers, MetNow, n
    <3>3. Suspended(file, fault, Deep(stack, n - 1), GivenAt(stack, n - 1), Deep(stack, n - 1 + 1), MetNow)
      BY <3>1, <3>2
    <3>. QED BY <2>1, <3>1, <3>3
  <2>4. GivenNow = Given(p)
    <3>1. n # 1
      BY <2>1
    <3>2. GivenNow = GivenAt(stack, n)
      BY DEF GivenNow, n
    <3>. QED BY <2>1, <3>1, <3>2 DEF GivenAt
  <2>5. /\ stack' = << x >> \o Tail(Tail(stack))
        /\ LET k == PushedByCaller(p, Top, SUCCEED)
           IN  (k = 0 /\ UNCHANGED errors) \/ (k # 0 /\ estack' = Pushed(k))
    <3>1. (0 > 0) = FALSE
      OBVIOUS
    <3>. QED BY <1>4, <3>1 DEF Return, Flush, p
  <2>. HIDE DEF B
  <2>6. p.fn = "messages" /\ Top.want => HasDatatype(Top) /\ HoldsDatatype(file, Top.at)
    <3>. SUFFICES ASSUME p.fn = "messages", Top.want PROVE HasDatatype(Top)
      OBVIOUS
    <3>1. CASE Quiet
      <4>. SUFFICES ASSUME ~ HasDatatype(Top) PROVE FALSE
        OBVIOUS
      <4>1. PushedByCaller(p, Top, SUCCEED) = 2
        BY NothingFailed DEF PushedByCaller
      <4>2. estack' = Pushed(2)
        BY <2>5, <4>1
      <4>. QED BY <1>1, <3>1, <4>2 DEF Pushed, Quiet, NSlots
    <3>2. CASE ~ FileDamaged(file, fault)
      <4>1. SoundP(file, p, B) /\ Waiting(file, fault, p, Top, MetNow \cup {Top.at})
        BY <2>3, <3>2 DEF Suspended, Progress
      <4>. DEFINE m == p.mesg[p.i]
      <4>2. AtMesg(p) /\ m.kind = "shared" /\ m.header = Top.at
        BY <4>1 DEF Waiting
      <4>3. p.i \in 1 .. Len(p.mesg)
        BY <2>2, <4>2 DEF AtMesg, Typed
      <4>4. From(file, Reached(file) \cap Headers(file), m)
        BY <4>1, <4>3 DEF SoundP
      <4>5. HoldsDatatype(file, Top.at)
        BY <1>1, <3>2, <4>2, <4>4, SoundMesg
      <4>. QED BY <4>5
    <3>. QED BY <3>1, <3>2 DEF Fine
  <2>. HIDE DEF x
  <2>7. SameCall(p, x) /\ Runs(file, fault, x, B, MetNow) /\ PushedByCaller(p, Top, SUCCEED) = 0
    BY <1>1, <2>2, <2>3, <2>4, <2>6, AbsorbRuns DEF x
  <2>8. Covers(file, fault, << x >> \o Tail(Tail(stack)), obj_table)
    BY <1>1, <1>4, <2>7, CovReturned DEF Walking, MetNow, p, B, n
  <2>9. Quiet
    BY <1>1, <2>5, <2>7 DEF errors, Quiet
  <2>. QED BY <1>2, <2>5, <2>8, <2>9 DEF WalksOn
<1>. QED BY <1>3, <1>4

-----------------------------------------------------------------------------
(* An error that would be pushed is known not to be.                       *)
LEMMA NoPush ==
    ASSUME NEW n \in Nat, Push(n), nerrors = 0, estack = 0
    PROVE  Quiet <=> n = 0
BY DEF Push, Pushed, Quiet, NSlots

LEMMA PushIsLoud == ASSUME Push(1), nerrors = 0, estack = 0 PROVE ~ Quiet
BY NoPush

LEMMA Unchanged == ASSUME UNCHANGED errors, nerrors = 0, estack = 0 PROVE Quiet
BY DEF errors, Quiet

LEMMA ResultIsGood == ASSUME Walking PROVE Result(Top) = SUCCEED /\ Top.ret_err = 0
BY TopRuns DEF Result

LEMMA TopSound ==
    ASSUME Walking, ~ FileDamaged(file, fault)
    PROVE  SoundP(file, Top, GivenNow) /\ Top.at \in Reached(file) /\ Unharmed(fault, Top.at)
<1>1. SoundP(file, Top, GivenNow)
  BY TopRuns DEF Progress
<1>2. Top.at \in Reached(file)
  BY <1>1 DEF SoundP
<1>. QED BY <1>1, <1>2, SoundAt

-----------------------------------------------------------------------------
(* check_obj_header                                                        *)
LEMMA HeaderReturns ==
    ASSUME Walking, Fine, Return(SUCCEED, 0), Top.fn = "header", Top.pc \notin {"enter", "chunk"},
           TreatedBefore(file, fault, Top.mesg, Len(Top.mesg) + 1, MetNow)
    PROVE  WalksOn
<1>1. Progress(file, fault, Top, GivenNow, MetNow) /\ Typed(file, Top) /\ file \in Files
  BY TopRuns
<1>2. PICK C : Reading(file, fault, Top, C)
  BY <1>1 DEF Progress, HeaderP
<1>3. IsList(Top.mesg) /\ Top.at \in Addr
  BY <1>1 DEF Typed, Mesgs
<1>4. Top.at \in Covered(file, fault, obj_table)
  BY <1>1, <1>2, <1>3, HeaderCovered DEF MetNow
<1>5. HasDatatype(Top) <=> HoldsDatatype(file, Top.at)
  BY <1>1, <1>2, <1>3, DatatypeFound
<1>6. Delivered(file, fault, Top, GivenNow, MetNow)
  BY <1>4 DEF Delivered, MetNow, Met
<1>. QED BY <1>4, <1>5, <1>6, GoesOut DEF OpenHeader

LEMMA HeaderSeenGoes == ASSUME Walking, Fine, HeaderSeen PROVE WalksOn
<1>1. Top.fn = "header" /\ Top.pc = "enter" /\ Top.at \in obj_table /\ ~ Top.want /\ Return(SUCCEED, 0)
  BY DEF HeaderSeen, Running, Found
<1>2. Delivered(file, fault, Top, GivenNow, MetNow)
  BY <1>1 DEF Delivered, MetNow, Met
<1>. QED BY <1>1, <1>2, GoesOut DEF OpenHeader

LEMMA HeaderPrefixGoes == ASSUME Walking, Fine, HeaderPrefix PROVE WalksOn
<1>. DEFINE x == [Top EXCEPT !.pc = "chunk", !.chunk_size = Block(Top.at).size]
<1>1. /\ Progress(file, fault, Top, GivenNow, MetNow) /\ Typed(file, Top) /\ file \in Files
      /\ Fields \subseteq DOMAIN Top /\ nerrors = 0 /\ estack = 0
      /\ IsList(stack) /\ stack # << >> /\ Top = Head(stack)
      /\ Top.ret_err = 0 /\ Top.ret_other_err = 0
  BY TopRuns
<1>2. /\ Top.fn = "header" /\ Top.pc = "enter" /\ obj_table' = obj_table \cup {Top.at}
      /\ fault[Top.at] = "stop" => Push(1)
      /\ fault[Top.at] # "stop" => Replace(x) /\ UNCHANGED errors
  BY DEF HeaderPrefix, Running, Inserted
<1>3. fault[Top.at] # "stop"
  <2>1. CASE Quiet
    <3>1. fault[Top.at] = "stop" => Push(1)
      BY <1>1, <1>2
    <3>2. nerrors = 0 /\ estack = 0
      BY <1>1, <1>2
    <3>. QED BY <2>1, <3>1, <3>2, PushIsLoud
  <2>2. CASE ~ FileDamaged(file, fault)
    BY <2>2, TopSound DEF Unharmed
  <2>. QED BY <2>1, <2>2 DEF Fine
<1>. HIDE DEF x
<1>4. /\ x.fn = "header" /\ x.at = Top.at /\ x.want = Top.want /\ x.mesg = Top.mesg /\ x.pc = "chunk"
      /\ x.i = Top.i /\ x.chunk = Top.chunk /\ x.ret_err = 0 /\ x.ret_other_err = 0
  BY <1>1, <1>2 DEF x, Fields
<1>5. Top.mesg = << >> /\ Top.chunk = Top.at /\ Top.i = 1 /\ Top.at \in Addr
  BY <1>1, <1>2 DEF Progress, HeaderP, Typed
<1>6. Reading(file, fault, x, {})
  <2>1. Len(<< >>) = 0 /\ 1 .. 0 = {} /\ 1 <= 0 + 1
    BY EmptyList
  <2>2. Top.at \in Chunks(file, Top.at)
    BY <1>1, <1>5, ChunksFacts
  <2>3. Known(x, {}) = {Top.at}
    BY <1>4, <1>5 DEF Known
  <2>. QED BY <1>4, <1>5, <2>1, <2>2, <2>3 DEF Reading
<1>7. Runs(file, fault, x, GivenNow, Met(file, fault, obj_table'))
  <2>1. HeaderP(file, fault, x)
    BY <1>3, <1>4, <1>6 DEF HeaderP
  <2>2. ~ FileDamaged(file, fault) => SoundP(file, x, GivenNow)
    BY <1>4, TopSound DEF SoundP
  <2>. QED BY <1>4, <2>1, <2>2 DEF Runs, Progress
<1>8. SameCall(Top, x) /\ OpenHeader(x, Top.at)
  BY <1>2, <1>4 DEF SameCall, OpenHeader
<1>9. PICK T2 : T2 = obj_table'
  OBVIOUS
<1>10. Covers(file, fault, << x >> \o Tail(stack), T2)
  <2>1. Runs(file, fault, x, GivenAt(stack, Len(stack)), Met(file, fault, T2))
    BY <1>7, <1>9 DEF GivenNow
  <2>2. obj_table \subseteq T2 /\ \A h \in T2 : h \in obj_table \/ OpenHeader(x, h)
    BY <1>2, <1>8, <1>9
  <2>. QED BY <1>1, <1>8, <2>1, <2>2, CovReplaced DEF Walking
<1>. QED BY <1>1, <1>2, <1>3, <1>9, <1>10, Unchanged DEF WalksOn, Replace

LEMMA HeaderLogGoes == ASSUME Walking, HeaderLog PROVE WalksOn
<1>. DEFINE x == [Top EXCEPT !.pc = "done"]
<1>1. /\ Progress(file, fault, Top, GivenNow, MetNow) /\ Fields \subseteq DOMAIN Top
      /\ nerrors = 0 /\ estack = 0 /\ Top.ret_err = 0 /\ Top.ret_other_err = 0
  BY TopRuns
<1>2. Top.fn = "header" /\ Top.pc = "log" /\ Replace(x) /\ obj_table' = obj_table /\ Quiet
  BY <1>1, Unchanged DEF HeaderLog, Running
<1>. HIDE DEF x
<1>3. /\ x.fn = "header" /\ x.at = Top.at /\ x.want = Top.want /\ x.mesg = Top.mesg /\ x.pc = "done"
      /\ x.ret_err = 0 /\ x.ret_other_err = 0
  BY <1>1, <1>2 DEF x, Fields
<1>4. HeaderP(file, fault, Top)
  BY <1>1, <1>2 DEF Progress
<1>5. PICK C \in SUBSET Addr : Reading(file, fault, Top, C)
  BY <1>2, <1>4 DEF HeaderP
<1>6. Reading(file, fault, x, C)
  BY <1>2, <1>3, <1>5 DEF Reading, Known
<1>7. HeaderP(file, fault, x)
  BY <1>2, <1>3, <1>4, <1>6 DEF HeaderP
<1>8. ~ FileDamaged(file, fault) => SoundP(file, x, GivenNow)
  BY <1>3, TopSound DEF SoundP
<1>9. Runs(file, fault, x, GivenNow, MetNow)
  BY <1>3, <1>7, <1>8 DEF Runs, Progress
<1>. QED BY <1>2, <1>3, <1>9, GoesOn DEF SameCall

LEMMA HeaderReturnGoes == ASSUME Walking, Fine, HeaderReturn PROVE WalksOn
<1>1. Top.fn = "header" /\ Top.pc = "return" /\ Return(SUCCEED, 0)
  BY ResultIsGood DEF HeaderReturn, Running
<1>2. TreatedBefore(file, fault, Top.mesg, Len(Top.mesg) + 1, MetNow)
  BY <1>1, TopRuns DEF Runs
<1>. QED BY <1>1, <1>2, HeaderReturns

LEMMA HeaderDoneGoes == ASSUME Walking, Fine, HeaderDone PROVE WalksOn
<1>1. /\ Progress(file, fault, Top, GivenNow, MetNow) /\ Fields \subseteq DOMAIN Top
      /\ Typed(file, Top) /\ file \in Files
      /\ nerrors = 0 /\ estack = 0 /\ Top.ret_err = 0 /\ Top.ret_other_err = 0
  BY TopRuns
<1>2. Top.fn = "header" /\ Top.pc = "done"
  BY DEF HeaderDone, Running
<1>3. CASE Top.mesg = << >>
  <2>1. Return(SUCCEED, 0)
    BY <1>3, ResultIsGood DEF HeaderDone
  <2>2. TreatedBefore(file, fault, Top.mesg, Len(Top.mesg) + 1, MetNow)
    <3>1. Len(<< >>) = 0 /\ 1 .. 0 = {}
      BY EmptyList
    <3>. QED BY <1>3, <3>1 DEF TreatedBefore
  <2>. QED BY <1>2, <2>1, <2>2, HeaderReturns
<1>4. CASE Top.mesg # << >>
  <2>. DEFINE x == [Frame("messages", Top.at) EXCEPT !.mesg = Top.mesg]
              y == [Top EXCEPT !.pc = "return"]
  <2>1. Call(x, y) /\ obj_table' = obj_table /\ Quiet
    <3>1. Flush(0)
      BY <1>1, <1>4 DEF HeaderDone
    <3>2. Quiet
      BY <1>1, <3>1 DEF Flush, errors, Quiet
    <3>. QED BY <1>4, <3>2 DEF HeaderDone
  <2>2. /\ y.fn = "header" /\ y.at = Top.at /\ y.want = Top.want /\ y.mesg = Top.mesg /\ y.pc = "return"
        /\ y.ret_err = 0 /\ y.ret_other_err = 0
    BY <1>1, <1>2 DEF Fields
  <2>3. /\ x.fn = "messages" /\ x.at = Top.at /\ x.mesg = Top.mesg /\ x.pc = "enter" /\ x.i = 1
        /\ x.ret_err = 0 /\ x.ret_other_err = 0 /\ x.todo = << >>
    BY DEF Frame
  <2>. HIDE DEF x, y
  <2>4. HeaderP(file, fault, Top)
    BY <1>1, <1>2 DEF Progress
  <2>5. PICK C \in SUBSET Addr : Reading(file, fault, Top, C)
    BY <1>2, <2>4 DEF HeaderP
  <2>6. Reading(file, fault, y, C)
    BY <1>2, <2>2, <2>5 DEF Reading, Known
  <2>7. HeaderP(file, fault, y)
    BY <1>2, <2>2, <2>4, <2>6 DEF HeaderP
  <2>8. ~ FileDamaged(file, fault) => SoundP(file, y, GivenNow)
    BY <2>2, TopSound DEF SoundP
  <2>9. Suspended(file, fault, y, GivenNow, x, MetNow)
    BY <2>2, <2>3, <2>7, <2>8 DEF Suspended, Progress, Waiting
  <2>10. ASSUME ~ FileDamaged(file, fault) PROVE SoundP(file, x, Given(y))
    <3>1. Top.at \in Reached(file)
      BY <2>10, TopSound
    <3>2. C \subseteq Reached(file) \cap Headers(file)
      <4>1. Known(Top, C) = C /\ C \subseteq Headers(file) /\ C \subseteq Chunks(file, Top.at)
        BY <1>2, <2>5 DEF Reading, Known
      <4>. QED BY <1>1, <3>1, <4>1, ChunksReached
    <3>3. \A j \in 1 .. Len(Top.mesg) : From(file, Reached(file) \cap Headers(file), Top.mesg[j])
      BY <2>5, <3>2, FromGrows DEF Reading
    <3>4. Len(<< >>) = 0 /\ 1 .. 0 = {}
      BY EmptyList
    <3>. QED BY <2>3, <3>1, <3>3, <3>4 DEF SoundP
  <2>11. MessagesP(file, fault, x, MetNow)
    <3>1. ASSUME NEW j \in 1 .. Len(Top.mesg), j < 1 PROVE FALSE
      BY <3>1
    <3>. QED BY <2>3, <3>1 DEF MessagesP, TreatedBefore
  <2>12. Runs(file, fault, x, Given(y), MetNow)
    BY <2>3, <2>10, <2>11 DEF Runs, Progress
  <2>. QED BY <1>2, <2>1, <2>2, <2>9, <2>12, GoesIn DEF SameCall
<1>. QED BY <1>3, <1>4

-----------------------------------------------------------------------------
(* The continuation message found is the first that decodes.               *)
FirstOf(mesg, from, next) ==
    /\ next \in Nat /\ next <= Len(mesg)
    /\ next # 0 => next >= from /\ mesg[next].kind = "cont" /\ Decodes(mesg[next])
    /\ \A j \in 1 .. Len(mesg) :
          j >= from /\ mesg[j].kind = "cont" /\ Decodes(mesg[j]) => next # 0 /\ j >= next

LEMMA FirstFound ==
    ASSUME NEW mesg, IsList(mesg), NEW from \in Nat, from >= 1
    PROVE  FirstOf(mesg, from, Continuation(mesg, from))
<1>. DEFINE good == {j \in from .. Len(mesg) : mesg[j].kind = "cont" /\ Decodes(mesg[j])}
<1>1. Len(mesg) \in Nat
  BY ListType
<1>2. /\ good \in SUBSET Nat /\ 0 \notin good
      /\ \A j \in 1 .. Len(mesg) : j >= from /\ mesg[j].kind = "cont" /\ Decodes(mesg[j]) => j \in good
      /\ \A j \in good : j \in Nat /\ j <= Len(mesg) /\ j >= from /\ mesg[j].kind = "cont" /\ Decodes(mesg[j])
  BY <1>1
<1>3. Continuation(mesg, from) = IF good = {} THEN 0 ELSE Min(good)
  BY DEF Continuation
<1>. HIDE DEF good
<1>4. CASE good = {}
  BY <1>1, <1>2, <1>3, <1>4 DEF FirstOf
<1>5. CASE good # {}
  <2>1. Min(good) \in good /\ \A j \in good : Min(good) <= j
    BY <1>2, <1>5, LeastOpen
  <2>2. PICK n \in good : n = Min(good)
    BY <2>1
  <2>3. \A j \in good : j >= n
    BY <1>2, <2>1, <2>2
  <2>4. FirstOf(mesg, from, n)
    BY <1>2, <2>3 DEF FirstOf
  <2>. QED BY <1>3, <1>5, <2>2, <2>4
<1>. QED BY <1>4, <1>5

(* The messages with those of one more chunk.                              *)
Added(f, D, mesg) ==
    /\ D \subseteq Headers(file) /\ D \subseteq Chunks(file, f.at) /\ f.at \in D
    /\ IsList(mesg) /\ Len(mesg) \in Nat
    /\ \A j \in 1 .. Len(mesg) : From(file, D, mesg[j])
    /\ \A c \in D : \A x \in Range(file.block[c].items) :
          \E j \in 1 .. Len(mesg) : mesg[j] = ReadFrom(x, c)
    /\ \A j \in 1 .. Len(mesg) : j < f.i => j \in 1 .. Len(f.mesg) /\ mesg[j] = f.mesg[j]

LEMMA ChunkAdded ==
    ASSUME file \in Files, NEW f, Typed(file, f), f.fn = "header", f.pc = "chunk",
           NEW C, Reading(file, fault, f, C)
    PROVE  Added(f, C \cup {f.chunk}, f.mesg \o MessagesOf(f.chunk))
<1>. DEFINE a == f.chunk
            D == C \cup {a}
            more == MessagesOf(a)
            items == file.block[a].items
            mesg == f.mesg \o more
<1>1. a \in Headers(file) /\ a \in Addr /\ IsList(f.mesg) /\ f.i \in Nat /\ f.i <= Len(f.mesg) + 1
  BY DEF Typed, Mesgs, Reading
<1>2. D \subseteq Headers(file) /\ D \subseteq Chunks(file, f.at) /\ f.at \in D
  BY <1>1 DEF Reading, Known
<1>3. /\ IsList(more) /\ Len(more) = Len(items) /\ Len(items) \in Nat
      /\ \A j \in 1 .. Len(items) : more[j] = ReadFrom(items[j], a) /\ items[j] \in Range(items)
      /\ \A x \in Range(items) : \E j \in 1 .. Len(items) : items[j] = x
  <2>1. IsList(more)
    BY <1>1, ChunkMesgs DEF Mesgs
  <2>2. IsList(items)
    BY <1>1, FileItems
  <2>3. DOMAIN items = 1 .. Len(items) /\ Len(items) \in Nat
    BY <2>2, ListType
  <2>4. more = [j \in DOMAIN items |-> ReadFrom(items[j], a)]
    BY DEF MessagesOf, Block
  <2>6. Len(more) = Len(items)
    <3>. HIDE DEF items, more
    <3>1. more = [j \in 1 .. Len(items) |-> ReadFrom(items[j], a)]
      BY <2>3, <2>4
    <3>. QED BY <2>3, <3>1
  <2>7. /\ \A j \in 1 .. Len(items) : items[j] \in Range(items)
        /\ \A x \in Range(items) : \E j \in 1 .. Len(items) : items[j] = x
    BY <1>1, FileItems
  <2>8. \A j \in 1 .. Len(items) : more[j] = ReadFrom(items[j], a)
    <3>. HIDE DEF items, more
    <3>. QED BY <2>3, <2>4
  <2>. QED BY <2>1, <2>3, <2>6, <2>7, <2>8
<1>. HIDE DEF more, items
<1>4. /\ IsList(mesg) /\ Len(mesg) = Len(f.mesg) + Len(items) /\ Len(mesg) \in Nat /\ Len(f.mesg) \in Nat
      /\ \A j \in 1 .. Len(mesg) :
            \/ j \in 1 .. Len(f.mesg) /\ mesg[j] = f.mesg[j]
            \/ j - Len(f.mesg) \in 1 .. Len(items) /\ mesg[j] = more[j - Len(f.mesg)]
  <2>1. Len(f.mesg) \in Nat
    BY <1>1, ListType
  <2>2. /\ IsList(mesg) /\ Len(mesg) = Len(f.mesg) + Len(more)
        /\ \A j \in 1 .. Len(mesg) :
              \/ j \in 1 .. Len(f.mesg) /\ mesg[j] = f.mesg[j]
              \/ j - Len(f.mesg) \in 1 .. Len(more) /\ mesg[j] = more[j - Len(f.mesg)]
    <3>1. PICK s, t : s = f.mesg /\ t = more
      OBVIOUS
    <3>2. IsList(s) /\ IsList(t)
      BY <1>1, <1>3, <3>1
    <3>3. /\ IsList(s \o t) /\ Len(s \o t) = Len(s) + Len(t)
          /\ \A j \in 1 .. Len(s \o t) :
                \/ j \in 1 .. Len(s) /\ (s \o t)[j] = s[j]
                \/ j - Len(s) \in 1 .. Len(t) /\ (s \o t)[j] = t[j - Len(s)]
      BY <3>2, Joined
    <3>4. mesg = s \o t
      BY <3>1
    <3>. HIDE DEF mesg
    <3>. QED BY <3>1, <3>3, <3>4
  <2>. HIDE DEF mesg
  <2>. QED BY <1>3, <2>1, <2>2
<1>. HIDE DEF mesg
<1>5. \A j \in 1 .. Len(f.mesg) : j \in 1 .. Len(mesg) /\ mesg[j] = f.mesg[j]
  <2>. SUFFICES ASSUME NEW j \in 1 .. Len(f.mesg) PROVE j \in 1 .. Len(mesg) /\ mesg[j] = f.mesg[j]
    OBVIOUS
  <2>1. j \in 1 .. Len(mesg) /\ ~ (j - Len(f.mesg) \in 1 .. Len(items))
    BY <1>3, <1>4
  <2>. QED BY <1>4, <2>1
<1>6. \A k \in 1 .. Len(items) : \E j \in 1 .. Len(mesg) : mesg[j] = more[k]
  <2>. SUFFICES ASSUME NEW k \in 1 .. Len(items) PROVE \E j \in 1 .. Len(mesg) : mesg[j] = more[k]
    OBVIOUS
  <2>1. PICK j \in 1 .. Len(mesg) : j = Len(f.mesg) + k
    BY <1>3, <1>4
  <2>2. j - Len(f.mesg) = k /\ j \notin 1 .. Len(f.mesg)
    BY <1>3, <1>4, <2>1
  <2>. QED BY <1>4, <2>2
<1>7. \A j \in 1 .. Len(mesg) : From(file, D, mesg[j])
  <2>. SUFFICES ASSUME NEW j \in 1 .. Len(mesg) PROVE From(file, D, mesg[j])
    OBVIOUS
  <2>1. CASE j \in 1 .. Len(f.mesg) /\ mesg[j] = f.mesg[j]
    BY <2>1, FromGrows DEF Reading
  <2>2. CASE j - Len(f.mesg) \in 1 .. Len(items) /\ mesg[j] = more[j - Len(f.mesg)]
    BY <1>3, <2>2 DEF From, items
  <2>. QED BY <1>4, <2>1, <2>2
<1>8. ASSUME NEW c \in D, NEW x \in Range(file.block[c].items)
      PROVE  \E j \in 1 .. Len(mesg) : mesg[j] = ReadFrom(x, c)
  <2>1. CASE c \in C
    <3>1. PICK j \in 1 .. Len(f.mesg) : f.mesg[j] = ReadFrom(x, c)
      BY <2>1 DEF Reading
    <3>. QED BY <1>5, <3>1
  <2>2. CASE c = a
    <3>1. PICK k \in 1 .. Len(items) : items[k] = x
      BY <1>3, <2>2 DEF items
    <3>. QED BY <1>3, <1>6, <2>2, <3>1
  <2>. QED BY <2>1, <2>2
<1>9. ASSUME NEW j \in 1 .. Len(mesg), j < f.i PROVE j \in 1 .. Len(f.mesg) /\ mesg[j] = f.mesg[j]
  <2>1. j \in 1 .. Len(f.mesg)
    BY <1>1, <1>4, <1>9
  <2>. QED BY <1>5, <2>1
<1>. HIDE DEF D
<1>10. Added(f, D, mesg)
  BY <1>2, <1>4, <1>7, <1>8, <1>9 DEF Added
<1>. QED BY <1>10 DEF D, mesg, more

-----------------------------------------------------------------------------
LEMMA ChunkRead ==
    ASSUME file \in Files, Typed(file, Top), Top.fn = "header", Top.pc = "chunk",
           NEW C, Reading(file, fault, Top, C), Unharmed(fault, Top.chunk),
           NEW mesg, Added(Top, C \cup {Top.chunk}, mesg), NEW next, FirstOf(mesg, Top.i, next),
           Corrupt(mesg, Top.i, next) = {},
           NEW x, x.at = Top.at, x.mesg = mesg, x.pc = IF next = 0 THEN "log" ELSE "chunk",
           x.chunk = IF next = 0 THEN Top.chunk ELSE mesg[next].at,
           x.i = IF next = 0 THEN 1 ELSE next + 1
    PROVE  Reading(file, fault, x, C \cup {Top.chunk})
<1>. DEFINE D == C \cup {Top.chunk}
<1>1. Top.i \in Nat /\ Top.i >= 1
  BY DEF Typed
<1>4. Known(Top, C) = D
  BY DEF Known
<1>5. \A c \in C : Unharmed(fault, c)
  BY DEF Reading
<1>12. \A c \in D : Unharmed(fault, c)
  BY <1>5
<1>13. Added(Top, D, mesg)
  OBVIOUS
<1>. HIDE DEF D
<1>2. /\ D \subseteq Headers(file) /\ D \subseteq Chunks(file, Top.at) /\ Top.at \in D
      /\ Len(mesg) \in Nat
      /\ \A j \in 1 .. Len(mesg) : From(file, D, mesg[j])
      /\ \A c \in D : \A y \in Range(file.block[c].items) :
            \E j \in 1 .. Len(mesg) : mesg[j] = ReadFrom(y, c)
      /\ \A j \in 1 .. Len(mesg) : j < Top.i => j \in 1 .. Len(Top.mesg) /\ mesg[j] = Top.mesg[j]
  BY <1>13 DEF Added
<1>3. FirstOf(mesg, Top.i, next)
  OBVIOUS
<1>7. next # 0 => mesg[next].at \in Chunks(file, Top.at)
  <2>. SUFFICES ASSUME next # 0 PROVE mesg[next].at \in Chunks(file, Top.at)
    OBVIOUS
  <2>1. next \in 1 .. Len(mesg) /\ mesg[next].kind = "cont"
    BY <1>1, <1>2, <1>3 DEF FirstOf
  <2>2. From(file, D, mesg[next])
    BY <1>2, <2>1
  <2>3. PICK c \in D : \E y \in Range(file.block[c].items) :
              /\ mesg[next].kind = y.kind /\ (mesg[next].kind = "cont" => mesg[next].at = y.at)
    BY <1>1, <1>2, <2>2, MesgFrom
  <2>4. mesg[next].at \in ContTargets(file, c)
    BY <1>2, <2>1, <2>3 DEF ContTargets, Headers, Of
  <2>5. Top.at \in Addr
    BY <1>1 DEF Typed
  <2>. QED BY <1>1, <1>2, <2>4, <2>5, ChunksFacts
<1>8. Known(x, D) = IF next = 0 THEN D ELSE D \cup {mesg[next].at}
  BY DEF Known
<1>9. Known(x, D) \subseteq Chunks(file, x.at) /\ x.at \in Known(x, D) /\ D \subseteq Known(x, D)
  BY <1>2, <1>7, <1>8
<1>10. x.pc = "chunk" => x.i <= Len(x.mesg) + 1
  BY <1>1, <1>2, <1>3 DEF FirstOf
<1>11. ASSUME NEW j \in 1 .. Len(mesg), mesg[j].kind = "cont", x.pc = "chunk" => j < x.i
       PROVE  fault[mesg[j].chunk] # "message" /\ mesg[j].at \in Known(x, D)
  <2>1. CASE j < Top.i
    BY <1>2, <1>4, <1>9, <1>11, <2>1 DEF Reading
  <2>2. CASE ~ (j < Top.i)
    <3>1. j >= Top.i /\ (next = 0 \/ j <= next)
      BY <1>1, <1>2, <1>3, <1>11, <2>2 DEF FirstOf
    <3>2. Decodes(mesg[j])
      <4>1. j \notin Corrupt(mesg, Top.i, next)
        OBVIOUS
      <4>2. j \in Top.i .. (IF next = 0 THEN Len(mesg) ELSE next)
        BY <1>1, <1>2, <1>3, <3>1 DEF FirstOf
      <4>. QED BY <1>11, <4>1, <4>2 DEF Corrupt
    <3>3. next # 0 /\ j >= next
      BY <1>3, <1>11, <3>1, <3>2 DEF FirstOf
    <3>4. j = next
      BY <1>3, <3>1, <3>3 DEF FirstOf
    <3>. QED BY <1>8, <3>2, <3>3, <3>4 DEF Decodes
  <2>. QED BY <2>1, <2>2
<1>. QED BY <1>2, <1>9, <1>10, <1>11, <1>12 DEF Reading, D

LEMMA HeaderChunkGoes == ASSUME Walking, Fine, HeaderChunk PROVE WalksOn
<1>. DEFINE a == Top.chunk
            mesg == Top.mesg \o MessagesOf(a)
            next == Continuation(mesg, Top.i)
            bad == Corrupt(mesg, Top.i, next)
            corrupt == Cardinality(bad)
            soft == IF fault[a] = "soft" THEN 1 ELSE 0
            x == [Top EXCEPT !.mesg = mesg, !.ret_err = @ + (corrupt + soft),
                             !.i = IF next = 0 THEN 1 ELSE next + 1,
                             !.pc = IF next = 0 THEN "log" ELSE "chunk",
                             !.chunk = IF next = 0 THEN a ELSE mesg[next].at,
                             !.chunk_size = IF next = 0 THEN @ ELSE mesg[next].size]
<1>1. /\ Progress(file, fault, Top, GivenNow, MetNow) /\ Typed(file, Top) /\ file \in Files
      /\ Fields \subseteq DOMAIN Top /\ nerrors = 0 /\ estack = 0
      /\ Top.ret_err = 0 /\ Top.ret_other_err = 0 /\ Top.i \in Nat /\ Top.i >= 1
  BY TopRuns DEF Typed
<1>2. Top.fn = "header" /\ Top.pc = "chunk" /\ obj_table' = obj_table
  BY DEF HeaderChunk, Running
<1>3. HeaderP(file, fault, Top)
  BY <1>1, <1>2 DEF Progress
<1>4. PICK C : Reading(file, fault, Top, C)
  BY <1>2, <1>3 DEF HeaderP
<1>5. fault[Top.at] # "stop"
  BY <1>2, <1>3 DEF HeaderP
<1>6. ~ FileDamaged(file, fault) => Unharmed(fault, a) /\ Chunks(file, Top.at) \subseteq Reached(file)
  <2>. SUFFICES ASSUME ~ FileDamaged(file, fault)
                PROVE  Unharmed(fault, a) /\ Chunks(file, Top.at) \subseteq Reached(file)
    OBVIOUS
  <2>1. Top.at \in Reached(file)
    BY TopSound
  <2>2. Chunks(file, Top.at) \subseteq Reached(file)
    BY <1>1, <2>1, ChunksReached
  <2>3. a \in Chunks(file, Top.at)
    BY <1>2, <1>4 DEF Reading, Known
  <2>. QED BY <2>2, <2>3, SoundAt
<1>7. /\ a # Top.at /\ fault[a] = "stop" => Push(1)
      /\ ~ (a # Top.at /\ fault[a] = "stop") => Replace(x) /\ Push(corrupt + soft + corrupt)
  BY DEF HeaderChunk, Stopped
<1>8. a # Top.at => fault[a] # "stop"
  <2>1. CASE Quiet
    BY <1>1, <1>7, <2>1, NoPush
  <2>2. CASE ~ FileDamaged(file, fault)
    BY <1>6, <2>2 DEF Unharmed
  <2>. QED BY <2>1, <2>2 DEF Fine
<1>9. Replace(x) /\ Push(corrupt + soft + corrupt)
  BY <1>7, <1>8
<1>. DEFINE D == C \cup {a}
<1>23. Added(Top, D, mesg)
  BY <1>1, <1>2, <1>4, ChunkAdded
<1>. HIDE DEF mesg, D
<1>10. /\ D \subseteq Headers(file) /\ D \subseteq Chunks(file, Top.at)
       /\ IsList(mesg) /\ Len(mesg) \in Nat
       /\ \A j \in 1 .. Len(mesg) : From(file, D, mesg[j])
  BY <1>23 DEF Added
<1>11. FirstOf(mesg, Top.i, next)
  BY <1>1, <1>10, FirstFound
<1>. HIDE DEF next
<1>12. corrupt \in Nat /\ (corrupt = 0 <=> bad = {})
  <2>1. Top.i \in Int /\ (IF next = 0 THEN Len(mesg) ELSE next) \in Int
    BY <1>1, <1>10, <1>11 DEF FirstOf
  <2>2. IsFiniteSet(Top.i .. (IF next = 0 THEN Len(mesg) ELSE next))
    BY <2>1, FS_Interval
  <2>3. bad \subseteq Top.i .. (IF next = 0 THEN Len(mesg) ELSE next)
    BY DEF Corrupt
  <2>4. IsFiniteSet(bad)
    BY <2>2, <2>3, FS_Subset
  <2>. QED BY <2>4, FS_CardinalityType, FS_EmptySet
<1>13. ~ FileDamaged(file, fault) => bad = {} /\ soft = 0
  <2>. SUFFICES ASSUME ~ FileDamaged(file, fault) PROVE bad = {} /\ soft = 0
    OBVIOUS
  <2>1. soft = 0
    BY <1>6 DEF Unharmed
  <2>2. ASSUME NEW j \in bad PROVE FALSE
    <3>1. j \in 1 .. Len(mesg) /\ mesg[j].kind = "cont" /\ ~ Decodes(mesg[j])
      BY <1>1, <1>10, <1>11 DEF Corrupt, FirstOf
    <3>2. From(file, Reached(file) \cap Headers(file), mesg[j])
      BY <1>6, <1>10, <3>1, FromGrows
    <3>. QED BY <1>1, <3>1, <3>2, SoundMesg DEF Decodes
  <2>. QED BY <2>1, <2>2
<1>. HIDE DEF bad, corrupt
<1>14. corrupt = 0 /\ soft = 0 /\ bad = {}
  <2>1. corrupt + soft + corrupt \in Nat /\ soft \in 0 .. 1
    BY <1>12
  <2>2. CASE Quiet
    <3>1. corrupt + soft + corrupt = 0
      BY <1>1, <1>9, <2>1, <2>2, NoPush
    <3>. QED BY <1>12, <2>1, <3>1
  <2>3. CASE ~ FileDamaged(file, fault)
    BY <1>12, <1>13, <2>3
  <2>. QED BY <2>2, <2>3 DEF Fine
<1>15. Quiet
  <2>1. corrupt + soft + corrupt = 0
    BY <1>14
  <2>. HIDE DEF soft
  <2>. QED BY <1>1, <1>9, <2>1, NoPush
<1>16. Unharmed(fault, a)
  BY <1>5, <1>8, <1>14 DEF Unharmed
<1>. HIDE DEF soft
<1>17. /\ x.fn = "header" /\ x.at = Top.at /\ x.want = Top.want /\ x.mesg = mesg
       /\ x.pc = IF next = 0 THEN "log" ELSE "chunk"
       /\ x.chunk = IF next = 0 THEN a ELSE mesg[next].at
       /\ x.i = IF next = 0 THEN 1 ELSE next + 1
       /\ x.ret_other_err = 0 /\ x.ret_err = Top.ret_err + (corrupt + soft)
  BY <1>1, <1>2 DEF Fields
<1>. HIDE DEF x
<1>18. Reading(file, fault, x, D)
  BY <1>1, <1>2, <1>4, <1>11, <1>14, <1>16, <1>17, <1>23, ChunkRead DEF D, bad
<1>19. D \in SUBSET Addr
  BY <1>10 DEF Headers, Of
<1>20. HeaderP(file, fault, x)
  BY <1>5, <1>17, <1>18, <1>19 DEF HeaderP
<1>21. ~ FileDamaged(file, fault) => SoundP(file, x, GivenNow)
  BY <1>17, TopSound DEF SoundP
<1>22. Runs(file, fault, x, GivenNow, MetNow)
  <2>1. x.ret_err = 0
    BY <1>1, <1>14, <1>17
  <2>. QED BY <1>17, <1>20, <1>21, <2>1 DEF Runs, Progress
<1>. QED BY <1>2, <1>9, <1>15, <1>17, <1>22, GoesOn DEF SameCall

-----------------------------------------------------------------------------
(* A function that was just called has found nothing yet.                  *)
LEMMA NewCall ==
    ASSUME NEW fn, NEW at
    PROVE  LET x == Frame(fn, at)
           IN  /\ x.fn = fn /\ x.at = at /\ x.pc = "enter" /\ x.i = 1 /\ x.mesg = << >> /\ x.chunk = at
               /\ x.names = {} /\ x.todo = << >> /\ ~ x.want /\ Clean(x) /\ Fields \subseteq DOMAIN x
BY DEF Frame, Clean, Fields

LEMMA NewHeader ==
    ASSUME NEW x, x.fn = "header", x.pc = "enter", x.chunk = x.at, x.i = 1, x.mesg = << >>, Clean(x),
           ~ FileDamaged(file, fault) => x.at \in Reached(file), NEW B, NEW M
    PROVE  Runs(file, fault, x, B, M)
BY DEF Runs, Progress, Clean, HeaderP, SoundP

LEMMA NewBtree ==
    ASSUME NEW x, x.fn = "btree", x.pc = "enter", x.i = 1, Clean(x), NEW B, x.names = B,
           ~ FileDamaged(file, fault) => x.at \in Reached(file) /\ Apart(B, NamesUnder(file, x.at)), NEW M
    PROVE  Runs(file, fault, x, B, M)
<1>. DEFINE n == Len(file.block[x.at].items)
<1>1. \A j \in 1 .. n : ~ (j < 1)
  OBVIOUS
<1>. HIDE DEF n
<1>2. BtreeP(file, fault, x, B, M)
  BY <1>1 DEF BtreeP, n
<1>. QED BY <1>2 DEF Runs, Progress, Clean, SoundP

LEMMA NewSym ==
    ASSUME NEW x, x.fn = "sym", x.pc = "enter", x.i = 1, Clean(x), NEW B, x.names = B,
           ~ FileDamaged(file, fault) => x.at \in Reached(file) /\ Apart(B, OwnNames(file, x.at)), NEW M
    PROVE  Runs(file, fault, x, B, M)
BY DEF Runs, Progress, Clean, SymP, SoundP

LEMMA NewBtree2 ==
    ASSUME NEW x, x.fn = "btree2", x.pc = "enter", x.i = 1, Clean(x),
           x.mode \in {"chunks", "links", "attrs"}, x.at \in Indexes(file, x.mode),
           ~ FileDamaged(file, fault) => x.at \in Reached(file), NEW B, NEW M
    PROVE  Runs(file, fault, x, B, M)
BY DEF Runs, Progress, Clean, Btree2P, SoundP

-----------------------------------------------------------------------------
(* decode_validate_messages                                                *)
LEMMA MesgHeaps ==
    ASSUME NEW F, NEW m, IsMesg(F, m)
    PROVE  /\ m.kind \in {"edf", "group"} => m.heap \in Of(F, "heap")
           /\ m.kind \in {"linfo", "ainfo"} =>
                \/ m.fheap \in Of(F, "heap")
                \/ m.fheap = Undef /\ m.corder = Undef /\ m.byname = Undef
<1>1. PICK x \in Messages(F), a \in Addr : m = ReadFrom(x, a)
  BY DEF IsMesg
<1>2. "kind" \in DOMAIN x /\ "chunk" \notin DOMAIN x
  BY DEF Messages, Infos
<1>3. \A k \in DOMAIN x : m[k] = x[k]
  BY <1>1, <1>2 DEF ReadFrom
<1>4. m.kind = x.kind
  BY <1>2, <1>3
<1>5. CASE x.kind \in {"edf", "group"}
  BY <1>3, <1>4, <1>5 DEF Messages, Infos
<1>6. CASE x.kind \in {"linfo", "ainfo"}
  BY <1>3, <1>4, <1>6 DEF Messages, Infos
<1>. QED BY <1>4, <1>5, <1>6

(* The message at hand.                                                    *)
AtHand ==
    /\ Top.i \in 1 .. Len(Top.mesg) /\ IsMesg(file, Mesg)
    /\ TreatedBefore(file, fault, Top.mesg, Top.i, MetNow)
    /\ ~ FileDamaged(file, fault) =>
          /\ Mesg.kind # "nil" => fault[Mesg.chunk] # "message"
          /\ Mesg.kind # "unknown"
          /\ Mesg.kind = "edf" => ~ (Mesg.bad > 0)
          /\ MesgTargets(Mesg) \subseteq Reached(file)

LEMMA MesgAtHand ==
    ASSUME Walking, Top.fn = "messages", Top.i <= Len(Top.mesg) PROVE AtHand
<1>1. /\ Progress(file, fault, Top, GivenNow, MetNow) /\ Typed(file, Top) /\ file \in Files
  BY TopRuns
<1>2. Mesgs(file, Top.mesg) /\ Top.i \in Nat \ {0}
  BY <1>1 DEF Typed
<1>3. Len(Top.mesg) \in Nat
  BY <1>2, ListType DEF Mesgs
<1>4. Top.i \in 1 .. Len(Top.mesg)
  BY <1>2, <1>3
<1>5. IsMesg(file, Mesg)
  BY <1>2, <1>4 DEF Mesgs, Mesg
<1>6. TreatedBefore(file, fault, Top.mesg, Top.i, MetNow)
  BY <1>1 DEF Progress, MessagesP
<1>7. ASSUME ~ FileDamaged(file, fault) PROVE From(file, Reached(file) \cap Headers(file), Mesg)
  BY <1>4, <1>7, TopSound DEF SoundP, Mesg
<1>. QED BY <1>1, <1>4, <1>5, <1>6, <1>7, SoundMesg DEF AtHand

LEMMA MesgDone ==
    ASSUME AtHand, NEW M, MetNow \subseteq M, Treated(file, fault, Mesg, M)
    PROVE  TreatedBefore(file, fault, Top.mesg, Top.i + 1, M)
<1>1. TreatedBefore(file, fault, Top.mesg, Top.i, M)
  BY TreatedBeforeGrows DEF AtHand
<1>. SUFFICES ASSUME NEW j \in 1 .. Len(Top.mesg), j < Top.i + 1
              PROVE  Treated(file, fault, Top.mesg[j], M)
  BY DEF TreatedBefore
<1>2. j < Top.i \/ j = Top.i
  BY DEF AtHand
<1>. QED BY <1>1, <1>2 DEF TreatedBefore, Mesg

LEMMA MessagesGo ==
    ASSUME Walking, Top.fn = "messages", NEW y, y.fn = "messages", y.at = Top.at, y.mesg = Top.mesg,
           Clean(y), NEW M, MessagesP(file, fault, y, M),
           ~ FileDamaged(file, fault) => \A k \in 1 .. Len(y.todo) : y.todo[k] \in Reached(file)
    PROVE  Progress(file, fault, y, GivenNow, M) /\ Runs(file, fault, y, GivenNow, M)
<1>1. ~ FileDamaged(file, fault) => SoundP(file, y, GivenNow)
  BY TopSound DEF SoundP
<1>. QED BY <1>1 DEF Runs, Progress, Clean

LEMMA TopTodo ==
    ASSUME Walking, Top.fn = "messages", ~ FileDamaged(file, fault)
    PROVE  \A k \in 1 .. Len(Top.todo) : Top.todo[k] \in Reached(file)
BY TopSound DEF SoundP

(* The frame that goes on with the next message.                           *)
Passed(y) ==
    /\ y.fn = "messages" /\ y.at = Top.at /\ y.want = Top.want /\ y.mesg = Top.mesg
    /\ y.pc = "enter" /\ y.i = Top.i + 1 /\ y.todo = Top.todo /\ Clean(y)

LEMMA PassedGoes ==
    ASSUME Walking, Top.fn = "messages", AtHand, NEW y, Passed(y),
           NEW M, MetNow \subseteq M, Treated(file, fault, Mesg, M)
    PROVE  /\ Progress(file, fault, y, GivenNow, M) /\ Runs(file, fault, y, GivenNow, M)
           /\ SameCall(Top, y)
<1>1. TreatedBefore(file, fault, Top.mesg, Top.i + 1, M)
  BY MesgDone
<1>2. MessagesP(file, fault, y, M)
  BY <1>1 DEF MessagesP, Passed
<1>3. ~ FileDamaged(file, fault) => \A k \in 1 .. Len(y.todo) : y.todo[k] \in Reached(file)
  BY TopTodo DEF Passed
<1>4. Progress(file, fault, y, GivenNow, M) /\ Runs(file, fault, y, GivenNow, M)
  BY <1>2, <1>3, MessagesGo DEF Passed
<1>. QED BY <1>4 DEF SameCall, Passed

LEMMA NextPassed ==
    ASSUME Walking, Top.fn = "messages"
    PROVE  LET y == NextMesg(Top)
           IN  /\ Fields \subseteq DOMAIN y /\ y.fn = "messages" /\ y.at = Top.at /\ y.want = Top.want
               /\ y.mesg = Top.mesg /\ y.i = Top.i + 1 /\ y.todo = Top.todo /\ Clean(y) /\ y.pc = Top.pc
BY TopRuns DEF NextMesg, Fields, Clean

LEMMA PassesOn ==
    ASSUME Walking, Quiet, Top.fn = "messages", Top.pc = "enter", Top.i <= Len(Top.mesg),
           Replace(NextMesg(Top)), obj_table' = obj_table, Treated(file, fault, Mesg, MetNow)
    PROVE  WalksOn
<1>1. Passed(NextMesg(Top)) /\ AtHand
  BY NextPassed, MesgAtHand DEF Passed
<1>. QED BY <1>1, PassedGoes, GoesOn

(* Below a message: the one it calls is dealt with when it returns.        *)
LEMMA MesgCalls ==
    ASSUME Walking, Quiet, Top.fn = "messages", Top.pc = "enter", Top.i <= Len(Top.mesg),
           obj_table' = obj_table, NEW x, NEW y, Call(x, y),
           y.fn = "messages", y.at = Top.at, y.want = Top.want, y.mesg = Top.mesg,
           y.pc = "enter", y.i = Top.i, y.todo = Top.todo, Clean(y),
           x.fn \in {"header", "btree"},
           x.want => Mesg.kind = "shared" /\ Mesg.header = x.at /\ fault[Mesg.chunk] # "message",
           ~ x.want => Treated(file, fault, Mesg, MetNow \cup {x.at}),
           Runs(file, fault, x, {}, MetNow)
    PROVE  WalksOn
<1>1. AtHand
  BY MesgAtHand
<1>2. MessagesP(file, fault, y, MetNow \cup {x.at})
  <2>1. TreatedBefore(file, fault, Top.mesg, Top.i, MetNow \cup {x.at})
    BY <1>1, TreatedBeforeGrows DEF AtHand
  <2>. QED BY <2>1 DEF MessagesP
<1>3. ~ FileDamaged(file, fault) => \A k \in 1 .. Len(y.todo) : y.todo[k] \in Reached(file)
  BY TopTodo
<1>4. Progress(file, fault, y, GivenNow, MetNow \cup {x.at})
  BY <1>2, <1>3, MessagesGo
<1>5. AtMesg(y) /\ y.mesg[y.i] = Mesg
  BY DEF AtMesg, Mesg
<1>6. Waiting(file, fault, y, x, MetNow \cup {x.at})
  BY <1>5 DEF Waiting
<1>7. Suspended(file, fault, y, GivenNow, x, MetNow)
  BY <1>4, <1>6 DEF Suspended
<1>8. Given(y) = {} /\ SameCall(Top, y)
  BY DEF Given, SameCall
<1>. QED BY <1>7, <1>8, GoesIn

-----------------------------------------------------------------------------
InMesg == Walking /\ Top.fn = "messages" /\ Top.pc = "enter" /\ Top.i <= Len(Top.mesg)

LEMMA InMesgFacts ==
    ASSUME InMesg
    PROVE  /\ AtHand /\ nerrors = 0 /\ estack = 0 /\ file \in Files /\ Typed(file, Top)
           /\ Fields \subseteq DOMAIN Top /\ Clean(Top) /\ IsMesg(file, Mesg)
           /\ Undef \notin Addr
BY MesgAtHand, TopRuns, AddrAssumption DEF InMesg, AtHand, Clean

LEMMA MessageDecodedGoes == ASSUME Walking, MessageDecoded PROVE WalksOn
<1>1. InMesg /\ Replace(NextMesg(Top)) /\ obj_table' = obj_table /\ UNCHANGED errors
      /\ (Mesg.kind \in {"cont", "nil"} \/ (Mesg.kind \in {"data", "datatype"} /\ Decodes(Mesg)))
  BY DEF MessageDecoded, InMessages, Running, InMesg, Kept
<1>2. Quiet
  BY <1>1, InMesgFacts, Unchanged
<1>3. Treated(file, fault, Mesg, MetNow)
  BY <1>1 DEF Treated, Decodes, MesgTargets
<1>. QED BY <1>1, <1>2, <1>3, PassesOn DEF InMesg

LEMMA MessageUnreadNot == ASSUME Walking, Fine, MessageUnread PROVE FALSE
<1>1. InMesg /\ Mesg.kind \notin {"cont", "nil"} /\ (Mesg.kind = "unknown" \/ ~ Decodes(Mesg))
      /\ (Push(1) \/ Push(2))
  BY DEF MessageUnread, InMessages, Running, InMesg
<1>2. ~ Quiet
  BY <1>1, InMesgFacts, NoPush
<1>3. FileDamaged(file, fault)
  BY <1>1, InMesgFacts DEF AtHand, Decodes
<1>. QED BY <1>2, <1>3 DEF Fine

(* The heap of a message is undamaged.                                     *)
LEMMA HeapSound ==
    ASSUME InMesg, Fine, NEW a \in Of(file, "heap"), a \in MesgTargets(Mesg),
           HeapFails(a) => nerrors' = nerrors + 1
    PROVE  ~ HeapFails(a) /\ a \in MetNow
<1>1. nerrors = 0 /\ estack = 0
  BY InMesgFacts
<1>2. ~ HeapFails(a)
  <2>1. CASE Quiet
    BY <1>1, <2>1 DEF Quiet
  <2>2. CASE ~ FileDamaged(file, fault)
    <3>1. a \in Reached(file)
      BY <2>2, InMesgFacts DEF AtHand
    <3>. QED BY <2>2, <3>1, SoundAt DEF Unharmed, HeapFails
  <2>. QED BY <2>1, <2>2 DEF Fine
<1>3. a \in MetNow
  BY <1>2, HeapCovered DEF HeapFails, Unharmed, MetNow
<1>. QED BY <1>2, <1>3

LEMMA HeapGood ==
    ASSUME InMesg, Fine, NEW a \in Of(file, "heap"), HeapFlush(a), a \in MesgTargets(Mesg)
    PROVE  ~ HeapFails(a) /\ Quiet /\ a \in MetNow
<1>1. HeapFails(a) => nerrors' = nerrors + 1
  BY DEF HeapFlush
<1>2. ~ HeapFails(a) /\ a \in MetNow
  BY <1>1, HeapSound
<1>3. UNCHANGED errors
  BY <1>2 DEF HeapFlush
<1>. QED BY <1>2, <1>3, InMesgFacts, Unchanged

LEMMA MessageEdfGoes == ASSUME Walking, Fine, MessageEdf PROVE WalksOn
<1>. DEFINE a == Mesg.heap
            x == [NextMesg(Top) EXCEPT !.ret_other_err = SUCCEED, !.ret_err = @ + Mesg.bad]
<1>1. /\ InMesg /\ Mesg.kind = "edf" /\ Decodes(Mesg) /\ obj_table' = obj_table
      /\ HeapFails(a) => HeapFlush(a)
      /\ ~ HeapFails(a) => Push(Mesg.bad) /\ Replace(x)
  BY DEF MessageEdf, InMessages, Running, InMesg, Kept
<1>2. a \in Of(file, "heap") /\ a # Undef /\ Mesg.bad \in Nat
  BY <1>1, InMesgFacts, MesgHeaps, MesgFields DEF Of
<1>3. MesgTargets(Mesg) = {a}
  BY <1>1, <1>2 DEF MesgTargets
<1>4. ~ HeapFails(a) /\ a \in MetNow
  <2>1. HeapFails(a) => nerrors' = nerrors + 1
    BY <1>1 DEF HeapFlush
  <2>. QED BY <1>1, <1>2, <1>3, <2>1, HeapSound
<1>. HIDE DEF a
<1>5. Mesg.bad = 0
  <2>1. CASE Quiet
    BY <1>1, <1>2, <1>4, <2>1, InMesgFacts, NoPush
  <2>2. CASE ~ FileDamaged(file, fault)
    <3>1. ~ (Mesg.bad > 0)
      BY <1>1, <2>2, InMesgFacts DEF AtHand
    <3>. QED BY <1>2, <3>1
  <2>. QED BY <2>1, <2>2 DEF Fine
<1>6. Quiet
  BY <1>1, <1>2, <1>4, <1>5, InMesgFacts, NoPush
<1>7. Passed(x)
  BY <1>1, <1>5, NextPassed DEF InMesg, Passed, Clean, Fields, SUCCEED
<1>. HIDE DEF x
<1>8. Treated(file, fault, Mesg, MetNow)
  BY <1>1, <1>3, <1>4, <1>5 DEF Treated, Decodes
<1>. QED BY <1>1, <1>4, <1>6, <1>7, <1>8, InMesgFacts, PassedGoes, GoesOn DEF InMesg

LEMMA MessageGroupGoes == ASSUME Walking, Fine, MessageGroup PROVE WalksOn
<1>. DEFINE a == Mesg.heap
            t == Mesg.tree
            x == Frame("btree", t)
<1>1. /\ InMesg /\ Mesg.kind = "group" /\ Decodes(Mesg) /\ HeapFlush(a) /\ obj_table' = obj_table
      /\ ~ HeapFails(a) => Call(x, Top)
  BY DEF MessageGroup, InMessages, Running, InMesg, Kept
<1>2. a \in Of(file, "heap") /\ a # Undef /\ t \in Of(file, "groups") /\ t # Undef
  BY <1>1, InMesgFacts, MesgHeaps, MesgFields DEF Of
<1>3. MesgTargets(Mesg) = {a, t}
  BY <1>1, <1>2 DEF MesgTargets
<1>4. ~ HeapFails(a) /\ Quiet /\ a \in MetNow
  BY <1>1, <1>2, <1>3, HeapGood
<1>5. ~ FileDamaged(file, fault) => t \in Reached(file)
  BY <1>1, <1>3, InMesgFacts DEF AtHand
<1>. HIDE DEF a, t
<1>9. /\ x.fn = "btree" /\ x.at = t /\ ~ x.want /\ x.pc = "enter" /\ x.i = 1 /\ Clean(x) /\ x.names = {}
      /\ Apart({}, NamesUnder(file, x.at))
  BY NewCall DEF Apart
<1>. HIDE DEF x
<1>6. Runs(file, fault, x, {}, MetNow)
  BY <1>5, <1>9, NewBtree
<1>7. Treated(file, fault, Mesg, MetNow \cup {x.at})
  BY <1>1, <1>3, <1>4, <1>9 DEF Treated, Decodes
<1>8. Clean(Top)
  BY <1>1, InMesgFacts
<1>. QED BY <1>1, <1>4, <1>6, <1>7, <1>8, <1>9, MesgCalls DEF InMesg

LEMMA MessageLayoutGoes == ASSUME Walking, MessageLayout PROVE WalksOn
<1>. DEFINE t == Mesg.tree
            x == Frame("btree", t)
            z == [Frame("btree2", t) EXCEPT !.mode = "chunks"]
<1>1. /\ InMesg /\ Mesg.kind = "layout" /\ Decodes(Mesg) /\ obj_table' = obj_table
      /\ UNCHANGED errors /\ Clean(Top)
      /\ t = Undef => Replace(NextMesg(Top))
      /\ t # Undef /\ Mesg.index = 1 => Call(x, Top)
      /\ t # Undef /\ Mesg.index # 1 => Call(z, NextMesg(Top))
  BY InMesgFacts DEF MessageLayout, InMessages, Running, InMesg, Kept
<1>2. Quiet
  BY <1>1, InMesgFacts, Unchanged
<1>3. MesgTargets(Mesg) = {t} \ {Undef}
  BY <1>1 DEF MesgTargets
<1>4. t # Undef /\ ~ FileDamaged(file, fault) => t \in Reached(file)
  BY <1>1, <1>3, InMesgFacts DEF AtHand
<1>5. Mesg.index # 1 /\ t # Undef => t \in Indexes(file, "chunks")
  BY <1>1, InMesgFacts, MesgFields
<1>6. \A M : MesgTargets(Mesg) \subseteq M => Treated(file, fault, Mesg, M)
  BY <1>1 DEF Treated, Decodes
<1>. HIDE DEF t
<1>7. CASE t = Undef
  BY <1>1, <1>2, <1>3, <1>6, <1>7, PassesOn DEF InMesg
<1>8. CASE t # Undef /\ Mesg.index = 1
  <2>1. /\ x.fn = "btree" /\ x.at = t /\ ~ x.want /\ x.pc = "enter" /\ x.i = 1 /\ Clean(x) /\ x.names = {}
        /\ Apart({}, NamesUnder(file, x.at))
    BY NewCall DEF Apart
  <2>. HIDE DEF x
  <2>3. Runs(file, fault, x, {}, MetNow)
    BY <1>4, <1>8, <2>1, NewBtree
  <2>2. Treated(file, fault, Mesg, MetNow \cup {x.at})
    BY <1>3, <1>6, <2>1
  <2>. QED BY <1>1, <1>2, <1>8, <2>1, <2>2, <2>3, MesgCalls DEF InMesg
<1>9. CASE t # Undef /\ Mesg.index # 1
  <2>1. /\ z.fn = "btree2" /\ z.at = t /\ z.pc = "enter" /\ z.i = 1 /\ Clean(z) /\ ~ z.want
        /\ z.mode = "chunks"
    BY NewCall DEF Fields, Clean
  <2>. DEFINE y == NextMesg(Top)
  <2>. HIDE DEF z
  <2>2. Runs(file, fault, z, {}, MetNow)
    BY <1>4, <1>5, <1>9, <2>1, NewBtree2
  <2>3. Passed(y) /\ AtHand
    BY <1>1, InMesgFacts, NextPassed DEF Passed, InMesg
  <2>4. Treated(file, fault, Mesg, MetNow \cup {z.at})
    BY <1>3, <1>6, <2>1
  <2>5. Call(z, y)
    BY <1>1, <1>9
  <2>. HIDE DEF y
  <2>6. Progress(file, fault, y, GivenNow, MetNow \cup {z.at}) /\ SameCall(Top, y)
    BY <1>1, <2>3, <2>4, PassedGoes DEF InMesg
  <2>7. Waiting(file, fault, y, z, MetNow \cup {z.at}) /\ Given(y) = {}
    BY <2>1, <2>3 DEF Waiting, Given, Passed
  <2>8. Suspended(file, fault, y, GivenNow, z, MetNow)
    BY <2>6, <2>7 DEF Suspended
  <2>. QED BY <1>1, <1>2, <2>2, <2>5, <2>6, <2>7, <2>8, GoesIn
<1>. QED BY <1>7, <1>8, <1>9

LEMMA MessageSharedGoes == ASSUME Walking, MessageShared PROVE WalksOn
<1>. DEFINE h == Mesg.header
            x == [Frame("header", h) EXCEPT !.want = TRUE]
<1>1. /\ InMesg /\ Mesg.kind = "shared" /\ Decodes(Mesg) /\ obj_table' = obj_table
      /\ UNCHANGED errors /\ Clean(Top) /\ Call(x, Top)
  BY InMesgFacts DEF MessageShared, InMessages, Running, InMesg, Kept
<1>2. Quiet
  BY <1>1, InMesgFacts, Unchanged
<1>3. h \in MesgTargets(Mesg)
  <2>1. h # Undef
    BY <1>1, InMesgFacts, MesgFields DEF Headers, Of
  <2>. QED BY <1>1, <2>1 DEF MesgTargets
<1>4. ~ FileDamaged(file, fault) => h \in Reached(file)
  BY <1>1, <1>3, InMesgFacts DEF AtHand
<1>5. x.fn = "header" /\ x.at = h /\ x.pc = "enter" /\ x.i = 1 /\ x.mesg = << >> /\ x.chunk = h
      /\ Clean(x) /\ x.want = TRUE
  BY NewCall DEF Fields, Clean
<1>. HIDE DEF x
<1>6. Runs(file, fault, x, {}, MetNow)
  BY <1>4, <1>5, NewHeader
<1>. QED BY <1>1, <1>2, <1>5, <1>6, MesgCalls DEF InMesg, Decodes

LEMMA MessageLinkGoes == ASSUME Walking, MessageLink PROVE WalksOn
<1>. DEFINE h == Mesg.header
            x == Frame("header", h)
            y == [Top EXCEPT !.curr_obj = current_obj]
<1>1. /\ InMesg /\ Mesg.kind = "link" /\ Decodes(Mesg) /\ obj_table' = obj_table
      /\ UNCHANGED errors /\ Clean(Top) /\ Fields \subseteq DOMAIN Top
      /\ h # Undef => Call(x, y)
      /\ h = Undef => Replace(NextMesg(Top))
  BY InMesgFacts DEF MessageLink, FollowLink, InMessages, Running, InMesg, Kept
<1>2. Quiet
  BY <1>1, InMesgFacts, Unchanged
<1>3. MesgTargets(Mesg) = {h} \ {Undef}
  BY <1>1 DEF MesgTargets
<1>4. h # Undef /\ ~ FileDamaged(file, fault) => h \in Reached(file)
  BY <1>1, <1>3, InMesgFacts DEF AtHand
<1>5. \A M : MesgTargets(Mesg) \subseteq M => Treated(file, fault, Mesg, M)
  BY <1>1 DEF Treated, Decodes
<1>. HIDE DEF h
<1>6. CASE h = Undef
  BY <1>1, <1>2, <1>3, <1>5, <1>6, PassesOn DEF InMesg
<1>7. CASE h # Undef
  <2>1. x.fn = "header" /\ x.at = h /\ ~ x.want /\ Runs(file, fault, x, {}, MetNow)
    BY <1>4, <1>7, NewCall, NewHeader
  <2>2. /\ y.fn = "messages" /\ y.at = Top.at /\ y.want = Top.want /\ y.mesg = Top.mesg
        /\ y.pc = "enter" /\ y.i = Top.i /\ y.todo = Top.todo /\ Clean(y)
    BY <1>1 DEF Fields, Clean, InMesg
  <2>. HIDE DEF x, y
  <2>3. Treated(file, fault, Mesg, MetNow \cup {x.at})
    BY <1>3, <1>5, <2>1
  <2>. QED BY <1>1, <1>2, <1>7, <2>1, <2>2, <2>3, MesgCalls DEF InMesg
<1>. QED BY <1>6, <1>7

LEMMA MessagesDoneGoes == ASSUME Walking, Fine, MessagesDone PROVE WalksOn
<1>1. Top.fn = "messages" /\ Top.pc = "enter" /\ Top.i > Len(Top.mesg) /\ Return(SUCCEED, 0)
  BY ResultIsGood DEF MessagesDone, Running
<1>2. Progress(file, fault, Top, GivenNow, MetNow) /\ Typed(file, Top)
  BY TopRuns
<1>3. Len(Top.mesg) \in Nat /\ Top.i \in Nat /\ ~ Top.want
  BY <1>1, <1>2, ListType DEF Typed, Mesgs
<1>4. TreatedBefore(file, fault, Top.mesg, Top.i, MetNow)
  BY <1>1, <1>2 DEF Progress, MessagesP
<1>5. TreatedBefore(file, fault, Top.mesg, Len(Top.mesg) + 1, MetNow)
  <2>1. \A j \in 1 .. Len(Top.mesg) : j < Top.i
    BY <1>1, <1>3
  <2>. QED BY <1>4, <2>1 DEF TreatedBefore
<1>6. Delivered(file, fault, Top, GivenNow, MetNow)
  BY <1>1, <1>5 DEF Delivered
<1>. QED BY <1>1, <1>3, <1>6, GoesOut DEF OpenHeader

-----------------------------------------------------------------------------
(* The trees of an information message: those that are defined.            *)
Lists(t, S) == IsList(t) /\ S = {t[k] : k \in 1 .. Len(t)}

LEMMA BothDefined ==
    ASSUME NEW a, NEW b PROVE Lists(Defined(a) \o Defined(b), {a, b} \ {Undef})
<1>. DEFINE t == Defined(a) \o Defined(b)
<1>1. \A c : IsList(Defined(c))
  BY Single, EmptyList DEF Defined
<1>2. \A c : (c = Undef => Len(Defined(c)) = 0) /\ (c # Undef => Len(Defined(c)) = 1 /\ Defined(c)[1] = c)
  BY Single, EmptyList DEF Defined
<1>3. PICK u, v : u = Defined(a) /\ v = Defined(b)
  OBVIOUS
<1>4. /\ IsList(u \o v) /\ Len(u \o v) = Len(u) + Len(v) /\ Len(u) \in Nat /\ Len(v) \in Nat
      /\ \A j \in 1 .. Len(u \o v) :
            \/ j \in 1 .. Len(u) /\ (u \o v)[j] = u[j]
            \/ j - Len(u) \in 1 .. Len(v) /\ (u \o v)[j] = v[j - Len(u)]
  <2>1. IsList(u) /\ IsList(v)
    BY <1>1, <1>3
  <2>2. Len(u) \in Nat /\ Len(v) \in Nat
    BY ONLY <2>1, ListType
  <2>3. /\ IsList(u \o v) /\ Len(u \o v) = Len(u) + Len(v)
        /\ \A j \in 1 .. Len(u \o v) :
              \/ j \in 1 .. Len(u) /\ (u \o v)[j] = u[j]
              \/ j - Len(u) \in 1 .. Len(v) /\ (u \o v)[j] = v[j - Len(u)]
    BY ONLY <2>1, <2>2, Joined
  <2>. QED BY <2>2, <2>3, Zenon
<1>5. t = u \o v
  BY <1>3
<1>. HIDE DEF t
<1>6. ASSUME NEW k \in 1 .. Len(t) PROVE t[k] \in {a, b} \ {Undef}
  <2>1. CASE k \in 1 .. Len(u) /\ t[k] = u[k]
    BY <1>2, <1>3, <2>1
  <2>2. CASE k - Len(u) \in 1 .. Len(v) /\ t[k] = v[k - Len(u)]
    <3>1. b # Undef /\ k - Len(u) = 1
      BY <1>2, <1>3, <1>4, <2>2
    <3>. QED BY <1>2, <1>3, <2>2, <3>1
  <2>. QED BY <1>4, <1>5, <2>1, <2>2
<1>7. ASSUME NEW c \in {a, b} \ {Undef} PROVE \E k \in 1 .. Len(t) : t[k] = c
  <2>1. CASE a = c
    <3>1. Len(u) = 1 /\ u[1] = c
      BY <1>2, <1>3, <2>1
    <3>2. 1 \in 1 .. Len(t) /\ ~ (1 - Len(u) \in 1 .. Len(v))
      BY <1>4, <1>5, <3>1
    <3>. QED BY <1>4, <1>5, <3>1, <3>2
  <2>2. CASE b = c
    <3>1. Len(v) = 1 /\ v[1] = c
      BY <1>2, <1>3, <2>2
    <3>2. PICK k \in 1 .. Len(t) : k = Len(u) + 1
      BY <1>4, <1>5, <3>1
    <3>3. k \notin 1 .. Len(u) /\ k - Len(u) = 1
      BY <1>4, <3>2
    <3>. QED BY <1>4, <1>5, <3>1, <3>3
  <2>. QED BY <2>1, <2>2
<1>8. PICK S, T : S = {a, b} \ {Undef} /\ T = {t[k] : k \in 1 .. Len(t)}
  OBVIOUS
<1>9. S = T
  <2>1. ASSUME NEW c \in S PROVE c \in T
    <3>1. PICK k \in 1 .. Len(t) : t[k] = c
      BY <1>7, <1>8
    <3>. QED BY <1>8, <3>1
  <2>2. ASSUME NEW c \in T PROVE c \in S
    <3>1. PICK k \in 1 .. Len(t) : c = t[k]
      BY <1>8
    <3>. QED BY <1>6, <1>8, <3>1
  <2>. QED BY <2>1, <2>2
<1>10. IsList(t)
  BY <1>4, <1>5
<1>11. Lists(t, {a, b} \ {Undef})
  BY <1>8, <1>9, <1>10 DEF Lists
<1>. QED BY <1>11 DEF t

LEMMA MessageInfoGoes == ASSUME Walking, Fine, MessageInfo PROVE WalksOn
<1>. DEFINE a == Mesg.fheap
            bad == FheapFails(Mesg)
            cb == IF bad \/ a = Undef THEN "none"
                  ELSE IF Mesg.kind = "linfo" THEN "links" ELSE "attrs"
            trees == Defined(Mesg.corder) \o Defined(Mesg.byname)
            both == {Mesg.corder, Mesg.byname} \ {Undef}
            x == [Top EXCEPT !.pc = "indexes", !.mode = cb, !.todo = trees,
                             !.ret_other_err = @ + IF bad THEN 1 ELSE 0]
<1>1. /\ InMesg /\ Mesg.kind \in {"linfo", "ainfo"} /\ Decodes(Mesg) /\ Replace(x)
      /\ bad => HeapFlush(a)
      /\ ~ bad => UNCHANGED errors
      /\ obj_table' = obj_table
  BY DEF MessageInfo, InMessages, Running, InMesg, Kept
<1>2. \/ a \in Of(file, "heap") /\ a # Undef
      \/ a = Undef /\ both = {}
  BY <1>1, InMesgFacts, MesgHeaps DEF Of
<1>3. MesgTargets(Mesg) = ({a} \cup both) \ {Undef} /\ both \subseteq MesgTargets(Mesg)
  BY <1>1 DEF MesgTargets
<1>4. ~ bad /\ Quiet /\ a \in MetNow \cup {Undef}
  <2>1. CASE a = Undef
    BY <1>1, <2>1, InMesgFacts, Unchanged DEF FheapFails
  <2>2. CASE a # Undef
    <3>1. bad <=> HeapFails(a)
      BY <2>2 DEF FheapFails
    <3>2. HeapFlush(a)
      BY <1>1, <3>1 DEF HeapFlush
    <3>3. a \in MesgTargets(Mesg) /\ a \in Of(file, "heap")
      BY <1>2, <1>3, <2>2
    <3>. QED BY <1>1, <3>1, <3>2, <3>3, HeapGood
  <2>. QED BY <2>1, <2>2
<1>14. Lists(trees, both)
  BY BothDefined
<1>6. a # Undef => cb = (IF Mesg.kind = "linfo" THEN "links" ELSE "attrs")
  BY <1>4
<1>7. both \subseteq Indexes(file, cb)
  <2>1. both \subseteq Indexes(file, IF Mesg.kind = "linfo" THEN "links" ELSE "attrs")
    BY <1>1, InMesgFacts, MesgFields
  <2>. QED BY <1>2, <1>6, <2>1
<1>15. both # {} => cb = (IF Mesg.kind = "linfo" THEN "links" ELSE "attrs")
  BY <1>2, <1>6
<1>8. ~ FileDamaged(file, fault) => both \subseteq Reached(file)
  BY <1>1, <1>3, InMesgFacts DEF AtHand
<1>. HIDE DEF a, trees, cb, bad
<1>5. IsList(trees) /\ both = {trees[k] : k \in 1 .. Len(trees)}
  BY <1>14 DEF Lists
<1>9. /\ x.fn = "messages" /\ x.at = Top.at /\ x.mesg = Top.mesg /\ x.want = Top.want
      /\ x.pc = "indexes" /\ x.i = Top.i /\ x.mode = cb /\ x.todo = trees /\ Clean(x)
  BY <1>1, <1>4, InMesgFacts DEF InMesg, Clean, Fields
<1>. HIDE DEF x, both
<1>10. Indexing(file, fault, x, MetNow)
  <2>1. x.mesg[x.i] = Mesg /\ x.i <= Len(x.mesg)
    BY <1>1, <1>9 DEF InMesg, Mesg
  <2>2. {Mesg.corder, Mesg.byname} \ {Undef} \subseteq {x.todo[k] : k \in 1 .. Len(x.todo)}
    BY <1>5, <1>9 DEF both
  <2>3. \A k \in 1 .. Len(x.todo) : x.todo[k] \in Indexes(file, x.mode)
    BY <1>5, <1>7, <1>9
  <2>4. /\ Mesg.kind \in {"linfo", "ainfo"} /\ fault[Mesg.chunk] # "message"
        /\ Mesg.fheap \in MetNow \cup {Undef}
    BY <1>1, <1>4 DEF Decodes, a
  <2>5. x.todo # << >> => both # {}
    <3>. SUFFICES ASSUME trees # << >> PROVE both # {}
      BY <1>9
    <3>1. PICK S : trees \in Seq(S)
      BY <1>5 DEF IsList
    <3>2. 1 \in 1 .. Len(trees)
      BY <3>1
    <3>. QED BY <1>5, <3>2
  <2>6. x.todo # << >> => x.mode = IF Mesg.kind = "linfo" THEN "links" ELSE "attrs"
    BY <1>9, <1>15, <2>5
  <2>. QED BY <2>1, <2>2, <2>3, <2>4, <2>6 DEF Indexing
<1>11. MessagesP(file, fault, x, MetNow)
  BY <1>1, <1>9, <1>10, InMesgFacts DEF MessagesP, AtHand
<1>12. ~ FileDamaged(file, fault) => \A k \in 1 .. Len(x.todo) : x.todo[k] \in Reached(file)
  BY <1>5, <1>8, <1>9
<1>13. Runs(file, fault, x, GivenNow, MetNow)
  BY <1>1, <1>9, <1>11, <1>12, MessagesGo DEF InMesg
<1>. QED BY <1>1, <1>4, <1>9, <1>13, GoesOn DEF InMesg, SameCall

LEMMA MessageIndexGoes == ASSUME Walking, MessageIndex PROVE WalksOn
<1>1. /\ Top.fn = "messages" /\ Top.pc = "indexes" /\ obj_table' = obj_table /\ UNCHANGED errors
  BY DEF MessageIndex, Running, Kept
<1>2. /\ Progress(file, fault, Top, GivenNow, MetNow) /\ Typed(file, Top) /\ Fields \subseteq DOMAIN Top
      /\ nerrors = 0 /\ estack = 0 /\ Clean(Top)
  BY TopRuns DEF Clean
<1>3. Quiet
  BY <1>1, <1>2, Unchanged
<1>4. TreatedBefore(file, fault, Top.mesg, Top.i, MetNow) /\ Indexing(file, fault, Top, MetNow)
  BY <1>1, <1>2 DEF Progress, MessagesP
<1>5. /\ Mesg.kind \in {"linfo", "ainfo"} /\ fault[Mesg.chunk] # "message"
      /\ Mesg.fheap \in MetNow \cup {Undef}
      /\ Top.i <= Len(Top.mesg)
      /\ Top.todo # << >> => Top.mode = IF Mesg.kind = "linfo" THEN "links" ELSE "attrs"
      /\ {Mesg.corder, Mesg.byname} \ {Undef} \subseteq MetNow \cup {Top.todo[k] : k \in 1 .. Len(Top.todo)}
      /\ \A k \in 1 .. Len(Top.todo) : Top.todo[k] \in Indexes(file, Top.mode)
  BY <1>4 DEF Indexing, Mesg
<1>6. AtHand /\ IsList(Top.todo)
  BY <1>1, <1>2, <1>5, MesgAtHand DEF Typed, Trees
<1>7. CASE Top.todo = << >>
  <2>. DEFINE x == [NextMesg(Top) EXCEPT !.pc = "enter"]
  <2>1. Replace(x)
    BY <1>7 DEF MessageIndex
  <2>2. Passed(x)
    BY <1>1, NextPassed DEF Passed, Fields, Clean
  <2>. HIDE DEF x
  <2>3. Len(Top.todo) = 0 /\ {Mesg.corder, Mesg.byname} \ {Undef} \subseteq MetNow
    BY <1>5, <1>7, EmptyList
  <2>4. MesgTargets(Mesg) \subseteq MetNow
    BY <1>5, <2>3 DEF MesgTargets
  <2>5. Treated(file, fault, Mesg, MetNow)
    BY <1>5, <2>4 DEF Treated
  <2>. QED BY <1>1, <1>3, <1>6, <2>1, <2>2, <2>5, PassedGoes, GoesOn
<1>8. CASE Top.todo # << >>
  <2>. DEFINE t == Head(Top.todo)
              rest == Tail(Top.todo)
              x == [Frame("btree2", t) EXCEPT !.mode = Top.mode]
              y == [Top EXCEPT !.todo = Tail(@)]
  <2>1. Call(x, y)
    BY <1>8 DEF MessageIndex
  <2>2. /\ x.fn = "btree2" /\ x.at = t /\ x.pc = "enter" /\ x.i = 1 /\ Clean(x) /\ ~ x.want
        /\ x.mode = Top.mode
    BY NewCall DEF Fields, Clean
  <2>3. /\ y.fn = "messages" /\ y.at = Top.at /\ y.want = Top.want /\ y.mesg = Top.mesg
        /\ y.pc = "indexes" /\ y.i = Top.i /\ y.mode = Top.mode /\ y.todo = rest /\ Clean(y)
    BY <1>1, <1>2 DEF Fields, Clean
  <2>4. /\ 1 \in 1 .. Len(Top.todo) /\ t = Top.todo[1] /\ Len(rest) = Len(Top.todo) - 1
        /\ Len(Top.todo) \in Nat
        /\ \A k \in 1 .. Len(rest) : rest[k] = Top.todo[k + 1]
    <3>1. PICK S : Top.todo \in Seq(S)
      BY <1>6 DEF IsList
    <3>. QED BY <1>8, <3>1
  <2>. HIDE DEF t, rest, x, y
  <2>5. \A k \in 1 .. Len(rest) : k + 1 \in 1 .. Len(Top.todo)
    BY <2>4
  <2>6. \A k \in 1 .. Len(Top.todo) : Top.todo[k] = t \/ \E j \in 1 .. Len(rest) : rest[j] = Top.todo[k]
    <3>. SUFFICES ASSUME NEW k \in 1 .. Len(Top.todo), k # 1
                  PROVE  \E j \in 1 .. Len(rest) : rest[j] = Top.todo[k]
      BY <2>4
    <3>1. PICK j \in 1 .. Len(rest) : j = k - 1
      BY <2>4
    <3>2. j + 1 = k
      BY <2>4, <3>1
    <3>. QED BY <2>4, <3>2
  <2>. DEFINE M == MetNow \cup {x.at}
  <2>7. Indexing(file, fault, y, M)
    <3>1. y.mesg[y.i] = Mesg /\ y.i <= Len(y.mesg)
      BY <1>5, <2>3 DEF Mesg
    <3>2. {Mesg.corder, Mesg.byname} \ {Undef} \subseteq M \cup {y.todo[k] : k \in 1 .. Len(y.todo)}
      BY <1>5, <2>2, <2>3, <2>6
    <3>3. \A k \in 1 .. Len(y.todo) : y.todo[k] \in Indexes(file, y.mode)
      BY <1>5, <2>3, <2>4, <2>5
    <3>4. Mesg.fheap \in M \cup {Undef}
      BY <1>5
    <3>5. y.todo # << >> => y.mode = IF Mesg.kind = "linfo" THEN "links" ELSE "attrs"
      BY <1>5, <1>8, <2>3
    <3>. HIDE DEF M
    <3>. QED BY <1>5, <3>1, <3>2, <3>3, <3>4, <3>5 DEF Indexing
  <2>8. TreatedBefore(file, fault, Top.mesg, Top.i, M)
    BY <1>4, TreatedBeforeGrows
  <2>9. MessagesP(file, fault, y, M)
    BY <2>3, <2>7, <2>8 DEF MessagesP
  <2>10. ~ FileDamaged(file, fault) =>
            t \in Reached(file) /\ \A k \in 1 .. Len(y.todo) : y.todo[k] \in Reached(file)
    BY <1>1, <2>3, <2>4, <2>5, TopTodo
  <2>. HIDE DEF M
  <2>11. Progress(file, fault, y, GivenNow, M)
    BY <1>1, <2>3, <2>9, <2>10, MessagesGo
  <2>12. Waiting(file, fault, y, x, M) /\ Given(y) = {} /\ SameCall(Top, y)
    BY <1>1, <2>2, <2>3 DEF Waiting, Given, SameCall
  <2>13. Suspended(file, fault, y, GivenNow, x, MetNow)
    BY <2>11, <2>12 DEF Suspended, M
  <2>14. Runs(file, fault, x, {}, MetNow)
    BY <1>5, <1>8, <2>2, <2>4, <2>10, NewBtree2
  <2>. QED BY <1>1, <1>3, <2>1, <2>12, <2>13, <2>14, GoesIn
<1>. QED BY <1>7, <1>8

LEMMA MessageGoes == ASSUME Walking, Fine, MessageStep PROVE WalksOn
BY MessageDecodedGoes, MessageUnreadNot, MessageEdfGoes, MessageLayoutGoes, MessageGroupGoes,
   MessageInfoGoes, MessageIndexGoes, MessageSharedGoes, MessageLinkGoes, MessagesDoneGoes
   DEF MessageStep

LEMMA HeaderGoes == ASSUME Walking, Fine, HeaderStep, ~ starved' PROVE WalksOn
<1>1. ~ HeaderFull
  BY DEF HeaderFull
<1>. QED BY <1>1, HeaderSeenGoes, HeaderPrefixGoes, HeaderChunkGoes, HeaderLogGoes, HeaderDoneGoes,
   HeaderReturnGoes DEF HeaderStep

-----------------------------------------------------------------------------
LEMMA Undamaged ==
    ASSUME Walking, Fine, fault[Top.at] \in {"soft", "stop"} => Push(1)
    PROVE  Unharmed(fault, Top.at)
<1>1. CASE Quiet
  BY <1>1, TopRuns, NoPush DEF Unharmed
<1>2. CASE ~ FileDamaged(file, fault)
  BY <1>2, TopSound
<1>. QED BY <1>1, <1>2 DEF Fine

(* What stays when a function is called.                                   *)
LEMMA StillProgress ==
    ASSUME Walking, NEW x PROVE Progress(file, fault, Top, GivenNow, MetNow \cup {x.at})
BY TopRuns, ProgressGrows

-----------------------------------------------------------------------------
(* check_btree                                                             *)
LEMMA BtreeTop ==
    ASSUME Walking, Top.fn = "btree"
    PROVE  LET b == Block(Top.at)
               items == b.items
           IN  /\ BtreeP(file, fault, Top, GivenNow, MetNow) /\ Clean(Top) /\ ~ Top.want
               /\ ~ FileDamaged(file, fault) => SoundP(file, Top, GivenNow)
               /\ Top.at \in Addr /\ Top.i \in Nat /\ Top.i >= 1 /\ b.kind \in {"groups", "raw"}
               /\ b = file.block[Top.at] /\ b.level \in Nat /\ IsList(items) /\ Len(items) \in Nat
               /\ \A j \in 1 .. Len(items) : items[j] \in Range(items)
               /\ Range(items) \subseteq Items(file, b)
               /\ Inner(file, Top.at) =>
                     /\ TreeTargets(file, Top.at) = Range(items)
                     /\ Range(items) \subseteq Targets(file, Top.at)
               /\ file \in Files /\ Fields \subseteq DOMAIN Top /\ Typed(file, Top)
<1>1. /\ Progress(file, fault, Top, GivenNow, MetNow) /\ Typed(file, Top) /\ file \in Files
      /\ Fields \subseteq DOMAIN Top
  BY TopRuns
<1>2. /\ BtreeP(file, fault, Top, GivenNow, MetNow) /\ Clean(Top)
      /\ ~ FileDamaged(file, fault) => SoundP(file, Top, GivenNow)
  BY <1>1 DEF Progress, Clean
<1>3. Top.at \in Addr /\ Top.i \in Nat /\ Top.i >= 1 /\ file.block[Top.at].kind \in {"groups", "raw"}
      /\ ~ Top.want
  BY <1>1 DEF Typed, Of
<1>4. /\ file.block[Top.at].level \in Nat
      /\ IsList(file.block[Top.at].items) /\ Len(file.block[Top.at].items) \in Nat
      /\ \A j \in 1 .. Len(file.block[Top.at].items) :
            file.block[Top.at].items[j] \in Range(file.block[Top.at].items)
      /\ Range(file.block[Top.at].items) \subseteq Items(file, file.block[Top.at])
  BY <1>1, <1>3, FileItems, ListType, FilesAssumption
<1>5. Inner(file, Top.at) =>
         /\ TreeTargets(file, Top.at) = Range(file.block[Top.at].items)
         /\ Range(file.block[Top.at].items) \subseteq Targets(file, Top.at)
  BY <1>3 DEF Inner, TreeTargets, Targets
<1>. QED BY <1>1, <1>2, <1>3, <1>4, <1>5 DEF Block

LEMMA BtreeNodeGoes == ASSUME Walking, Fine, BtreeNode PROVE WalksOn
<1>. DEFINE b == Block(Top.at)
            soft == IF fault[Top.at] = "soft" THEN 1 ELSE 0
            more == IF Exceeds(b, BtreeK(file.super, b.kind)) THEN 1 ELSE 0
            errs == soft + more
            x == [Top EXCEPT !.ret_err = errs, !.pc = "entries"]
<1>1. /\ Top.fn = "btree" /\ Top.pc = "enter" /\ obj_table' = obj_table
      /\ fault[Top.at] = "stop" => Push(1)
      /\ fault[Top.at] # "stop" => Replace(x) /\ Push(errs)
  BY DEF BtreeNode, Running, Kept
<1>9. nerrors = 0 /\ estack = 0 /\ soft \in 0 .. 1 /\ more \in 0 .. 1
  BY TopRuns
<1>10. Exceeds(b, BtreeK(file.super, b.kind)) <=> ~ Within(file, Top.at)
  BY DEF BtreeK, Within, Block, Walking, DefaultK
<1>11. ~ FileDamaged(file, fault) => Unharmed(fault, Top.at) /\ Within(file, Top.at)
  <2>. SUFFICES ASSUME ~ FileDamaged(file, fault) PROVE Unharmed(fault, Top.at) /\ Within(file, Top.at)
    OBVIOUS
  <2>1. Unharmed(fault, Top.at) /\ ~ Damaged(file, fault, Top.at)
    BY TopSound, SoundAt
  <2>2. file.block[Top.at].kind \in {"groups", "raw"}
    BY <1>1, BtreeTop
  <2>. QED BY <2>1, <2>2 DEF Damaged, Within
<1>12. fault[Top.at] # "stop"
  <2>1. CASE Quiet
    BY <1>1, <1>9, <2>1, PushIsLoud
  <2>2. CASE ~ FileDamaged(file, fault)
    BY <1>11, <2>2 DEF Unharmed
  <2>. QED BY <2>1, <2>2 DEF Fine
<1>13. soft = 0 /\ more = 0
  <2>1. CASE Quiet
    <3>. HIDE DEF soft, more
    <3>1. errs \in Nat /\ Push(errs)
      BY <1>1, <1>9, <1>12
    <3>2. errs = 0
      BY <1>9, <2>1, <3>1, NoPush
    <3>. QED BY <1>9, <3>2
  <2>2. CASE ~ FileDamaged(file, fault)
    BY <1>10, <1>11, <2>2 DEF Unharmed
  <2>. QED BY <2>1, <2>2 DEF Fine
<1>2. Unharmed(fault, Top.at) /\ Within(file, Top.at)
  BY <1>10, <1>12, <1>13 DEF Unharmed
<1>. HIDE DEF soft, more
<1>3. Quiet /\ Replace(x)
  <2>1. errs \in Nat /\ errs = 0
    BY <1>13
  <2>. QED BY <1>1, <1>9, <1>12, <2>1, NoPush
<1>4. /\ BtreeP(file, fault, Top, GivenNow, MetNow) /\ Clean(Top) /\ Fields \subseteq DOMAIN Top
      /\ ~ FileDamaged(file, fault) => SoundP(file, Top, GivenNow)
  BY <1>1, BtreeTop
<1>5. /\ x.fn = "btree" /\ x.at = Top.at /\ x.want = Top.want /\ x.pc = "entries" /\ x.i = Top.i
      /\ x.names = Top.names /\ Clean(x)
  BY <1>1, <1>4, <1>13 DEF Fields, Clean
<1>. HIDE DEF x
<1>6. BtreeP(file, fault, x, GivenNow, MetNow)
  BY <1>2, <1>4, <1>5 DEF BtreeP
<1>7. ~ FileDamaged(file, fault) => SoundP(file, x, GivenNow)
  BY <1>1, <1>4, <1>5 DEF SoundP
<1>8. Runs(file, fault, x, GivenNow, MetNow)
  BY <1>5, <1>6, <1>7 DEF Runs, Progress, Clean
<1>. QED BY <1>1, <1>3, <1>5, <1>8, GoesOn DEF SameCall

(* The names under the next child of a sound node are new.                 *)
LEMMA ChildApart ==
    ASSUME Walking, ~ FileDamaged(file, fault), Top.fn = "btree", Inner(file, Top.at),
           Top.i <= Len(Block(Top.at).items)
    PROVE  LET child == Block(Top.at).items[Top.i]
           IN  child \in Reached(file) /\ Apart(Top.names, NamesUnder(file, child))
<1>. DEFINE b == Block(Top.at)
            items == b.items
            child == items[Top.i]
            N(j) == NamesUnder(file, items[j])
<1>1. /\ SoundP(file, Top, GivenNow) /\ Top.at \in Addr /\ b.kind \in {"groups", "raw"}
      /\ Top.i \in Nat /\ Top.i >= 1 /\ file \in Files /\ b = file.block[Top.at] /\ b.level \in Nat
      /\ Len(items) \in Nat /\ IsList(items)
      /\ \A j \in 1 .. Len(items) : items[j] \in Range(items)
      /\ Range(items) \subseteq Items(file, b)
      /\ TreeTargets(file, Top.at) = Range(items) /\ Range(items) \subseteq Targets(file, Top.at)
  BY BtreeTop
<1>2. Top.at \in Reached(file) /\ ~ Damaged(file, fault, Top.at)
  BY TopSound, SoundAt
<1>3. Top.i \in 1 .. Len(items) /\ child \in Range(items)
  BY <1>1
<1>4. child \in Reached(file)
  BY <1>1, <1>2, <1>3, ReachedFacts
<1>5. /\ Apart(GivenNow, NamesUnder(file, Top.at))
      /\ Top.names \subseteq GivenNow \cup UNION {N(j) : j \in {k \in 1 .. Len(items) : k < Top.i}}
  BY <1>1 DEF SoundP
<1>. HIDE DEF b, items
<1>6. NamesUnder(file, child) \subseteq NamesUnder(file, Top.at)
  BY <1>1, <1>3, NamesOfChild
<1>7. ASSUME NEW j \in 1 .. Len(items), j < Top.i PROVE Apart(N(j), NamesUnder(file, child))
  <2>1. CASE b.kind = "groups"
    <3>1. ~ Twins(file, Top.at)
      BY <1>1, <1>2, <2>1 DEF Damaged
    <3>2. j \in DOMAIN items /\ Top.i \in DOMAIN items
      BY <1>1, <1>3, ListType
    <3>3. items = file.block[Top.at].items
      BY <1>1 DEF items
    <3>. QED BY <1>7, <3>1, <3>2, <3>3 DEF Twins, Apart
  <2>2. CASE b.kind = "raw"
    <3>1. b.level > 0
      BY <1>1, <2>2 DEF Inner
    <3>2. child \in Of(file, "raw")
      BY <1>1, <1>3, <2>2, <3>1 DEF Items
    <3>3. NamesUnder(file, child) = {}
      BY <1>1, <3>2, NoNames
    <3>. QED BY <3>3 DEF Apart
  <2>. QED BY <1>1, <2>1, <2>2
<1>8. Apart(Top.names, NamesUnder(file, child))
  <2>. HIDE DEF child
  <2>. QED BY <1>5, <1>6, <1>7 DEF Apart
<1>. QED BY <1>4, <1>8 DEF items, b

LEMMA BtreeCalls ==
    ASSUME Walking, Quiet, Top.fn = "btree", Top.pc = "entries", Inner(file, Top.at),
           Top.i <= Len(Block(Top.at).items), obj_table' = obj_table,
           NEW x, Call(x, Top), x.fn \in {"btree", "sym"}, x.at = Block(Top.at).items[Top.i],
           Runs(file, fault, x, Top.names, MetNow)
    PROVE  WalksOn
<1>1. Waiting(file, fault, Top, x, MetNow \cup {x.at})
  BY DEF Waiting, Block
<1>2. Suspended(file, fault, Top, GivenNow, x, MetNow)
  BY <1>1, StillProgress DEF Suspended
<1>3. Given(Top) = Top.names /\ SameCall(Top, Top)
  BY DEF Given, SameCall
<1>. QED BY <1>2, <1>3, GoesIn

LEMMA BtreeEntryGoes == ASSUME Walking, BtreeEntry PROVE WalksOn
<1>. DEFINE b == Block(Top.at)
            child == b.items[Top.i]
            x == [Frame("btree", child) EXCEPT !.names = Top.names]
            z == [Frame("sym", child) EXCEPT !.names = Top.names]
            y == [Top EXCEPT !.i = @ + 1]
<1>1. /\ Top.fn = "btree" /\ Top.pc = "entries" /\ Top.i <= Len(b.items) /\ obj_table' = obj_table
      /\ UNCHANGED errors
  BY DEF BtreeEntry, Running, Kept
<1>2. /\ BtreeP(file, fault, Top, GivenNow, MetNow) /\ Clean(Top) /\ Fields \subseteq DOMAIN Top
      /\ ~ FileDamaged(file, fault) => SoundP(file, Top, GivenNow)
      /\ Top.at \in Addr /\ b.kind \in {"groups", "raw"} /\ file \in Files
      /\ b = file.block[Top.at] /\ b.level \in Nat /\ Top.i \in Nat /\ Len(b.items) \in Nat
  BY <1>1, BtreeTop
<1>3. Quiet
  BY <1>1, TopRuns, Unchanged
<1>4. ~ FileDamaged(file, fault) /\ Inner(file, Top.at) =>
         child \in Reached(file) /\ Apart(Top.names, NamesUnder(file, child))
  BY <1>1, ChildApart
<1>5. \/ b.level > 0 /\ Call(x, Top)
      \/ b.level = 0 /\ b.kind = "groups" /\ Call(z, Top)
      \/ b.level = 0 /\ b.kind = "raw" /\ Replace(y)
  <2>1. /\ b.level > 0 => Call(x, Top)
        /\ b.level = 0 /\ b.kind = "groups" => Call(z, Top)
        /\ ~ (b.level > 0) /\ ~ (b.level = 0 /\ b.kind = "groups") => Replace(y)
    BY DEF BtreeEntry
  <2>2. b.kind \in {"groups", "raw"} /\ b.level \in Nat
    BY <1>2
  <2>. HIDE DEF b, x, y, z
  <2>3. b.level > 0 \/ b.level = 0
    BY <2>2
  <2>. QED BY <2>1, <2>2, <2>3
<1>6. CASE b.level > 0 /\ Call(x, Top)
  <2>1. Inner(file, Top.at)
    BY <1>2, <1>6 DEF Inner
  <2>2. x.fn = "btree" /\ x.at = child /\ x.pc = "enter" /\ x.i = 1 /\ Clean(x) /\ x.names = Top.names
    BY NewCall DEF Fields, Clean
  <2>. HIDE DEF x, child
  <2>3. Runs(file, fault, x, Top.names, MetNow)
    BY <1>4, <2>1, <2>2, NewBtree
  <2>. QED BY <1>1, <1>3, <1>6, <2>1, <2>2, <2>3, BtreeCalls DEF child
<1>7. CASE b.level = 0 /\ b.kind = "groups" /\ Call(z, Top)
  <2>1. Inner(file, Top.at)
    BY <1>2, <1>7 DEF Inner
  <2>2. z.fn = "sym" /\ z.at = child /\ z.pc = "enter" /\ z.i = 1 /\ Clean(z) /\ z.names = Top.names
    BY NewCall DEF Fields, Clean
  <2>3. child \in Addr
    <3>1. child \in Range(b.items) /\ Range(b.items) \subseteq Items(file, b)
      <4>1. Top.i \in 1 .. Len(b.items) /\ \A j \in 1 .. Len(b.items) : b.items[j] \in Range(b.items)
        BY <1>1, <1>2, BtreeTop
      <4>. QED BY <1>1, <4>1, BtreeTop
    <3>. QED BY <1>7, <3>1 DEF Items, Of
  <2>. HIDE DEF z, child
  <2>4. OwnNames(file, child) \subseteq NamesUnder(file, child)
    BY <1>2, <2>3, NamesOfChild
  <2>5. ~ FileDamaged(file, fault) => child \in Reached(file) /\ Apart(Top.names, OwnNames(file, child))
    BY <1>4, <2>1, <2>4 DEF Apart
  <2>6. Runs(file, fault, z, Top.names, MetNow)
    BY <2>2, <2>5, NewSym
  <2>. QED BY <1>1, <1>3, <1>7, <2>1, <2>2, <2>6, BtreeCalls DEF child
<1>8. CASE b.level = 0 /\ b.kind = "raw" /\ Replace(y)
  <2>1. ~ Inner(file, Top.at)
    BY <1>2, <1>8 DEF Inner
  <2>2. /\ y.fn = "btree" /\ y.at = Top.at /\ y.want = Top.want /\ y.pc = "entries"
        /\ y.names = Top.names /\ Clean(y)
    BY <1>1, <1>2 DEF Fields, Clean
  <2>. HIDE DEF y
  <2>3. BtreeP(file, fault, y, GivenNow, MetNow)
    BY <1>1, <1>2, <2>1, <2>2 DEF BtreeP
  <2>4. ~ FileDamaged(file, fault) => SoundP(file, y, GivenNow)
    BY <1>1, <1>2, <2>1, <2>2 DEF SoundP
  <2>5. Runs(file, fault, y, GivenNow, MetNow)
    BY <2>2, <2>3, <2>4 DEF Runs, Progress, Clean
  <2>. QED BY <1>1, <1>3, <1>8, <2>2, <2>5, GoesOn DEF SameCall
<1>. QED BY <1>5, <1>6, <1>7, <1>8

LEMMA BtreeDoneGoes == ASSUME Walking, Fine, BtreeDone PROVE WalksOn
<1>1. Top.fn = "btree" /\ Return(SUCCEED, 0)
      /\ ((Top.pc = "entries" /\ Top.i > Len(Block(Top.at).items)) \/ Top.pc = "done")
  BY ResultIsGood DEF BtreeDone, Running
<1>2. /\ BtreeP(file, fault, Top, GivenNow, MetNow) /\ Typed(file, Top) /\ file \in Files /\ ~ Top.want
      /\ ~ FileDamaged(file, fault) => SoundP(file, Top, GivenNow)
  BY <1>1, BtreeTop
<1>3. Top.pc = "entries" /\ Top.i > Len(file.block[Top.at].items)
  BY <1>1, <1>2 DEF BtreeP, Block
<1>4. Delivered(file, fault, Top, GivenNow, MetNow)
  BY <1>1, <1>2, <1>3, BtreeDelivered DEF MetNow
<1>. QED BY <1>1, <1>2, <1>4, GoesOut DEF OpenHeader

-----------------------------------------------------------------------------
(* check_sym                                                               *)
LEMMA SymTop ==
    ASSUME Walking, Top.fn = "sym"
    PROVE  LET items == Block(Top.at).items
           IN  /\ SymP(file, fault, Top, GivenNow, MetNow) /\ Clean(Top) /\ ~ Top.want
               /\ ~ FileDamaged(file, fault) => SoundP(file, Top, GivenNow)
               /\ Top.at \in Of(file, "sym") /\ Top.at \in Addr /\ Top.i \in Nat /\ Top.i >= 1
               /\ items = file.block[Top.at].items /\ IsList(items) /\ Len(items) \in Nat
               /\ DOMAIN items = 1 .. Len(items)
               /\ \A j \in 1 .. Len(items) : items[j] \in Range(items)
               /\ \A e \in Range(items) : \E j \in 1 .. Len(items) : items[j] = e
               /\ file.block[Top.at].kind = "sym"
               /\ file \in Files /\ Fields \subseteq DOMAIN Top /\ Typed(file, Top)
               /\ nerrors = 0 /\ estack = 0
<1>1. /\ Progress(file, fault, Top, GivenNow, MetNow) /\ Typed(file, Top) /\ file \in Files
      /\ Fields \subseteq DOMAIN Top /\ nerrors = 0 /\ estack = 0
  BY TopRuns
<1>2. /\ SymP(file, fault, Top, GivenNow, MetNow) /\ Clean(Top)
      /\ ~ FileDamaged(file, fault) => SoundP(file, Top, GivenNow)
  BY <1>1 DEF Progress, Clean
<1>3. /\ Top.at \in Of(file, "sym") /\ Top.at \in Addr /\ Top.i \in Nat /\ Top.i >= 1
      /\ file.block[Top.at].kind = "sym" /\ ~ Top.want
  BY <1>1 DEF Typed, Of
<1>4. /\ IsList(file.block[Top.at].items) /\ Len(file.block[Top.at].items) \in Nat
      /\ DOMAIN file.block[Top.at].items = 1 .. Len(file.block[Top.at].items)
      /\ \A j \in 1 .. Len(file.block[Top.at].items) :
            file.block[Top.at].items[j] \in Range(file.block[Top.at].items)
      /\ \A e \in Range(file.block[Top.at].items) :
            \E j \in 1 .. Len(file.block[Top.at].items) : file.block[Top.at].items[j] = e
  BY <1>1, <1>3, FileItems, ListType
<1>. QED BY <1>1, <1>2, <1>3, <1>4 DEF Block

LEMMA SymNodeGoes == ASSUME Walking, Fine, SymNode PROVE WalksOn
<1>. DEFINE ents == Block(Top.at).items
            B == GivenNow
            E(N) == EntryErrors(ents, N)
            soft == IF fault[Top.at] = "soft" THEN 1 ELSE 0
            over == Len(file.block[Top.at].items) > 2 * file.super.leaf_k
            x(n) == [Top EXCEPT !.ret_err = n, !.pc = "entries", !.names = WithNames(@, ents)]
<1>1. /\ Top.fn = "sym" /\ Top.pc = "enter" /\ obj_table' = obj_table /\ fault[Top.at] # "stop"
      /\ \E n \in NodeErrors(Top.at, Top.names) : Replace(x(n)) /\ Push(n)
  BY DEF SymNode, Running, Kept
<1>8. PICK errs \in NodeErrors(Top.at, Top.names) : Replace(x(errs)) /\ Push(errs)
  BY <1>1
<1>2. /\ SymP(file, fault, Top, B, MetNow) /\ Clean(Top) /\ Fields \subseteq DOMAIN Top
      /\ ~ FileDamaged(file, fault) => SoundP(file, Top, B)
      /\ Top.at \in Of(file, "sym") /\ file \in Files /\ IsList(ents) /\ file.block[Top.at].kind = "sym"
      /\ ents = file.block[Top.at].items /\ DOMAIN ents = 1 .. Len(ents)
      /\ \A j \in 1 .. Len(ents) : ents[j] \in Range(ents)
      /\ \A e \in Range(ents) : \E j \in 1 .. Len(ents) : ents[j] = e
      /\ nerrors = 0 /\ estack = 0
  BY <1>1, SymTop
<1>3. Top.i = 1 /\ B \subseteq Top.names
  BY <1>1, <1>2 DEF SymP
<1>4. \A N : E(N) \in Nat
  BY <1>2, EntryErrorsNumber
<1>5. \A N : E(N) = 0 <=> E({}) = 0 /\ Apart(N, OwnNames(file, Top.at))
  BY <1>2, NoEntryErrors
<1>21. TooMany(Top.at) <=> over
  BY DEF TooMany, Room, LeafK, Block, Walking, DefaultK
<1>22. ~ over => errs = E(Top.names) + soft
  BY <1>21 DEF NodeErrors
<1>6. ~ FileDamaged(file, fault) => Unharmed(fault, Top.at) /\ E(Top.names) = 0 /\ ~ over
  <2>. SUFFICES ASSUME ~ FileDamaged(file, fault)
                PROVE  Unharmed(fault, Top.at) /\ E(Top.names) = 0 /\ ~ over
    OBVIOUS
  <2>1. Unharmed(fault, Top.at) /\ ~ Damaged(file, fault, Top.at)
    BY TopSound, SoundAt
  <2>2. E({}) = 0
    <3>1. ~ (EntryErrors(file.block[Top.at].items, {}) > 0)
      BY <1>2, <2>1 DEF Damaged
    <3>2. ~ (E({}) > 0)
      BY <1>2, <3>1
    <3>. HIDE DEF E
    <3>. QED BY <1>4, <3>2
  <2>3. Apart(Top.names, OwnNames(file, Top.at))
    BY <1>1, <1>2 DEF SoundP, Apart
  <2>4. ~ over
    BY <1>2, <2>1 DEF Damaged
  <2>. HIDE DEF E, over
  <2>. QED BY <1>5, <2>1, <2>2, <2>3, <2>4
<1>20. OwnNames(file, Top.at) = {ents[u].name : u \in DOMAIN ents}
  <2>1. OwnNames(file, Top.at) = {e.name : e \in Range(ents)}
    BY <1>2 DEF OwnNames
  <2>2. \A u \in DOMAIN ents : ents[u] \in Range(ents)
    BY <1>2
  <2>3. \A e \in Range(ents) : \E u \in DOMAIN ents : ents[u] = e
    BY <1>2
  <2>. HIDE DEF ents
  <2>. DEFINE R == Range(ents)
  <2>4. (\A u \in DOMAIN ents : ents[u] \in R) /\ (\A e \in R : \E u \in DOMAIN ents : ents[u] = e)
    BY <2>2, <2>3
  <2>. HIDE DEF R
  <2>5. {e.name : e \in R} = {ents[u].name : u \in DOMAIN ents}
    BY <2>4
  <2>. QED BY <2>1, <2>5 DEF R
<1>. HIDE DEF ents, E, over
<1>7. errs \in Nat /\ (over => errs >= 1) /\ soft \in 0 .. 1
  <2>1. errs \in Nat /\ (TooMany(Top.at) => errs >= 1)
    BY <1>2, NodeErrorsNumber
  <2>. QED BY <1>21, <2>1
<1>9. errs = 0 \/ (E(Top.names) + soft = 0 /\ ~ over)
  <2>1. CASE Quiet
    BY <1>2, <1>7, <1>8, <2>1, NoPush
  <2>2. CASE ~ FileDamaged(file, fault)
    BY <1>6, <2>2 DEF Unharmed
  <2>. QED BY <2>1, <2>2 DEF Fine
<1>. HIDE DEF soft
<1>10. errs = 0 /\ E(Top.names) = 0 /\ soft = 0 /\ ~ over
  <2>1. ~ over
    BY <1>7, <1>9
  <2>2. E(Top.names) \in Nat /\ errs = E(Top.names) + soft
    BY <1>4, <1>22, <2>1
  <2>. QED BY <1>7, <1>9, <2>1, <2>2
<1>11. Quiet
  BY <1>2, <1>7, <1>8, <1>10, NoPush
<1>12. Unharmed(fault, Top.at)
  BY <1>1, <1>10 DEF Unharmed, soft
<1>. DEFINE y == x(errs)
<1>13. /\ y.fn = "sym" /\ y.at = Top.at /\ y.want = Top.want /\ y.pc = "entries" /\ y.i = Top.i
       /\ y.names = WithNames(Top.names, ents) /\ Clean(y)
  BY <1>1, <1>2, <1>10 DEF Fields, Clean
<1>. HIDE DEF y
<1>14. WithNames(Top.names, ents) = Top.names \cup OwnNames(file, Top.at)
  BY <1>20 DEF WithNames
<1>15. E(B) = 0
  <2>1. E({}) = 0 /\ Apart(Top.names, OwnNames(file, Top.at))
    BY <1>5, <1>10
  <2>2. Apart(B, OwnNames(file, Top.at))
    BY <1>3, <2>1 DEF Apart
  <2>. QED BY <1>5, <2>1, <2>2
<1>16. SymP(file, fault, y, B, MetNow)
  <2>1. EntryErrors(file.block[Top.at].items, B) = 0
    BY <1>2, <1>15 DEF E
  <2>2. \A j \in 1 .. Len(ents) : ~ (j < y.i)
    BY <1>3, <1>13
  <2>3. \A j \in 1 .. Len(file.block[Top.at].items) : ~ (j < y.i)
    BY <1>2, <2>2
  <2>. QED BY <1>3, <1>10, <1>12, <1>13, <1>14, <2>1, <2>3 DEF SymP, over
<1>17. ~ FileDamaged(file, fault) => SoundP(file, y, B)
  BY <1>1, <1>2, <1>13, <1>14 DEF SoundP
<1>18. Runs(file, fault, y, B, MetNow)
  BY <1>13, <1>16, <1>17 DEF Runs, Progress, Clean
<1>19. Replace(y)
  BY <1>8 DEF y
<1>. QED BY <1>1, <1>11, <1>13, <1>18, <1>19, GoesOn DEF SameCall

LEMMA SymEntryGoes == ASSUME Walking, SymEntry PROVE WalksOn
<1>. DEFINE items == Block(Top.at).items
            ent == items[Top.i]
            h == ent.header
            x == Frame("header", h)
            y == [Top EXCEPT !.curr_obj = current_obj]
            z == [Top EXCEPT !.i = @ + 1]
<1>7. /\ Top.fn = "sym" /\ Top.pc = "entries" /\ Top.i <= Len(items) /\ obj_table' = obj_table
      /\ UNCHANGED errors
      /\ \E e \in EntryAt(Top.at, Top.i) :
            IF ~ e.slink /\ e.header # Undef THEN Call(Frame("header", e.header), y) ELSE Replace(z)
  BY DEF SymEntry, FollowLink, Running, Kept
<1>8. EntryAt(Top.at, Top.i) = {ent}
  <2>1. ~ (Len(items) > 2 * LeafDefault) /\ Top.i \in Nat /\ Len(items) \in Nat
    <3>1. SymP(file, fault, Top, GivenNow, MetNow) /\ items = file.block[Top.at].items
          /\ Top.i \in Nat /\ Len(items) \in Nat
      BY <1>7, SymTop
    <3>2. ~ (Len(file.block[Top.at].items) > 2 * file.super.leaf_k)
      BY <1>7, <3>1 DEF SymP
    <3>. QED BY <3>1, <3>2 DEF Walking, DefaultK
  <2>2. LeafDefault \in Nat
    BY SizeAssumption
  <2>3. Top.i <= 2 * LeafDefault
    <3>. DEFINE n == Len(items)
    <3>1. n \in Nat /\ Top.i <= n /\ ~ (n > 2 * LeafDefault)
      BY <1>7, <2>1
    <3>. HIDE DEF n
    <3>. QED BY <2>1, <2>2, <3>1
  <2>. QED BY <2>3 DEF EntryAt, Room, LeafK
<1>1. /\ Top.fn = "sym" /\ Top.pc = "entries" /\ Top.i <= Len(items) /\ obj_table' = obj_table
      /\ UNCHANGED errors
      /\ ~ ent.slink /\ h # Undef => Call(x, y)
      /\ ~ (~ ent.slink /\ h # Undef) => Replace(z)
  <2>. HIDE DEF items, y, z
  <2>. QED BY <1>7, <1>8
<1>2. /\ SymP(file, fault, Top, GivenNow, MetNow) /\ Clean(Top) /\ Fields \subseteq DOMAIN Top
      /\ ~ FileDamaged(file, fault) => SoundP(file, Top, GivenNow)
      /\ Top.at \in Addr /\ file \in Files /\ Top.i \in Nat /\ Top.i >= 1
      /\ items = file.block[Top.at].items /\ Len(items) \in Nat /\ file.block[Top.at].kind = "sym"
      /\ \A j \in 1 .. Len(items) : items[j] \in Range(items)
      /\ nerrors = 0 /\ estack = 0
  BY <1>1, SymTop
<1>3. Quiet
  BY <1>1, <1>2, Unchanged
<1>4. Top.i \in 1 .. Len(items) /\ ent \in Range(items)
  <2>1. PICK i, m : i = Top.i /\ m = Len(items)
    OBVIOUS
  <2>2. i \in Nat /\ m \in Nat /\ i >= 1 /\ i <= m
    BY <1>1, <1>2, <2>1
  <2>3. i \in 1 .. m
    BY <2>2
  <2>4. \A j \in 1 .. m : items[j] \in Range(items)
    BY <1>2, <2>1
  <2>. HIDE DEF items
  <2>. QED BY <2>1, <2>3, <2>4
<1>. HIDE DEF items
<1>5. CASE ~ ent.slink /\ h # Undef
  <2>1. ~ FileDamaged(file, fault) => h \in Reached(file)
    <3>. SUFFICES ASSUME ~ FileDamaged(file, fault) PROVE h \in Reached(file)
      OBVIOUS
    <3>1. h \in LinkTargets(file, Top.at)
      BY <1>2, <1>4, <1>5 DEF LinkTargets
    <3>2. h \in Targets(file, Top.at)
      BY <1>2, <3>1 DEF Targets
    <3>. QED BY <1>2, <3>2, TopSound, ReachedFacts
  <2>2. EntryTargets(ent) = {h}
    BY <1>5 DEF EntryTargets
  <2>3. x.fn = "header" /\ x.at = h /\ ~ x.want /\ Runs(file, fault, x, {}, MetNow)
    <3>1. /\ x.fn = "header" /\ x.at = h /\ ~ x.want /\ x.pc = "enter" /\ x.i = 1 /\ x.mesg = << >>
          /\ x.chunk = h /\ Clean(x)
      BY NewCall
    <3>. HIDE DEF x, h
    <3>. QED BY <2>1, <3>1, NewHeader
  <2>4. /\ y.fn = "sym" /\ y.at = Top.at /\ y.want = Top.want /\ y.pc = "entries" /\ y.i = Top.i
        /\ y.names = Top.names /\ Clean(y)
    BY <1>1, <1>2 DEF Fields, Clean
  <2>5. Call(x, y)
    BY <1>1, <1>5
  <2>6. Progress(file, fault, Top, GivenNow, MetNow \cup {x.at})
    BY StillProgress
  <2>. HIDE DEF x, y
  <2>. DEFINE M == MetNow \cup {x.at}
  <2>7. SymP(file, fault, Top, GivenNow, M)
    BY <1>1, <2>6 DEF Progress
  <2>8. SymP(file, fault, y, GivenNow, M)
    BY <1>1, <2>4, <2>7 DEF SymP
  <2>9. ~ FileDamaged(file, fault) => SoundP(file, y, GivenNow)
    BY <1>1, <1>2, <2>4 DEF SoundP
  <2>10. Waiting(file, fault, y, x, M)
    <3>1. y.i <= Len(file.block[y.at].items) /\ file.block[y.at].items[y.i] = ent
      BY <1>1, <1>2, <2>4
    <3>2. EntryTargets(ent) \subseteq M
      BY <2>2, <2>3
    <3>. HIDE DEF ent, M
    <3>. QED BY <2>3, <2>4, <3>1, <3>2 DEF Waiting
  <2>11. Suspended(file, fault, y, GivenNow, x, MetNow)
    BY <2>4, <2>8, <2>9, <2>10 DEF Suspended, Progress, Clean
  <2>12. Given(y) = {} /\ SameCall(Top, y)
    BY <1>1, <2>4 DEF Given, SameCall
  <2>. QED BY <1>1, <1>3, <2>3, <2>5, <2>11, <2>12, GoesIn
<1>6. CASE ~ (~ ent.slink /\ h # Undef)
  <2>1. EntryTargets(ent) = {}
    BY <1>6 DEF EntryTargets
  <2>2. /\ z.fn = "sym" /\ z.at = Top.at /\ z.want = Top.want /\ z.pc = "entries" /\ z.i = Top.i + 1
        /\ z.names = Top.names /\ Clean(z)
    BY <1>1, <1>2 DEF Fields, Clean
  <2>3. Replace(z)
    BY <1>1, <1>6
  <2>. HIDE DEF z
  <2>4. \A j \in 1 .. Len(items) : j < Top.i + 1 => EntryTargets(items[j]) \subseteq MetNow
    <3>. SUFFICES ASSUME NEW j \in 1 .. Len(items), j < Top.i + 1
                  PROVE  EntryTargets(items[j]) \subseteq MetNow
      OBVIOUS
    <3>1. j < Top.i \/ j = Top.i
      BY <1>2
    <3>. QED BY <1>1, <1>2, <2>1, <3>1 DEF SymP
  <2>5. SymP(file, fault, z, GivenNow, MetNow)
    BY <1>1, <1>2, <2>2, <2>4 DEF SymP
  <2>6. ~ FileDamaged(file, fault) => SoundP(file, z, GivenNow)
    BY <1>1, <1>2, <2>2 DEF SoundP
  <2>7. Runs(file, fault, z, GivenNow, MetNow)
    BY <2>2, <2>5, <2>6 DEF Runs, Progress, Clean
  <2>. QED BY <1>1, <1>3, <2>2, <2>3, <2>7, GoesOn DEF SameCall
<1>. QED BY <1>5, <1>6

LEMMA SymDoneGoes == ASSUME Walking, Fine, SymDone PROVE WalksOn
<1>1. Top.fn = "sym" /\ Return(SUCCEED, 0)
      /\ ((Top.pc = "entries" /\ Top.i > Len(Block(Top.at).items)) \/ Top.pc = "done")
  BY ResultIsGood DEF SymDone, Running
<1>2. /\ SymP(file, fault, Top, GivenNow, MetNow) /\ Typed(file, Top) /\ file \in Files /\ ~ Top.want
      /\ ~ FileDamaged(file, fault) => SoundP(file, Top, GivenNow)
  BY <1>1, SymTop
<1>3. Top.pc = "entries" /\ Top.i > Len(file.block[Top.at].items)
  BY <1>1, <1>2 DEF SymP, Block
<1>4. Delivered(file, fault, Top, GivenNow, MetNow)
  BY <1>1, <1>2, <1>3, SymDelivered DEF MetNow
<1>. QED BY <1>1, <1>2, <1>4, GoesOut DEF OpenHeader

-----------------------------------------------------------------------------
(* check_btree2                                                            *)
LEMMA Btree2Top ==
    ASSUME Walking, Top.fn = "btree2"
    PROVE  LET leaf == file.block[Top.at].items[1]
               items == file.block[leaf].items
           IN  /\ Btree2P(file, fault, Top, MetNow) /\ Clean(Top) /\ ~ Top.want
               /\ ~ FileDamaged(file, fault) =>
                     Top.at \in Reached(file) /\ leaf \in Reached(file) /\ Unharmed(fault, leaf)
               /\ leaf \in Addr /\ file.block[leaf].kind = Top.mode
               /\ Top.i \in Nat /\ Top.i >= 1 /\ Len(items) \in Nat
               /\ \A j \in 1 .. Len(items) : items[j] \in Range(items)
               /\ Top.pc \in {"leaf", "records", "node"} => Top.chunk = leaf
               /\ file \in Files /\ Fields \subseteq DOMAIN Top /\ Typed(file, Top)
               /\ nerrors = 0 /\ estack = 0
<1>. DEFINE leaf == file.block[Top.at].items[1]
            items == file.block[leaf].items
<1>1. /\ Progress(file, fault, Top, GivenNow, MetNow) /\ Typed(file, Top) /\ file \in Files
      /\ Fields \subseteq DOMAIN Top /\ nerrors = 0 /\ estack = 0
  BY TopRuns
<1>2. Btree2P(file, fault, Top, MetNow) /\ Clean(Top)
  BY <1>1 DEF Progress, Clean
<1>3. /\ Top.at \in Addr /\ file.block[Top.at].kind = "bt2" /\ Len(file.block[Top.at].items) = 1
      /\ leaf \in Addr /\ file.block[leaf].kind = Top.mode
  BY <1>2 DEF Btree2P, Indexes, Of
<1>4. /\ Top.i \in Nat /\ Top.i >= 1 /\ ~ Top.want
      /\ Top.pc \in {"leaf", "records", "node"} => Top.chunk = leaf
  BY <1>1 DEF Typed
<1>5. Len(items) \in Nat /\ \A j \in 1 .. Len(items) : items[j] \in Range(items)
  <2>1. PICK a : a = leaf
    OBVIOUS
  <2>2. a \in Addr /\ file \in Files
    BY <1>1, <1>3, <2>1
  <2>3. IsList(file.block[a].items)
        /\ \A j \in 1 .. Len(file.block[a].items) : file.block[a].items[j] \in Range(file.block[a].items)
    BY <2>2, FileItems
  <2>4. items = file.block[a].items
    BY <2>1
  <2>. HIDE DEF items
  <2>. QED BY <2>3, <2>4, ListType
<1>6. ASSUME ~ FileDamaged(file, fault)
      PROVE  Top.at \in Reached(file) /\ leaf \in Reached(file) /\ Unharmed(fault, leaf)
  <2>1. Top.at \in Reached(file)
    BY <1>6, TopSound
  <2>2. leaf \in Range(file.block[Top.at].items)
    <3>1. 1 \in 1 .. Len(file.block[Top.at].items)
      BY <1>3
    <3>. QED BY <1>1, <1>3, <3>1, FileItems
  <2>3. leaf \in Targets(file, Top.at)
    BY <1>3, <2>2 DEF Targets, TreeTargets
  <2>4. leaf \in Reached(file)
    BY <1>1, <2>1, <2>3, ReachedFacts
  <2>. QED BY <1>6, <2>1, <2>4, SoundAt
<1>. QED BY <1>1, <1>2, <1>3, <1>4, <1>5, <1>6

(* A step within the function.                                             *)
LEMMA Btree2GoesOn ==
    ASSUME Walking, Quiet, Top.fn = "btree2", obj_table' = obj_table, NEW x, Replace(x),
           x.fn = "btree2", x.at = Top.at, x.want = Top.want, Clean(x), Btree2P(file, fault, x, MetNow)
    PROVE  WalksOn
<1>1. ~ FileDamaged(file, fault) => SoundP(file, x, GivenNow)
  BY TopSound DEF SoundP
<1>2. Runs(file, fault, x, GivenNow, MetNow)
  BY <1>1 DEF Runs, Progress, Clean
<1>. QED BY <1>2, GoesOn DEF SameCall

LEMMA Btree2HeaderGoes == ASSUME Walking, Fine, Btree2Header PROVE WalksOn
<1>. DEFINE x == [Top EXCEPT !.pc = "leaf", !.chunk = Block(Top.at).items[1]]
<1>1. /\ Top.fn = "btree2" /\ Top.pc = "enter" /\ obj_table' = obj_table
      /\ fault[Top.at] \in {"soft", "stop"} => Push(1)
      /\ Unharmed(fault, Top.at) => Replace(x) /\ UNCHANGED errors
  BY DEF Btree2Header, Running, Kept, Unharmed
<1>2. Unharmed(fault, Top.at)
  BY <1>1, Undamaged
<1>3. Quiet /\ Replace(x)
  BY <1>1, <1>2, TopRuns, Unchanged
<1>4. Btree2P(file, fault, Top, MetNow) /\ Clean(Top) /\ Fields \subseteq DOMAIN Top
  BY <1>1, Btree2Top
<1>5. /\ x.fn = "btree2" /\ x.at = Top.at /\ x.want = Top.want /\ x.pc = "leaf" /\ x.i = Top.i
      /\ x.mode = Top.mode /\ Clean(x)
  BY <1>1, <1>4 DEF Fields, Clean
<1>. HIDE DEF x
<1>6. Btree2P(file, fault, x, MetNow)
  BY <1>1, <1>2, <1>4, <1>5 DEF Btree2P
<1>. QED BY <1>1, <1>3, <1>5, <1>6, Btree2GoesOn

LEMMA Btree2LeafGoes == ASSUME Walking, Fine, Btree2Leaf PROVE WalksOn
<1>. DEFINE x == [Top EXCEPT !.pc = "records"]
<1>1. /\ Top.fn = "btree2" /\ Top.pc = "leaf" /\ obj_table' = obj_table
      /\ fault[Top.chunk] = "stop" => Push(1)
      /\ fault[Top.chunk] # "stop" => Replace(x) /\ UNCHANGED errors
  BY DEF Btree2Leaf, Running, Kept
<1>2. /\ Btree2P(file, fault, Top, MetNow) /\ Clean(Top) /\ Fields \subseteq DOMAIN Top
      /\ Top.chunk = file.block[Top.at].items[1] /\ nerrors = 0 /\ estack = 0
      /\ ~ FileDamaged(file, fault) => Unharmed(fault, Top.chunk)
  BY <1>1, Btree2Top
<1>3. fault[Top.chunk] # "stop"
  <2>1. CASE Quiet
    <3>1. fault[Top.chunk] = "stop" => Push(1)
      BY <1>1
    <3>2. nerrors = 0 /\ estack = 0
      BY <1>2
    <3>. QED BY <2>1, <3>1, <3>2, PushIsLoud
  <2>2. CASE ~ FileDamaged(file, fault)
    BY <1>2, <2>2 DEF Unharmed
  <2>. QED BY <2>1, <2>2 DEF Fine
<1>4. Quiet /\ Replace(x)
  BY <1>1, <1>2, <1>3, Unchanged
<1>5. /\ x.fn = "btree2" /\ x.at = Top.at /\ x.want = Top.want /\ x.pc = "records" /\ x.i = Top.i
      /\ x.mode = Top.mode /\ Clean(x)
  BY <1>1, <1>2 DEF Fields, Clean
<1>. HIDE DEF x
<1>6. Top.i = 1 /\ Unharmed(fault, Top.at)
  BY <1>1, <1>2 DEF Btree2P
<1>7. RecordsMet(file, x, x.i, MetNow)
  <2>. DEFINE n == Len(file.block[file.block[x.at].items[1]].items)
  <2>1. \A j \in 1 .. n : ~ (j < x.i)
    BY <1>5, <1>6
  <2>. HIDE DEF n
  <2>. QED BY <2>1 DEF RecordsMet, n
<1>8. Btree2P(file, fault, x, MetNow)
  BY <1>2, <1>3, <1>5, <1>6, <1>7 DEF Btree2P
<1>. QED BY <1>1, <1>4, <1>5, <1>8, Btree2GoesOn

LEMMA Btree2RecordGoes == ASSUME Walking, Btree2Record PROVE WalksOn
<1>. DEFINE leaf == file.block[Top.at].items[1]
            items == file.block[leaf].items
            rec == items[Top.i]
            x == [Top EXCEPT !.i = @ + 1]
            g == Frame("header", rec)
<1>1. /\ Top.fn = "btree2" /\ Top.pc = "records" /\ obj_table' = obj_table /\ UNCHANGED errors
  BY DEF Btree2Record, Running, Kept
<1>2. /\ Btree2P(file, fault, Top, MetNow) /\ Clean(Top) /\ Fields \subseteq DOMAIN Top
      /\ Top.chunk = leaf /\ leaf \in Addr /\ file.block[leaf].kind = Top.mode
      /\ ~ FileDamaged(file, fault) => leaf \in Reached(file)
      /\ Top.i \in Nat /\ Top.i >= 1 /\ Len(items) \in Nat
      /\ \A j \in 1 .. Len(items) : items[j] \in Range(items)
      /\ file \in Files /\ nerrors = 0 /\ estack = 0
  BY <1>1, Btree2Top
<1>3. /\ Top.i <= Len(items)
      /\ Top.mode = "links" /\ rec # Undef => Call(g, Top)
      /\ ~ (Top.mode = "links" /\ rec # Undef) => Replace(x)
  <2>1. Block(Top.chunk).items = items
    BY <1>2 DEF Block
  <2>. HIDE DEF items, x, g
  <2>2. /\ Top.i <= Len(items)
        /\ CASE Top.mode = "chunks" -> Replace(x)
             [] Top.mode = "links" /\ rec # Undef -> Call(g, Top)
             [] OTHER -> Replace(x)
    BY <2>1 DEF Btree2Record, x, g
  <2>. HIDE DEF rec
  <2>. QED BY <2>2
<1>4. Quiet
  BY <1>1, <1>2, Unchanged
<1>5. Top.i \in 1 .. Len(items) /\ rec \in Range(items)
  <2>. HIDE DEF items, x, g
  <2>1. Top.i \in 1 .. Len(items)
    BY <1>2, <1>3
  <2>. QED BY <1>2, <2>1
<1>6. RecordsMet(file, Top, Top.i, MetNow)
  BY <1>1, <1>2 DEF Btree2P
<1>7. CASE Top.mode = "links" /\ rec # Undef
  <2>1. ~ FileDamaged(file, fault) => rec \in Reached(file)
    <3>. SUFFICES ASSUME ~ FileDamaged(file, fault) PROVE rec \in Reached(file)
      OBVIOUS
    <3>1. rec \in LinkTargets(file, leaf)
      BY <1>2, <1>5, <1>7 DEF LinkTargets
    <3>2. rec \in Targets(file, leaf)
      BY <1>2, <1>7, <3>1 DEF Targets
    <3>. QED BY <1>2, <3>2, ReachedFacts
  <2>. HIDE DEF rec
  <2>2. g.fn = "header" /\ g.at = rec /\ ~ g.want /\ Runs(file, fault, g, {}, MetNow)
    <3>1. /\ g.fn = "header" /\ g.at = rec /\ ~ g.want /\ g.pc = "enter" /\ g.i = 1 /\ g.mesg = << >>
          /\ g.chunk = rec /\ Clean(g)
      BY NewCall
    <3>. HIDE DEF g
    <3>. QED BY <2>1, <3>1, NewHeader
  <2>3. Call(g, Top)
    BY <1>3, <1>7
  <2>. HIDE DEF g
  <2>4. Waiting(file, fault, Top, g, MetNow \cup {g.at})
    BY <1>1, <2>2 DEF Waiting, rec
  <2>5. Suspended(file, fault, Top, GivenNow, g, MetNow)
    BY <2>4, StillProgress DEF Suspended
  <2>6. Given(Top) = {} /\ SameCall(Top, Top)
    BY <1>1 DEF Given, SameCall
  <2>. QED BY <1>1, <1>4, <2>2, <2>3, <2>5, <2>6, GoesIn
<1>8. CASE ~ (Top.mode = "links" /\ rec # Undef)
  <2>1. /\ x.fn = "btree2" /\ x.at = Top.at /\ x.want = Top.want /\ x.pc = "records" /\ x.i = Top.i + 1
        /\ x.mode = Top.mode /\ Clean(x)
    BY <1>1, <1>2 DEF Fields, Clean
  <2>2. Replace(x)
    BY <1>3, <1>8
  <2>. HIDE DEF x
  <2>3. Top.mode = "links" => \A j \in 1 .. Len(items) : j < Top.i => items[j] \in MetNow \cup {Undef}
    BY <1>6 DEF RecordsMet
  <2>4. Top.mode = "links" => \A j \in 1 .. Len(items) : j < Top.i + 1 => items[j] \in MetNow \cup {Undef}
    <3>. SUFFICES ASSUME Top.mode = "links", NEW j \in 1 .. Len(items), j < Top.i + 1
                  PROVE  items[j] \in MetNow \cup {Undef}
      OBVIOUS
    <3>1. PICK i, m : i = Top.i /\ m = Len(items)
      OBVIOUS
    <3>2. i \in Nat /\ m \in Nat /\ j \in 1 .. m /\ j < i + 1
      BY <1>2, <3>1
    <3>3. j < i \/ j = i
      BY <3>2
    <3>. QED BY <1>8, <2>3, <3>1, <3>3
  <2>5. RecordsMet(file, x, x.i, MetNow)
    BY <2>1, <2>4 DEF RecordsMet
  <2>6. Btree2P(file, fault, x, MetNow)
    BY <1>1, <1>2, <2>1, <2>5 DEF Btree2P
  <2>. QED BY <1>1, <1>4, <2>1, <2>2, <2>6, Btree2GoesOn
<1>. QED BY <1>7, <1>8

LEMMA Btree2NodeGoes == ASSUME Walking, Fine, Btree2Node PROVE WalksOn
<1>. DEFINE leaf == file.block[Top.at].items[1]
            items == file.block[leaf].items
            x == [Top EXCEPT !.pc = "done"]
<1>1. /\ Top.fn = "btree2" /\ obj_table' = obj_table
      /\ (Top.pc = "records" /\ Top.i > Len(Block(Top.chunk).items)) \/ Top.pc = "node"
      /\ Top.pc = "records" /\ fault[Top.chunk] = "soft" => Push(1)
      /\ ~ (Top.pc = "records" /\ fault[Top.chunk] = "soft") => Replace(x) /\ UNCHANGED errors
  BY DEF Btree2Node, Running, Kept
<1>2. /\ Btree2P(file, fault, Top, MetNow) /\ Clean(Top) /\ Fields \subseteq DOMAIN Top
      /\ nerrors = 0 /\ estack = 0 /\ Top.i \in Nat /\ Len(items) \in Nat
      /\ Top.pc \in {"leaf", "records", "node"} => Top.chunk = leaf
      /\ ~ FileDamaged(file, fault) => Unharmed(fault, leaf)
  BY <1>1, Btree2Top
<1>3. Top.pc = "records" /\ Top.chunk = leaf /\ Top.i > Len(items)
  BY <1>1, <1>2 DEF Btree2P, Block
<1>4. fault[leaf] # "soft"
  <2>1. CASE Quiet
    <3>1. fault[leaf] = "soft" => Push(1)
      BY <1>1, <1>3
    <3>2. nerrors = 0 /\ estack = 0
      BY <1>2
    <3>. QED BY <2>1, <3>1, <3>2, PushIsLoud
  <2>2. CASE ~ FileDamaged(file, fault)
    BY <1>2, <2>2 DEF Unharmed
  <2>. QED BY <2>1, <2>2 DEF Fine
<1>5. Quiet /\ Replace(x)
  BY <1>1, <1>2, <1>3, <1>4, Unchanged
<1>6. /\ x.fn = "btree2" /\ x.at = Top.at /\ x.want = Top.want /\ x.pc = "done" /\ x.i = Top.i
      /\ x.mode = Top.mode /\ Clean(x)
  BY <1>1, <1>2 DEF Fields, Clean
<1>. HIDE DEF x
<1>7. Unharmed(fault, leaf) /\ Unharmed(fault, Top.at) /\ RecordsMet(file, Top, Top.i, MetNow)
  BY <1>2, <1>3, <1>4 DEF Btree2P, Unharmed
<1>8. RecordsMet(file, x, Len(items) + 1, MetNow)
  <2>1. Top.mode = "links" => \A j \in 1 .. Len(items) : j < Top.i => items[j] \in MetNow \cup {Undef}
    BY <1>7 DEF RecordsMet
  <2>2. \A j \in 1 .. Len(items) : j < Top.i
    <3>1. PICK i, m : i = Top.i /\ m = Len(items)
      OBVIOUS
    <3>2. i \in Nat /\ m \in Nat /\ i > m
      BY <1>2, <1>3, <3>1
    <3>3. \A j \in 1 .. m : j < i
      BY <3>2
    <3>. HIDE DEF items
    <3>. QED BY <3>1, <3>3
  <2>3. Top.mode = "links" => \A j \in 1 .. Len(items) : items[j] \in MetNow \cup {Undef}
    BY <2>1, <2>2
  <2>. QED BY <1>6, <2>3 DEF RecordsMet
<1>9. Btree2P(file, fault, x, MetNow)
  BY <1>2, <1>3, <1>6, <1>7, <1>8 DEF Btree2P, Unharmed
<1>. QED BY <1>1, <1>5, <1>6, <1>9, Btree2GoesOn

LEMMA Btree2DoneGoes == ASSUME Walking, Fine, Btree2Done PROVE WalksOn
<1>1. Top.fn = "btree2" /\ Return(SUCCEED, 0) /\ Top.pc = "done"
  BY ResultIsGood DEF Btree2Done, Running
<1>2. Btree2P(file, fault, Top, MetNow) /\ Typed(file, Top) /\ file \in Files /\ ~ Top.want
  BY <1>1, Btree2Top
<1>3. Delivered(file, fault, Top, GivenNow, MetNow)
  BY <1>1, <1>2, Btree2Delivered DEF MetNow
<1>. QED BY <1>1, <1>2, <1>3, GoesOut DEF OpenHeader

LEMMA SymUnreadNot == ASSUME Walking, Fine, SymUnread PROVE FALSE
<1>1. Top.fn = "sym" /\ Push(1) /\ nerrors = 0 /\ estack = 0
  BY TopRuns DEF SymUnread, Running
<1>2. fault[Top.at] = "stop"
  <2>1. ~ (file.super.leaf_k < LeafK(file.super))
    BY SizeAssumption DEF Walking, DefaultK, LeafK
  <2>. QED BY <2>1 DEF SymUnread
<1>3. ~ Quiet
  BY <1>1, PushIsLoud
<1>. QED BY <1>2, <1>3, TopSound DEF Fine, Unharmed

LEMMA NodeGoes == ASSUME Walking, Fine, NodeStep PROVE WalksOn
BY BtreeNodeGoes, BtreeEntryGoes, BtreeDoneGoes, SymUnreadNot, SymNodeGoes, SymEntryGoes, SymDoneGoes,
   Btree2HeaderGoes, Btree2LeafGoes, Btree2RecordGoes, Btree2NodeGoes, Btree2DoneGoes
   DEF NodeStep

-----------------------------------------------------------------------------
(* An error that was found is not taken back: it is on the error stack     *)
(* until it is printed.                                                    *)
Pushes == \E n \in Nat : Push(n)
Adds == UNCHANGED errors \/ nerrors' = nerrors + 1 \/ Pushes

LEMMA PushOne == Push(1) => Adds
<1>1. 1 \in Nat
  OBVIOUS
<1>. QED BY <1>1 DEF Adds, Pushes

LEMMA GoodBefore ==
    ASSUME Adds, nerrors \in Nat, estack \in 0 .. NSlots, Quiet PROVE Good
<1>1. CASE UNCHANGED errors
  BY <1>1 DEF errors, Quiet, Good
<1>2. CASE nerrors' = nerrors + 1
  BY <1>2 DEF Quiet
<1>3. CASE Pushes
  <2>1. PICK n \in Nat : Push(n)
    BY <1>3 DEF Pushes
  <2>. QED BY <2>1 DEF Push, Pushed, Quiet, Good, NSlots
<1>. QED BY <1>1, <1>2, <1>3 DEF Adds

LEMMA ReturnAdds == ASSUME NEW res, NEW n, Return(res, n) PROVE Adds
<1>. DEFINE p == Head(Tail(stack))
            k == PushedByCaller(p, Top, res)
<1>1. k \in 0 .. 2
  BY DEF PushedByCaller, Failed
<1>. HIDE DEF k
<1>2. CASE n > 0
  <2>1. nerrors' = nerrors + 1
    BY <1>2 DEF Return, Flush, k
  <2>. QED BY <2>1 DEF Adds
<1>3. CASE ~ (n > 0) /\ (Tail(stack) = << >> \/ k = 0)
  BY <1>3 DEF Return, Flush, Adds, k
<1>4. CASE ~ (n > 0) /\ Tail(stack) # << >> /\ k # 0
  <2>1. Push(k)
    BY <1>4 DEF Return, Push, k
  <2>. QED BY <1>1, <2>1 DEF Adds, Pushes
<1>. QED BY <1>2, <1>3, <1>4

LEMMA HeaderAdds == ASSUME ErrInv, HeaderStep PROVE Adds
<1>1. CASE HeaderSeen \/ HeaderReturn
  BY <1>1, ReturnAdds DEF HeaderSeen, HeaderReturn
<1>2. CASE HeaderPrefix \/ HeaderLog
  BY <1>2, PushOne DEF HeaderPrefix, HeaderLog, Adds
<1>3. CASE HeaderChunk
  <2>. DEFINE a == Top.chunk
              mesg == Top.mesg \o MessagesOf(a)
              next == Continuation(mesg, Top.i)
              corrupt == Cardinality(Corrupt(mesg, Top.i, next))
              soft == IF fault[a] = "soft" THEN 1 ELSE 0
  <2>1. ErrorWalks /\ Top.fn = "header"
    BY <1>3 DEF HeaderChunk, Running, input, ErrorWalks, Walks
  <2>2. Push(1) \/ Push(corrupt + soft + corrupt)
    BY <1>3 DEF HeaderChunk
  <2>3. file \in Files /\ a \in Headers(file) /\ Mesgs(file, Top.mesg) /\ Top.i \in Nat /\ Top.i >= 1
    BY <2>1, TopTyped DEF Typed
  <2>4. Mesgs(file, mesg)
    BY <2>3, ChunkMesgs, MesgsJoined
  <2>. HIDE DEF mesg
  <2>5. next \in Nat /\ IsList(mesg)
    BY <2>3, <2>4, ContinuationFound DEF Mesgs
  <2>. HIDE DEF next
  <2>6. corrupt \in Nat /\ soft \in Nat
    BY <2>3, <2>5, CorruptNumber
  <2>. HIDE DEF corrupt, soft
  <2>7. corrupt + soft + corrupt \in Nat
    BY <2>6
  <2>. QED BY <2>2, <2>7, PushOne DEF Adds, Pushes
<1>4. CASE HeaderDone
  BY <1>4, ReturnAdds DEF HeaderDone, Flush, Adds
<1>5. CASE HeaderFull
  BY <1>5, PushOne DEF HeaderFull
<1>. QED BY <1>1, <1>2, <1>3, <1>4, <1>5 DEF HeaderStep

LEMMA HeapAdds == ASSUME NEW a, HeapFlush(a) PROVE Adds
BY DEF HeapFlush, Adds

LEMMA MessageAdds == ASSUME ErrInv, MessageStep PROVE Adds
<1>1. CASE MessagesDone
  BY <1>1, ReturnAdds DEF MessagesDone
<1>2. CASE MessageDecoded \/ MessageLayout \/ MessageIndex \/ MessageShared \/ MessageLink
  BY <1>2 DEF MessageDecoded, MessageLayout, MessageIndex, MessageShared, MessageLink, errors, Adds
<1>3. CASE MessageUnread
  <2>1. Push(1) \/ Push(2)
    BY <1>3 DEF MessageUnread
  <2>. QED BY <2>1, PushOne, 2 \in Nat DEF Adds, Pushes
<1>4. CASE MessageGroup \/ MessageInfo
  BY <1>4, HeapAdds DEF MessageGroup, MessageInfo, Adds
<1>5. CASE MessageEdf
  <2>1. HeapFlush(Mesg.heap) \/ Push(Mesg.bad)
    BY <1>5 DEF MessageEdf
  <2>2. Mesg.bad \in Nat
    <3>1. ErrorWalks /\ Top.fn = "messages" /\ Top.i <= Len(Top.mesg) /\ Mesg.kind = "edf"
      BY <1>5 DEF MessageEdf, InMessages, Running, ErrorWalks, Walks, Kept, input
    <3>. QED BY <3>1, MesgTyped, MesgFields
  <2>. QED BY <2>1, <2>2, HeapAdds DEF Adds, Pushes
<1>. QED BY <1>1, <1>2, <1>3, <1>4, <1>5 DEF MessageStep

LEMMA NodeAdds == ASSUME ErrInv, NodeStep PROVE Adds
<1>1. CASE BtreeDone \/ SymDone \/ Btree2Done
  BY <1>1, ReturnAdds DEF BtreeDone, SymDone, Btree2Done
<1>2. CASE Btree2Header \/ Btree2Leaf \/ Btree2Node
  BY <1>2, PushOne DEF Btree2Header, Btree2Leaf, Btree2Node, Adds
<1>3. CASE BtreeEntry \/ SymEntry \/ Btree2Record
  BY <1>3 DEF BtreeEntry, SymEntry, Btree2Record, errors, Adds
<1>4. CASE SymNode \/ SymUnread
  <2>1. ErrorWalks /\ Top.fn = "sym"
    BY <1>4 DEF SymNode, SymUnread, Running, ErrorWalks, Walks, Kept, input
  <2>2. Push(1) \/ \E errs \in NodeErrors(Top.at, Top.names) : Push(errs)
    BY <1>4 DEF SymNode, SymUnread
  <2>3. \A errs \in NodeErrors(Top.at, Top.names) : errs \in Nat
    <3>1. file \in Files /\ Top.at \in Of(file, "sym")
      BY <2>1, TopTyped DEF Typed
    <3>. QED BY <3>1, NodeErrorsNumber
  <2>. QED BY <2>2, <2>3, PushOne DEF Adds, Pushes
<1>5. CASE BtreeNode
  <2>. DEFINE soft == IF fault[Top.at] = "soft" THEN 1 ELSE 0
              more == IF Exceeds(Block(Top.at), BtreeK(file.super, Block(Top.at).kind)) THEN 1 ELSE 0
  <2>1. Push(1) \/ Push(soft + more)
    BY <1>5 DEF BtreeNode
  <2>2. soft + more \in Nat
    OBVIOUS
  <2>. HIDE DEF soft, more
  <2>. QED BY <2>1, <2>2, PushOne DEF Adds, Pushes
<1>. QED BY <1>1, <1>2, <1>3, <1>4, <1>5 DEF NodeStep

(* The file that is read does not change.                                  *)
LEMMA InputKept == ASSUME [Next]_vars PROVE UNCHANGED input
<1>1. CASE FileInit \/ MainCheck \/ MainDone \/ Done \/ UNCHANGED vars
  BY <1>1 DEF FileInit, MainCheck, MainDone, Done, vars, input
<1>2. CASE HeaderStep
  BY <1>2 DEF HeaderStep, HeaderSeen, HeaderPrefix, HeaderFull, HeaderChunk, HeaderLog, HeaderDone, HeaderReturn, Return
<1>3. CASE MessageStep
  BY <1>3 DEF MessageStep, MessageDecoded, MessageUnread, MessageEdf, MessageLayout, MessageGroup,
              MessageInfo, MessageIndex, MessageShared, MessageLink, MessagesDone, Return, Kept
<1>4. CASE NodeStep
  BY <1>4 DEF NodeStep, BtreeNode, BtreeEntry, BtreeDone, SymUnread, SymNode, SymEntry, SymDone, Btree2Header,
              Btree2Leaf, Btree2Record, Btree2Node, Btree2Done, Return, Kept
<1>5. CASE CrashStep
  BY <1>5, Killed
<1>. QED BY <1>1, <1>2, <1>3, <1>4, <1>5 DEF Next, HeapSpins, vars

-----------------------------------------------------------------------------
(* A step of the walk.                                                     *)
LEMMA WalkCovers ==
    ASSUME TypeInv, CoverInv, HeaderStep \/ MessageStep \/ NodeStep PROVE CoverInv'
<1>1. WalkStep /\ Adds /\ UNCHANGED input
  <2>1. ErrInv
    BY DEF TypeInv
  <2>2. [Next]_vars
    BY DEF Next
  <2>. QED BY <2>1, <2>2, HeaderWalks, MessageWalks, NodeWalks, HeaderAdds, MessageAdds, NodeAdds, InputKept
<1>2. /\ pc = "check" /\ pc' = "check" /\ stack # << >> /\ file' = file /\ fault' = fault
      /\ ErrInv /\ nerrors \in Nat /\ estack \in 0 .. NSlots
  BY <1>1 DEF WalkStep, Walks, input, TypeInv, ErrInv
<1>3. Quiet => Good
  BY <1>1, <1>2, GoodBefore
<1>4. ASSUME Good, Fine, Regular, Regular' PROVE ~ SuperblockDamaged(file.super) /\ WalksOn
  <2>1. ~ SuperblockDamaged(file.super) /\ Covers(file, fault, stack, obj_table)
    BY <1>2, <1>4 DEF CoverInv
  <2>2. Walking /\ ~ starved'
    BY <1>2, <1>4, <2>1 DEF Walking, ErrorWalks, Walks, Regular
  <2>. QED BY <1>4, <2>1, <2>2, HeaderGoes, MessageGoes, NodeGoes
<1>5. Regular /\ ~ FileDamaged(file, fault) => Good
  BY <1>2 DEF CoverInv
<1>6. Good' <=> Quiet
  BY DEF Good, Quiet
<1>7. Regular' => Regular
  BY <1>1, <1>2 DEF Regular, WalkStep
<1>8. Quiet /\ Regular' => ~ SuperblockDamaged(file.super) /\ Covers(file, fault, stack', obj_table')
  BY <1>3, <1>4, <1>7 DEF Fine, WalksOn
<1>9. ~ FileDamaged(file, fault) /\ Regular' => Quiet
  BY <1>4, <1>5, <1>7 DEF Fine, WalksOn
<1>. QED BY <1>2, <1>6, <1>8, <1>9 DEF CoverInv

(* The superblock is read, and the walk starts at the root.                *)
LEMMA InitCovers == ASSUME TypeInv, CoverInv, FileInit PROVE CoverInv'
<1>. DEFINE s == file.super
            x == Frame("header", file.root)
<1>1. /\ pc = "init" /\ stack = << >> /\ obj_table = {} /\ nerrors = 0 /\ estack = 0
      /\ file' = file /\ fault' = fault /\ obj_table' = obj_table /\ file \in Files
  <2>1. pc = "init" /\ UNCHANGED input /\ obj_table' = obj_table
    BY DEF FileInit
  <2>. QED BY <2>1 DEF CoverInv, TypeInv, ErrInv, input
<1>2. SignatureErrors(s) \in 0 .. 1 /\ (SignatureErrors(s) = 0 <=> "signature" \notin s.bad)
  BY DEF SignatureErrors
<1>3. CASE SuperblockFails(s) \/ (~ s.ext /\ "size" \in s.bad)
  <2>1. pc' = "done" /\ stack' = stack /\ nerrors' = nerrors + SignatureErrors(s) + 1
    BY <1>3 DEF FileInit
  <2>2. ~ Good'
    BY <1>1, <1>2, <2>1 DEF Good
  <2>3. FileDamaged(file, fault)
    BY <1>3 DEF FileDamaged, SuperblockDamaged
  <2>. QED BY <1>1, <2>1, <2>2, <2>3 DEF CoverInv
<1>5. CASE ~ SuperblockFails(s) /\ s.ext
  <2>1. pc' = "crashed"
    BY <1>5 DEF FileInit
  <2>. QED BY <2>1 DEF CoverInv
<1>4. CASE ~ SuperblockFails(s) /\ ~ s.ext /\ ~ ("size" \in s.bad)
  <2>1. /\ pc' = "check" /\ estack' = estack /\ nerrors' = nerrors + SignatureErrors(s)
        /\ stack' = << x >>
    BY <1>4 DEF FileInit
  <2>2. Good' <=> ~ SuperblockDamaged(s)
    BY <1>1, <1>2, <1>4, <2>1 DEF Good, SuperblockDamaged
  <2>3. Runs(file, fault, x, {}, Met(file, fault, {})) /\ x.fn = "header" /\ x.at = file.root
    <3>1. /\ x.fn = "header" /\ x.at = file.root /\ x.pc = "enter" /\ x.chunk = x.at /\ x.i = 1
          /\ x.mesg = << >> /\ Clean(x)
      BY NewCall
    <3>2. file.root \in Reached(file)
      BY <1>1, ReachedFacts
    <3>. HIDE DEF x
    <3>. QED BY <3>1, <3>2, NewHeader
  <2>. HIDE DEF x
  <2>4. Len(<< x >>) = 1 /\ Deep(<< x >>, 1) = x /\ 1 .. 1 - 1 = {}
    BY Single DEF Deep
  <2>5. Covers(file, fault, << x >>, {})
    BY <2>3, <2>4 DEF Covers, GivenAt
  <2>6. ~ FileDamaged(file, fault) => ~ SuperblockDamaged(s)
    BY DEF FileDamaged
  <2>. QED BY <1>1, <2>1, <2>2, <2>5, <2>6 DEF CoverInv
<1>. QED BY <1>3, <1>4, <1>5

LEMMA CoverKept == ASSUME TypeInv, CoverInv, [Next]_vars PROVE CoverInv'
<1>1. CASE HeaderStep \/ MessageStep \/ NodeStep
  BY <1>1, WalkCovers
<1>2. CASE FileInit
  BY <1>2, InitCovers
<1>3. CASE MainCheck \/ MainDone \/ Done \/ UNCHANGED vars
  <2>1. /\ UNCHANGED <<file, fault, stack, obj_table, estack, nerrors, starved>>
        /\ \/ pc = "check" /\ stack = << >> /\ pc' = "done"
           \/ pc = "done" /\ pc' = "exit" /\ dumped' = (nerrors = 0)
           \/ pc' = pc /\ dumped' = dumped
    BY <1>3 DEF MainCheck, MainDone, Done, vars, input, errors
  <2>2. Good' = Good /\ Regular' = Regular
    BY <2>1 DEF Good, Regular
  <2>3. pc' = "init" => pc = "init"
    BY <2>1
  <2>4. pc' # "init" /\ Good => pc # "init"
    BY <2>1
  <2>. QED BY <2>1, <2>2, <2>3 DEF CoverInv
<1>4. CASE CrashStep
  <2>1. pc' = "crashed"
    BY <1>4, Killed
  <2>. QED BY <2>1 DEF CoverInv
<1>. QED BY <1>1, <1>2, <1>3, <1>4 DEF Next, HeapSpins

(* At the end everything that is reached from the root is covered.         *)
LEMMA CoverDecides == ASSUME TypeInv, CoverInv PROVE LogOnlyOfSoundFiles
<1>. SUFFICES ASSUME pc = "exit", Regular PROVE dumped <=> ~ FileDamaged(file, fault)
  BY DEF LogOnlyOfSoundFiles, Regular
<1>1. estack = 0 /\ file \in Files /\ dumped = (nerrors = 0) /\ stack = << >>
  BY DEF TypeInv, ErrInv, CoverInv
<1>2. ~ FileDamaged(file, fault) => dumped
  BY <1>1 DEF CoverInv, Good
<1>3. ASSUME dumped PROVE ~ FileDamaged(file, fault)
  <2>. DEFINE C == Covered(file, fault, obj_table)
  <2>1. ~ SuperblockDamaged(file.super) /\ Covers(file, fault, << >>, obj_table)
    BY <1>1, <1>3 DEF CoverInv, Good
  <2>2. C \subseteq Addr /\ Closed(file, fault, obj_table, C) /\ Met(file, fault, obj_table) = C \cup obj_table
    BY CoveredFacts
  <2>3. obj_table \subseteq C /\ file.root \in C
    <3>1. Len(<< >>) = 0 /\ 1 .. 0 = {}
      BY EmptyList
    <3>. QED BY <2>1, <2>2, <3>1 DEF Covers
  <2>. HIDE DEF C
  <2>4. \A a \in C : ~ Damaged(file, fault, a) /\ Targets(file, a) \subseteq C
    BY <2>2, <2>3 DEF Closed
  <2>5. Reached(file) \subseteq C
    BY <1>1, <2>2, <2>3, <2>4, ReachedFacts
  <2>. QED BY <2>1, <2>4, <2>5 DEF FileDamaged
<1>. QED BY <1>2, <1>3

(* Whatever the links and the faults of a file with the K values that the  *)
(* code uses, while the logger's arrays and the memory suffice: h5inspect  *)
(* writes its log exactly when no block that the superblock leads to is    *)
(* damaged, however the check_* functions came to that block, through      *)
(* links, messages, trees or other headers, and whoever counted and        *)
(* printed the errors.                                                     *)
THEOREM LogsSoundFiles == Spec => []LogOnlyOfSoundFiles
<1>1. Init => TypeInv /\ CoverInv
  <2>1. Init => CoverInv
    BY DEF Init, CoverInv, Good
  <2>2. Init => TypeInv
    BY TypesInit
  <2>. QED BY <2>1, <2>2
<1>2. TypeInv /\ CoverInv /\ [Next]_vars => TypeInv' /\ CoverInv'
  BY TypesKept, CoverKept
<1>3. TypeInv /\ CoverInv => LogOnlyOfSoundFiles
  BY CoverDecides
<1>. QED BY <1>1, <1>2, <1>3, PTL DEF Spec

=============================================================================
