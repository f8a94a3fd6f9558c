---------------------------- MODULE H5Check_proof ----------------------------
(***************************************************************************)
(* Whatever the file, its faults and the links between its objects:        *)
(*  - h5check reads the header of an object through its links at most once *)
(*    (the table of addresses holds every header that has been read);      *)
(*  - what it notes goes to the object of the link it follows (the frames  *)
(*    that follow a link form a chain of objects, each the last child of   *)
(*    the one before it);                                                  *)
(*  - no error is left unprinted (while one is, some function on the stack *)
(*    has counted it and prints it when it returns);                       *)
(*  - the table holds addresses of headers, and in the log an object comes *)
(*    before its children.                                                 *)
(***************************************************************************)
EXTENDS H5Check, FiniteSetTheorems, WellFoundedInduction, TLAPS

(* HeaderReadOnce is not inductive: the table is what keeps a header from  *)
(* being read again.                                                       *)
ReadOnceInv ==
    /\ opened \in [Addr -> Nat]
    /\ \A a \in Addr : opened[a] <= 1
    /\ \A a \in Addr : opened[a] = 1 => a \in obj_table

(* The actions that read no header leave the table and the counts alone.   *)
Untouched == obj_table' = obj_table /\ opened' = opened

LEMMA UntouchedPreserves == ASSUME ReadOnceInv, Untouched PROVE ReadOnceInv'
  BY DEF ReadOnceInv, Untouched

(* What the table says of the header at hand decides what is counted.      *)
LEMMA PrefixPreserves == ASSUME ReadOnceInv, HeaderPrefix PROVE ReadOnceInv'
<1>1. obj_table' = obj_table \cup {Top.at}
  BY DEF HeaderPrefix, Inserted
<1>2. CASE Top.want
  <2>1. opened' = opened
    BY <1>2 DEF HeaderPrefix
  <2>. QED BY <1>1, <2>1 DEF ReadOnceInv
<1>3. CASE ~ Top.want
  <2>1. Top.at \notin obj_table
    BY <1>3 DEF HeaderPrefix, Found
  <2>2. opened' = [opened EXCEPT ![Top.at] = @ + 1]
    BY <1>3 DEF HeaderPrefix
  <2>3. Top.at \in Addr => opened[Top.at] = 0
    BY <2>1 DEF ReadOnceInv
  <2>4. opened' \in [Addr -> Nat]
    <3>1. opened \in [Addr -> Nat]
      BY DEF ReadOnceInv
    <3>2. CASE Top.at \in Addr
      <4>1. opened[Top.at] + 1 \in Nat
        BY <3>2, <2>3
      <4>. QED BY <3>1, <4>1, <2>2
    <3>3. CASE Top.at \notin Addr
      BY <3>1, <3>3, <2>2
    <3>. QED BY <3>2, <3>3
  <2>5. ASSUME NEW a \in Addr
        PROVE  opened'[a] <= 1 /\ (opened'[a] = 1 => a \in obj_table')
    <3>1. CASE a = Top.at
      <4>1. opened'[a] = 1
        BY <3>1, <2>2, <2>3 DEF ReadOnceInv
      <4>. QED BY <3>1, <4>1, <1>1
    <3>2. CASE a # Top.at
      <4>1. opened'[a] = opened[a]
        BY <3>2, <2>2 DEF ReadOnceInv
      <4>. QED BY <4>1, <1>1 DEF ReadOnceInv
    <3>. QED BY <3>1, <3>2
  <2>. QED BY <2>4, <2>5 DEF ReadOnceInv
<1>. QED BY <1>2, <1>3

(* Every other header step, in its order in check_obj_header.              *)
LEMMA HeaderSteps == ASSUME HeaderStep PROVE HeaderPrefix \/ Untouched
<1>1. CASE HeaderSeen
  BY <1>1 DEF HeaderSeen, Return, Untouched
<1>2. CASE HeaderChunk
  BY <1>2 DEF HeaderChunk, Untouched
<1>3. CASE HeaderLog
  BY <1>3 DEF HeaderLog, Untouched
<1>4. CASE HeaderDone
  BY <1>4 DEF HeaderDone, Return, Untouched
<1>5. CASE HeaderReturn
  BY <1>5 DEF HeaderReturn, Return, Untouched
<1>6. CASE HeaderFull
  BY <1>6 DEF HeaderFull, Untouched
<1>. QED BY <1>1, <1>2, <1>3, <1>4, <1>5, <1>6 DEF HeaderStep

(* Messages call for headers; reading one is a step of the header itself.  *)
LEMMA MessageSteps == ASSUME MessageStep PROVE Untouched
<1>1. CASE MessagesDone
  BY <1>1 DEF MessagesDone, Return, Untouched
<1>2. CASE ~ MessagesDone
  BY <1>2 DEF MessageStep, MessageDecoded, MessageUnread, MessageEdf, MessageLayout,
     MessageGroup, MessageInfo, MessageIndex, MessageShared, MessageLink, Kept, Untouched
<1>. QED BY <1>1, <1>2

(* The nodes of the indexes.                                               *)
LEMMA NodeSteps == ASSUME NodeStep PROVE Untouched
<1>1. CASE BtreeDone \/ SymDone \/ Btree2Done
  BY <1>1 DEF BtreeDone, SymDone, Btree2Done, Return, Untouched
<1>2. CASE BtreeNode \/ BtreeEntry \/ SymUnread \/ SymNode \/ SymEntry
  BY <1>2 DEF BtreeNode, BtreeEntry, SymUnread, SymNode, SymEntry, Kept, Untouched
<1>3. CASE Btree2Header \/ Btree2Leaf \/ Btree2Record \/ Btree2Node
  BY <1>3 DEF Btree2Header, Btree2Leaf, Btree2Record, Btree2Node, Kept, Untouched
<1>. QED BY <1>1, <1>2, <1>3 DEF NodeStep

(* A process that is killed leaves everything as it is.                    *)
LEMMA Killed ==
    ASSUME CrashStep
    PROVE  pc' = "crashed" /\ UNCHANGED <<input, stack, obj_table, logger, errors, dumped, opened>>
BY DEF CrashStep, StackOverflow, SymOverrun, LoggerOverrun, Crash

(* The table holds what was read, at every step.                           *)
LEMMA ReadOnceInit == Init => ReadOnceInv
BY DEF Init, ReadOnceInv

LEMMA ReadOnceKept == ASSUME ReadOnceInv, [Next]_vars PROVE ReadOnceInv'
<1>1. CASE HeaderStep
  BY <1>1, HeaderSteps, PrefixPreserves, UntouchedPreserves
<1>2. CASE MessageStep
  BY <1>2, MessageSteps, UntouchedPreserves
<1>3. CASE NodeStep
  BY <1>3, NodeSteps, UntouchedPreserves
<1>4. CASE FileInit
  <2>1. Untouched BY <1>4 DEF FileInit, Untouched
  <2>. QED BY <2>1, UntouchedPreserves
<1>5. CASE MainCheck \/ MainDone \/ Done \/ UNCHANGED vars
  <2>1. Untouched BY <1>5 DEF MainCheck, MainDone, Done, vars, Untouched
  <2>. QED BY <2>1, UntouchedPreserves
<1>6. CASE CrashStep
  <2>1. Untouched BY <1>6, Killed DEF Untouched
  <2>. QED BY <2>1, UntouchedPreserves
<1>. QED BY <1>1, <1>2, <1>3, <1>4, <1>5, <1>6 DEF Next, HeapSpins

(* For every file, whatever its links and faults: a header is read through *)
(* links once, so a cycle of hard links ends (check_obj_header).           *)
THEOREM ReadOnce == Spec => []HeaderReadOnce
<1>1. ReadOnceInv => HeaderReadOnce
  BY DEF ReadOnceInv, HeaderReadOnce
<1>. QED BY <1>1, ReadOnceInit, ReadOnceKept, PTL DEF Spec

-----------------------------------------------------------------------------
(* Lists of whatever elements, and what the operations do to them.         *)
IsList(s) == \E S : s \in Seq(S)

LEMMA ListType == ASSUME NEW s, IsList(s)
                  PROVE  Len(s) \in Nat /\ DOMAIN s = 1 .. Len(s) /\ (s = << >> <=> Len(s) = 0)
BY DEF IsList

LEMMA Single == \A x : IsList(<< x >>) /\ Len(<< x >>) = 1 /\ << x >>[1] = x
<1>1. \A x : << x >> \in Seq({x})
  OBVIOUS
<1>. QED BY <1>1 DEF IsList

LEMMA Appended ==
    ASSUME NEW s, IsList(s), NEW x
    PROVE  /\ IsList(Append(s, x)) /\ Len(Append(s, x)) = Len(s) + 1
           /\ Append(s, x)[Len(s) + 1] = x
           /\ \A k \in 1 .. Len(s) : Append(s, x)[k] = s[k]
<1>1. PICK S : s \in Seq(S)
  BY DEF IsList
<1>2. s \in Seq(S \cup {x})
  BY <1>1
<1>3. Append(s, x) \in Seq(S \cup {x})
  BY <1>2
<1>. QED BY <1>2, <1>3 DEF IsList

(* The frames of the stack counted from the outermost.                     *)
Deep(s, d) == s[Len(s) + 1 - d]

(* Elements below the top stay.                                            *)
SameBelow(s, t, n) == \A d \in 1 .. n : Deep(t, d) = Deep(s, d)

LEMMA TopReplaced ==
    ASSUME NEW s, IsList(s), s # << >>, NEW x
    PROVE  LET t == << x >> \o Tail(s)
           IN  /\ IsList(t) /\ Len(t) = Len(s) /\ Deep(t, Len(s)) = x
               /\ SameBelow(s, t, Len(s) - 1)
               /\ Deep(s, Len(s)) = Head(s)
<1>. DEFINE t == << x >> \o Tail(s)
<1>1. PICK S : s \in Seq(S)
  BY DEF IsList
<1>2. s \in Seq(S \cup {x})
  BY <1>1
<1>3. /\ << x >> \in Seq(S \cup {x}) /\ Tail(s) \in Seq(S \cup {x})
      /\ Len(Tail(s)) = Len(s) - 1
      /\ \A j \in 1 .. Len(s) - 1 : Tail(s)[j] = s[j + 1]
  BY <1>2
<1>4. /\ t \in Seq(S \cup {x}) /\ Len(t) = Len(s) /\ t[1] = x
      /\ \A j \in 2 .. Len(s) : t[j] = s[j]
  BY <1>2, <1>3
<1>. HIDE DEF t
<1>5. Len(s) \in Nat /\ Len(s) >= 1 /\ Head(s) = s[1]
  BY <1>2
<1>. QED BY <1>4, <1>5 DEF IsList, Deep, SameBelow, t

LEMMA Highest ==
    ASSUME NEW s, IsList(s), s # << >>
    PROVE  Len(s) \in Nat /\ Len(s) >= 1 /\ Deep(s, Len(s)) = Head(s)
<1>1. PICK S : s \in Seq(S)
  BY DEF IsList
<1>. QED BY <1>1 DEF Deep

LEMMA TopCalls ==
    ASSUME NEW s, IsList(s), s # << >>, NEW x, NEW y
    PROVE  LET t == << x, y >> \o Tail(s)
           IN  /\ IsList(t) /\ Len(t) = Len(s) + 1
               /\ Deep(t, Len(s)) = y /\ Deep(t, Len(s) + 1) = x
               /\ SameBelow(s, t, Len(s) - 1)
<1>. DEFINE t == << x, y >> \o Tail(s)
<1>1. PICK S : s \in Seq(S)
  BY DEF IsList
<1>2. s \in Seq(S \cup {x, y})
  BY <1>1
<1>3. /\ << x, y >> \in Seq(S \cup {x, y}) /\ Tail(s) \in Seq(S \cup {x, y})
      /\ Len(Tail(s)) = Len(s) - 1
      /\ \A j \in 1 .. Len(s) - 1 : Tail(s)[j] = s[j + 1]
  BY <1>2
<1>4. /\ t \in Seq(S \cup {x, y}) /\ Len(t) = Len(s) + 1 /\ t[1] = x /\ t[2] = y
      /\ \A j \in 3 .. Len(s) + 1 : t[j] = s[j - 1]
  BY <1>2, <1>3
<1>. HIDE DEF t
<1>5. Len(s) \in Nat /\ Len(s) >= 1
  BY <1>2
<1>. QED BY <1>4, <1>5 DEF IsList, Deep, SameBelow, t

LEMMA TopReturns ==
    ASSUME NEW s, IsList(s), s # << >>, Tail(s) # << >>, NEW x
    PROVE  LET t == << x >> \o Tail(Tail(s))
           IN  /\ IsList(t) /\ Len(t) = Len(s) - 1 /\ Len(s) >= 2
               /\ Deep(t, Len(s) - 1) = x
               /\ SameBelow(s, t, Len(s) - 2)
               /\ Deep(s, Len(s) - 1) = Head(Tail(s))
<1>. DEFINE r == Tail(s)
            t == << x >> \o Tail(r)
<1>1. PICK S : s \in Seq(S)
  BY DEF IsList
<1>2. r \in Seq(S) /\ Len(r) = Len(s) - 1 /\ \A j \in 1 .. Len(s) - 1 : r[j] = s[j + 1]
  BY <1>1
<1>3. IsList(r) /\ r # << >> /\ Len(s) \in Nat
  BY <1>1, <1>2 DEF IsList
<1>. HIDE DEF r
<1>4. /\ IsList(t) /\ Len(t) = Len(r) /\ Deep(t, Len(r)) = x
      /\ SameBelow(r, t, Len(r) - 1)
      /\ Deep(r, Len(r)) = Head(r)
  BY <1>3, TopReplaced
<1>. HIDE DEF t
<1>5. Len(s) >= 2
  BY <1>2, <1>3
<1>6. \A d \in 1 .. Len(r) : Deep(r, d) = Deep(s, d)
  <2>. SUFFICES ASSUME NEW d \in 1 .. Len(r) PROVE Deep(r, d) = Deep(s, d)
    OBVIOUS
  <2>1. Len(r) + 1 - d \in 1 .. Len(s) - 1 /\ Len(r) + 1 - d + 1 = Len(s) + 1 - d
    BY <1>2, <1>3
  <2>. QED BY <1>2, <2>1 DEF Deep
<1>7. SameBelow(s, t, Len(s) - 2)
  BY <1>2, <1>3, <1>4, <1>6 DEF SameBelow
<1>8. Deep(s, Len(s) - 1) = Head(r)
  BY <1>2, <1>3, <1>4, <1>5, <1>6
<1>. QED BY <1>2, <1>3, <1>4, <1>5, <1>7, <1>8 DEF r, t

-----------------------------------------------------------------------------
(* M gives the frames that follow a link, by depth, with the object that   *)
(* was current when they followed it: each of these objects is the last    *)
(* child of the one before it, the first is the root, and cur is the last  *)
(* child of the innermost one.                                             *)
Child(l, o) == Last(l[o].subgroups)

Chain(M, cur, l) ==
    /\ DOMAIN M \subseteq Nat
    /\ cur \in 1 .. Len(l)
    /\ DOMAIN M = {} => cur = 1
    /\ \A d \in DOMAIN M : M[d] \in 1 .. Len(l) /\ M[d] < cur
    /\ \A d, e \in DOMAIN M : d < e => M[d] < M[e]
    /\ \A d \in DOMAIN M : (\A e \in DOMAIN M : d <= e) => M[d] = 1
    /\ \A d \in DOMAIN M : (\A e \in DOMAIN M : e <= d) => cur = Child(l, M[d])
    /\ \A d, e \in DOMAIN M :
         (d < e /\ \A x \in DOMAIN M : x <= d \/ e <= x) => M[e] = Child(l, M[d])

(* What is noted of an object changes nothing of who its children are.     *)
LEMMA ChainSame ==
    ASSUME NEW M, NEW cur, NEW l, NEW k, Chain(M, cur, l), Len(k) = Len(l),
           \A o \in 1 .. Len(l) : k[o].subgroups = l[o].subgroups
    PROVE  Chain(M, cur, k)
<1>1. \A o \in 1 .. Len(l) : Child(k, o) = Child(l, o)
  BY DEF Child
<1>. QED BY <1>1 DEF Chain

(* A frame deeper than those of M follows a link from object o.            *)
Marked(M, N, m, o) ==
    /\ m \in Nat /\ DOMAIN N = DOMAIN M \cup {m} /\ N[m] = o
    /\ \A d \in DOMAIN M : d < m /\ N[d] = M[d]

(* The deepest frame of M is done with its link from object o.             *)
Unmarked(M, N, o) ==
    \E m \in DOMAIN M :
        /\ M[m] = o /\ DOMAIN N = DOMAIN M \ {m}
        /\ \A d \in DOMAIN M : d <= m
        /\ \A d \in DOMAIN N : N[d] = M[d]

(* Object c has got a new child.                                           *)
NewChild(l, k, c) ==
    /\ Len(l) \in Nat /\ Len(k) = Len(l) + 1 /\ Child(k, c) = Len(l) + 1
    /\ \A o \in 1 .. Len(l) : o # c => k[o].subgroups = l[o].subgroups

(* A link is followed: the current object waits, its new child is current. *)
LEMMA ChainGrows ==
    ASSUME NEW M, NEW cur, NEW l, Chain(M, cur, l),
           NEW N, NEW m, Marked(M, N, m, cur), NEW k, NewChild(l, k, cur)
    PROVE  Chain(N, Len(l) + 1, k)
<1>. Len(l) \in Nat /\ m \in Nat /\ Len(k) = Len(l) + 1 /\ Child(k, cur) = Len(l) + 1
  BY DEF Marked, NewChild
<1>. DOMAIN N = DOMAIN M \cup {m} /\ N[m] = cur
  BY DEF Marked
<1>. \A d \in DOMAIN M : d < m /\ N[d] = M[d]
  BY DEF Marked
<1>. \A o \in 1 .. Len(l) : o # cur => k[o].subgroups = l[o].subgroups
  BY DEF NewChild
<1>1. \A o \in 1 .. Len(l) : o # cur => Child(k, o) = Child(l, o)
  BY DEF Child
<1>2. DOMAIN N \subseteq Nat /\ cur \in 1 .. Len(l) /\ m \notin DOMAIN M
  BY DEF Chain
<1>3. \A d \in DOMAIN M : N[d] \in 1 .. Len(l) /\ N[d] < cur /\ Child(k, N[d]) = Child(l, N[d])
  BY <1>1, <1>2 DEF Chain
<1>4. \A d \in DOMAIN N : N[d] \in 1 .. Len(k) /\ N[d] < Len(l) + 1
  BY <1>2, <1>3
<1>5. \A d, e \in DOMAIN N : d < e => N[d] < N[e]
  BY <1>2, <1>3 DEF Chain
<1>6. ASSUME NEW d \in DOMAIN N, \A e \in DOMAIN N : d <= e PROVE N[d] = 1
  <2>1. CASE d = m
    <3>1. ASSUME NEW e \in DOMAIN M PROVE FALSE
      <4>1. m <= e /\ e < m /\ e \in Nat
        BY <1>2, <1>6, <2>1
      <4>. QED BY <4>1
    <3>. QED BY <2>1, <3>1 DEF Chain
  <2>2. CASE d # m
    BY <1>6, <2>2 DEF Chain
  <2>. QED BY <2>1, <2>2
<1>7. ASSUME NEW d \in DOMAIN N, \A e \in DOMAIN N : e <= d PROVE Len(l) + 1 = Child(k, N[d])
  <2>1. d = m
    BY <1>2, <1>7 DEF Chain
  <2>. QED BY <2>1
<1>8. ASSUME NEW d \in DOMAIN N, NEW e \in DOMAIN N, d < e,
             \A x \in DOMAIN N : x <= d \/ e <= x
      PROVE  N[e] = Child(k, N[d])
  <2>1. d \in DOMAIN M
    BY <1>2, <1>8 DEF Chain
  <2>2. CASE e = m
    <3>1. \A x \in DOMAIN M : x <= d
      BY <1>2, <1>8, <2>2 DEF Chain
    <3>. QED BY <1>3, <2>1, <2>2, <3>1 DEF Chain
  <2>3. CASE e # m
    BY <1>3, <1>8, <2>1, <2>3 DEF Chain
  <2>. QED BY <2>2, <2>3
<1>9. Len(l) + 1 \in 1 .. Len(k) /\ DOMAIN N # {}
  OBVIOUS
<1>. QED BY <1>2, <1>4, <1>5, <1>6, <1>7, <1>8, <1>9 DEF Chain

(* The innermost of these frames gets its object back.                     *)
LEMMA ChainShrinks ==
    ASSUME NEW M, NEW cur, NEW l, Chain(M, cur, l), Len(l) \in Nat,
           NEW N, NEW c, Unmarked(M, N, c)
    PROVE  Chain(N, c, l)
<1>. PICK m \in DOMAIN M :
       /\ M[m] = c /\ DOMAIN N = DOMAIN M \ {m}
       /\ \A d \in DOMAIN M : d <= m
       /\ \A d \in DOMAIN N : N[d] = M[d]
  BY DEF Unmarked
<1>1. DOMAIN M \subseteq Nat /\ DOMAIN N \subseteq Nat /\ M[m] \in 1 .. Len(l)
  BY DEF Chain
<1>2. \A d \in DOMAIN N : d < m
  BY <1>1
<1>3. DOMAIN N = {} => M[m] = 1
  <2>. SUFFICES ASSUME DOMAIN N = {} PROVE M[m] = 1
    OBVIOUS
  <2>1. \A e \in DOMAIN M : e = m
    OBVIOUS
  <2>2. \A e \in DOMAIN M : m <= e
    BY <1>1, <2>1
  <2>. QED BY <2>2 DEF Chain
<1>4. \A d \in DOMAIN N : N[d] \in 1 .. Len(l) /\ N[d] < M[m]
  BY <1>2 DEF Chain
<1>5. \A d, e \in DOMAIN N : d < e => N[d] < N[e]
  BY DEF Chain
<1>6. ASSUME NEW d \in DOMAIN N, \A e \in DOMAIN N : d <= e PROVE N[d] = 1
  <2>1. \A e \in DOMAIN M : d <= e
    BY <1>1, <1>2, <1>6
  <2>. QED BY <2>1 DEF Chain
<1>7. ASSUME NEW d \in DOMAIN N, \A e \in DOMAIN N : e <= d PROVE M[m] = Child(l, N[d])
  <2>1. d < m /\ \A x \in DOMAIN M : x <= d \/ m <= x
    BY <1>1, <1>2, <1>7
  <2>. QED BY <2>1 DEF Chain
<1>8. ASSUME NEW d \in DOMAIN N, NEW e \in DOMAIN N, d < e,
             \A x \in DOMAIN N : x <= d \/ e <= x
      PROVE  N[e] = Child(l, N[d])
  <2>1. \A x \in DOMAIN M : x <= d \/ e <= x
    BY <1>1, <1>2, <1>8
  <2>. QED BY <1>8, <2>1 DEF Chain
<1>. QED BY <1>1, <1>3, <1>4, <1>5, <1>6, <1>7, <1>8 DEF Chain

-----------------------------------------------------------------------------
(* The parts of a frame that the proof reads; a frame keeps its function.  *)
IsFrame(f) == {"fn", "want", "curr_obj"} \subseteq DOMAIN f

Continues(f, g) == IsFrame(f) /\ f.fn = g.fn /\ f.want = g.want

(* A frame that follows a link waits for the header just above it.         *)
Waits(s, d) ==
    /\ d < Len(s)
    /\ Deep(s, d).fn \in {"messages", "sym"}
    /\ Deep(s, d + 1).fn = "header" /\ ~ Deep(s, d + 1).want

Frames(s) ==
    /\ IsList(s)
    /\ \A d \in 1 .. Len(s) :
         IsFrame(Deep(s, d)) /\ (Deep(s, d).curr_obj # 0 => Waits(s, d))

Marks(s) ==
    [d \in {e \in 1 .. Len(s) : Deep(s, e).curr_obj # 0} |-> Deep(s, d).curr_obj]

LEMMA FramesReplaced ==
    ASSUME NEW s, Frames(s), s # << >>, NEW x, Continues(x, Head(s)),
           x.curr_obj = Head(s).curr_obj
    PROVE  LET t == << x >> \o Tail(s) IN Frames(t) /\ Marks(t) = Marks(s)
<1>. DEFINE t == << x >> \o Tail(s)
            n == Len(s)
<1>1. /\ IsList(s) /\ n \in Nat /\ n >= 1
      /\ IsList(t) /\ Len(t) = n /\ Deep(t, n) = x
      /\ SameBelow(s, t, n - 1) /\ Deep(s, n) = Head(s)
  BY TopReplaced, ListType DEF Frames
<1>. HIDE DEF t, n
<1>2. \A d \in 1 .. n : /\ Continues(Deep(t, d), Deep(s, d))
                         /\ Deep(t, d).curr_obj = Deep(s, d).curr_obj
  BY <1>1 DEF SameBelow, Frames, Continues, n
<1>3. \A d \in 1 .. n : Waits(s, d) => Waits(t, d)
  BY <1>1, <1>2 DEF Waits, Continues, n
<1>4. Frames(t)
  BY <1>1, <1>2, <1>3 DEF Frames, Continues, n
<1>5. Marks(t) = Marks(s)
  BY <1>1, <1>2 DEF Marks, n
<1>. QED BY <1>4, <1>5 DEF t

LEMMA FramesCalled ==
    ASSUME NEW s, Frames(s), s # << >>, NEW x, IsFrame(x), x.curr_obj = 0,
           NEW y, Continues(y, Head(s)), y.curr_obj = 0, Head(s).curr_obj = 0
    PROVE  LET t == << x, y >> \o Tail(s) IN Frames(t) /\ Marks(t) = Marks(s)
<1>. DEFINE t == << x, y >> \o Tail(s)
            n == Len(s)
<1>1. /\ IsList(s) /\ n \in Nat /\ n >= 1 /\ Deep(s, n) = Head(s)
      /\ IsList(t) /\ Len(t) = n + 1 /\ Deep(t, n) = y /\ Deep(t, n + 1) = x
      /\ SameBelow(s, t, n - 1)
  <2>1. IsList(s)
    BY DEF Frames
  <2>. QED BY <2>1, Highest, TopCalls
<1>. HIDE DEF t, n
<1>2. \A d \in 1 .. n : /\ Continues(Deep(t, d), Deep(s, d))
                         /\ Deep(t, d).curr_obj = Deep(s, d).curr_obj
  BY <1>1 DEF SameBelow, Frames, Continues, n
<1>3. ASSUME NEW d \in 1 .. n, Waits(s, d) PROVE Waits(t, d)
  <2>1. d + 1 \in 1 .. n /\ d < Len(t)
    BY <1>1, <1>3 DEF Waits, n
  <2>. QED BY <1>2, <1>3, <2>1 DEF Waits, Continues
<1>4. Frames(t)
  BY <1>1, <1>2, <1>3 DEF Frames, Continues, n
<1>5. Marks(t) = Marks(s)
  <2>1. {e \in 1 .. n + 1 : Deep(t, e).curr_obj # 0} = {e \in 1 .. n : Deep(s, e).curr_obj # 0}
    BY <1>1, <1>2
  <2>. QED BY <1>1, <1>2, <2>1 DEF Marks, n
<1>. QED BY <1>4, <1>5 DEF t

(* The frames of a link: the header it leads to, and the one that waits.   *)
LinkHeader(x) == IsFrame(x) /\ x.curr_obj = 0 /\ x.fn = "header" /\ ~ x.want
LinkFrame(y, f, c) == Continues(y, f) /\ y.curr_obj = c /\ c # 0 /\ y.fn \in {"messages", "sym"}

LEMMA FramesFollow ==
    ASSUME NEW s, Frames(s), s # << >>, Head(s).curr_obj = 0,
           NEW x, LinkHeader(x), NEW y, NEW c, LinkFrame(y, Head(s), c)
    PROVE  LET t == << x, y >> \o Tail(s)
           IN  Frames(t) /\ Marked(Marks(s), Marks(t), Len(s), c)
<1>. DEFINE t == << x, y >> \o Tail(s)
            n == Len(s)
<1>. IsFrame(x) /\ x.curr_obj = 0 /\ x.fn = "header" /\ ~ x.want
  BY DEF LinkHeader
<1>. Continues(y, Head(s)) /\ y.curr_obj = c /\ c # 0 /\ y.fn \in {"messages", "sym"}
  BY DEF LinkFrame
<1>1. /\ IsList(s) /\ n \in Nat /\ n >= 1 /\ Deep(s, n) = Head(s)
      /\ IsList(t) /\ Len(t) = n + 1 /\ Deep(t, n) = y /\ Deep(t, n + 1) = x
      /\ SameBelow(s, t, n - 1)
  <2>1. IsList(s)
    BY DEF Frames
  <2>. QED BY <2>1, Highest, TopCalls
<1>. HIDE DEF t, n
<1>2. /\ \A d \in 1 .. n : Continues(Deep(t, d), Deep(s, d))
      /\ \A d \in 1 .. n - 1 : Deep(t, d).curr_obj = Deep(s, d).curr_obj
  BY <1>1 DEF SameBelow, Frames, Continues, n
<1>3. ASSUME NEW d \in 1 .. n, Waits(s, d) PROVE Waits(t, d)
  <2>1. d + 1 \in 1 .. n /\ d < Len(t)
    BY <1>1, <1>3 DEF Waits, n
  <2>. QED BY <1>2, <1>3, <2>1 DEF Waits, Continues
<1>4. Waits(t, n)
  BY <1>1 DEF Waits
<1>5. Frames(t)
  BY <1>1, <1>2, <1>3, <1>4 DEF Frames, Continues, n
<1>6. {e \in 1 .. n + 1 : Deep(t, e).curr_obj # 0} = {e \in 1 .. n : Deep(s, e).curr_obj # 0} \cup {n}
  BY <1>1, <1>2
<1>7. {e \in 1 .. n : Deep(s, e).curr_obj # 0} = {e \in 1 .. n - 1 : Deep(s, e).curr_obj # 0}
  BY <1>1
<1>8. Marked(Marks(s), Marks(t), n, c)
  BY <1>1, <1>2, <1>6, <1>7 DEF Marked, Marks, n
<1>. QED BY <1>5, <1>8 DEF t, n

LEMMA FramesReturn ==
    ASSUME NEW s, Frames(s), s # << >>, Tail(s) # << >>, Head(s).curr_obj = 0,
           NEW x, Continues(x, Head(Tail(s))), x.curr_obj = 0
    PROVE  LET t == << x >> \o Tail(Tail(s))
               p == Head(Tail(s))
           IN  /\ Frames(t)
               /\ p.curr_obj = 0 => Marks(t) = Marks(s)
               /\ p.curr_obj # 0 => Unmarked(Marks(s), Marks(t), p.curr_obj)
<1>. DEFINE t == << x >> \o Tail(Tail(s))
            p == Head(Tail(s))
            n == Len(s) - 1
<1>1. /\ IsList(s) /\ n \in Nat /\ n >= 1 /\ Len(s) = n + 1
      /\ Deep(s, n + 1) = Head(s) /\ Deep(s, n) = p
      /\ IsList(t) /\ Len(t) = n /\ Deep(t, n) = x
      /\ SameBelow(s, t, n - 1)
  <2>1. IsList(s) /\ Len(s) \in Nat /\ Len(s) >= 1
    BY ListType DEF Frames
  <2>2. /\ IsList(t) /\ Len(t) = Len(s) - 1 /\ Len(s) >= 2 /\ Deep(t, Len(s) - 1) = x
        /\ SameBelow(s, t, Len(s) - 2) /\ Deep(s, Len(s) - 1) = p
    BY <2>1, TopReturns
  <2>3. Deep(s, Len(s)) = Head(s)
    BY <2>1, TopReplaced
  <2>4. Len(s) - 2 = n - 1 /\ n + 1 = Len(s)
    BY <2>1
  <2>. HIDE DEF t, p
  <2>. QED BY <2>1, <2>2, <2>3, <2>4
<1>. HIDE DEF t, n, p
<1>2. /\ \A d \in 1 .. n : Continues(Deep(t, d), Deep(s, d))
      /\ \A d \in 1 .. n - 1 : Deep(t, d).curr_obj = Deep(s, d).curr_obj
  BY <1>1 DEF SameBelow, Frames, Continues, p
<1>3. \A d \in 1 .. n - 1 : Waits(s, d) => Waits(t, d)
  BY <1>1, <1>2 DEF Waits, Continues
<1>4. Frames(t)
  BY <1>1, <1>2, <1>3 DEF Frames, Continues
<1>5. {e \in 1 .. n : Deep(t, e).curr_obj # 0} = {e \in 1 .. n - 1 : Deep(s, e).curr_obj # 0}
  BY <1>1, <1>2
<1>6. CASE p.curr_obj = 0
  <2>1. {e \in 1 .. n + 1 : Deep(s, e).curr_obj # 0} = {e \in 1 .. n - 1 : Deep(s, e).curr_obj # 0}
    BY <1>1, <1>6
  <2>2. Marks(t) = Marks(s)
    BY <1>1, <1>2, <1>5, <2>1 DEF Marks
  <2>. QED BY <1>4, <1>6, <2>2 DEF t, p
<1>7. CASE p.curr_obj # 0
  <2>1. {e \in 1 .. n + 1 : Deep(s, e).curr_obj # 0}
          = {e \in 1 .. n - 1 : Deep(s, e).curr_obj # 0} \cup {n}
    BY <1>1, <1>7
  <2>2. /\ n \in DOMAIN Marks(s) /\ Marks(s)[n] = p.curr_obj
        /\ \A d \in DOMAIN Marks(s) : d <= n
        /\ DOMAIN Marks(t) = DOMAIN Marks(s) \ {n}
        /\ \A d \in DOMAIN Marks(t) : Marks(t)[d] = Marks(s)[d]
    BY <1>1, <1>2, <1>5, <2>1 DEF Marks
  <2>3. Unmarked(Marks(s), Marks(t), p.curr_obj)
    BY <2>2 DEF Unmarked
  <2>. QED BY <1>4, <1>7, <2>3 DEF t, p
<1>. QED BY <1>6, <1>7

-----------------------------------------------------------------------------
(* The objects of the logger have lists of children; what is noted of an   *)
(* object leaves them alone.                                               *)
IsObject(ob) == "subgroups" \in DOMAIN ob /\ IsList(ob.subgroups)

Objects(l) == IsList(l) /\ \A o \in 1 .. Len(l) : IsObject(l[o])

Noted(l, k) ==
    /\ IsList(k) /\ Len(k) = Len(l)
    /\ \A o \in 1 .. Len(l) : "subgroups" \in DOMAIN k[o] /\ k[o].subgroups = l[o].subgroups

LEMMA NotedNothing == ASSUME NEW l, Objects(l) PROVE Noted(l, l)
BY DEF Noted, Objects, IsObject

LEMMA NotedOne ==
    ASSUME NEW l, Objects(l), NEW c \in 1 .. Len(l),
           NEW v, "subgroups" \in DOMAIN v, v.subgroups = l[c].subgroups
    PROVE  Noted(l, [l EXCEPT ![c] = v])
<1>1. PICK S : l \in Seq(S)
  BY DEF Objects, IsList
<1>2. l \in Seq(S \cup {v})
  BY <1>1
<1>3. [l EXCEPT ![c] = v] \in Seq(S \cup {v}) /\ Len([l EXCEPT ![c] = v]) = Len(l)
  BY <1>2
<1>4. \A o \in 1 .. Len(l) : [l EXCEPT ![c] = v][o] = IF o = c THEN v ELSE l[o]
  BY <1>2
<1>. QED BY <1>3, <1>4 DEF Noted, Objects, IsObject, IsList

LEMMA ObjectsNoted == ASSUME NEW l, Objects(l), NEW k, Noted(l, k) PROVE Objects(k)
BY DEF Noted, Objects, IsObject

(* A child is noted under the current object.                              *)
LEMMA Descended ==
    ASSUME NEW l, Objects(l), NEW c \in 1 .. Len(l), NEW ob, IsObject(ob)
    PROVE  LET k == Append([l EXCEPT ![c].subgroups = Append(@, Len(l) + 1)], ob)
           IN  Objects(k) /\ NewChild(l, k, c)
<1>. DEFINE n == Len(l)
            v == [l[c] EXCEPT !.subgroups = Append(@, n + 1)]
            m == [l EXCEPT ![c] = v]
            k == Append(m, ob)
<1>1. IsList(l) /\ n \in Nat /\ IsObject(l[c])
  BY ListType DEF Objects
<1>2. "subgroups" \in DOMAIN v /\ v.subgroups = Append(l[c].subgroups, n + 1)
  BY <1>1 DEF IsObject
<1>3. IsList(v.subgroups) /\ Last(v.subgroups) = n + 1
  <2>1. IsList(l[c].subgroups)
    BY <1>1 DEF IsObject
  <2>. HIDE DEF v
  <2>. QED BY <1>2, <2>1, Appended DEF Last
<1>4. PICK S : l \in Seq(S)
  BY <1>1 DEF IsList
<1>. HIDE DEF v, n
<1>5. /\ IsList(m) /\ Len(m) = n
      /\ \A o \in 1 .. n : m[o] = IF o = c THEN v ELSE l[o]
  <2>1. l \in Seq(S \cup {v}) /\ Len(l) = n
    BY <1>4 DEF n
  <2>2. m \in Seq(S \cup {v}) /\ Len(m) = n
    BY <2>1
  <2>. QED BY <2>1, <2>2 DEF IsList
<1>. HIDE DEF m
<1>6. /\ IsList(k) /\ Len(k) = n + 1 /\ k[n + 1] = ob
      /\ \A o \in 1 .. n : k[o] = m[o]
  BY <1>5, Appended
<1>. HIDE DEF k
<1>7. c \in 1 .. n /\ k[c] = v /\ \A o \in 1 .. n : o # c => k[o] = l[o]
  BY <1>5, <1>6 DEF n
<1>8. \A o \in 1 .. n + 1 : IsObject(k[o])
  <2>1. \A o \in 1 .. n : IsObject(k[o])
    BY <1>2, <1>3, <1>7 DEF Objects, IsObject, n
  <2>. QED BY <1>1, <1>6, <2>1
<1>9. Objects(k) /\ Child(k, c) = n + 1
  BY <1>3, <1>6, <1>7, <1>8 DEF Objects, Child
<1>10. NewChild(l, k, c)
  BY <1>1, <1>6, <1>7, <1>9 DEF NewChild, n
<1>. QED BY <1>9, <1>10 DEF k, m, v, n

-----------------------------------------------------------------------------
(* The invariant, and the kinds of steps.                                  *)
OpenInv ==
    /\ Frames(stack)
    /\ Objects(log)
    /\ pc = "check" => Chain(Marks(stack), current_obj, log)

Works ==
    /\ \E x : Replace(x) /\ Continues(x, Top) /\ x.curr_obj = Top.curr_obj
    /\ current_obj' = current_obj /\ Noted(log, log')

Calls ==
    /\ \E x, y : /\ Call(x, y) /\ IsFrame(x) /\ x.curr_obj = 0
                 /\ Continues(y, Top) /\ y.curr_obj = Top.curr_obj
    /\ current_obj' = current_obj /\ Noted(log, log')

Follows == Top.fn \in {"messages", "sym"} /\ \E name, header : FollowLink(name, header)

Returns == \E res, unprinted : Return(res, unprinted)

LEMMA NewFrame ==
    \A fn, at : LET f == Frame(fn, at)
                IN  IsFrame(f) /\ f.curr_obj = 0 /\ f.fn = fn /\ f.want = FALSE
BY DEF Frame, IsFrame

LEMMA NewObject == \A name, path : IsObject(NewObj(name, path))
<1>1. IsList(<< >>)
  <2>1. << >> \in Seq({})
    OBVIOUS
  <2>. QED BY <2>1 DEF IsList
<1>. QED BY <1>1 DEF NewObj, IsObject

(* The function that runs has not followed a link.                         *)
LEMMA TopIsFree ==
    ASSUME NEW s, Frames(s), s # << >>
    PROVE  Head(s).curr_obj = 0 /\ IsFrame(Head(s))
<1>1. Len(s) \in Nat /\ Len(s) >= 1 /\ Deep(s, Len(s)) = Head(s)
  BY Highest DEF Frames
<1>. QED BY <1>1 DEF Frames, Waits

LEMMA WorksKeeps ==
    ASSUME OpenInv, pc = "check", pc' = "check", stack # << >>, Works PROVE OpenInv'
<1>1. PICK x : Replace(x) /\ Continues(x, Top) /\ x.curr_obj = Top.curr_obj
  BY DEF Works
<1>2. Frames(stack') /\ Marks(stack') = Marks(stack)
  BY <1>1, FramesReplaced DEF OpenInv, Replace, Top
<1>3. Objects(log') /\ Noted(log, log') /\ current_obj' = current_obj
  BY ObjectsNoted DEF OpenInv, Works
<1>4. Chain(Marks(stack), current_obj, log')
  BY <1>3, ChainSame DEF OpenInv, Noted
<1>. QED BY <1>2, <1>3, <1>4 DEF OpenInv

LEMMA CallsKeeps ==
    ASSUME OpenInv, pc = "check", pc' = "check", stack # << >>, Calls PROVE OpenInv'
<1>1. PICK x, y : /\ Call(x, y) /\ IsFrame(x) /\ x.curr_obj = 0
                  /\ Continues(y, Top) /\ y.curr_obj = Top.curr_obj
  BY DEF Calls
<1>2. Top.curr_obj = 0
  BY TopIsFree DEF OpenInv, Top
<1>3. Frames(stack') /\ Marks(stack') = Marks(stack)
  BY <1>1, <1>2, FramesCalled DEF OpenInv, Call, Top
<1>4. Objects(log') /\ Noted(log, log') /\ current_obj' = current_obj
  BY ObjectsNoted DEF OpenInv, Calls
<1>5. Chain(Marks(stack), current_obj, log')
  BY <1>4, ChainSame DEF OpenInv, Noted
<1>. QED BY <1>3, <1>4, <1>5 DEF OpenInv

LEMMA FollowsKeeps ==
    ASSUME OpenInv, pc = "check", pc' = "check", stack # << >>, Follows PROVE OpenInv'
<1>1. PICK name, header : FollowLink(name, header)
  BY DEF Follows
<1>. DEFINE x == Frame("header", header)
            y == [Top EXCEPT !.curr_obj = current_obj]
<1>2. /\ log' = Descend(log, name) /\ current_obj' = Len(log) + 1
      /\ stack' = << x, y >> \o Tail(stack)
  BY <1>1 DEF FollowLink, Call
<1>3. Chain(Marks(stack), current_obj, log) /\ Len(log) \in Nat /\ current_obj \in 1 .. Len(log)
  BY ListType DEF OpenInv, Objects, Chain
<1>4. Top.curr_obj = 0 /\ LinkFrame(y, Top, current_obj)
  <2>1. Top.curr_obj = 0 /\ IsFrame(Top)
    BY TopIsFree DEF OpenInv, Top
  <2>2. Continues(y, Top) /\ y.curr_obj = current_obj
    BY <2>1 DEF IsFrame, Continues
  <2>. QED BY <1>3, <2>1, <2>2 DEF Follows, Continues, LinkFrame
<1>5. LinkHeader(x)
  BY NewFrame DEF LinkHeader
<1>. HIDE DEF x, y
<1>6. Frames(stack') /\ Marked(Marks(stack), Marks(stack'), Len(stack), current_obj)
  <2>1. Frames(stack) /\ Head(stack).curr_obj = 0 /\ LinkFrame(y, Head(stack), current_obj)
    BY <1>4 DEF OpenInv, Top
  <2>. QED BY <1>2, <1>5, <2>1, FramesFollow
<1>7. Objects(log') /\ NewChild(log, log', current_obj)
  <2>. DEFINE ob == NewObj(name, PathBelow(log, name))
  <2>1. Objects(log) /\ IsObject(ob)
    BY NewObject DEF OpenInv
  <2>2. log' = Append([log EXCEPT ![current_obj].subgroups = Append(@, Len(log) + 1)], ob)
    BY <1>2 DEF Descend
  <2>. HIDE DEF ob
  <2>. QED BY <1>3, <2>1, <2>2, Descended
<1>8. Chain(Marks(stack'), Len(log) + 1, log')
  BY <1>3, <1>6, <1>7, ChainGrows
<1>. QED BY <1>2, <1>6, <1>7, <1>8 DEF OpenInv

LEMMA ReturnsKeeps ==
    ASSUME OpenInv, pc = "check", pc' = "check", stack # << >>, Returns PROVE OpenInv'
<1>1. PICK res, unprinted : Return(res, unprinted)
  BY DEF Returns
<1>2. log' = log /\ Top = Head(stack) /\ Top.curr_obj = 0
  BY <1>1, TopIsFree DEF OpenInv, Return, Top
<1>3. Chain(Marks(stack), current_obj, log) /\ Len(log) \in Nat
  BY ListType DEF OpenInv, Objects
<1>4. CASE Tail(stack) = << >>
  <2>1. stack' = << >> /\ current_obj' = current_obj
    BY <1>1, <1>4 DEF Return
  <2>2. Frames(<< >>) /\ DOMAIN Marks(<< >>) = {}
    <3>1. IsList(<< >>) /\ Len(<< >>) = 0
      <4>1. << >> \in Seq({})
        OBVIOUS
      <4>. QED BY <4>1 DEF IsList
    <3>2. 1 .. Len(<< >>) = {}
      BY <3>1
    <3>. QED BY <3>1, <3>2 DEF Frames, Marks
  <2>3. Len(stack) = 1 /\ Deep(stack, 1) = Head(stack)
    <3>1. PICK S : stack \in Seq(S)
      BY DEF OpenInv, Frames, IsList
    <3>2. /\ Len(stack) \in Nat /\ Len(Tail(stack)) = Len(stack) - 1
          /\ Head(stack) = stack[1] /\ Tail(stack) \in Seq(S)
      BY <3>1
    <3>3. Len(Tail(stack)) = 0
      BY <1>4, <3>2, ListType DEF IsList
    <3>4. Len(stack) = 1
      <4>. DEFINE n == Len(stack)
                  m == Len(Tail(stack))
      <4>1. n \in Nat /\ m = n - 1 /\ m = 0
        BY <3>2, <3>3
      <4>. HIDE DEF n, m
      <4>2. n = 1
        BY <4>1
      <4>. QED BY <4>2 DEF n
    <3>. QED BY <3>2, <3>4 DEF Deep
  <2>4. DOMAIN Marks(stack) = {}
    BY <1>2, <2>3 DEF Marks
  <2>5. Chain(Marks(<< >>), current_obj, log)
    BY <1>3, <2>2, <2>4 DEF Chain
  <2>. QED BY <1>2, <2>1, <2>2, <2>5 DEF OpenInv
<1>5. CASE Tail(stack) # << >>
  <2>. DEFINE p == Head(Tail(stack))
              x == Absorb(p, Top, res)
  <2>1. stack' = << x >> \o Tail(Tail(stack)) /\ current_obj' = Restored(p)
    BY <1>1, <1>5 DEF Return
  <2>2. /\ IsFrame(p)
        /\ p.curr_obj # 0 =>
             p.fn \in {"messages", "sym"} /\ Top.fn = "header" /\ ~ Top.want
    <3>1. IsList(stack)
      BY DEF OpenInv, Frames
    <3>2. /\ Len(stack) >= 2 /\ Len(stack) \in Nat
          /\ Deep(stack, Len(stack) - 1) = p /\ Deep(stack, Len(stack)) = Top
      BY <1>2, <1>5, <3>1, TopReturns, Highest
    <3>3. Len(stack) - 1 \in 1 .. Len(stack) /\ Len(stack) - 1 + 1 = Len(stack)
      BY <3>2
    <3>. QED BY <3>2, <3>3 DEF OpenInv, Frames, Waits
  <2>3. Continues(x, p) /\ x.curr_obj = 0
    BY <2>2 DEF Absorb, IsFrame, Continues
  <2>. HIDE DEF x
  <2>4. /\ Frames(stack')
        /\ p.curr_obj = 0 => Marks(stack') = Marks(stack)
        /\ p.curr_obj # 0 => Unmarked(Marks(stack), Marks(stack'), p.curr_obj)
    <3>1. Frames(stack) /\ Head(stack).curr_obj = 0
      BY <1>2 DEF OpenInv
    <3>. QED BY <1>5, <2>1, <2>3, <3>1, FramesReturn
  <2>. HIDE DEF p
  <2>5. Chain(Marks(stack'), current_obj', log)
    BY <1>3, <2>1, <2>4, ChainShrinks DEF Restored
  <2>. QED BY <1>2, <2>4, <2>5 DEF OpenInv
<1>. QED BY <1>4, <1>5

-----------------------------------------------------------------------------
(* Every step of the walk is of one of these kinds.                        *)
LEMMA NotedField ==
    ASSUME NEW l, Objects(l), NEW c \in 1 .. Len(l), NEW x
    PROVE  /\ Noted(l, [l EXCEPT ![c].type = x]) /\ Noted(l, [l EXCEPT ![c].base = x])
           /\ Noted(l, [l EXCEPT ![c].obj_header = x]) /\ Noted(l, [l EXCEPT ![c].local_heap = x])
           /\ Noted(l, [l EXCEPT ![c].data_segment = x]) /\ Noted(l, [l EXCEPT ![c].btree_nodes = x])
           /\ Noted(l, [l EXCEPT ![c].sym_nodes = x]) /\ Noted(l, [l EXCEPT ![c].data_chunks = x])
<1>1. \A v : "subgroups" \in DOMAIN v /\ v.subgroups = l[c].subgroups => Noted(l, [l EXCEPT ![c] = v])
  BY NotedOne
<1>2. "subgroups" \in DOMAIN l[c]
  BY DEF Objects, IsObject
<1>3. /\ Noted(l, [l EXCEPT ![c] = [l[c] EXCEPT !.type = x]])
      /\ Noted(l, [l EXCEPT ![c] = [l[c] EXCEPT !.base = x]])
      /\ Noted(l, [l EXCEPT ![c] = [l[c] EXCEPT !.obj_header = x]])
      /\ Noted(l, [l EXCEPT ![c] = [l[c] EXCEPT !.local_heap = x]])
      /\ Noted(l, [l EXCEPT ![c] = [l[c] EXCEPT !.data_segment = x]])
      /\ Noted(l, [l EXCEPT ![c] = [l[c] EXCEPT !.btree_nodes = x]])
      /\ Noted(l, [l EXCEPT ![c] = [l[c] EXCEPT !.sym_nodes = x]])
      /\ Noted(l, [l EXCEPT ![c] = [l[c] EXCEPT !.data_chunks = x]])
  BY <1>1, <1>2
<1>. QED BY <1>3

LEMMA NotedTwice == ASSUME NEW l, NEW k, NEW j, Noted(l, k), Noted(k, j) PROVE Noted(l, j)
BY DEF Noted

(* Where the functions note something.                                     *)
LEMMA Logging ==
    ASSUME OpenInv, pc = "check"
    PROVE  /\ Noted(log, log)
           /\ \A x, y : Noted(log, [log EXCEPT ![current_obj].base = x, ![current_obj].obj_header = y])
           /\ \A x : /\ Noted(log, [log EXCEPT ![current_obj].type = x])
                     /\ Noted(log, [log EXCEPT ![current_obj].btree_nodes = x])
                     /\ Noted(log, [log EXCEPT ![current_obj].sym_nodes = x])
                     /\ Noted(log, [log EXCEPT ![current_obj].data_chunks = x])
           /\ \A a : /\ Noted(log, LheapLogged(log, a))
                     /\ Noted(log, LheapLogged([log EXCEPT ![current_obj].type = "GROUP"], a))
<1>. DEFINE c == current_obj
<1>1. Objects(log) /\ c \in 1 .. Len(log)
  BY DEF OpenInv, Chain
<1>2. ASSUME NEW l, Objects(l), Len(l) = Len(log), NEW x, NEW y
      PROVE  /\ Noted(l, [l EXCEPT ![c].base = x, ![c].obj_header = y])
             /\ Noted(l, [l EXCEPT ![c].local_heap = x, ![c].data_segment = y])
  <2>. DEFINE k == [l EXCEPT ![c].base = x]
              j == [l EXCEPT ![c].local_heap = x]
  <2>1. Noted(l, k) /\ Noted(l, j)
    BY <1>1, <1>2, NotedField
  <2>2. Objects(k) /\ Len(k) = Len(l) /\ Objects(j) /\ Len(j) = Len(l)
    BY <1>2, <2>1, ObjectsNoted DEF Noted
  <2>. HIDE DEF k, j
  <2>3. Noted(k, [k EXCEPT ![c].obj_header = y]) /\ Noted(j, [j EXCEPT ![c].data_segment = y])
    BY <1>1, <1>2, <2>2, NotedField
  <2>4. Noted(l, [k EXCEPT ![c].obj_header = y]) /\ Noted(l, [j EXCEPT ![c].data_segment = y])
    BY <2>1, <2>3, NotedTwice
  <2>5. [l EXCEPT ![c].base = x, ![c].obj_header = y] = [k EXCEPT ![c].obj_header = y]
    BY DEF k
  <2>6. [l EXCEPT ![c].local_heap = x, ![c].data_segment = y] = [j EXCEPT ![c].data_segment = y]
    BY DEF j
  <2>. QED BY <2>4, <2>5, <2>6
<1>3. \A x, a :
        /\ Noted(log, [log EXCEPT ![c].type = x]) /\ Noted(log, [log EXCEPT ![c].btree_nodes = x])
        /\ Noted(log, [log EXCEPT ![c].sym_nodes = x]) /\ Noted(log, [log EXCEPT ![c].data_chunks = x])
  BY <1>1, NotedField
<1>4. ASSUME NEW a PROVE Noted(log, LheapLogged([log EXCEPT ![c].type = "GROUP"], a))
  <2>. DEFINE k == [log EXCEPT ![c].type = "GROUP"]
  <2>1. Noted(log, k)
    BY <1>3
  <2>2. Objects(k) /\ Len(k) = Len(log)
    BY <1>1, <2>1, ObjectsNoted DEF Noted
  <2>. HIDE DEF k
  <2>3. Noted(k, LheapLogged(k, a))
    BY <1>2, <2>2 DEF LheapLogged
  <2>. QED BY <2>1, <2>3, NotedTwice DEF k
<1>5. \A a : Noted(log, LheapLogged(log, a))
  BY <1>1, <1>2 DEF LheapLogged
<1>6. Noted(log, log)
  BY <1>1, NotedNothing
<1>7. \A x, y : Noted(log, [log EXCEPT ![c].base = x, ![c].obj_header = y])
  BY <1>1, <1>2
<1>. QED BY <1>3, <1>4, <1>5, <1>6, <1>7

(* A step of the function on top of the stack.                             *)
Walks == pc = "check" /\ pc' = "check" /\ stack # << >>

Kinds == Walks /\ (Works \/ Calls \/ Follows \/ Returns)

LEMMA Frame0 ==
    ASSUME OpenInv, pc = "check", stack # << >>
    PROVE  {"fn", "want", "curr_obj"} \subseteq DOMAIN Top /\ Top.curr_obj = 0
BY TopIsFree DEF OpenInv, Top, IsFrame

LEMMA Returning == ASSUME NEW res, NEW n, Return(res, n) PROVE Returns /\ pc' = pc
BY DEF Return, Returns

LEMMA HeaderKinds == ASSUME OpenInv, HeaderStep PROVE Kinds
<1>1. CASE HeaderSeen
  <2>1. Walks /\ Returns
    BY <1>1, Returning DEF HeaderSeen, Running, Walks
  <2>. QED BY <2>1 DEF Kinds
<1>2. CASE HeaderReturn
  <2>1. Walks /\ Returns
    BY <1>2, Returning DEF HeaderReturn, Running, Walks
  <2>. QED BY <2>1 DEF Kinds
<1>3. CASE HeaderPrefix
  <2>1. Walks /\ log' = log /\ current_obj' = current_obj
    BY <1>3 DEF HeaderPrefix, Running, Walks, logger
  <2>2. \E x : Replace(x) /\ Continues(x, Top) /\ x.curr_obj = Top.curr_obj
    <3>. DEFINE x == [Top EXCEPT !.ret_err = @ + 1, !.pc = "done"]
                y == [Top EXCEPT !.pc = "chunk", !.chunk_size = Block(Top.at).size]
    <3>1. Replace(x) \/ Replace(y)
      BY <1>3 DEF HeaderPrefix
    <3>2. Continues(x, Top) /\ x.curr_obj = Top.curr_obj
      BY <2>1, Frame0 DEF Continues, IsFrame, Walks
    <3>3. Continues(y, Top) /\ y.curr_obj = Top.curr_obj
      BY <2>1, Frame0 DEF Continues, IsFrame, Walks
    <3>. HIDE DEF x, y
    <3>. QED BY <3>1, <3>2, <3>3
  <2>. QED BY <2>1, <2>2, Logging DEF Kinds, Works, Walks
<1>4. CASE HeaderChunk
  <2>1. Walks /\ log' = log /\ current_obj' = current_obj
    BY <1>4 DEF HeaderChunk, Running, Walks, logger
  <2>2. \E x : Replace(x) /\ Continues(x, Top) /\ x.curr_obj = Top.curr_obj
    <3>. DEFINE a == Top.chunk
                mesg == Top.mesg \o MessagesOf(a)
                next == Continuation(mesg, Top.i)
                corrupt == Cardinality(Corrupt(mesg, Top.i, next))
                errs == corrupt + IF fault[a] = "soft" THEN 1 ELSE 0
                x == [Top EXCEPT !.ret_err = @ + 1, !.pc = "done"]
                y == [Top EXCEPT !.mesg = mesg, !.ret_err = @ + errs,
                                 !.i = IF next = 0 THEN 1 ELSE next + 1,
                                 !.pc = IF next = 0 THEN "log" ELSE "chunk",
                                 !.chunk = IF next = 0 THEN a ELSE mesg[next].at,
                                 !.chunk_size = IF next = 0 THEN @ ELSE mesg[next].size]
    <3>1. Replace(x) \/ Replace(y)
      BY <1>4 DEF HeaderChunk
    <3>2. Continues(x, Top) /\ x.curr_obj = Top.curr_obj
      BY <2>1, Frame0 DEF Continues, IsFrame, Walks
    <3>. HIDE DEF mesg, next, errs
    <3>3. Continues(y, Top) /\ y.curr_obj = Top.curr_obj
      BY <2>1, Frame0 DEF Continues, IsFrame, Walks
    <3>. HIDE DEF x, y
    <3>. QED BY <3>1, <3>2, <3>3
  <2>. QED BY <2>1, <2>2, Logging DEF Kinds, Works, Walks
<1>5. CASE HeaderLog
  <2>1. Walks /\ current_obj' = current_obj /\ Noted(log, log')
    BY <1>5, Logging DEF HeaderLog, Running, Walks
  <2>2. \E x : Replace(x) /\ Continues(x, Top) /\ x.curr_obj = Top.curr_obj
    <3>1. Replace([Top EXCEPT !.pc = "done"])
      BY <1>5 DEF HeaderLog
    <3>. QED BY <2>1, <3>1, Frame0 DEF Continues, IsFrame, Walks
  <2>. QED BY <2>1, <2>2 DEF Kinds, Works
<1>6. CASE HeaderDone
  <2>1. CASE Top.mesg = << >>
    <3>1. Walks /\ Returns
      BY <1>6, <2>1, Returning DEF HeaderDone, Running, Walks
    <3>. QED BY <3>1 DEF Kinds
  <2>2. CASE Top.mesg # << >>
    <3>1. Walks /\ log' = log /\ current_obj' = current_obj
      BY <1>6, <2>2 DEF HeaderDone, Running, Walks, logger
    <3>2. Call([Frame("messages", Top.at) EXCEPT !.mesg = Top.mesg], [Top EXCEPT !.pc = "return"])
      BY <1>6, <2>2 DEF HeaderDone
    <3>3. \E x, y : /\ Call(x, y) /\ IsFrame(x) /\ x.curr_obj = 0
                    /\ Continues(y, Top) /\ y.curr_obj = Top.curr_obj
      BY <3>1, <3>2, Frame0 DEF Continues, IsFrame, Walks, Frame
    <3>. QED BY <3>1, <3>3, Logging DEF Kinds, Calls, Walks
  <2>. QED BY <2>1, <2>2
<1>7. CASE HeaderFull
  <2>1. Walks /\ log' = log /\ current_obj' = current_obj
    BY <1>7 DEF HeaderFull, Running, Walks, logger
  <2>2. \E x : Replace(x) /\ Continues(x, Top) /\ x.curr_obj = Top.curr_obj
    <3>. DEFINE mesg == SubSeq(Top.mesg \o MessagesOf(Top.chunk), 1, MaxMesgs)
                x == [Top EXCEPT !.mesg = mesg, !.ret_err = @ + 1, !.pc = "done"]
    <3>1. Replace(x)
      BY <1>7 DEF HeaderFull
    <3>. HIDE DEF mesg
    <3>2. Continues(x, Top) /\ x.curr_obj = Top.curr_obj
      BY <2>1, Frame0 DEF Continues, IsFrame, Walks
    <3>. HIDE DEF x
    <3>. QED BY <3>1, <3>2
  <2>. QED BY <2>1, <2>2, Logging DEF Kinds, Works, Walks
<1>. QED BY <1>1, <1>2, <1>3, <1>4, <1>5, <1>6, <1>7 DEF HeaderStep

(* The frame on top with other fields changed, and a new one.              *)
Same(x) == Continues(x, Top) /\ x.curr_obj = Top.curr_obj
Fresh(x) == IsFrame(x) /\ x.curr_obj = 0

LEMMA TopSame == ASSUME OpenInv, Walks PROVE Same(Top)
BY Frame0 DEF Same, Continues, IsFrame, Walks

LEMMA NextMesgSame == ASSUME OpenInv, Walks PROVE Same(NextMesg(Top))
BY Frame0 DEF Same, Continues, IsFrame, Walks, NextMesg

(* A step that keeps the current object.                                   *)
Stays == Walks /\ current_obj' = current_obj /\ Noted(log, log')

LEMMA WorksOn == ASSUME Stays, NEW x, Replace(x), Same(x) PROVE Kinds
BY DEF Stays, Kinds, Works, Same

LEMMA CallsOne == ASSUME Stays, NEW x, NEW y, Call(x, y), Fresh(x), Same(y) PROVE Kinds
BY DEF Stays, Kinds, Calls, Same, Fresh

LEMMA StaysUnlogged ==
    ASSUME OpenInv, Walks, current_obj' = current_obj, log' = log PROVE Stays
BY Logging DEF Stays, Walks

LEMMA MessageKinds == ASSUME OpenInv, MessageStep PROVE Kinds
<1>1. CASE MessagesDone
  <2>1. Walks /\ Returns
    BY <1>1, Returning DEF MessagesDone, Running, Walks
  <2>. QED BY <2>1 DEF Kinds
<1>2. CASE MessageDecoded
  <2>1. Walks /\ current_obj' = current_obj /\ log' = log /\ Replace(NextMesg(Top))
    BY <1>2 DEF MessageDecoded, InMessages, Running, Walks, Kept
  <2>2. Stays /\ Same(NextMesg(Top))
    BY <2>1, NextMesgSame, StaysUnlogged
  <2>. QED BY <2>1, <2>2, WorksOn
<1>3. CASE MessageUnread
  <2>. DEFINE x == [NextMesg(Top) EXCEPT !.ret_err = @ + 1]
  <2>1. Walks /\ current_obj' = current_obj /\ log' = log /\ Replace(x)
    BY <1>3 DEF MessageUnread, InMessages, Running, Walks, Kept
  <2>2. Same(x)
    BY <2>1, Frame0 DEF Same, Continues, IsFrame, Walks, NextMesg
  <2>. HIDE DEF x
  <2>3. Stays
    BY <2>1, StaysUnlogged
  <2>. QED BY <2>1, <2>2, <2>3, WorksOn
<1>4. CASE MessageEdf
  <2>. DEFINE x == [NextMesg(Top) EXCEPT !.ret_other_err = FAIL]
              y == [NextMesg(Top) EXCEPT !.ret_other_err = SUCCEED, !.ret_err = @ + Mesg.bad]
  <2>1. Stays
    BY <1>4, Logging DEF MessageEdf, InMessages, Running, Walks, Kept, Stays
  <2>2. Replace(x) \/ Replace(y)
    BY <1>4 DEF MessageEdf
  <2>3. Same(x) /\ Same(y)
    BY <2>1, Frame0 DEF Same, Continues, IsFrame, Walks, NextMesg, Stays
  <2>. HIDE DEF x, y
  <2>. QED BY <2>1, <2>2, <2>3, WorksOn
<1>5. CASE MessageLayout
  <2>. DEFINE x == Frame("btree", Mesg.tree)
              y == [Frame("btree2", Mesg.tree) EXCEPT !.mode = "chunks"]
  <2>1. Stays /\ Walks
    BY <1>5, Logging DEF MessageLayout, InMessages, Running, Walks, Kept, Stays
  <2>2. Replace(NextMesg(Top)) \/ Call(x, Top) \/ Call(y, NextMesg(Top))
    BY <1>5 DEF MessageLayout
  <2>3. Fresh(x) /\ Fresh(y)
    BY DEF Fresh, Frame, IsFrame
  <2>. HIDE DEF x, y
  <2>4. Same(Top) /\ Same(NextMesg(Top))
    BY <2>1, TopSame, NextMesgSame
  <2>. QED BY <2>1, <2>2, <2>3, <2>4, WorksOn, CallsOne
<1>6. CASE MessageGroup
  <2>. DEFINE x == Frame("btree", Mesg.tree)
              y == [NextMesg(Top) EXCEPT !.ret_other_err = @ + 1]
  <2>1. Stays /\ Walks
    BY <1>6, Logging DEF MessageGroup, InMessages, Running, Walks, Kept, Stays
  <2>2. Replace(y) \/ Call(x, Top)
    BY <1>6 DEF MessageGroup
  <2>3. Fresh(x)
    BY DEF Fresh, Frame, IsFrame
  <2>4. Same(y)
    BY <2>1, Frame0 DEF Same, Continues, IsFrame, Walks, NextMesg
  <2>. HIDE DEF x, y
  <2>. QED BY <2>1, <2>2, <2>3, <2>4, TopSame, WorksOn, CallsOne
<1>7. CASE MessageInfo
  <2>. DEFINE bad == FheapFails(Mesg)
              cb == IF bad \/ Mesg.fheap = Undef THEN "none"
                    ELSE IF Mesg.kind = "linfo" THEN "links" ELSE "attrs"
              trees == Defined(Mesg.corder) \o Defined(Mesg.byname)
              x == [Top EXCEPT !.pc = "indexes", !.mode = cb, !.todo = trees,
                               !.ret_other_err = @ + IF bad THEN 1 ELSE 0]
  <2>1. Stays /\ Walks
    BY <1>7, Logging DEF MessageInfo, InMessages, Running, Walks, Kept, Stays
  <2>2. Replace(x)
    BY <1>7 DEF MessageInfo
  <2>. HIDE DEF bad, cb, trees
  <2>3. Same(x)
    BY <2>1, Frame0 DEF Same, Continues, IsFrame, Walks
  <2>. HIDE DEF x
  <2>. QED BY <2>1, <2>2, <2>3, WorksOn
<1>8. CASE MessageIndex
  <2>1. Stays /\ Walks
    BY <1>8, Logging DEF MessageIndex, Running, Walks, Kept, Stays
  <2>. DEFINE x == [NextMesg(Top) EXCEPT !.pc = "enter"]
              y == [Frame("btree2", Head(Top.todo)) EXCEPT !.mode = Top.mode]
              z == [Top EXCEPT !.todo = Tail(@)]
  <2>2. Replace(x) \/ Call(y, z)
    BY <1>8 DEF MessageIndex
  <2>3. Same(x) /\ Same(z)
    BY <2>1, Frame0 DEF Same, Continues, IsFrame, Walks, NextMesg
  <2>4. Fresh(y)
    BY DEF Fresh, Frame, IsFrame
  <2>. HIDE DEF x, y, z
  <2>. QED BY <2>1, <2>2, <2>3, <2>4, WorksOn, CallsOne
<1>9. CASE MessageShared
  <2>. DEFINE x == [Frame("header", Mesg.header) EXCEPT !.want = TRUE]
  <2>1. Stays /\ Walks
    BY <1>9, Logging DEF MessageShared, InMessages, Running, Walks, Kept, Stays
  <2>2. Call(x, Top)
    BY <1>9 DEF MessageShared
  <2>3. Fresh(x)
    BY DEF Fresh, Frame, IsFrame
  <2>. HIDE DEF x
  <2>. QED BY <2>1, <2>2, <2>3, TopSame, CallsOne
<1>10. CASE MessageLink
  <2>1. Walks /\ Top.fn = "messages"
    BY <1>10 DEF MessageLink, InMessages, Running, Walks, Kept
  <2>2. CASE Mesg.header # Undef
    <3>1. Follows
      BY <1>10, <2>1, <2>2 DEF MessageLink, Follows
    <3>. QED BY <2>1, <3>1 DEF Kinds
  <2>3. CASE Mesg.header = Undef
    <3>1. Replace(NextMesg(Top)) /\ current_obj' = current_obj /\ log' = log
      BY <1>10, <2>3 DEF MessageLink
    <3>2. Stays /\ Same(NextMesg(Top))
      BY <2>1, <3>1, NextMesgSame, StaysUnlogged
    <3>. QED BY <3>1, <3>2, WorksOn
  <2>. QED BY <2>2, <2>3
<1>. QED BY <1>1, <1>2, <1>3, <1>4, <1>5, <1>6, <1>7, <1>8, <1>9, <1>10 DEF MessageStep

LEMMA BtreeKinds == ASSUME OpenInv, BtreeNode \/ BtreeEntry \/ BtreeDone PROVE Kinds
<1>1. CASE BtreeNode
  <2>. DEFINE b == Block(Top.at)
              errs == (IF fault[Top.at] = "soft" THEN 1 ELSE 0)
                      + (IF Exceeds(b, BtreeK(file.super, b.kind)) THEN 1 ELSE 0)
              x == [Top EXCEPT !.ret_err = 1, !.pc = "done"]
              y == [Top EXCEPT !.ret_err = errs, !.pc = "entries"]
  <2>1. Stays /\ Walks
    BY <1>1, Logging DEF BtreeNode, Running, Walks, Kept, Stays
  <2>2. Replace(x) \/ Replace(y)
    BY <1>1 DEF BtreeNode
  <2>. HIDE DEF errs
  <2>3. Same(x) /\ Same(y)
    BY <2>1, Frame0 DEF Same, Continues, IsFrame, Walks
  <2>. HIDE DEF x, y
  <2>. QED BY <2>1, <2>2, <2>3, WorksOn
<1>2. CASE BtreeEntry
  <2>. DEFINE child == Block(Top.at).items[Top.i]
              x == [Frame("btree", child) EXCEPT !.names = Top.names]
              y == [Frame("sym", child) EXCEPT !.names = Top.names]
              z == [Top EXCEPT !.i = @ + 1]
  <2>1. Stays /\ Walks
    BY <1>2, Logging DEF BtreeEntry, Running, Walks, Kept, Stays
  <2>2. Call(x, Top) \/ Call(y, Top) \/ Replace(z)
    BY <1>2 DEF BtreeEntry
  <2>3. Fresh(x) /\ Fresh(y)
    BY DEF Fresh, Frame, IsFrame
  <2>4. Same(z)
    BY <2>1, Frame0 DEF Same, Continues, IsFrame, Walks
  <2>. HIDE DEF x, y, z
  <2>. QED BY <2>1, <2>2, <2>3, <2>4, TopSame, WorksOn, CallsOne
<1>3. CASE BtreeDone
  <2>1. Walks /\ Returns
    BY <1>3, Returning DEF BtreeDone, Running, Walks
  <2>. QED BY <2>1 DEF Kinds
<1>. QED BY <1>1, <1>2, <1>3

LEMMA SymKinds == ASSUME OpenInv, SymUnread \/ SymNode \/ SymEntry \/ SymDone PROVE Kinds
<1>1. CASE SymNode
  <2>1. Stays /\ Walks
    BY <1>1, Logging DEF SymNode, Running, Walks, Kept, Stays
  <2>2. PICK errs \in NodeErrors(Top.at, Top.names) :
          Replace([Top EXCEPT !.ret_err = errs, !.pc = "entries",
                              !.names = WithNames(@, Block(Top.at).items)])
    BY <1>1 DEF SymNode
  <2>. DEFINE n == WithNames(Top.names, Block(Top.at).items)
              y == [Top EXCEPT !.ret_err = errs, !.pc = "entries", !.names = n]
  <2>3. Replace(y)
    BY <2>2
  <2>. HIDE DEF n
  <2>4. Same(y)
    BY <2>1, Frame0 DEF Same, Continues, IsFrame, Walks
  <2>. HIDE DEF y
  <2>. QED BY <2>1, <2>3, <2>4, WorksOn
<1>2. CASE SymEntry
  <2>. DEFINE x == [Top EXCEPT !.i = @ + 1]
  <2>1. Walks /\ Top.fn = "sym"
    BY <1>2 DEF SymEntry, Running, Walks, Kept
  <2>2. PICK ent \in EntryAt(Top.at, Top.i) :
          \/ FollowLink(ent.name, ent.header)
          \/ Replace(x) /\ current_obj' = current_obj /\ log' = log
    BY <1>2 DEF SymEntry
  <2>3. CASE FollowLink(ent.name, ent.header)
    BY <2>1, <2>3 DEF Kinds, Follows
  <2>4. CASE Replace(x) /\ current_obj' = current_obj /\ log' = log
    <3>1. Same(x)
      BY <2>1, Frame0 DEF Same, Continues, IsFrame, Walks
    <3>. HIDE DEF x
    <3>. QED BY <2>1, <2>4, <3>1, StaysUnlogged, WorksOn
  <2>. QED BY <2>2, <2>3, <2>4
<1>4. CASE SymUnread
  <2>. DEFINE x == [Top EXCEPT !.ret_err = 1, !.pc = "done"]
  <2>1. Walks /\ Replace(x) /\ current_obj' = current_obj /\ log' = log
    BY <1>4 DEF SymUnread, Running, Walks, Kept
  <2>2. Same(x)
    BY <2>1, Frame0 DEF Same, Continues, IsFrame, Walks
  <2>. HIDE DEF x
  <2>. QED BY <2>1, <2>2, StaysUnlogged, WorksOn
<1>3. CASE SymDone
  <2>1. Walks /\ Returns
    BY <1>3, Returning DEF SymDone, Running, Walks
  <2>. QED BY <2>1 DEF Kinds
<1>. QED BY <1>1, <1>2, <1>3, <1>4

LEMMA Btree2Kinds ==
    ASSUME OpenInv, Btree2Header \/ Btree2Leaf \/ Btree2Record \/ Btree2Node \/ Btree2Done
    PROVE  Kinds
<1>1. CASE Btree2Header
  <2>. DEFINE x == [Top EXCEPT !.ret_err = 1, !.pc = "done"]
              y == [Top EXCEPT !.pc = "leaf", !.chunk = Block(Top.at).items[1]]
  <2>1. Stays /\ Walks
    BY <1>1, Logging DEF Btree2Header, Running, Walks, Kept, Stays
  <2>2. Replace(x) \/ Replace(y)
    BY <1>1 DEF Btree2Header
  <2>3. Same(x) /\ Same(y)
    BY <2>1, Frame0 DEF Same, Continues, IsFrame, Walks
  <2>. HIDE DEF x, y
  <2>. QED BY <2>1, <2>2, <2>3, WorksOn
<1>2. CASE Btree2Leaf
  <2>. DEFINE x == [Top EXCEPT !.ret_err = 1, !.pc = "node"]
              y == [Top EXCEPT !.pc = "records"]
  <2>1. Stays /\ Walks
    BY <1>2, Logging DEF Btree2Leaf, Running, Walks, Kept, Stays
  <2>2. Replace(x) \/ Replace(y)
    BY <1>2 DEF Btree2Leaf
  <2>3. Same(x) /\ Same(y)
    BY <2>1, Frame0 DEF Same, Continues, IsFrame, Walks
  <2>. HIDE DEF x, y
  <2>. QED BY <2>1, <2>2, <2>3, WorksOn
<1>3. CASE Btree2Record
  <2>. DEFINE x == [Top EXCEPT !.i = @ + 1]
              y == Frame("header", Block(Top.chunk).items[Top.i])
  <2>1. Stays /\ Walks
    BY <1>3, Logging DEF Btree2Record, Running, Walks, Kept, Stays
  <2>2. Replace(x) \/ Call(y, Top)
    BY <1>3 DEF Btree2Record
  <2>3. Same(x)
    BY <2>1, Frame0 DEF Same, Continues, IsFrame, Walks
  <2>4. Fresh(y)
    BY DEF Fresh, Frame, IsFrame
  <2>. HIDE DEF x, y
  <2>. QED BY <2>1, <2>2, <2>3, <2>4, TopSame, WorksOn, CallsOne
<1>4. CASE Btree2Node
  <2>. DEFINE x == [Top EXCEPT !.ret_err = @ + 1, !.pc = "done"]
              y == [Top EXCEPT !.pc = "done"]
  <2>1. Stays /\ Walks
    BY <1>4, Logging DEF Btree2Node, Running, Walks, Kept, Stays
  <2>2. Replace(x) \/ Replace(y)
    BY <1>4 DEF Btree2Node
  <2>3. Same(x) /\ Same(y)
    BY <2>1, Frame0 DEF Same, Continues, IsFrame, Walks
  <2>. HIDE DEF x, y
  <2>. QED BY <2>1, <2>2, <2>3, WorksOn
<1>5. CASE Btree2Done
  <2>1. Walks /\ Returns
    BY <1>5, Returning DEF Btree2Done, Running, Walks
  <2>. QED BY <2>1 DEF Kinds
<1>. QED BY <1>1, <1>2, <1>3, <1>4, <1>5

(* Whatever the walk does, the open objects stay a chain.                  *)
LEMMA KindsKeep == ASSUME OpenInv, Kinds PROVE OpenInv'
BY WorksKeeps, CallsKeeps, FollowsKeeps, ReturnsKeeps DEF Kinds, Walks

(* The chain begins with the root.                                         *)
LEMMA InitKeeps == ASSUME OpenInv, FileInit PROVE OpenInv'
<1>1. CASE pc' # "check" /\ stack' = stack /\ log' = log
  BY <1>1 DEF OpenInv
<1>2. CASE /\ log' = <<NewObj(RootName, 1)>> /\ current_obj' = 1 /\ pc' = "check"
           /\ stack' = <<Frame("header", file.root)>>
  <2>. DEFINE ob == NewObj(RootName, 1)
              f == Frame("header", file.root)
  <2>1. IsObject(ob)
    BY NewObject
  <2>2. IsFrame(f) /\ f.curr_obj = 0
    BY DEF Frame, IsFrame
  <2>3. log' = <<ob>> /\ stack' = <<f>> /\ current_obj' = 1
    BY <1>2
  <2>. HIDE DEF ob, f
  <2>4. IsList(log') /\ Len(log') = 1 /\ log'[1] = ob
    BY <2>3, Single
  <2>5. IsList(stack') /\ Len(stack') = 1 /\ stack'[1] = f
    BY <2>3, Single
  <2>6. Objects(log')
    BY <2>1, <2>4 DEF Objects
  <2>7. Deep(stack', 1) = f
    BY <2>5 DEF Deep
  <2>8. Frames(stack')
    BY <2>2, <2>5, <2>7 DEF Frames
  <2>9. DOMAIN Marks(stack') = {}
    BY <2>2, <2>5, <2>7 DEF Marks
  <2>10. Chain(Marks(stack'), current_obj', log')
    BY <2>3, <2>4, <2>9 DEF Chain
  <2>. QED BY <2>6, <2>8, <2>10 DEF OpenInv
<1>. QED BY <1>1, <1>2 DEF FileInit

LEMMA OpenKept == ASSUME OpenInv, [Next]_vars PROVE OpenInv'
<1>1. CASE HeaderStep
  BY <1>1, HeaderKinds, KindsKeep
<1>2. CASE MessageStep
  BY <1>2, MessageKinds, KindsKeep
<1>3. CASE NodeStep
  BY <1>3, BtreeKinds, SymKinds, Btree2Kinds, KindsKeep DEF NodeStep
<1>4. CASE FileInit
  BY <1>4, InitKeeps
<1>5. CASE MainCheck \/ MainDone \/ Done \/ UNCHANGED vars
  BY <1>5 DEF MainCheck, MainDone, Done, vars, logger, OpenInv
<1>6. CASE CrashStep
  BY <1>6, Killed DEF OpenInv, logger
<1>. QED BY <1>1, <1>2, <1>3, <1>4, <1>5, <1>6 DEF Next, HeapSpins

LEMMA LeastOpen ==
    ASSUME NEW S \in SUBSET Nat, S # {} PROVE Min(S) \in S /\ \A y \in S : Min(S) <= y
<1>1. PICK m \in S : \A y \in S : ~ (<<y, m>> \in OpToRel(<, Nat))
  BY WFMin, NatLessThanWellFounded
<1>2. \A y \in S : ~ (y < m)
  BY <1>1 DEF OpToRel
<1>3. \A y \in S : m <= y
  BY <1>2
<1>. QED BY <1>3 DEF Min

(* The innermost frame that waits is the deepest one of the chain.         *)
LEMMA OpenIsCurrent == ASSUME OpenInv PROVE CurrentObjectIsOpen
<1>. DEFINE open == {j \in DOMAIN stack : stack[j].curr_obj # 0}
            M == Marks(stack)
            n == Len(stack)
<1>. SUFFICES ASSUME pc = "check"
              PROVE  current_obj = IF open = {} THEN 1
                                   ELSE Last(log[stack[Min(open)].curr_obj].subgroups)
  BY DEF CurrentObjectIsOpen
<1>1. Chain(M, current_obj, log) /\ n \in Nat /\ DOMAIN stack = 1 .. n
  BY ListType DEF OpenInv, Frames
<1>2. DOMAIN M = {d \in 1 .. n : n + 1 - d \in open} /\ \A d \in DOMAIN M : M[d] = stack[n + 1 - d].curr_obj
  <2>1. \A d \in 1 .. n : n + 1 - d \in 1 .. n
    BY <1>1
  <2>. QED BY <1>1, <2>1 DEF Marks, Deep
<1>. HIDE DEF M, n
<1>3. CASE open = {}
  <2>1. DOMAIN M = {}
    BY <1>2, <1>3
  <2>. QED BY <1>1, <1>3, <2>1 DEF Chain
<1>4. CASE open # {}
  <2>. DEFINE j == Min(open)
              d == n + 1 - j
  <2>1. open \subseteq 1 .. n
    BY <1>1
  <2>2. j \in open /\ \A k \in open : j <= k
    BY <1>4, <2>1, LeastOpen
  <2>. HIDE DEF open, j
  <2>3. d \in 1 .. n /\ n + 1 - d = j
    BY <1>1, <2>1, <2>2
  <2>4. d \in DOMAIN M /\ M[d] = stack[j].curr_obj
    BY <1>2, <2>2, <2>3
  <2>5. ASSUME NEW e \in DOMAIN M PROVE e <= d
    <3>1. e \in 1 .. n /\ j <= n + 1 - e
      BY <1>2, <2>2, <2>5
    <3>. QED BY <1>1, <2>1, <2>2, <3>1
  <2>6. current_obj = Child(log, M[d])
    BY <1>1, <2>4, <2>5 DEF Chain
  <2>. QED BY <1>4, <2>4, <2>6 DEF Child, j, open
<1>. QED BY <1>3, <1>4

LEMMA OpenInit == Init => OpenInv
<1>1. IsList(<< >>) /\ Len(<< >>) = 0
  <2>1. << >> \in Seq({})
    OBVIOUS
  <2>. QED BY <2>1 DEF IsList
<1>2. 1 .. Len(<< >>) = {}
  BY <1>1
<1>. QED BY <1>1, <1>2 DEF Init, OpenInv, Frames, Objects

(* For every file, its links and its faults: what h5check notes goes to    *)
(* the object of the link that is followed, and after a child to its       *)
(* parent again (check_obj_header, decode_validate_messages, check_sym).   *)
THEOREM CurrentIsOpen == Spec => []CurrentObjectIsOpen
<1>1. OpenInv => CurrentObjectIsOpen
  BY OpenIsCurrent
<1>. QED BY <1>1, OpenInit, OpenKept, PTL DEF Spec

-----------------------------------------------------------------------------
(* What the frames hold.                                                   *)
Fields == {"fn", "at", "pc", "i", "ret_err", "ret_other_err", "want", "curr_obj",
           "mesg", "chunk", "chunk_size", "mode", "todo", "names"}

IsMesg(F, m) == \E x \in Messages(F), a \in Addr : m = ReadFrom(x, a)
Mesgs(F, s) == IsList(s) /\ \A j \in 1 .. Len(s) : IsMesg(F, s[j])

(* A version 2 tree, by what is done with its records.                     *)
Tree(F, a, mode) ==
    LET leaf == F.block[a].items[1]
    IN  a \in Addr /\ leaf \in Addr /\ (mode = "links" => leaf \in Of(F, "links"))
Trees(F, s, mode) == IsList(s) /\ \A j \in 1 .. Len(s) : Tree(F, s[j], mode)

Typed(F, f) ==
    /\ Fields \subseteq DOMAIN f
    /\ f.at \in Addr /\ f.chunk \in Addr /\ f.i \in Nat \ {0} /\ f.ret_err \in Nat
    /\ f.fn \in {"header", "messages", "btree", "sym", "btree2"}
    /\ f.fn = "header" => f.chunk \in Headers(F)
    /\ f.fn \in {"header", "messages"} => Mesgs(F, f.mesg)
    /\ f.want => f.fn = "header"
    /\ f.fn = "messages" => Trees(F, f.todo, f.mode)
    /\ f.fn = "btree" => f.at \in Of(F, "groups") \cup Of(F, "raw")
    /\ f.fn = "sym" => f.at \in Of(F, "sym")
    /\ f.fn = "btree2" => Tree(F, f.at, f.mode)
    /\ f.fn = "btree2" /\ f.pc \in {"leaf", "records", "node"} => f.chunk = F.block[f.at].items[1]
    /\ f.fn \in {"header", "sym", "btree"} /\ f.pc = "enter" => f.ret_err = 0

LEMMA MesgFields ==
    ASSUME NEW F, NEW m, IsMesg(F, m)
    PROVE  /\ m.kind = "cont" => m.at \in Headers(F)
           /\ m.kind = "group" => m.tree \in Of(F, "groups")
           /\ m.kind = "layout" =>
                \/ m.tree = Undef
                \/ m.index = 1 /\ m.tree \in Of(F, "raw")
                \/ m.index # 1 /\ m.tree \in Indexes(F, "chunks")
           /\ m.kind = "linfo" =>
                m.corder \in Indexes(F, "links") \cup {Undef} /\ m.byname \in Indexes(F, "links") \cup {Undef}
           /\ m.kind = "ainfo" =>
                m.corder \in Indexes(F, "attrs") \cup {Undef} /\ m.byname \in Indexes(F, "attrs") \cup {Undef}
           /\ m.kind = "shared" => m.header \in Headers(F)
           /\ m.kind = "edf" => m.bad \in Nat
           /\ m.kind = "link" => m.header \in Headers(F) \cup {Undef}
<1>1. PICK x \in Messages(F), a \in Addr : m = ReadFrom(x, a)
  BY DEF IsMesg
<1>2. "kind" \in DOMAIN x /\ "chunk" \notin DOMAIN x
  BY DEF Messages, Infos
<1>3. \A k \in DOMAIN x : m[k] = x[k]
  BY <1>1, <1>2 DEF ReadFrom
<1>4. m.kind = x.kind
  BY <1>2, <1>3
<1>5. CASE x.kind = "cont"
  BY <1>3, <1>4, <1>5 DEF Messages, Infos
<1>6. CASE x.kind = "group"
  BY <1>3, <1>4, <1>6 DEF Messages, Infos
<1>7. CASE x.kind = "layout"
  BY <1>3, <1>4, <1>7 DEF Messages, Infos
<1>8. CASE x.kind = "linfo"
  BY <1>3, <1>4, <1>8 DEF Messages, Infos
<1>9. CASE x.kind = "ainfo"
  BY <1>3, <1>4, <1>9 DEF Messages, Infos
<1>10. CASE x.kind = "shared"
  BY <1>3, <1>4, <1>10 DEF Messages, Infos
<1>11. CASE x.kind = "link"
  BY <1>3, <1>4, <1>11 DEF Messages, Infos
<1>12. CASE x.kind = "edf"
  BY <1>3, <1>4, <1>12 DEF Messages, Infos
<1>. QED BY <1>4, <1>5, <1>6, <1>7, <1>8, <1>9, <1>10, <1>11, <1>12

LEMMA IndexIsTree ==
    ASSUME NEW F, NEW leaf, NEW a \in Indexes(F, leaf), NEW mode,
           mode = "links" => leaf = "links"
    PROVE  Tree(F, a, mode)
BY DEF Indexes, Tree, Of

LEMMA Joined ==
    ASSUME NEW s, IsList(s), NEW t, IsList(t)
    PROVE  /\ IsList(s \o t) /\ Len(s \o t) = Len(s) + Len(t)
           /\ \A j \in 1 .. Len(s \o t) :
                 \/ j \in 1 .. Len(s) /\ (s \o t)[j] = s[j]
                 \/ j - Len(s) \in 1 .. Len(t) /\ (s \o t)[j] = t[j - Len(s)]
<1>1. PICK S : s \in Seq(S)
  BY DEF IsList
<1>2. PICK T : t \in Seq(T)
  BY DEF IsList
<1>3. s \in Seq(S \cup T) /\ t \in Seq(S \cup T)
  BY <1>1, <1>2
<1>. QED BY <1>3 DEF IsList

LEMMA MesgsJoined ==
    ASSUME NEW F, NEW s, Mesgs(F, s), NEW t, Mesgs(F, t) PROVE Mesgs(F, s \o t)
BY Joined DEF Mesgs

LEMMA MesgsFirst ==
    ASSUME NEW F, NEW s, Mesgs(F, s), NEW n \in Nat, n <= Len(s) PROVE Mesgs(F, SubSeq(s, 1, n))
<1>1. PICK S : s \in Seq(S)
  BY DEF Mesgs, IsList
<1>2. /\ SubSeq(s, 1, n) \in Seq(S) /\ Len(SubSeq(s, 1, n)) = n /\ Len(s) \in Nat
      /\ \A j \in 1 .. n : SubSeq(s, 1, n)[j] = s[j]
  BY <1>1
<1>3. \A j \in 1 .. Len(s) : IsMesg(F, s[j])
  BY DEF Mesgs
<1>. DEFINE t == SubSeq(s, 1, n)
<1>4. t \in Seq(S) /\ Len(t) = n /\ \A j \in 1 .. n : t[j] = s[j] /\ j \in 1 .. Len(s)
  BY <1>2
<1>. HIDE DEF t
<1>5. \A j \in 1 .. Len(t) : IsMesg(F, t[j])
  BY <1>3, <1>4
<1>6. Mesgs(F, t)
  BY <1>4, <1>5 DEF Mesgs, IsList
<1>. QED BY <1>6 DEF t

LEMMA TreesJoined ==
    ASSUME NEW F, NEW mode, NEW s, Trees(F, s, mode), NEW t, Trees(F, t, mode)
    PROVE  Trees(F, s \o t, mode)
BY Joined DEF Trees

LEMMA EmptyList == IsList(<< >>) /\ Len(<< >>) = 0
<1>1. << >> \in Seq({})
  OBVIOUS
<1>. QED BY <1>1 DEF IsList

LEMMA DefinedTrees ==
    ASSUME NEW F, NEW mode, NEW a, a = Undef \/ Tree(F, a, mode)
    PROVE  Trees(F, Defined(a), mode)
<1>1. CASE a = Undef
  BY <1>1, EmptyList DEF Defined, Trees
<1>2. CASE a # Undef
  BY <1>2, Single DEF Defined, Trees
<1>. QED BY <1>1, <1>2

(* What is read at an address.                                             *)
LEMMA BlockItems ==
    ASSUME file \in Files, NEW a \in Addr
    PROVE  /\ Block(a).items \in Seq(Items(file, Block(a)))
           /\ Block(a).kind = "chunk" => Items(file, Block(a)) = Messages(file)
           /\ Block(a).kind = "groups" =>
                Items(file, Block(a)) = Of(file, IF Block(a).level > 0 THEN "groups" ELSE "sym")
           /\ Block(a).kind = "raw" /\ Block(a).level > 0 => Items(file, Block(a)) = Of(file, "raw")
           /\ Block(a).kind = "sym" => Items(file, Block(a)) = Entries(file)
           /\ Block(a).kind = "links" => Items(file, Block(a)) = Headers(file) \cup {Undef}
<1>1. Block(a).items \in Seq(Items(file, Block(a)))
  BY FilesAssumption DEF Block
<1>2. CASE Block(a).kind = "chunk"
  BY <1>1, <1>2 DEF Items
<1>3. CASE Block(a).kind = "groups"
  BY <1>1, <1>3 DEF Items
<1>4. CASE Block(a).kind = "raw" /\ Block(a).level > 0
  BY <1>1, <1>4 DEF Items
<1>5. CASE Block(a).kind = "sym"
  BY <1>1, <1>5 DEF Items
<1>6. CASE Block(a).kind = "links"
  BY <1>1, <1>6 DEF Items
<1>. QED BY <1>1, <1>2, <1>3, <1>4, <1>5, <1>6

(* The messages of a chunk of a header.                                    *)
LEMMA ChunkMesgs ==
    ASSUME file \in Files, NEW a \in Headers(file) PROVE Mesgs(file, MessagesOf(a))
<1>. DEFINE items == Block(a).items
            t == [j \in DOMAIN items |-> ReadFrom(items[j], a)]
<1>1. a \in Addr /\ items \in Seq(Messages(file))
  BY BlockItems DEF Headers, Of, Block
<1>2. DOMAIN items = 1 .. Len(items) /\ Len(items) \in Nat
      /\ \A j \in 1 .. Len(items) : items[j] \in Messages(file)
  BY <1>1
<1>. HIDE DEF items
<1>3. \A j \in 1 .. Len(items) : IsMesg(file, t[j])
  BY <1>1, <1>2 DEF IsMesg
<1>4. t \in Seq({t[j] : j \in 1 .. Len(items)}) /\ Len(t) = Len(items)
  BY <1>2
<1>5. t = MessagesOf(a)
  BY DEF MessagesOf, items
<1>. QED BY <1>3, <1>4, <1>5 DEF Mesgs, IsList

(* The numbers of errors are numbers.                                      *)
LEMMA PartOfList ==
    ASSUME NEW n \in Nat, NEW m \in Int, NEW S, S \subseteq m .. n PROVE Cardinality(S) \in Nat
<1>1. IsFiniteSet(m .. n)
  BY FS_Interval
<1>2. IsFiniteSet(S)
  BY <1>1, FS_Subset
<1>. QED BY <1>2, FS_CardinalityType

LEMMA CorruptNumber ==
    ASSUME NEW mesg, IsList(mesg), NEW from \in Nat, NEW to \in Nat
    PROVE  Cardinality(Corrupt(mesg, from, to)) \in Nat
<1>1. Len(mesg) \in Nat
  BY ListType
<1>2. Corrupt(mesg, from, to) \subseteq from .. (IF to = 0 THEN Len(mesg) ELSE to)
  BY DEF Corrupt
<1>. QED BY <1>1, <1>2, PartOfList

LEMMA EntryErrorsNumber ==
    ASSUME NEW ents, IsList(ents), NEW names PROVE EntryErrors(ents, names) \in Nat
<1>1. Len(ents) \in Nat /\ DOMAIN ents = 1 .. Len(ents)
  BY ListType
<1>2. \A S : S \subseteq DOMAIN ents => Cardinality(S) \in Nat
  BY <1>1, PartOfList
<1>. DEFINE before(u) == names \cup {ents[v].name : v \in 1..(u - 1)}
            A == {u \in DOMAIN ents : ents[u].name \in before(u)}
            B == {u \in DOMAIN ents : u > 1 /\ ents[u - 1].name >= ents[u].name}
            C == {u \in DOMAIN ents : ~ ents[u].slink /\ ents[u].header = Undef}
<1>3. A \subseteq DOMAIN ents /\ B \subseteq DOMAIN ents /\ C \subseteq DOMAIN ents
  OBVIOUS
<1>4. EntryErrors(ents, names) = Cardinality(A) + Cardinality(B) + Cardinality(C)
  BY DEF EntryErrors
<1>. HIDE DEF A, B, C
<1>. QED BY <1>2, <1>3, <1>4

(* However much lies behind the room of a node, its errors are a number.   *)
LEMMA NodeErrorsNumber ==
    ASSUME file \in Files, NEW a \in Of(file, "sym"), NEW names, NEW errs \in NodeErrors(a, names)
    PROVE  errs \in Nat /\ (TooMany(a) => errs >= 1)
<1>. DEFINE ents == Block(a).items
            soft == IF fault[a] = "soft" THEN 1 ELSE 0
            first == SubSeq(ents, 1, Room)
<1>1. a \in Addr /\ ents \in Seq(Entries(file)) /\ Room \in Nat
  <2>1. a \in Addr /\ Block(a).kind = "sym"
    BY DEF Of, Block
  <2>2. LeafDefault \in Nat
    BY SizeAssumption
  <2>. QED BY <2>1, <2>2, BlockItems DEF Room, LeafK
<1>. HIDE DEF ents
<1>2. IsList(ents) /\ EntryErrors(ents, names) \in Nat /\ soft \in Nat
  <2>1. IsList(ents)
    BY <1>1 DEF IsList
  <2>. QED BY <2>1, EntryErrorsNumber
<1>3. CASE TooMany(a)
  <2>1. Room <= Len(ents) /\ Len(ents) \in Nat
    BY <1>1, <1>3 DEF TooMany, ents
  <2>2. first \in Seq(Entries(file))
    BY <1>1, <2>1
  <2>3. EntryErrors(first, names) \in Nat
    <3>1. IsList(first)
      BY <2>2 DEF IsList
    <3>. HIDE DEF first
    <3>. QED BY <3>1, EntryErrorsNumber
  <2>4. PICK n \in 1 .. (1 + 3 * (Len(ents) - Room)) : errs = EntryErrors(first, names) + soft + n
    BY <1>3 DEF NodeErrors, ents
  <2>. HIDE DEF first, soft
  <2>. QED BY <1>1, <1>2, <2>1, <2>3, <2>4
<1>4. CASE ~ TooMany(a)
  <2>1. errs = EntryErrors(ents, names) + soft
    BY <1>4 DEF NodeErrors, ents
  <2>. HIDE DEF soft
  <2>. QED BY <1>2, <1>4, <2>1
<1>. QED BY <1>3, <1>4

LEMMA ContinuationFound ==
    ASSUME NEW F, NEW mesg, Mesgs(F, mesg), NEW from \in Nat, from >= 1
    PROVE  \/ Continuation(mesg, from) = 0
           \/ /\ Continuation(mesg, from) \in Nat
              /\ mesg[Continuation(mesg, from)].at \in Headers(F)
<1>. DEFINE good == {j \in from..Len(mesg) : mesg[j].kind = "cont" /\ Decodes(mesg[j])}
<1>1. Len(mesg) \in Nat
  BY ListType DEF Mesgs
<1>2. CASE good = {}
  BY <1>2 DEF Continuation
<1>3. CASE good # {}
  <2>1. good \in SUBSET Nat
    BY <1>1
  <2>2. Min(good) \in good
    BY <1>3, <2>1, LeastOpen
  <2>3. Continuation(mesg, from) = Min(good)
    BY <1>3 DEF Continuation
  <2>4. Min(good) \in 1 .. Len(mesg) /\ mesg[Min(good)].kind = "cont"
    BY <1>1, <2>2
  <2>5. IsMesg(F, mesg[Min(good)])
    BY <2>4 DEF Mesgs
  <2>. HIDE DEF good
  <2>6. mesg[Min(good)].at \in Headers(F)
    BY <2>4, <2>5, MesgFields
  <2>. QED BY <1>1, <2>3, <2>4, <2>6
<1>. QED BY <1>2, <1>3
-----------------------------------------------------------------------------
(* A function has counted errors, and they are not printed yet: a header   *)
(* has printed its own when it waits for its messages.                     *)
Counted(f) == f.ret_err # 0 /\ ~ (f.fn = "header" /\ f.pc = "return")

Below(f) == f.fn = "header" => f.pc = "return"

Stacked(F, s) ==
    /\ IsList(s)
    /\ \A d \in 1 .. Len(s) : Typed(F, Deep(s, d))
    /\ \A d \in 1 .. Len(s) - 1 : Below(Deep(s, d))

Blame(s) == \E d \in 1 .. Len(s) : Counted(Deep(s, d))

(* Some function of t has counted errors, if x has or s had them and f,    *)
(* which x stands for, has not forgotten its own.                          *)
Blamed(s, t, f, x) ==
    /\ Counted(x) => Blame(t)
    /\ Blame(s) /\ (Counted(f) => Counted(x)) => Blame(t)

LEMMA StackReplaced ==
    ASSUME NEW F, NEW s, Stacked(F, s), s # << >>, NEW x, Typed(F, x)
    PROVE  LET t == << x >> \o Tail(s) IN Stacked(F, t) /\ Blamed(s, t, Head(s), x)
<1>. DEFINE t == << x >> \o Tail(s)
            n == Len(s)
<1>1. /\ IsList(s) /\ n \in Nat /\ n >= 1
      /\ IsList(t) /\ Len(t) = n /\ Deep(t, n) = x
      /\ SameBelow(s, t, n - 1) /\ Deep(s, n) = Head(s)
  BY TopReplaced, ListType DEF Stacked
<1>. HIDE DEF t, n
<1>2. Stacked(F, t)
  <2>1. \A d \in 1 .. n : Typed(F, Deep(t, d))
    BY <1>1 DEF SameBelow, Stacked, n
  <2>2. \A d \in 1 .. n - 1 : Below(Deep(t, d))
    BY <1>1 DEF SameBelow, Stacked, n
  <2>. QED BY <1>1, <2>1, <2>2 DEF Stacked
<1>3. Counted(x) => Blame(t)
  BY <1>1 DEF Blame
<1>4. Blame(s) /\ (Counted(Head(s)) => Counted(x)) => Blame(t)
  <2>. SUFFICES ASSUME Counted(Head(s)) => Counted(x),
                       NEW d \in 1 .. n, Counted(Deep(s, d))
                PROVE  Blame(t)
    BY DEF Blame, n
  <2>1. CASE d = n
    BY <1>1, <1>3, <2>1
  <2>2. CASE d # n
    <3>1. Deep(t, d) = Deep(s, d)
      BY <1>1, <2>2 DEF SameBelow
    <3>. QED BY <1>1, <3>1 DEF Blame
  <2>. QED BY <2>1, <2>2
<1>. QED BY <1>2, <1>3, <1>4 DEF t, Blamed

LEMMA StackCalled ==
    ASSUME NEW F, NEW s, Stacked(F, s), s # << >>, NEW x, Typed(F, x),
           NEW y, Typed(F, y), Below(y)
    PROVE  LET t == << x, y >> \o Tail(s) IN Stacked(F, t) /\ Blamed(s, t, Head(s), y)
<1>. DEFINE t == << x, y >> \o Tail(s)
            n == Len(s)
<1>1. /\ IsList(s) /\ n \in Nat /\ n >= 1 /\ Deep(s, n) = Head(s)
      /\ IsList(t) /\ Len(t) = n + 1 /\ Deep(t, n) = y /\ Deep(t, n + 1) = x
      /\ SameBelow(s, t, n - 1)
  <2>1. IsList(s)
    BY DEF Stacked
  <2>. QED BY <2>1, Highest, TopCalls
<1>. HIDE DEF t, n
<1>2. Stacked(F, t)
  <2>1. \A d \in 1 .. n + 1 : Typed(F, Deep(t, d))
    BY <1>1 DEF SameBelow, Stacked, n
  <2>2. \A d \in 1 .. n : Below(Deep(t, d))
    BY <1>1 DEF SameBelow, Stacked, n
  <2>. QED BY <1>1, <2>1, <2>2 DEF Stacked
<1>3. Counted(y) => Blame(t)
  BY <1>1 DEF Blame
<1>4. Blame(s) /\ (Counted(Head(s)) => Counted(y)) => Blame(t)
  <2>. SUFFICES ASSUME Counted(Head(s)) => Counted(y),
                       NEW d \in 1 .. n, Counted(Deep(s, d))
                PROVE  Blame(t)
    BY DEF Blame, n
  <2>1. CASE d = n
    BY <1>1, <1>3, <2>1
  <2>2. CASE d # n
    <3>1. Deep(t, d) = Deep(s, d) /\ d \in 1 .. Len(t)
      BY <1>1, <2>2 DEF SameBelow
    <3>. QED BY <1>1, <3>1 DEF Blame
  <2>. QED BY <2>1, <2>2
<1>. QED BY <1>2, <1>3, <1>4 DEF t, Blamed

LEMMA StackReturned ==
    ASSUME NEW F, NEW s, Stacked(F, s), s # << >>, Tail(s) # << >>, NEW x, Typed(F, x),
           Counted(Head(Tail(s))) => Counted(x)
    PROVE  LET t == << x >> \o Tail(Tail(s))
           IN  /\ Stacked(F, t)
               /\ Counted(x) => Blame(t)
               /\ Blame(s) /\ ~ Counted(Head(s)) => Blame(t)
               /\ Typed(F, Head(Tail(s))) /\ Below(Head(Tail(s)))
<1>. DEFINE t == << x >> \o Tail(Tail(s))
            p == Head(Tail(s))
            n == Len(s) - 1
<1>1. /\ IsList(s) /\ n \in Nat /\ n >= 1 /\ Len(s) = n + 1
      /\ Deep(s, n + 1) = Head(s) /\ Deep(s, n) = p
      /\ IsList(t) /\ Len(t) = n /\ Deep(t, n) = x
      /\ SameBelow(s, t, n - 1)
  <2>1. IsList(s) /\ Len(s) \in Nat /\ Len(s) >= 1
    BY ListType DEF Stacked
  <2>2. /\ IsList(t) /\ Len(t) = Len(s) - 1 /\ Len(s) >= 2 /\ Deep(t, Len(s) - 1) = x
        /\ SameBelow(s, t, Len(s) - 2) /\ Deep(s, Len(s) - 1) = p
    BY <2>1, TopReturns
  <2>3. Deep(s, Len(s)) = Head(s)
    BY <2>1, TopReplaced
  <2>4. Len(s) - 2 = n - 1 /\ n + 1 = Len(s)
    BY <2>1
  <2>. HIDE DEF t, p
  <2>. QED BY <2>1, <2>2, <2>3, <2>4
<1>. HIDE DEF t, n
<1>2. Stacked(F, t)
  <2>1. \A d \in 1 .. n : Typed(F, Deep(t, d))
    BY <1>1 DEF SameBelow, Stacked
  <2>2. \A d \in 1 .. n - 1 : Below(Deep(t, d))
    BY <1>1 DEF SameBelow, Stacked
  <2>. QED BY <1>1, <2>1, <2>2 DEF Stacked
<1>3. Counted(x) => Blame(t)
  BY <1>1 DEF Blame
<1>4. Blame(s) /\ ~ Counted(Head(s)) => Blame(t)
  <2>. SUFFICES ASSUME ~ Counted(Head(s)), NEW d \in 1 .. n + 1, Counted(Deep(s, d))
                PROVE  Blame(t)
    BY <1>1 DEF Blame
  <2>1. CASE d = n
    BY <1>1, <1>3, <2>1
  <2>2. CASE d # n
    <3>1. d \in 1 .. n - 1
      BY <1>1, <2>2
    <3>2. Deep(t, d) = Deep(s, d) /\ d \in 1 .. Len(t)
      BY <1>1, <3>1 DEF SameBelow
    <3>. QED BY <3>2 DEF Blame
  <2>. QED BY <2>1, <2>2
<1>5. Typed(F, p) /\ Below(p)
  BY <1>1 DEF Stacked
<1>. QED BY <1>2, <1>3, <1>4, <1>5 DEF t, p
(* The caller counts what it pushes because of the value returned.         *)
LEMMA Absorbed ==
    ASSUME NEW F, NEW p, Typed(F, p), Below(p), NEW f, Typed(F, f), NEW res
    PROVE  LET x == Absorb(p, f, res)
               n == PushedByCaller(p, f, res)
           IN  /\ Typed(F, x) /\ (Counted(p) => Counted(x))
               /\ n \in 0 .. 2 /\ (n # 0 => Counted(x))
<1>. DEFINE x == Absorb(p, f, res)
            n == PushedByCaller(p, f, res)
<1>0. /\ Fields \subseteq DOMAIN p /\ p.ret_err \in Nat /\ p.i \in Nat \ {0}
      /\ p.fn \in {"header", "messages", "btree", "sym", "btree2"}
  BY DEF Typed
<1>1. Failed(res) \in 0 .. 1 /\ (Failed(res) # 0 <=> res = FAIL)
  BY DEF Failed
<1>2. CASE p.fn = "header"
  <2>1. x = [p EXCEPT !.pc = "return", !.ret_other_err = @ + Failed(res)] /\ n = 0
    BY <1>2 DEF Absorb, PushedByCaller
  <2>. HIDE DEF x, n
  <2>2. Typed(F, x)
    BY <1>0, <1>2, <2>1 DEF Typed, Fields
  <2>. QED BY <1>2, <2>1, <2>2 DEF Counted, Below, x, n
<1>3. CASE p.fn = "messages" /\ f.want
  <2>. DEFINE r == p.ret_err + SharedFails(f, res)
  <2>1. x = [p EXCEPT !.i = @ + 1, !.ret_err = r]
    <3>1. f.fn = "header"
      BY <1>3 DEF Typed
    <3>. QED BY <1>3, <3>1 DEF Absorb
  <2>2. /\ SharedFails(f, res) \in 0 .. 1 /\ n \in 0 .. 2
        /\ n # 0 => SharedFails(f, res) # 0
    BY <1>3 DEF SharedFails, PushedByCaller
  <2>3. r \in Nat /\ (p.ret_err # 0 => r # 0) /\ (n # 0 => r # 0)
    BY <1>0, <2>2
  <2>. HIDE DEF x, n, r
  <2>4. Typed(F, x)
    BY <1>0, <1>3, <2>1, <2>3 DEF Typed, Fields
  <2>5. x.ret_err = r /\ x.fn = "messages"
    BY <1>0, <1>3, <2>1 DEF Fields
  <2>. QED BY <2>2, <2>3, <2>4, <2>5 DEF Counted, x, n
<1>4. CASE p.fn = "messages" /\ ~ f.want
  <2>1. n = 0
    BY <1>4 DEF PushedByCaller
  <2>2. \/ x = [p EXCEPT !.ret_other_err = @ + Failed(res)]
        \/ x = [p EXCEPT !.i = @ + 1, !.ret_other_err = @ + Failed(res), !.curr_obj = 0]
    BY <1>4 DEF Absorb
  <2>. HIDE DEF x, n
  <2>3. Typed(F, x)
    <3>1. CASE x = [p EXCEPT !.ret_other_err = @ + Failed(res)]
      BY <1>0, <1>4, <3>1 DEF Typed, Fields
    <3>2. CASE x = [p EXCEPT !.i = @ + 1, !.ret_other_err = @ + Failed(res), !.curr_obj = 0]
      BY <1>0, <1>4, <3>2 DEF Typed, Fields
    <3>. QED BY <2>2, <3>1, <3>2
  <2>4. x.ret_err = p.ret_err /\ x.fn = "messages"
    BY <1>0, <1>4, <2>2 DEF Fields
  <2>. QED BY <2>1, <2>3, <2>4 DEF Counted, x, n
<1>5. CASE p.fn = "btree2"
  <2>. DEFINE r == p.ret_err + Failed(res)
  <2>1. x = [p EXCEPT !.i = @ + 1, !.ret_err = r] /\ n = 2 * Failed(res)
    BY <1>5 DEF Absorb, PushedByCaller
  <2>2. r \in Nat /\ (p.ret_err # 0 => r # 0) /\ (n # 0 => r # 0) /\ n \in 0 .. 2
    BY <1>0, <1>1, <2>1
  <2>. HIDE DEF x, n, r
  <2>3. Typed(F, x)
    BY <1>0, <1>5, <2>1, <2>2 DEF Typed, Fields
  <2>4. x.ret_err = r /\ x.fn = "btree2"
    BY <1>0, <1>5, <2>1 DEF Fields
  <2>. QED BY <2>2, <2>3, <2>4 DEF Counted, x, n
<1>6. CASE p.fn \in {"btree", "sym"}
  <2>1. n = 0
    BY <1>6 DEF PushedByCaller
  <2>2. \/ x = [p EXCEPT !.i = @ + 1, !.ret_other_err = @ + Failed(res), !.names = f.names]
        \/ x = [p EXCEPT !.i = @ + 1, !.ret_other_err = @ + Failed(res), !.curr_obj = 0]
    BY <1>6 DEF Absorb
  <2>. HIDE DEF x, n
  <2>3. Typed(F, x)
    <3>1. CASE x = [p EXCEPT !.i = @ + 1, !.ret_other_err = @ + Failed(res), !.names = f.names]
      BY <1>0, <1>6, <3>1 DEF Typed, Fields
    <3>2. CASE x = [p EXCEPT !.i = @ + 1, !.ret_other_err = @ + Failed(res), !.curr_obj = 0]
      BY <1>0, <1>6, <3>2 DEF Typed, Fields
    <3>. QED BY <2>2, <3>1, <3>2
  <2>4. x.ret_err = p.ret_err /\ x.fn = p.fn
    BY <1>0, <1>6, <2>2 DEF Fields
  <2>. QED BY <1>6, <2>1, <2>3, <2>4 DEF Counted, x, n
<1>. QED BY <1>0, <1>2, <1>3, <1>4, <1>5, <1>6

(* Errors that are pushed are counted, by the function that waits or by    *)
(* the one that called it, until they are printed.                         *)
ErrInv ==
    /\ file \in Files
    /\ Stacked(file, stack)
    /\ estack \in 0 .. NSlots
    /\ pc = "check" /\ estack # 0 => Blame(stack)
    /\ pc \in {"init", "done", "exit"} => estack = 0

(* The errors, when x takes the place of f: they are printed, or stay as   *)
(* they are, or x counts some.                                             *)
Answers(f, x) ==
    \/ estack' = 0
    \/ estack' = estack /\ (Counted(f) => Counted(x))
    \/ estack' \in 0 .. NSlots /\ Counted(x)

ErrorWalks == Walks /\ file' = file

ErrorWorks(x) == Replace(x) /\ Typed(file, x) /\ Answers(Top, x)
ErrorCalls(x, y) ==
    Call(x, y) /\ Typed(file, x) /\ Typed(file, y) /\ Below(y) /\ Answers(Top, y)
ErrorReturns(res, n) == Return(res, n) /\ n \in Nat /\ (n = 0 <=> ~ Counted(Top))

LEMMA ErrorWorksKeeps ==
    ASSUME ErrInv, ErrorWalks, NEW x, ErrorWorks(x) PROVE ErrInv'
<1>1. Stacked(file, stack) /\ stack # << >> /\ Top = Head(stack)
  BY DEF ErrInv, ErrorWalks, Walks, Top
<1>2. stack' = << x >> \o Tail(stack) /\ Typed(file, x)
  BY DEF ErrorWorks, Replace
<1>3. Stacked(file, stack') /\ Blamed(stack, stack', Top, x)
  BY <1>1, <1>2, StackReplaced
<1>4. estack' \in 0 .. NSlots /\ (estack' # 0 => Blame(stack'))
  BY <1>3, 0 \in 0 .. NSlots DEF ErrorWorks, Answers, Blamed, ErrInv, ErrorWalks, Walks, NSlots
<1>. QED BY <1>3, <1>4 DEF ErrInv, ErrorWalks, Walks

LEMMA ErrorCallsKeeps ==
    ASSUME ErrInv, ErrorWalks, NEW x, NEW y, ErrorCalls(x, y) PROVE ErrInv'
<1>1. Stacked(file, stack) /\ stack # << >> /\ Top = Head(stack)
  BY DEF ErrInv, ErrorWalks, Walks, Top
<1>2. /\ stack' = << x, y >> \o Tail(stack) /\ Typed(file, x) /\ Typed(file, y) /\ Below(y)
  BY DEF ErrorCalls, Call
<1>3. Stacked(file, stack') /\ Blamed(stack, stack', Top, y)
  BY <1>1, <1>2, StackCalled
<1>4. estack' \in 0 .. NSlots /\ (estack' # 0 => Blame(stack'))
  BY <1>3, 0 \in 0 .. NSlots DEF ErrorCalls, Answers, Blamed, ErrInv, ErrorWalks, Walks, NSlots
<1>. QED BY <1>3, <1>4 DEF ErrInv, ErrorWalks, Walks

LEMMA ErrorReturnsKeeps ==
    ASSUME ErrInv, ErrorWalks, NEW res, NEW n, ErrorReturns(res, n) PROVE ErrInv'
<1>1. Stacked(file, stack) /\ stack # << >> /\ Top = Head(stack) /\ estack \in 0 .. NSlots
  BY DEF ErrInv, ErrorWalks, Walks, Top
<1>2. Return(res, n) /\ n \in Nat /\ (n = 0 <=> ~ Counted(Top))
  BY DEF ErrorReturns
<1>3. estack # 0 => Blame(stack)
  BY DEF ErrInv, ErrorWalks, Walks
<1>4. CASE Tail(stack) = << >>
  <2>1. stack' = << >> /\ Flush(n)
    BY <1>2, <1>4 DEF Return
  <2>2. Stacked(file, << >>)
    BY EmptyList DEF Stacked
  <2>3. n = 0 => estack = 0
    <3>. SUFFICES ASSUME n = 0, Blame(stack) PROVE FALSE
      BY <1>3
    <3>1. Len(stack) = 1 /\ Deep(stack, 1) = Top
      <4>1. PICK S : stack \in Seq(S)
        BY <1>1 DEF Stacked, IsList
      <4>2. Len(stack) \in Nat /\ Len(Tail(stack)) = Len(stack) - 1 /\ Top = stack[1]
        BY <1>1, <4>1
      <4>3. Len(Tail(stack)) = 0
        BY <1>4, EmptyList
      <4>. DEFINE k == Len(stack)
                  m == Len(Tail(stack))
      <4>4. k \in Nat /\ m = k - 1 /\ m = 0
        BY <4>2, <4>3
      <4>. HIDE DEF k, m
      <4>5. k = 1
        BY <4>4
      <4>. QED BY <4>2, <4>5 DEF Deep, k
    <3>. QED BY <1>2, <3>1 DEF Blame
  <2>4. estack' = 0
    BY <1>2, <2>1, <2>3 DEF Flush, errors
  <2>. QED BY <2>1, <2>2, <2>4, 0 \in 0 .. NSlots DEF ErrInv, ErrorWalks, Walks, NSlots
<1>5. CASE Tail(stack) # << >>
  <2>. DEFINE p == Head(Tail(stack))
              x == Absorb(p, Top, res)
              k == PushedByCaller(p, Top, res)
  <2>1. stack' = << x >> \o Tail(Tail(stack))
    BY <1>2, <1>5 DEF Return
  <2>2. \/ k = 0 /\ Flush(n)
        \/ k # 0 /\ estack' = IF n > 0 THEN k ELSE Pushed(k)
    BY <1>2, <1>5 DEF Return
  <2>3. Typed(file, p) /\ Below(p)
    <3>1. IsList(stack)
      BY <1>1 DEF Stacked
    <3>2. /\ Len(stack) >= 2 /\ Len(stack) \in Nat /\ Deep(stack, Len(stack) - 1) = p
      BY <1>1, <1>5, <3>1, TopReturns, Highest
    <3>3. Len(stack) - 1 \in 1 .. Len(stack) /\ Len(stack) - 1 \in 1 .. Len(stack) - 1
      BY <3>2
    <3>. QED BY <1>1, <3>2, <3>3 DEF Stacked
  <2>7. Typed(file, Top)
    <3>1. IsList(stack)
      BY <1>1 DEF Stacked
    <3>2. Len(stack) \in Nat /\ Len(stack) >= 1 /\ Deep(stack, Len(stack)) = Top
      BY <1>1, <3>1, Highest
    <3>. QED BY <1>1, <3>2 DEF Stacked
  <2>4. /\ Typed(file, x) /\ (Counted(p) => Counted(x))
        /\ k \in 0 .. 2 /\ (k # 0 => Counted(x))
    BY <2>3, <2>7, Absorbed
  <2>. HIDE DEF x, k
  <2>5. /\ Stacked(file, stack')
        /\ Counted(x) => Blame(stack')
        /\ Blame(stack) /\ ~ Counted(Top) => Blame(stack')
    BY <1>1, <1>5, <2>1, <2>4, StackReturned
  <2>6. estack' \in 0 .. NSlots /\ (estack' # 0 => Blame(stack'))
    <3>1. CASE k = 0
      <4>1. Flush(n)
        BY <2>2, <3>1
      <4>2. n \in Nat /\ (n = 0 <=> ~ Counted(Top))
        BY <1>2
      <4>3. estack' = 0 \/ (estack' = estack /\ n = 0)
        BY ONLY <4>1, <4>2 DEF Flush, errors
      <4>4. 0 \in 0 .. NSlots
        BY DEF NSlots
      <4>5. CASE estack' = 0
        BY <4>4, <4>5
      <4>6. CASE estack' = estack /\ n = 0
        BY <1>1, <1>3, <2>5, <4>2, <4>6
      <4>. QED BY <4>3, <4>5, <4>6
    <3>2. CASE k # 0
      <4>1. estack' \in 0 .. NSlots
        <5>1. estack \in 0 .. NSlots /\ n \in Nat /\ k \in 0 .. 2
          BY <1>1, <1>2, <2>4
        <5>2. estack' = IF n > 0 THEN k ELSE Pushed(k)
          BY <2>2, <3>2
        <5>. QED BY ONLY <5>1, <5>2 DEF Pushed, NSlots
      <4>. QED BY <2>4, <2>5, <3>2, <4>1
    <3>. QED BY <3>1, <3>2
  <2>. QED BY <2>5, <2>6 DEF ErrInv, ErrorWalks, Walks
<1>. QED BY <1>4, <1>5
-----------------------------------------------------------------------------
(* The steps of the walk, each of one of these kinds.                      *)
LEMMA TopTyped ==
    ASSUME ErrInv, ErrorWalks
    PROVE  /\ Typed(file, Top) /\ file \in Files /\ estack \in 0 .. NSlots
           /\ Fields \subseteq DOMAIN Top /\ Top.ret_err \in Nat
<1>1. Stacked(file, stack) /\ IsList(stack) /\ stack # << >>
  BY DEF ErrInv, Stacked, ErrorWalks, Walks
<1>2. Len(stack) \in 1 .. Len(stack) /\ Deep(stack, Len(stack)) = Top
  BY <1>1, Highest DEF Top
<1>3. Typed(file, Top)
  BY <1>1, <1>2 DEF Stacked
<1>. QED BY <1>3 DEF ErrInv, Typed

LEMMA FrameTyped ==
    ASSUME NEW fn \in {"header", "btree", "sym"}, NEW at \in Addr,
           fn = "header" => at \in Headers(file),
           fn = "btree" => at \in Of(file, "groups") \cup Of(file, "raw"),
           fn = "sym" => at \in Of(file, "sym")
    PROVE  /\ Typed(file, Frame(fn, at))
           /\ \A names : Typed(file, [Frame(fn, at) EXCEPT !.names = names])
           /\ fn = "header" => Typed(file, [Frame(fn, at) EXCEPT !.want = TRUE])
<1>1. IsList(<< >>) /\ Mesgs(file, << >>)
  BY EmptyList DEF Mesgs
<1>. QED BY <1>1 DEF Typed, Fields, Frame

LEMMA IndexTyped ==
    ASSUME NEW at, NEW mode, Tree(file, at, mode)
    PROVE  Typed(file, [Frame("btree2", at) EXCEPT !.mode = mode])
<1>1. at \in Addr
  BY DEF Tree
<1>. QED BY <1>1 DEF Typed, Fields, Frame

(* What is pushed is counted, or nothing is pushed.                        *)
LEMMA PushAnswers ==
    ASSUME ErrInv, NEW n \in Nat, Push(n),
           NEW f, NEW x, Counted(f) => Counted(x), n # 0 => Counted(x)
    PROVE  Answers(f, x)
<1>1. estack \in 0 .. NSlots /\ estack' = Pushed(n)
  BY DEF ErrInv, Push
<1>2. estack' \in 0 .. NSlots /\ (n = 0 => estack' = estack)
  BY ONLY <1>1, n \in Nat DEF Pushed, NSlots
<1>. QED BY <1>2 DEF Answers

LEMMA Printed ==
    ASSUME NEW f, NEW x, estack' = 0 \/ (estack' = estack /\ (Counted(f) => Counted(x)))
    PROVE  Answers(f, x)
BY DEF Answers

LEMMA HeaderErrors == ASSUME ErrInv, HeaderStep PROVE ErrInv'
<1>1. CASE HeaderSeen
  <2>1. ErrorWalks /\ Return(SUCCEED, 0) /\ Top.fn = "header" /\ Top.pc = "enter"
    BY <1>1 DEF HeaderSeen, Running, Return, input, ErrorWalks, Walks
  <2>2. ~ Counted(Top)
    BY <2>1, TopTyped DEF Typed, Counted
  <2>. QED BY <2>1, <2>2, ErrorReturnsKeeps DEF ErrorReturns
<1>2. CASE HeaderReturn
  <2>1. ErrorWalks /\ Return(Result(Top), 0) /\ Top.fn = "header" /\ Top.pc = "return"
    BY <1>2 DEF HeaderReturn, Running, Return, input, ErrorWalks, Walks
  <2>. QED BY <2>1, ErrorReturnsKeeps DEF ErrorReturns, Counted
<1>3. CASE HeaderPrefix
  <2>. DEFINE x == [Top EXCEPT !.ret_err = @ + 1, !.pc = "done"]
              y == [Top EXCEPT !.pc = "chunk", !.chunk_size = Block(Top.at).size]
  <2>1. ErrorWalks /\ Top.fn = "header"
    BY <1>3 DEF HeaderPrefix, Running, input, ErrorWalks, Walks
  <2>2. Typed(file, x) /\ Counted(x)
    BY <2>1, TopTyped DEF Typed, Fields, Counted
  <2>3. Typed(file, y) /\ (Counted(Top) => Counted(y))
    BY <2>1, TopTyped DEF Typed, Fields, Counted
  <2>4. (Replace(x) /\ Push(1)) \/ (Replace(y) /\ UNCHANGED errors)
    BY <1>3 DEF HeaderPrefix
  <2>. HIDE DEF x, y
  <2>5. CASE Replace(x) /\ Push(1)
    BY <2>1, <2>2, <2>5, PushAnswers, ErrorWorksKeeps DEF ErrorWorks
  <2>6. CASE Replace(y) /\ UNCHANGED errors
    BY <2>1, <2>3, <2>6, Printed, ErrorWorksKeeps DEF ErrorWorks, errors
  <2>. QED BY <2>4, <2>5, <2>6
<1>4. CASE HeaderChunk
  <2>. DEFINE a == Top.chunk
              mesg == Top.mesg \o MessagesOf(a)
              next == Continuation(mesg, Top.i)
              corrupt == Cardinality(Corrupt(mesg, Top.i, next))
              soft == IF fault[a] = "soft" THEN 1 ELSE 0
              x == [Top EXCEPT !.ret_err = @ + 1, !.pc = "done"]
              y == [Top EXCEPT !.mesg = mesg, !.ret_err = @ + (corrupt + soft),
                               !.i = IF next = 0 THEN 1 ELSE next + 1,
                               !.pc = IF next = 0 THEN "log" ELSE "chunk",
                               !.chunk = IF next = 0 THEN a ELSE mesg[next].at,
                               !.chunk_size = IF next = 0 THEN @ ELSE mesg[next].size]
  <2>1. ErrorWalks /\ Top.fn = "header"
    BY <1>4 DEF HeaderChunk, Running, input, ErrorWalks, Walks
  <2>2. \/ Replace(x) /\ Push(1)
        \/ Replace(y) /\ Push(corrupt + soft + corrupt)
    BY <1>4 DEF HeaderChunk
  <2>3. Typed(file, x) /\ Counted(x)
    BY <2>1, TopTyped DEF Typed, Fields, Counted
  <2>4. Mesgs(file, mesg) /\ IsList(mesg) /\ Top.i \in Nat /\ Top.i >= 1
        /\ a \in Headers(file) /\ a \in Addr /\ Fields \subseteq DOMAIN Top /\ Top.ret_err \in Nat
    <3>1. file \in Files /\ a \in Headers(file) /\ Mesgs(file, Top.mesg) /\ Top.i \in Nat \ {0}
          /\ a \in Addr
      BY <2>1, TopTyped DEF Typed
    <3>2. Mesgs(file, mesg)
      BY <3>1, ChunkMesgs, MesgsJoined
    <3>. HIDE DEF mesg, a
    <3>3. IsList(mesg)
      BY <3>2 DEF Mesgs
    <3>4. Fields \subseteq DOMAIN Top /\ Top.ret_err \in Nat
      BY <2>1, TopTyped
    <3>. QED BY <3>1, <3>2, <3>3, <3>4
  <2>. HIDE DEF mesg
  <2>5. next = 0 \/ (next \in Nat /\ mesg[next].at \in Headers(file))
    BY <2>4, ContinuationFound
  <2>. HIDE DEF next
  <2>6. corrupt \in Nat
    BY <2>4, <2>5, CorruptNumber
  <2>. HIDE DEF corrupt
  <2>7. soft \in 0 .. 1
    OBVIOUS
  <2>. HIDE DEF soft, a, x
  <2>8. /\ Top.ret_err + (corrupt + soft) \in Nat
        /\ Top.ret_err # 0 => Top.ret_err + (corrupt + soft) # 0
        /\ corrupt + soft + corrupt \in Nat
        /\ corrupt + soft + corrupt # 0 => Top.ret_err + (corrupt + soft) # 0
    BY <2>4, <2>6, <2>7
  <2>9. Typed(file, y)
    <3>1. CASE next = 0
      BY <2>1, <2>4, <2>8, <3>1, TopTyped DEF Typed, Fields, a
    <3>2. CASE next # 0
      <4>1. next + 1 \in Nat \ {0} /\ mesg[next].at \in Headers(file) /\ mesg[next].at \in Addr
        BY <2>5, <3>2 DEF Headers, Of
      <4>. QED BY <2>1, <2>4, <2>8, <3>2, <4>1, TopTyped DEF Typed, Fields
    <3>. QED BY <3>1, <3>2
  <2>10. y.ret_err = Top.ret_err + (corrupt + soft) /\ y.pc # "return"
    BY <2>4 DEF Fields
  <2>. HIDE DEF y
  <2>11. CASE Replace(x) /\ Push(1)
    BY <2>1, <2>3, <2>11, PushAnswers, ErrorWorksKeeps DEF ErrorWorks
  <2>12. CASE Replace(y) /\ Push(corrupt + soft + corrupt)
    <3>1. /\ Counted(Top) => Counted(y)
          /\ corrupt + soft + corrupt # 0 => Counted(y)
      BY <2>8, <2>10 DEF Counted
    <3>2. Answers(Top, y)
      BY <2>8, <2>12, <3>1, PushAnswers
    <3>. QED BY <2>1, <2>9, <2>12, <3>2, ErrorWorksKeeps DEF ErrorWorks
  <2>. QED BY <2>2, <2>11, <2>12
<1>5. CASE HeaderLog
  <2>. DEFINE x == [Top EXCEPT !.pc = "done"]
  <2>1. ErrorWalks /\ Top.fn = "header" /\ Replace(x) /\ estack' = estack
    BY <1>5 DEF HeaderLog, Running, input, errors, ErrorWalks, Walks
  <2>2. Typed(file, x) /\ (Counted(Top) => Counted(x))
    BY <2>1, TopTyped DEF Typed, Fields, Counted
  <2>. HIDE DEF x
  <2>. QED BY <2>1, <2>2, Printed, ErrorWorksKeeps DEF ErrorWorks
<1>6. CASE HeaderDone
  <2>1. pc = "check" /\ stack # << >> /\ Top.fn = "header" /\ Top.pc = "done"
    BY <1>6 DEF HeaderDone, Running
  <2>2. CASE Top.mesg = << >>
    <3>1. Return(Result(Top), Top.ret_err) /\ ErrorWalks
      BY <1>6, <2>1, <2>2 DEF HeaderDone, Return, input, ErrorWalks, Walks
    <3>2. Top.ret_err \in Nat
      BY <3>1, TopTyped
    <3>. QED BY <2>1, <3>1, <3>2, ErrorReturnsKeeps DEF ErrorReturns, Counted
  <2>3. CASE Top.mesg # << >>
    <3>. DEFINE x == [Frame("messages", Top.at) EXCEPT !.mesg = Top.mesg]
                y == [Top EXCEPT !.pc = "return"]
    <3>1. ErrorWalks /\ Call(x, y) /\ Flush(Top.ret_err)
      BY <1>6, <2>1, <2>3 DEF HeaderDone, input, ErrorWalks, Walks
    <3>2. Typed(file, y) /\ Below(y)
      BY <2>1, <3>1, TopTyped DEF Typed, Fields, Below
    <3>3. estack' = 0 \/ (estack' = estack /\ ~ Counted(Top))
      BY <3>1, TopTyped DEF Flush, errors, Counted
    <3>4. Typed(file, x)
      <4>1. Top.at \in Addr /\ Mesgs(file, Top.mesg) /\ Trees(file, << >>, "none")
        BY <2>1, <3>1, TopTyped, EmptyList DEF Typed, Trees
      <4>. QED BY <4>1 DEF Typed, Fields, Frame
    <3>. HIDE DEF x, y
    <3>. QED BY <3>1, <3>2, <3>3, <3>4, Printed, ErrorCallsKeeps DEF ErrorCalls
  <2>. QED BY <2>2, <2>3
<1>7. CASE HeaderFull
  <2>. DEFINE all == Top.mesg \o MessagesOf(Top.chunk)
              mesg == SubSeq(all, 1, MaxMesgs)
              x == [Top EXCEPT !.mesg = mesg, !.ret_err = @ + 1, !.pc = "done"]
  <2>1. ErrorWalks /\ Top.fn = "header" /\ Full /\ Replace(x) /\ Push(1)
    BY <1>7 DEF HeaderFull, Running, input, ErrorWalks, Walks
  <2>2. file \in Files /\ Top.chunk \in Headers(file) /\ Mesgs(file, Top.mesg)
    BY <2>1, TopTyped DEF Typed
  <2>3. Mesgs(file, MessagesOf(Top.chunk)) /\ Mesgs(file, all)
    BY <2>2, ChunkMesgs, MesgsJoined
  <2>4. Len(all) = Len(Top.mesg) + Len(Block(Top.chunk).items)
    <3>1. Len(all) = Len(Top.mesg) + Len(MessagesOf(Top.chunk))
      BY <2>2, <2>3, Joined DEF Mesgs
    <3>2. Block(Top.chunk).items \in Seq(Messages(file))
      BY <2>2, BlockItems DEF Headers, Of, Block
    <3>3. Len(MessagesOf(Top.chunk)) = Len(Block(Top.chunk).items)
      BY <3>2 DEF MessagesOf
    <3>. QED BY <3>1, <3>3
  <2>5. MaxMesgs \in Nat /\ MaxMesgs <= Len(all)
    <3>1. Len(all) \in Nat
      BY <2>3, ListType DEF Mesgs
    <3>2. MaxMesgs \in Nat
      BY LimitAssumption
    <3>3. Len(all) > MaxMesgs
      BY <2>1, <2>4 DEF Full
    <3>. HIDE DEF all
    <3>. QED BY <3>1, <3>2, <3>3
  <2>. HIDE DEF all
  <2>6. Mesgs(file, mesg)
    BY <2>3, <2>5, MesgsFirst
  <2>. HIDE DEF mesg
  <2>7. Typed(file, x) /\ Counted(x)
    BY <2>1, <2>6, TopTyped DEF Typed, Fields, Counted
  <2>. HIDE DEF x
  <2>. QED BY <2>1, <2>7, PushAnswers, ErrorWorksKeeps DEF ErrorWorks
<1>. QED BY <1>1, <1>2, <1>3, <1>4, <1>5, <1>6, <1>7 DEF HeaderStep
(* The message at hand, and the frame that goes on with the next one.      *)
LEMMA MesgTyped ==
    ASSUME ErrInv, ErrorWalks, Top.fn = "messages"
    PROVE  /\ Top.i <= Len(Top.mesg) => IsMesg(file, Mesg)
           /\ Typed(file, NextMesg(Top)) /\ (Counted(Top) => Counted(NextMesg(Top)))
           /\ Below(Top) /\ Below(NextMesg(Top))
<1>1. Mesgs(file, Top.mesg) /\ Top.i \in Nat \ {0}
  BY TopTyped DEF Typed
<1>2. Top.i <= Len(Top.mesg) => IsMesg(file, Mesg)
  <2>1. Len(Top.mesg) \in Nat
    BY <1>1, ListType DEF Mesgs
  <2>. QED BY <1>1, <2>1 DEF Mesgs, Mesg
<1>3. Typed(file, NextMesg(Top)) /\ (Counted(Top) => Counted(NextMesg(Top)))
  BY TopTyped DEF Typed, Fields, Counted, NextMesg
<1>4. Below(Top) /\ Below(NextMesg(Top))
  BY TopTyped DEF Fields, Below, NextMesg
<1>. QED BY <1>2, <1>3, <1>4

LEMMA MessageErrors == ASSUME ErrInv, MessageStep PROVE ErrInv'
<1>1. CASE MessagesDone
  <2>1. ErrorWalks /\ Return(Result(Top), Top.ret_err) /\ Top.fn = "messages"
    BY <1>1 DEF MessagesDone, Running, Return, input, ErrorWalks, Walks
  <2>2. Top.ret_err \in Nat
    BY <2>1, TopTyped
  <2>. QED BY <2>1, <2>2, ErrorReturnsKeeps DEF ErrorReturns, Counted
<1>2. CASE MessageDecoded
  <2>1. ErrorWalks /\ Top.fn = "messages" /\ Replace(NextMesg(Top)) /\ estack' = estack
    BY <1>2 DEF MessageDecoded, InMessages, Running, ErrorWalks, Walks, Kept, input, errors
  <2>. QED BY <2>1, MesgTyped, Printed, ErrorWorksKeeps DEF ErrorWorks
<1>3. CASE MessageUnread
  <2>. DEFINE x == [NextMesg(Top) EXCEPT !.ret_err = @ + 1]
              n == IF Mesg.kind = "unknown" THEN 1 ELSE 2
  <2>1. ErrorWalks /\ Top.fn = "messages" /\ Replace(x) /\ Push(n)
    BY <1>3 DEF MessageUnread, InMessages, Running, ErrorWalks, Walks, Kept, input
  <2>2. Typed(file, x) /\ Counted(x)
    BY <2>1, TopTyped DEF Typed, Fields, Counted, NextMesg
  <2>3. n \in Nat
    OBVIOUS
  <2>. HIDE DEF x, n
  <2>. QED BY <2>1, <2>2, <2>3, PushAnswers, ErrorWorksKeeps DEF ErrorWorks
<1>4. CASE MessageEdf
  <2>. DEFINE x == [NextMesg(Top) EXCEPT !.ret_other_err = FAIL]
              y == [NextMesg(Top) EXCEPT !.ret_other_err = SUCCEED, !.ret_err = @ + Mesg.bad]
  <2>1. /\ ErrorWalks /\ Top.fn = "messages" /\ Top.i <= Len(Top.mesg) /\ Mesg.kind = "edf"
        /\ \/ Replace(x) /\ (estack' = 0 \/ estack' = estack)
           \/ Replace(y) /\ Push(Mesg.bad)
    BY <1>4 DEF MessageEdf, InMessages, Running, ErrorWalks, Walks, Kept, input, HeapFlush, errors
  <2>2. Typed(file, x) /\ (Counted(Top) => Counted(x))
    BY <2>1, TopTyped DEF Typed, Fields, Counted, NextMesg
  <2>3. Mesg.bad \in Nat
    BY <2>1, MesgTyped, MesgFields
  <2>4. /\ Typed(file, y) /\ y.ret_err = Top.ret_err + Mesg.bad /\ y.fn = "messages"
    BY <2>1, <2>3, TopTyped DEF Typed, Fields, NextMesg
  <2>5. Top.ret_err \in Nat
    BY <2>1, TopTyped
  <2>6. (Counted(Top) => Counted(y)) /\ (Mesg.bad # 0 => Counted(y))
    <3>1. y.ret_err # 0 <=> (Top.ret_err # 0 \/ Mesg.bad # 0)
      BY ONLY <2>3, <2>4, <2>5
    <3>. QED BY <2>4, <3>1 DEF Counted
  <2>. HIDE DEF x, y
  <2>7. CASE Replace(x) /\ (estack' = 0 \/ estack' = estack)
    BY <2>1, <2>2, <2>7, Printed, ErrorWorksKeeps DEF ErrorWorks
  <2>8. CASE Replace(y) /\ Push(Mesg.bad)
    <3>1. Answers(Top, y)
      BY <2>3, <2>6, <2>8, PushAnswers
    <3>. QED BY <2>1, <2>4, <2>8, <3>1, ErrorWorksKeeps DEF ErrorWorks
  <2>. QED BY <2>1, <2>7, <2>8
<1>5. CASE MessageLayout
  <2>. DEFINE x == Frame("btree", Mesg.tree)
              y == [Frame("btree2", Mesg.tree) EXCEPT !.mode = "chunks"]
  <2>1. /\ ErrorWalks /\ Top.fn = "messages" /\ Top.i <= Len(Top.mesg) /\ Mesg.kind = "layout"
        /\ estack' = estack
    BY <1>5 DEF MessageLayout, InMessages, Running, ErrorWalks, Walks, Kept, input, errors
  <2>2. /\ IsMesg(file, Mesg) /\ Typed(file, Top) /\ Typed(file, NextMesg(Top))
        /\ Below(Top) /\ Below(NextMesg(Top)) /\ Answers(Top, Top) /\ Answers(Top, NextMesg(Top))
    BY <2>1, MesgTyped, TopTyped, Printed
  <2>3. CASE Mesg.tree = Undef
    <3>1. Replace(NextMesg(Top))
      BY <1>5, <2>3 DEF MessageLayout
    <3>. QED BY <2>1, <2>2, <3>1, ErrorWorksKeeps DEF ErrorWorks
  <2>4. CASE Mesg.tree # Undef /\ Mesg.index = 1
    <3>1. Call(x, Top)
      BY <1>5, <2>4 DEF MessageLayout
    <3>2. Mesg.tree \in Of(file, "raw") /\ Mesg.tree \in Addr
      BY <2>1, <2>2, <2>4, MesgFields DEF Of
    <3>3. Typed(file, x)
      BY <3>2, FrameTyped
    <3>. HIDE DEF x
    <3>. QED BY <2>1, <2>2, <3>1, <3>3, ErrorCallsKeeps DEF ErrorCalls
  <2>5. CASE Mesg.tree # Undef /\ Mesg.index # 1
    <3>1. Call(y, NextMesg(Top))
      BY <1>5, <2>5 DEF MessageLayout
    <3>2. Mesg.tree \in Indexes(file, "chunks")
      BY <2>1, <2>2, <2>5, MesgFields
    <3>3. Typed(file, y)
      <4>1. Tree(file, Mesg.tree, "chunks")
        BY <3>2, IndexIsTree
      <4>. QED BY <4>1, IndexTyped
    <3>. HIDE DEF y
    <3>. QED BY <2>1, <2>2, <3>1, <3>3, ErrorCallsKeeps DEF ErrorCalls
  <2>. QED BY <2>3, <2>4, <2>5
<1>6. CASE MessageGroup
  <2>. DEFINE x == Frame("btree", Mesg.tree)
              y == [NextMesg(Top) EXCEPT !.ret_other_err = @ + 1]
  <2>1. /\ ErrorWalks /\ Top.fn = "messages" /\ Top.i <= Len(Top.mesg) /\ Mesg.kind = "group"
        /\ estack' = 0 \/ estack' = estack
        /\ Replace(y) \/ Call(x, Top)
    BY <1>6 DEF MessageGroup, InMessages, Running, ErrorWalks, Walks, Kept, input, HeapFlush, errors
  <2>2. IsMesg(file, Mesg) /\ Typed(file, Top) /\ Below(Top) /\ Answers(Top, Top)
    BY <2>1, MesgTyped, TopTyped, Printed
  <2>3. Typed(file, x)
    <3>1. Mesg.tree \in Of(file, "groups") /\ Mesg.tree \in Addr
      BY <2>1, <2>2, MesgFields DEF Of
    <3>. QED BY <3>1, FrameTyped
  <2>4. Typed(file, y) /\ (Counted(Top) => Counted(y))
    BY <2>1, TopTyped DEF Typed, Fields, Counted, NextMesg
  <2>. HIDE DEF x, y
  <2>5. Answers(Top, y)
    BY <2>1, <2>4, Printed
  <2>. QED BY <2>1, <2>2, <2>3, <2>4, <2>5, ErrorWorksKeeps, ErrorCallsKeeps
           DEF ErrorWorks, ErrorCalls
<1>7. CASE MessageInfo
  <2>. DEFINE bad == FheapFails(Mesg)
              cb == IF bad \/ Mesg.fheap = Undef THEN "none"
                    ELSE IF Mesg.kind = "linfo" THEN "links" ELSE "attrs"
              trees == Defined(Mesg.corder) \o Defined(Mesg.byname)
              x == [Top EXCEPT !.pc = "indexes", !.mode = cb, !.todo = trees,
                               !.ret_other_err = @ + IF bad THEN 1 ELSE 0]
  <2>1. /\ ErrorWalks /\ Top.fn = "messages" /\ Top.i <= Len(Top.mesg)
        /\ Mesg.kind \in {"linfo", "ainfo"} /\ Replace(x)
        /\ estack' = 0 \/ estack' = estack
    BY <1>7 DEF MessageInfo, InMessages, Running, ErrorWalks, Walks, Kept, input, HeapFlush, errors
  <2>2. IsMesg(file, Mesg)
    BY <2>1, MesgTyped
  <2>3. Trees(file, trees, cb)
    <3>1. \A a \in {Mesg.corder, Mesg.byname} : a = Undef \/ Tree(file, a, cb)
      <4>1. CASE Mesg.kind = "linfo"
        BY <2>2, <4>1, MesgFields, IndexIsTree
      <4>2. CASE Mesg.kind = "ainfo"
        <5>1. cb # "links"
          BY <4>2
        <5>. HIDE DEF cb
        <5>. QED BY <2>2, <4>2, <5>1, MesgFields, IndexIsTree
      <4>. QED BY <2>1, <4>1, <4>2
    <3>. HIDE DEF cb
    <3>. QED BY <3>1, DefinedTrees, TreesJoined
  <2>. HIDE DEF bad, cb, trees
  <2>4. Typed(file, x) /\ (Counted(Top) => Counted(x))
    BY <2>1, <2>3, TopTyped DEF Typed, Fields, Counted
  <2>. HIDE DEF x
  <2>. QED BY <2>1, <2>4, Printed, ErrorWorksKeeps DEF ErrorWorks
<1>8. CASE MessageIndex
  <2>. DEFINE x == [NextMesg(Top) EXCEPT !.pc = "enter"]
              y == [Frame("btree2", Head(Top.todo)) EXCEPT !.mode = Top.mode]
              z == [Top EXCEPT !.todo = Tail(@)]
  <2>1. ErrorWalks /\ Top.fn = "messages" /\ estack' = estack
    BY <1>8 DEF MessageIndex, Running, ErrorWalks, Walks, Kept, input, errors
  <2>2. CASE Top.todo = << >>
    <3>1. Replace(x)
      BY <1>8, <2>2 DEF MessageIndex
    <3>2. Typed(file, x) /\ (Counted(Top) => Counted(x))
      BY <2>1, TopTyped DEF Typed, Fields, Counted, NextMesg
    <3>. HIDE DEF x
    <3>. QED BY <2>1, <3>1, <3>2, Printed, ErrorWorksKeeps DEF ErrorWorks
  <2>3. CASE Top.todo # << >>
    <3>1. Call(y, z)
      BY <1>8, <2>3 DEF MessageIndex
    <3>2. Trees(file, Top.todo, Top.mode)
      BY <2>1, TopTyped DEF Typed
    <3>3. Tree(file, Head(Top.todo), Top.mode) /\ Trees(file, Tail(Top.todo), Top.mode)
      <4>1. PICK S : Top.todo \in Seq(S)
        BY <3>2 DEF Trees, IsList
      <4>2. /\ Head(Top.todo) = Top.todo[1] /\ Len(Top.todo) \in Nat /\ 1 \in 1 .. Len(Top.todo)
            /\ Tail(Top.todo) \in Seq(S) /\ Len(Tail(Top.todo)) = Len(Top.todo) - 1
            /\ \A j \in 1 .. Len(Top.todo) - 1 : Tail(Top.todo)[j] = Top.todo[j + 1]
        BY <2>3, <4>1
      <4>. DEFINE r == Tail(Top.todo)
      <4>3. \A j \in 1 .. Len(Top.todo) : Tree(file, Top.todo[j], Top.mode)
        BY <3>2 DEF Trees
      <4>4. /\ IsList(r) /\ Len(r) = Len(Top.todo) - 1
            /\ \A j \in 1 .. Len(r) : r[j] = Top.todo[j + 1] /\ j + 1 \in 1 .. Len(Top.todo)
        BY <4>2 DEF IsList
      <4>. HIDE DEF r
      <4>5. \A j \in 1 .. Len(r) : Tree(file, r[j], Top.mode)
        BY <4>3, <4>4
      <4>6. Trees(file, r, Top.mode)
        BY <4>4, <4>5 DEF Trees
      <4>7. Tree(file, Head(Top.todo), Top.mode)
        BY <4>2, <4>3
      <4>. QED BY <4>6, <4>7 DEF r
    <3>4. Typed(file, y)
      BY <3>3, IndexTyped
    <3>5. Typed(file, z) /\ Below(z) /\ (Counted(Top) => Counted(z))
      BY <2>1, <3>3, TopTyped DEF Typed, Fields, Below, Counted
    <3>. HIDE DEF y, z
    <3>. QED BY <2>1, <3>1, <3>4, <3>5, Printed, ErrorCallsKeeps DEF ErrorCalls
  <2>. QED BY <2>2, <2>3
<1>9. CASE MessageShared
  <2>. DEFINE x == [Frame("header", Mesg.header) EXCEPT !.want = TRUE]
  <2>1. /\ ErrorWalks /\ Top.fn = "messages" /\ Top.i <= Len(Top.mesg) /\ Mesg.kind = "shared"
        /\ estack' = estack /\ Call(x, Top)
    BY <1>9 DEF MessageShared, InMessages, Running, ErrorWalks, Walks, Kept, input, errors
  <2>2. IsMesg(file, Mesg) /\ Typed(file, Top) /\ Below(Top) /\ Answers(Top, Top)
    BY <2>1, MesgTyped, TopTyped, Printed
  <2>3. Typed(file, x)
    <3>1. Mesg.header \in Headers(file) /\ Mesg.header \in Addr
      BY <2>1, <2>2, MesgFields DEF Headers, Of
    <3>. QED BY <3>1, FrameTyped
  <2>. HIDE DEF x
  <2>. QED BY <2>1, <2>2, <2>3, ErrorCallsKeeps DEF ErrorCalls
<1>10. CASE MessageLink
  <2>. DEFINE x == Frame("header", Mesg.header)
              y == [Top EXCEPT !.curr_obj = current_obj]
  <2>1. /\ ErrorWalks /\ Top.fn = "messages" /\ Top.i <= Len(Top.mesg) /\ Mesg.kind = "link"
        /\ estack' = estack
    BY <1>10 DEF MessageLink, InMessages, Running, ErrorWalks, Walks, Kept, input, errors
  <2>2. IsMesg(file, Mesg)
    BY <2>1, MesgTyped
  <2>3. CASE Mesg.header # Undef
    <3>1. Call(x, y)
      BY <1>10, <2>3 DEF MessageLink, FollowLink
    <3>2. Mesg.header \in Headers(file) /\ Mesg.header \in Addr
      BY <2>1, <2>2, <2>3, MesgFields DEF Headers, Of
    <3>3. Typed(file, x)
      BY <3>2, FrameTyped
    <3>4. Typed(file, y) /\ Below(y) /\ (Counted(Top) => Counted(y))
      BY <2>1, TopTyped DEF Typed, Fields, Below, Counted
    <3>. HIDE DEF x, y
    <3>. QED BY <2>1, <3>1, <3>3, <3>4, Printed, ErrorCallsKeeps DEF ErrorCalls
  <2>4. CASE Mesg.header = Undef
    <3>1. Replace(NextMesg(Top))
      BY <1>10, <2>4 DEF MessageLink
    <3>. QED BY <2>1, <3>1, MesgTyped, Printed, ErrorWorksKeeps DEF ErrorWorks
  <2>. QED BY <2>3, <2>4
<1>. QED BY <1>1, <1>2, <1>3, <1>4, <1>5, <1>6, <1>7, <1>8, <1>9, <1>10 DEF MessageStep
LEMMA BtreeErrors == ASSUME ErrInv, BtreeNode \/ BtreeEntry \/ BtreeDone PROVE ErrInv'
<1>1. CASE BtreeNode
  <2>. DEFINE b == Block(Top.at)
              errs == (IF fault[Top.at] = "soft" THEN 1 ELSE 0)
                      + (IF Exceeds(b, BtreeK(file.super, b.kind)) THEN 1 ELSE 0)
              x == [Top EXCEPT !.ret_err = 1, !.pc = "done"]
              y == [Top EXCEPT !.ret_err = errs, !.pc = "entries"]
  <2>1. ErrorWalks /\ Top.fn = "btree" /\ Top.pc = "enter"
    BY <1>1 DEF BtreeNode, Running, ErrorWalks, Walks, Kept, input
  <2>2. \/ Replace(x) /\ Push(1)
        \/ Replace(y) /\ Push(errs)
    BY <1>1 DEF BtreeNode, errors
  <2>3. errs \in Nat
    OBVIOUS
  <2>. HIDE DEF errs
  <2>4. Typed(file, x) /\ Counted(x)
    BY <2>1, TopTyped DEF Typed, Fields, Counted
  <2>5. Typed(file, y) /\ (errs # 0 => Counted(y)) /\ ~ Counted(Top)
    BY <2>1, <2>3, TopTyped DEF Typed, Fields, Counted
  <2>. HIDE DEF x, y
  <2>6. CASE Replace(x) /\ Push(1)
    BY <2>1, <2>4, <2>6, PushAnswers, ErrorWorksKeeps DEF ErrorWorks
  <2>7. CASE Replace(y) /\ Push(errs)
    BY <2>1, <2>3, <2>5, <2>7, PushAnswers, ErrorWorksKeeps DEF ErrorWorks
  <2>. QED BY <2>2, <2>6, <2>7
<1>2. CASE BtreeEntry
  <2>. DEFINE b == Block(Top.at)
              child == b.items[Top.i]
              x == [Frame("btree", child) EXCEPT !.names = Top.names]
              y == [Frame("sym", child) EXCEPT !.names = Top.names]
              z == [Top EXCEPT !.i = @ + 1]
  <2>1. ErrorWalks /\ Top.fn = "btree" /\ Top.i <= Len(b.items) /\ estack' = estack
    BY <1>2 DEF BtreeEntry, Running, ErrorWalks, Walks, Kept, input, errors
  <2>2. \/ b.level > 0 /\ Call(x, Top)
        \/ b.level = 0 /\ b.kind = "groups" /\ Call(y, Top)
        \/ Replace(z)
    BY <1>2 DEF BtreeEntry
  <2>3. /\ file \in Files /\ Top.at \in Addr /\ b.kind \in {"groups", "raw"} /\ Top.i \in Nat \ {0}
        /\ Typed(file, Top) /\ Below(Top) /\ Answers(Top, Top)
    BY <2>1, TopTyped, Printed DEF Typed, Of, Block, Below
  <2>4. b.items \in Seq(Items(file, b))
    BY <2>3, BlockItems
  <2>5. child \in Items(file, b)
    BY <2>1, <2>3, <2>4
  <2>. HIDE DEF child
  <2>6. ASSUME b.level > 0 PROVE Typed(file, x)
    <3>1. child \in Of(file, "groups") \cup Of(file, "raw")
      BY <2>3, <2>5, <2>6, BlockItems
    <3>. QED BY <3>1, FrameTyped DEF Of
  <2>7. ASSUME b.level = 0, b.kind = "groups" PROVE Typed(file, y)
    <3>1. child \in Of(file, "sym")
      BY <2>3, <2>5, <2>7, BlockItems
    <3>. QED BY <3>1, FrameTyped DEF Of
  <2>8. Typed(file, z) /\ (Counted(Top) => Counted(z))
    BY <2>1, TopTyped DEF Typed, Fields, Counted
  <2>. HIDE DEF b, x, y, z
  <2>9. CASE b.level > 0 /\ Call(x, Top)
    BY <2>1, <2>3, <2>6, <2>9, ErrorCallsKeeps DEF ErrorCalls
  <2>10. CASE b.level = 0 /\ b.kind = "groups" /\ Call(y, Top)
    BY <2>1, <2>3, <2>7, <2>10, ErrorCallsKeeps DEF ErrorCalls
  <2>11. CASE Replace(z)
    BY <2>1, <2>8, <2>11, Printed, ErrorWorksKeeps DEF ErrorWorks
  <2>. QED BY <2>2, <2>9, <2>10, <2>11
<1>3. CASE BtreeDone
  <2>1. ErrorWalks /\ Return(Result(Top), Top.ret_err) /\ Top.fn = "btree"
    BY <1>3 DEF BtreeDone, Running, Return, input, ErrorWalks, Walks
  <2>2. Top.ret_err \in Nat
    BY <2>1, TopTyped
  <2>. QED BY <2>1, <2>2, ErrorReturnsKeeps DEF ErrorReturns, Counted
<1>. QED BY <1>1, <1>2, <1>3

LEMMA SymErrors == ASSUME ErrInv, SymUnread \/ SymNode \/ SymEntry \/ SymDone PROVE ErrInv'
<1>1. CASE SymNode
  <2>. DEFINE names == WithNames(Top.names, Block(Top.at).items)
  <2>1. ErrorWalks /\ Top.fn = "sym" /\ Top.pc = "enter"
    BY <1>1 DEF SymNode, Running, ErrorWalks, Walks, Kept, input
  <2>2. PICK errs \in NodeErrors(Top.at, Top.names) :
          /\ Replace([Top EXCEPT !.ret_err = errs, !.pc = "entries",
                                 !.names = WithNames(@, Block(Top.at).items)])
          /\ Push(errs)
    BY <1>1 DEF SymNode
  <2>. DEFINE y == [Top EXCEPT !.ret_err = errs, !.pc = "entries", !.names = names]
  <2>3. Replace(y) /\ Push(errs)
    BY <2>2
  <2>4. Top.at \in Of(file, "sym") /\ file \in Files /\ ~ Counted(Top)
    BY <2>1, TopTyped DEF Typed, Counted
  <2>5. errs \in Nat
    BY <2>2, <2>4, NodeErrorsNumber
  <2>. HIDE DEF names
  <2>6. Typed(file, y) /\ (errs # 0 => Counted(y))
    BY <2>1, <2>5, TopTyped DEF Typed, Fields, Counted
  <2>. HIDE DEF y
  <2>. QED BY <2>1, <2>3, <2>4, <2>5, <2>6, PushAnswers, ErrorWorksKeeps DEF ErrorWorks
<1>2. CASE SymEntry
  <2>. DEFINE b == Block(Top.at)
              z == [Top EXCEPT !.i = @ + 1]
              y == [Top EXCEPT !.curr_obj = current_obj]
  <2>1. ErrorWalks /\ Top.fn = "sym" /\ Top.i <= Len(b.items) /\ estack' = estack
    BY <1>2 DEF SymEntry, Running, ErrorWalks, Walks, Kept, input, errors
  <2>2. PICK ent \in EntryAt(Top.at, Top.i) :
          \/ ent.header # Undef /\ Call(Frame("header", ent.header), y)
          \/ Replace(z)
    BY <1>2 DEF SymEntry, FollowLink
  <2>. DEFINE x == Frame("header", ent.header)
  <2>3. file \in Files /\ Top.at \in Addr /\ b.kind = "sym" /\ Top.i \in Nat \ {0}
    BY <2>1, TopTyped DEF Typed, Of, Block
  <2>4. b.items \in Seq(Entries(file))
    BY <2>3, BlockItems
  <2>5. ent.header \in Headers(file) \cup {Undef}
    <3>1. CASE Top.i <= Room
      <4>1. ent = b.items[Top.i]
        BY <2>2, <3>1 DEF EntryAt
      <4>2. ent \in Entries(file)
        BY <2>1, <2>3, <2>4, <4>1
      <4>. QED BY <4>2 DEF Entries
    <3>2. CASE ~ (Top.i <= Room)
      BY <2>2, <3>2 DEF EntryAt
    <3>. QED BY <3>1, <3>2
  <2>6. ASSUME ent.header # Undef PROVE Typed(file, x)
    <3>1. ent.header \in Headers(file) /\ ent.header \in Addr
      BY <2>5, <2>6 DEF Headers, Of
    <3>. QED BY <3>1, FrameTyped
  <2>7. Typed(file, y) /\ Below(y) /\ (Counted(Top) => Counted(y))
    BY <2>1, TopTyped DEF Typed, Fields, Below, Counted
  <2>8. Typed(file, z) /\ (Counted(Top) => Counted(z))
    BY <2>1, TopTyped DEF Typed, Fields, Counted
  <2>9. (ent.header # Undef /\ Call(x, y)) \/ Replace(z)
    BY <2>2
  <2>. HIDE DEF b, x, y, z
  <2>10. CASE ent.header # Undef /\ Call(x, y)
    BY <2>1, <2>6, <2>7, <2>10, Printed, ErrorCallsKeeps DEF ErrorCalls
  <2>11. CASE Replace(z)
    BY <2>1, <2>8, <2>11, Printed, ErrorWorksKeeps DEF ErrorWorks
  <2>. QED BY <2>9, <2>10, <2>11
<1>4. CASE SymUnread
  <2>. DEFINE x == [Top EXCEPT !.ret_err = 1, !.pc = "done"]
  <2>1. ErrorWalks /\ Top.fn = "sym" /\ Replace(x) /\ Push(1)
    BY <1>4 DEF SymUnread, Running, ErrorWalks, Walks, Kept, input
  <2>2. Typed(file, x) /\ Counted(x)
    BY <2>1, TopTyped DEF Typed, Fields, Counted
  <2>. HIDE DEF x
  <2>. QED BY <2>1, <2>2, PushAnswers, ErrorWorksKeeps DEF ErrorWorks
<1>3. CASE SymDone
  <2>1. ErrorWalks /\ Return(Result(Top), Top.ret_err) /\ Top.fn = "sym"
    BY <1>3 DEF SymDone, Running, Return, input, ErrorWalks, Walks
  <2>2. Top.ret_err \in Nat
    BY <2>1, TopTyped
  <2>. QED BY <2>1, <2>2, ErrorReturnsKeeps DEF ErrorReturns, Counted
<1>. QED BY <1>1, <1>2, <1>3, <1>4

LEMMA Btree2Errors ==
    ASSUME ErrInv, Btree2Header \/ Btree2Leaf \/ Btree2Record \/ Btree2Node \/ Btree2Done
    PROVE  ErrInv'
<1>1. CASE Btree2Header
  <2>. DEFINE x == [Top EXCEPT !.ret_err = 1, !.pc = "done"]
              y == [Top EXCEPT !.pc = "leaf", !.chunk = Block(Top.at).items[1]]
  <2>1. ErrorWalks /\ Top.fn = "btree2"
    BY <1>1 DEF Btree2Header, Running, ErrorWalks, Walks, Kept, input
  <2>2. (Replace(x) /\ Push(1)) \/ (Replace(y) /\ estack' = estack)
    BY <1>1 DEF Btree2Header, errors
  <2>3. Typed(file, x) /\ Counted(x)
    BY <2>1, TopTyped DEF Typed, Fields, Counted
  <2>4. Block(Top.at).items[1] \in Addr
    BY <2>1, TopTyped DEF Typed, Tree, Block
  <2>5. Typed(file, y) /\ (Counted(Top) => Counted(y))
    BY <2>1, <2>4, TopTyped DEF Typed, Fields, Counted, Block
  <2>. HIDE DEF x, y
  <2>6. CASE Replace(x) /\ Push(1)
    BY <2>1, <2>3, <2>6, PushAnswers, ErrorWorksKeeps DEF ErrorWorks
  <2>7. CASE Replace(y) /\ estack' = estack
    BY <2>1, <2>5, <2>7, Printed, ErrorWorksKeeps DEF ErrorWorks
  <2>. QED BY <2>2, <2>6, <2>7
<1>2. CASE Btree2Leaf
  <2>. DEFINE x == [Top EXCEPT !.ret_err = 1, !.pc = "node"]
              y == [Top EXCEPT !.pc = "records"]
  <2>1. ErrorWalks /\ Top.fn = "btree2" /\ Top.pc = "leaf"
    BY <1>2 DEF Btree2Leaf, Running, ErrorWalks, Walks, Kept, input
  <2>2. (Replace(x) /\ Push(1)) \/ (Replace(y) /\ estack' = estack)
    BY <1>2 DEF Btree2Leaf, errors
  <2>3. Typed(file, x) /\ Counted(x)
    BY <2>1, TopTyped DEF Typed, Fields, Counted
  <2>4. Typed(file, y) /\ (Counted(Top) => Counted(y))
    BY <2>1, TopTyped DEF Typed, Fields, Counted
  <2>. HIDE DEF x, y
  <2>5. CASE Replace(x) /\ Push(1)
    BY <2>1, <2>3, <2>5, PushAnswers, ErrorWorksKeeps DEF ErrorWorks
  <2>6. CASE Replace(y) /\ estack' = estack
    BY <2>1, <2>4, <2>6, Printed, ErrorWorksKeeps DEF ErrorWorks
  <2>. QED BY <2>2, <2>5, <2>6
<1>3. CASE Btree2Record
  <2>. DEFINE b == Block(Top.chunk)
              rec == b.items[Top.i]
              x == Frame("header", rec)
              z == [Top EXCEPT !.i = @ + 1]
  <2>1. /\ ErrorWalks /\ Top.fn = "btree2" /\ Top.pc = "records" /\ Top.i <= Len(b.items)
        /\ estack' = estack
    BY <1>3 DEF Btree2Record, Running, ErrorWalks, Walks, Kept, input, errors
  <2>2. (Top.mode = "links" /\ rec # Undef /\ Call(x, Top)) \/ Replace(z)
    BY <1>3 DEF Btree2Record
  <2>3. /\ file \in Files /\ Top.chunk \in Addr /\ Top.i \in Nat \ {0}
        /\ Top.mode = "links" => b.kind = "links"
        /\ Typed(file, Top) /\ Below(Top) /\ Answers(Top, Top)
    BY <2>1, TopTyped, Printed DEF Typed, Tree, Of, Block, Below
  <2>4. ASSUME Top.mode = "links", rec # Undef PROVE Typed(file, x)
    <3>1. b.items \in Seq(Headers(file) \cup {Undef})
      BY <2>3, <2>4, BlockItems
    <3>2. rec \in Headers(file) \cup {Undef}
      BY <2>1, <2>3, <3>1
    <3>. HIDE DEF rec
    <3>3. rec \in Headers(file) /\ rec \in Addr
      BY <2>4, <3>2 DEF Headers, Of
    <3>. QED BY <3>3, FrameTyped
  <2>5. Typed(file, z) /\ (Counted(Top) => Counted(z))
    BY <2>1, TopTyped DEF Typed, Fields, Counted
  <2>. HIDE DEF b, rec, x, z
  <2>6. CASE Top.mode = "links" /\ rec # Undef /\ Call(x, Top)
    BY <2>1, <2>3, <2>4, <2>6, ErrorCallsKeeps DEF ErrorCalls
  <2>7. CASE Replace(z)
    BY <2>1, <2>5, <2>7, Printed, ErrorWorksKeeps DEF ErrorWorks
  <2>. QED BY <2>2, <2>6, <2>7
<1>4. CASE Btree2Node
  <2>. DEFINE x == [Top EXCEPT !.ret_err = @ + 1, !.pc = "done"]
              y == [Top EXCEPT !.pc = "done"]
  <2>1. ErrorWalks /\ Top.fn = "btree2"
    BY <1>4 DEF Btree2Node, Running, ErrorWalks, Walks, Kept, input
  <2>2. (Replace(x) /\ Push(1)) \/ (Replace(y) /\ estack' = estack)
    BY <1>4 DEF Btree2Node, errors
  <2>3. Typed(file, x) /\ Counted(x)
    BY <2>1, TopTyped DEF Typed, Fields, Counted
  <2>4. Typed(file, y) /\ (Counted(Top) => Counted(y))
    BY <2>1, TopTyped DEF Typed, Fields, Counted
  <2>. HIDE DEF x, y
  <2>5. CASE Replace(x) /\ Push(1)
    BY <2>1, <2>3, <2>5, PushAnswers, ErrorWorksKeeps DEF ErrorWorks
  <2>6. CASE Replace(y) /\ estack' = estack
    BY <2>1, <2>4, <2>6, Printed, ErrorWorksKeeps DEF ErrorWorks
  <2>. QED BY <2>2, <2>5, <2>6
<1>5. CASE Btree2Done
  <2>1. ErrorWalks /\ Return(Result(Top), Top.ret_err) /\ Top.fn = "btree2"
    BY <1>5 DEF Btree2Done, Running, Return, input, ErrorWalks, Walks
  <2>2. Top.ret_err \in Nat
    BY <2>1, TopTyped
  <2>. QED BY <2>1, <2>2, ErrorReturnsKeeps DEF ErrorReturns, Counted
<1>. QED BY <1>1, <1>2, <1>3, <1>4, <1>5

(* The walk begins with the root's header, without an error pushed.        *)
LEMMA InitErrors == ASSUME ErrInv, FileInit PROVE ErrInv'
<1>1. pc = "init" /\ estack = 0 /\ file' = file /\ file \in Files
  <2>1. pc = "init" /\ file' = file
    BY DEF FileInit, input
  <2>. QED BY <2>1 DEF ErrInv
<1>2. CASE pc' = "done" /\ estack' = 0 /\ stack' = stack
  BY <1>1, <1>2, 0 \in 0 .. NSlots DEF ErrInv, NSlots
<1>3. CASE pc' = "check" /\ estack' = estack /\ stack' = <<Frame("header", file.root)>>
  <2>. DEFINE f == Frame("header", file.root)
  <2>1. Typed(file, f)
    <3>1. file.root \in Headers(file) /\ file.root \in Addr
      BY <1>1, FilesAssumption DEF Headers, Of
    <3>. QED BY <3>1, FrameTyped
  <2>. HIDE DEF f
  <2>2. IsList(stack') /\ Len(stack') = 1 /\ Deep(stack', 1) = f
    BY <1>3, Single DEF Deep, f
  <2>3. Stacked(file, stack')
    BY <2>1, <2>2 DEF Stacked
  <2>. QED BY <1>1, <1>3, <2>3, 0 \in 0 .. NSlots DEF ErrInv, NSlots
<1>4. CASE pc' = "crashed" /\ estack' = estack /\ stack' = stack
  BY <1>1, <1>4, 0 \in 0 .. NSlots DEF ErrInv, NSlots
<1>5. CASE ~ SuperblockFails(file.super) /\ file.super.ext
  <2>1. pc' = "crashed" /\ estack' = estack /\ stack' = stack
    BY <1>5 DEF FileInit
  <2>. QED BY <1>4, <2>1
<1>6. CASE SuperblockFails(file.super) \/ (~ file.super.ext /\ "size" \in file.super.bad)
  <2>1. pc' = "done" /\ estack' = 0 /\ stack' = stack
    BY <1>6 DEF FileInit
  <2>. QED BY <1>2, <2>1
<1>7. CASE ~ SuperblockFails(file.super) /\ ~ file.super.ext /\ ~ ("size" \in file.super.bad)
  <2>1. pc' = "check" /\ estack' = estack /\ stack' = <<Frame("header", file.root)>>
    BY <1>7 DEF FileInit
  <2>. QED BY <1>3, <2>1
<1>. QED BY <1>5, <1>6, <1>7

LEMMA ErrorsKept == ASSUME ErrInv, [Next]_vars PROVE ErrInv'
<1>1. CASE HeaderStep
  BY <1>1, HeaderErrors
<1>2. CASE MessageStep
  BY <1>2, MessageErrors
<1>3. CASE NodeStep
  BY <1>3, BtreeErrors, SymErrors, Btree2Errors DEF NodeStep
<1>4. CASE FileInit
  BY <1>4, InitErrors
<1>5. CASE MainCheck
  <2>1. pc = "check" /\ stack = << >> /\ estack' = estack /\ stack' = stack /\ file' = file
    BY <1>5 DEF MainCheck, input, errors
  <2>2. ~ Blame(stack)
    BY <2>1, EmptyList DEF Blame
  <2>. QED BY <2>1, <2>2 DEF ErrInv
<1>6. CASE MainDone \/ Done \/ UNCHANGED vars
  BY <1>6 DEF MainDone, Done, vars, input, errors, ErrInv
<1>7. CASE CrashStep
  BY <1>7, Killed DEF input, errors, ErrInv
<1>. QED BY <1>1, <1>2, <1>3, <1>4, <1>5, <1>6, <1>7 DEF Next, HeapSpins

LEMMA ErrorsInit == Init => ErrInv
<1>1. \A F : Stacked(F, << >>)
  BY EmptyList DEF Stacked
<1>. QED BY <1>1, 0 \in 0 .. NSlots DEF Init, ErrInv, NSlots

(* "errors should have been flushed already in check_obj_header()" (main): *)
(* for every file and its faults, whoever finds an error, its function or  *)
(* the one that called it has printed it before h5check ends.              *)
THEOREM ErrorsArePrinted == Spec => []ErrorsFlushed
<1>1. ErrInv => ErrorsFlushed
  BY DEF ErrInv, ErrorsFlushed
<1>. QED BY <1>1, ErrorsInit, ErrorsKept, PTL DEF Spec

-----------------------------------------------------------------------------
(* The logger's objects: the children of an object come after it.          *)
TypedObject(ob) ==
    /\ {"type", "base"} \subseteq DOMAIN ob
    /\ ob.type \in {"DATASET", "GROUP"} /\ ob.base \in Addr \cup {0}

TypedLog(l) ==
    \A o \in 1 .. Len(l) :
        /\ TypedObject(l[o])
        /\ \A j \in DOMAIN l[o].subgroups : l[o].subgroups[j] \in (o + 1) .. Len(l)

(* What is noted of one object.                                            *)
LEMMA TypedOne ==
    ASSUME NEW l, Objects(l), TypedLog(l), NEW c \in 1 .. Len(l),
           NEW v, TypedObject(v), "subgroups" \in DOMAIN v, v.subgroups = l[c].subgroups
    PROVE  TypedLog([l EXCEPT ![c] = v]) /\ Noted(l, [l EXCEPT ![c] = v])
<1>1. Noted(l, [l EXCEPT ![c] = v])
  BY NotedOne
<1>2. Len([l EXCEPT ![c] = v]) = Len(l) /\ DOMAIN l = 1 .. Len(l)
  BY <1>1, ListType DEF Noted, Objects
<1>3. \A o \in 1 .. Len(l) : [l EXCEPT ![c] = v][o] = IF o = c THEN v ELSE l[o]
  BY <1>2
<1>4. \A o \in 1 .. Len(l) : [l EXCEPT ![c] = v][o].subgroups = l[o].subgroups
  BY <1>3
<1>5. \A o \in 1 .. Len(l) : TypedObject([l EXCEPT ![c] = v][o])
  BY <1>3 DEF TypedLog
<1>. QED BY <1>1, <1>2, <1>4, <1>5 DEF TypedLog

LEMMA TypedField ==
    ASSUME NEW l, Objects(l), TypedLog(l), NEW c \in 1 .. Len(l), NEW x
    PROVE  /\ TypedLog([l EXCEPT ![c].type = "GROUP"])
           /\ x \in Addr => TypedLog([l EXCEPT ![c].base = x])
           /\ TypedLog([l EXCEPT ![c].obj_header = x]) /\ TypedLog([l EXCEPT ![c].local_heap = x])
           /\ TypedLog([l EXCEPT ![c].data_segment = x]) /\ TypedLog([l EXCEPT ![c].btree_nodes = x])
           /\ TypedLog([l EXCEPT ![c].sym_nodes = x]) /\ TypedLog([l EXCEPT ![c].data_chunks = x])
<1>1. \A v : TypedObject(v) /\ "subgroups" \in DOMAIN v /\ v.subgroups = l[c].subgroups
               => TypedLog([l EXCEPT ![c] = v])
  BY TypedOne
<1>2. {"subgroups", "type", "base"} \subseteq DOMAIN l[c] /\ TypedObject(l[c])
  BY DEF Objects, IsObject, TypedLog, TypedObject
<1>3. /\ TypedLog([l EXCEPT ![c] = [l[c] EXCEPT !.type = "GROUP"]])
      /\ x \in Addr => TypedLog([l EXCEPT ![c] = [l[c] EXCEPT !.base = x]])
      /\ TypedLog([l EXCEPT ![c] = [l[c] EXCEPT !.obj_header = x]])
      /\ TypedLog([l EXCEPT ![c] = [l[c] EXCEPT !.local_heap = x]])
      /\ TypedLog([l EXCEPT ![c] = [l[c] EXCEPT !.data_segment = x]])
      /\ TypedLog([l EXCEPT ![c] = [l[c] EXCEPT !.btree_nodes = x]])
      /\ TypedLog([l EXCEPT ![c] = [l[c] EXCEPT !.sym_nodes = x]])
      /\ TypedLog([l EXCEPT ![c] = [l[c] EXCEPT !.data_chunks = x]])
  BY <1>1, <1>2 DEF TypedObject
<1>. QED BY <1>3

(* A child is noted under the current object, and comes last.              *)
LEMMA TypedChild ==
    ASSUME NEW l, Objects(l), TypedLog(l), NEW c \in 1 .. Len(l),
           NEW ob, IsObject(ob), TypedObject(ob), DOMAIN ob.subgroups = {}
    PROVE  TypedLog(Append([l EXCEPT ![c].subgroups = Append(@, Len(l) + 1)], ob))
<1>. DEFINE n == Len(l)
            subs == Append(l[c].subgroups, n + 1)
            v == [l[c] EXCEPT !.subgroups = subs]
            m == [l EXCEPT ![c] = v]
            k == Append(m, ob)
<1>1. IsList(l) /\ n \in Nat /\ DOMAIN l = 1 .. n /\ IsObject(l[c]) /\ TypedObject(l[c])
  BY ListType DEF Objects, TypedLog
<1>2. /\ IsList(subs) /\ Len(subs) = Len(l[c].subgroups) + 1 /\ Len(l[c].subgroups) \in Nat
      /\ \A j \in DOMAIN subs : subs[j] = n + 1 \/ (j \in DOMAIN l[c].subgroups /\ subs[j] = l[c].subgroups[j])
  BY <1>1, Appended, ListType DEF IsObject
<1>. HIDE DEF subs
<1>3. TypedObject(v) /\ v.subgroups = subs
  BY <1>1 DEF TypedObject, IsObject
<1>4. PICK S : l \in Seq(S)
  BY <1>1 DEF IsList
<1>. HIDE DEF v, n
<1>5. /\ IsList(m) /\ Len(m) = n
      /\ \A o \in 1 .. n : m[o] = IF o = c THEN v ELSE l[o]
  <2>1. l \in Seq(S \cup {v}) /\ Len(l) = n
    BY <1>4 DEF n
  <2>2. m \in Seq(S \cup {v}) /\ Len(m) = n
    BY <2>1
  <2>. QED BY <2>1, <2>2 DEF IsList
<1>. HIDE DEF m
<1>6. /\ IsList(k) /\ Len(k) = n + 1 /\ k[n + 1] = ob
      /\ \A o \in 1 .. n : k[o] = m[o]
  BY <1>5, Appended
<1>. HIDE DEF k
<1>7. ASSUME NEW o \in 1 .. n PROVE TypedObject(k[o])
  BY <1>3, <1>5, <1>6 DEF TypedLog, n
<1>8. ASSUME NEW o \in 1 .. n, NEW j \in DOMAIN k[o].subgroups
      PROVE  k[o].subgroups[j] \in (o + 1) .. (n + 1)
  <2>1. CASE o = c
    <3>1. k[o].subgroups = subs /\ j \in DOMAIN subs
      BY <1>3, <1>5, <1>6, <1>8, <2>1
    <3>2. CASE subs[j] = n + 1
      BY <1>1, <3>1, <3>2, o \in 1 .. n
    <3>3. CASE j \in DOMAIN l[c].subgroups /\ subs[j] = l[c].subgroups[j]
      <4>1. subs[j] \in (o + 1) .. n
        BY <2>1, <3>3 DEF TypedLog, n
      <4>. QED BY <1>1, <3>1, <4>1
    <3>. QED BY <1>2, <3>1, <3>2, <3>3
  <2>2. CASE o # c
    <3>1. k[o] = l[o]
      BY <1>5, <1>6, <2>2
    <3>2. k[o].subgroups[j] \in (o + 1) .. n
      BY <1>8, <3>1 DEF TypedLog, n
    <3>. QED BY <1>1, <3>2
  <2>. QED BY <2>1, <2>2
<1>9. \A o \in 1 .. n + 1 : o \in 1 .. n \/ o = n + 1
  BY <1>1
<1>10. TypedLog(k)
  BY <1>6, <1>7, <1>8, <1>9 DEF TypedLog
<1>. QED BY <1>10 DEF k, m, v, subs, n

-----------------------------------------------------------------------------
(* The types; the walk itself is typed in ErrInv and OpenInv.              *)
TypeInv ==
    /\ ReadOnceInv /\ OpenInv /\ ErrInv
    /\ pc \in {"init", "check", "done", "exit", "crashed"}
    /\ starved \in BOOLEAN
    /\ obj_table \subseteq Addr
    /\ current_obj \in 0 .. Len(log)
    /\ nerrors \in Nat /\ dumped \in BOOLEAN
    /\ TypedLog(log)

(* What a step of the walk writes to the log.                              *)
LogStep ==
    \/ log' = log
    \/ \E x \in Addr : \E y : log' = [log EXCEPT ![current_obj].base = x, ![current_obj].obj_header = y]
    \/ \E x : \/ log' = [log EXCEPT ![current_obj].btree_nodes = x]
              \/ log' = [log EXCEPT ![current_obj].sym_nodes = x]
              \/ log' = [log EXCEPT ![current_obj].data_chunks = x]
    \/ log' = [log EXCEPT ![current_obj].type = "GROUP"]
    \/ \E a : \/ log' = LheapLogged(log, a)
              \/ log' = LheapLogged([log EXCEPT ![current_obj].type = "GROUP"], a)
    \/ \E name : log' = Descend(log, name)

LEMMA LogStepTyped ==
    ASSUME OpenInv, TypedLog(log), pc = "check", LogStep PROVE TypedLog(log')
<1>. DEFINE c == current_obj
<1>1. Objects(log) /\ c \in 1 .. Len(log)
  BY DEF OpenInv, Chain
<1>2. ASSUME NEW l, Objects(l), TypedLog(l), Len(l) = Len(log), NEW x, NEW y
      PROVE  /\ x \in Addr => TypedLog([l EXCEPT ![c].base = x, ![c].obj_header = y])
             /\ TypedLog([l EXCEPT ![c].local_heap = x, ![c].data_segment = y])
  <2>. DEFINE k == [l EXCEPT ![c].base = x]
              j == [l EXCEPT ![c].local_heap = x]
  <2>1. Noted(l, k) /\ Noted(l, j) /\ (x \in Addr => TypedLog(k)) /\ TypedLog(j)
    BY <1>1, <1>2, NotedField, TypedField
  <2>2. Objects(k) /\ Len(k) = Len(l) /\ Objects(j) /\ Len(j) = Len(l)
    BY <1>2, <2>1, ObjectsNoted DEF Noted
  <2>. HIDE DEF k, j
  <2>3. /\ x \in Addr => TypedLog([k EXCEPT ![c].obj_header = y])
        /\ TypedLog([j EXCEPT ![c].data_segment = y])
    BY <1>1, <1>2, <2>1, <2>2, TypedField
  <2>4. [l EXCEPT ![c].base = x, ![c].obj_header = y] = [k EXCEPT ![c].obj_header = y]
    BY DEF k
  <2>5. [l EXCEPT ![c].local_heap = x, ![c].data_segment = y] = [j EXCEPT ![c].data_segment = y]
    BY DEF j
  <2>. QED BY <2>3, <2>4, <2>5
<1>3. CASE log' = log
  BY <1>3
<1>4. CASE \E x \in Addr : \E y : log' = [log EXCEPT ![c].base = x, ![c].obj_header = y]
  <2>1. PICK x \in Addr : \E y : log' = [log EXCEPT ![c].base = x, ![c].obj_header = y]
    BY <1>4
  <2>2. PICK y : log' = [log EXCEPT ![c].base = x, ![c].obj_header = y]
    BY <2>1
  <2>3. TypedLog([log EXCEPT ![c].base = x, ![c].obj_header = y])
    BY <1>1, <1>2
  <2>. QED BY <2>2, <2>3
<1>5. CASE \E x : \/ log' = [log EXCEPT ![c].btree_nodes = x]
                  \/ log' = [log EXCEPT ![c].sym_nodes = x]
                  \/ log' = [log EXCEPT ![c].data_chunks = x]
  <2>1. PICK x : \/ log' = [log EXCEPT ![c].btree_nodes = x]
                 \/ log' = [log EXCEPT ![c].sym_nodes = x]
                 \/ log' = [log EXCEPT ![c].data_chunks = x]
    BY <1>5
  <2>2. /\ TypedLog([log EXCEPT ![c].btree_nodes = x]) /\ TypedLog([log EXCEPT ![c].sym_nodes = x])
        /\ TypedLog([log EXCEPT ![c].data_chunks = x])
    BY <1>1, TypedField
  <2>. QED BY <2>1, <2>2
<1>6. /\ TypedLog([log EXCEPT ![c].type = "GROUP"])
      /\ Objects([log EXCEPT ![c].type = "GROUP"])
      /\ Len([log EXCEPT ![c].type = "GROUP"]) = Len(log)
  <2>1. Noted(log, [log EXCEPT ![c].type = "GROUP"])
    BY <1>1, NotedField
  <2>. QED BY <1>1, <2>1, TypedField, ObjectsNoted DEF Noted
<1>7. CASE \E a : log' = LheapLogged(log, a)
  <2>1. PICK a : log' = LheapLogged(log, a)
    BY <1>7
  <2>2. \A x, y : TypedLog([log EXCEPT ![c].local_heap = x, ![c].data_segment = y])
    BY <1>1, <1>2
  <2>. QED BY <2>1, <2>2 DEF LheapLogged
<1>8. CASE \E a : log' = LheapLogged([log EXCEPT ![c].type = "GROUP"], a)
  <2>. DEFINE k == [log EXCEPT ![c].type = "GROUP"]
  <2>1. PICK a : log' = LheapLogged(k, a)
    BY <1>8
  <2>2. TypedLog(k) /\ Objects(k) /\ Len(k) = Len(log)
    BY <1>6
  <2>. HIDE DEF k
  <2>. QED BY <1>2, <2>1, <2>2 DEF LheapLogged
<1>9. CASE \E name : log' = Descend(log, name)
  <2>1. PICK name : log' = Descend(log, name)
    BY <1>9
  <2>. DEFINE ob == NewObj(name, PathBelow(log, name))
  <2>2. IsObject(ob) /\ TypedObject(ob) /\ DOMAIN ob.subgroups = {}
    <3>1. ob.subgroups = << >> /\ DOMAIN << >> = {}
      BY EmptyList, ListType DEF NewObj
    <3>. QED BY <3>1, NewObject DEF NewObj, TypedObject
  <2>. HIDE DEF ob
  <2>3. TypedLog(Append([log EXCEPT ![c].subgroups = Append(@, Len(log) + 1)], ob))
    BY <1>1, <2>2, TypedChild
  <2>. QED BY <2>1, <2>3 DEF Descend, ob
<1>. QED BY <1>3, <1>4, <1>5, <1>6, <1>7, <1>8, <1>9 DEF LogStep

(* Counting the errors printed, and what else the walk may change.         *)
Counts == nerrors' \in {nerrors, nerrors + 1}

WalkStep ==
    /\ Walks /\ Counts /\ LogStep
    /\ dumped' = dumped /\ obj_table' \in {obj_table, Inserted} /\ starved' \in {starved, TRUE}

LEMMA ReturnWalks ==
    ASSUME NEW res, NEW n, Return(res, n), pc = "check", stack # << >> PROVE WalkStep
<1>1. Counts
  BY DEF Counts, Return, Flush, errors
<1>. QED BY <1>1 DEF WalkStep, Return, Walks, LogStep

LEMMA HeaderWalks == ASSUME ErrInv, HeaderStep PROVE WalkStep
<1>1. CASE HeaderSeen
  BY <1>1, ReturnWalks DEF HeaderSeen, Running
<1>2. CASE HeaderPrefix
  BY <1>2 DEF HeaderPrefix, Running, logger, errors, Push, WalkStep, Walks, Counts, LogStep
<1>3. CASE HeaderChunk
  BY <1>3 DEF HeaderChunk, Running, logger, Push, WalkStep, Walks, Counts, LogStep
<1>4. CASE HeaderLog
  <2>1. ErrorWalks
    BY <1>4 DEF HeaderLog, Running, input, ErrorWalks, Walks
  <2>2. Top.at \in Addr
    BY <2>1, TopTyped DEF Typed
  <2>3. log' = [log EXCEPT ![current_obj].base = Top.at,
                           ![current_obj].obj_header =
                               <<Top.at, Top.at + Block(Top.at).prefix + Top.chunk_size>>]
    BY <1>4 DEF HeaderLog
  <2>4. LogStep
    BY <2>2, <2>3 DEF LogStep
  <2>. QED BY <1>4, <2>1, <2>4 DEF HeaderLog, WalkStep, ErrorWalks, Counts, errors
<1>5. CASE HeaderDone
  <2>1. CASE Top.mesg = << >>
    BY <1>5, <2>1, ReturnWalks DEF HeaderDone, Running
  <2>2. CASE Top.mesg # << >>
    BY <1>5, <2>2 DEF HeaderDone, Running, logger, errors, Flush, WalkStep, Walks, Counts, LogStep
  <2>. QED BY <2>1, <2>2
<1>6. CASE HeaderReturn
  BY <1>6, ReturnWalks DEF HeaderReturn, Running
<1>7. CASE HeaderFull
  BY <1>7 DEF HeaderFull, Running, logger, Push, WalkStep, Walks, Counts, LogStep
<1>. QED BY <1>1, <1>2, <1>3, <1>4, <1>5, <1>6, <1>7 DEF HeaderStep

LEMMA MessageWalks == ASSUME MessageStep PROVE WalkStep
<1>1. CASE MessagesDone
  BY <1>1, ReturnWalks DEF MessagesDone, Running
<1>2. CASE MessageDecoded \/ MessageUnread \/ MessageLayout \/ MessageIndex \/ MessageShared
  BY <1>2 DEF MessageDecoded, MessageUnread, MessageLayout, MessageIndex, MessageShared, InMessages,
              Running, Kept, errors, Push, WalkStep, Walks, Counts, LogStep
<1>3. CASE MessageEdf \/ MessageGroup \/ MessageInfo
  <2>1. Walks /\ Counts /\ dumped' = dumped /\ obj_table' = obj_table
    BY <1>3 DEF MessageEdf, MessageGroup, MessageInfo, InMessages, Running, Kept, HeapFlush, errors,
                Push, Walks, Counts
  <2>2. LogStep /\ starved' = starved
    BY <1>3 DEF MessageEdf, MessageGroup, MessageInfo, LogStep, Kept
  <2>. QED BY <2>1, <2>2 DEF WalkStep
<1>4. CASE MessageLink
  BY <1>4 DEF MessageLink, InMessages, Running, Kept, errors, FollowLink, WalkStep, Walks, Counts, LogStep
<1>. QED BY <1>1, <1>2, <1>3, <1>4 DEF MessageStep

LEMMA NodeWalks == ASSUME NodeStep PROVE WalkStep
<1>1. CASE BtreeDone \/ SymDone \/ Btree2Done
  BY <1>1, ReturnWalks DEF BtreeDone, SymDone, Btree2Done, Running
<1>2. CASE BtreeNode \/ BtreeEntry
  BY <1>2 DEF BtreeNode, BtreeEntry, Running, Kept, errors, Push, WalkStep, Walks, Counts, LogStep
<1>3. CASE SymNode \/ SymUnread
  BY <1>3 DEF SymNode, SymUnread, Running, Kept, errors, Push, WalkStep, Walks, Counts, LogStep
<1>4. CASE SymEntry
  BY <1>4 DEF SymEntry, Running, Kept, errors, FollowLink, WalkStep, Walks, Counts, LogStep
<1>5. CASE Btree2Header \/ Btree2Leaf
  BY <1>5 DEF Btree2Header, Btree2Leaf, Running, Kept, errors, Push, WalkStep, Walks, Counts, LogStep
<1>6. CASE Btree2Record \/ Btree2Node
  BY <1>6 DEF Btree2Record, Btree2Node, Running, Kept, errors, Push, WalkStep, Walks, Counts, LogStep
<1>. QED BY <1>1, <1>2, <1>3, <1>4, <1>5, <1>6 DEF NodeStep

(* The table holds headers, and the current object is in the log.          *)
LEMMA TypesKept == ASSUME TypeInv, [Next]_vars PROVE TypeInv'
<1>1. ReadOnceInv' /\ OpenInv' /\ ErrInv'
  BY ReadOnceKept, OpenKept, ErrorsKept DEF TypeInv
<1>2. CASE WalkStep
  <2>1. TypedLog(log')
    BY <1>2, LogStepTyped DEF TypeInv, WalkStep, Walks
  <2>2. current_obj' \in 0 .. Len(log')
    <3>1. Chain(Marks(stack'), current_obj', log') /\ Objects(log')
      BY <1>1, <1>2 DEF OpenInv, WalkStep, Walks
    <3>2. Len(log') \in Nat /\ current_obj' \in 1 .. Len(log')
      BY <3>1, ListType DEF Objects, Chain
    <3>. QED BY <3>2
  <2>3. obj_table' \subseteq Addr
    <3>1. Top.at \in Addr
      <4>1. IsList(stack) /\ stack # << >> /\ Stacked(file, stack)
        BY <1>2 DEF TypeInv, ErrInv, Stacked, WalkStep, Walks
      <4>2. Len(stack) \in 1 .. Len(stack) /\ Deep(stack, Len(stack)) = Top
        BY <4>1, Highest DEF Top
      <4>. QED BY <4>1, <4>2 DEF Stacked, Typed
    <3>. QED BY <1>2, <3>1 DEF WalkStep, Inserted, TypeInv
  <2>4. nerrors' \in Nat /\ dumped' \in BOOLEAN /\ pc' = "check"
    BY <1>2 DEF TypeInv, WalkStep, Walks, Counts
  <2>5. starved' \in BOOLEAN
    BY <1>2 DEF TypeInv, WalkStep
  <2>. QED BY <1>1, <2>1, <2>2, <2>3, <2>4, <2>5 DEF TypeInv
<1>3. CASE FileInit
  <2>1. /\ pc' \in {"done", "check", "crashed"} /\ obj_table' = obj_table /\ dumped' = dumped
        /\ starved' = starved
        /\ SignatureErrors(file.super) \in Nat
        /\ nerrors' \in {nerrors + SignatureErrors(file.super), nerrors + SignatureErrors(file.super) + 1}
    BY <1>3 DEF FileInit, SignatureErrors
  <2>. HIDE DEF SignatureErrors
  <2>2. nerrors' \in Nat
    BY <2>1 DEF TypeInv
  <2>3. TypedLog(log') /\ current_obj' \in 0 .. Len(log')
    <3>1. CASE log' = log /\ current_obj' = current_obj
      BY <3>1 DEF TypeInv
    <3>2. CASE log' = <<NewObj(RootName, 1)>> /\ current_obj' = 1
      <4>. DEFINE ob == NewObj(RootName, 1)
      <4>1. TypedObject(ob) /\ DOMAIN ob.subgroups = {}
        <5>1. ob.subgroups = << >> /\ DOMAIN << >> = {}
          BY EmptyList, ListType DEF NewObj
        <5>. QED BY <5>1 DEF NewObj, TypedObject
      <4>2. log' = <<ob>>
        BY <3>2
      <4>. HIDE DEF ob
      <4>3. Len(log') = 1 /\ log'[1] = ob
        BY <4>2, Single
      <4>. QED BY <3>2, <4>1, <4>3 DEF TypedLog
    <3>. QED BY <1>3, <3>1, <3>2 DEF FileInit
  <2>. QED BY <1>1, <2>1, <2>2, <2>3 DEF TypeInv
<1>4. CASE MainCheck \/ MainDone \/ Done \/ UNCHANGED vars
  BY <1>1, <1>4 DEF MainCheck, MainDone, Done, vars, logger, errors, TypeInv
<1>6. CASE CrashStep
  <2>1. starved' = starved
    BY <1>6 DEF CrashStep, StackOverflow, SymOverrun, LoggerOverrun, Crash
  <2>. QED BY <1>1, <1>6, <2>1, Killed DEF logger, errors, TypeInv
<1>5. HeaderStep \/ MessageStep \/ NodeStep => WalkStep
  BY HeaderWalks, MessageWalks, NodeWalks DEF TypeInv
<1>. QED BY <1>2, <1>3, <1>4, <1>5, <1>6 DEF Next, HeapSpins

LEMMA TypesInit == Init => TypeInv
<1>1. Init => ReadOnceInv /\ OpenInv /\ ErrInv
  BY ReadOnceInit, OpenInit, ErrorsInit
<1>2. Len(<< >>) = 0 /\ 1 .. 0 = {}
  BY EmptyList
<1>. SUFFICES ASSUME Init PROVE TypeInv
  OBVIOUS
<1>3. TypedLog(log) /\ current_obj \in 0 .. Len(log)
  BY <1>2 DEF Init, TypedLog
<1>. QED BY <1>1, <1>3 DEF Init, TypeInv

(* Types, for any file, its faults and its links: only addresses of        *)
(* headers come into the table, the current object is in the log, and an   *)
(* object comes before its children (logger_new_obj, logger_add_subgroup). *)
THEOREM H5TypesHold == Spec => []H5TypeOK
<1>1. Init => TypeInv
  BY TypesInit
<1>2. TypeInv /\ [Next]_vars => TypeInv'
  BY TypesKept
<1>3. TypeInv => H5TypeOK
  <2>. SUFFICES ASSUME TypeInv PROVE H5TypeOK
    OBVIOUS
  <2>1. DOMAIN log = 1 .. Len(log)
    BY ListType DEF TypeInv, OpenInv, Objects
  <2>2. estack \in 0 .. NSlots /\ opened \in [Addr -> Nat]
    BY DEF TypeInv, ErrInv, ReadOnceInv
  <2>. QED BY <2>1, <2>2 DEF TypeInv, H5TypeOK, TypedLog, TypedObject
<1>. QED BY <1>1, <1>2, <1>3, PTL DEF Spec

=============================================================================
