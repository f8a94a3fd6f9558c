------------------------------- MODULE Folding -------------------------------
(***************************************************************************)
(* What FoldLeft computes, for any operator: the base for the empty        *)
(* sequence, and one more application of the operator for one more         *)
(* element.  FoldLeft is a recursive function on the parts of the domain   *)
(* of a sequence; that there is exactly one such function is shown by      *)
(* induction on the length.                                                *)
(***************************************************************************)
EXTENDS Integers, SequencesExt, WellFoundedInduction, TLAPS

CONSTANT Op(_, _)

Fold(base, seq) == FoldLeft(Op, base, seq)

LEMMA Least ==
  ASSUME NEW T \in SUBSET Nat, T # {}
  PROVE  \E x \in T : \A y \in T : x <= y
<1>1. PICK x \in T : \A y \in T : ~ (<<y, x>> \in OpToRel(<, Nat))
  BY WFMin, NatLessThanWellFounded
<1>2. \A y \in T : ~ (y < x)
  BY <1>1 DEF OpToRel
<1>. QED BY <1>2

(* Induction, for a set of numbers.                                        *)
LEMMA Inductive ==
  ASSUME NEW S, 0 \in S, \A n \in Nat : n \in S => n + 1 \in S
  PROVE  \A n \in Nat : n \in S
<1>. SUFFICES ASSUME NEW n \in Nat, n \notin S PROVE FALSE
  OBVIOUS
<1>. DEFINE Others == {k \in Nat : k \notin S}
<1>1. PICK k \in Others : \A j \in Others : k <= j
  <2>1. Others \in SUBSET Nat /\ Others # {}
    OBVIOUS
  <2>. HIDE DEF Others
  <2>. QED BY <2>1, Least
<1>2. k # 0 /\ k - 1 \in Nat /\ k - 1 + 1 = k
  BY <1>1
<1>3. k - 1 \notin S
  BY <1>2
<1>. QED BY <1>1, <1>2, <1>3

-----------------------------------------------------------------------------
(* iter is the recursive function of a fold over a sequence of n elements. *)
Iterates(iter, base, seq, n) ==
  iter = [s \in SUBSET (1..n) |->
            IF s = {} THEN base ELSE Op(iter[s \ {Max(s)}], seq[Max(s)])]

Iterate(base, seq, n) == CHOOSE iter : Iterates(iter, base, seq, n)

LEMMA FoldIsIterate ==
  ASSUME NEW base, NEW seq, NEW n \in Nat, DOMAIN seq = 1..n
  PROVE  Fold(base, seq) = Iterate(base, seq, n)[1..n]
BY DEF Fold, FoldLeft, MapThenFoldSet, Iterate, Iterates

LEMMA MaxOfPart ==
  ASSUME NEW n \in Nat, NEW s \in SUBSET (1..(n + 1)), n + 1 \in s
  PROVE  Max(s) = n + 1
<1>1. \A y \in s : n + 1 >= y /\ y \in Int
  OBVIOUS
<1>2. PICK m : m = Max(s)
  OBVIOUS
<1>3. m \in s /\ m >= n + 1
  BY <1>1, <1>2 DEF Max
<1>4. m \in Int /\ n + 1 >= m
  BY <1>1, <1>3
<1>5. m = n + 1
  BY <1>3, <1>4
<1>. QED BY <1>2, <1>5

LEMMA LargestOf ==
  ASSUME NEW n \in Nat, NEW s \in SUBSET (1..n), s # {}
  PROVE  \E x \in s : \A y \in s : x >= y
<1>. DEFINE Gaps == {k \in Nat : n - k \in s}
<1>1. PICK k \in Gaps : \A j \in Gaps : k <= j
  <2>1. PICK x \in s : TRUE
    OBVIOUS
  <2>2. n - x \in Gaps /\ Gaps \in SUBSET Nat
    BY <2>1
  <2>. HIDE DEF Gaps
  <2>. QED BY <2>2, Least
<1>2. ASSUME NEW y \in s PROVE n - k >= y
  <2>1. n - y \in Gaps /\ y \in Int /\ k \in Int
    OBVIOUS
  <2>2. k <= n - y
    BY <1>1, <2>1
  <2>. QED BY <2>1, <2>2
<1>. QED BY <1>2

(* A part of 1..n without its largest element is a part of 1..n.           *)
LEMMA SmallerPart ==
  ASSUME NEW n \in Nat, NEW s \in SUBSET (1..(n + 1))
  PROVE  /\ n + 1 \notin s => s \in SUBSET (1..n)
         /\ s \ {n + 1} \in SUBSET (1..n)
OBVIOUS

(* The function for n elements, extended to one element more.              *)
Extended(iter, seq, n) ==
  [s \in SUBSET (1..(n + 1)) |->
     IF n + 1 \in s THEN Op(iter[s \ {n + 1}], seq[n + 1]) ELSE iter[s]]

LEMMA ExtendedIterates ==
  ASSUME NEW base, NEW seq, NEW n \in Nat, NEW iter, Iterates(iter, base, seq, n)
  PROVE  Iterates(Extended(iter, seq, n), base, seq, n + 1)
<1>. DEFINE next == Extended(iter, seq, n)
<1>1. DOMAIN next = SUBSET (1..(n + 1))
      /\ next = [s \in SUBSET (1..(n + 1)) |-> next[s]]
  BY DEF Extended
<1>2. ASSUME NEW s \in SUBSET (1..(n + 1))
      PROVE  next[s] = IF s = {} THEN base ELSE Op(next[s \ {Max(s)}], seq[Max(s)])
  <2>1. CASE n + 1 \in s
    <3>1. Max(s) = n + 1
      BY <2>1, MaxOfPart
    <3>2. s \ {n + 1} \in SUBSET (1..(n + 1)) /\ n + 1 \notin s \ {n + 1}
      OBVIOUS
    <3>3. next[s \ {n + 1}] = iter[s \ {n + 1}]
      BY <3>2 DEF Extended
    <3>4. next[s] = Op(iter[s \ {n + 1}], seq[n + 1])
      BY <2>1 DEF Extended
    <3>. HIDE DEF next
    <3>. QED BY <2>1, <3>1, <3>3, <3>4
  <2>2. CASE n + 1 \notin s
    <3>1. s \in SUBSET (1..n)
      BY <2>2, SmallerPart
    <3>2. next[s] = iter[s]
      BY <2>2 DEF Extended
    <3>3. iter[s] = IF s = {} THEN base ELSE Op(iter[s \ {Max(s)}], seq[Max(s)])
      BY <3>1 DEF Iterates
    <3>4. next[s \ {Max(s)}] = iter[s \ {Max(s)}]
      <4>1. s \ {Max(s)} \in SUBSET (1..(n + 1)) /\ n + 1 \notin s \ {Max(s)}
        BY <2>2
      <4>. QED BY <4>1 DEF Extended
    <3>. HIDE DEF next
    <3>. QED BY <3>2, <3>3, <3>4
  <2>. QED BY <2>1, <2>2
<1>. HIDE DEF next
<1>3. next = [s \in SUBSET (1..(n + 1)) |->
                IF s = {} THEN base ELSE Op(next[s \ {Max(s)}], seq[Max(s)])]
  BY <1>1, <1>2, Zenon
<1>. QED BY <1>3 DEF Iterates, next

(* And every function for n + 1 elements is one for n, extended.           *)
Restricted(iter, n) == [s \in SUBSET (1..n) |-> iter[s]]

LEMMA RestrictedIterates ==
  ASSUME NEW base, NEW seq, NEW n \in Nat, NEW iter, Iterates(iter, base, seq, n + 1)
  PROVE  /\ Iterates(Restricted(iter, n), base, seq, n)
         /\ iter = Extended(Restricted(iter, n), seq, n)
<1>. DEFINE less == Restricted(iter, n)
<1>1. DOMAIN iter = SUBSET (1..(n + 1)) /\ iter = [s \in SUBSET (1..(n + 1)) |-> iter[s]]
  BY DEF Iterates
<1>2. \A s \in SUBSET (1..(n + 1)) :
        iter[s] = IF s = {} THEN base ELSE Op(iter[s \ {Max(s)}], seq[Max(s)])
  BY DEF Iterates
<1>3. ASSUME NEW s \in SUBSET (1..n)
      PROVE  less[s] = IF s = {} THEN base ELSE Op(less[s \ {Max(s)}], seq[Max(s)])
  <2>1. s \in SUBSET (1..(n + 1))
    OBVIOUS
  <2>3. \A x : s \ {x} \in SUBSET (1..n)
    OBVIOUS
  <2>2. less[s] = iter[s] /\ less[s \ {Max(s)}] = iter[s \ {Max(s)}]
    BY <2>3 DEF Restricted
  <2>. HIDE DEF less
  <2>. QED BY <1>2, <2>1, <2>2
<1>4. less = [s \in SUBSET (1..n) |-> less[s]]
  BY DEF Restricted
<1>5. Iterates(less, base, seq, n)
  <2>. HIDE DEF less
  <2>1. less = [s \in SUBSET (1..n) |->
                  IF s = {} THEN base ELSE Op(less[s \ {Max(s)}], seq[Max(s)])]
    BY <1>3, <1>4, Zenon
  <2>. QED BY <2>1 DEF Iterates
<1>6. ASSUME NEW s \in SUBSET (1..(n + 1))
      PROVE  iter[s] = IF n + 1 \in s THEN Op(less[s \ {n + 1}], seq[n + 1]) ELSE less[s]
  <2>1. CASE n + 1 \in s
    <3>1. Max(s) = n + 1 /\ s # {} /\ s \ {n + 1} \in SUBSET (1..n)
      BY <2>1, MaxOfPart, SmallerPart
    <3>2. less[s \ {n + 1}] = iter[s \ {n + 1}]
      BY <3>1 DEF Restricted
    <3>. HIDE DEF less
    <3>. QED BY <1>2, <2>1, <3>1, <3>2
  <2>2. CASE n + 1 \notin s
    <3>1. s \in SUBSET (1..n)
      BY <2>2, SmallerPart
    <3>. QED BY <2>2, <3>1 DEF Restricted
  <2>. QED BY <2>1, <2>2
<1>. HIDE DEF less
<1>7. iter = Extended(less, seq, n)
  <2>1. iter = [s \in SUBSET (1..(n + 1)) |->
                  IF n + 1 \in s THEN Op(less[s \ {n + 1}], seq[n + 1]) ELSE less[s]]
    BY <1>1, <1>6, Zenon
  <2>. QED BY <2>1 DEF Extended
<1>. QED BY <1>5, <1>7 DEF less

(* For each length there is exactly one.                                   *)
OnlyOne(base, seq, n) == \E h : \A f : Iterates(f, base, seq, n) <=> f = h

LEMMA OneForEach == \A base, seq : \A n \in Nat : OnlyOne(base, seq, n)
<1>. SUFFICES ASSUME NEW base, NEW seq PROVE \A n \in Nat : OnlyOne(base, seq, n)
  OBVIOUS
<1>. DEFINE S == {n \in Nat : OnlyOne(base, seq, n)}
<1>1. 0 \in S
  <2>. DEFINE h == [s \in SUBSET (1..0) |-> base]
  <2>1. \A s \in SUBSET (1..0) : s = {}
    OBVIOUS
  <2>2. ASSUME NEW f PROVE Iterates(f, base, seq, 0) <=> f = h
    <3>1. [s \in SUBSET (1..0) |->
             IF s = {} THEN base ELSE Op(f[s \ {Max(s)}], seq[Max(s)])] = h
      BY <2>1, Zenon
    <3>. QED BY <3>1 DEF Iterates
  <2>. HIDE DEF h
  <2>. QED BY <2>2 DEF OnlyOne
<1>2. ASSUME NEW n \in Nat, n \in S PROVE n + 1 \in S
  <2>1. PICK h : \A f : Iterates(f, base, seq, n) <=> f = h
    BY <1>2 DEF OnlyOne
  <2>2. Iterates(Extended(h, seq, n), base, seq, n + 1)
    BY <2>1, ExtendedIterates
  <2>3. ASSUME NEW f, Iterates(f, base, seq, n + 1) PROVE f = Extended(h, seq, n)
    BY <2>1, <2>3, RestrictedIterates
  <2>. QED BY <2>2, <2>3 DEF OnlyOne
<1>. HIDE DEF S
<1>3. \A n \in Nat : n \in S
  BY <1>1, <1>2, Inductive
<1>. QED BY <1>3 DEF S

LEMMA IterateIterates ==
  ASSUME NEW base, NEW seq, NEW n \in Nat
  PROVE  \A f : Iterates(f, base, seq, n) <=> f = Iterate(base, seq, n)
<1>0. OnlyOne(base, seq, n)
  BY OneForEach
<1>1. PICK h : \A f : Iterates(f, base, seq, n) <=> f = h
  BY <1>0 DEF OnlyOne
<1>2. Iterate(base, seq, n) = h
  BY <1>1 DEF Iterate
<1>. QED BY <1>1, <1>2

-----------------------------------------------------------------------------
THEOREM FoldEmpty ==
  ASSUME NEW base, NEW seq, DOMAIN seq = 1..0
  PROVE  Fold(base, seq) = base
<1>1. Fold(base, seq) = Iterate(base, seq, 0)[1..0]
  BY FoldIsIterate
<1>2. Iterates(Iterate(base, seq, 0), base, seq, 0)
  BY IterateIterates
<1>. HIDE DEF Iterate
<1>3. 1..0 = {} /\ {} \in SUBSET (1..0)
  OBVIOUS
<1>. QED BY <1>1, <1>2, <1>3 DEF Iterates

(* A fold takes the elements in their order.                               *)
THEOREM FoldStep ==
  ASSUME NEW base, NEW seq, NEW longer, NEW n \in Nat,
         DOMAIN seq = 1..n, DOMAIN longer = 1..(n + 1),
         \A i \in 1..n : longer[i] = seq[i]
  PROVE  Fold(base, longer) = Op(Fold(base, seq), longer[n + 1])
<1>. DEFINE iter == Iterate(base, seq, n)
<1>1. Iterates(iter, base, seq, n)
  BY IterateIterates
<1>. HIDE DEF iter
<1>2. Iterates(iter, base, longer, n)
  <2>1. ASSUME NEW s \in SUBSET (1..n), s # {} PROVE longer[Max(s)] = seq[Max(s)]
    <3>1. Max(s) \in s
      <4>1. \E x \in s : \A y \in s : x >= y
        BY <2>1, LargestOf
      <4>. QED BY <4>1 DEF Max
    <3>. QED BY <3>1
  <2>2. [s \in SUBSET (1..n) |->
           IF s = {} THEN base ELSE Op(iter[s \ {Max(s)}], seq[Max(s)])]
        = [s \in SUBSET (1..n) |->
             IF s = {} THEN base ELSE Op(iter[s \ {Max(s)}], longer[Max(s)])]
    BY <2>1, Zenon
  <2>. QED BY <1>1, <2>2 DEF Iterates
<1>3. Extended(iter, longer, n) = Iterate(base, longer, n + 1)
  BY <1>2, ExtendedIterates, IterateIterates
<1>4. Fold(base, longer) = Extended(iter, longer, n)[1..(n + 1)]
  BY <1>3, FoldIsIterate
<1>5. 1..(n + 1) \in SUBSET (1..(n + 1)) /\ n + 1 \in 1..(n + 1) /\ (1..(n + 1)) \ {n + 1} = 1..n
  OBVIOUS
<1>6. Fold(base, longer) = Op(iter[1..n], longer[n + 1])
  BY <1>4, <1>5 DEF Extended
<1>7. Fold(base, seq) = iter[1..n]
  BY FoldIsIterate DEF iter
<1>. QED BY <1>6, <1>7

(* What holds of the base, and is carried on by each element, holds in the *)
(* end: Good[i] are the values that will do after i elements.              *)
THEOREM FoldInvariant ==
  ASSUME NEW base, NEW Elements, NEW seq \in Seq(Elements),
         NEW Good, base \in Good[0],
         \A i \in 1..Len(seq) : \A v \in Good[i - 1] : Op(v, seq[i]) \in Good[i]
  PROVE  Fold(base, seq) \in Good[Len(seq)]
<1>. DEFINE n == Len(seq)
            upTo(k) == [i \in 1..k |-> seq[i]]
            S == {k \in Nat : k <= n => Fold(base, upTo(k)) \in Good[k]}
<1>0. n \in Nat /\ DOMAIN seq = 1..n /\ \A i \in 1..n : \A v \in Good[i - 1] : Op(v, seq[i]) \in Good[i]
  OBVIOUS
<1>4. upTo(n) = seq
  OBVIOUS
<1>. HIDE DEF n
<1>1. 0 \in S
  <2>1. DOMAIN upTo(0) = 1..0
    OBVIOUS
  <2>2. Fold(base, upTo(0)) = base
    BY <2>1, FoldEmpty
  <2>. QED BY <2>2
<1>2. ASSUME NEW k \in Nat, k \in S PROVE k + 1 \in S
  <2>. SUFFICES ASSUME k + 1 <= n PROVE Fold(base, upTo(k + 1)) \in Good[k + 1]
    OBVIOUS
  <2>1. /\ DOMAIN upTo(k) = 1..k /\ DOMAIN upTo(k + 1) = 1..(k + 1)
        /\ \A i \in 1..k : upTo(k + 1)[i] = upTo(k)[i]
        /\ upTo(k + 1)[k + 1] = seq[k + 1]
    OBVIOUS
  <2>2. Fold(base, upTo(k)) \in Good[k]
    BY <1>0, <1>2
  <2>. HIDE DEF upTo
  <2>3. Fold(base, upTo(k + 1)) = Op(Fold(base, upTo(k)), seq[k + 1])
    BY <2>1, FoldStep
  <2>4. k + 1 \in 1..n /\ k + 1 - 1 = k
    BY <1>0
  <2>. QED BY <1>0, <2>2, <2>3, <2>4
<1>3. n \in S
  <2>. HIDE DEF S
  <2>. QED BY <1>0, <1>1, <1>2, Inductive
<1>. QED BY <1>0, <1>3, <1>4 DEF n
=============================================================================
