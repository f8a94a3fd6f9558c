----------------------------- MODULE Explore_proof -----------------------------
(***************************************************************************)
(* Proofs about Explore, for any traces, any vulnerabilities and any order *)
(* of exploration: types, what a group of calls reported as atomic is,     *)
(* that the dynamic pruning hides the cause of no bug without naming a     *)
(* call that is lost with it, that no call is reported as reordered twice, *)
(* and that no failure is silent.                                          *)
(***************************************************************************)
EXTENDS Explore, CrashStates_proof, SequenceTheorems

allvars == <<genvars, explorevars>>

(* The exploration takes the steps of the generator and no other.          *)
LEMMA GeneratorStep == [ExploreNext]_allvars => [Next]_genvars
<1>. SUFFICES ASSUME [ExploreNext]_allvars PROVE [Next]_genvars
  OBVIOUS
<1>1. CASE Generate
  BY <1>1 DEF Generate
<1>2. CASE UNCHANGED allvars
  BY <1>2 DEF allvars
<1>3. CASE \/ ExploreCut \/ SkipPruned \/ ExploreReorder \/ AuxAtomic \/ ReportAtomic
           \/ AuxReorder \/ ReportReorder \/ Report
  BY <1>3 DEF ExploreCut, SkipPruned, ExploreReorder, AuxAtomic, ReportAtomic, AuxReorder,
              ReportReorder, Report
<1>. QED BY <1>1, <1>2, <1>3 DEF ExploreNext

(* With the exploration composed the crash states are generated as before: *)
(* the composition implements the generator (lines 32-165 come first).     *)
THEOREM ExplorationGenerates == ExploreSpec => Init /\ [][Next]_genvars
<1>1. ExploreInit => Init
  BY DEF ExploreInit
<1>. QED BY <1>1, GeneratorStep, PTL DEF ExploreSpec, allvars

-----------------------------------------------------------------------------
(* The first state of the list is the empty cut, and no other is empty:    *)
(* max() is never taken of a cut without calls.                            *)
NoCall == [s \in Service |-> None]

FirstIsEmpty ==
    /\ \/ crash_states = << >> /\ combinations = {} /\ NoCall \in frontiers
       \/ crash_states # << >> /\ NoCall \notin frontiers
    /\ crash_states # << >> => crash_states[1].syscalls = {}
    /\ \A i \in DOMAIN crash_states : i # 1 => crash_states[i].syscalls # {}

LEMMA FrontierCalls ==
    ASSUME NEW t \in Traces
    PROVE  /\ NoCall \in AllCombinations(t)
           /\ AllSyscalls(t, NoCall) = {}
           /\ \A f \in AllCombinations(t) : f # NoCall => AllSyscalls(t, f) # {}
<1>1. \A c \in Call : t.svc[c] \in Service /\ c \in Nat /\ ~ (c <= None)
  <2>1. t.svc \in [Call -> Service]
    BY DEF Traces
  <2>2. \A c \in Call : c \in Nat /\ c > 0
    BY DEF Call
  <2>. QED BY <2>1, <2>2 DEF None
<1>2. NoCall \in AllCombinations(t)
  <2>1. \A e \in t.cross : e[1] \in Call /\ e[2] \in Call
    <3>1. t.cross \subseteq Call \X Call
      BY DEF Traces
    <3>. QED BY <3>1
  <2>2. ASSUME NEW e \in t.cross PROVE Respects(t, NoCall, e)
    <3>1. t.svc[e[2]] \in Service /\ ~ (e[2] <= None) /\ e[2] \in Nat
      BY <1>1, <2>1
    <3>2. NoCall[t.svc[e[2]]] = None
      BY <3>1 DEF NoCall
    <3>. QED BY <3>1, <3>2 DEF Respects, None
  <2>. QED BY <2>2 DEF AllCombinations, NoCall
<1>3. AllSyscalls(t, NoCall) = {}
  BY <1>1 DEF AllSyscalls, NoCall
<1>4. ASSUME NEW f \in AllCombinations(t), f # NoCall PROVE AllSyscalls(t, f) # {}
  <2>1. f \in [Service -> Call \cup {None}] /\ \A s \in Service : f[s] \in CallsOf(t, s) \cup {None}
    BY DEF AllCombinations
  <2>2. PICK s \in Service : f[s] # None
    BY <1>4, <2>1 DEF NoCall
  <2>3. f[s] \in Call /\ t.svc[f[s]] = s
    BY <2>1, <2>2 DEF CallsOf
  <2>4. f[s] <= f[t.svc[f[s]]]
    BY <2>3 DEF Call
  <2>. QED BY <2>3, <2>4 DEF AllSyscalls
<1>. QED BY <1>2, <1>3, <1>4

(* None comes first in the list of each service.                           *)
LEMMA NoCallFirst ==
    ASSUME NEW t \in Traces, NEW f \in AllCombinations(t), ProductOrder(f, NoCall)
    PROVE  f = NoCall
<1>1. f \in [Service -> Call \cup {None}]
  BY DEF AllCombinations
<1>2. \A s \in Service : ~ (f[s] < NoCall[s])
  BY <1>1 DEF NoCall, None, Call
<1>. QED BY <1>2 DEF ProductOrder

(* A reordered state keeps its pivot.                                      *)
PivotsKept ==
    \A i \in DOMAIN crash_states :
        HasReorder(crash_states[i]) => crash_states[i].pivot \in crash_states[i].syscalls

LEMMA PivotKept == IInv => PivotsKept
<1>. SUFFICES ASSUME IInv, NEW i \in DOMAIN crash_states, HasReorder(crash_states[i])
              PROVE  crash_states[i].pivot \in crash_states[i].syscalls
  BY DEF PivotsKept
<1>. DEFINE st == crash_states[i]
<1>1. GoodState(st) /\ st.pivot # None
  BY DEF IInv, States, HasReorder
<1>. HIDE DEF st
<1>2. /\ st.pivot \in st.base
      /\ Lost(st)
  BY <1>1 DEF GoodState
<1>3. PICK v \in Call, w \in Call :
        /\ v # st.pivot /\ w # st.pivot
        /\ st.syscalls = st.base \ (DependentCalls(pbgraph, st.base, st.pivot, v)
                                      \cup DependentCalls(pbgraph, st.base, st.pivot, w))
  BY <1>2 DEF Lost
<1>4. st.pivot \in Nat
  <2>1. st \in CrashState
    BY DEF IInv, TypeOK, st
  <2>. QED BY <2>1 DEF CrashState, Call, None
<1>5. \A x \in Call : x # st.pivot =>
        st.pivot \notin DependentCalls(pbgraph, st.base, st.pivot, x)
  BY <1>4 DEF DependentCalls, Dependents
<1>. QED BY <1>2, <1>3, <1>5 DEF st

LEMMA InitFirst == Init => FirstIsEmpty
<1>. SUFFICES ASSUME Init PROVE FirstIsEmpty
  OBVIOUS
<1>1. NoCall \in AllCombinations(trace)
  BY FrontierCalls, TraceAssumption DEF Init
<1>. QED BY <1>1 DEF Init, FirstIsEmpty

LEMMA VisitFrontierFirst == ASSUME IInv, FirstIsEmpty, VisitFrontier PROVE FirstIsEmpty'
<1>1. PICK f \in frontiers :
        /\ \A g \in frontiers : ProductOrder(f, g)
        /\ frontiers' = frontiers \ {f}
        /\ base' = AllSyscalls(trace, f)
        /\ crash_states' = Append(crash_states, BaseState(base'))
  BY DEF VisitFrontier
<1>2. trace \in Traces /\ f \in AllCombinations(trace) /\ crash_states \in Seq(CrashState)
  BY TraceAssumption DEF IInv, Inputs, Visiting, TypeOK
<1>3. /\ DOMAIN crash_states = 1 .. Len(crash_states) /\ Len(crash_states) \in Nat
      /\ DOMAIN crash_states' = 1 .. Len(crash_states) + 1
      /\ \A i \in DOMAIN crash_states : crash_states'[i] = crash_states[i]
      /\ crash_states'[Len(crash_states) + 1].syscalls = AllSyscalls(trace, f)
      /\ crash_states' # << >>
      /\ crash_states = << >> <=> Len(crash_states) = 0
  BY <1>1, <1>2 DEF BaseState
<1>4. CASE NoCall \in frontiers
  <2>1. f = NoCall /\ crash_states = << >>
    BY <1>1, <1>2, <1>4, NoCallFirst DEF FirstIsEmpty
  <2>2. AllSyscalls(trace, f) = {} /\ NoCall \notin frontiers'
    BY <1>1, <1>2, <2>1, FrontierCalls
  <2>. QED BY <1>3, <2>1, <2>2 DEF FirstIsEmpty
<1>5. CASE NoCall \notin frontiers
  <2>1. crash_states # << >> /\ f # NoCall /\ NoCall \notin frontiers'
    BY <1>1, <1>5 DEF FirstIsEmpty
  <2>2. AllSyscalls(trace, f) # {}
    BY <1>2, <2>1, FrontierCalls
  <2>. QED BY <1>3, <2>1, <2>2 DEF FirstIsEmpty
<1>. QED BY <1>4, <1>5

LEMMA TryVictimsFirst == ASSUME IInv, FirstIsEmpty, TryVictims PROVE FirstIsEmpty'
<1>1. PICK V \in combinations :
        crash_states' = crash_states
          \/ crash_states' = Append(crash_states, ReorderState(pbgraph, base, V))
  BY DEF TryVictims
<1>2. frontiers' = frontiers /\ crash_states \in Seq(CrashState) /\ crash_states # << >>
  BY DEF TryVictims, IInv, TypeOK, FirstIsEmpty
<1>3. IInv'
  BY TryVictimsIInv
<1>4. CASE crash_states' = Append(crash_states, ReorderState(pbgraph, base, V))
  <2>. DEFINE n == Len(crash_states) + 1
  <2>1. /\ DOMAIN crash_states = 1 .. Len(crash_states) /\ Len(crash_states) \in Nat
        /\ DOMAIN crash_states' = 1 .. n
        /\ \A i \in DOMAIN crash_states : crash_states'[i] = crash_states[i]
        /\ crash_states' # << >> /\ Len(crash_states) # 0
    BY <1>2, <1>4
  <2>2. crash_states'[n] = ReorderState(pbgraph, base, V)
    BY <1>2, <1>4
  <2>3. crash_states'[n].pivot = Max(base) /\ Max(base) \in base /\ base \in SUBSET Call
    <3>1. base # {} /\ base \in SUBSET Call
      BY DEF IInv, Visiting, TypeOK
    <3>. QED BY <2>2, <3>1, MaxIsGreatest DEF ReorderState
  <2>4. HasReorder(crash_states'[n])
    BY <2>3 DEF HasReorder, None, Call
  <2>5. PivotsKept'
    BY <1>3, PivotKept, PTL
  <2>6. crash_states'[n].syscalls # {}
    BY <2>1, <2>4, <2>5 DEF PivotsKept
  <2>. QED BY <1>2, <2>1, <2>6 DEF FirstIsEmpty
<1>. QED BY <1>1, <1>2, <1>4 DEF FirstIsEmpty

LEMMA FirstStays == ASSUME IInv, FirstIsEmpty, [Next]_genvars PROVE FirstIsEmpty'
<1>1. CASE StaticPrune \/ ScanDuplicates \/ RemoveDuplicates \/ UNCHANGED genvars
  <2>1. frontiers' = frontiers /\ combinations' = combinations /\ crash_states' = crash_states
    BY <1>1 DEF StaticPrune, ScanDuplicates, RemoveDuplicates, genvars
  <2>. QED BY <2>1 DEF FirstIsEmpty
<1>. QED BY <1>1, VisitFrontierFirst, TryVictimsFirst DEF Next

LEMMA StateFields ==
    ASSUME TypeOK, NEW i \in DOMAIN crash_states
    PROVE  /\ crash_states[i].syscalls \in SUBSET Call
           /\ crash_states[i].base \in SUBSET Call
           /\ crash_states[i].reorder \in Seq(SUBSET Call)
           /\ crash_states[i].pivot \in Call \cup {None}
<1>. DEFINE st == crash_states[i]
<1>1. st \in CrashState
  BY DEF TypeOK
<1>. HIDE DEF st
<1>2. /\ st.syscalls \in SUBSET Call /\ st.base \in SUBSET Call
      /\ st.reorder \in Seq(SUBSET Call) /\ st.pivot \in Call \cup {None}
  BY <1>1 DEF CrashState
<1>. QED BY <1>2 DEF st

(* What the exploration knows of the list it is given.                     *)
Generated == IInv /\ Tried /\ FirstIsEmpty

LEMMA GeneratedInit == Init => Generated
BY InitIInv, InitTried, InitFirst DEF Generated

LEMMA GeneratedNext == Generated /\ [Next]_genvars => Generated'
<1>. SUFFICES ASSUME Generated, [Next]_genvars PROVE Generated'
  OBVIOUS
<1>1. IInv'
  BY VisitFrontierIInv, TryVictimsIInv, RemovalIInv DEF Next, Generated
<1>2. Tried'
  BY VisitFrontierTried, TryVictimsTried, RemovalTried DEF Next, Generated
<1>3. FirstIsEmpty'
  BY FirstStays DEF Generated
<1>. QED BY <1>1, <1>2, <1>3 DEF Generated

(* Each entry of a state's reorder holds its victim.                       *)
LEMMA ReorderNotEmpty ==
    ASSUME Generated, NEW i \in DOMAIN crash_states, HasReorder(crash_states[i])
    PROVE  crash_states[i].reorder \in Seq((SUBSET Call) \ {{}})
<1>. DEFINE st == crash_states[i]
            D(x) == DependentCalls(pbgraph, st.base, Max(st.base), x)
<1>1. st = ReorderState(pbgraph, st.base, st.victims)
  BY DEF Generated, Tried
<1>2. st.reorder \in Seq(SUBSET Call)
  BY StateFields DEF Generated, IInv
<1>3. st.reorder = Reorder(pbgraph, st.base, st.victims)
  BY <1>1 DEF ReorderState
<1>. HIDE DEF st
<1>4. \/ st.reorder = << D(Min(st.victims)) >>
      \/ st.reorder = << D(Min(st.victims)), D(Max(st.victims)) >>
  BY <1>3 DEF Reorder
<1>5. D(Min(st.victims)) # {} /\ D(Max(st.victims)) # {}
  BY DEF DependentCalls
<1>. HIDE DEF D
<1>6. PICK S, T : S # {} /\ T # {} /\ (st.reorder = << S >> \/ st.reorder = << S, T >>)
  BY <1>4, <1>5
<1>. DEFINE Some == (SUBSET Call) \ {{}}
<1>7. st.reorder \in Seq(Some)
  <2>1. CASE st.reorder = << S >>
    <3>1. st.reorder[1] = S /\ Len(st.reorder) = 1
      BY <2>1
    <3>2. S \in SUBSET Call
      BY <1>2, <3>1
    <3>3. S \in Some
      BY <1>6, <3>2
    <3>. HIDE DEF Some
    <3>. QED BY <2>1, <3>3
  <2>2. CASE st.reorder = << S, T >>
    <3>1. st.reorder[1] = S /\ st.reorder[2] = T /\ Len(st.reorder) = 2
      BY <2>2
    <3>2. S \in SUBSET Call /\ T \in SUBSET Call
      BY <1>2, <3>1
    <3>3. S \in Some /\ T \in Some
      BY <1>6, <3>2
    <3>. HIDE DEF Some
    <3>. QED BY <2>2, <3>3
  <2>. QED BY <1>6, <2>1, <2>2
<1>. QED BY <1>7 DEF st

-----------------------------------------------------------------------------
(* How often a call occurs in a list, and what taking one entry out of the *)
(* list changes: RemoveFirst and Tail both close the gap.                  *)
Occurrences(s, n, c) == Cardinality({k \in 1 .. n : s[k] = c})

(* The list r is s without its entry k.                                    *)
Closes(s, n, k, r) == \A j \in 1 .. n - 1 : r[j] = IF j < k THEN s[j] ELSE s[j + 1]

LEMMA OccurrencesType ==
    ASSUME NEW s, NEW n \in Nat, NEW c
    PROVE  /\ Occurrences(s, n, c) \in Nat
           /\ IsFiniteSet({k \in 1 .. n : s[k] = c})
           /\ Occurrences(s, n, c) = 0 <=> \A k \in 1 .. n : s[k] # c
           /\ \A k, l \in 1 .. n :
                s[k] = c /\ s[l] = c /\ Occurrences(s, n, c) <= 1 => k = l
<1>. DEFINE A == {k \in 1 .. n : s[k] = c}
<1>1. IsFiniteSet(A)
  <2>1. IsFiniteSet(1 .. n) /\ A \in SUBSET (1 .. n)
    BY FS_Interval
  <2>. HIDE DEF A
  <2>. QED BY <2>1, FS_Subset
<1>2. Cardinality(A) \in Nat
  BY <1>1, FS_CardinalityType
<1>3. Cardinality(A) = 0 <=> A = {}
  BY <1>1, FS_EmptySet
<1>4. ASSUME Cardinality(A) <= 1, NEW k \in A, NEW l \in A PROVE k = l
  <2>1. Cardinality(A) = 1
    <3>1. A # {}
      BY <1>4
    <3>. HIDE DEF A
    <3>. QED BY <1>2, <1>3, <1>4, <3>1
  <2>. HIDE DEF A
  <2>2. PICK x : A = {x}
    BY <2>1, <1>1, FS_Singleton
  <2>. QED BY <2>2, <1>4
<1>. QED BY <1>1, <1>2, <1>3, <1>4 DEF Occurrences

LEMMA OccurrencesNat == \A s, c : \A n \in Nat : Occurrences(s, n, c) \in Nat
BY OccurrencesType

LEMMA OccurrencesClosed ==
    ASSUME NEW s, NEW n \in Nat, NEW k \in 1 .. n, NEW r, Closes(s, n, k, r), NEW c
    PROVE  Occurrences(s, n, c) = Occurrences(r, n - 1, c) + (IF s[k] = c THEN 1 ELSE 0)
<1>. DEFINE A == {j \in 1 .. n : s[j] = c}
            B == {j \in 1 .. n - 1 : r[j] = c}
            shift == [a \in A \ {k} |-> IF a < k THEN a ELSE a - 1]
<1>1. IsFiniteSet(A) /\ IsFiniteSet(A \ {k})
  <2>1. IsFiniteSet(A)
    BY OccurrencesType
  <2>. HIDE DEF A
  <2>. QED BY <2>1, FS_RemoveElement
<1>2. \A a \in A \ {k} : shift[a] \in B
  <2>. SUFFICES ASSUME NEW a \in A \ {k} PROVE shift[a] \in B
    OBVIOUS
  <2>1. CASE a < k
    BY <2>1 DEF Closes
  <2>2. CASE ~ (a < k)
    <3>1. a - 1 \in 1 .. n - 1 /\ ~ (a - 1 < k) /\ a - 1 + 1 = a
      BY <2>2
    <3>2. r[a - 1] = s[a]
      BY <3>1 DEF Closes
    <3>. QED BY <2>2, <3>1, <3>2
  <2>. QED BY <2>1, <2>2
<1>3. \A b \in B : \E a \in A \ {k} : shift[a] = b
  <2>. SUFFICES ASSUME NEW b \in B PROVE \E a \in A \ {k} : shift[a] = b
    OBVIOUS
  <2>1. CASE b < k
    <3>1. b \in A \ {k}
      BY <2>1 DEF Closes
    <3>. QED BY <2>1, <3>1
  <2>2. CASE ~ (b < k)
    <3>1. b + 1 \in A \ {k} /\ ~ (b + 1 < k) /\ b + 1 - 1 = b
      BY <2>2 DEF Closes
    <3>. QED BY <3>1
  <2>. QED BY <2>1, <2>2
<1>4. \A a, b \in A \ {k} : shift[a] = shift[b] => a = b
  OBVIOUS
<1>. HIDE DEF A, B
<1>5. shift \in Bijection(A \ {k}, B)
  <2>1. shift \in [A \ {k} -> B]
    BY <1>2
  <2>2. DOMAIN shift = A \ {k}
    OBVIOUS
  <2>. HIDE DEF shift
  <2>. QED BY <1>3, <1>4, <2>1, <2>2 DEF Bijection, Injection, Surjection, IsInjective
<1>6. Cardinality(B) = Cardinality(A \ {k})
  <2>1. ExistsBijection(A \ {k}, B)
    BY <1>5 DEF ExistsBijection
  <2>. QED BY <1>1, <2>1, FS_Bijection
<1>7. CASE s[k] = c
  <2>1. k \in A
    BY <1>7 DEF A
  <2>2. Cardinality(A \ {k}) = Cardinality(A) - 1 /\ Cardinality(A) \in Nat
    BY <1>1, <2>1, FS_RemoveElement, FS_CardinalityType
  <2>. QED BY <1>6, <1>7, <2>2 DEF A, B, Occurrences
<1>8. CASE s[k] # c
  <2>1. A \ {k} = A
    BY <1>8 DEF A
  <2>2. Cardinality(A) \in Nat
    BY <1>1, FS_CardinalityType
  <2>. QED BY <1>6, <1>8, <2>1, <2>2 DEF A, B, Occurrences
<1>. QED BY <1>7, <1>8

(* RemoveFirst takes the first occurrence out and closes the gap.          *)
LEMMA RemoveFirstCloses ==
    ASSUME NEW s \in Seq(Call), NEW n \in 1 .. Len(s), NEW c, \E l \in 1 .. n : s[l] = c
    PROVE  /\ RemoveFirst(s, c) \in Seq(Call)
           /\ Len(RemoveFirst(s, c)) = Len(s) - 1
           /\ \E k \in 1 .. n : /\ s[k] = c
                                /\ Closes(s, Len(s), k, RemoveFirst(s, c))
<1>. DEFINE P == {l \in DOMAIN s : s[l] = c}
            k == Min(P)
            left == SubSeq(s, 1, k - 1)
            right == SubSeq(s, k + 1, Len(s))
<1>1. P \in SUBSET Nat /\ P # {}
  OBVIOUS
<1>2. k \in P /\ \A l \in P : k <= l
  <2>. HIDE DEF P
  <2>. QED BY <1>1, MinIsLeast
<1>. HIDE DEF k
<1>3. k \in 1 .. n /\ s[k] = c /\ Len(s) \in Nat
  BY <1>2
<1>. HIDE DEF P
<1>4. /\ left \in Seq(Call) /\ Len(left) = k - 1
      /\ \A j \in 1 .. k - 1 : left[j] = s[j]
  <2>1. \A j \in 1 .. k - 1 : s[j] \in Call
    BY <1>3
  <2>. QED BY <1>3, <2>1, SubSeqProperties
<1>5. /\ right \in Seq(Call) /\ Len(right) = Len(s) - k
      /\ \A j \in 1 .. Len(s) - k : right[j] = s[k + j]
  <2>1. \A j \in k + 1 .. Len(s) : s[j] \in Call
    BY <1>3
  <2>2. /\ right \in Seq(Call)
        /\ Len(right) = IF k + 1 <= Len(s) THEN Len(s) - (k + 1) + 1 ELSE 0
        /\ \A j \in 1 .. Len(s) - (k + 1) + 1 : right[j] = s[k + 1 + j - 1]
    BY <1>3, <2>1, SubSeqProperties
  <2>. HIDE DEF right
  <2>. QED BY <1>3, <2>2
<1>. HIDE DEF left, right
<1>6. RemoveFirst(s, c) = left \o right
  BY DEF RemoveFirst, left, right, k, P
<1>7. /\ left \o right \in Seq(Call) /\ Len(left \o right) = Len(s) - 1
      /\ \A j \in 1 .. Len(s) - 1 :
           (left \o right)[j] = IF j <= k - 1 THEN left[j] ELSE right[j - (k - 1)]
  <2>1. /\ left \o right \in Seq(Call) /\ Len(left \o right) = Len(left) + Len(right)
        /\ \A j \in 1 .. Len(left) + Len(right) :
             (left \o right)[j] = IF j <= Len(left) THEN left[j] ELSE right[j - Len(left)]
    BY <1>4, <1>5, ConcatProperties
  <2>2. Len(left) + Len(right) = Len(s) - 1
    BY <1>3, <1>4, <1>5
  <2>. QED BY <1>4, <2>1, <2>2
<1>8. ASSUME NEW j \in 1 .. Len(s) - 1
      PROVE  (left \o right)[j] = IF j < k THEN s[j] ELSE s[j + 1]
  <2>1. CASE j < k
    BY <1>3, <1>4, <1>7, <2>1
  <2>2. CASE ~ (j < k)
    <3>1. j - (k - 1) \in 1 .. Len(s) - k /\ k + (j - (k - 1)) = j + 1 /\ ~ (j <= k - 1)
      BY <1>3, <2>2
    <3>. QED BY <1>5, <1>7, <2>2, <3>1
  <2>. QED BY <2>1, <2>2
<1>. QED BY <1>3, <1>6, <1>7, <1>8 DEF Closes

-----------------------------------------------------------------------------
(* The order of the loop: every state of the list has a rank, and the      *)
(* first state stays first.                                                *)
Ordered ==
    /\ order \in [live -> live]
    /\ \A i \in live : \E r \in live : order[r] = i
    /\ \A r \in live : order[r] = 1 => r = 1

Within(L, n) == L \in SUBSET (1 .. n)

IsOnto(p, L) ==
    /\ p \in [L -> L]
    /\ \A i \in L : \E r \in L : p[r] = i
    /\ \A r \in L : p[r] = 1 => r = 1

LEMMA OrdersAreOnto ==
    ASSUME NEW states, NEW n \in Nat, NEW L, Within(L, n), NEW p, p \in Orders(states, L)
    PROVE  IsOnto(p, L)
<1>. USE DEF Within, IsOnto
<1>1. CASE ~ OptExplore
  BY <1>1 DEF Orders
<1>2. CASE OptExplore
  <2>1. p \in Bijection(L, L)
    BY <1>2 DEF Orders, Paths
  <2>2. PICK f : p = [r \in L |-> IF r \in L \ {Min(L), Max(L)} THEN f[r] ELSE r]
    BY <1>2 DEF Orders, Paths
  <2>3. /\ p \in [L -> L]
        /\ \A a, b \in L : p[a] = p[b] => a = b
        /\ \A i \in L : \E r \in L : p[r] = i
    BY <2>1 DEF Bijection, Injection, Surjection, IsInjective
  <2>4. ASSUME 1 \in L PROVE p[1] = 1
    <3>1. L \in SUBSET Nat /\ L # {} /\ \A x \in L : 1 <= x
      BY <2>4
    <3>2. Min(L) \in L /\ Min(L) <= 1
      BY <2>4, <3>1, MinIsLeast
    <3>3. Min(L) = 1
      <4>1. Min(L) \in Nat /\ 1 <= Min(L) /\ Min(L) <= 1
        BY <3>1, <3>2
      <4>. QED BY <4>1
    <3>. QED BY <2>2, <2>4, <3>3
  <2>. QED BY <2>3, <2>4
<1>. QED BY <1>1, <1>2

(* The part of the type invariant the loops need, before the report.       *)
Generating ==
    /\ order = << >> /\ rest = {} /\ explored = {} /\ current = None
    /\ aux_calls = << >> /\ real_reorder = << >> /\ current_atomic = << >>
    /\ reorder_bugs = << >> /\ atomic_bugs = << >>

(* The sets of calls still to be left out of the cut, or the calls.        *)
AuxState ==
    /\ step \in {"aux_atomic", "aux_reorder"} =>
         /\ current \in explored
         /\ current \in live
    /\ step = "aux_atomic" =>
         /\ aux_calls \in Seq(Call)
         /\ real_reorder = << >>
         /\ ~ HasReorder(crash_states[current])
    /\ step = "aux_reorder" =>
         /\ aux_calls \in Seq((SUBSET Call) \ {{}})
         /\ HasReorder(crash_states[current])
    /\ step \in {"next", "reported"} => aux_calls = << >> /\ real_reorder = << >>

(* Exploring: the ranks left, and what the loops hold.                     *)
Exploring ==
    /\ Ordered
    /\ rest \in SUBSET live
    /\ 1 \in rest => current_atomic = << >>
    /\ AuxState

ExploreInv ==
    /\ Generated
    /\ ExploreTypeOK
    /\ step \in {"generate", "next", "aux_atomic", "aux_reorder", "reported"}
    /\ step = "generate" => Generating
    /\ step # "generate" => Exploring

LEMMA InitExploreInv == ExploreInit => ExploreInv
<1>. SUFFICES ASSUME ExploreInit PROVE ExploreInv
  OBVIOUS
<1>1. Init /\ Generated
  BY GeneratedInit DEF ExploreInit
<1>2. Generating /\ step = "generate"
  BY DEF ExploreInit, Generating
<1>3. TypeOK
  BY <1>1 DEF Generated, IInv
<1>4. ExploreTypeOK
  BY <1>2, <1>3, VulnerabilityAssumption DEF ExploreInit, ExploreTypeOK, Generating
<1>. QED BY <1>1, <1>2, <1>4 DEF ExploreInv

(* What a step after the generation leaves alone.                          *)
LEMMA AfterGenerate ==
    ASSUME ExploreInv, step # "generate", UNCHANGED genvars,
           vulnerabilities' = vulnerabilities, order' = order,
           step' # "generate", rest' \in SUBSET rest
    PROVE  /\ Generated' /\ TypeOK' /\ Ordered' /\ rest' \in SUBSET live'
           /\ crash_states' = crash_states /\ live' = live
           /\ vulnerabilities' \in SUBSET (Call \X Call)
           /\ order' \in [DOMAIN order' -> DOMAIN crash_states']
           /\ rest' \in SUBSET (DOMAIN order')
<1>1. Generated'
  BY GeneratedNext DEF ExploreInv
<1>2. TypeOK'
  BY <1>1 DEF Generated, IInv
<1>3. crash_states' = crash_states /\ live' = live
  BY DEF genvars
<1>4. Ordered' /\ rest' \in SUBSET live'
  BY <1>3 DEF ExploreInv, Exploring, Ordered
<1>5. /\ vulnerabilities' \in SUBSET (Call \X Call)
      /\ order' \in [DOMAIN order' -> DOMAIN crash_states']
      /\ rest' \in SUBSET (DOMAIN order')
  BY <1>3 DEF ExploreInv, ExploreTypeOK
<1>. QED BY <1>1, <1>2, <1>3, <1>4, <1>5

(* The state the loop is at.                                               *)
LEMMA NextIsLive ==
    ASSUME ExploreInv, step = "next", rest # {}
    PROVE  /\ Min(rest) \in rest /\ \A r \in rest : Min(rest) <= r
           /\ NextState \in live /\ NextState \in DOMAIN crash_states
           /\ 1 \in rest => NextState = 1 /\ Min(rest) = 1
           /\ 1 \notin rest => NextState # 1
<1>1. live \in SUBSET (1 .. Len(crash_states)) /\ rest \in SUBSET live /\ Ordered
      /\ crash_states \in Seq(CrashState) /\ Len(crash_states) \in Nat
  BY DEF ExploreInv, Exploring, Generated, IInv, TypeOK
<1>2. rest \in SUBSET Nat /\ \A r \in rest : 1 <= r
  BY <1>1
<1>3. Min(rest) \in rest /\ \A r \in rest : Min(rest) <= r
  BY <1>2, MinIsLeast
<1>4. NextState \in live
  BY <1>1, <1>3 DEF Ordered, NextState
<1>. DEFINE m == Min(rest)
<1>5. NextState = order[m]
  BY DEF NextState
<1>. HIDE DEF m
<1>6. m \in live /\ order[m] = 1 => m = 1
  BY <1>1, <1>3 DEF Ordered, m
<1>7. 1 \in rest => order[1] = 1
  <2>. SUFFICES ASSUME 1 \in rest PROVE order[1] = 1
    OBVIOUS
  <2>1. 1 \in live
    BY <1>1
  <2>2. PICK r \in live : order[r] = 1
    BY <1>1, <2>1 DEF Ordered
  <2>. QED BY <1>1, <2>2 DEF Ordered
<1>8. 1 \in rest => m = 1
  <2>1. m \in Nat /\ 1 <= m /\ (1 \in rest => m <= 1)
    BY <1>2, <1>3 DEF m
  <2>. QED BY <2>1
<1>9. m \in rest
  BY <1>3 DEF m
<1>10. /\ 1 \in rest => NextState = 1 /\ m = 1
       /\ 1 \notin rest => NextState # 1
  BY <1>1, <1>5, <1>6, <1>7, <1>8, <1>9
<1>11. NextState \in DOMAIN crash_states
  BY <1>1, <1>4
<1>. QED BY <1>3, <1>4, <1>10, <1>11 DEF m

LEMMA GenerateInv == ASSUME ExploreInv, Generate PROVE ExploreInv'
<1>1. /\ step = "generate" /\ Generating /\ Next
      /\ Generated /\ ExploreTypeOK
  BY DEF Generate, ExploreInv
<1>2. Generated'
  BY <1>1, GeneratedNext
<1>3. TypeOK' /\ vulnerabilities' = vulnerabilities /\ vulnerabilities \in SUBSET (Call \X Call)
  BY <1>1, <1>2 DEF Generated, IInv, Generate, ExploreTypeOK
<1>4. /\ explored' = {} /\ current' = None /\ aux_calls' = << >> /\ real_reorder' = << >>
      /\ current_atomic' = << >> /\ reorder_bugs' = << >> /\ atomic_bugs' = << >>
  BY <1>1 DEF Generate, Generating, results
<1>5. CASE phase' = "explore"
  <2>1. order' \in Orders(crash_states, live') /\ rest' = live' /\ step' = "next"
    BY <1>5 DEF Generate
  <2>2. /\ live' \in SUBSET (1 .. Len(crash_states')) /\ Len(crash_states') \in Nat
        /\ live' \in SUBSET (DOMAIN crash_states')
    BY <1>3 DEF TypeOK
  <2>3. /\ order' \in [live' -> live']
        /\ \A i \in live' : \E r \in live' : order'[r] = i
        /\ \A r \in live' : order'[r] = 1 => r = 1
    <3>1. PICK L, p, n, C : L = live' /\ p = order' /\ n = Len(crash_states') /\ C = crash_states
      OBVIOUS
    <3>2. Within(L, n) /\ n \in Nat
      BY <2>2, <3>1 DEF Within
    <3>3. p \in Orders(C, L)
      BY <2>1, <3>1
    <3>4. IsOnto(p, L)
      BY <3>2, <3>3, OrdersAreOnto
    <3>. QED BY <3>1, <3>4 DEF IsOnto
  <2>4. Ordered'
    BY <2>3 DEF Ordered
  <2>5. ExploreTypeOK'
    <3>1. order' \in [DOMAIN order' -> DOMAIN crash_states'] /\ rest' \in SUBSET (DOMAIN order')
      BY <2>1, <2>2, <2>3
    <3>. QED BY <1>3, <1>4, <2>1, <3>1 DEF ExploreTypeOK
  <2>6. Exploring'
    BY <1>4, <2>1, <2>4 DEF Exploring, AuxState
  <2>. QED BY <1>2, <2>1, <2>5, <2>6 DEF ExploreInv
<1>6. CASE phase' # "explore"
  <2>1. order' = << >> /\ rest' = {} /\ step' = "generate"
    BY <1>1, <1>6 DEF Generate, Generating
  <2>2. Generating'
    BY <1>4, <2>1 DEF Generating
  <2>3. ExploreTypeOK'
    BY <1>3, <1>4, <2>1 DEF ExploreTypeOK
  <2>. QED BY <1>2, <2>1, <2>2, <2>3 DEF ExploreInv
<1>. QED BY <1>5, <1>6

(* The parts of the invariant, as the action lemmas below use them.        *)
LEMMA Parts ==
    ASSUME ExploreInv, step # "generate"
    PROVE  /\ Ordered /\ AuxState /\ rest \in SUBSET live
           /\ 1 \in rest => current_atomic = << >>
           /\ crash_states \in Seq(CrashState) /\ live \in SUBSET (DOMAIN crash_states)
           /\ explored \in SUBSET (DOMAIN crash_states)
           /\ current \in DOMAIN crash_states \cup {None}
           /\ aux_calls \in IF step = "aux_atomic" THEN Seq(Call) ELSE Seq(SUBSET Call)
           /\ real_reorder \in Seq(Call)
           /\ current_atomic \in Seq(Call)
           /\ step # "reported" => reorder_bugs \in Seq(Call \X Call)
           /\ atomic_bugs \in Seq(Seq(Call))
BY DEF ExploreInv, Exploring, ExploreTypeOK, TypeOK

(* A cut that fails, or that ends a run, has a last call.                  *)
LEMMA LastOfCut ==
    ASSUME ExploreInv, step = "next", rest # {},
           Fails(crash_states[NextState].syscalls) \/ current_atomic # << >>
    PROVE  /\ crash_states[NextState].syscalls # {}
           /\ Max(crash_states[NextState].syscalls) \in crash_states[NextState].syscalls
           /\ Max(crash_states[NextState].syscalls) \in Call
<1>1. NextState \in DOMAIN crash_states /\ (1 \notin rest => NextState # 1)
  BY NextIsLive
<1>2. crash_states[NextState].syscalls # {}
  <2>1. CASE Fails(crash_states[NextState].syscalls)
    BY <2>1 DEF Fails
  <2>2. CASE current_atomic # << >>
    <3>1. 1 \notin rest
      BY <2>2 DEF ExploreInv, Exploring
    <3>. QED BY <1>1, <3>1 DEF ExploreInv, Generated, FirstIsEmpty
  <2>. QED BY <2>1, <2>2
<1>3. crash_states[NextState].syscalls \in SUBSET Call
  BY <1>1, StateFields DEF ExploreInv, Generated, IInv
<1>. DEFINE calls == crash_states[NextState].syscalls
<1>. HIDE DEF calls
<1>4. calls # {} /\ calls \in SUBSET Call
  BY <1>2, <1>3 DEF calls
<1>5. Max(calls) \in calls
  BY <1>4, MaxIsGreatest
<1>. QED BY <1>4, <1>5 DEF calls

LEMMA ExploreCutInv == ASSUME ExploreInv, ExploreCut PROVE ExploreInv'
<1>. DEFINE calls == crash_states[NextState].syscalls
            group == Append(current_atomic, Max(calls))
<1>1. /\ step = "next" /\ rest # {} /\ ~ HasReorder(crash_states[NextState])
      /\ rest' = rest \ {Min(rest)} /\ explored' = explored \cup {NextState}
      /\ UNCHANGED genvars /\ vulnerabilities' = vulnerabilities /\ order' = order
      /\ real_reorder' = real_reorder /\ reorder_bugs' = reorder_bugs
      /\ atomic_bugs' = atomic_bugs
  BY DEF ExploreCut, results
<1>2. \/ /\ Fails(calls) /\ current_atomic' = group
         /\ current' = current /\ aux_calls' = aux_calls /\ step' = step
      \/ /\ ~ Fails(calls) /\ current_atomic = << >> /\ current_atomic' = current_atomic
         /\ current' = current /\ aux_calls' = aux_calls /\ step' = step
      \/ /\ ~ Fails(calls) /\ current_atomic # << >> /\ current_atomic' = group
         /\ aux_calls' = SubSeq(group, 2, Len(group) - 1)
         /\ current' = NextState /\ step' = "aux_atomic"
  BY DEF ExploreCut
<1>3. /\ Generated' /\ TypeOK' /\ Ordered' /\ rest' \in SUBSET live'
      /\ crash_states' = crash_states /\ live' = live
      /\ vulnerabilities' \in SUBSET (Call \X Call)
      /\ order' \in [DOMAIN order' -> DOMAIN crash_states'] /\ rest' \in SUBSET (DOMAIN order')
  <2>1. step' # "generate" /\ rest' \in SUBSET rest
    BY <1>1, <1>2
  <2>. QED BY <1>1, <2>1, AfterGenerate
<1>4. /\ NextState \in live /\ NextState \in DOMAIN crash_states
      /\ 1 \in rest => Min(rest) = 1
  BY <1>1, NextIsLive
<1>5. Fails(calls) \/ current_atomic # << >> => Max(calls) \in Call
  BY <1>1, LastOfCut
<1>6. /\ aux_calls = << >> /\ real_reorder = << >> /\ current_atomic \in Seq(Call)
      /\ current \in DOMAIN crash_states \cup {None} /\ reorder_bugs \in Seq(Call \X Call)
      /\ atomic_bugs \in Seq(Seq(Call)) /\ explored \in SUBSET (DOMAIN crash_states)
  BY <1>1, Parts DEF AuxState
<1>. HIDE DEF calls
<1>7. /\ current_atomic' \in Seq(Call)
      /\ step' = "aux_atomic" => aux_calls' \in Seq(Call)
  <2>1. CASE Max(calls) \in Call
    <3>1. group \in Seq(Call)
      BY <1>6, <2>1
    <3>2. SubSeq(group, 2, Len(group) - 1) \in Seq(Call)
      <4>. HIDE DEF group
      <4>1. \A k \in 2 .. Len(group) - 1 : group[k] \in Call
        BY <3>1
      <4>. QED BY <3>1, <4>1, SubSeqProperties
    <3>. HIDE DEF group
    <3>. QED BY <1>1, <1>2, <1>6, <3>1, <3>2
  <2>2. CASE Max(calls) \notin Call
    BY <1>1, <1>2, <1>5, <1>6, <2>2
  <2>. QED BY <2>1, <2>2
<1>8. 1 \notin rest'
  BY <1>1, <1>4
<1>9. AuxState'
  <2>1. step' = "aux_atomic" => current' = NextState
    BY <1>1, <1>2
  <2>2. step' \in {"next", "aux_atomic"} /\ (step' = "next" => aux_calls' = << >>)
    BY <1>1, <1>2, <1>6
  <2>. QED BY <1>1, <1>3, <1>4, <1>6, <1>7, <2>1, <2>2 DEF AuxState, HasReorder
<1>10. ExploreTypeOK'
  <2>1. /\ step' \in {"next", "aux_atomic"} /\ step' # "reported"
        /\ step' # "aux_atomic" => aux_calls' = << >>
        /\ current' \in DOMAIN crash_states' \cup {None}
    BY <1>1, <1>2, <1>3, <1>4, <1>6
  <2>2. explored' \in SUBSET (DOMAIN crash_states')
    BY <1>1, <1>3, <1>4, <1>6
  <2>3. aux_calls' \in IF step' = "aux_atomic" THEN Seq(Call) ELSE Seq(SUBSET Call)
    <3>1. << >> \in Seq(SUBSET Call)
      OBVIOUS
    <3>. QED BY <1>7, <2>1, <3>1
  <2>4. /\ real_reorder' \in Seq(Call) /\ reorder_bugs' \in Seq(Call \X Call)
        /\ atomic_bugs' \in Seq(Seq(Call))
    BY <1>1, <1>6
  <2>. QED BY <1>3, <1>7, <2>1, <2>2, <2>3, <2>4 DEF ExploreTypeOK
<1>. QED
  <2>1. step' \in {"next", "aux_atomic"}
    BY <1>1, <1>2
  <2>. QED BY <1>3, <1>8, <1>9, <1>10, <2>1 DEF ExploreInv, Exploring

(* An action of the exploration has to be looked at only for what it       *)
(* changes.                                                                *)
LEMMA StepKeeps ==
    ASSUME ExploreInv, step # "generate", UNCHANGED genvars,
           vulnerabilities' = vulnerabilities, order' = order, rest' \in SUBSET rest,
           1 \in rest' => current_atomic' = << >>,
           step' \in {"next", "aux_atomic", "aux_reorder", "reported"}, AuxState',
           explored' \in SUBSET (DOMAIN crash_states),
           current' \in DOMAIN crash_states \cup {None},
           step' # "aux_atomic" => aux_calls' \in Seq(SUBSET Call),
           real_reorder' \in Seq(Call), current_atomic' \in Seq(Call),
           atomic_bugs' \in Seq(Seq(Call)),
           IF step' = "reported" THEN reorder_bugs' \in [DOMAIN reorder_bugs' -> Call \X Call]
           ELSE reorder_bugs' \in Seq(Call \X Call)
    PROVE  ExploreInv'
<1>1. /\ Generated' /\ TypeOK' /\ Ordered' /\ rest' \in SUBSET live'
      /\ crash_states' = crash_states /\ live' = live
      /\ vulnerabilities' \in SUBSET (Call \X Call)
      /\ order' \in [DOMAIN order' -> DOMAIN crash_states'] /\ rest' \in SUBSET (DOMAIN order')
  BY AfterGenerate
<1>2. aux_calls' \in IF step' = "aux_atomic" THEN Seq(Call) ELSE Seq(SUBSET Call)
  BY DEF AuxState
<1>3. ExploreTypeOK'
  BY <1>1, <1>2 DEF ExploreTypeOK
<1>. QED BY <1>1, <1>3 DEF ExploreInv, Exploring

LEMMA SkipPrunedInv == ASSUME ExploreInv, SkipPruned PROVE ExploreInv'
<1>1. /\ step = "next" /\ rest' \in SUBSET rest /\ step' = step
      /\ UNCHANGED genvars /\ vulnerabilities' = vulnerabilities /\ order' = order
      /\ explored' = explored /\ current' = current /\ aux_calls' = aux_calls
      /\ real_reorder' = real_reorder /\ current_atomic' = current_atomic
      /\ reorder_bugs' = reorder_bugs /\ atomic_bugs' = atomic_bugs
  BY DEF SkipPruned, results
<1>2. AuxState'
  BY <1>1, Parts DEF AuxState
<1>. QED BY <1>1, <1>2, Parts, StepKeeps

LEMMA ExploreReorderInv == ASSUME ExploreInv, ExploreReorder PROVE ExploreInv'
<1>1. /\ step = "next" /\ rest # {} /\ rest' \in SUBSET rest
      /\ HasReorder(crash_states[NextState]) /\ explored' = explored \cup {NextState}
      /\ UNCHANGED genvars /\ vulnerabilities' = vulnerabilities /\ order' = order
      /\ real_reorder' = real_reorder /\ current_atomic' = current_atomic
      /\ reorder_bugs' = reorder_bugs /\ atomic_bugs' = atomic_bugs
  BY DEF ExploreReorder, results
<1>2. \/ /\ aux_calls' = crash_states[NextState].reorder
         /\ current' = NextState /\ step' = "aux_reorder"
      \/ aux_calls' = aux_calls /\ current' = current /\ step' = step
  BY DEF ExploreReorder
<1>3. NextState \in live /\ NextState \in DOMAIN crash_states
  BY <1>1, NextIsLive
<1>4. crash_states[NextState].reorder \in Seq((SUBSET Call) \ {{}})
  BY <1>1, <1>3, ReorderNotEmpty DEF ExploreInv
<1>5. crash_states' = crash_states /\ live' = live
  BY <1>1 DEF genvars
<1>6. AuxState'
  BY <1>1, <1>2, <1>3, <1>4, <1>5, Parts DEF AuxState, HasReorder
<1>7. /\ explored' \in SUBSET (DOMAIN crash_states) /\ current' \in DOMAIN crash_states \cup {None}
      /\ step' \in {"next", "aux_reorder"}
      /\ aux_calls' \in Seq(SUBSET Call)
  BY <1>1, <1>2, <1>3, <1>4, Parts
<1>. QED BY <1>1, <1>6, <1>7, Parts, StepKeeps

LEMMA ReportAtomicInv == ASSUME ExploreInv, ReportAtomic PROVE ExploreInv'
<1>1. /\ step = "aux_atomic" /\ aux_calls = << >> /\ step' = "next"
      /\ UNCHANGED genvars /\ vulnerabilities' = vulnerabilities /\ order' = order
      /\ rest' = rest /\ explored' = explored /\ current' = current
      /\ aux_calls' = aux_calls /\ real_reorder' = real_reorder /\ current_atomic' = << >>
      /\ reorder_bugs' = reorder_bugs /\ atomic_bugs' = Append(atomic_bugs, current_atomic)
  BY DEF ReportAtomic
<1>2. AuxState'
  BY <1>1, Parts DEF AuxState
<1>3. atomic_bugs' \in Seq(Seq(Call)) /\ aux_calls' \in Seq(SUBSET Call)
  BY <1>1, Parts
<1>. QED BY <1>1, <1>2, <1>3, Parts, StepKeeps

LEMMA AuxReorderInv == ASSUME ExploreInv, AuxReorder PROVE ExploreInv'
<1>. DEFINE call == Min(Head(aux_calls))
            left == Head(aux_calls) \ {call}
            Some == (SUBSET Call) \ {{}}
<1>1. /\ step = "aux_reorder" /\ aux_calls # << >> /\ step' = step
      /\ aux_calls' = IF left = {} THEN Tail(aux_calls) ELSE << left >> \o Tail(aux_calls)
      /\ UNCHANGED genvars /\ vulnerabilities' = vulnerabilities /\ order' = order
      /\ rest' = rest /\ explored' = explored /\ current' = current
      /\ \/ real_reorder' = Append(real_reorder, call)
         \/ real_reorder' = real_reorder
      /\ current_atomic' = current_atomic
      /\ reorder_bugs' = reorder_bugs /\ atomic_bugs' = atomic_bugs
  BY DEF AuxReorder, results
<1>2. crash_states' = crash_states /\ live' = live /\ aux_calls \in Seq(Some)
  BY <1>1, Parts DEF genvars, AuxState
<1>3. Head(aux_calls) \in Some /\ Tail(aux_calls) \in Seq(Some)
  <2>. HIDE DEF Some
  <2>. QED BY <1>1, <1>2
<1>4. call \in Head(aux_calls) /\ call \in Call
  <2>1. Head(aux_calls) \in SUBSET Nat /\ Head(aux_calls) # {} /\ Head(aux_calls) \in SUBSET Call
    BY <1>3 DEF Call
  <2>. QED BY <2>1, MinIsLeast
<1>5. aux_calls' \in Seq(Some)
  <2>1. CASE left = {}
    BY <1>1, <1>3, <2>1
  <2>2. CASE left # {}
    <3>1. left \in Some
      BY <1>3, <2>2
    <3>. HIDE DEF left, Some
    <3>2. << left >> \in Seq(Some)
      BY <3>1
    <3>. QED BY <1>1, <1>3, <2>2, <3>2, ConcatProperties
  <2>. QED BY <2>1, <2>2
<1>6. aux_calls' \in Seq(SUBSET Call)
  <2>1. Some \subseteq SUBSET Call
    OBVIOUS
  <2>. HIDE DEF Some
  <2>. QED BY <1>5, <2>1, SeqMonotonic
<1>. HIDE DEF call
<1>7. real_reorder' \in Seq(Call)
  <2>1. real_reorder \in Seq(Call)
    BY <1>1, Parts
  <2>2. Append(real_reorder, call) \in Seq(Call)
    BY <1>4, <2>1
  <2>. QED BY <1>1, <2>1, <2>2
<1>8. AuxState'
  BY <1>1, <1>2, <1>5, Parts DEF AuxState, HasReorder
<1>. QED BY <1>1, <1>6, <1>7, <1>8, Parts, StepKeeps

LEMMA ReportReorderInv == ASSUME ExploreInv, ReportReorder PROVE ExploreInv'
<1>. DEFINE pivot == crash_states[current].pivot
            found == [k \in DOMAIN real_reorder |-> <<real_reorder[k], pivot>>]
<1>1. /\ step = "aux_reorder" /\ aux_calls = << >> /\ step' = "next"
      /\ UNCHANGED genvars /\ vulnerabilities' = vulnerabilities /\ order' = order
      /\ rest' = rest /\ explored' = explored /\ current' = current
      /\ aux_calls' = aux_calls /\ real_reorder' = << >> /\ current_atomic' = current_atomic
      /\ reorder_bugs' = reorder_bugs \o found /\ atomic_bugs' = atomic_bugs
  BY DEF ReportReorder
<1>2. AuxState'
  BY <1>1, Parts DEF AuxState
<1>3. pivot \in Call
  <2>1. current \in DOMAIN crash_states /\ HasReorder(crash_states[current])
    BY <1>1, Parts DEF AuxState
  <2>2. crash_states[current].pivot \in Call \cup {None}
    BY <2>1, StateFields DEF ExploreInv, Generated, IInv
  <2>. QED BY <2>1, <2>2 DEF HasReorder
<1>. HIDE DEF pivot
<1>4. found \in Seq(Call \X Call)
  <2>1. real_reorder \in Seq(Call) /\ DOMAIN real_reorder = 1 .. Len(real_reorder)
        /\ Len(real_reorder) \in Nat
    BY <1>1, Parts
  <2>2. \A k \in 1 .. Len(real_reorder) : <<real_reorder[k], pivot>> \in Call \X Call
    BY <1>3, <2>1
  <2>. QED BY <2>1, <2>2
<1>. HIDE DEF found
<1>5. reorder_bugs' \in Seq(Call \X Call)
  <2>1. reorder_bugs \in Seq(Call \X Call)
    BY <1>1, Parts
  <2>. QED BY <1>1, <1>4, <2>1, ConcatProperties
<1>6. aux_calls' \in Seq(SUBSET Call) /\ real_reorder' \in Seq(Call)
  BY <1>1
<1>. QED BY <1>1, <1>2, <1>5, <1>6, Parts, StepKeeps

LEMMA ReportInv == ASSUME ExploreInv, Report PROVE ExploreInv'
<1>. DEFINE kept == {k \in DOMAIN reorder_bugs : reorder_bugs[k][1] \notin AtomicCalls}
<1>1. /\ step = "next" /\ step' = "reported" /\ UNCHANGED genvars
      /\ vulnerabilities' = vulnerabilities /\ order' = order
      /\ rest' = rest /\ explored' = explored /\ current' = current
      /\ aux_calls' = aux_calls /\ real_reorder' = real_reorder
      /\ current_atomic' = current_atomic /\ atomic_bugs' = atomic_bugs
      /\ reorder_bugs' = [k \in kept |-> reorder_bugs[k]]
  BY DEF Report
<1>2. AuxState'
  BY <1>1, Parts DEF AuxState
<1>3. reorder_bugs' \in [DOMAIN reorder_bugs' -> Call \X Call]
  <2>1. reorder_bugs \in Seq(Call \X Call)
    BY <1>1, Parts
  <2>2. \A k \in kept : reorder_bugs[k] \in Call \X Call
    BY <2>1
  <2>. HIDE DEF kept
  <2>. QED BY <1>1, <2>2
<1>4. aux_calls' \in Seq(SUBSET Call)
  BY <1>1, Parts
<1>. QED BY <1>1, <1>2, <1>3, <1>4, Parts, StepKeeps

LEMMA StutterInv == ASSUME ExploreInv, UNCHANGED allvars PROVE ExploreInv'
<1>1. /\ UNCHANGED genvars /\ vulnerabilities' = vulnerabilities /\ order' = order
      /\ rest' = rest /\ explored' = explored /\ current' = current
      /\ aux_calls' = aux_calls /\ real_reorder' = real_reorder
      /\ current_atomic' = current_atomic /\ reorder_bugs' = reorder_bugs
      /\ atomic_bugs' = atomic_bugs /\ step' = step
  BY DEF allvars, explorevars, results
<1>2. Generated'
  BY <1>1, GeneratedNext DEF ExploreInv
<1>3. TypeOK' /\ crash_states' = crash_states /\ live' = live
  BY <1>1, <1>2 DEF Generated, IInv, genvars
<1>4. ExploreTypeOK'
  <2>1. ExploreTypeOK
    BY DEF ExploreInv
  <2>2. /\ vulnerabilities' \in SUBSET (Call \X Call)
        /\ order' \in [DOMAIN order' -> DOMAIN crash_states']
        /\ rest' \in SUBSET (DOMAIN order')
        /\ explored' \in SUBSET (DOMAIN crash_states')
        /\ current' \in DOMAIN crash_states' \cup {None}
    BY <1>1, <1>3, <2>1 DEF ExploreTypeOK
  <2>3. /\ aux_calls' \in IF step' = "aux_atomic" THEN Seq(Call) ELSE Seq(SUBSET Call)
        /\ real_reorder' \in Seq(Call) /\ current_atomic' \in Seq(Call)
        /\ IF step' = "reported" THEN reorder_bugs' \in [DOMAIN reorder_bugs' -> Call \X Call]
           ELSE reorder_bugs' \in Seq(Call \X Call)
        /\ atomic_bugs' \in Seq(Seq(Call))
        /\ step' \in {"generate", "next", "aux_atomic", "aux_reorder", "reported"}
    BY <1>1, <2>1 DEF ExploreTypeOK
  <2>. QED BY <1>3, <2>2, <2>3 DEF ExploreTypeOK
<1>5. (step = "generate" => Generating') /\ (step # "generate" => Exploring')
  <2>1. step = "generate" => Generating'
    BY <1>1 DEF ExploreInv, Generating
  <2>2. Exploring => Exploring'
    <3>1. Ordered => Ordered'
      BY <1>1, <1>3 DEF Ordered
    <3>2. AuxState => AuxState'
      BY <1>1, <1>3 DEF AuxState, HasReorder
    <3>. QED BY <1>1, <1>3, <3>1, <3>2 DEF Exploring
  <2>. QED BY <2>1, <2>2 DEF ExploreInv
<1>. QED BY <1>1, <1>2, <1>4, <1>5 DEF ExploreInv

-----------------------------------------------------------------------------
(* While the inner calls of a group are tried: a call that could be left   *)
(* out of the passing cut occurs before the last call as often as it is    *)
(* still to be tried, the first call of the group once more.               *)
Trying(calls, group, aux) ==
    /\ calls # {} /\ ~ Fails(calls)
    /\ group # << >> /\ group[Len(group)] = Max(calls)
    /\ \E first : \A c \in Call : ~ Fails(calls \ {c}) =>
          Occurrences(group, Len(group) - 1, c)
            = Occurrences(aux, Len(aux), c) + (IF c = first THEN 1 ELSE 0)

Balanced ==
    step = "aux_atomic" => Trying(crash_states[current].syscalls, current_atomic, aux_calls)

(* A run of failing cuts ends: all calls but the first are to be tried.    *)
LEMMA RunEnds ==
    ASSUME NEW calls \in SUBSET Call, calls # {}, ~ Fails(calls),
           NEW run \in Seq(Call), run # << >>
    PROVE  LET group == Append(run, Max(calls))
           IN  Trying(calls, group, SubSeq(group, 2, Len(group) - 1))
<1>. DEFINE m == Max(calls)
            group == Append(run, m)
            aux == SubSeq(group, 2, Len(group) - 1)
            n == Len(run)
<1>1. m \in Call
  BY MaxIsGreatest
<1>. HIDE DEF m
<1>2. /\ n \in Nat /\ 1 \in 1 .. n /\ Len(group) = n + 1 /\ group \in Seq(Call)
      /\ group # << >> /\ group[Len(group)] = m
  BY <1>1
<1>. HIDE DEF n, group
<1>3. Len(aux) = n - 1 /\ \A j \in 1 .. n - 1 : aux[j] = group[j + 1]
  <2>1. \A j \in 2 .. Len(group) - 1 : group[j] \in Call
    BY <1>2
  <2>2. /\ Len(aux) = IF 2 <= Len(group) - 1 THEN Len(group) - 1 - 2 + 1 ELSE 0
        /\ \A j \in 1 .. Len(group) - 1 - 2 + 1 : aux[j] = group[2 + j - 1]
    BY <1>2, <2>1, SubSeqProperties
  <2>. HIDE DEF aux
  <2>. QED BY <1>2, <2>2
<1>. HIDE DEF aux
<1>4. Closes(group, n, 1, aux)
  BY <1>2, <1>3 DEF Closes
<1>5. \A c \in Call : Occurrences(group, n, c)
                        = Occurrences(aux, n - 1, c) + (IF c = group[1] THEN 1 ELSE 0)
  BY <1>2, <1>4, OccurrencesClosed
<1>6. Len(group) - 1 = n
  BY <1>2
<1>7. \E first : \A c \in Call : ~ Fails(calls \ {c}) =>
        Occurrences(group, Len(group) - 1, c)
          = Occurrences(aux, Len(aux), c) + (IF c = first THEN 1 ELSE 0)
  BY <1>3, <1>5, <1>6
<1>8. Trying(calls, group, aux)
  BY <1>2, <1>7 DEF Trying, m
<1>. QED BY <1>8 DEF m, group, aux

(* Trying one more call.                                                   *)
LEMMA TriesOne ==
    ASSUME NEW calls, NEW group \in Seq(Call), NEW aux \in Seq(Call), aux # << >>,
           Trying(calls, group, aux)
    PROVE  LET c == Head(aux)
               left == IF Fails(calls \ {c}) THEN group ELSE RemoveFirst(group, c)
           IN  left \in Seq(Call) /\ Trying(calls, left, Tail(aux))
<1>. DEFINE x == Head(aux)
            rest1 == Tail(aux)
            n == Len(group) - 1
            left == IF Fails(calls \ {x}) THEN group ELSE RemoveFirst(group, x)
<1>1. /\ x \in Call /\ x = aux[1] /\ rest1 \in Seq(Call) /\ Len(rest1) = Len(aux) - 1
      /\ Len(rest1) \in Nat
      /\ Len(aux) \in Nat /\ 1 \in 1 .. Len(aux)
      /\ \A j \in 1 .. Len(aux) - 1 : rest1[j] = aux[j + 1]
  OBVIOUS
<1>2. /\ calls # {} /\ ~ Fails(calls) /\ group # << >> /\ group[Len(group)] = Max(calls)
      /\ n \in Nat /\ Len(group) = n + 1
  BY DEF Trying
<1>3. PICK first : \A c \in Call : ~ Fails(calls \ {c}) =>
          Occurrences(group, n, c)
            = Occurrences(aux, Len(aux), c) + (IF c = first THEN 1 ELSE 0)
  BY DEF Trying
<1>. HIDE DEF x, rest1, n
<1>4. \A c \in Call : Occurrences(aux, Len(aux), c)
                        = Occurrences(rest1, Len(rest1), c) + (IF x = c THEN 1 ELSE 0)
  <2>1. Closes(aux, Len(aux), 1, rest1)
    BY <1>1 DEF Closes
  <2>. QED BY <1>1, <2>1, OccurrencesClosed
<1>5. CASE Fails(calls \ {x})
  <2>1. \A c \in Call : ~ Fails(calls \ {c}) => c # x
    BY <1>5
  <2>2. \A c \in Call : Occurrences(rest1, Len(rest1), c) \in Nat
    BY <1>1, OccurrencesNat
  <2>3. \A c \in Call : ~ Fails(calls \ {c}) =>
          Occurrences(group, n, c)
            = Occurrences(rest1, Len(rest1), c) + (IF c = first THEN 1 ELSE 0)
    BY <1>3, <1>4, <2>1, <2>2
  <2>4. Trying(calls, group, rest1)
    BY <1>2, <2>3 DEF Trying, n
  <2>. QED BY <1>5, <2>4 DEF x, rest1
<1>6. CASE ~ Fails(calls \ {x})
  <2>1. \E l \in 1 .. n : group[l] = x
    <3>1. /\ Occurrences(group, n, x) \in Nat /\ Occurrences(rest1, Len(rest1), x) \in Nat
          /\ Occurrences(group, n, x) = 0 <=> \A k \in 1 .. n : group[k] # x
      <4>1. n \in Nat /\ Len(rest1) \in Nat
        BY <1>1, <1>2
      <4>. QED BY <4>1, OccurrencesType, OccurrencesNat
    <3>2. Occurrences(group, n, x) # 0
      BY <1>1, <1>3, <1>4, <1>6, <3>1
    <3>. QED BY <3>1, <3>2
  <2>2. /\ RemoveFirst(group, x) \in Seq(Call) /\ Len(RemoveFirst(group, x)) = n
        /\ \E k \in 1 .. n : group[k] = x /\ Closes(group, n + 1, k, RemoveFirst(group, x))
    <3>1. n \in 1 .. Len(group)
      BY <1>2, <2>1
    <3>. QED BY <1>2, <2>1, <3>1, RemoveFirstCloses
  <2>. DEFINE g == RemoveFirst(group, x)
  <2>3. PICK k \in 1 .. n : group[k] = x /\ Closes(group, n + 1, k, g)
    BY <2>2
  <2>. HIDE DEF g
  <2>4. Closes(group, n, k, g)
    BY <1>2, <2>3 DEF Closes
  <2>5. g # << >> /\ g[Len(g)] = Max(calls)
    <3>1. n \in 1 .. n /\ ~ (n < k)
      BY <1>2, <2>3
    <3>2. g[n] = group[n + 1]
      BY <1>2, <2>3, <3>1 DEF Closes
    <3>3. g \in Seq(Call) /\ Len(g) = n
      BY <2>2 DEF g
    <3>. QED BY <1>2, <3>1, <3>2, <3>3
  <2>6. \A c \in Call : Occurrences(group, n, c)
                          = Occurrences(g, n - 1, c) + (IF x = c THEN 1 ELSE 0)
    BY <1>2, <2>3, <2>4, OccurrencesClosed
  <2>7. n - 1 \in Nat
    BY <1>2, <2>3
  <2>8. \A c \in Call : /\ Occurrences(rest1, Len(rest1), c) \in Nat
                        /\ Occurrences(g, n - 1, c) \in Nat
    BY <1>1, <2>7, OccurrencesNat
  <2>9. \A c \in Call : ~ Fails(calls \ {c}) =>
          Occurrences(g, n - 1, c)
            = Occurrences(rest1, Len(rest1), c) + (IF c = first THEN 1 ELSE 0)
    <3>. SUFFICES ASSUME NEW c \in Call, ~ Fails(calls \ {c})
                  PROVE  Occurrences(g, n - 1, c)
                           = Occurrences(rest1, Len(rest1), c) + (IF c = first THEN 1 ELSE 0)
      OBVIOUS
    <3>1. PICK u, v, w : /\ u = Occurrences(g, n - 1, c)
                         /\ v = Occurrences(rest1, Len(rest1), c)
                         /\ w = Occurrences(group, n, c)
      OBVIOUS
    <3>2. u \in Nat /\ v \in Nat
      BY <2>8, <3>1
    <3>3. w = u + (IF x = c THEN 1 ELSE 0)
      BY <2>6, <3>1
    <3>4. w = v + (IF x = c THEN 1 ELSE 0) + (IF c = first THEN 1 ELSE 0)
      BY <1>3, <1>4, <3>1
    <3>. QED BY <3>1, <3>2, <3>3, <3>4
  <2>10. Len(g) - 1 = n - 1 /\ g \in Seq(Call)
    BY <2>2 DEF g
  <2>11. Trying(calls, g, rest1)
    BY <1>2, <2>5, <2>9, <2>10 DEF Trying
  <2>. QED BY <1>6, <2>10, <2>11 DEF x, rest1, g
<1>. QED BY <1>5, <1>6

(* When every inner call has been tried the group is explained.            *)
LEMMA AllTried ==
    ASSUME NEW calls, NEW group \in Seq(Call), Trying(calls, group, << >>)
    PROVE  /\ calls # {} /\ ~ Fails(calls) /\ group[Len(group)] = Max(calls)
           /\ \A k, l \in 1 .. Len(group) - 1 :
                ~ Fails(calls \ {group[k]}) /\ ~ Fails(calls \ {group[l]}) => k = l
<1>. DEFINE n == Len(group) - 1
<1>1. n \in Nat /\ group # << >> /\ Len(group) = n + 1
  BY DEF Trying
<1>2. PICK first : \A c \in Call : ~ Fails(calls \ {c}) =>
          Occurrences(group, n, c)
            = Occurrences(<< >>, 0, c) + (IF c = first THEN 1 ELSE 0)
  BY DEF Trying
<1>. HIDE DEF n
<1>3. \A c \in Call : Occurrences(<< >>, 0, c) = 0
  <2>1. \A c : {k \in 1 .. 0 : << >>[k] = c} = {}
    OBVIOUS
  <2>. QED BY <2>1, FS_EmptySet DEF Occurrences
<1>4. ASSUME NEW k \in 1 .. n, NEW l \in 1 .. n,
             ~ Fails(calls \ {group[k]}), ~ Fails(calls \ {group[l]})
      PROVE  k = l
  <2>1. group[k] \in Call /\ group[l] \in Call
    BY <1>1
  <2>2. Occurrences(group, n, group[k]) # 0 /\ Occurrences(group, n, group[l]) # 0
    <3>1. ASSUME NEW j \in 1 .. n PROVE Occurrences(group, n, group[j]) # 0
      <4>1. PICK x : x = group[j]
        OBVIOUS
      <4>2. Occurrences(group, n, x) = 0 <=> \A m \in 1 .. n : group[m] # x
        BY <1>1, OccurrencesType
      <4>. QED BY <4>1, <4>2
    <3>. QED BY <3>1
  <2>3. group[k] = first /\ group[l] = first
    BY <1>2, <1>3, <1>4, <2>1, <2>2
  <2>4. Occurrences(group, n, group[k]) = 1
    BY <1>2, <1>3, <1>4, <2>1, <2>3
  <2>5. Occurrences(group, n, group[k]) <= 1
    BY <2>4
  <2>. QED BY <1>1, <2>3, <2>5, OccurrencesType
<1>. QED BY <1>4 DEF Trying, n

-----------------------------------------------------------------------------
(* The type invariant and the groups.                                      *)
GroupInv == ExploreInv /\ Balanced /\ GroupsExplained

(* What is still to be tried, in the next state.                           *)
LEMMA BalancedNext ==
    ASSUME NEW calls, NEW group, NEW aux, Trying(calls, group, aux),
           vulnerabilities' = vulnerabilities,
           crash_states'[current'].syscalls = calls,
           current_atomic' = group, aux_calls' = aux
    PROVE  Balanced'
BY DEF Balanced, Trying, Fails

LEMMA AuxAtomicInv == ASSUME ExploreInv, Balanced, AuxAtomic PROVE ExploreInv' /\ Balanced'
<1>. DEFINE calls == crash_states[current].syscalls
            c == Head(aux_calls)
            left == IF Fails(calls \ {c}) THEN current_atomic ELSE RemoveFirst(current_atomic, c)
<1>1. /\ step = "aux_atomic" /\ aux_calls # << >> /\ step' = step
      /\ aux_calls' = Tail(aux_calls) /\ current_atomic' = left
      /\ UNCHANGED genvars /\ vulnerabilities' = vulnerabilities /\ order' = order
      /\ rest' = rest /\ explored' = explored /\ current' = current
      /\ real_reorder' = real_reorder
      /\ reorder_bugs' = reorder_bugs /\ atomic_bugs' = atomic_bugs
  BY DEF AuxAtomic, results
<1>2. /\ crash_states' = crash_states /\ live' = live
      /\ aux_calls \in Seq(Call) /\ current_atomic \in Seq(Call)
      /\ 1 \in rest => current_atomic = << >>
  BY <1>1, Parts DEF genvars, AuxState
<1>3. Trying(calls, current_atomic, aux_calls) /\ current_atomic # << >>
  BY <1>1 DEF Balanced, Trying
<1>. HIDE DEF calls
<1>4. left \in Seq(Call) /\ Trying(calls, left, Tail(aux_calls))
  BY <1>1, <1>2, <1>3, TriesOne
<1>. HIDE DEF left, c
<1>5. aux_calls' \in Seq(Call)
  BY <1>1, <1>2
<1>6. AuxState'
  BY <1>1, <1>2, <1>5, Parts DEF AuxState, HasReorder
<1>7. 1 \notin rest'
  BY <1>1, <1>2, <1>3
<1>8. ExploreInv'
  BY <1>1, <1>4, <1>6, <1>7, Parts, StepKeeps
<1>9. crash_states'[current'].syscalls = calls
  BY <1>1, <1>2 DEF calls
<1>10. Balanced'
  BY <1>1, <1>4, <1>9, BalancedNext
<1>. QED BY <1>8, <1>10

(* A run of failing cuts ends with the inner calls still to be tried.      *)
LEMMA ExploreCutBalanced == ASSUME ExploreInv, ExploreCut PROVE Balanced'
<1>. DEFINE calls == crash_states[NextState].syscalls
            group == Append(current_atomic, Max(calls))
            aux == SubSeq(group, 2, Len(group) - 1)
<1>1. /\ step = "next" /\ rest # {} /\ UNCHANGED genvars
      /\ vulnerabilities' = vulnerabilities
  BY DEF ExploreCut
<1>2. \/ step' = step
      \/ /\ ~ Fails(calls) /\ current_atomic # << >> /\ current_atomic' = group
         /\ aux_calls' = aux /\ current' = NextState
  BY DEF ExploreCut
<1>3. CASE step' = step
  BY <1>1, <1>3 DEF Balanced
<1>4. CASE step' # step
  <2>1. calls # {}
    BY <1>1, <1>2, <1>4, LastOfCut
  <2>2. calls \in SUBSET Call
    BY <1>1, NextIsLive, StateFields DEF ExploreInv, Generated, IInv
  <2>3. current_atomic \in Seq(Call) /\ current_atomic # << >>
    BY <1>1, <1>2, <1>4, Parts
  <2>4. crash_states'[current'].syscalls = calls
    BY <1>1, <1>2, <1>4 DEF genvars
  <2>. HIDE DEF calls
  <2>5. Trying(calls, group, aux)
    BY <1>2, <1>4, <2>1, <2>2, <2>3, RunEnds
  <2>. HIDE DEF group, aux
  <2>. QED BY <1>1, <1>2, <1>4, <2>4, <2>5, BalancedNext
<1>. QED BY <1>3, <1>4

(* The other actions start no group.                                       *)
LEMMA OtherBalanced ==
    ASSUME ExploreInv, Balanced,
           \/ Generate \/ SkipPruned \/ ExploreReorder \/ ReportAtomic \/ AuxReorder
           \/ ReportReorder \/ Report \/ UNCHANGED allvars
    PROVE  Balanced'
<1>1. CASE UNCHANGED allvars
  <2>1. /\ step' = step /\ current_atomic' = current_atomic /\ aux_calls' = aux_calls
        /\ crash_states' = crash_states /\ current' = current
        /\ vulnerabilities' = vulnerabilities
    BY <1>1 DEF allvars, genvars, explorevars
  <2>. QED BY <2>1 DEF Balanced, Trying, Fails
<1>2. CASE ~ UNCHANGED allvars
  <2>1. step' # "aux_atomic"
    BY <1>2 DEF Generate, SkipPruned, ExploreReorder, ReportAtomic, AuxReorder, ReportReorder,
                Report
  <2>. QED BY <2>1 DEF Balanced
<1>. QED BY <1>1, <1>2

-----------------------------------------------------------------------------
(* One group is explained by the cut at position i.                        *)
Explains(i, group) ==
    LET calls == crash_states[i].syscalls
    IN  /\ ~ HasReorder(crash_states[i])
        /\ ~ Fails(calls)
        /\ calls # {} /\ group[Len(group)] = Max(calls)
        /\ \A k, l \in 1 .. Len(group) - 1 :
             ~ Fails(calls \ {group[k]}) /\ ~ Fails(calls \ {group[l]}) => k = l

LEMMA GroupsByCuts ==
    GroupsExplained <=> \A n \in DOMAIN atomic_bugs : \E i \in explored : Explains(i, atomic_bugs[n])
BY DEF GroupsExplained, Explains

(* A step that adds no group explains those there are.                     *)
LEMMA GroupsKept ==
    ASSUME GroupsExplained, atomic_bugs' = atomic_bugs, explored \subseteq explored',
           crash_states' = crash_states, vulnerabilities' = vulnerabilities
    PROVE  GroupsExplained'
BY DEF GroupsExplained, Fails, HasReorder

LEMMA ReportAtomicGroups ==
    ASSUME ExploreInv, Balanced, GroupsExplained, ReportAtomic PROVE GroupsExplained'
<1>1. /\ step = "aux_atomic" /\ aux_calls = << >> /\ UNCHANGED genvars
      /\ explored' = explored /\ atomic_bugs' = Append(atomic_bugs, current_atomic)
      /\ vulnerabilities' = vulnerabilities
  BY DEF ReportAtomic
<1>2. /\ current \in explored /\ ~ HasReorder(crash_states[current])
      /\ current_atomic \in Seq(Call) /\ atomic_bugs \in Seq(Seq(Call))
  BY <1>1, Parts DEF AuxState
<1>3. Trying(crash_states[current].syscalls, current_atomic, << >>)
  BY <1>1 DEF Balanced
<1>4. Explains(current, current_atomic)
  BY <1>2, <1>3, AllTried DEF Explains
<1>5. /\ DOMAIN atomic_bugs' = DOMAIN atomic_bugs \cup {Len(atomic_bugs) + 1}
      /\ \A n \in DOMAIN atomic_bugs : atomic_bugs'[n] = atomic_bugs[n]
      /\ atomic_bugs'[Len(atomic_bugs) + 1] = current_atomic
  BY <1>1, <1>2
<1>6. ASSUME NEW n \in DOMAIN atomic_bugs' PROVE \E i \in explored : Explains(i, atomic_bugs'[n])
  BY <1>2, <1>4, <1>5, GroupsByCuts
<1>7. ASSUME NEW n \in DOMAIN atomic_bugs'
      PROVE  \E i \in explored' : Explains(i, atomic_bugs[n])'
  <2>. DEFINE group == atomic_bugs'[n]
  <2>1. PICK i \in explored : Explains(i, group)
    BY <1>6
  <2>2. \A S : Fails(S)' <=> Fails(S)
    BY <1>1 DEF Fails
  <2>3. crash_states' = crash_states /\ i \in explored'
    BY <1>1 DEF genvars
  <2>. QED BY <2>1, <2>2, <2>3 DEF Explains, HasReorder
<1>8. (\A n \in DOMAIN atomic_bugs : \E i \in explored : Explains(i, atomic_bugs[n]))'
  BY <1>7
<1>. QED BY <1>8, GroupsByCuts, PTL

LEMMA GroupInvNext == GroupInv /\ [ExploreNext]_allvars => GroupInv'
<1>. SUFFICES ASSUME GroupInv, [ExploreNext]_allvars PROVE GroupInv'
  OBVIOUS
<1>. USE DEF GroupInv
<1>1. ExploreInv'
  BY GenerateInv, ExploreCutInv, SkipPrunedInv, ExploreReorderInv, AuxAtomicInv,
     ReportAtomicInv, AuxReorderInv, ReportReorderInv, ReportInv, StutterInv DEF ExploreNext
<1>2. Balanced'
  BY AuxAtomicInv, ExploreCutBalanced, OtherBalanced DEF ExploreNext
<1>3. GroupsExplained'
  <2>1. CASE Generate
    <3>1. atomic_bugs' = << >>
      BY <2>1 DEF Generate, ExploreInv, Generating, results
    <3>. QED BY <3>1 DEF GroupsExplained
  <2>2. CASE ReportAtomic
    BY <2>2, ReportAtomicGroups
  <2>3. CASE \/ ExploreCut \/ SkipPruned \/ ExploreReorder \/ AuxAtomic \/ AuxReorder
             \/ ReportReorder \/ Report \/ UNCHANGED allvars
    <3>1. /\ atomic_bugs' = atomic_bugs /\ explored \subseteq explored'
          /\ UNCHANGED genvars /\ vulnerabilities' = vulnerabilities
      BY <2>3 DEF ExploreCut, SkipPruned, ExploreReorder, AuxAtomic, AuxReorder, ReportReorder,
                  Report, allvars, explorevars, results
    <3>. QED BY <3>1, GroupsKept DEF genvars
  <2>. QED BY <2>1, <2>2, <2>3 DEF ExploreNext
<1>. QED BY <1>1, <1>2, <1>3

LEMMA InitGroupInv == ExploreInit => GroupInv
<1>. SUFFICES ASSUME ExploreInit PROVE GroupInv
  OBVIOUS
<1>1. ExploreInv
  BY InitExploreInv
<1>2. step = "generate" /\ atomic_bugs = << >>
  BY DEF ExploreInit
<1>. QED BY <1>1, <1>2 DEF GroupInv, Balanced, GroupsExplained

LEMMA GroupInvHolds == ExploreSpec => []GroupInv
BY InitGroupInv, GroupInvNext, PTL DEF ExploreSpec, allvars

(* The variables of the exploration keep their types.                      *)
THEOREM ExploreTypesHold == ExploreSpec => []ExploreTypeOK
<1>1. GroupInv => ExploreTypeOK
  BY DEF GroupInv, ExploreInv
<1>. QED BY <1>1, GroupInvHolds, PTL

(* A reported group ends with the last call of a passing cut, and of the   *)
(* calls before it at most one can be left out of that cut, whatever the   *)
(* program's vulnerabilities and the order of the exploration, although    *)
(* remove() shortens the list whose inner calls are tried (lines 228-233,  *)
(* 337-349).                                                               *)
THEOREM GroupsAreExplained == ExploreSpec => []GroupsExplained
<1>1. GroupInv => GroupsExplained
  BY DEF GroupInv
<1>. QED BY <1>1, GroupInvHolds, PTL

-----------------------------------------------------------------------------
(* The reordered states the property is about, and why one is not hidden.  *)
Concerned(i) ==
    LET st == crash_states[i]
    IN  /\ HasReorder(st) /\ Fails(st.syscalls)
        /\ (Dropped(st) \cup {st.pivot}) \cap Chunks = {}

Harmless(i) ==
    \A c \in Dropped(crash_states[i]) : ~ Fails(crash_states[i].base \ {c})

Explained(i) == Dropped(crash_states[i]) \cap Reordered # {} \/ Harmless(i)

Ahead(i) == \E r \in rest : order[r] = i

(* The lost calls found harmful, and those whose state is still to come.   *)
Found == {real_reorder[k] : k \in DOMAIN real_reorder}

Untried(c) == \E k \in DOMAIN aux_calls : c \in aux_calls[k]

(* The loop has explained the states it has passed, the pruned ones too.   *)
PassedExplained ==
    step \in {"next", "aux_atomic", "aux_reorder"} =>
        \A i \in live : Concerned(i) =>
            Explained(i) \/ Ahead(i) \/ (step = "aux_reorder" /\ i = current)

(* No harmful lost call is forgotten while they are left out one by one.   *)
NoneForgotten ==
    step = "aux_reorder" =>
        \A c \in Dropped(crash_states[current]) :
            Fails(crash_states[current].base \ {c}) => c \in Found \/ Untried(c)

Told(i) ==
    Dropped(crash_states[i]) \cap (Reordered \cup AtomicCalls) # {} \/ Harmless(i)

AllTold == step = "reported" => \A i \in live : Concerned(i) => Told(i)

HiddenInv == GroupInv /\ PassedExplained /\ NoneForgotten /\ AllTold

(* A step that changes neither the states nor the program's vulnerabilities*)
(* and drops no reported call leaves an explained state explained.         *)
LEMMA StatesKept ==
    ASSUME UNCHANGED genvars, vulnerabilities' = vulnerabilities
    PROVE  /\ live' = live /\ crash_states' = crash_states
           /\ \A S : Fails(S)' <=> Fails(S)
           /\ \A i : Concerned(i)' <=> Concerned(i)
           /\ \A i : Harmless(i)' <=> Harmless(i)
           /\ Reordered \subseteq Reordered' => \A i : Explained(i) => Explained(i)'
<1>1. live' = live /\ crash_states' = crash_states /\ trace' = trace
  BY DEF genvars, inputs
<1>2. \A S : Fails(S)' <=> Fails(S)
  BY DEF Fails
<1>3. \A i : Concerned(i)' <=> Concerned(i)
  <2>1. Chunks' = Chunks
    BY <1>1 DEF Chunks
  <2>. QED BY <1>1, <1>2, <2>1 DEF Concerned, HasReorder, Dropped
<1>4. \A i : Harmless(i)' <=> Harmless(i)
  BY <1>1, <1>2 DEF Harmless, Dropped
<1>5. Reordered \subseteq Reordered' => \A i : Explained(i) => Explained(i)'
  BY <1>1, <1>4 DEF Explained, Dropped
<1>. QED BY <1>1, <1>2, <1>3, <1>4, <1>5

LEMMA GenerateHidden ==
    ASSUME ExploreInv, Generate PROVE PassedExplained' /\ NoneForgotten' /\ AllTold'
<1>1. step = "generate"
  BY DEF Generate
<1>2. CASE phase' = "explore"
  <2>1. rest' = live' /\ step' = "next" /\ ExploreInv'
    BY <1>2, GenerateInv DEF Generate
  <2>2. Ordered'
    BY <2>1 DEF ExploreInv, Exploring
  <2>3. \A i \in live' : Ahead(i)'
    BY <2>1, <2>2 DEF Ordered, Ahead
  <2>. QED BY <2>1, <2>3 DEF PassedExplained, NoneForgotten, AllTold
<1>3. CASE phase' # "explore"
  <2>1. step' = "generate"
    BY <1>1, <1>3 DEF Generate
  <2>. QED BY <2>1 DEF PassedExplained, NoneForgotten, AllTold
<1>. QED BY <1>2, <1>3

(* The state the loop is at is the one rank it passes.                     *)
LEMMA PassesOne ==
    ASSUME rest' = rest \ {Min(rest)}, order' = order, NEW i, Ahead(i), i # NextState
    PROVE  Ahead(i)'
BY DEF Ahead, NextState

LEMMA VisitHidden ==
    ASSUME HiddenInv, ExploreCut \/ SkipPruned \/ ExploreReorder
    PROVE  PassedExplained' /\ NoneForgotten' /\ AllTold'
<1>1. /\ step = "next" /\ rest # {} /\ rest' = rest \ {Min(rest)} /\ order' = order
      /\ UNCHANGED genvars /\ vulnerabilities' = vulnerabilities /\ reorder_bugs' = reorder_bugs
      /\ step' \in {"next", "aux_atomic", "aux_reorder"}
  BY DEF ExploreCut, SkipPruned, ExploreReorder, results
<1>2. /\ live' = live /\ crash_states' = crash_states
      /\ \A S : Fails(S)' <=> Fails(S)
      /\ \A i : Concerned(i)' <=> Concerned(i)
      /\ \A i : Explained(i) => Explained(i)'
  <2>1. Reordered' = Reordered
    BY <1>1 DEF Reordered
  <2>. QED BY <1>1, <2>1, StatesKept
<1>3. Concerned(NextState) =>
        Explained(NextState) \/ (step' = "aux_reorder" /\ current' = NextState)
  <2>1. CASE ExploreCut
    BY <2>1 DEF ExploreCut, Concerned
  <2>2. CASE SkipPruned
    BY <2>2 DEF SkipPruned, StatePruned, Concerned, Explained
  <2>3. CASE ExploreReorder
    BY <2>3 DEF ExploreReorder, Concerned
  <2>. QED BY <2>1, <2>2, <2>3
<1>4. PassedExplained'
  <2>. SUFFICES ASSUME NEW i \in live, Concerned(i)
                PROVE  \/ Explained(i)' \/ Ahead(i)'
                       \/ step' = "aux_reorder" /\ i = current'
    BY <1>1, <1>2 DEF PassedExplained
  <2>1. CASE i = NextState
    BY <1>2, <1>3, <2>1
  <2>2. CASE i # NextState
    <3>1. Explained(i) \/ Ahead(i)
      BY <1>1 DEF HiddenInv, PassedExplained
    <3>. QED BY <1>1, <1>2, <2>2, <3>1, PassesOne
  <2>. QED BY <2>1, <2>2
<1>5. NoneForgotten'
  <2>. SUFFICES ASSUME step' = "aux_reorder",
                       NEW c \in Dropped(crash_states'[current'])
                PROVE  Untried(c)'
    BY DEF NoneForgotten, Dropped
  <2>1. ExploreReorder /\ current' = NextState /\ aux_calls' = crash_states[NextState].reorder
    BY <1>1 DEF ExploreCut, SkipPruned, ExploreReorder
  <2>. QED BY <1>2, <2>1 DEF Dropped, Untried
<1>. QED BY <1>1, <1>4, <1>5 DEF AllTold

(* The lists of sets still to be tried, one call later.                    *)
LEMMA AuxReorderHidden ==
    ASSUME HiddenInv, AuxReorder PROVE PassedExplained' /\ NoneForgotten' /\ AllTold'
<1>. DEFINE call == Min(Head(aux_calls))
            left == Head(aux_calls) \ {call}
            cut == crash_states[current].base
<1>1. /\ step = "aux_reorder" /\ aux_calls # << >> /\ step' = step
      /\ aux_calls' = IF left = {} THEN Tail(aux_calls) ELSE << left >> \o Tail(aux_calls)
      /\ real_reorder' = IF Fails(cut \ {call}) THEN Append(real_reorder, call)
                         ELSE real_reorder
      /\ UNCHANGED genvars /\ vulnerabilities' = vulnerabilities /\ order' = order
      /\ rest' = rest /\ current' = current /\ reorder_bugs' = reorder_bugs
  BY DEF AuxReorder, results
<1>2. /\ live' = live /\ crash_states' = crash_states
      /\ \A S : Fails(S)' <=> Fails(S)
      /\ \A i : Concerned(i)' <=> Concerned(i)
      /\ \A i : Explained(i) => Explained(i)'
  <2>1. Reordered' = Reordered
    BY <1>1 DEF Reordered
  <2>. QED BY <1>1, <2>1, StatesKept
<1>3. PassedExplained'
  <2>1. \A i : Ahead(i) => Ahead(i)'
    BY <1>1 DEF Ahead
  <2>. QED BY <1>1, <1>2, <2>1 DEF HiddenInv, PassedExplained
<1>4. aux_calls \in Seq(SUBSET Call) /\ real_reorder \in Seq(Call)
  BY <1>1, Parts DEF HiddenInv, GroupInv
<1>5. ASSUME NEW c, Untried(c), c # call PROVE Untried(c)'
  <2>1. PICK k \in DOMAIN aux_calls : c \in aux_calls[k]
    BY <1>5 DEF Untried
  <2>2. k \in 1 .. Len(aux_calls) /\ Len(aux_calls) \in Nat
    BY <1>4
  <2>3. /\ Tail(aux_calls) \in Seq(SUBSET Call) /\ Len(Tail(aux_calls)) = Len(aux_calls) - 1
        /\ \A j \in 1 .. Len(aux_calls) - 1 : Tail(aux_calls)[j] = aux_calls[j + 1]
        /\ Head(aux_calls) = aux_calls[1] /\ Head(aux_calls) \in SUBSET Call
    BY <1>1, <1>4
  <2>. HIDE DEF call
  <2>4. CASE left = {}
    <3>1. k # 1
      BY <1>5, <2>1, <2>3, <2>4
    <3>2. k - 1 \in 1 .. Len(aux_calls) - 1 /\ k - 1 + 1 = k
      BY <2>2, <3>1
    <3>3. Tail(aux_calls)[k - 1] = aux_calls[k] /\ k - 1 \in DOMAIN Tail(aux_calls)
      BY <2>3, <3>2
    <3>4. aux_calls' = Tail(aux_calls)
      BY <1>1, <2>4
    <3>. HIDE DEF left
    <3>5. k - 1 \in DOMAIN aux_calls' /\ c \in aux_calls'[k - 1]
      BY <2>1, <3>3, <3>4
    <3>. QED BY <3>5 DEF Untried
  <2>5. CASE left # {}
    <3>1. aux_calls' = << left >> \o Tail(aux_calls) /\ left \in SUBSET Call
      BY <1>1, <2>3, <2>5
    <3>2. c \in Head(aux_calls) => c \in left
      BY <1>5
    <3>. HIDE DEF left
    <3>3. << left >> \in Seq(SUBSET Call) /\ Len(<< left >>) = 1 /\ << left >>[1] = left
      BY <3>1
    <3>4. /\ Len(aux_calls') = Len(aux_calls) /\ aux_calls' \in Seq(SUBSET Call)
          /\ \A j \in 1 .. Len(aux_calls) :
               aux_calls'[j] = IF j <= 1 THEN << left >>[j] ELSE Tail(aux_calls)[j - 1]
      <4>1. /\ << left >> \o Tail(aux_calls) \in Seq(SUBSET Call)
            /\ Len(<< left >> \o Tail(aux_calls)) = 1 + Len(Tail(aux_calls))
            /\ \A j \in 1 .. 1 + Len(Tail(aux_calls)) :
                 (<< left >> \o Tail(aux_calls))[j]
                   = IF j <= 1 THEN << left >>[j] ELSE Tail(aux_calls)[j - 1]
        BY <2>3, <3>3, ConcatProperties
      <4>2. 1 + Len(Tail(aux_calls)) = Len(aux_calls)
        BY <2>2, <2>3
      <4>. QED BY <3>1, <4>1, <4>2
    <3>5. k \in DOMAIN aux_calls'
      BY <2>2, <3>4
    <3>6. c \in aux_calls'[k]
      <4>1. CASE k = 1
        BY <2>1, <2>2, <2>3, <3>2, <3>3, <3>4, <4>1
      <4>2. CASE k # 1
        <5>1. ~ (k <= 1) /\ k - 1 \in 1 .. Len(aux_calls) - 1 /\ k - 1 + 1 = k
          BY <2>2, <4>2
        <5>2. aux_calls'[k] = Tail(aux_calls)[k - 1] /\ Tail(aux_calls)[k - 1] = aux_calls[k]
          BY <2>2, <2>3, <3>4, <5>1
        <5>. QED BY <2>1, <5>2
      <4>. QED BY <4>1, <4>2
    <3>. QED BY <3>5, <3>6 DEF Untried
  <2>. QED BY <2>4, <2>5
<1>. HIDE DEF left, call
<1>6. Found \subseteq Found' /\ (Fails(cut \ {call}) => call \in Found')
  <2>1. CASE Fails(cut \ {call})
    <3>1. real_reorder' = Append(real_reorder, call)
      BY <1>1, <2>1
    <3>2. /\ DOMAIN real_reorder' = DOMAIN real_reorder \cup {Len(real_reorder) + 1}
          /\ \A k \in DOMAIN real_reorder : real_reorder'[k] = real_reorder[k]
          /\ real_reorder'[Len(real_reorder) + 1] = call
      BY <1>4, <3>1
    <3>. QED BY <3>2 DEF Found
  <2>2. CASE ~ Fails(cut \ {call})
    <3>1. real_reorder' = real_reorder
      BY <1>1, <2>2
    <3>. QED BY <2>2, <3>1 DEF Found
  <2>. QED BY <2>1, <2>2
<1>7. NoneForgotten'
  <2>. SUFFICES ASSUME NEW c \in Dropped(crash_states[current]), Fails(cut \ {c})
                PROVE  c \in Found' \/ Untried(c)'
    BY <1>1, <1>2 DEF NoneForgotten, Dropped
  <2>1. c \in Found \/ Untried(c)
    BY <1>1 DEF HiddenInv, NoneForgotten
  <2>. QED BY <1>5, <1>6, <2>1
<1>. QED BY <1>1, <1>3, <1>7 DEF AllTold

(* What has been found is reported, with what was reported before.         *)
LEMMA FoundIsReported ==
    ASSUME ExploreInv, ReportReorder
    PROVE  Reordered \subseteq Reordered' /\ Found \subseteq Reordered'
<1>. DEFINE found == [k \in DOMAIN real_reorder |-> <<real_reorder[k], crash_states[current].pivot>>]
<1>1. step = "aux_reorder" /\ reorder_bugs' = reorder_bugs \o found
  BY DEF ReportReorder
<1>2. reorder_bugs \in Seq(Call \X Call) /\ real_reorder \in Seq(Call)
  BY <1>1, Parts
<1>. DEFINE Pair == Call \X (Call \cup {crash_states[current].pivot})
<1>3. /\ found \in Seq(Pair) /\ Len(found) = Len(real_reorder)
      /\ \A k \in DOMAIN real_reorder : found[k][1] = real_reorder[k]
  <2>1. /\ DOMAIN real_reorder = 1 .. Len(real_reorder) /\ Len(real_reorder) \in Nat
        /\ \A k \in 1 .. Len(real_reorder) : real_reorder[k] \in Call
    BY <1>2
  <2>2. \A k \in 1 .. Len(real_reorder) :
          <<real_reorder[k], crash_states[current].pivot>> \in Pair
    BY <2>1
  <2>. HIDE DEF Pair
  <2>. QED BY <2>1, <2>2
<1>4. reorder_bugs \in Seq(Pair)
  <2>1. Call \X Call \subseteq Pair
    OBVIOUS
  <2>. HIDE DEF Pair
  <2>. QED BY <1>2, <2>1, SeqMonotonic
<1>. HIDE DEF found, Pair
<1>5. /\ Len(reorder_bugs) \in Nat /\ Len(real_reorder) \in Nat
      /\ DOMAIN reorder_bugs = 1 .. Len(reorder_bugs)
      /\ DOMAIN real_reorder = 1 .. Len(real_reorder)
      /\ DOMAIN reorder_bugs' = 1 .. Len(reorder_bugs) + Len(real_reorder)
      /\ \A k \in DOMAIN reorder_bugs : reorder_bugs'[k] = reorder_bugs[k]
      /\ \A k \in DOMAIN real_reorder : reorder_bugs'[Len(reorder_bugs) + k] = found[k]
  <2>1. /\ DOMAIN reorder_bugs = 1 .. Len(reorder_bugs) /\ Len(reorder_bugs) \in Nat
        /\ DOMAIN real_reorder = 1 .. Len(real_reorder) /\ Len(real_reorder) \in Nat
    BY <1>2
  <2>2. found \in Seq(Pair) /\ Len(found) = Len(real_reorder)
    BY <1>3
  <2>3. /\ DOMAIN (reorder_bugs \o found) = 1 .. Len(reorder_bugs) + Len(found)
        /\ \A k \in 1 .. Len(reorder_bugs) : (reorder_bugs \o found)[k] = reorder_bugs[k]
        /\ \A k \in 1 .. Len(found) :
             (reorder_bugs \o found)[Len(reorder_bugs) + k] = found[k]
    BY <1>4, <2>2
  <2>. QED BY <1>1, <2>1, <2>2, <2>3
<1>6. ASSUME NEW k \in DOMAIN reorder_bugs PROVE reorder_bugs[k][1] \in Reordered'
  <2>1. k \in DOMAIN reorder_bugs' /\ reorder_bugs'[k] = reorder_bugs[k]
    BY <1>5
  <2>. QED BY <2>1 DEF Reordered
<1>7. ASSUME NEW k \in DOMAIN real_reorder PROVE real_reorder[k] \in Reordered'
  <2>1. Len(reorder_bugs) + k \in DOMAIN reorder_bugs'
    BY <1>5
  <2>2. reorder_bugs'[Len(reorder_bugs) + k][1] = real_reorder[k]
    BY <1>3, <1>5
  <2>. QED BY <2>1, <2>2 DEF Reordered
<1>. QED BY <1>6, <1>7 DEF Reordered, Found

LEMMA ReportReorderHidden ==
    ASSUME HiddenInv, ReportReorder
    PROVE  PassedExplained' /\ NoneForgotten' /\ AllTold'
<1>1. /\ step = "aux_reorder" /\ aux_calls = << >> /\ step' = "next"
      /\ UNCHANGED genvars /\ vulnerabilities' = vulnerabilities /\ order' = order
      /\ rest' = rest
  BY DEF ReportReorder
<1>3. Reordered \subseteq Reordered' /\ Found \subseteq Reordered'
  BY FoundIsReported DEF HiddenInv, GroupInv
<1>4. /\ live' = live /\ crash_states' = crash_states
      /\ \A i : Concerned(i)' <=> Concerned(i)
      /\ \A i : Harmless(i)' <=> Harmless(i)
      /\ \A i : Explained(i) => Explained(i)'
  BY <1>1, <1>3, StatesKept
<1>5. Explained(current)'
  <2>1. CASE Harmless(current)
    BY <1>1, <1>4, <2>1 DEF Explained, ReportReorder
  <2>2. CASE ~ Harmless(current)
    <3>1. PICK c \in Dropped(crash_states[current]) : Fails(crash_states[current].base \ {c})
      BY <2>2 DEF Harmless
    <3>2. c \in Found
      <4>1. ~ Untried(c)
        BY <1>1 DEF Untried
      <4>. QED BY <1>1, <3>1, <4>1 DEF HiddenInv, NoneForgotten
    <3>3. current' = current
      BY DEF ReportReorder
    <3>. QED BY <1>3, <1>4, <3>1, <3>2, <3>3 DEF Explained, Dropped
  <2>. QED BY <2>1, <2>2
<1>6. \A i : Ahead(i) => Ahead(i)'
  BY <1>1 DEF Ahead
<1>7. PassedExplained'
  <2>1. current' = current
    BY DEF ReportReorder
  <2>. QED BY <1>1, <1>4, <1>5, <1>6, <2>1 DEF HiddenInv, PassedExplained
<1>. QED BY <1>1, <1>7 DEF NoneForgotten, AllTold

(* The filter of the report moves a call from one list to the other.       *)
LEMMA ReportHidden ==
    ASSUME HiddenInv, Report PROVE PassedExplained' /\ NoneForgotten' /\ AllTold'
<1>. DEFINE kept == {k \in DOMAIN reorder_bugs : reorder_bugs[k][1] \notin AtomicCalls}
<1>1. /\ step = "next" /\ rest = {} /\ step' = "reported"
      /\ UNCHANGED genvars /\ vulnerabilities' = vulnerabilities /\ atomic_bugs' = atomic_bugs
      /\ reorder_bugs' = [k \in kept |-> reorder_bugs[k]]
  BY DEF Report
<1>2. /\ live' = live /\ crash_states' = crash_states
      /\ \A i : Concerned(i)' <=> Concerned(i)
      /\ \A i : Harmless(i)' <=> Harmless(i)
  BY <1>1, StatesKept
<1>3. Reordered \subseteq Reordered' \cup AtomicCalls' /\ AtomicCalls' = AtomicCalls
  BY <1>1 DEF Reordered, AtomicCalls
<1>4. ASSUME NEW i \in live, Concerned(i)
      PROVE  \/ Dropped(crash_states[i]) \cap (Reordered' \cup AtomicCalls') # {}
             \/ Harmless(i)
  <2>1. ~ Ahead(i)
    BY <1>1 DEF Ahead
  <2>2. Explained(i)
    BY <1>1, <1>4, <2>1 DEF HiddenInv, PassedExplained
  <2>. QED BY <1>3, <2>2 DEF Explained
<1>5. AllTold'
  BY <1>2, <1>4 DEF AllTold, Told, Dropped
<1>. QED BY <1>1, <1>5 DEF PassedExplained, NoneForgotten

(* The groups of calls are none of the reordered states' concern.          *)
LEMMA AtomicHidden ==
    ASSUME HiddenInv, AuxAtomic \/ ReportAtomic
    PROVE  PassedExplained' /\ NoneForgotten' /\ AllTold'
<1>1. /\ step = "aux_atomic" /\ step' \in {"next", "aux_atomic"}
      /\ rest' = rest /\ order' = order /\ reorder_bugs' = reorder_bugs
      /\ UNCHANGED genvars /\ vulnerabilities' = vulnerabilities
  BY DEF AuxAtomic, ReportAtomic, results
<1>2. /\ live' = live /\ \A i : Concerned(i)' <=> Concerned(i)
      /\ \A i : Explained(i) => Explained(i)'
  <2>1. Reordered' = Reordered
    BY <1>1 DEF Reordered
  <2>. QED BY <1>1, <2>1, StatesKept
<1>3. \A i : Ahead(i) => Ahead(i)'
  BY <1>1 DEF Ahead
<1>4. PassedExplained'
  BY <1>1, <1>2, <1>3 DEF HiddenInv, PassedExplained
<1>. QED BY <1>1, <1>4 DEF NoneForgotten, AllTold

LEMMA StutterHidden ==
    ASSUME HiddenInv, UNCHANGED allvars
    PROVE  PassedExplained' /\ NoneForgotten' /\ AllTold'
<1>1. /\ step' = step /\ rest' = rest /\ order' = order /\ reorder_bugs' = reorder_bugs
      /\ current' = current /\ aux_calls' = aux_calls /\ real_reorder' = real_reorder
      /\ atomic_bugs' = atomic_bugs
      /\ UNCHANGED genvars /\ vulnerabilities' = vulnerabilities
  BY DEF allvars, explorevars, results
<1>2. /\ live' = live /\ crash_states' = crash_states
      /\ \A S : Fails(S)' <=> Fails(S)
      /\ \A i : Concerned(i)' <=> Concerned(i)
      /\ \A i : Harmless(i)' <=> Harmless(i)
      /\ Reordered' = Reordered /\ AtomicCalls' = AtomicCalls
      /\ \A i : Explained(i) => Explained(i)'
  <2>1. Reordered' = Reordered /\ AtomicCalls' = AtomicCalls
    BY <1>1 DEF Reordered, AtomicCalls
  <2>. QED BY <1>1, <2>1, StatesKept
<1>3. PassedExplained'
  <2>1. \A i : Ahead(i) => Ahead(i)'
    BY <1>1 DEF Ahead
  <2>. QED BY <1>1, <1>2, <2>1 DEF HiddenInv, PassedExplained
<1>4. NoneForgotten'
  <2>1. \A c : (c \in Found \/ Untried(c)) => (c \in Found \/ Untried(c))'
    BY <1>1 DEF Found, Untried
  <2>. QED BY <1>1, <1>2, <2>1 DEF HiddenInv, NoneForgotten, Dropped
<1>5. AllTold'
  <2>1. AllTold
    BY DEF HiddenInv
  <2>. QED BY <1>1, <1>2, <2>1 DEF AllTold, Told, Dropped
<1>. QED BY <1>3, <1>4, <1>5

LEMMA HiddenInvHolds == ExploreSpec => []HiddenInv
<1>1. ExploreInit => HiddenInv
  <2>. SUFFICES ASSUME ExploreInit PROVE HiddenInv
    OBVIOUS
  <2>1. GroupInv
    BY InitGroupInv
  <2>2. step = "generate"
    BY DEF ExploreInit
  <2>. QED BY <2>1, <2>2 DEF HiddenInv, PassedExplained, NoneForgotten, AllTold
<1>2. HiddenInv /\ [ExploreNext]_allvars => HiddenInv'
  <2>. SUFFICES ASSUME HiddenInv, [ExploreNext]_allvars PROVE HiddenInv'
    OBVIOUS
  <2>1. GroupInv' /\ ExploreInv
    <3>1. GroupInv
      BY DEF HiddenInv
    <3>2. GroupInv'
      BY <3>1, GroupInvNext
    <3>. QED BY <3>1, <3>2 DEF GroupInv
  <2>2. PassedExplained' /\ NoneForgotten' /\ AllTold'
    BY GenerateHidden, VisitHidden, AuxReorderHidden, ReportReorderHidden, ReportHidden,
       AtomicHidden, StutterHidden, <2>1 DEF ExploreNext
  <2>. QED BY <2>1, <2>2 DEF HiddenInv
<1>. QED BY <1>1, <1>2, PTL DEF ExploreSpec, allvars

-----------------------------------------------------------------------------
(* The removal of duplicates has kept states that list a lost call once.   *)
ScanInv == DupInv /\ Tried /\ Listed /\ LightInv

LEMMA ScanInvInit == Init => ScanInv
<1>. SUFFICES ASSUME Init PROVE ScanInv
  OBVIOUS
<1>1. DupInv /\ Tried /\ Listed
  BY DupInit, InitTried, InitListed
<1>2. LightInv
  BY DEF Init, LightInv
<1>. QED BY <1>1, <1>2 DEF ScanInv

LEMMA ScanInvNext == ScanInv /\ [Next]_genvars => ScanInv'
<1>. SUFFICES ASSUME ScanInv, [Next]_genvars PROVE ScanInv'
  OBVIOUS
<1>1. DupInv /\ IInv /\ Tried /\ Listed /\ LightInv
  BY DEF ScanInv, DupInv
<1>2. DupInv'
  BY <1>1, DupNext
<1>3. Tried' /\ Listed'
  BY <1>1, VisitFrontierTried, TryVictimsTried, RemovalTried,
     VisitFrontierListed, TryVictimsListed, RemovalListed DEF Next
<1>4. LightInv'
  BY <1>1, <1>2, LightNext
<1>. QED BY <1>2, <1>3, <1>4 DEF ScanInv

(* No set of the list shares a call with another.                          *)
Disjoint(q) == \A k, l \in DOMAIN q : k # l => q[k] \cap q[l] = {}

(* What has been reported, what has been found to be reported and what is  *)
(* still to be tried have no call in common.                               *)
NoneTwice ==
    /\ \A k, l \in DOMAIN reorder_bugs : reorder_bugs[k][1] = reorder_bugs[l][1] => k = l
    /\ step = "aux_reorder" =>
         /\ Distinct(real_reorder) /\ Disjoint(aux_calls)
         /\ Found \cap Reordered = {}
         /\ \A c : Untried(c) => c \notin Found \cup Reordered

OnceInv ==
    /\ GroupInv /\ ScanInv
    /\ step # "generate" => phase = "explore"
    /\ Pruning /\ Forward => NoneTwice

(* The sets of calls still to be tried after the first call of the first.  *)
OneLess(q, call) ==
    LET left == Head(q) \ {call}
    IN  IF left = {} THEN Tail(q) ELSE << left >> \o Tail(q)

LEMMA OneTried ==
    ASSUME NEW q \in Seq(SUBSET Call), q # << >>, Disjoint(q), NEW call \in Head(q)
    PROVE  /\ Disjoint(OneLess(q, call))
           /\ \A k \in DOMAIN OneLess(q, call) : \A c \in OneLess(q, call)[k] :
                c # call /\ \E j \in DOMAIN q : c \in q[j]
<1>. DEFINE left == Head(q) \ {call}
            r == OneLess(q, call)
<1>1. /\ Len(q) \in Nat /\ DOMAIN q = 1 .. Len(q) /\ 1 \in DOMAIN q /\ Head(q) = q[1]
      /\ Tail(q) \in Seq(SUBSET Call) /\ DOMAIN Tail(q) = 1 .. Len(q) - 1
      /\ Len(Tail(q)) = Len(q) - 1 /\ Head(q) \in SUBSET Call
      /\ \A k \in 1 .. Len(q) - 1 : Tail(q)[k] = q[k + 1]
  OBVIOUS
<1>2. \A k \in DOMAIN q : call \in q[k] => k = 1
  BY <1>1 DEF Disjoint
<1>3. CASE left = {}
  <2>1. r = Tail(q)
    BY <1>3 DEF OneLess
  <2>. HIDE DEF r
  <2>2. \A k \in DOMAIN r : k \in Nat /\ k + 1 \in DOMAIN q /\ k + 1 # 1 /\ r[k] = q[k + 1]
    BY <1>1, <2>1
  <2>3. Disjoint(r)
    <3>. SUFFICES ASSUME NEW k \in DOMAIN r, NEW l \in DOMAIN r, k # l
                  PROVE  r[k] \cap r[l] = {}
      BY DEF Disjoint
    <3>1. k + 1 # l + 1
      BY <2>2
    <3>. QED BY <2>2, <3>1 DEF Disjoint
  <2>4. \A k \in DOMAIN r : call \notin r[k]
    BY <1>2, <2>2
  <2>. QED BY <2>2, <2>3, <2>4 DEF r
<1>4. CASE left # {}
  <2>1. r = << left >> \o Tail(q)
    BY <1>4 DEF OneLess
  <2>. HIDE DEF r
  <2>2. left \in SUBSET Call
    BY <1>1
  <2>. HIDE DEF left
  <2>3. << left >> \in Seq(SUBSET Call) /\ Len(<< left >>) = 1 /\ << left >>[1] = left
    BY <2>2
  <2>4. /\ Len(r) = 1 + Len(Tail(q)) /\ r \in Seq(SUBSET Call)
        /\ \A k \in 1 .. 1 + Len(Tail(q)) :
             r[k] = IF k <= 1 THEN << left >>[k] ELSE Tail(q)[k - 1]
    BY <1>1, <2>1, <2>3, ConcatProperties
  <2>5. DOMAIN r = 1 .. Len(q) /\ 1 \in 1 .. 1 + Len(Tail(q))
    BY <1>1, <2>4
  <2>6. r[1] = left
    BY <2>3, <2>4, <2>5
  <2>7. ASSUME NEW k \in DOMAIN r, k # 1 PROVE r[k] = q[k]
    <3>1. k \in 1 .. Len(q) /\ ~ (k <= 1) /\ k - 1 \in 1 .. Len(q) - 1 /\ k - 1 + 1 = k
      BY <1>1, <2>5, <2>7
    <3>2. k \in 1 .. 1 + Len(Tail(q))
      BY <1>1, <3>1
    <3>3. r[k] = Tail(q)[k - 1]
      BY <2>4, <3>1, <3>2
    <3>. QED BY <1>1, <3>1, <3>3
  <2>8. \A k \in DOMAIN r : k \in DOMAIN q /\ r[k] \subseteq q[k]
    BY <1>1, <2>5, <2>6, <2>7 DEF left
  <2>9. Disjoint(r)
    BY <2>8 DEF Disjoint
  <2>10. \A k \in DOMAIN r : call \notin r[k]
    BY <1>2, <2>6, <2>7, <2>8 DEF left
  <2>. QED BY <2>8, <2>9, <2>10 DEF r
<1>. QED BY <1>3, <1>4

(* A state the pruning lets through has lost no call reported before, and  *)
(* lists each of its lost calls once.                                      *)
LEMMA ExploreReorderOnce ==
    ASSUME OnceInv, ExploreReorder, Pruning, Forward PROVE NoneTwice'
<1>1. /\ step = "next" /\ rest # {} /\ HasReorder(crash_states[NextState])
      /\ ~ StatePruned(crash_states[NextState])
      /\ reorder_bugs' = reorder_bugs /\ real_reorder' = real_reorder
  BY DEF ExploreReorder, results
<1>2. NoneTwice /\ ExploreInv /\ phase = "explore" /\ ScanInv
  BY <1>1 DEF OnceInv, GroupInv
<1>3. real_reorder = << >>
  BY <1>1, <1>2, Parts DEF AuxState
<1>4. NextState \in live
  BY <1>1, <1>2, NextIsLive
<1>5. ListsOnce(crash_states[NextState])
  BY <1>1, <1>2, <1>4, LiveListOnce DEF ScanInv
<1>6. Dropped(crash_states[NextState]) \cap Reordered = {}
  BY <1>1 DEF StatePruned
<1>7. Reordered' = Reordered /\ Found' = {}
  BY <1>1, <1>3 DEF Reordered, Found
<1>8. CASE step' = "aux_reorder"
  <2>1. aux_calls' = crash_states[NextState].reorder
    BY <1>1, <1>8 DEF ExploreReorder
  <2>2. Disjoint(aux_calls')
    BY <1>5, <2>1 DEF ListsOnce, Disjoint
  <2>3. \A c : Untried(c)' => c \in Dropped(crash_states[NextState])
    BY <2>1 DEF Untried, Dropped
  <2>4. Distinct(real_reorder')
    BY <1>1, <1>3 DEF Distinct
  <2>. QED BY <1>1, <1>2, <1>6, <1>7, <2>2, <2>3, <2>4 DEF NoneTwice
<1>9. CASE step' # "aux_reorder"
  BY <1>1, <1>2, <1>9 DEF NoneTwice
<1>. QED BY <1>8, <1>9

LEMMA AuxReorderOnce ==
    ASSUME OnceInv, AuxReorder, NoneTwice PROVE NoneTwice'
<1>. DEFINE call == Min(Head(aux_calls))
            Some == (SUBSET Call) \ {{}}
<1>1. /\ step = "aux_reorder" /\ aux_calls # << >> /\ reorder_bugs' = reorder_bugs
      /\ aux_calls' = OneLess(aux_calls, call)
      /\ \/ real_reorder' = Append(real_reorder, call)
         \/ real_reorder' = real_reorder
  BY DEF AuxReorder, OneLess, results
<1>2. ExploreInv
  BY DEF OnceInv, GroupInv
<1>3. /\ aux_calls \in Seq(Some) /\ aux_calls \in Seq(SUBSET Call) /\ real_reorder \in Seq(Call)
  BY <1>1, <1>2, Parts DEF AuxState
<1>4. Head(aux_calls) \in Some
  <2>. HIDE DEF Some
  <2>. QED BY <1>1, <1>3
<1>5. call \in Head(aux_calls) /\ call \in Call
  <2>1. Head(aux_calls) \in SUBSET Nat /\ Head(aux_calls) # {} /\ Head(aux_calls) \in SUBSET Call
    BY <1>4 DEF Call
  <2>. QED BY <2>1, MinIsLeast
<1>. HIDE DEF call, Some
<1>6. /\ Distinct(real_reorder) /\ Disjoint(aux_calls) /\ Found \cap Reordered = {}
      /\ \A c : Untried(c) => c \notin Found \cup Reordered
  BY <1>1 DEF NoneTwice
<1>7. /\ Disjoint(aux_calls')
      /\ \A k \in DOMAIN aux_calls' : \A c \in aux_calls'[k] :
           c # call /\ \E j \in DOMAIN aux_calls : c \in aux_calls[j]
  <2>1. /\ Disjoint(OneLess(aux_calls, call))
        /\ \A k \in DOMAIN OneLess(aux_calls, call) : \A c \in OneLess(aux_calls, call)[k] :
             c # call /\ \E j \in DOMAIN aux_calls : c \in aux_calls[j]
    BY <1>1, <1>3, <1>5, <1>6, OneTried
  <2>. QED BY <1>1, <2>1
<1>8. \A c : Untried(c)' => c # call /\ Untried(c)
  BY <1>7 DEF Untried
<1>9. call \notin Found \cup Reordered
  <2>1. Head(aux_calls) = aux_calls[1] /\ 1 \in DOMAIN aux_calls
    BY <1>1, <1>3
  <2>. QED BY <1>5, <1>6, <2>1 DEF Untried
<1>10. Distinct(real_reorder') /\ Found' \subseteq Found \cup {call}
  <2>1. CASE real_reorder' = real_reorder
    BY <1>6, <2>1 DEF Found
  <2>2. CASE real_reorder' = Append(real_reorder, call)
    <3>1. /\ DOMAIN real_reorder = 1 .. Len(real_reorder) /\ Len(real_reorder) \in Nat
          /\ DOMAIN real_reorder' = DOMAIN real_reorder \cup {Len(real_reorder) + 1}
          /\ \A k \in DOMAIN real_reorder : real_reorder'[k] = real_reorder[k]
          /\ real_reorder'[Len(real_reorder) + 1] = call
      BY <1>3, <1>5, <2>2
    <3>2. \A k \in DOMAIN real_reorder : real_reorder[k] # call
      BY <1>9 DEF Found
    <3>3. Distinct(real_reorder')
      BY <1>6, <3>1, <3>2 DEF Distinct
    <3>4. Found' \subseteq Found \cup {call}
      BY <3>1 DEF Found
    <3>. QED BY <3>3, <3>4
  <2>. QED BY <1>1, <2>1, <2>2
<1>11. Reordered' = Reordered
  BY <1>1 DEF Reordered
<1>. QED BY <1>1, <1>6, <1>7, <1>8, <1>9, <1>10, <1>11 DEF NoneTwice

LEMMA ReportReorderOnce ==
    ASSUME OnceInv, ReportReorder, NoneTwice PROVE NoneTwice'
<1>. DEFINE pivot == crash_states[current].pivot
            found == [k \in DOMAIN real_reorder |-> <<real_reorder[k], pivot>>]
            n == Len(reorder_bugs)
<1>1. /\ step = "aux_reorder" /\ step' = "next" /\ reorder_bugs' = reorder_bugs \o found
  BY DEF ReportReorder
<1>2. /\ reorder_bugs \in Seq(Call \X Call) /\ real_reorder \in Seq(Call)
      /\ Distinct(real_reorder) /\ Found \cap Reordered = {}
  BY <1>1, Parts DEF OnceInv, GroupInv, NoneTwice
<1>3. /\ found \in Seq(Call \X {pivot}) /\ Len(found) = Len(real_reorder)
      /\ \A k \in 1 .. Len(real_reorder) : found[k][1] = real_reorder[k]
  <2>1. DOMAIN real_reorder = 1 .. Len(real_reorder) /\ Len(real_reorder) \in Nat
    BY <1>2
  <2>. HIDE DEF pivot
  <2>2. \A k \in 1 .. Len(real_reorder) : <<real_reorder[k], pivot>> \in Call \X {pivot}
    BY <1>2, <2>1
  <2>. QED BY <2>1, <2>2
<1>. HIDE DEF found, pivot
<1>4. /\ n \in Nat /\ Len(real_reorder) \in Nat
      /\ DOMAIN reorder_bugs = 1 .. n /\ DOMAIN real_reorder = 1 .. Len(real_reorder)
      /\ DOMAIN reorder_bugs' = 1 .. n + Len(real_reorder)
      /\ \A k \in 1 .. n : reorder_bugs'[k] = reorder_bugs[k]
      /\ \A k \in 1 .. Len(real_reorder) : reorder_bugs'[n + k] = found[k]
  <2>. DEFINE Pair == Call \X (Call \cup {pivot})
  <2>1. Call \X Call \subseteq Pair /\ Call \X {pivot} \subseteq Pair
    OBVIOUS
  <2>. HIDE DEF Pair
  <2>2. reorder_bugs \in Seq(Pair) /\ found \in Seq(Pair)
    BY <1>2, <1>3, <2>1, SeqMonotonic
  <2>3. /\ DOMAIN (reorder_bugs \o found) = 1 .. Len(reorder_bugs) + Len(found)
        /\ \A k \in 1 .. Len(reorder_bugs) : (reorder_bugs \o found)[k] = reorder_bugs[k]
        /\ \A k \in 1 .. Len(found) :
             (reorder_bugs \o found)[Len(reorder_bugs) + k] = found[k]
    BY <2>2
  <2>. QED BY <1>1, <1>2, <1>3, <2>3
<1>. HIDE DEF n
<1>5. \A k \in 1 .. n : reorder_bugs'[k][1] \in Reordered
  BY <1>4 DEF Reordered
<1>6. ASSUME NEW k \in DOMAIN reorder_bugs', k \notin 1 .. n
      PROVE  /\ k - n \in 1 .. Len(real_reorder)
             /\ reorder_bugs'[k][1] = real_reorder[k - n]
             /\ reorder_bugs'[k][1] \in Found
  <2>1. k - n \in 1 .. Len(real_reorder) /\ n + (k - n) = k
    BY <1>4, <1>6
  <2>. DEFINE l == k - n
  <2>. HIDE DEF l
  <2>2. found[l][1] = real_reorder[l]
    BY <1>3, <2>1 DEF l
  <2>3. reorder_bugs'[n + l] = found[l]
    BY <1>4, <2>1 DEF l
  <2>4. n + l = k
    BY <2>1 DEF l
  <2>5. reorder_bugs'[k][1] = real_reorder[k - n]
    BY <2>2, <2>3, <2>4 DEF l
  <2>6. real_reorder[k - n] \in Found
    BY <1>4, <2>1 DEF Found
  <2>. QED BY <2>1, <2>5, <2>6
<1>7. ASSUME NEW k \in DOMAIN reorder_bugs', NEW l \in DOMAIN reorder_bugs',
             reorder_bugs'[k][1] = reorder_bugs'[l][1]
      PROVE  k = l
  <2>1. CASE k \in 1 .. n /\ l \in 1 .. n
    BY <1>4, <1>7, <2>1 DEF NoneTwice
  <2>2. CASE k \notin 1 .. n /\ l \notin 1 .. n
    <3>1. k - n = l - n
      BY <1>2, <1>4, <1>6, <1>7, <2>2 DEF Distinct
    <3>2. k \in Int /\ l \in Int
      BY <1>4
    <3>. QED BY <1>4, <3>1, <3>2
  <2>3. CASE (k \in 1 .. n) # (l \in 1 .. n)
    BY <1>2, <1>5, <1>6, <1>7, <2>3
  <2>. QED BY <2>1, <2>2, <2>3
<1>. QED BY <1>1, <1>7 DEF NoneTwice

(* The report only takes entries out of the list, the rest leaves it alone.*)
LEMMA OthersOnce ==
    ASSUME NoneTwice,
           Generate \/ ExploreCut \/ SkipPruned \/ AuxAtomic \/ ReportAtomic \/ Report
             \/ UNCHANGED allvars
    PROVE  NoneTwice'
<1>1. CASE Report
  <2>. DEFINE kept == {k \in DOMAIN reorder_bugs : reorder_bugs[k][1] \notin AtomicCalls}
  <2>1. reorder_bugs' = [k \in kept |-> reorder_bugs[k]] /\ step' = "reported"
    BY <1>1 DEF Report
  <2>. QED BY <2>1 DEF NoneTwice
<1>2. CASE Generate \/ ExploreCut \/ SkipPruned \/ AuxAtomic \/ ReportAtomic
  <2>1. reorder_bugs' = reorder_bugs /\ step' # "aux_reorder"
    BY <1>2 DEF Generate, ExploreCut, SkipPruned, AuxAtomic, ReportAtomic, results
  <2>. QED BY <2>1 DEF NoneTwice
<1>3. CASE UNCHANGED allvars
  <2>1. /\ reorder_bugs' = reorder_bugs /\ step' = step /\ real_reorder' = real_reorder
        /\ aux_calls' = aux_calls
    BY <1>3 DEF allvars, explorevars, results
  <2>. QED BY <2>1 DEF NoneTwice, Found, Reordered, Untried
<1>. QED BY <1>1, <1>2, <1>3

LEMMA OnceInvNext == OnceInv /\ [ExploreNext]_allvars => OnceInv'
<1>. SUFFICES ASSUME OnceInv, [ExploreNext]_allvars PROVE OnceInv'
  OBVIOUS
<1>1. GroupInv /\ ScanInv
  BY DEF OnceInv
<1>2. GroupInv'
  BY <1>1, GroupInvNext
<1>3. ScanInv'
  BY <1>1, GeneratorStep, ScanInvNext
<1>4. step' # "generate" => phase' = "explore"
  <2>1. CASE Generate
    BY <2>1 DEF Generate
  <2>2. CASE /\ [ExploreNext]_allvars /\ ~ Generate
    <3>1. phase' = phase /\ (step' = step \/ step # "generate")
      BY <2>2 DEF ExploreNext, ExploreCut, SkipPruned, ExploreReorder, AuxAtomic, ReportAtomic,
                  AuxReorder, ReportReorder, Report, allvars, explorevars, genvars
    <3>. QED BY <3>1 DEF OnceInv
  <2>. QED BY <2>1, <2>2
<1>5. Pruning /\ Forward' => NoneTwice'
  <2>. SUFFICES ASSUME Pruning, Forward' PROVE NoneTwice'
    OBVIOUS
  <2>1. Forward
    <3>1. trace' = trace
      BY GeneratorStep DEF Next, VisitFrontier, TryVictims, StaticPrune, ScanDuplicates,
                           RemoveDuplicates, genvars, inputs
    <3>. QED BY <3>1 DEF Forward
  <2>2. NoneTwice
    BY <2>1 DEF OnceInv
  <2>. QED BY <2>1, <2>2, ExploreReorderOnce, AuxReorderOnce, ReportReorderOnce, OthersOnce
           DEF ExploreNext
<1>. QED BY <1>2, <1>3, <1>4, <1>5 DEF OnceInv

LEMMA OnceInvHolds == ExploreSpec => []OnceInv
<1>1. ExploreInit => OnceInv
  <2>. SUFFICES ASSUME ExploreInit PROVE OnceInv
    OBVIOUS
  <2>1. GroupInv /\ ScanInv
    BY InitGroupInv, ScanInvInit DEF ExploreInit
  <2>. QED BY <2>1 DEF ExploreInit, OnceInv, NoneTwice
<1>. QED BY <1>1, OnceInvNext, PTL DEF ExploreSpec, allvars

(* With pruning on, and messages that are recorded after what caused them, *)
(* no call is reported as reordered twice, in whatever order the states    *)
(* are explored: a state in which two victims drag the same call along is  *)
(* the duplicate of one that loses fewer calls, which is kept instead of   *)
(* it, and a state that has lost a reported call is skipped (lines 145-165,*)
(* 252).                                                                   *)
THEOREM CallsReportedOnce == ExploreSpec => [](Forward => EachCallReportedOnce)
<1>1. OnceInv => (Forward => EachCallReportedOnce)
  BY DEF OnceInv, NoneTwice, EachCallReportedOnce
<1>. QED BY <1>1, OnceInvHolds, PTL

-----------------------------------------------------------------------------
(* What is known of the list whatever the order of exploration.            *)

(* The verdicts have nothing to do with the fsyncs.                        *)
NoSync == \A v \in vulnerabilities : {v[1], v[2]} \cap Fsyncs(trace) = {}

ListInv == Sorted /\ CutsLose /\ NoSync

LEMMA ListInit == ExploreInit => ListInv
<1>. SUFFICES ASSUME ExploreInit PROVE ListInv
  OBVIOUS
<1>1. Sorted
  BY InitSorted DEF ExploreInit
<1>2. CutsLose
  BY DEF ExploreInit, Init, CutsLose
<1>3. NoSync
  BY DEF ExploreInit, NoSync
<1>. QED BY <1>1, <1>2, <1>3 DEF ListInv

LEMMA ListNext == ASSUME OnceInv, ListInv, [ExploreNext]_allvars PROVE ListInv'
<1>1. [Next]_genvars
  BY GeneratorStep
<1>2. DupInv /\ IInv /\ Listed /\ Sorted /\ CutsLose
  BY DEF OnceInv, ScanInv, DupInv, ListInv
<1>3. Sorted'
  BY <1>1, <1>2, VisitFrontierSorted, TryVictimsSorted, RemovalSorted DEF Next
<1>4. CutsLose'
  BY <1>1, <1>2, CutsLoseNext
<1>5. NoSync'
  <2>1. trace' = trace
    BY <1>1 DEF Next, VisitFrontier, TryVictims, StaticPrune, ScanDuplicates, RemoveDuplicates,
                genvars, inputs
  <2>2. vulnerabilities' = vulnerabilities
    BY DEF ExploreNext, Generate, ExploreCut, SkipPruned, ExploreReorder, AuxAtomic,
           ReportAtomic, AuxReorder, ReportReorder, Report, allvars, explorevars
  <2>. QED BY <2>1, <2>2 DEF ListInv, NoSync, Fsyncs
<1>. QED BY <1>3, <1>4, <1>5 DEF ListInv

(* When the exploration has begun the list has been reduced.                *)
LEMMA ReducedHolds == ASSUME OnceInv, ListInv, step # "generate" PROVE Reduced
BY DEF OnceInv, ScanInv, ListInv, Reduced

-----------------------------------------------------------------------------
(* A cause that can be lost is not hidden.                                 *)

(* A state loses no more calls than it lists.                              *)
LEMMA DroppedAtMost ==
    ASSUME Reduced, NEW u \in DOMAIN crash_states, HasReorder(crash_states[u])
    PROVE  LET st == crash_states[u]
           IN  /\ IsFiniteSet(Dropped(st)) /\ Cardinality(Dropped(st)) \in Nat
               /\ NumDropped(st) \in Nat /\ Cardinality(Dropped(st)) <= NumDropped(st)
<1>. DEFINE st == crash_states[u]
            all == st.base
            D(x) == DependentCalls(pbgraph, all, Max(all), x)
<1>1. IInv /\ Tried
  BY ReducedFacts
<1>2. all \in SUBSET Call /\ all # {} /\ st.pivot = Max(all)
  BY <1>1, LostState
<1>3. PICK v, w \in (all \ {st.pivot}) \ Fsyncs(trace) : st = ReorderState(pbgraph, all, {v, w})
  BY <1>1, LostState
<1>4. v \in Call /\ w \in Call
  BY <1>2
<1>. DEFINE dropped == NumDropped(ReorderState(pbgraph, all, {v, w}))
<1>5. /\ IsFiniteSet(D(v)) /\ Cardinality(D(v)) \in Nat
      /\ IsFiniteSet(D(w)) /\ Cardinality(D(w)) \in Nat
      /\ dropped = IF v = w THEN Cardinality(D(v)) ELSE Cardinality(D(v)) + Cardinality(D(w))
  <2>1. Counted(pbgraph, all, v, w)
    BY <1>2, <1>4, DroppedCounts
  <2>2. D(v) \in SUBSET Call /\ D(w) \in SUBSET Call
    BY <1>2, <1>4 DEF DependentCalls, Dependents
  <2>3. dropped = IF v = w THEN Cardinality(D(v)) ELSE Cardinality(D(v)) + Cardinality(D(w))
    BY <2>1 DEF Counted
  <2>. HIDE DEF D, dropped
  <2>. QED BY <2>2, <2>3, CallsFinite
<1>6. dropped = NumDropped(st)
  BY <1>3
<1>7. Dropped(st) = D(v) \cup D(w)
  <2>1. st.reorder = Reorder(pbgraph, all, {v, w})
    BY <1>3 DEF ReorderState
  <2>2. IF v = w THEN st.reorder = << D(v) >>
        ELSE st.reorder = << D(v), D(w) >> \/ st.reorder = << D(w), D(v) >>
    <3>1. IF v = w THEN Reorder(pbgraph, all, {v, w}) = << D(v) >>
          ELSE \/ Reorder(pbgraph, all, {v, w}) = << D(v), D(w) >>
               \/ Reorder(pbgraph, all, {v, w}) = << D(w), D(v) >>
      <4>. HIDE DEF all
      <4>. QED BY ONLY <1>4, ReorderOf
    <3>. HIDE DEF D
    <3>. QED BY <2>1, <3>1
  <2>. HIDE DEF D, all, st
  <2>3. \A c : c \in Dropped(st) <=> \E k \in DOMAIN st.reorder : c \in st.reorder[k]
    BY DEF Dropped
  <2>4. \A c : c \in Dropped(st) <=> c \in D(v) \/ c \in D(w)
    BY <2>2, <2>3
  <2>. QED BY <2>4
<1>. HIDE DEF D, dropped, st
<1>8. /\ IsFiniteSet(D(v) \cup D(w)) /\ Cardinality(D(v) \cup D(w)) \in Nat
      /\ Cardinality(D(v) \cup D(w)) <= dropped
  <2>1. IsFiniteSet(D(v) \cup D(w)) /\ IsFiniteSet(D(v) \cap D(w))
    BY <1>5, FS_Union, FS_Intersection
  <2>2. Cardinality(D(v) \cup D(w)) \in Nat /\ Cardinality(D(v) \cap D(w)) \in Nat
    BY <2>1, FS_CardinalityType
  <2>3. Cardinality(D(v) \cup D(w)) =
          Cardinality(D(v)) + Cardinality(D(w)) - Cardinality(D(v) \cap D(w))
    BY <1>5, FS_Union
  <2>4. CASE v = w
    <3>1. D(v) \cup D(w) = D(v) /\ dropped = Cardinality(D(v))
      BY <1>5, <2>4
    <3>2. dropped = Cardinality(D(v) \cup D(w))
      BY <3>1
    <3>. QED BY <2>1, <2>2, <3>2
  <2>5. CASE v # w
    <3>1. dropped = Cardinality(D(v)) + Cardinality(D(w))
      BY <1>5, <2>5
    <3>2. \A m, n, k \in Nat : m + n - k <= m + n
      OBVIOUS
    <3>3. Cardinality(D(v) \cup D(w)) <= dropped
      BY <1>5, <2>2, <2>3, <3>1, <3>2
    <3>. QED BY <2>1, <2>2, <3>3
  <2>. QED BY <2>4, <2>5
<1>9. dropped \in Nat
  BY <1>5
<1>. QED BY <1>6, <1>7, <1>8, <1>9 DEF st

(* What a call needs is a cut that ends with it.                           *)
LEMMA NeededIsCut ==
    ASSUME Reduced, Forward, NEW b \in Call
    PROVE  /\ Needed(b) \in DownSets(trace) /\ Needed(b) \in SUBSET Call
           /\ b \in Needed(b) /\ Max(Needed(b)) = b
           /\ \A S \in DownSets(trace) : b \in S => Needed(b) \subseteq S
<1>1. trace \in Traces /\ hbgraph = HappensBefore(trace)
  BY ReducedFacts
<1>2. Needed(b) \in SUBSET Call /\ b \in Needed(b)
  BY DEF Needed
<1>3. ASSUME NEW e \in Edges(trace), e[2] \in Needed(b) PROVE e[1] \in Needed(b)
  <2>1. e[1] \in Call /\ e[2] \in Call /\ <<e[1], e[2]>> \in HappensBefore(trace)
    BY <1>1, EdgeHappens
  <2>2. CASE e[2] = b
    BY <1>1, <2>1, <2>2 DEF Needed
  <2>3. CASE e[2] # b
    <3>1. <<e[2], b>> \in HappensBefore(trace)
      BY <1>1, <1>3, <2>3 DEF Needed
    <3>2. e[1] < e[2] /\ e[2] < b
      BY <1>1, <2>1, <3>1, HappensForward
    <3>3. \A S \in DownSets(trace) : b \in S => e[1] \in S
      BY <2>1, <3>1 DEF HappensBefore
    <3>4. e[1] # b
      BY <2>1, <3>2 DEF Call
    <3>. QED BY <1>1, <2>1, <3>3, <3>4 DEF Needed, HappensBefore
  <2>. QED BY <2>2, <2>3
<1>4. Needed(b) \in DownSets(trace)
  BY <1>2, <1>3 DEF DownSets
<1>5. \A c \in Needed(b) : c <= b
  <2>. SUFFICES ASSUME NEW c \in Needed(b), c # b PROVE c <= b
    BY DEF Call
  <2>1. c \in Call /\ <<c, b>> \in HappensBefore(trace)
    BY <1>1 DEF Needed
  <2>2. c < b
    BY <1>1, <2>1, HappensForward
  <2>. QED BY <2>1, <2>2 DEF Call
<1>6. Max(Needed(b)) = b
  BY <1>2, <1>5, EndsIn
<1>7. ASSUME NEW S \in DownSets(trace), b \in S PROVE Needed(b) \subseteq S
  BY <1>1, <1>7 DEF Needed, HappensBefore
<1>. QED BY <1>2, <1>4, <1>6, <1>7

(* A cause that can be lost from what its effect needs: the state that     *)
(* stands for that loss has lost the cause and what goes with it, no more. *)
LEMMA CauseLoss ==
    ASSUME Reduced, Forward, NEW b \in Call, MayEnd(b),
           NEW a \in Needed(b) \ {b}, a \notin Fsyncs(trace),
           CanBeLost(pbgraph, Needed(b), b, a)
    PROVE  LET lost == DependentCalls(pbgraph, Needed(b), b, a)
           IN  \E u \in live :
                  /\ HasReorder(crash_states[u]) /\ Dropped(crash_states[u]) = lost
                  /\ b \in crash_states[u].syscalls /\ crash_states[u].syscalls \subseteq Call
                  /\ crash_states[u].base \ crash_states[u].syscalls = lost
                  /\ crash_states[u].pivot = b
<1>. DEFINE C == Needed(b)
            D == DependentCalls(pbgraph, C, b, a)
            S == C \ D
<1>1. /\ IInv /\ Tried /\ Listed /\ phase # "frontiers"
      /\ trace \in Traces
      /\ live \subseteq Unpruned /\ Unpruned \subseteq DOMAIN crash_states
      /\ DOMAIN crash_states \subseteq Nat
  BY ReducedFacts
<1>2. /\ C \in DownSets(trace) /\ C \in SUBSET Call /\ b \in C /\ Max(C) = b
      /\ \A R \in DownSets(trace) : b \in R => C \subseteq R
  BY NeededIsCut
<1>. HIDE DEF C
<1>3. a \in C /\ a # b /\ a \in Call
  BY <1>2 DEF C
<1>4. D \in SUBSET Call /\ D \subseteq C /\ a \in D /\ b \notin D
  <2>1. D \subseteq C /\ a \in D
    BY <1>3 DEF DependentCalls, Dependents
  <2>2. b \notin D
    <3>1. b \in Nat /\ ~ (b < b)
      BY DEF Call
    <3>. QED BY <1>3, <3>1 DEF DependentCalls, Dependents
  <2>. HIDE DEF D
  <2>. QED BY <1>2, <2>1, <2>2
<1>5. PICK j \in DOMAIN crash_states : crash_states[j] = ReorderState(pbgraph, C, {a, a})
  <2>1. /\ C # {} /\ a \in C \ {Max(C)} /\ a \notin Fsyncs(trace)
        /\ CanBeLost(pbgraph, C, Max(C), a)
    BY <1>2, <1>3 DEF C
  <2>. QED BY <1>1, <1>2, <2>1, StateInList
<1>6. crash_states[j].syscalls = S
  <2>1. \A c : c \in ReorderState(pbgraph, C, {a, a}).syscalls <=>
                 c \in C /\ c \notin DependentCalls(pbgraph, C, Max(C), a)
    BY <1>2, <1>3, ReorderCalls
  <2>2. \A c : c \in crash_states[j].syscalls <=> c \in S
    BY <1>2, <1>5, <2>1
  <2>3. crash_states[j] \in CrashState
    BY <1>1 DEF IInv, TypeOK
  <2>4. crash_states[j].syscalls \in SUBSET Call
    BY <2>3 DEF CrashState
  <2>. HIDE DEF D
  <2>. QED BY <1>2, <2>2, <2>4
<1>7. crash_states[j].base = C /\ HasReorder(crash_states[j])
  <2>1. C # {}
    BY <1>2
  <2>. QED BY <1>2, <1>5, <2>1, ReorderFields
<1>8. NumDropped(crash_states[j]) = Cardinality(D)
  <2>. DEFINE dropped == NumDropped(ReorderState(pbgraph, C, {a, a}))
  <2>1. Counted(pbgraph, C, a, a)
    BY <1>2, <1>3, DroppedCounts
  <2>2. dropped = Cardinality(DependentCalls(pbgraph, C, Max(C), a))
    BY <2>1 DEF Counted
  <2>. QED BY <1>2, <1>5, <2>2
<1>. HIDE DEF D
<1>9. j \in Unpruned
  <2>1. S \in SUBSET Call /\ b \in S /\ \A c \in S : c <= b
    <3>1. C # {} /\ \A c \in C : c <= Max(C)
      BY <1>2, MaxIsGreatest
    <3>. QED BY <1>2, <1>4, <3>1
  <2>. HIDE DEF S
  <2>2. Max(S) = b /\ S # {}
    BY <2>1, EndsIn
  <2>. QED BY <1>1, <1>6, <2>2, EndsUnpruned
<1>10. PICK u \in live : SameAs(j, u)
  BY <1>9 DEF Reduced, DupInv
<1>. DEFINE st == crash_states[u]
<1>11. u \in Unpruned /\ u \in DOMAIN crash_states /\ st.syscalls = S /\ SameAs(u, j)
  BY <1>1, <1>6, <1>10 DEF SameAs
<1>12. HasReorder(st)
  BY <1>7, <1>9, <1>11, CutsAlone
<1>13. /\ st.base \in DownSets(trace) /\ st.base \in SUBSET Call
       /\ st.pivot \in st.syscalls /\ (\A c \in st.base : c <= st.pivot)
       /\ Dropped(st) = st.base \ st.syscalls /\ st.syscalls \subseteq st.base
  BY <1>1, <1>11, <1>12, LostState
<1>. HIDE DEF st
<1>14. C \subseteq st.base /\ b \in st.syscalls
  <2>1. b \in st.syscalls
    BY <1>2, <1>4, <1>11
  <2>2. b \in st.base
    BY <1>13, <2>1
  <2>. QED BY <1>2, <1>13, <2>1, <2>2
<1>15. st.pivot = b
  <2>1. st.pivot \in C
    BY <1>11, <1>13
  <2>2. st.pivot <= b
    <3>1. C # {} /\ \A c \in C : c <= Max(C)
      BY <1>2, MaxIsGreatest
    <3>. QED BY <1>2, <2>1, <3>1
  <2>3. b <= st.pivot
    BY <1>13, <1>14
  <2>4. st.pivot \in Nat /\ b \in Nat
    <3>1. st.pivot \in Call
      BY <1>2, <2>1
    <3>. QED BY <3>1 DEF Call
  <2>. QED BY <2>2, <2>3, <2>4
<1>16. D \subseteq Dropped(st)
  BY <1>4, <1>11, <1>13, <1>14
<1>17. Dropped(st) = D
  <2>1. CASE st.base = C
    BY <1>4, <1>11, <1>13, <2>1
  <2>2. CASE st.base # C
    <3>1. j < u
      <4>1. ASSUME u < j PROVE FALSE
        <5>1. Follows(crash_states[j], crash_states[u])
          BY <1>1, <1>11, <4>1 DEF Listed
        <5>. QED BY <1>7, <1>14, <2>2, <5>1 DEF Follows, st
      <4>2. u # j
        BY <1>7, <2>2 DEF st
      <4>3. u \in Nat /\ j \in Nat
        BY <1>1, <1>11
      <4>. QED BY <4>1, <4>2, <4>3
    <3>2. NumDropped(st) <= Cardinality(D)
      <4>1. Lightest(u)
        BY DEF Reduced, LightInv
      <4>2. NumDropped(crash_states[u]) <= NumDropped(crash_states[j])
        BY <1>7, <1>9, <1>10, <3>1, <4>1 DEF Lightest
      <4>. QED BY <1>8, <4>2 DEF st
    <3>3. /\ IsFiniteSet(Dropped(st)) /\ Cardinality(Dropped(st)) \in Nat
          /\ NumDropped(st) \in Nat /\ Cardinality(Dropped(st)) <= NumDropped(st)
      BY <1>11, <1>12, DroppedAtMost DEF st
    <3>4. IsFiniteSet(D) /\ Cardinality(D) \in Nat
      BY <1>4, CallsFinite
    <3>5. Cardinality(D) <= Cardinality(Dropped(st))
      BY <1>16, <3>3, FS_Subset
    <3>6. Cardinality(D) = Cardinality(Dropped(st))
      BY <3>2, <3>3, <3>4, <3>5
    <3>. QED BY <1>16, <3>3, <3>6, FS_Subset
  <2>. QED BY <2>1, <2>2
<1>18. st.syscalls \subseteq Call
  BY <1>13
<1>. QED BY <1>12, <1>13, <1>14, <1>15, <1>17, <1>18 DEF st, D, C

(* Whatever the traces, the vulnerabilities and the order of exploration,  *)
(* the dynamic pruning never hides the cause of a bug without naming a     *)
(* call that is lost with it: the removal of duplicates has left the state *)
(* that lost the cause and no more than goes with it, and this state is    *)
(* skipped only for one of these calls (lines 145-165, 252-273, 298-303,   *)
(* 321-335).                                                               *)
THEOREM CausesAreTold == ExploreSpec => []CausesTold
<1>1. HiddenInv /\ OnceInv /\ ListInv => CausesTold
  <2>. SUFFICES ASSUME HiddenInv, OnceInv, ListInv, step = "reported", Forward, Chunks = {},
                       NEW v \in vulnerabilities, v[1] \in Needed(v[2]) \ {v[2]},
                       CanBeLost(pbgraph, Needed(v[2]), v[2], v[1])
                PROVE  DependentCalls(pbgraph, Needed(v[2]), v[2], v[1])
                         \cap (Reordered \cup AtomicCalls) # {}
    BY DEF CausesTold
  <2>. DEFINE a == v[1]
              b == v[2]
              lost == DependentCalls(pbgraph, Needed(b), b, a)
  <2>1. Reduced
    BY ReducedHolds
  <2>2. a \in Call /\ b \in Call /\ v = <<a, b>>
    <3>1. vulnerabilities \subseteq Call \X Call
      BY DEF HiddenInv, GroupInv, ExploreInv, ExploreTypeOK
    <3>. QED BY <3>1
  <2>3. a \notin Fsyncs(trace) /\ MayEnd(b)
    <3>1. a \notin Fsyncs(trace) /\ b \notin Fsyncs(trace)
      BY DEF ListInv, NoSync
    <3>2. trace.kind[b] # "fsync" /\ trace.kind[b] # "chunk"
      BY <2>2, <3>1 DEF Fsyncs, Chunks
    <3>. QED BY <3>1, <3>2 DEF MayEnd
  <2>. HIDE DEF a, b
  <2>4. a \in Needed(b) \ {b} /\ CanBeLost(pbgraph, Needed(b), b, a)
    BY DEF a, b
  <2>5. PICK u \in live :
          /\ HasReorder(crash_states[u]) /\ Dropped(crash_states[u]) = lost
          /\ b \in crash_states[u].syscalls /\ crash_states[u].syscalls \subseteq Call
          /\ crash_states[u].base \ crash_states[u].syscalls = lost
    BY <2>1, <2>2, <2>3, <2>4, CauseLoss
  <2>6. a \in lost
    BY DEF DependentCalls
  <2>. HIDE DEF lost
  <2>7. Fails(crash_states[u].syscalls)
    <3>1. a \notin crash_states[u].syscalls
      BY <2>5, <2>6
    <3>. QED BY <2>2, <2>5, <3>1 DEF Fails
  <2>8. Told(u)
    <3>1. AllTold
      BY DEF HiddenInv
    <3>2. Concerned(u)
      BY <2>5, <2>7 DEF Concerned
    <3>. QED BY <3>1, <3>2 DEF AllTold
  <2>9. ~ Harmless(u)
    <3>1. b \in crash_states[u].base
      <4>1. u \in DOMAIN crash_states /\ IInv /\ Tried
        BY <2>1, ReducedFacts
      <4>. QED BY <2>5, <4>1, LostState
    <3>2. a # b
      BY <2>4
    <3>3. Fails(crash_states[u].base \ {a})
      BY <2>2, <3>1, <3>2 DEF Fails
    <3>. QED BY <2>5, <2>6, <3>3 DEF Harmless
  <2>. QED BY <2>5, <2>8, <2>9 DEF Told, lost, a, b
<1>2. ExploreInit => ListInv
  BY ListInit
<1>3. OnceInv /\ ListInv /\ [ExploreNext]_allvars => ListInv'
  BY ListNext
<1>. QED BY <1>1, <1>2, <1>3, HiddenInvHolds, OnceInvHolds, PTL DEF ExploreSpec, allvars

-----------------------------------------------------------------------------
(* In the order of the list, no failure is silent.                         *)
Passed == live \ rest

IsCut(i) == ~ HasReorder(crash_states[i])

ListOrder ==
    step # "generate" =>
        /\ order = [r \in live |-> r]
        /\ \A r \in rest : \A i \in live : r < i => i \in rest
        /\ step = "reported" => rest = {}
        /\ step = "aux_atomic" =>
             current \in Passed /\ \A q \in Passed : q <= current

(* Each harmful lost call of an explored state is found.                   *)
CallTold(i, c) ==
    \/ c \in Reordered
    \/ step = "aux_reorder" /\ i = current
    \/ step = "reported" /\ c \in AtomicCalls

ExploredTold ==
    step # "generate" =>
        \A i \in explored :
            (HasReorder(crash_states[i]) /\ Fails(crash_states[i].syscalls)) =>
                \A c \in Dropped(crash_states[i]) :
                    Fails(crash_states[i].base \ {c}) => CallTold(i, c)

(* A failing cut that no other follows has opened a run, ...               *)
RunOpen ==
    step # "generate" =>
        \A f \in Passed :
            (/\ IsCut(f) /\ Fails(crash_states[f].syscalls)
             /\ \A q \in Passed : IsCut(q) => ~ (f < q)) => current_atomic # << >>

(* ... and a passing cut that follows a failing one has ended it.          *)
NextCut(f, q) ==
    /\ IsCut(f) /\ IsCut(q) /\ f < q
    /\ \A r \in Passed : IsCut(r) /\ f < r => ~ (r < q)

RunsEnd ==
    step # "generate" =>
        \A f \in Passed : \A q \in Passed :
            (/\ NextCut(f, q)
             /\ Fails(crash_states[f].syscalls) /\ ~ Fails(crash_states[q].syscalls)) =>
                \/ Max(crash_states[q].syscalls) \in AtomicCalls
                \/ step = "aux_atomic" /\ current = q

RunsInv == ListOrder /\ ExploredTold /\ RunOpen /\ RunsEnd

(* The exploration starts with nothing explored, and the list in its        *)
(* order.                                                                   *)
LEMMA GenerateRuns == ASSUME ~ OptExplore, ExploreInv, Generate PROVE RunsInv'
<1>1. CASE phase' = "explore"
  <2>1. /\ order' \in Orders(crash_states, live') /\ rest' = live' /\ step' = "next"
        /\ explored' = explored /\ explored = {}
    BY <1>1 DEF Generate, ExploreInv, Generating
  <2>2. order' = [r \in live' |-> r]
    BY <2>1 DEF Orders
  <2>3. Passed' = {}
    BY <2>1 DEF Passed
  <2>. QED BY <2>1, <2>2, <2>3 DEF RunsInv, ListOrder, ExploredTold, RunOpen, RunsEnd
<1>2. CASE phase' # "explore"
  <2>1. step' = "generate"
    BY <1>2 DEF Generate
  <2>. QED BY <2>1 DEF RunsInv, ListOrder, ExploredTold, RunOpen, RunsEnd
<1>. QED BY <1>1, <1>2

(* The state the loop is at is the next of the list.                       *)
LEMMA NextInList ==
    ASSUME ExploreInv, ListOrder, step = "next", rest # {}
    PROVE  /\ NextState = Min(rest) /\ NextState \in live /\ NextState \in rest
           /\ live \subseteq Nat
           /\ \A i \in live \ rest : i < NextState
<1>1. live \in SUBSET (1 .. Len(crash_states)) /\ rest \in SUBSET live
      /\ crash_states \in Seq(CrashState) /\ Len(crash_states) \in Nat
  BY DEF ExploreInv, Exploring, Generated, IInv, TypeOK
<1>2. Min(rest) \in rest
  BY NextIsLive
<1>. DEFINE m == Min(rest)
            at == NextState
<1>0. live \subseteq Nat
  BY <1>1
<1>3. at = m /\ m \in rest
  BY <1>1, <1>2 DEF ListOrder, NextState
<1>. HIDE DEF m, at
<1>4. ASSUME NEW i \in live \ rest PROVE i < m
  <2>1. ~ (m < i)
    BY <1>3, <1>4 DEF ListOrder
  <2>2. i # m /\ i \in Nat /\ m \in Nat
    BY <1>0, <1>1, <1>3, <1>4
  <2>. QED BY <2>1, <2>2
<1>5. /\ at = m /\ at \in live /\ at \in rest
      /\ \A i \in live \ rest : i < at
  BY <1>1, <1>3, <1>4
<1>. QED BY <1>0, <1>5 DEF m, at

(* What a step that explores a state leaves alone.                         *)
LEMMA RunsKept ==
    ASSUME UNCHANGED genvars, vulnerabilities' = vulnerabilities
    PROVE  /\ live' = live /\ crash_states' = crash_states
           /\ \A S : Fails(S)' <=> Fails(S)
           /\ \A i : IsCut(i)' <=> IsCut(i)
           /\ \A i : Dropped(crash_states[i])' = Dropped(crash_states[i])
<1>1. live' = live /\ crash_states' = crash_states
  BY DEF genvars
<1>2. \A S : Fails(S)' <=> Fails(S)
  BY DEF Fails
<1>3. \A i : IsCut(i)' <=> IsCut(i)
  BY <1>1 DEF IsCut, HasReorder
<1>4. \A i : Dropped(crash_states[i])' = Dropped(crash_states[i])
  BY <1>1 DEF Dropped
<1>. QED BY <1>1, <1>2, <1>3, <1>4

LEMMA CutRuns ==
    ASSUME ExploreInv, RunsInv, ExploreCut PROVE RunsInv'
<1>. DEFINE m == NextState
            calls == crash_states[m].syscalls
<1>1. /\ step = "next" /\ rest # {} /\ IsCut(m)
      /\ rest' = rest \ {Min(rest)} /\ explored' = explored \cup {m} /\ order' = order
      /\ UNCHANGED genvars /\ vulnerabilities' = vulnerabilities
      /\ reorder_bugs' = reorder_bugs /\ atomic_bugs' = atomic_bugs
  BY DEF ExploreCut, results, IsCut
<1>2. \/ Fails(calls) /\ step' = "next" /\ current_atomic' = Append(current_atomic, Max(calls))
      \/ ~ Fails(calls) /\ step' = "next" /\ current_atomic = << >>
      \/ ~ Fails(calls) /\ step' = "aux_atomic" /\ current' = m
  BY DEF ExploreCut
<1>3. /\ live' = live /\ crash_states' = crash_states
      /\ \A S : Fails(S)' <=> Fails(S)
      /\ \A i : IsCut(i)' <=> IsCut(i)
      /\ \A i : Dropped(crash_states[i])' = Dropped(crash_states[i])
  BY <1>1, RunsKept
<1>4. /\ m = Min(rest) /\ m \in live /\ m \in rest /\ live \subseteq Nat
      /\ \A i \in live \ rest : i < m
  BY <1>1, NextInList DEF RunsInv
<1>. HIDE DEF m, calls
<1>5. Passed' = Passed \cup {m} /\ \A i \in Passed : i < m
  BY <1>1, <1>3, <1>4 DEF Passed
<1>6. Reordered' = Reordered /\ AtomicCalls' = AtomicCalls
  BY <1>1 DEF Reordered, AtomicCalls
<1>7. ListOrder'
  <2>1. order' = [r \in live' |-> r]
    BY <1>1, <1>3 DEF RunsInv, ListOrder
  <2>2. \A r \in rest' : \A i \in live' : r < i => i \in rest'
    <3>. SUFFICES ASSUME NEW r \in rest, r # m, NEW i \in live, r < i PROVE i \in rest /\ i # m
      BY <1>1, <1>3, <1>4
    <3>1. i \in rest
      BY <1>1 DEF RunsInv, ListOrder
    <3>2. ~ (r < m)
      <4>1. \A x \in rest : m <= x
        BY <1>1, <1>4, NextIsLive
      <4>2. m \in Nat /\ r \in Nat
        BY <1>1, <1>4 DEF ExploreInv, Exploring
      <4>. QED BY <4>1, <4>2
    <3>. QED BY <3>1, <3>2
  <2>3. step' # "reported"
    BY <1>2
  <2>4. step' = "aux_atomic" =>
          current' \in Passed' /\ \A q \in Passed' : q <= current'
    <3>1. \A q \in Passed : q <= m
      <4>1. Passed \subseteq Nat /\ m \in Nat
        BY <1>4 DEF Passed
      <4>. QED BY <1>5, <4>1
    <3>2. m <= m
      BY <1>4
    <3>3. \A q \in Passed' : q <= m
      BY <1>5, <3>1, <3>2
    <3>. QED BY <1>2, <1>5, <3>3
  <2>. QED BY <2>1, <2>2, <2>3, <2>4 DEF ListOrder
<1>8. ExploredTold'
  <2>. SUFFICES ASSUME NEW i \in explored', HasReorder(crash_states[i]),
                       Fails(crash_states[i].syscalls), NEW c \in Dropped(crash_states[i]),
                       Fails(crash_states[i].base \ {c})
                PROVE  c \in Reordered
    BY <1>3, <1>6 DEF ExploredTold, CallTold, HasReorder
  <2>1. i \in explored
    BY <1>1 DEF IsCut
  <2>. QED BY <1>1, <2>1 DEF RunsInv, ExploredTold, CallTold
<1>9. RunOpen'
  <2>. SUFFICES ASSUME NEW f \in Passed', Fails(crash_states[f].syscalls), IsCut(f),
                       \A q \in Passed' : IsCut(q) => ~ (f < q)
                PROVE  current_atomic' # << >>
    BY <1>3 DEF RunOpen
  <2>1. f = m
    BY <1>1, <1>5
  <2>2. Fails(calls)
    BY <2>1 DEF calls
  <2>3. Len(current_atomic) \in Nat
    BY <1>1, Parts
  <2>. QED BY <1>2, <2>2, <2>3
<1>10. RunsEnd'
  <2>. SUFFICES ASSUME NEW f \in Passed', NEW q \in Passed', NextCut(f, q)',
                       Fails(crash_states[f].syscalls), ~ Fails(crash_states[q].syscalls)
                PROVE  \/ Max(crash_states[q].syscalls) \in AtomicCalls
                       \/ step' = "aux_atomic" /\ current' = q
    BY <1>3, <1>6 DEF RunsEnd
  <2>1. IsCut(f) /\ IsCut(q) /\ f < q /\ \A r \in Passed' : IsCut(r) /\ f < r => ~ (r < q)
    BY <1>3 DEF NextCut
  <2>2. f \in Passed
    <3>1. f # m
      <4>1. ~ (m < q)
        <5>1. q \in Nat /\ m \in Nat
          BY <1>4, <1>5 DEF Passed
        <5>. QED BY <1>5, <5>1
      <4>. QED BY <2>1, <4>1
    <3>. QED BY <1>5, <3>1
  <2>3. CASE q = m
    <3>1. \A r \in Passed : IsCut(r) => ~ (f < r)
      BY <1>5, <2>1, <2>3
    <3>2. current_atomic # << >>
      BY <1>1, <2>1, <2>2, <3>1 DEF RunsInv, RunOpen
    <3>. QED BY <1>2, <2>3, <3>2 DEF calls
  <2>4. CASE q # m
    <3>1. q \in Passed
      BY <1>5, <2>4
    <3>2. NextCut(f, q)
      BY <1>5, <2>1 DEF NextCut
    <3>. QED BY <1>1, <2>2, <3>1, <3>2 DEF RunsInv, RunsEnd
  <2>. QED BY <2>3, <2>4
<1>. QED BY <1>7, <1>8, <1>9, <1>10 DEF RunsInv

(* A reordered state, explored or skipped.                                 *)
LEMMA ReorderedRuns ==
    ASSUME ExploreInv, RunsInv, SkipPruned \/ ExploreReorder PROVE RunsInv'
<1>. DEFINE m == NextState
            st == crash_states[m]
<1>1. /\ step = "next" /\ rest # {} /\ ~ IsCut(m)
      /\ rest' = rest \ {Min(rest)} /\ order' = order
      /\ UNCHANGED genvars /\ vulnerabilities' = vulnerabilities
      /\ reorder_bugs' = reorder_bugs /\ atomic_bugs' = atomic_bugs
      /\ current_atomic' = current_atomic
      /\ step' \in {"next", "aux_reorder"}
      /\ \/ explored' = explored
         \/ /\ explored' = explored \cup {m}
            /\ Fails(st.syscalls) => step' = "aux_reorder" /\ current' = m
  BY DEF SkipPruned, ExploreReorder, results, IsCut
<1>2. /\ live' = live /\ crash_states' = crash_states
      /\ \A S : Fails(S)' <=> Fails(S)
      /\ \A i : IsCut(i)' <=> IsCut(i)
      /\ \A i : Dropped(crash_states[i])' = Dropped(crash_states[i])
  BY <1>1, RunsKept
<1>3. /\ m = Min(rest) /\ m \in live /\ m \in rest /\ live \subseteq Nat
      /\ \A i \in live \ rest : i < m
  BY <1>1, NextInList DEF RunsInv
<1>. HIDE DEF m
<1>4. Passed' = Passed \cup {m}
  BY <1>1, <1>2, <1>3 DEF Passed
<1>5. Reordered' = Reordered /\ AtomicCalls' = AtomicCalls
  BY <1>1 DEF Reordered, AtomicCalls
<1>6. ListOrder'
  <2>1. order' = [r \in live' |-> r]
    BY <1>1, <1>2 DEF RunsInv, ListOrder
  <2>2. \A r \in rest' : \A i \in live' : r < i => i \in rest'
    <3>. SUFFICES ASSUME NEW r \in rest, r # m, NEW i \in live, r < i PROVE i \in rest /\ i # m
      BY <1>1, <1>2, <1>3
    <3>1. i \in rest
      BY <1>1 DEF RunsInv, ListOrder
    <3>2. ~ (r < m)
      <4>1. \A x \in rest : m <= x
        BY <1>1, <1>3, NextIsLive
      <4>2. m \in Nat /\ r \in Nat
        BY <1>1, <1>3 DEF ExploreInv, Exploring
      <4>. QED BY <4>1, <4>2
    <3>. QED BY <3>1, <3>2
  <2>. QED BY <1>1, <2>1, <2>2 DEF ListOrder
<1>7. ExploredTold'
  <2>. SUFFICES ASSUME NEW i \in explored', HasReorder(crash_states[i]),
                       Fails(crash_states[i].syscalls), NEW c \in Dropped(crash_states[i]),
                       Fails(crash_states[i].base \ {c})
                PROVE  c \in Reordered \/ (step' = "aux_reorder" /\ i = current')
    BY <1>2, <1>5 DEF ExploredTold, CallTold, HasReorder
  <2>1. CASE i = m /\ explored' = explored \cup {m}
                   /\ (Fails(st.syscalls) => step' = "aux_reorder" /\ current' = m)
    BY <2>1
  <2>2. CASE i \in explored
    BY <1>1, <2>2 DEF RunsInv, ExploredTold, CallTold
  <2>. QED BY <1>1, <2>1, <2>2
<1>8. RunOpen'
  <2>. SUFFICES ASSUME NEW f \in Passed', Fails(crash_states[f].syscalls), IsCut(f),
                       \A q \in Passed' : IsCut(q) => ~ (f < q)
                PROVE  current_atomic' # << >>
    BY <1>2 DEF RunOpen
  <2>. QED BY <1>1, <1>4 DEF RunsInv, RunOpen
<1>9. RunsEnd'
  <2>. SUFFICES ASSUME NEW f \in Passed', NEW q \in Passed', NextCut(f, q)',
                       Fails(crash_states[f].syscalls), ~ Fails(crash_states[q].syscalls)
                PROVE  Max(crash_states[q].syscalls) \in AtomicCalls
    BY <1>2, <1>5 DEF RunsEnd
  <2>1. IsCut(f) /\ IsCut(q) /\ f < q /\ \A r \in Passed' : IsCut(r) /\ f < r => ~ (r < q)
    BY <1>2 DEF NextCut
  <2>2. f \in Passed /\ q \in Passed /\ NextCut(f, q)
    BY <1>1, <1>4, <2>1 DEF NextCut
  <2>. QED BY <1>1, <2>2 DEF RunsInv, RunsEnd
<1>. QED BY <1>6, <1>7, <1>8, <1>9 DEF RunsInv

(* The loops over auxiliary states pass no state of the list.              *)
LEMMA AuxRuns ==
    ASSUME ExploreInv, RunsInv, step # "generate", UNCHANGED genvars,
           vulnerabilities' = vulnerabilities, order' = order, rest' = rest,
           step' = "reported" => rest = {},
           step' = "aux_atomic" => step = "aux_atomic" /\ current' = current,
           step = "aux_atomic" \/ current_atomic' = current_atomic,
           AtomicCalls \subseteq AtomicCalls',
           (step = "aux_atomic" /\ step' # "aux_atomic") =>
               Max(crash_states[current].syscalls) \in AtomicCalls',
           step = "aux_atomic" => ~ Fails(crash_states[current].syscalls),
           ExploredTold'
    PROVE  RunsInv'
<1>1. /\ live' = live /\ crash_states' = crash_states
      /\ \A S : Fails(S)' <=> Fails(S)
      /\ \A i : IsCut(i)' <=> IsCut(i)
  BY RunsKept
<1>2. Passed' = Passed
  BY <1>1 DEF Passed
<1>3. \A f, q : NextCut(f, q)' <=> NextCut(f, q)
  BY <1>1, <1>2 DEF NextCut
<1>4. ListOrder'
  BY <1>1, <1>2 DEF RunsInv, ListOrder
<1>5. RunOpen'
  <2>. SUFFICES ASSUME NEW f \in Passed, Fails(crash_states[f].syscalls), IsCut(f),
                       \A q \in Passed : IsCut(q) => ~ (f < q)
                PROVE  current_atomic' # << >>
    BY <1>1, <1>2 DEF RunOpen
  <2>1. CASE step = "aux_atomic"
    <3>1. current \in Passed /\ f <= current
      BY <2>1 DEF RunsInv, ListOrder
    <3>2. IsCut(current)
      BY <2>1, Parts DEF AuxState, IsCut
    <3>3. f # current
      BY <2>1
    <3>4. f \in Nat /\ current \in Nat
      <4>1. live \in SUBSET (DOMAIN crash_states) /\ DOMAIN crash_states = 1 .. Len(crash_states)
        BY Parts
      <4>2. live \subseteq Nat
        BY <4>1
      <4>. QED BY <3>1, <4>2 DEF Passed
    <3>. QED BY <3>1, <3>2, <3>3, <3>4
  <2>2. CASE step # "aux_atomic"
    BY <2>2 DEF RunsInv, RunOpen
  <2>. QED BY <2>1, <2>2
<1>6. RunsEnd'
  <2>. SUFFICES ASSUME NEW f \in Passed, NEW q \in Passed, NextCut(f, q),
                       Fails(crash_states[f].syscalls), ~ Fails(crash_states[q].syscalls)
                PROVE  \/ Max(crash_states[q].syscalls) \in AtomicCalls'
                       \/ step' = "aux_atomic" /\ current' = q
    BY <1>1, <1>2, <1>3 DEF RunsEnd
  <2>1. \/ Max(crash_states[q].syscalls) \in AtomicCalls
        \/ step = "aux_atomic" /\ current = q
    BY DEF RunsInv, RunsEnd
  <2>. QED BY <2>1
<1>. QED BY <1>4, <1>5, <1>6 DEF RunsInv

(* The calls of the groups, when one is added.                             *)
LEMMA GroupAdded ==
    ASSUME ExploreInv, Balanced, ReportAtomic
    PROVE  /\ AtomicCalls \subseteq AtomicCalls'
           /\ Max(crash_states[current].syscalls) \in AtomicCalls'
<1>1. /\ step = "aux_atomic" /\ atomic_bugs' = Append(atomic_bugs, current_atomic)
  BY DEF ReportAtomic
<1>2. current_atomic \in Seq(Call) /\ atomic_bugs \in Seq(Seq(Call))
  BY <1>1, Parts
<1>3. /\ current_atomic # << >>
      /\ current_atomic[Len(current_atomic)] = Max(crash_states[current].syscalls)
  BY <1>1 DEF Balanced, Trying
<1>4. /\ \A n \in DOMAIN atomic_bugs : n \in DOMAIN atomic_bugs' /\ atomic_bugs'[n] = atomic_bugs[n]
      /\ Len(atomic_bugs) + 1 \in DOMAIN atomic_bugs'
      /\ atomic_bugs'[Len(atomic_bugs) + 1] = current_atomic
  BY <1>1, <1>2
<1>5. Len(current_atomic) \in DOMAIN current_atomic
  BY <1>2, <1>3
<1>6. \A c : c \in AtomicCalls <=>
        \E n \in DOMAIN atomic_bugs : \E k \in DOMAIN atomic_bugs[n] : c = atomic_bugs[n][k]
  BY DEF AtomicCalls
<1>7. \A c : c \in AtomicCalls' <=>
        \E n \in DOMAIN atomic_bugs' : \E k \in DOMAIN atomic_bugs'[n] : c = atomic_bugs'[n][k]
  BY DEF AtomicCalls
<1>8. AtomicCalls \subseteq AtomicCalls'
  BY <1>4, <1>6, <1>7
<1>9. Max(crash_states[current].syscalls) \in AtomicCalls'
  <2>. DEFINE x == Max(crash_states[current].syscalls)
  <2>. HIDE DEF x
  <2>1. current_atomic[Len(current_atomic)] = x
    BY <1>3 DEF x
  <2>2. x \in AtomicCalls'
    BY <1>4, <1>5, <1>7, <2>1
  <2>. QED BY <2>2 DEF x
<1>. QED BY <1>8, <1>9

(* What an explored state has told stays told while none is explored.      *)
LEMMA ToldKept ==
    ASSUME ExploredTold, step # "generate", UNCHANGED genvars,
           vulnerabilities' = vulnerabilities, explored' = explored,
           \A i \in explored : \A c \in Dropped(crash_states[i]) :
               (Fails(crash_states[i].base \ {c}) /\ CallTold(i, c)) =>
                   \/ c \in Reordered'
                   \/ step' = "aux_reorder" /\ i = current'
                   \/ step' = "reported" /\ c \in AtomicCalls'
    PROVE  ExploredTold'
<1>1. /\ crash_states' = crash_states
      /\ \A S : Fails(S)' <=> Fails(S)
      /\ \A i : Dropped(crash_states[i])' = Dropped(crash_states[i])
  BY RunsKept
<1>. SUFFICES ASSUME NEW i \in explored, HasReorder(crash_states[i]),
                     Fails(crash_states[i].syscalls), NEW c \in Dropped(crash_states[i]),
                     Fails(crash_states[i].base \ {c})
              PROVE  \/ c \in Reordered'
                     \/ step' = "aux_reorder" /\ i = current'
                     \/ step' = "reported" /\ c \in AtomicCalls'
  BY <1>1 DEF ExploredTold, CallTold, HasReorder
<1>. QED BY DEF ExploredTold

(* Every step of the exploration keeps the four parts.                      *)
LEMMA RunsInvNext ==
    ASSUME ~ OptExplore, HiddenInv, RunsInv, [ExploreNext]_allvars PROVE RunsInv'
<1>1. ExploreInv /\ Balanced /\ NoneForgotten
  BY DEF HiddenInv, GroupInv
<1>2. step = "aux_atomic" => ~ Fails(crash_states[current].syscalls)
  BY <1>1 DEF Balanced, Trying
<1>3. CASE Generate
  BY <1>1, <1>3, GenerateRuns
<1>4. CASE ExploreCut
  BY <1>1, <1>4, CutRuns
<1>5. CASE SkipPruned \/ ExploreReorder
  BY <1>1, <1>5, ReorderedRuns
<1>6. CASE AuxAtomic
  <2>1. /\ step = "aux_atomic" /\ step' = step /\ current' = current /\ explored' = explored
        /\ UNCHANGED genvars /\ vulnerabilities' = vulnerabilities
        /\ order' = order /\ rest' = rest
        /\ reorder_bugs' = reorder_bugs /\ atomic_bugs' = atomic_bugs
    BY <1>6 DEF AuxAtomic, results
  <2>2. Reordered' = Reordered /\ AtomicCalls' = AtomicCalls
    BY <2>1 DEF Reordered, AtomicCalls
  <2>3. ExploredTold'
    BY <2>1, <2>2, ToldKept DEF RunsInv, CallTold
  <2>. QED BY <1>1, <1>2, <2>1, <2>2, <2>3, AuxRuns
<1>7. CASE ReportAtomic
  <2>1. /\ step = "aux_atomic" /\ step' = "next" /\ current' = current /\ explored' = explored
        /\ UNCHANGED genvars /\ vulnerabilities' = vulnerabilities
        /\ order' = order /\ rest' = rest /\ reorder_bugs' = reorder_bugs
    BY <1>7 DEF ReportAtomic
  <2>2. Reordered' = Reordered
    BY <2>1 DEF Reordered
  <2>3. /\ AtomicCalls \subseteq AtomicCalls'
        /\ Max(crash_states[current].syscalls) \in AtomicCalls'
    BY <1>1, <1>7, GroupAdded
  <2>4. ExploredTold'
    BY <2>1, <2>2, ToldKept DEF RunsInv, CallTold
  <2>. QED BY <1>1, <1>2, <2>1, <2>2, <2>3, <2>4, AuxRuns
<1>8. CASE AuxReorder
  <2>1. /\ step = "aux_reorder" /\ step' = step /\ current' = current /\ explored' = explored
        /\ UNCHANGED genvars /\ vulnerabilities' = vulnerabilities
        /\ order' = order /\ rest' = rest /\ current_atomic' = current_atomic
        /\ reorder_bugs' = reorder_bugs /\ atomic_bugs' = atomic_bugs
    BY <1>8 DEF AuxReorder, results
  <2>2. Reordered' = Reordered /\ AtomicCalls' = AtomicCalls
    BY <2>1 DEF Reordered, AtomicCalls
  <2>3. ExploredTold'
    BY <2>1, <2>2, ToldKept DEF RunsInv, CallTold
  <2>. QED BY <1>1, <1>2, <2>1, <2>2, <2>3, AuxRuns
<1>9. CASE ReportReorder
  <2>1. /\ step = "aux_reorder" /\ aux_calls = << >> /\ step' = "next" /\ explored' = explored
        /\ UNCHANGED genvars /\ vulnerabilities' = vulnerabilities
        /\ order' = order /\ rest' = rest /\ current_atomic' = current_atomic
        /\ atomic_bugs' = atomic_bugs
    BY <1>9 DEF ReportReorder
  <2>2. AtomicCalls' = AtomicCalls
    BY <2>1 DEF AtomicCalls
  <2>3. Reordered \subseteq Reordered' /\ Found \subseteq Reordered'
    BY <1>1, <1>9, FoundIsReported
  <2>4. ASSUME NEW c \in Dropped(crash_states[current]), Fails(crash_states[current].base \ {c})
        PROVE  c \in Reordered'
    <3>1. ~ Untried(c)
      BY <2>1 DEF Untried
    <3>2. c \in Found
      BY <1>1, <2>1, <2>4, <3>1 DEF NoneForgotten
    <3>. QED BY <2>3, <3>2
  <2>5. ExploredTold'
    BY <2>1, <2>3, <2>4, ToldKept DEF RunsInv, CallTold
  <2>. QED BY <1>1, <1>2, <2>1, <2>2, <2>5, AuxRuns
<1>10. CASE Report
  <2>1. /\ step = "next" /\ rest = {} /\ step' = "reported" /\ explored' = explored
        /\ UNCHANGED genvars /\ vulnerabilities' = vulnerabilities
        /\ order' = order /\ rest' = rest /\ current_atomic' = current_atomic
        /\ atomic_bugs' = atomic_bugs
    BY <1>10 DEF Report
  <2>2. AtomicCalls' = AtomicCalls
    BY <2>1 DEF AtomicCalls
  <2>3. Reordered \subseteq Reordered' \cup AtomicCalls'
    <3>1. reorder_bugs' = [k \in {l \in DOMAIN reorder_bugs : reorder_bugs[l][1] \notin AtomicCalls}
                             |-> reorder_bugs[k]]
      BY <1>10 DEF Report
    <3>. QED BY <2>2, <3>1 DEF Reordered
  <2>4. ExploredTold'
    BY <2>1, <2>3, ToldKept DEF RunsInv, CallTold
  <2>. QED BY <1>1, <1>2, <2>1, <2>2, <2>4, AuxRuns
<1>11. CASE UNCHANGED allvars
  <2>1. /\ step' = step /\ current' = current /\ explored' = explored
        /\ UNCHANGED genvars /\ vulnerabilities' = vulnerabilities
        /\ order' = order /\ rest' = rest /\ current_atomic' = current_atomic
        /\ reorder_bugs' = reorder_bugs /\ atomic_bugs' = atomic_bugs
    BY <1>11 DEF allvars, explorevars, results
  <2>2. Reordered' = Reordered /\ AtomicCalls' = AtomicCalls
    BY <2>1 DEF Reordered, AtomicCalls
  <2>3. CASE step = "generate"
    BY <2>1, <2>3 DEF RunsInv, ListOrder, ExploredTold, RunOpen, RunsEnd
  <2>4. CASE step # "generate"
    <3>1. ExploredTold'
      BY <2>1, <2>2, <2>4, ToldKept DEF RunsInv, CallTold
    <3>2. step' = "reported" => rest = {}
      BY <2>1, <2>4 DEF RunsInv, ListOrder
    <3>. QED BY <1>1, <1>2, <2>1, <2>2, <2>4, <3>1, <3>2, AuxRuns
  <2>. QED BY <2>3, <2>4
<1>. QED BY <1>3, <1>4, <1>5, <1>6, <1>7, <1>8, <1>9, <1>10, <1>11 DEF ExploreNext
-----------------------------------------------------------------------------
(* What the theorem rests on.                                              *)
SilentInv == ListInv /\ RunsInv

(* What the theorem rests on holds of the empty list, ...                   *)
LEMMA SilentInit == ExploreInit => SilentInv
<1>. SUFFICES ASSUME ExploreInit PROVE SilentInv
  OBVIOUS
<1>1. RunsInv
  BY DEF ExploreInit, RunsInv, ListOrder, ExploredTold, RunOpen, RunsEnd
<1>. QED BY <1>1, ListInit DEF SilentInv

(* ... and every step keeps it, in the order of the list.                   *)
LEMMA SilentNext ==
    ASSUME ~ OptExplore, HiddenInv, OnceInv, SilentInv, [ExploreNext]_allvars PROVE SilentInv'
<1>1. RunsInv'
  BY RunsInvNext DEF SilentInv
<1>2. ListInv'
  BY ListNext DEF SilentInv
<1>. QED BY <1>1, <1>2 DEF SilentInv

(* A call is reported as reordered or in a group.                          *)
Named(c) == c \in Reordered \cup AtomicCalls

(* A state that loses a alone and keeps a call that needs it tells a.      *)
LEMMA LoneLossTold ==
    ASSUME HiddenInv, step = "reported", Chunks = {}, NEW u \in live, NEW a, NEW y,
           LosesOnly(crash_states[u], a, y), NEW b \in Without(a), b <= y,
           <<a, b>> \in vulnerabilities
    PROVE  Named(a)
<1>. DEFINE st == crash_states[u]
<1>1. b \in st.syscalls /\ a \notin st.syscalls /\ st.base \ {a} = st.syscalls
      /\ Dropped(st) = {a} /\ HasReorder(st)
  BY DEF LosesOnly, Without
<1>2. Fails(st.syscalls)
  BY <1>1 DEF Fails
<1>3. AllTold
  BY DEF HiddenInv
<1>4. Told(u)
  BY <1>1, <1>2, <1>3 DEF AllTold, Concerned
<1>5. ~ Harmless(u)
  BY <1>1, <1>2 DEF Harmless
<1>. QED BY <1>1, <1>4, <1>5 DEF Told, Named

(* A set of indices has a greatest one.                                     *)
LEMMA LastOne ==
    ASSUME NEW n \in Nat, NEW S \in SUBSET (1 .. n), S # {}
    PROVE  \E x \in S : \A z \in S : ~ (x < z)
<1>. DEFINE T == {n - x : x \in S}
<1>0. \A x \in S : x \in Nat /\ n - x \in Nat
  <2>. SUFFICES ASSUME NEW x \in S PROVE x \in Nat /\ n - x \in Nat
    OBVIOUS
  <2>1. x \in 1 .. n
    OBVIOUS
  <2>. QED BY <2>1
<1>1. T \in SUBSET Nat /\ T # {}
  BY <1>0
<1>2. PICK m \in T : \A z \in T : m <= z
  BY <1>1, LeastNat
<1>3. PICK x \in S : m = n - x
  OBVIOUS
<1>4. ASSUME NEW z \in S PROVE ~ (x < z)
  <2>1. n - z \in T
    OBVIOUS
  <2>2. m <= n - z /\ x \in Int /\ z \in Int
    BY <1>0, <1>2, <2>1
  <2>. QED BY <1>3, <2>2
<1>. QED BY <1>4

(* The last failing cut fails by a call that is reported.                  *)
LEMMA LastCutTold ==
    ASSUME Reduced, HiddenInv, RunsInv, NoSync, step = "reported", Chunks = {}, Plain,
           NEW f \in live, ~ HasReorder(crash_states[f]),
           NEW v \in vulnerabilities,
           v[2] \in crash_states[f].syscalls, v[1] \notin crash_states[f].syscalls,
           \A g \in live : ~ HasReorder(crash_states[g]) /\ Fails(crash_states[g].syscalls) => ~ (f < g)
    PROVE  Named(v[1])
<1>. DEFINE a == v[1]
            b == v[2]
            F == crash_states[f].base
<1>1. /\ IInv /\ trace \in Traces /\ live \subseteq Unpruned /\ Unpruned \subseteq DOMAIN crash_states
      /\ DOMAIN crash_states \subseteq Nat
      /\ Forward
  BY ReducedFacts DEF Plain
<1>2. v \in Call \X Call
  BY DEF HiddenInv, GroupInv, ExploreInv, ExploreTypeOK
<1>3. a \in Call /\ b \in Call /\ v = <<a, b>> /\ a \notin Fsyncs(trace) /\ b \notin Fsyncs(trace)
  BY <1>2 DEF NoSync
<1>. HIDE DEF a, b
<1>4. /\ F \in DownSets(trace) /\ F \in SUBSET Call /\ crash_states[f].syscalls = F
      /\ b \in F /\ a \notin F
  BY <1>1, CutState DEF a, b
<1>5. F \subseteq Without(a)
  <2>. SUFFICES ASSUME NEW d \in F PROVE d \in Without(a)
    OBVIOUS
  <2>1. d \in Call /\ d # a
    BY <1>4
  <2>2. <<a, d>> \notin HappensBefore(trace)
    BY <1>4 DEF HappensBefore
  <2>. QED BY <2>1, <2>2 DEF Without
<1>6. PICK y \in Call :
        /\ b <= y
        /\ EndsBefore(a, y) \/ \E u \in live : LosesOnly(crash_states[u], a, y)
  BY <1>3, <1>4, <1>5, MissedCall
<1>7. CASE \E u \in live : LosesOnly(crash_states[u], a, y)
  <2>1. Named(a)
    BY <1>3, <1>4, <1>5, <1>6, <1>7, LoneLossTold
  <2>. QED BY <2>1 DEF a
<1>8. CASE EndsBefore(a, y)
  <2>1. PICK g \in live : LeftAs(g, UpTo(y))
    BY <1>1, <1>8, WholeIsLeft DEF EndsBefore
  <2>2. F = UpTo(y)
    <3>1. ASSUME NEW c \in F PROVE c <= y
      <4>. DEFINE m == Max(F)
      <4>1. m \in F /\ c <= m
        BY <1>4, MaxIsGreatest
      <4>2. MayEnd(m)
        <5>1. crash_states[f].syscalls # {} /\ f \in DOMAIN crash_states /\ f \in Unpruned
          BY <1>1, <1>4
        <5>. QED BY <1>1, <1>4, <5>1, EndsUnpruned
      <4>. HIDE DEF m
      <4>3. m <= y /\ m \in Call /\ c \in Call
        BY <1>4, <1>5, <1>8, <4>1, <4>2 DEF EndsBefore
      <4>. QED BY <4>1, <4>3 DEF Call
    <3>2. F \subseteq UpTo(y)
      BY <1>4, <3>1 DEF UpTo
    <3>3. ASSUME F # UpTo(y) PROVE FALSE
      <4>1. crash_states[g].base = UpTo(y) /\ crash_states[g].syscalls = UpTo(y)
            /\ ~ HasReorder(crash_states[g]) /\ g \in DOMAIN crash_states /\ f \in DOMAIN crash_states
        BY <1>1, <2>1 DEF LeftAs
      <4>2. f < g
        BY <3>2, <3>3, <4>1, SmallerFirst
      <4>3. b \in UpTo(y) /\ a \notin UpTo(y)
        <5>1. y < a /\ a \in Nat /\ y \in Nat
          BY <1>3, <1>8 DEF EndsBefore, Call
        <5>. QED BY <1>4, <3>2, <5>1 DEF UpTo
      <4>4. Fails(crash_states[g].syscalls)
        BY <1>3, <4>1, <4>3 DEF Fails
      <4>. QED BY <4>1, <4>2, <4>4
    <3>. QED BY <3>3
  <2>3. LeftAs(f, UpTo(y))
    BY <1>4, <2>2 DEF LeftAs
  <2>. DEFINE after == {q \in live : ~ HasReorder(crash_states[q]) /\ f < q}
  <2>4. after \in SUBSET Nat /\ after # {}
    <3>1. \E q \in live : f < q /\ LeftAs(q, UpTo(a))
      BY <1>3, <1>8, <2>3, NextIsThere
    <3>. QED BY <1>1, <3>1 DEF LeftAs
  <2>5. PICK q \in after : \A r \in after : q <= r
    BY <2>4, LeastNat
  <2>6. q \in live /\ ~ HasReorder(crash_states[q]) /\ f < q /\ q \in DOMAIN crash_states
    BY <1>1, <2>5
  <2>7. \A r \in live : ~ HasReorder(crash_states[r]) /\ f < r => ~ (r < q)
    <3>. SUFFICES ASSUME NEW r \in live, ~ HasReorder(crash_states[r]), f < r PROVE ~ (r < q)
      OBVIOUS
    <3>1. q <= r /\ q \in Nat /\ r \in Nat
      BY <1>1, <2>5
    <3>. QED BY <3>1
  <2>8. Max(crash_states[q].base) = a
    BY <1>3, <1>8, <2>3, <2>6, <2>7, NextEndsIn
  <2>9. crash_states[q].syscalls = crash_states[q].base
    BY <1>1, <2>6, CutState
  <2>10. ~ Fails(crash_states[q].syscalls)
    BY <2>6
  <2>11. Fails(crash_states[f].syscalls)
    BY <1>3, <1>4 DEF Fails
  <2>12. Passed = live
    BY DEF Passed, RunsInv, ListOrder
  <2>13. NextCut(f, q)
    BY <2>6, <2>7, <2>12 DEF NextCut, IsCut
  <2>14. Max(crash_states[q].syscalls) \in AtomicCalls
    BY <2>6, <2>10, <2>11, <2>12, <2>13 DEF RunsInv, RunsEnd
  <2>15. a \in AtomicCalls
    BY <2>8, <2>9, <2>14
  <2>. QED BY <2>15 DEF Named, a
<1>. QED BY <1>6, <1>7, <1>8

(* A failing state misses a call. If the state is reordered and its cut     *)
(* has the call, its exploration told. If not, either a state that loses    *)
(* the call alone is left, and told; or the cuts without it all end before  *)
(* it, and the last of the failing ones opened a run that the next cut      *)
(* ended.                                                                   *)
LEMMA NoneSilent ==
    ASSUME HiddenInv, OnceInv, SilentInv PROVE FailureReported
<1>. SUFFICES ASSUME step = "reported", Chunks = {}, Forward,
                     NEW i \in explored, Fails(crash_states[i].syscalls)
              PROVE  \E v \in vulnerabilities : Named(v[1])
  BY DEF FailureReported, Named
<1>1. Reduced /\ RunsInv /\ NoSync
  BY ReducedHolds DEF SilentInv, ListInv
<1>2. Plain
  BY DEF Plain, Chunks
<1>3. /\ IInv /\ Tried /\ live \subseteq DOMAIN crash_states /\ i \in DOMAIN crash_states
      /\ crash_states \in Seq(CrashState)
      /\ vulnerabilities \in SUBSET (Call \X Call)
  BY <1>1, ReducedFacts DEF HiddenInv, GroupInv, ExploreInv, ExploreTypeOK, TypeOK
<1>4. PICK v \in vulnerabilities :
        v[2] \in crash_states[i].syscalls /\ v[1] \notin crash_states[i].syscalls
  BY DEF Fails
<1>. DEFINE a == v[1]
            b == v[2]
            all == crash_states[i].base
<1>5. a \in Call /\ b \in Call /\ v = <<a, b>> /\ a \notin Fsyncs(trace) /\ b \notin Fsyncs(trace)
  BY <1>1, <1>3 DEF NoSync
<1>6. b \in crash_states[i].syscalls /\ a \notin crash_states[i].syscalls
  BY <1>4
<1>. HIDE DEF a, b
<1>7. CASE a \in all
  <2>1. HasReorder(crash_states[i])
    BY <1>3, <1>6, <1>7, CutState
  <2>2. Dropped(crash_states[i]) = all \ crash_states[i].syscalls /\ crash_states[i].syscalls \subseteq all
    BY <1>3, <2>1, LostState
  <2>3. a \in Dropped(crash_states[i])
    BY <1>6, <1>7, <2>2
  <2>4. b # a
    BY <1>6
  <2>5. Fails(all \ {a})
    <3>1. b \in all \ {a} /\ a \notin all \ {a}
      BY <1>6, <2>2, <2>4
    <3>. QED BY <1>5, <3>1 DEF Fails
  <2>6. CallTold(i, a)
    BY <1>1, <2>1, <2>3, <2>5 DEF RunsInv, ExploredTold
  <2>7. Named(a)
    BY <2>6 DEF CallTold, Named
  <2>. QED BY <2>7 DEF a
<1>8. CASE a \notin all
  <2>1. all \in DownSets(trace) /\ all \in SUBSET Call /\ b \in all
    <3>1. CASE HasReorder(crash_states[i])
      BY <1>3, <1>6, <3>1, LostState
    <3>2. CASE ~ HasReorder(crash_states[i])
      BY <1>3, <1>6, <3>2, CutState
    <3>. QED BY <3>1, <3>2
  <2>2. b \in Without(a)
    <3>1. <<a, b>> \notin HappensBefore(trace)
      BY <1>8, <2>1 DEF HappensBefore
    <3>. QED BY <1>5, <1>8, <2>1, <3>1 DEF Without
  <2>3. PICK y \in Call :
          /\ b <= y
          /\ EndsBefore(a, y) \/ \E u \in live : LosesOnly(crash_states[u], a, y)
    BY <1>1, <1>2, <1>5, <2>2, MissedCall
  <2>4. CASE \E u \in live : LosesOnly(crash_states[u], a, y)
    <3>1. HiddenInv
      OBVIOUS
    <3>2. Named(a)
      BY <1>5, <2>2, <2>3, <2>4, <3>1, LoneLossTold
    <3>. QED BY <3>2 DEF a
  <2>5. CASE EndsBefore(a, y)
    <3>1. PICK g \in live : LeftAs(g, UpTo(y))
      BY <1>1, <2>5, WholeIsLeft DEF EndsBefore
    <3>. DEFINE failing == {f \in live : ~ HasReorder(crash_states[f]) /\ Fails(crash_states[f].syscalls)}
    <3>2. g \in failing
      <4>1. y < a /\ a \in Nat /\ y \in Nat
        BY <1>5, <2>5 DEF EndsBefore, Call
      <4>2. b \in UpTo(y) /\ a \notin UpTo(y)
        BY <1>5, <2>3, <4>1 DEF UpTo
      <4>3. crash_states[g].syscalls = UpTo(y) /\ ~ HasReorder(crash_states[g])
        BY <3>1 DEF LeftAs
      <4>4. Fails(crash_states[g].syscalls)
        BY <1>5, <4>2, <4>3 DEF Fails
      <4>. QED BY <4>3, <4>4
    <3>3. PICK f \in failing : \A x \in failing : ~ (f < x)
      <4>1. failing \in SUBSET (1 .. Len(crash_states)) /\ Len(crash_states) \in Nat
        BY <1>3
      <4>. HIDE DEF failing
      <4>. QED BY <3>2, <4>1, LastOne
    <3>4. PICK w \in vulnerabilities :
            w[2] \in crash_states[f].syscalls /\ w[1] \notin crash_states[f].syscalls
      BY <3>3 DEF Fails
    <3>5. f \in live /\ ~ HasReorder(crash_states[f])
      BY <3>3
    <3>6. \A x \in live : ~ HasReorder(crash_states[x]) /\ Fails(crash_states[x].syscalls) => ~ (f < x)
      BY <3>3
    <3>. HIDE DEF failing
    <3>7. Named(w[1])
      BY <1>1, <1>2, <3>4, <3>5, <3>6, LastCutTold
    <3>. QED BY <3>7
  <2>. QED BY <2>3, <2>4, <2>5
<1>. QED BY <1>7, <1>8

(* With the default order of exploration no failure is silent, for any      *)
(* trace in which nothing is a raw data chunk and messages are recorded     *)
(* after their cause, and for any vulnerabilities: if the check of some     *)
(* explored state failed, the report names the first call of a              *)
(* vulnerability, as reordered or in a group of atomic calls (lines         *)
(* 145-165, 218-233, 252-273, 321-349). With opt_explore this does not      *)
(* hold.                                                                    *)
THEOREM FailuresAreReported == ExploreSpec => [](~ OptExplore => FailureReported)
<1>1. CASE ~ OptExplore
  <2>1. HiddenInv /\ OnceInv /\ SilentInv /\ [ExploreNext]_allvars => SilentInv'
    BY <1>1, SilentNext
  <2>2. HiddenInv /\ OnceInv /\ SilentInv => (~ OptExplore => FailureReported)
    BY NoneSilent
  <2>. QED BY <2>1, <2>2, SilentInit, HiddenInvHolds, OnceInvHolds, PTL DEF ExploreSpec, allvars
<1>2. CASE OptExplore
  <2>1. ~ OptExplore => FailureReported
    BY <1>2
  <2>. QED BY <2>1, PTL
<1>. QED BY <1>1, <1>2
=============================================================================
