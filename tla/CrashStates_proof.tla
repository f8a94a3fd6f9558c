-------------------------- MODULE CrashStates_proof --------------------------
(***************************************************************************)
(* Proofs about Causality and CrashStates, for any number of calls and any *)
(* traces: types, that the cuts are exactly the consistent ones, that each *)
(* server loses a suffix, and that flushed calls survive.                  *)
(***************************************************************************)
EXTENDS CrashStates, TLAPS, WellFoundedInduction, FiniteSetTheorems

USE NumCallsAssumption

(* Every set of calls the code takes max() or min() of has one.            *)
LEMMA LeastNat ==
    ASSUME NEW T \in SUBSET Nat, T # {}
    PROVE  \E x \in T : \A y \in T : x <= y
<1>1. PICK x \in T : \A y \in T : ~ (<<y, x>> \in OpToRel(<, Nat))
  BY WFMin, NatLessThanWellFounded
<1>2. \A y \in T : ~ (y < x)
  BY <1>1 DEF OpToRel
<1>. QED BY <1>2

LEMMA MinIsLeast ==
    ASSUME NEW S \in SUBSET Nat, S # {}
    PROVE  Min(S) \in S /\ \A y \in S : Min(S) <= y
BY LeastNat DEF Min

LEMMA MaxIsGreatest ==
    ASSUME NEW S \in SUBSET Call, S # {}
    PROVE  Max(S) \in S /\ \A y \in S : y <= Max(S)
<1>. DEFINE T == {NumCalls - x : x \in S}
<1>0. NumCalls \in Nat /\ \A x \in S : x \in Nat /\ x <= NumCalls
  BY NumCallsAssumption DEF Call
<1>1. T \in SUBSET Nat /\ T # {}
  BY <1>0
<1>2. PICK m \in T : \A y \in T : m <= y
  BY <1>1, LeastNat
<1>3. PICK x \in S : m = NumCalls - x
  OBVIOUS
<1>4. ASSUME NEW y \in S PROVE x >= y
  <2>1. NumCalls - y \in T
    OBVIOUS
  <2>2. m <= NumCalls - y
    BY <1>2, <2>1
  <2>. QED BY <1>0, <1>3, <2>2
<1>5. Max(S) \in S /\ \A y \in S : Max(S) >= y
  BY <1>3, <1>4 DEF Max
<1>. QED BY <1>0, <1>5

-----------------------------------------------------------------------------
(* The orders of Causality.                                                *)

(* The calls of one service happen in the order of their timestamps.       *)
LEMMA ServiceOrder ==
    ASSUME NEW t, NEW a \in Call, NEW b \in Call, SameService(t, a, b), a < b
    PROVE  <<a, b>> \in HappensBefore(t)
<1>1. a # b /\ <<a, b>> \in Edges(t)
  BY DEF Edges, Call
<1>2. \A S \in DownSets(t) : b \in S => a \in S
  BY <1>1 DEF DownSets
<1>. QED BY <1>1, <1>2 DEF HappensBefore

(* happens-before of an acyclic trace is transitive.                       *)
LEMMA HappensBeforeTransitive ==
    ASSUME NEW t, Acyclic(t), NEW a, NEW b, NEW c,
           <<a, b>> \in HappensBefore(t), <<b, c>> \in HappensBefore(t)
    PROVE  <<a, c>> \in HappensBefore(t)
<1>1. /\ a \in Call /\ b \in Call /\ c \in Call
      /\ \A S \in DownSets(t) : (b \in S => a \in S) /\ (c \in S => b \in S)
  BY DEF HappensBefore
<1>2. a # c
  BY <1>1 DEF Acyclic
<1>. QED BY <1>1, <1>2 DEF HappensBefore

(* persists-before follows happens-before within a service, and across     *)
(* services for a call whose file is flushed in between.                   *)
LEMMA PersistsOnService ==
    ASSUME NEW t, NEW a \in Call, NEW b \in Call, SameService(t, a, b), a < b
    PROVE  <<a, b>> \in PersistsBefore(t, HappensBefore(t))
BY ServiceOrder DEF PersistsBefore

LEMMA PersistsByFsync ==
    ASSUME NEW t, Acyclic(t), NEW a \in Call, NEW b \in Call, NEW sync \in Fsyncs(t),
           SamePath(t, sync, a),
           <<a, sync>> \in HappensBefore(t), <<sync, b>> \in HappensBefore(t)
    PROVE  <<a, b>> \in PersistsBefore(t, HappensBefore(t))
<1>1. <<a, b>> \in HappensBefore(t)
  BY HappensBeforeTransitive
<1>. QED BY <1>1 DEF PersistsBefore

(* What persists before a call persists before all the later calls of the  *)
(* same service: this is why dependents of a victim form a suffix.         *)
LEMMA PersistsUpward ==
    ASSUME NEW t, Acyclic(t), NEW v \in Call, NEW a \in Call, NEW b \in Call,
           <<v, a>> \in PersistsBefore(t, HappensBefore(t)),
           SameService(t, a, b), a < b
    PROVE  <<v, b>> \in PersistsBefore(t, HappensBefore(t))
<1>1. <<a, b>> \in HappensBefore(t)
  BY ServiceOrder
<1>2. CASE SameService(t, v, a)
  <2>1. <<v, a>> \in HappensBefore(t) /\ SameService(t, v, b)
    BY <1>2 DEF PersistsBefore, SameService
  <2>2. <<v, b>> \in HappensBefore(t)
    BY <1>1, <2>1, HappensBeforeTransitive
  <2>. QED BY <2>1, <2>2 DEF PersistsBefore
<1>3. CASE ~ SameService(t, v, a)
  <2>1. PICK sync \in Fsyncs(t) :
           /\ SamePath(t, sync, v)
           /\ <<v, sync>> \in HappensBefore(t)
           /\ <<sync, a>> \in HappensBefore(t)
    BY <1>3 DEF PersistsBefore
  <2>2. <<sync, b>> \in HappensBefore(t)
    BY <1>1, <2>1, HappensBeforeTransitive
  <2>. QED BY <2>1, <2>2, PersistsByFsync
<1>. QED BY <1>2, <1>3

-----------------------------------------------------------------------------
(* Frontiers and consistent cuts.                                          *)

(* A set closed under the edges is closed under happens-before.            *)
LEMMA DownSetClosed ==
    ASSUME NEW t, NEW S \in DownSets(t), NEW e \in HappensBefore(t), e[2] \in S
    PROVE  e[1] \in S
BY DEF HappensBefore

(* A frontier that respects the cross-service dependencies gives a cut     *)
(* that is closed under the edges.                                         *)
LEMMA FrontierClosed ==
    ASSUME NEW t \in Traces, NEW f \in AllCombinations(t)
    PROVE  AllSyscalls(t, f) \in DownSets(t)
<1>1. /\ t.svc \in [Call -> Service] /\ t.cross \subseteq Call \X Call
      /\ \A s \in Service : f[s] \in Nat
  BY DEF Traces, AllCombinations, CallsOf, Call, None
<1>2. ASSUME NEW e \in Edges(t), e[2] \in AllSyscalls(t, f)
      PROVE  e[1] \in AllSyscalls(t, f)
  <2>1. e[1] \in Call /\ e[2] \in Call /\ e[2] <= f[t.svc[e[2]]]
    BY <1>1, <1>2 DEF Edges, AllSyscalls
  <2>2. t.svc[e[1]] \in Service /\ t.svc[e[2]] \in Service
    BY <1>1, <2>1
  <2>3. e[1] \in Nat /\ e[2] \in Nat /\ f[t.svc[e[1]]] \in Nat /\ f[t.svc[e[2]]] \in Nat
    BY <1>1, <2>1, <2>2 DEF Call
  <2>4. CASE e \in t.cross
    <3>1. ~ (f[t.svc[e[1]]] < e[1])
      BY <2>1, <2>3, <2>4 DEF AllCombinations, Respects
    <3>. QED BY <2>1, <2>3, <3>1 DEF AllSyscalls
  <2>5. CASE SameService(t, e[1], e[2]) /\ e[1] < e[2]
    BY <2>1, <2>3, <2>5 DEF AllSyscalls, SameService
  <2>. QED BY <1>2, <2>4, <2>5 DEF Edges
<1>. QED BY <1>2 DEF DownSets, AllSyscalls

(* Every cut comes from a frontier: on each service its last call there.   *)
LEMMA CutHasFrontier ==
    ASSUME NEW t \in Traces, NEW S \in DownSets(t)
    PROVE  \E f \in AllCombinations(t) : AllSyscalls(t, f) = S
<1>. DEFINE On(s) == S \cap CallsOf(t, s)
            f == [s \in Service |-> IF On(s) = {} THEN None ELSE Max(On(s))]
<1>1. t.svc \in [Call -> Service] /\ t.cross \subseteq Call \X Call /\ S \subseteq Call
  BY DEF Traces, DownSets
<1>2. ASSUME NEW s \in Service, On(s) # {}
      PROVE  f[s] \in On(s) /\ \A c \in On(s) : c <= f[s]
  <2>1. On(s) \in SUBSET Call
    BY <1>1
  <2>2. f[s] = Max(On(s))
    BY <1>2
  <2>. HIDE DEF On, f
  <2>. QED BY <1>2, <2>1, <2>2, MaxIsGreatest
<1>3. ASSUME NEW s \in Service
      PROVE  f[s] \in CallsOf(t, s) \cup {None} /\ f[s] \in Call \cup {None}
  BY <1>2, <1>3 DEF CallsOf
<1>4. ASSUME NEW c \in Call PROVE c \in S <=> c <= f[t.svc[c]]
  <2>. DEFINE s == t.svc[c]
  <2>1. s \in Service /\ c \in CallsOf(t, s)
    BY <1>1 DEF CallsOf
  <2>2. CASE c \in S
    BY <1>2, <2>1, <2>2
  <2>3. CASE c \notin S /\ On(s) = {}
    <3>1. f[s] = 0
      BY <2>1, <2>3 DEF None
    <3>. QED BY <2>3, <3>1 DEF Call
  <2>4. CASE c \notin S /\ On(s) # {}
    <3>1. SUFFICES ASSUME c <= f[s] PROVE FALSE
      BY <2>4
    <3>2. f[s] \in S /\ f[s] \in Call /\ t.svc[f[s]] = s
      BY <1>2, <2>1, <2>4 DEF CallsOf
    <3>. HIDE DEF f
    <3>3. c < f[s]
      BY <2>4, <3>1, <3>2 DEF Call
    <3>4. <<c, f[s]>> \in Edges(t)
      BY <3>2, <3>3 DEF Edges, SameService
    <3>5. c \in S
      BY <3>2, <3>4 DEF DownSets
    <3>. QED BY <2>4, <3>5
  <2>. QED BY <2>2, <2>3, <2>4
<1>5. f \in AllCombinations(t)
  <2>1. ASSUME NEW e \in t.cross PROVE Respects(t, f, e)
    <3>1. e[1] \in Call /\ e[2] \in Call /\ e \in Edges(t)
      BY <1>1 DEF Edges
    <3>2. e[2] \in S => e[1] \in S
      BY <3>1 DEF DownSets
    <3>3. f[t.svc[e[1]]] \in Nat /\ f[t.svc[e[2]]] \in Nat /\ e[1] \in Nat /\ e[2] \in Nat
      <4>1. t.svc[e[1]] \in Service /\ t.svc[e[2]] \in Service
        BY <1>1, <3>1
      <4>2. f[t.svc[e[1]]] \in Call \cup {None} /\ f[t.svc[e[2]]] \in Call \cup {None}
        BY <1>3, <4>1
      <4>3. Call \subseteq Nat /\ None \in Nat
        BY DEF Call, None
      <4>. HIDE DEF f
      <4>. QED BY <3>1, <4>2, <4>3
    <3>4. (e[2] \in S <=> e[2] <= f[t.svc[e[2]]]) /\ (e[1] \in S <=> e[1] <= f[t.svc[e[1]]])
      BY <1>4, <3>1
    <3>. HIDE DEF f
    <3>. QED BY <3>2, <3>3, <3>4 DEF Respects
  <2>. QED BY <1>3, <2>1 DEF AllCombinations
<1>6. AllSyscalls(t, f) = S
  BY <1>1, <1>4 DEF AllSyscalls
<1>. QED BY <1>5, <1>6

-----------------------------------------------------------------------------
(* The inductive invariant.                                                *)

Inputs ==
    /\ trace \in Trace
    /\ hbgraph = HappensBefore(trace)
    /\ pbgraph = PersistsBefore(trace, hbgraph)

(* What is known of a frontier that is visited, and of the victims.        *)
Visiting ==
    /\ frontiers \subseteq AllCombinations(trace)
    /\ base \in DownSets(trace)
    /\ \A V \in combinations :
          base # {} /\ \E v, w \in base \ {Max(base)} : V = {v, w}

(* Before the duplicate scan its variables are empty.                      *)
Waiting == phase = "frontiers" => live = {} /\ pending = {} /\ to_remove = << >>

(* A crash state is a cut, or a cut without two victims (or one, twice)    *)
(* that can be lost, each with what persists after it.                     *)
Lost(st) ==
    \E v, w \in Call :
        /\ v # st.pivot /\ w # st.pivot
        /\ CanBeLost(pbgraph, st.base, st.pivot, v)
        /\ CanBeLost(pbgraph, st.base, st.pivot, w)
        /\ st.syscalls = st.base \ (DependentCalls(pbgraph, st.base, st.pivot, v)
                                      \cup DependentCalls(pbgraph, st.base, st.pivot, w))

GoodState(st) ==
    /\ st.base \in DownSets(trace)
    /\ IF st.pivot = None
       THEN st.syscalls = st.base
       ELSE /\ st.pivot \in st.base
            /\ \A c \in st.base : c <= st.pivot
            /\ Lost(st)

States == \A i \in DOMAIN crash_states : GoodState(crash_states[i])

(* A frontier is still to be visited or its cut is in the list.            *)
Visited ==
    /\ \A f \in AllCombinations(trace) :
          \/ f \in frontiers
          \/ \E i \in DOMAIN crash_states :
                /\ ~ HasReorder(crash_states[i])
                /\ crash_states[i].syscalls = AllSyscalls(trace, f)
    /\ phase # "frontiers" => frontiers = {}

IInv == TypeOK /\ Inputs /\ Visiting /\ Waiting /\ States /\ Visited

LEMMA InitIInv == Init => IInv
<1>. SUFFICES ASSUME Init PROVE IInv
  OBVIOUS
<1>1. trace \in Traces
  BY TraceAssumption DEF Init
<1>2. HappensBefore(trace) \in SUBSET (Call \X Call)
  BY DEF HappensBefore
<1>3. PersistsBefore(trace, hbgraph) \in SUBSET (Call \X Call)
  BY DEF PersistsBefore
<1>4. AllCombinations(trace) \in SUBSET [Service -> Call \cup {None}]
  BY DEF AllCombinations
<1>5. {} \in DownSets(trace)
  BY DEF DownSets
<1>6. /\ live = {} /\ pending = {} /\ to_remove = << >> /\ crash_states = << >>
      /\ base = {} /\ combinations = {} /\ phase = "frontiers"
      /\ hbgraph = HappensBefore(trace) /\ pbgraph = PersistsBefore(trace, hbgraph)
      /\ frontiers = AllCombinations(trace) /\ trace \in Trace
  BY DEF Init
<1>7. TypeOK
  BY <1>1, <1>2, <1>3, <1>4, <1>6 DEF TypeOK
<1>8. Inputs /\ Visiting /\ Waiting /\ States /\ Visited
  BY <1>5, <1>6 DEF Inputs, Visiting, Waiting, States, Visited
<1>. QED BY <1>7, <1>8 DEF IInv

(* Adding a state to the list keeps the states that are there.             *)
LEMMA AppendState ==
    ASSUME States, crash_states \in Seq(CrashState), UNCHANGED inputs,
           NEW st \in CrashState, GoodState(st), crash_states' = Append(crash_states, st)
    PROVE  /\ States'
           /\ crash_states' \in Seq(CrashState)
           /\ DOMAIN crash_states \subseteq DOMAIN crash_states'
           /\ \A i \in DOMAIN crash_states : crash_states'[i] = crash_states[i]
           /\ \E i \in DOMAIN crash_states' : crash_states'[i] = st
<1>1. /\ crash_states' \in Seq(CrashState)
      /\ DOMAIN crash_states' = DOMAIN crash_states \cup {Len(crash_states) + 1}
      /\ \A i \in DOMAIN crash_states : crash_states'[i] = crash_states[i]
      /\ crash_states'[Len(crash_states) + 1] = st
  OBVIOUS
<1>2. trace' = trace /\ hbgraph' = hbgraph /\ pbgraph' = pbgraph
  BY DEF inputs
<1>3. \A i \in DOMAIN crash_states' : GoodState(crash_states'[i])
  BY <1>1 DEF States
<1>4. States'
  <2>1. ASSUME NEW s, GoodState(s) PROVE GoodState(s)'
    BY <1>2, <2>1 DEF GoodState, Lost
  <2>. QED BY <1>3, <2>1 DEF States
<1>. QED BY <1>1, <1>4

(* The cut of a frontier is a good state, its victims are calls before its *)
(* last one.                                                               *)
LEMMA VisitFrontierIInv == IInv /\ VisitFrontier => IInv'
<1>. SUFFICES ASSUME IInv, VisitFrontier PROVE IInv'
  OBVIOUS
<1>1. trace \in Traces /\ TypeOK /\ Inputs /\ Visiting /\ Waiting /\ States /\ Visited
  BY TraceAssumption DEF IInv, Inputs
<1>2. PICK f \in frontiers :
        /\ frontiers' = frontiers \ {f}
        /\ base' = AllSyscalls(trace, f)
        /\ crash_states' = Append(crash_states, BaseState(base'))
        /\ combinations' = Victims(trace, base')
  BY DEF VisitFrontier
<1>3. /\ phase = "frontiers" /\ UNCHANGED inputs /\ phase' = phase
      /\ trace' = trace /\ hbgraph' = hbgraph /\ pbgraph' = pbgraph
      /\ live' = live /\ pending' = pending /\ to_remove' = to_remove
  BY DEF VisitFrontier, inputs
<1>4. f \in AllCombinations(trace)
  BY <1>1, <1>2 DEF Visiting
<1>5. base' \in DownSets(trace) /\ base' \in SUBSET Call
  BY <1>1, <1>2, <1>4, FrontierClosed DEF AllSyscalls
<1>6. BaseState(base') \in CrashState /\ GoodState(BaseState(base'))
  <2>1. << >> \in Seq(SUBSET Call)
    OBVIOUS
  <2>. QED BY <1>5, <2>1 DEF BaseState, CrashState, GoodState
<1>7. /\ States'
      /\ crash_states' \in Seq(CrashState)
      /\ DOMAIN crash_states \subseteq DOMAIN crash_states'
      /\ \A i \in DOMAIN crash_states : crash_states'[i] = crash_states[i]
      /\ \E i \in DOMAIN crash_states' : crash_states'[i] = BaseState(base')
  BY <1>1, <1>2, <1>3, <1>6, AppendState DEF TypeOK
<1>8. /\ Victims(trace, base') \in SUBSET SUBSET Call
      /\ \A V \in Victims(trace, base') :
            base' # {} /\ \E v, w \in base' \ {Max(base')} : V = {v, w}
  BY <1>5 DEF Victims
<1>9. TypeOK'
  <2>1. live' = {} /\ pending' = {} /\ to_remove' = << >>
    BY <1>1, <1>3 DEF Waiting
  <2>. QED BY <1>1, <1>2, <1>3, <1>5, <1>7, <1>8, <2>1 DEF TypeOK
<1>10. Inputs' /\ Visiting' /\ Waiting'
  BY <1>1, <1>2, <1>3, <1>5, <1>8 DEF Inputs, Visiting, Waiting
<1>11. Visited'
  <2>1. ASSUME NEW g \in AllCombinations(trace)
        PROVE  \/ g \in frontiers'
               \/ \E i \in DOMAIN crash_states' :
                    /\ ~ HasReorder(crash_states'[i])
                    /\ crash_states'[i].syscalls = AllSyscalls(trace, g)
    <3>1. CASE g = f
      BY <1>2, <1>7, <3>1 DEF BaseState, HasReorder
    <3>2. CASE g # f
      BY <1>1, <1>2, <1>7, <3>2 DEF Visited
    <3>. QED BY <3>1, <3>2
  <2>. QED BY <1>3, <2>1 DEF Visited, HasReorder
<1>. QED BY <1>7, <1>9, <1>10, <1>11 DEF IInv

(* A state is made only of victims that can all be lost.                   *)
LEMMA ReorderGood ==
    ASSUME TypeOK, base \in DownSets(trace), NEW V, base # {},
           \E v, w \in base \ {Max(base)} : V = {v, w},
           \A v \in V : CanBeLost(pbgraph, base, Max(base), v)
    PROVE  LET st == ReorderState(pbgraph, base, V)
           IN  st \in CrashState /\ GoodState(st)
<1>. DEFINE pivot == Max(base)
            D(v) == DependentCalls(pbgraph, base, pivot, v)
            lost == Reorder(pbgraph, base, V)
            st == ReorderState(pbgraph, base, V)
<1>1. base \in SUBSET Call
  BY DEF TypeOK
<1>2. pivot \in base /\ \A c \in base : c <= pivot
  BY <1>1, MaxIsGreatest
<1>3. V \in SUBSET Call /\ V \in SUBSET Nat /\ V # {} /\ \A v \in V : v # pivot
  BY <1>1 DEF Call
<1>4. Min(V) \in V /\ Max(V) \in V
  BY <1>3, MinIsLeast, MaxIsGreatest
<1>5. \A v \in V : D(v) \in SUBSET Call
  BY <1>1, <1>3 DEF DependentCalls, Dependents
<1>6. lost = << D(Min(V)) >> \/ lost = << D(Min(V)), D(Max(V)) >>
  BY DEF Reorder
<1>. HIDE DEF D, lost, pivot
<1>7. /\ lost \in Seq(SUBSET Call)
      /\ \E v, w \in V : \A c : (\A k \in DOMAIN lost : c \notin lost[k])
                                    <=> c \notin D(v) \cup D(w)
  <2>1. CASE lost = << D(Min(V)) >>
    <3>1. \A c : (\A k \in DOMAIN lost : c \notin lost[k]) <=> c \notin D(Min(V)) \cup D(Min(V))
      BY <2>1
    <3>2. lost \in Seq(SUBSET Call)
      BY <1>4, <1>5, <2>1
    <3>. QED BY <1>4, <3>1, <3>2, Zenon
  <2>2. CASE lost = << D(Min(V)), D(Max(V)) >>
    <3>1. \A c : (\A k \in DOMAIN lost : c \notin lost[k]) <=> c \notin D(Min(V)) \cup D(Max(V))
      BY <2>2
    <3>2. lost \in Seq(SUBSET Call)
      BY <1>4, <1>5, <2>2
    <3>. QED BY <1>4, <3>1, <3>2, Zenon
  <2>. QED BY <1>6, <2>1, <2>2, Zenon
<1>8. /\ st.base = base /\ st.pivot = pivot /\ st.reorder = lost /\ st.victims = V
      /\ st.syscalls = {c \in base : \A k \in DOMAIN lost : c \notin lost[k]}
      /\ st \in [syscalls : {st.syscalls}, base : {base}, reorder : {lost},
                 pivot : {pivot}, victims : {V}]
  BY DEF ReorderState, lost, pivot
<1>9. st \in CrashState
  <2>1. st.syscalls \in SUBSET Call
    BY <1>1, <1>8
  <2>. HIDE DEF st
  <2>. QED BY <1>1, <1>2, <1>3, <1>7, <1>8, <2>1 DEF CrashState
<1>10. Lost(st)
  <2>1. PICK v \in V, w \in V : \A c : (\A k \in DOMAIN lost : c \notin lost[k])
                                          <=> c \notin D(v) \cup D(w)
    BY <1>7
  <2>2. st.syscalls = base \ (D(v) \cup D(w))
    BY <1>8, <2>1
  <2>3. CanBeLost(pbgraph, base, pivot, v) /\ CanBeLost(pbgraph, base, pivot, w)
    BY DEF pivot
  <2>. HIDE DEF st
  <2>. QED BY <1>3, <1>8, <2>2, <2>3 DEF Lost, D
<1>11. st.pivot # None
  BY <1>1, <1>2, <1>8 DEF Call, None
<1>. HIDE DEF st
<1>12. GoodState(st)
  BY <1>2, <1>8, <1>10, <1>11 DEF GoodState
<1>. QED BY <1>9, <1>12 DEF st

LEMMA TryVictimsIInv == IInv /\ TryVictims => IInv'
<1>. SUFFICES ASSUME IInv, TryVictims PROVE IInv'
  OBVIOUS
<1>1. TypeOK /\ Inputs /\ Visiting /\ Waiting /\ States /\ Visited
  BY DEF IInv
<1>2. PICK V \in combinations :
        /\ combinations' = combinations \ {V}
        /\ crash_states' =
             IF \A v \in V : CanBeLost(pbgraph, base, Max(base), v)
             THEN Append(crash_states, ReorderState(pbgraph, base, V))
             ELSE crash_states
  BY DEF TryVictims
<1>3. /\ phase = "frontiers" /\ UNCHANGED inputs /\ phase' = phase
      /\ trace' = trace /\ hbgraph' = hbgraph /\ pbgraph' = pbgraph
      /\ frontiers' = frontiers /\ base' = base
      /\ live' = live /\ pending' = pending /\ to_remove' = to_remove
  BY DEF TryVictims, inputs
<1>4. /\ States'
      /\ crash_states' \in Seq(CrashState)
      /\ DOMAIN crash_states \subseteq DOMAIN crash_states'
      /\ \A i \in DOMAIN crash_states : crash_states'[i] = crash_states[i]
  <2>1. CASE \A v \in V : CanBeLost(pbgraph, base, Max(base), v)
    <3>1. base \in DownSets(trace) /\ base # {} /\ \E v, w \in base \ {Max(base)} : V = {v, w}
      BY <1>1, <1>2 DEF Visiting
    <3>2. /\ ReorderState(pbgraph, base, V) \in CrashState
          /\ GoodState(ReorderState(pbgraph, base, V))
      BY <1>1, <2>1, <3>1, ReorderGood
    <3>. QED BY <1>1, <1>2, <1>3, <2>1, <3>2, AppendState DEF TypeOK
  <2>2. CASE ~ (\A v \in V : CanBeLost(pbgraph, base, Max(base), v))
    <3>1. crash_states' = crash_states
      BY <1>2, <2>2
    <3>. QED BY <1>1, <1>3, <3>1 DEF TypeOK, States, GoodState, Lost
  <2>. QED BY <2>1, <2>2
<1>5. TypeOK'
  <2>1. live' = {} /\ pending' = {} /\ to_remove' = << >>
    BY <1>1, <1>3 DEF Waiting
  <2>. QED BY <1>1, <1>2, <1>3, <1>4, <2>1 DEF TypeOK
<1>6. Inputs' /\ Visiting' /\ Waiting'
  BY <1>1, <1>2, <1>3 DEF Inputs, Visiting, Waiting
<1>7. Visited'
  BY <1>1, <1>3, <1>4 DEF Visited, HasReorder
<1>. QED BY <1>4, <1>5, <1>6, <1>7 DEF IInv

(* Pruning and the removal of duplicates only choose positions.            *)
LEMMA RemovalIInv ==
    IInv /\ (StaticPrune \/ ScanDuplicates \/ RemoveDuplicates \/ UNCHANGED genvars) => IInv'
<1>. SUFFICES ASSUME IInv,
                     StaticPrune \/ ScanDuplicates \/ RemoveDuplicates \/ UNCHANGED genvars
              PROVE  IInv'
  OBVIOUS
<1>1. TypeOK /\ Inputs /\ Visiting /\ Waiting /\ States /\ Visited
  BY DEF IInv
<1>2. /\ trace' = trace /\ hbgraph' = hbgraph /\ pbgraph' = pbgraph
      /\ frontiers' = frontiers /\ base' = base /\ combinations' = combinations
      /\ crash_states' = crash_states
  BY DEF StaticPrune, ScanDuplicates, RemoveDuplicates, genvars, inputs
<1>3. /\ phase' = "frontiers" => phase = "frontiers" /\ live' = live /\ pending' = pending
                                    /\ to_remove' = to_remove
      /\ phase' # "frontiers" => frontiers = {}
      /\ phase' \in {"frontiers", "duplicates", "explore"}
  BY <1>1 DEF StaticPrune, ScanDuplicates, RemoveDuplicates, genvars, TypeOK, Visited
<1>4. live' \in SUBSET DOMAIN crash_states /\ pending' \in SUBSET DOMAIN crash_states
  BY <1>1 DEF StaticPrune, ScanDuplicates, RemoveDuplicates, genvars, TypeOK
<1>5. to_remove' \in Seq(DOMAIN crash_states)
  <2>1. CASE ScanDuplicates
    <3>. DEFINE i == Min(pending)
                same == {j \in live : i < j /\ SameAs(i, j)}
    <3>1. /\ pending # {}
          /\ to_remove' = IF same = {} THEN to_remove ELSE Append(to_remove, Loser(i, Min(same)))
      BY <2>1 DEF ScanDuplicates
    <3>2. /\ pending \in SUBSET Nat /\ pending \subseteq DOMAIN crash_states
          /\ same \in SUBSET Nat /\ same \subseteq DOMAIN crash_states
      BY <1>1 DEF TypeOK
    <3>3. i \in DOMAIN crash_states
      BY <3>1, <3>2, MinIsLeast
    <3>4. same # {} => Min(same) \in DOMAIN crash_states
      <4>. HIDE DEF same
      <4>. QED BY <3>2, MinIsLeast
    <3>5. same # {} => Loser(i, Min(same)) \in DOMAIN crash_states
      BY <3>3, <3>4 DEF Loser
    <3>. HIDE DEF i, same
    <3>6. to_remove \in Seq(DOMAIN crash_states)
      BY <1>1 DEF TypeOK
    <3>7. CASE same = {}
      BY <3>1, <3>6, <3>7
    <3>8. CASE same # {}
      <4>. DEFINE P == DOMAIN crash_states
                  k == Loser(i, Min(same))
      <4>1. k \in P /\ to_remove \in Seq(P) /\ to_remove' = Append(to_remove, k)
        BY <3>1, <3>5, <3>6, <3>8
      <4>. HIDE DEF P, k
      <4>2. to_remove' \in Seq(P)
        BY <4>1
      <4>. QED BY <4>2 DEF P
    <3>. QED BY <3>7, <3>8
  <2>2. CASE ~ ScanDuplicates
    BY <1>1, <2>2 DEF StaticPrune, RemoveDuplicates, genvars, TypeOK
  <2>. QED BY <2>1, <2>2
<1>6. TypeOK'
  BY <1>1, <1>2, <1>3, <1>4, <1>5 DEF TypeOK
<1>7. Inputs' /\ Visiting' /\ Waiting' /\ States' /\ Visited'
  BY <1>1, <1>2, <1>3
     DEF Inputs, Visiting, Waiting, States, GoodState, Lost, Visited, HasReorder
<1>. QED BY <1>6, <1>7 DEF IInv

(* IInv is inductive.                                                      *)
THEOREM Invariance == Spec => []IInv
<1>1. IInv /\ [Next]_genvars => IInv'
  BY VisitFrontierIInv, TryVictimsIInv, RemovalIInv DEF Next
<1>. QED BY InitIInv, <1>1, PTL DEF Spec

(* Every variable keeps its type.                                          *)
THEOREM TypeCorrect == Spec => []TypeOK
<1>1. IInv => TypeOK
  BY DEF IInv
<1>. QED BY Invariance, <1>1, PTL

(* What a state that lost v and w does not hold.                           *)
LEMMA LostCalls ==
    ASSUME IInv, NEW i \in DOMAIN crash_states, HasReorder(crash_states[i]),
           NEW c \in crash_states[i].base, c \notin crash_states[i].syscalls
    PROVE  LET st == crash_states[i]
           IN  \E v \in Call :
                 /\ v # st.pivot
                 /\ CanBeLost(pbgraph, st.base, st.pivot, v)
                 /\ c \in DependentCalls(pbgraph, st.base, st.pivot, v)
                 /\ \A d \in st.syscalls :
                       d \notin DependentCalls(pbgraph, st.base, st.pivot, v)
<1>. DEFINE st == crash_states[i]
<1>1. Lost(st)
  BY DEF IInv, States, GoodState, HasReorder
<1>. HIDE DEF st
<1>2. PICK v \in Call, w \in Call :
        /\ v # st.pivot /\ w # st.pivot
        /\ CanBeLost(pbgraph, st.base, st.pivot, v)
        /\ CanBeLost(pbgraph, st.base, st.pivot, w)
        /\ st.syscalls = st.base \ (DependentCalls(pbgraph, st.base, st.pivot, v)
                                      \cup DependentCalls(pbgraph, st.base, st.pivot, w))
  BY <1>1 DEF Lost
<1>3. c \in st.base /\ c \notin st.syscalls
  BY DEF st
<1>4. CASE c \in DependentCalls(pbgraph, st.base, st.pivot, v)
  BY <1>2, <1>4 DEF st
<1>5. CASE c \in DependentCalls(pbgraph, st.base, st.pivot, w)
  BY <1>2, <1>5 DEF st
<1>. QED BY <1>2, <1>3, <1>4, <1>5

(* The cuts in the list are exactly the consistent cuts of the trace.      *)
THEOREM CutsAreConsistent == Spec => []ConsistentCuts
<1>1. IInv => ConsistentCuts
  <2>. SUFFICES ASSUME IInv PROVE ConsistentCuts
    OBVIOUS
  <2>1. trace \in Traces /\ hbgraph = HappensBefore(trace) /\ States /\ Visited
    BY TraceAssumption DEF IInv, Inputs
  <2>2. ASSUME NEW i \in DOMAIN crash_states, NEW e \in hbgraph,
               e[2] \in crash_states[i].base
        PROVE  e[1] \in crash_states[i].base
    BY <2>1, <2>2, DownSetClosed DEF States, GoodState
  <2>3. ASSUME phase # "frontiers", NEW S \in DownSets(trace)
        PROVE  \E i \in DOMAIN crash_states :
                  ~ HasReorder(crash_states[i]) /\ crash_states[i].syscalls = S
    <3>1. PICK f \in AllCombinations(trace) : AllSyscalls(trace, f) = S
      BY <2>1, CutHasFrontier
    <3>2. f \notin frontiers
      BY <2>1, <2>3 DEF Visited
    <3>. QED BY <2>1, <3>1, <3>2 DEF Visited
  <2>. QED BY <2>2, <2>3 DEF ConsistentCuts
<1>. QED BY Invariance, <1>1, PTL

(* Every crash state leaves each server with a prefix of its calls: losing *)
(* a call loses what its server did after it.                              *)
THEOREM ServersKeepPrefix == Spec => []ServerPrefix
<1>1. IInv => ServerPrefix
  <2>. SUFFICES ASSUME IInv,
                       NEW i \in DOMAIN crash_states, NEW a \in Call, NEW b \in Call,
                       SameService(trace, a, b), a < b, b \in crash_states[i].syscalls,
                       a \notin crash_states[i].syscalls
                PROVE  FALSE
    BY DEF ServerPrefix
  <2>. DEFINE st == crash_states[i]
  <2>1. /\ Acyclic(trace) /\ pbgraph = PersistsBefore(trace, HappensBefore(trace))
        /\ GoodState(st)
    BY AcyclicAssumption DEF IInv, Inputs, States
  <2>2. st.syscalls \subseteq st.base
    BY <2>1 DEF GoodState, Lost
  <2>3. a \in st.base
    <3>1. <<a, b>> \in HappensBefore(trace)
      BY ServiceOrder
    <3>. QED BY <2>1, <2>2, <3>1, DownSetClosed DEF GoodState
  <2>4. HasReorder(st)
    BY <2>1, <2>3 DEF GoodState, HasReorder
  <2>5. PICK v \in Call :
           /\ v # st.pivot
           /\ CanBeLost(pbgraph, st.base, st.pivot, v)
           /\ a \in DependentCalls(pbgraph, st.base, st.pivot, v)
           /\ b \notin DependentCalls(pbgraph, st.base, st.pivot, v)
    BY <2>3, <2>4, LostCalls
  <2>6. b <= st.pivot /\ st.pivot \in Call /\ b \in st.base
    BY <2>1, <2>2, <2>4 DEF GoodState, HasReorder, DownSets
  <2>7. <<a, b>> \in pbgraph
    BY <2>1, PersistsOnService
  <2>8. b # st.pivot
    BY <2>5, <2>7 DEF CanBeLost
  <2>9. v < b /\ <<v, b>> \in pbgraph
    <3>1. CASE a = v
      BY <2>7, <3>1
    <3>2. CASE a \in Dependents(pbgraph, st.base, st.pivot, v)
      BY <2>1, <3>2, PersistsUpward DEF Dependents, Call
    <3>. QED BY <2>5, <3>1, <3>2 DEF DependentCalls
  <2>10. b < st.pivot
    BY <2>6, <2>8 DEF Call
  <2>11. b \in DependentCalls(pbgraph, st.base, st.pivot, v)
    BY <2>6, <2>9, <2>10 DEF DependentCalls, Dependents
  <2>. QED BY <2>5, <2>11
<1>. QED BY Invariance, <1>1, PTL

(* A state that keeps the pivot keeps every call whose file was flushed    *)
(* before the pivot was issued.                                            *)
THEOREM FlushedCallsSurvive == Spec => []FlushedBeforePivot
<1>1. IInv => FlushedBeforePivot
  <2>. SUFFICES ASSUME IInv, NEW i \in DOMAIN crash_states, HasReorder(crash_states[i])
                PROVE  LET st == crash_states[i]
                       IN  /\ st.pivot \in st.syscalls
                           /\ \A c \in Call : \A sync \in Fsyncs(trace) :
                                 (/\ SamePath(trace, sync, c)
                                  /\ <<c, sync>> \in hbgraph
                                  /\ <<sync, st.pivot>> \in hbgraph) => c \in st.syscalls
    BY DEF FlushedBeforePivot
  <2>. DEFINE st == crash_states[i]
  <2>1. /\ Acyclic(trace) /\ hbgraph = HappensBefore(trace)
        /\ pbgraph = PersistsBefore(trace, HappensBefore(trace))
        /\ st.base \in DownSets(trace) /\ st.pivot \in st.base /\ st.base \subseteq Call
    BY AcyclicAssumption DEF IInv, Inputs, States, GoodState, HasReorder, DownSets
  <2>2. st.pivot \in st.syscalls
    <3>1. SUFFICES ASSUME st.pivot \notin st.syscalls PROVE FALSE
      OBVIOUS
    <3>2. PICK v \in Call : v # st.pivot
                             /\ st.pivot \in DependentCalls(pbgraph, st.base, st.pivot, v)
      BY <2>1, <3>1, LostCalls
    <3>3. ~ (st.pivot < st.pivot)
      BY <2>1 DEF Call
    <3>. QED BY <3>2, <3>3 DEF DependentCalls, Dependents
  <2>3. ASSUME NEW c \in Call, NEW sync \in Fsyncs(trace), SamePath(trace, sync, c),
               <<c, sync>> \in hbgraph, <<sync, st.pivot>> \in hbgraph,
               c \notin st.syscalls
        PROVE  FALSE
    <3>1. <<c, st.pivot>> \in hbgraph
      BY <2>1, <2>3, HappensBeforeTransitive
    <3>2. c \in st.base
      BY <2>1, <3>1, DownSetClosed
    <3>3. <<c, st.pivot>> \in pbgraph
      BY <2>1, <2>3, PersistsByFsync
    <3>4. PICK v \in Call :
             /\ CanBeLost(pbgraph, st.base, st.pivot, v)
             /\ c \in DependentCalls(pbgraph, st.base, st.pivot, v)
      BY <2>3, <3>2, LostCalls
    <3>. QED BY <3>3, <3>4 DEF CanBeLost
  <2>. QED BY <2>2, <2>3
<1>. QED BY Invariance, <1>1, PTL

HIDE NumCallsAssumption

-----------------------------------------------------------------------------
(***************************************************************************)
(* The two removals of CrashStates, for any list of crash states.          *)
(*   OneOfEachHolds  of each chain of states with the same calls all are   *)
(*                   marked but one, each once, although a state is        *)
(*                   compared with the next of its chain only.             *)
(*   NoImageIsLost   every victims that can be lost have been tried, so    *)
(*                   the image of a pruned state has another state.        *)
(*   LiveListOnce    a state that is left lists each call it loses once:   *)
(*                   one that lists a call twice has a lighter duplicate   *)
(*                   earlier in the list.                                  *)
(* The last part says which cuts are left and in which order: of what need *)
(* not come after a call a, either a state that loses a alone is left, or  *)
(* all cuts without a end before it (MissedCall), and then the cut of      *)
(* everything so far is followed by one that ends in a (NextEndsIn).       *)
(***************************************************************************)

Scanned == live \ pending

(* A state that is still to be scanned and has been compared: the next one *)
(* of its chain after those that were scanned.                             *)
Compared(i) ==
    /\ i \in pending
    /\ \E s \in Scanned : SameAs(s, i)
    /\ \A p \in pending : SameAs(p, i) => i <= p

Seen == Scanned \cup {i \in pending : Compared(i)}

(* Of each chain seen so far one state is left.                            *)
OneLeft(S, marked) ==
    \A i \in S : \E u \in S :
        /\ u \notin marked /\ SameAs(i, u)
        /\ \A w \in S : w \notin marked /\ SameAs(i, w) => w = u

Distinct(q) == \A k, l \in DOMAIN q : q[k] = q[l] => k = l

Scanning ==
    /\ live = Unpruned
    /\ pending \subseteq live
    /\ \A s \in Scanned, p \in pending : s < p
    /\ Marked \subseteq Seen
    /\ OneLeft(Seen, Marked)

DupInv ==
    /\ IInv
    /\ Distinct(to_remove)
    /\ phase = "duplicates" => Scanning
    /\ phase = "explore" =>
         \A i \in Unpruned : \E u \in live :
             SameAs(i, u) /\ \A w \in live : SameAs(i, w) => w = u

(* Having the same calls is an equivalence.                                *)
LEMMA SameAsEquivalence ==
    /\ \A i : SameAs(i, i)
    /\ \A i, j : SameAs(i, j) => SameAs(j, i)
    /\ \A i, j, k : SameAs(i, j) /\ SameAs(j, k) => SameAs(i, k)
BY DEF SameAs

(* What a step of the scan leaves: one more state is scanned, the next of  *)
(* its chain compared, one of the two marked.                              *)
LEMMA SeenGrows ==
    ASSUME TypeOK, Scanning, pending # {}, live' = live, crash_states' = crash_states,
           pending' = pending \ {Min(pending)}
    PROVE  LET i == Min(pending)
               same == {j \in live : i < j /\ SameAs(i, j)}
           IN  /\ i \in pending
               /\ same = {} => Seen' = Seen \cup {i}
               /\ same # {} => /\ Min(same) \in same /\ Min(same) \notin Seen
                               /\ Seen' = Seen \cup {i, Min(same)}
               /\ i \notin Seen => \A s \in Seen : ~ SameAs(i, s)
<1>. DEFINE i == Min(pending)
            same == {j \in live : i < j /\ SameAs(i, j)}
<1>1. /\ live \in SUBSET Nat /\ pending \in SUBSET Nat /\ pending \subseteq live
      /\ \A s \in Scanned, p \in pending : s < p
  BY DEF TypeOK, Scanning
<1>2. i \in pending /\ \A p \in pending : i <= p
  BY <1>1, MinIsLeast
<1>3. same # {} => Min(same) \in same /\ \A p \in same : Min(same) <= p
  <2>1. same \in SUBSET Nat
    BY <1>1
  <2>. HIDE DEF same
  <2>. QED BY <2>1, MinIsLeast
<1>. HIDE DEF i
<1>4. \A j, k : SameAs(j, k)' <=> SameAs(j, k)
  BY DEF SameAs
<1>5. pending' = pending \ {i} /\ Scanned' = Scanned \cup {i}
  BY <1>1, <1>2 DEF Scanned, i
<1>6. \A p \in live : i < p <=> p \in pending \ {i}
  <2>. SUFFICES ASSUME NEW p \in live PROVE i < p <=> p \in pending \ {i}
    OBVIOUS
  <2>1. CASE p \in pending
    BY <1>1, <1>2, <2>1
  <2>2. CASE p \notin pending
    BY <1>1, <1>2, <2>2 DEF Scanned
  <2>. QED BY <2>1, <2>2
<1>7. same = {p \in pending : p # i /\ SameAs(i, p)}
  BY <1>1, <1>6
<1>8. ASSUME i \notin Seen, NEW s \in Seen PROVE ~ SameAs(i, s)
  <2>1. \A x \in Scanned : ~ SameAs(x, i)
    BY <1>2, <1>8 DEF Seen, Compared
  <2>. QED BY <2>1, SameAsEquivalence DEF Seen, Compared
<1>9. ASSUME NEW p \in pending \ {i}, ~ SameAs(i, p) PROVE Compared(p)' <=> Compared(p)
  BY <1>4, <1>5, <1>9 DEF Compared
<1>10. ASSUME NEW p \in pending \ {i}, SameAs(i, p)
       PROVE  ~ Compared(p) /\ (Compared(p)' <=> \A x \in same : p <= x)
  <2>1. ~ Compared(p)
    BY <1>1, <1>2, <1>10 DEF Compared
  <2>2. (\E s \in Scanned' : SameAs(s, p)')
    BY <1>4, <1>5, <1>10
  <2>3. \A x \in pending' : SameAs(x, p)' <=> x \in same
    BY <1>4, <1>5, <1>7, <1>10, SameAsEquivalence
  <2>4. same \subseteq pending'
    BY <1>5, <1>7
  <2>5. Compared(p)' <=> \A x \in same : p <= x
    BY <1>5, <2>2, <2>3, <2>4 DEF Compared
  <2>. QED BY <2>1, <2>5
<1>11. ASSUME same = {} PROVE Seen' = Seen \cup {i}
  <2>1. \A p \in pending \ {i} : ~ SameAs(i, p)
    BY <1>7, <1>11
  <2>. QED BY <1>2, <1>5, <1>9, <2>1 DEF Seen
<1>12. ASSUME same # {}
       PROVE  Min(same) \notin Seen /\ Seen' = Seen \cup {i, Min(same)}
  <2>. DEFINE m == Min(same)
  <2>1. m \in pending \ {i} /\ SameAs(i, m) /\ m \in same /\ \A x \in same : m <= x
    BY <1>3, <1>7, <1>12
  <2>. HIDE DEF m
  <2>2. m \notin Seen
    BY <2>1, <1>10 DEF Seen, Scanned
  <2>3. \A p \in same : p # m => ~ (\A x \in same : p <= x)
    BY <1>1, <1>7, <2>1
  <2>4. ASSUME NEW p \in pending \ {i} PROVE Compared(p)' <=> Compared(p) \/ p = m
    <3>1. CASE SameAs(i, p)
      BY <1>7, <1>10, <2>1, <2>3, <3>1
    <3>2. CASE ~ SameAs(i, p)
      BY <1>9, <2>1, <3>2
    <3>. QED BY <3>1, <3>2
  <2>5. Seen' = Seen \cup {i, m}
    BY <1>2, <1>5, <2>1, <2>4 DEF Seen
  <2>. QED BY <2>2, <2>5 DEF m
<1>. QED BY <1>2, <1>3, <1>8, <1>11, <1>12 DEF i

(* Marking one of two states leaves one of each chain.                     *)
LEMMA MarkOne ==
    ASSUME NEW S, NEW marked, marked \subseteq S, OneLeft(S, marked),
           NEW i, NEW j, SameAs(i, j), i # j, j \notin S,
           i \notin S => \A s \in S : ~ SameAs(i, s),
           NEW loser, loser \in {i, j}, i \in marked => loser = j
    PROVE  loser \notin marked /\ OneLeft(S \cup {i, j}, marked \cup {loser})
<1>. USE SameAsEquivalence
<1>1. loser \notin marked
  OBVIOUS
<1>2. ASSUME NEW k \in S \cup {i, j}, ~ SameAs(i, k)
      PROVE  \E u \in S \cup {i, j} :
                /\ u \notin marked \cup {loser} /\ SameAs(k, u)
                /\ \A w \in S \cup {i, j} : w \notin marked \cup {loser} /\ SameAs(k, w) => w = u
  <2>1. k \in S
    BY <1>2
  <2>2. PICK u \in S : /\ u \notin marked /\ SameAs(k, u)
                       /\ \A w \in S : w \notin marked /\ SameAs(k, w) => w = u
    BY <2>1 DEF OneLeft
  <2>3. ~ SameAs(k, i) /\ ~ SameAs(k, j)
    BY <1>2
  <2>4. u # loser
    BY <2>2, <2>3
  <2>. QED BY <2>2, <2>3, <2>4
<1>3. ASSUME NEW k \in S \cup {i, j}, SameAs(i, k)
      PROVE  \E u \in S \cup {i, j} :
                /\ u \notin marked \cup {loser} /\ SameAs(k, u)
                /\ \A w \in S \cup {i, j} : w \notin marked \cup {loser} /\ SameAs(k, w) => w = u
  <2>1. \A w : SameAs(k, w) <=> SameAs(i, w)
    BY <1>3
  <2>2. CASE i \notin S
    <3>1. i \notin marked /\ j \notin marked /\ \A w \in S : ~ SameAs(i, w)
      BY <2>2
    <3>2. PICK u \in {i, j} : u # loser
      OBVIOUS
    <3>3. \A w \in S \cup {i, j} : w \notin marked \cup {loser} /\ SameAs(i, w) => w = u
      BY <3>1, <3>2
    <3>. QED BY <2>1, <3>1, <3>2, <3>3
  <2>3. CASE i \in S
    <3>1. PICK u \in S : /\ u \notin marked /\ SameAs(i, u)
                         /\ \A w \in S : w \notin marked /\ SameAs(i, w) => w = u
      BY <2>3 DEF OneLeft
    <3>2. CASE loser = j
      BY <2>1, <3>1, <3>2
    <3>3. CASE loser # j
      <4>1. loser = i /\ i \notin marked /\ u = i
        BY <2>3, <3>1, <3>3
      <4>2. \A w \in S \cup {i, j} : w \notin marked \cup {loser} /\ SameAs(i, w) => w = j
        BY <3>1, <4>1
      <4>. QED BY <2>1, <4>1, <4>2
    <3>. QED BY <3>2, <3>3
  <2>. QED BY <2>2, <2>3
<1>. QED BY <1>1, <1>2, <1>3 DEF OneLeft

(* A state seen that is like none before adds a chain of its own.          *)
LEMMA SeeOne ==
    ASSUME NEW S, NEW marked, marked \subseteq S, OneLeft(S, marked), NEW i,
           i \notin S => \A s \in S : ~ SameAs(i, s)
    PROVE  OneLeft(S \cup {i}, marked)
<1>. USE SameAsEquivalence
<1>1. CASE i \in S
  <2>1. S \cup {i} = S
    BY <1>1
  <2>. QED BY <2>1
<1>2. CASE i \notin S
  <2>1. i \notin marked /\ \A s \in S : ~ SameAs(i, s) /\ ~ SameAs(s, i)
    BY <1>2
  <2>2. ASSUME NEW k \in S
        PROVE  \E u \in S \cup {i} :
                  /\ u \notin marked /\ SameAs(k, u)
                  /\ \A w \in S \cup {i} : w \notin marked /\ SameAs(k, w) => w = u
    BY <2>1 DEF OneLeft
  <2>. QED BY <2>1, <2>2 DEF OneLeft
<1>. QED BY <1>1, <1>2

-----------------------------------------------------------------------------
LEMMA DupInit == Init => DupInv
<1>. SUFFICES ASSUME Init PROVE DupInv
  OBVIOUS
<1>1. to_remove = << >> /\ phase = "frontiers"
  BY DEF Init
<1>. QED BY <1>1, InitIInv DEF DupInv, Distinct

(* Before the scan nothing is marked.                                      *)
LEMMA BeforeScan ==
    ASSUME DupInv, IInv', VisitFrontier \/ TryVictims PROVE DupInv'
<1>1. phase' = "frontiers" /\ to_remove' = to_remove
  BY DEF VisitFrontier, TryVictims
<1>. QED BY <1>1 DEF DupInv, Distinct

LEMMA ScanBegins == ASSUME DupInv, IInv', StaticPrune PROVE DupInv'
<1>1. /\ phase = "frontiers" /\ phase' = "duplicates" /\ to_remove' = to_remove
      /\ live' = Unpruned' /\ pending' = live'
  BY DEF StaticPrune, Unpruned, inputs
<1>2. to_remove = << >>
  BY <1>1 DEF DupInv, IInv, Waiting
<1>3. Scanned' = {} /\ Marked' = {}
  BY <1>1, <1>2 DEF Scanned, Marked
<1>4. Seen' = {}
  BY <1>3 DEF Seen, Compared
<1>5. Scanning'
  BY <1>1, <1>3, <1>4 DEF Scanning, OneLeft
<1>. QED BY <1>1, <1>2, <1>5 DEF DupInv, Distinct

LEMMA ScanGoesOn == ASSUME DupInv, IInv', ScanDuplicates PROVE DupInv'
<1>. DEFINE i == Min(pending)
            same == {j \in live : i < j /\ SameAs(i, j)}
<1>1. TypeOK /\ Scanning /\ Distinct(to_remove)
  BY DEF DupInv, IInv, ScanDuplicates
<1>2. /\ phase' = "duplicates" /\ pending # {} /\ pending' = pending \ {i}
      /\ to_remove' = IF same = {} THEN to_remove ELSE Append(to_remove, Loser(i, Min(same)))
      /\ live' = live /\ crash_states' = crash_states /\ trace' = trace
  BY DEF ScanDuplicates, inputs
<1>3. /\ i \in pending
      /\ same = {} => Seen' = Seen \cup {i}
      /\ same # {} => /\ Min(same) \in same /\ Min(same) \notin Seen
                      /\ Seen' = Seen \cup {i, Min(same)}
      /\ i \notin Seen => \A s \in Seen : ~ SameAs(i, s)
  BY <1>1, <1>2, SeenGrows
<1>4. Marked \subseteq Seen /\ OneLeft(Seen, Marked)
  BY <1>1 DEF Scanning
<1>5. /\ live' = Unpruned' /\ pending' \subseteq live'
      /\ \A s \in Scanned', p \in pending' : s < p
  <2>1. live = Unpruned /\ pending \subseteq live /\ live \in SUBSET Nat
        /\ \A s \in Scanned, p \in pending : s < p
    BY <1>1 DEF Scanning, TypeOK
  <2>2. \A p \in pending : i <= p
    BY <2>1, <1>2, MinIsLeast
  <2>. HIDE DEF i
  <2>3. live' = Unpruned'
    BY <1>2, <2>1 DEF Unpruned
  <2>4. Scanned' = Scanned \cup {i}
    BY <1>2, <1>3, <2>1 DEF Scanned
  <2>5. \A p \in pending' : i < p
    BY <1>2, <1>3, <2>1, <2>2
  <2>. QED BY <1>2, <2>1, <2>3, <2>4, <2>5
<1>6. CASE same = {}
  <2>1. Marked' = Marked /\ to_remove' = to_remove
    BY <1>2, <1>6 DEF Marked
  <2>2. OneLeft(Seen \cup {i}, Marked)
    BY <1>3, <1>4, SeeOne
  <2>. HIDE DEF i, same
  <2>3. Seen' = Seen \cup {i}
    BY <1>3, <1>6
  <2>4. Marked' \subseteq Seen'
    BY <1>4, <2>1, <2>3
  <2>5. OneLeft(Seen, Marked)'
    BY <1>2, <2>1, <2>2, <2>3 DEF OneLeft, SameAs
  <2>6. Scanning'
    BY <1>5, <2>4, <2>5 DEF Scanning
  <2>. QED BY <1>1, <1>2, <2>1, <2>6 DEF DupInv, Distinct
<1>7. CASE same # {}
  <2>. DEFINE j == Min(same)
              loser == Loser(i, j)
  <2>1. SameAs(i, j) /\ i # j /\ j \notin Seen
    <3>1. i \in Nat
      BY <1>1, <1>3 DEF TypeOK
    <3>. QED BY <1>3, <1>7, <3>1
  <2>2. loser \in {i, j} /\ (i \in Marked => loser = j)
    BY DEF Loser
  <2>. HIDE DEF i, same, j, loser
  <2>3. loser \notin Marked /\ OneLeft(Seen \cup {i, j}, Marked \cup {loser})
    BY <1>3, <1>4, <2>1, <2>2, MarkOne
  <2>4. to_remove' = Append(to_remove, loser)
    BY <1>2, <1>7 DEF loser, j
  <2>5. to_remove \in Seq(DOMAIN crash_states)
    BY <1>1 DEF TypeOK
  <2>6. /\ DOMAIN to_remove' = DOMAIN to_remove \cup {Len(to_remove) + 1}
        /\ \A k \in DOMAIN to_remove : to_remove'[k] = to_remove[k]
        /\ to_remove'[Len(to_remove) + 1] = loser
    BY <2>4, <2>5
  <2>7. Marked' = Marked \cup {loser}
    BY <2>6 DEF Marked
  <2>8. Distinct(to_remove')
    BY <1>1, <2>3, <2>6 DEF Distinct, Marked
  <2>9. Seen' = Seen \cup {i, j}
    BY <1>3, <1>7 DEF j
  <2>10. Scanning'
    BY <1>2, <1>4, <1>5, <2>2, <2>3, <2>7, <2>9 DEF Scanning, OneLeft, SameAs
  <2>. QED BY <1>2, <2>8, <2>10 DEF DupInv
<1>. QED BY <1>6, <1>7

(* When all states are scanned, all have been seen.                        *)
LEMMA ScanEnds == ASSUME DupInv, IInv', RemoveDuplicates PROVE DupInv'
<1>1. Scanning /\ pending = {} /\ Distinct(to_remove)
  BY DEF DupInv, RemoveDuplicates
<1>2. /\ phase' = "explore" /\ live' = live \ Marked /\ to_remove' = to_remove
      /\ crash_states' = crash_states /\ trace' = trace
  BY DEF RemoveDuplicates, inputs
<1>3. Seen = live /\ live = Unpruned /\ Unpruned' = Unpruned
  BY <1>1, <1>2 DEF Scanning, Seen, Scanned, Unpruned
<1>4. \A k \in live : \E u \in live \ Marked :
         SameAs(k, u) /\ \A w \in live \ Marked : SameAs(k, w) => w = u
  BY <1>1, <1>3 DEF Scanning, OneLeft
<1>. QED BY <1>1, <1>2, <1>3, <1>4 DEF DupInv, SameAs

LEMMA DupStays == ASSUME DupInv, IInv', UNCHANGED genvars PROVE DupInv'
<1>1. /\ UNCHANGED <<trace, crash_states, live, pending, to_remove, phase>>
  BY DEF genvars, inputs
<1>. QED BY <1>1 DEF DupInv, Distinct, Scanning, Scanned, Compared, Seen, OneLeft, Marked,
                    SameAs, Unpruned

-----------------------------------------------------------------------------
LEMMA DupNext == ASSUME DupInv, [Next]_genvars PROVE DupInv'
<1>1. IInv'
  BY VisitFrontierIInv, TryVictimsIInv, RemovalIInv DEF Next, DupInv
<1>. QED BY <1>1, BeforeScan, ScanBegins, ScanGoesOn, ScanEnds, DupStays DEF Next

(* Duplicate removal never removes a state twice, and leaves exactly one   *)
(* state for each set of calls that the pruning leaves (lines 145-165).    *)
THEOREM OneOfEachHolds == Spec => []OneOfEach
<1>1. Init => DupInv
  BY DupInit
<1>2. DupInv /\ [Next]_genvars => DupInv'
  BY DupNext
<1>3. DupInv => OneOfEach
  <2>. SUFFICES ASSUME DupInv, phase = "explore", NEW i \in Unpruned
                PROVE  Cardinality({j \in live : SameAs(i, j)}) = 1
    BY DEF OneOfEach, DupInv, Distinct
  <2>1. PICK u \in live : SameAs(i, u) /\ \A w \in live : SameAs(i, w) => w = u
    BY DEF DupInv
  <2>2. {j \in live : SameAs(i, j)} = {u}
    BY <2>1
  <2>. QED BY <2>2, FS_Singleton
<1>. QED BY <1>1, <1>2, <1>3, PTL DEF Spec
-----------------------------------------------------------------------------
(* The static pruning.  Each set of victims of a frontier that was visited *)
(* has been tried, or is still to be tried.                                *)
Losable(all, V) == \A v \in V : CanBeLost(pbgraph, all, Max(all), v)

Tried ==
    /\ combinations \subseteq Victims(trace, base)
    /\ phase # "frontiers" => combinations = {}
    /\ \A i \in DOMAIN crash_states :
         HasReorder(crash_states[i]) =>
            /\ crash_states[i].victims \in Victims(trace, crash_states[i].base)
            /\ crash_states[i] =
                 ReorderState(pbgraph, crash_states[i].base, crash_states[i].victims)
            /\ Losable(crash_states[i].base, crash_states[i].victims)
    /\ \A f \in AllCombinations(trace) : f \notin frontiers =>
         LET all == AllSyscalls(trace, f)
         IN  \A V \in Victims(trace, all) : Losable(all, V) =>
                \/ base = all /\ V \in combinations
                \/ \E i \in DOMAIN crash_states : crash_states[i] = ReorderState(pbgraph, all, V)

LEMMA InitTried == Init => Tried
<1>. SUFFICES ASSUME Init PROVE Tried
  OBVIOUS
<1>1. /\ combinations = {} /\ phase = "frontiers" /\ crash_states = << >>
      /\ frontiers = AllCombinations(trace)
  BY DEF Init
<1>. QED BY <1>1 DEF Tried

LEMMA VisitFrontierTried == ASSUME IInv, Tried, VisitFrontier PROVE Tried'
<1>1. PICK f \in frontiers :
        /\ frontiers' = frontiers \ {f}
        /\ base' = AllSyscalls(trace, f)
        /\ crash_states' = Append(crash_states, BaseState(base'))
        /\ combinations' = Victims(trace, base')
  BY DEF VisitFrontier
<1>2. /\ phase = "frontiers" /\ phase' = phase /\ combinations = {}
      /\ trace' = trace /\ pbgraph' = pbgraph
  BY DEF VisitFrontier, inputs
<1>3. /\ DOMAIN crash_states' = DOMAIN crash_states \cup {Len(crash_states) + 1}
      /\ \A i \in DOMAIN crash_states : crash_states'[i] = crash_states[i]
      /\ crash_states'[Len(crash_states) + 1] = BaseState(base')
  BY <1>1 DEF IInv, TypeOK
<1>4. ~ HasReorder(BaseState(base'))
  BY DEF HasReorder, BaseState
<1>5. ASSUME NEW i \in DOMAIN crash_states', HasReorder(crash_states'[i])
      PROVE  /\ crash_states'[i].victims \in Victims(trace, crash_states'[i].base)
             /\ crash_states'[i] =
                  ReorderState(pbgraph, crash_states'[i].base, crash_states'[i].victims)
             /\ Losable(crash_states'[i].base, crash_states'[i].victims)
  <2>1. i \in DOMAIN crash_states /\ crash_states'[i] = crash_states[i]
    BY <1>3, <1>4, <1>5
  <2>. QED BY <1>5, <2>1 DEF Tried
<1>6. ASSUME NEW g \in AllCombinations(trace), g \notin frontiers',
             NEW V \in Victims(trace, AllSyscalls(trace, g)), Losable(AllSyscalls(trace, g), V)
      PROVE  \/ base' = AllSyscalls(trace, g) /\ V \in combinations'
             \/ \E i \in DOMAIN crash_states' :
                   crash_states'[i] = ReorderState(pbgraph, AllSyscalls(trace, g), V)
  <2>1. CASE g = f
    BY <1>1, <2>1
  <2>2. CASE g # f
    <3>1. \E i \in DOMAIN crash_states :
             crash_states[i] = ReorderState(pbgraph, AllSyscalls(trace, g), V)
      BY <1>1, <1>2, <1>6, <2>2 DEF Tried
    <3>. QED BY <1>3, <3>1
  <2>. QED BY <2>1, <2>2
<1>. QED BY <1>1, <1>2, <1>5, <1>6 DEF Tried, Losable

LEMMA TryVictimsTried == ASSUME IInv, Tried, TryVictims PROVE Tried'
<1>1. PICK V \in combinations :
        /\ combinations' = combinations \ {V}
        /\ crash_states' =
             IF Losable(base, V)
             THEN Append(crash_states, ReorderState(pbgraph, base, V))
             ELSE crash_states
  BY DEF TryVictims, Losable
<1>2. /\ phase = "frontiers" /\ phase' = phase /\ frontiers' = frontiers /\ base' = base
      /\ trace' = trace /\ pbgraph' = pbgraph
  BY DEF TryVictims, inputs
<1>. DEFINE new == ReorderState(pbgraph, base, V)
<1>3. /\ V \in Victims(trace, base) /\ new.base = base /\ new.victims = V
      /\ new = ReorderState(pbgraph, new.base, new.victims)
  BY <1>1 DEF Tried, ReorderState
<1>. HIDE DEF new
<1>4. /\ \A i \in DOMAIN crash_states : i \in DOMAIN crash_states' /\ crash_states'[i] = crash_states[i]
      /\ \A i \in DOMAIN crash_states' : i \in DOMAIN crash_states \/ (crash_states'[i] = new /\ Losable(base, V))
      /\ Losable(base, V) => \E i \in DOMAIN crash_states' : crash_states'[i] = new
  <2>1. CASE Losable(base, V)
    <3>1. crash_states' = Append(crash_states, new)
      BY <1>1, <2>1 DEF new
    <3>2. /\ DOMAIN crash_states' = DOMAIN crash_states \cup {Len(crash_states) + 1}
          /\ \A i \in DOMAIN crash_states : crash_states'[i] = crash_states[i]
          /\ crash_states'[Len(crash_states) + 1] = new
      BY <3>1 DEF IInv, TypeOK
    <3>. QED BY <2>1, <3>2
  <2>2. CASE ~ Losable(base, V)
    BY <1>1, <2>2
  <2>. QED BY <2>1, <2>2
<1>5. ASSUME NEW i \in DOMAIN crash_states', HasReorder(crash_states'[i])
      PROVE  /\ crash_states'[i].victims \in Victims(trace, crash_states'[i].base)
             /\ crash_states'[i] =
                  ReorderState(pbgraph, crash_states'[i].base, crash_states'[i].victims)
             /\ Losable(crash_states'[i].base, crash_states'[i].victims)
  <2>1. CASE i \in DOMAIN crash_states
    BY <1>4, <1>5, <2>1 DEF Tried
  <2>2. CASE crash_states'[i] = new /\ Losable(base, V)
    BY <1>3, <2>2
  <2>. QED BY <1>4, <2>1, <2>2
<1>6. ASSUME NEW g \in AllCombinations(trace), g \notin frontiers',
             NEW W \in Victims(trace, AllSyscalls(trace, g)), Losable(AllSyscalls(trace, g), W)
      PROVE  \/ base' = AllSyscalls(trace, g) /\ W \in combinations'
             \/ \E i \in DOMAIN crash_states' :
                   crash_states'[i] = ReorderState(pbgraph, AllSyscalls(trace, g), W)
  <2>1. \/ base = AllSyscalls(trace, g) /\ W \in combinations
        \/ \E i \in DOMAIN crash_states :
              crash_states[i] = ReorderState(pbgraph, AllSyscalls(trace, g), W)
    BY <1>2, <1>6 DEF Tried
  <2>2. CASE base = AllSyscalls(trace, g) /\ W = V
    BY <1>4, <1>6, <2>2 DEF new
  <2>. QED BY <1>1, <1>2, <1>4, <2>1, <2>2
<1>7. combinations' \subseteq Victims(trace, base)
  BY <1>1 DEF Tried
<1>. QED BY <1>2, <1>5, <1>6, <1>7 DEF Tried, Losable

LEMMA RemovalTried ==
    ASSUME Tried, StaticPrune \/ ScanDuplicates \/ RemoveDuplicates \/ UNCHANGED genvars
    PROVE  Tried'
<1>1. /\ trace' = trace /\ pbgraph' = pbgraph /\ frontiers' = frontiers /\ base' = base
      /\ combinations' = combinations /\ crash_states' = crash_states
      /\ phase' # "frontiers" => combinations = {}
  BY DEF StaticPrune, ScanDuplicates, RemoveDuplicates, genvars, inputs, Tried
<1>. QED BY <1>1 DEF Tried, Losable

(* A state made by losing V holds what no victim drags along.              *)
LEMMA ReorderCalls ==
    ASSUME NEW pb, NEW all \in SUBSET Call, NEW v \in Call, NEW w \in Call
    PROVE  \A c : c \in ReorderState(pb, all, {v, w}).syscalls <=>
                  /\ c \in all
                  /\ c \notin DependentCalls(pb, all, Max(all), v)
                  /\ c \notin DependentCalls(pb, all, Max(all), w)
<1>. DEFINE V == {v, w}
            D(x) == DependentCalls(pb, all, Max(all), x)
            lost == Reorder(pb, all, V)
<1>1. V \in SUBSET Call /\ V \in SUBSET Nat /\ V # {}
  BY DEF Call
<1>2. /\ Min(V) \in V /\ Max(V) \in V
      /\ \A x \in V : Min(V) <= x /\ x <= Max(V)
  BY <1>1, MinIsLeast, MaxIsGreatest
<1>3. ReorderState(pb, all, V).syscalls = {c \in all : \A k \in DOMAIN lost : c \notin lost[k]}
  BY DEF ReorderState
<1>. HIDE DEF D
<1>4. CASE v = w
  <2>1. Cardinality(V) = 1 /\ Min(V) = v
    BY <1>2, <1>4, FS_Singleton
  <2>2. lost = << D(v) >>
    BY <2>1 DEF Reorder, D
  <2>. HIDE DEF lost
  <2>3. \A c : (\A k \in DOMAIN lost : c \notin lost[k]) <=> c \notin D(v)
    BY <2>2
  <2>. QED BY <1>3, <1>4, <2>3 DEF D
<1>5. CASE v # w
  <2>1. Cardinality(V) # 1
    <3>1. IsFiniteSet({v}) /\ Cardinality({v}) = 1
      BY FS_Singleton
    <3>2. Cardinality({v} \cup {w}) = 2
      BY <1>5, <3>1, FS_AddElement
    <3>3. {v} \cup {w} = V
      OBVIOUS
    <3>. QED BY <3>2, <3>3
  <2>2. lost = << D(Min(V)), D(Max(V)) >>
    BY <2>1 DEF Reorder, D
  <2>3. \/ Min(V) = v /\ Max(V) = w
        \/ Min(V) = w /\ Max(V) = v
    <3>1. v \in Nat /\ w \in Nat
      BY <1>1
    <3>2. Min(V) <= v /\ Min(V) <= w /\ v <= Max(V) /\ w <= Max(V)
      BY <1>2
    <3>3. (Min(V) = v \/ Min(V) = w) /\ (Max(V) = v \/ Max(V) = w)
      BY <1>2
    <3>. QED BY <1>5, <3>1, <3>2, <3>3
  <2>. HIDE DEF lost
  <2>4. \A c : (\A k \in DOMAIN lost : c \notin lost[k]) <=> c \notin D(v) /\ c \notin D(w)
    BY <2>2, <2>3
  <2>. QED BY <1>3, <2>4 DEF D
<1>. QED BY <1>4, <1>5

(* What a legal state keeps up to its last call m that is not an fsync is  *)
(* a state of the list too: a cut, or a cut without the victims before m.  *)
LEMMA StateUpTo ==
    ASSUME IInv, Tried, phase # "frontiers", Forward,
           NEW i \in DOMAIN crash_states, Legal(crash_states[i]),
           NEW m \in crash_states[i].syscalls
    PROVE  \E k \in DOMAIN crash_states :
              crash_states[k].syscalls = {c \in crash_states[i].syscalls : c <= m}
<1>. DEFINE st == crash_states[i]
            all == {c \in st.base : c <= m}
            kept == {c \in st.syscalls : c <= m}
<1>1. /\ trace \in Traces /\ frontiers = {} /\ combinations = {}
      /\ st.base \in DownSets(trace) /\ st.base \in SUBSET Call
      /\ st.syscalls \in SUBSET Call /\ GoodState(st)
  <2>1. st \in CrashState /\ GoodState(st) /\ trace \in Trace
    BY DEF IInv, TypeOK, States, Inputs
  <2>2. frontiers = {} /\ combinations = {}
    BY DEF IInv, Visited, Tried
  <2>. HIDE DEF st
  <2>3. st.base \in DownSets(trace)
    BY <2>1 DEF GoodState
  <2>4. st.base \in SUBSET Call /\ st.syscalls \in SUBSET Call
    BY <2>1 DEF CrashState
  <2>. QED BY <2>1, <2>2, <2>3, <2>4, TraceAssumption
<1>2. st.syscalls \subseteq st.base
  BY <1>1 DEF GoodState, Lost
<1>3. m \in Call /\ m \in st.syscalls /\ m \in all
  BY <1>1, <1>2 DEF Call
<1>. HIDE DEF st
<1>4. all \in SUBSET Call /\ all # {} /\ Max(all) = m
  <2>1. all \in SUBSET Call /\ all # {}
    BY <1>1, <1>3
  <2>2. Max(all) \in all /\ \A c \in all : c <= Max(all)
    <3>. HIDE DEF all
    <3>. QED BY <2>1, MaxIsGreatest
  <2>3. m <= Max(all) /\ Max(all) <= m /\ Max(all) \in Call
    BY <1>1, <1>3, <2>2
  <2>. QED BY <1>3, <2>1, <2>3 DEF Call
<1>5. all \in DownSets(trace)
  <2>. SUFFICES ASSUME NEW e \in Edges(trace), e[2] \in all PROVE e[1] \in all
    BY <1>4 DEF DownSets
  <2>1. e[1] \in st.base
    BY <1>1 DEF DownSets
  <2>2. e[1] < e[2]
    BY DEF Edges, Forward
  <2>3. e[1] \in Call /\ e[2] \in Call /\ e[2] <= m
    BY <1>1, <2>1
  <2>. QED BY <1>3, <2>1, <2>2, <2>3 DEF Call
<1>6. PICK f \in AllCombinations(trace) : AllSyscalls(trace, f) = all
  BY <1>1, <1>5, CutHasFrontier
<1>7. \E k \in DOMAIN crash_states : crash_states[k].syscalls = all
  BY <1>1, <1>6 DEF IInv, Visited
<1>8. CASE ~ HasReorder(st)
  <2>1. kept = all
    BY <1>1, <1>8 DEF GoodState, HasReorder
  <2>. QED BY <1>7, <2>1 DEF st
<1>9. CASE HasReorder(st)
  <2>1. st = ReorderState(pbgraph, st.base, st.victims) /\ st.victims \in Victims(trace, st.base)
    BY <1>9 DEF Tried, st
  <2>2. PICK v \in Call, w \in Call :
           /\ st.victims = {v, w} /\ v \notin Fsyncs(trace) /\ w \notin Fsyncs(trace)
           /\ v \in st.base /\ w \in st.base
    BY <1>1, <2>1 DEF Victims
  <2>. DEFINE D(x) == DependentCalls(pbgraph, st.base, Max(st.base), x)
              E(x) == DependentCalls(pbgraph, all, m, x)
  <2>3. st.syscalls = {c \in st.base : c \notin D(v) /\ c \notin D(w)}
    <3>1. st = ReorderState(pbgraph, st.base, {v, w})
      BY <2>1, <2>2
    <3>2. \A c : c \in ReorderState(pbgraph, st.base, {v, w}).syscalls
                    <=> c \in st.base /\ c \notin D(v) /\ c \notin D(w)
      <4>1. st.base \in SUBSET Call
        BY <1>1
      <4>. QED BY <4>1, ReorderCalls
    <3>3. \A c : c \in st.syscalls <=> c \in st.base /\ c \notin D(v) /\ c \notin D(w)
      <4>. HIDE DEF D
      <4>. QED BY <3>1, <3>2
    <3>. QED BY <1>1, <3>3
  <2>4. Max(st.base) \in Call /\ \A c \in st.base : c <= Max(st.base)
    BY <1>1, <1>2, <1>3, MaxIsGreatest
  <2>5. ASSUME NEW x \in Call, NEW c \in all, m \notin D(x)
        PROVE  /\ x < m => (c \in D(x) <=> c \in E(x))
               /\ ~ (x < m) => c \notin D(x)
    <3>1. c \in Nat /\ m \in Nat /\ x \in Nat /\ Max(st.base) \in Nat
          /\ c <= m /\ m <= Max(st.base) /\ c \in st.base /\ c \in all
      BY <1>1, <1>2, <1>3, <2>4 DEF Call
    <3>2. m # x /\ ~ (m \in Dependents(pbgraph, st.base, Max(st.base), x))
      BY <2>5 DEF DependentCalls
    <3>3. CASE c = m
      <4>1. c \notin D(x) /\ c \notin E(x)
        BY <3>1, <3>2, <3>3 DEF DependentCalls, Dependents
      <4>. QED BY <4>1
    <3>4. CASE c # m
      <4>1. c < m /\ c < Max(st.base)
        BY <3>1, <3>4
      <4>. HIDE DEF all
      <4>2. c \in D(x) <=> (c = x \/ (x < c /\ <<x, c>> \in pbgraph))
        BY <3>1, <4>1 DEF DependentCalls, Dependents
      <4>3. c \in E(x) <=> (c = x \/ (x < c /\ <<x, c>> \in pbgraph))
        BY <3>1, <4>1 DEF DependentCalls, Dependents
      <4>. QED BY <3>1, <3>2, <4>1, <4>2, <4>3
    <3>. QED BY <3>3, <3>4
  <2>6. m \notin D(v) /\ m \notin D(w)
    BY <1>3, <2>3
  <2>7. ASSUME NEW x \in {v, w}, x < m
        PROVE  x \in all /\ x # m /\ CanBeLost(pbgraph, all, m, x)
    <3>1. x \in all /\ x # m
      BY <1>1, <1>3, <2>2, <2>7 DEF Call
    <3>2. ASSUME NEW c \in E(x), <<c, m>> \in pbgraph PROVE FALSE
      <4>1. c \in all
        BY <3>1 DEF DependentCalls, Dependents
      <4>2. c \in D(x)
        BY <2>2, <2>5, <2>6, <2>7, <4>1
      <4>3. c \notin st.syscalls
        BY <2>3, <4>2
      <4>4. <<c, m>>[2] \in st.syscalls
        BY <1>3
      <4>5. <<c, m>>[1] \in st.syscalls
        BY <3>2, <4>4 DEF Legal, st
      <4>. QED BY <4>3, <4>5
    <3>. QED BY <3>1, <3>2 DEF CanBeLost
  <2>8. ASSUME NEW x \in {v, w}, NEW y \in {v, w}, x < m, y < m,
               kept = {c \in all : c \notin E(x) /\ c \notin E(y)}
        PROVE  \E k \in DOMAIN crash_states : crash_states[k].syscalls = kept
    <3>1. /\ x \in all \ {m} /\ y \in all \ {m}
          /\ x \notin Fsyncs(trace) /\ y \notin Fsyncs(trace)
      BY <2>2, <2>7, <2>8
    <3>. HIDE DEF all, kept
    <3>2. {x, y} \in Victims(trace, all)
      BY <1>4, <3>1 DEF Victims
    <3>3. Losable(all, {x, y})
      BY <1>4, <2>7, <2>8 DEF Losable
    <3>4. PICK k \in DOMAIN crash_states : crash_states[k] = ReorderState(pbgraph, all, {x, y})
      BY <1>1, <1>6, <3>2, <3>3 DEF Tried
    <3>5. x \in Call /\ y \in Call
      BY <1>4, <3>1
    <3>6. crash_states[k].syscalls = {c \in all : c \notin E(x) /\ c \notin E(y)}
      <4>1. \A c : c \in crash_states[k].syscalls <=> c \in all /\ c \notin E(x) /\ c \notin E(y)
        BY <1>4, <3>4, <3>5, ReorderCalls
      <4>2. crash_states[k].syscalls \subseteq all
        BY <4>1
      <4>3. crash_states[k] \in CrashState
        BY DEF IInv, TypeOK
      <4>. QED BY <1>4, <4>1, <4>3 DEF CrashState
    <3>. QED BY <2>8, <3>6
  <2>9. kept = {c \in all : c \notin D(v) /\ c \notin D(w)}
    BY <1>2, <2>3
  <2>. HIDE DEF all, kept, D, E
  <2>10. CASE v < m /\ w < m
    <3>1. kept = {c \in all : c \notin E(v) /\ c \notin E(w)}
      BY <2>5, <2>6, <2>9, <2>10
    <3>. QED BY <2>8, <2>10, <3>1 DEF kept, st
  <2>11. CASE v < m /\ ~ (w < m)
    <3>1. kept = {c \in all : c \notin E(v) /\ c \notin E(v)}
      BY <2>5, <2>6, <2>9, <2>11
    <3>. QED BY <2>8, <2>11, <3>1 DEF kept, st
  <2>12. CASE w < m /\ ~ (v < m)
    <3>1. kept = {c \in all : c \notin E(w) /\ c \notin E(w)}
      BY <2>5, <2>6, <2>9, <2>12
    <3>. QED BY <2>8, <2>12, <3>1 DEF kept, st
  <2>13. CASE ~ (v < m) /\ ~ (w < m)
    <3>1. kept = all
      BY <2>5, <2>6, <2>9, <2>13
    <3>. QED BY <1>7, <3>1 DEF kept, st
  <2>. QED BY <2>10, <2>11, <2>12, <2>13
<1>. QED BY <1>8, <1>9

(* A state whose last call is neither an fsync nor a data chunk is in the  *)
(* list at the end, or another one with the same calls.                    *)
LEMMA SurvivesPruning ==
    ASSUME DupInv, phase = "explore", NEW k \in DOMAIN crash_states,
           ~ Prunable(trace, crash_states[k])
    PROVE  \E j \in live : crash_states[j].syscalls = crash_states[k].syscalls
<1>1. k \in Unpruned
  BY DEF Unpruned
<1>. QED BY <1>1 DEF DupInv, SameAs

(* The pruning leaves no legal disk image of a trace without a state to    *)
(* test, but those whose last change is a write of raw data (lines         *)
(* 127-165): what the state keeps up to its last call that is not an fsync *)
(* is a state of the list, with the same image.                            *)
THEOREM NoImageIsLost == Spec => []NoImageLost
<1>1. Init => DupInv /\ Tried
  BY DupInit, InitTried
<1>2. DupInv /\ Tried /\ [Next]_genvars => DupInv' /\ Tried'
  <2>. SUFFICES ASSUME DupInv, Tried, [Next]_genvars PROVE DupInv' /\ Tried'
    OBVIOUS
  <2>1. DupInv'
    BY DupNext
  <2>2. Tried'
    BY VisitFrontierTried, TryVictimsTried, RemovalTried DEF Next, DupInv
  <2>. QED BY <2>1, <2>2
<1>3. DupInv /\ Tried => NoImageLost
  <2>. SUFFICES ASSUME DupInv, Tried, phase = "explore", Forward,
                       NEW i \in DOMAIN crash_states, Legal(crash_states[i]),
                       LET image == DiskImage(crash_states[i])
                       IN  image # {} => trace.kind[Max(image)] # "chunk"
                PROVE  \E j \in live : DiskImage(crash_states[j]) = DiskImage(crash_states[i])
    BY DEF NoImageLost
  <2>. DEFINE S == crash_states[i].syscalls
              I == S \ Fsyncs(trace)
  <2>1. IInv /\ trace \in Traces /\ S \in SUBSET Call /\ I \in SUBSET Call
    <3>1. IInv /\ trace \in Traces
      BY TraceAssumption DEF DupInv, IInv, Inputs
    <3>2. crash_states[i] \in CrashState
      BY DEF DupInv, IInv, TypeOK
    <3>3. S \in SUBSET Call
      BY <3>2 DEF CrashState
    <3>. QED BY <3>1, <3>3
  <2>2. I # {} => trace.kind[Max(I)] # "chunk"
    BY DEF DiskImage
  <2>3. CASE I = {}
    <3>1. {} \in DownSets(trace)
      BY DEF DownSets
    <3>2. PICK f \in AllCombinations(trace) : AllSyscalls(trace, f) = {}
      BY <2>1, <3>1, CutHasFrontier
    <3>3. PICK k \in DOMAIN crash_states : crash_states[k].syscalls = {}
      BY <2>1, <3>2 DEF IInv, Visited
    <3>4. PICK j \in live : crash_states[j].syscalls = {}
      BY <3>3, SurvivesPruning DEF Prunable
    <3>. QED BY <2>3, <3>4 DEF DiskImage
  <2>4. CASE I # {}
    <3>. DEFINE m == Max(I)
                kept == {c \in S : c <= m}
    <3>. HIDE DEF I
    <3>1. m \in I /\ \A c \in I : c <= m
      BY <2>1, <2>4, MaxIsGreatest
    <3>2. trace.kind[m] # "chunk"
      BY <2>2, <2>4
    <3>. HIDE DEF m
    <3>3. m \in S /\ m \in Call /\ trace.kind[m] \notin {"fsync", "chunk"}
      BY <2>1, <3>1, <3>2 DEF I, Fsyncs
    <3>4. PICK k \in DOMAIN crash_states : crash_states[k].syscalls = kept
      BY <2>1, <3>3, StateUpTo
    <3>5. Max(kept) = m
      <4>1. kept \in SUBSET Call /\ m \in kept
        BY <2>1, <3>3 DEF Call
      <4>2. Max(kept) \in kept /\ m <= Max(kept)
        <5>. HIDE DEF kept
        <5>. QED BY <4>1, MaxIsGreatest
      <4>3. Max(kept) <= m /\ Max(kept) \in Call
        BY <4>1, <4>2
      <4>. QED BY <3>3, <4>2, <4>3 DEF Call
    <3>6. ~ Prunable(trace, crash_states[k])
      BY <3>3, <3>4, <3>5 DEF Prunable
    <3>7. PICK j \in live : crash_states[j].syscalls = kept
      BY <3>4, <3>6, SurvivesPruning
    <3>8. kept \ Fsyncs(trace) = I
      BY <3>1 DEF I
    <3>. QED BY <3>7, <3>8 DEF DiskImage, I
  <2>. QED BY <2>3, <2>4
<1>. QED BY <1>1, <1>2, <1>3, PTL DEF Spec
-----------------------------------------------------------------------------
(* The order of the list: a cut comes before every larger one, and the     *)
(* states of a cut after it, those that lose one victim before the others. *)
Follows(t, s) ==
    t.base \subseteq s.base =>
        /\ t.base = s.base /\ HasReorder(t)
        /\ HasReorder(s) => Cardinality(s.victims) <= Cardinality(t.victims)

Listed ==
    /\ \A i, j \in DOMAIN crash_states : i < j => Follows(crash_states[j], crash_states[i])
    /\ \A i \in DOMAIN crash_states : \A f \in frontiers :
         ~ (AllSyscalls(trace, f) \subseteq crash_states[i].base)
    /\ \A i \in DOMAIN crash_states : \A V \in combinations :
         Follows(ReorderState(pbgraph, base, V), crash_states[i])
    /\ combinations # {} => \E i \in DOMAIN crash_states : crash_states[i].base = base

(* A later frontier holds a call the earlier one does not.                 *)
LEMMA LaterFrontier ==
    ASSUME NEW t \in Traces, NEW f \in AllCombinations(t), NEW g \in AllCombinations(t),
           ProductOrder(f, g), f # g
    PROVE  ~ (AllSyscalls(t, g) \subseteq AllSyscalls(t, f))
<1>1. PICK s \in Service : f[s] < g[s]
  BY DEF ProductOrder
<1>2. /\ f[s] \in CallsOf(t, s) \cup {None} /\ g[s] \in CallsOf(t, s) \cup {None}
  BY DEF AllCombinations
<1>3. f[s] \in Nat /\ g[s] \in Nat
  BY <1>2 DEF CallsOf, Call, None
<1>4. g[s] \in Call /\ t.svc[g[s]] = s
  BY <1>1, <1>2, <1>3 DEF CallsOf, None
<1>5. g[s] \in AllSyscalls(t, g) /\ g[s] \notin AllSyscalls(t, f)
  BY <1>1, <1>3, <1>4 DEF AllSyscalls
<1>. QED BY <1>5

(* What a state that loses victims is, whether they can be lost or not.    *)
LEMMA ReorderFields ==
    ASSUME NEW pb, NEW all \in SUBSET Call, all # {}, NEW V
    PROVE  LET st == ReorderState(pb, all, V)
           IN  st.base = all /\ st.victims = V /\ st.pivot = Max(all) /\ HasReorder(st)
<1>1. Max(all) \in Call
  BY MaxIsGreatest
<1>. QED BY <1>1 DEF ReorderState, HasReorder, Call, None

LEMMA VictimsCounted ==
    ASSUME NEW v \in Call, NEW w \in Call
    PROVE  /\ IsFiniteSet({v, w}) /\ Cardinality({v, w}) \in Nat
           /\ Cardinality({v, w}) = IF v = w THEN 1 ELSE 2
<1>1. IsFiniteSet({v}) /\ Cardinality({v}) = 1
  BY FS_Singleton
<1>2. CASE v = w
  <2>1. {v, w} = {v}
    BY <1>2
  <2>. QED BY <1>1, <1>2, <2>1
<1>3. CASE v # w
  <2>1. IsFiniteSet({v} \cup {w}) /\ Cardinality({v} \cup {w}) = 2
    BY <1>1, <1>3, FS_AddElement
  <2>2. {v} \cup {w} = {v, w}
    OBVIOUS
  <2>. QED BY <1>3, <2>1, <2>2
<1>. QED BY <1>2, <1>3

LEMMA InitListed == Init => Listed
<1>. SUFFICES ASSUME Init PROVE Listed
  OBVIOUS
<1>1. crash_states = << >> /\ combinations = {}
  BY DEF Init
<1>. QED BY <1>1 DEF Listed

LEMMA VisitFrontierListed == ASSUME IInv, Listed, VisitFrontier PROVE Listed'
<1>1. PICK f \in frontiers :
        /\ \A g \in frontiers : ProductOrder(f, g)
        /\ frontiers' = frontiers \ {f}
        /\ base' = AllSyscalls(trace, f)
        /\ crash_states' = Append(crash_states, BaseState(base'))
        /\ combinations' = Victims(trace, base')
  BY DEF VisitFrontier
<1>2. /\ trace' = trace /\ pbgraph' = pbgraph /\ trace \in Traces
      /\ frontiers \subseteq AllCombinations(trace) /\ crash_states \in Seq(CrashState)
  BY TraceAssumption DEF VisitFrontier, inputs, IInv, Visiting, Inputs, TypeOK
<1>. DEFINE n == Len(crash_states) + 1
<1>3. /\ DOMAIN crash_states' = DOMAIN crash_states \cup {n}
      /\ \A i \in DOMAIN crash_states : crash_states'[i] = crash_states[i] /\ i < n
      /\ crash_states'[n] = BaseState(base')
      /\ ~ (n < n) /\ \A i \in DOMAIN crash_states : ~ (n < i)
  BY <1>1, <1>2
<1>. HIDE DEF n
<1>4. BaseState(base').base = base' /\ ~ HasReorder(BaseState(base'))
  BY DEF BaseState, HasReorder
<1>5. \A i \in DOMAIN crash_states : ~ (base' \subseteq crash_states[i].base)
  BY <1>1 DEF Listed
<1>6. ASSUME NEW i \in DOMAIN crash_states', NEW j \in DOMAIN crash_states', i < j
      PROVE  Follows(crash_states'[j], crash_states'[i])
  <2>1. CASE j = n
    BY <1>3, <1>4, <1>5, <1>6, <2>1 DEF Follows
  <2>2. CASE j # n
    BY <1>3, <1>6, <2>2 DEF Listed
  <2>. QED BY <2>1, <2>2
<1>7. ASSUME NEW i \in DOMAIN crash_states', NEW g \in frontiers'
      PROVE  ~ (AllSyscalls(trace, g) \subseteq crash_states'[i].base)
  <2>1. CASE i = n
    BY <1>1, <1>2, <1>3, <1>4, <1>7, <2>1, LaterFrontier
  <2>2. CASE i # n
    BY <1>1, <1>3, <1>7, <2>2 DEF Listed
  <2>. QED BY <2>1, <2>2
<1>8. ASSUME NEW i \in DOMAIN crash_states', NEW V \in combinations'
      PROVE  Follows(ReorderState(pbgraph, base', V), crash_states'[i])
  <2>. DEFINE st == ReorderState(pbgraph, base', V)
  <2>1. base' \in SUBSET Call /\ base' # {}
    BY <1>1, <1>8 DEF AllSyscalls, Victims
  <2>2. st.base = base' /\ HasReorder(st)
    BY <2>1, ReorderFields
  <2>. HIDE DEF st
  <2>3. Follows(st, crash_states'[i])
    BY <1>3, <1>4, <1>5, <2>2 DEF Follows
  <2>. QED BY <2>3 DEF st
<1>9. \E i \in DOMAIN crash_states' : crash_states'[i].base = base'
  BY <1>3, <1>4
<1>. QED BY <1>2, <1>6, <1>7, <1>8, <1>9 DEF Listed, Follows, HasReorder

LEMMA TryVictimsListed == ASSUME IInv, Listed, TryVictims PROVE Listed'
<1>1. PICK V \in combinations :
        /\ \A W \in combinations : CombinationOrder(V, W)
        /\ combinations' = combinations \ {V}
        /\ \/ crash_states' = Append(crash_states, ReorderState(pbgraph, base, V))
           \/ crash_states' = crash_states
  BY DEF TryVictims
<1>2. /\ trace' = trace /\ pbgraph' = pbgraph /\ frontiers' = frontiers /\ base' = base
      /\ crash_states \in Seq(CrashState) /\ base \in SUBSET Call /\ base # {}
  BY <1>1 DEF TryVictims, inputs, IInv, Visiting, TypeOK
<1>3. \A W \in combinations : Cardinality(W) \in Nat
  <2>1. \A W \in combinations : \E v, w \in Call : W = {v, w}
    BY <1>2 DEF IInv, Visiting
  <2>. SUFFICES ASSUME NEW W \in combinations PROVE Cardinality(W) \in Nat
    OBVIOUS
  <2>2. PICK v \in Call, w \in Call : W = {v, w}
    BY <2>1
  <2>. QED BY <2>2, VictimsCounted
<1>4. \A W \in combinations : Cardinality(V) <= Cardinality(W)
  <2>. SUFFICES ASSUME NEW W \in combinations PROVE Cardinality(V) <= Cardinality(W)
    OBVIOUS
  <2>1. Cardinality(V) \in Nat /\ Cardinality(W) \in Nat
    BY <1>3
  <2>2. Cardinality(V) < Cardinality(W) \/ Cardinality(V) = Cardinality(W)
    BY <1>1 DEF CombinationOrder
  <2>. QED BY <2>1, <2>2
<1>. DEFINE new == ReorderState(pbgraph, base, V)
            n == Len(crash_states) + 1
<1>5. new.base = base /\ new.victims = V
  BY <1>2, ReorderFields
<1>6. CASE crash_states' = crash_states
  BY <1>1, <1>2, <1>6 DEF Listed, Follows, HasReorder
<1>7. CASE crash_states' = Append(crash_states, new)
  <2>1. /\ DOMAIN crash_states' = DOMAIN crash_states \cup {n}
        /\ \A i \in DOMAIN crash_states : crash_states'[i] = crash_states[i] /\ i < n
        /\ crash_states'[n] = new
        /\ ~ (n < n) /\ \A i \in DOMAIN crash_states : ~ (n < i)
    <3>. HIDE DEF new
    <3>. QED BY <1>2, <1>7
  <2>. HIDE DEF n
  <2>2. ASSUME NEW i \in DOMAIN crash_states', NEW j \in DOMAIN crash_states', i < j
        PROVE  Follows(crash_states'[j], crash_states'[i])
    <3>1. CASE j = n
      <4>1. i \in DOMAIN crash_states
        BY <2>1, <2>2, <3>1
      <4>2. Follows(new, crash_states[i])
        BY <1>1, <4>1 DEF Listed
      <4>. HIDE DEF new
      <4>. QED BY <2>1, <3>1, <4>1, <4>2
    <3>2. CASE j # n
      <4>. HIDE DEF new
      <4>. QED BY <2>1, <2>2, <3>2 DEF Listed
    <3>. QED BY <3>1, <3>2
  <2>. HIDE DEF new
  <2>3. ASSUME NEW i \in DOMAIN crash_states', NEW f \in frontiers
        PROVE  ~ (AllSyscalls(trace, f) \subseteq crash_states'[i].base)
    <3>1. \A k \in DOMAIN crash_states : ~ (AllSyscalls(trace, f) \subseteq crash_states[k].base)
      BY DEF Listed
    <3>2. \E k \in DOMAIN crash_states : crash_states[k].base = base
      BY <1>1 DEF Listed
    <3>. QED BY <1>5, <2>1, <3>1, <3>2
  <2>4. ASSUME NEW i \in DOMAIN crash_states', NEW W \in combinations'
        PROVE  Follows(ReorderState(pbgraph, base, W), crash_states'[i])
    <3>1. CASE i = n
      <4>. DEFINE st == ReorderState(pbgraph, base, W)
      <4>1. st.base = base /\ HasReorder(st) /\ st.victims = W
        BY <1>2, ReorderFields
      <4>. HIDE DEF st
      <4>2. Follows(st, new)
        BY <1>1, <1>4, <1>5, <2>4, <4>1 DEF Follows
      <4>. QED BY <2>1, <3>1, <4>2 DEF st
    <3>2. CASE i # n
      BY <1>1, <2>1, <2>4, <3>2 DEF Listed
    <3>. QED BY <3>1, <3>2
  <2>5. \E i \in DOMAIN crash_states' : crash_states'[i].base = base
    BY <1>5, <2>1
  <2>. QED BY <1>2, <2>2, <2>3, <2>4, <2>5 DEF Listed, Follows, HasReorder
<1>. QED BY <1>1, <1>6, <1>7

LEMMA RemovalListed ==
    ASSUME Listed, StaticPrune \/ ScanDuplicates \/ RemoveDuplicates \/ UNCHANGED genvars
    PROVE  Listed'
<1>1. /\ trace' = trace /\ pbgraph' = pbgraph /\ frontiers' = frontiers /\ base' = base
      /\ combinations' = combinations /\ crash_states' = crash_states
  BY DEF StaticPrune, ScanDuplicates, RemoveDuplicates, genvars, inputs
<1>. QED BY <1>1 DEF Listed, Follows, HasReorder
-----------------------------------------------------------------------------
(* NumDropped adds up the sizes of the one or two sets of a state.         *)
Sums(sum, q) ==
    sum = [s \in SUBSET (DOMAIN q) |->
             IF s = {} THEN 0
             ELSE Cardinality(q[CHOOSE x \in s : TRUE]) + sum[s \ {CHOOSE x \in s : TRUE}]]

Size(q, k) == IF k \in DOMAIN q THEN Cardinality(q[k]) ELSE 0

LEMMA DroppedIsSum ==
    ASSUME NEW st
    PROVE  NumDropped(st) = (CHOOSE sum : Sums(sum, st.reorder))[DOMAIN st.reorder]
BY DEF NumDropped, MapThenSumSet, MapThenFoldSet, Sums

LEMMA SizesAdded ==
    ASSUME NEW st, DOMAIN st.reorder \subseteq {1, 2},
           \A k \in DOMAIN st.reorder : Cardinality(st.reorder[k]) \in Int
    PROVE  NumDropped(st) = Size(st.reorder, 1) + Size(st.reorder, 2)
<1>. DEFINE q == st.reorder
            All == DOMAIN q
            Part(s, k) == IF k \in s THEN Cardinality(q[k]) ELSE 0
            first(s) == CHOOSE x \in s : TRUE
            h == [s \in SUBSET All |-> Part(s, 1) + Part(s, 2)]
<1>1. ASSUME NEW s \in SUBSET All, s # {}
      PROVE  /\ first(s) \in s /\ first(s) \in {1, 2} /\ first(s) \in All
             /\ s \ {first(s)} \in SUBSET All
             /\ Part(s, 1) + Part(s, 2) =
                  Cardinality(q[first(s)]) + (Part(s \ {first(s)}, 1) + Part(s \ {first(s)}, 2))
  <2>1. first(s) \in s
    BY <1>1
  <2>. HIDE DEF first, q
  <2>2. \A k \in s : Cardinality(q[k]) \in Int
    BY DEF q
  <2>3. first(s) = 1 \/ first(s) = 2
    BY <2>1 DEF q
  <2>4. first(s) \in All /\ s \ {first(s)} \in SUBSET All
    BY <2>1
  <2>5. CASE first(s) = 1
    <3>1. /\ Part(s, 1) = Cardinality(q[1]) /\ Part(s \ {first(s)}, 1) = 0
          /\ Part(s, 2) = Part(s \ {first(s)}, 2) /\ Part(s, 2) \in Int /\ Cardinality(q[1]) \in Int
      BY <2>1, <2>2, <2>5
    <3>. HIDE DEF Part
    <3>. QED BY <2>1, <2>4, <2>5, <3>1
  <2>6. CASE first(s) = 2
    <3>1. /\ Part(s, 2) = Cardinality(q[2]) /\ Part(s \ {first(s)}, 2) = 0
          /\ Part(s, 1) = Part(s \ {first(s)}, 1) /\ Part(s, 1) \in Int /\ Cardinality(q[2]) \in Int
      BY <2>1, <2>2, <2>6
    <3>. HIDE DEF Part
    <3>. QED BY <2>1, <2>4, <2>6, <3>1
  <2>. QED BY <2>3, <2>5, <2>6
<1>. HIDE DEF first
<1>2. Sums(h, q)
  <2>1. ASSUME NEW s \in SUBSET All
        PROVE  h[s] = IF s = {} THEN 0 ELSE Cardinality(q[first(s)]) + h[s \ {first(s)}]
    <3>1. CASE s = {}
      BY <3>1
    <3>2. CASE s # {}
      BY <1>1, <3>2
    <3>. QED BY <3>1, <3>2
  <2>2. h = [s \in SUBSET All |-> h[s]]
    OBVIOUS
  <2>. HIDE DEF h, q
  <2>3. h = [s \in SUBSET All |-> IF s = {} THEN 0 ELSE Cardinality(q[first(s)]) + h[s \ {first(s)}]]
    BY <2>1, <2>2, Zenon
  <2>. QED BY <2>3 DEF Sums, first
<1>3. ASSUME NEW sum, Sums(sum, q)
      PROVE  sum[All] = Part(All, 1) + Part(All, 2)
  <2>. HIDE DEF q, Part
  <2>1. \A s \in SUBSET All :
           sum[s] = IF s = {} THEN 0 ELSE Cardinality(q[first(s)]) + sum[s \ {first(s)}]
    BY <1>3 DEF Sums, first
  <2>2. \A k \in All : Cardinality(q[k]) \in Int
    BY DEF q
  <2>3. sum[{}] = 0
    BY <2>1
  <2>4. ASSUME NEW s \in SUBSET All, s # {}, s \ {first(s)} = {} 
        PROVE  sum[s] = Part(s, 1) + Part(s, 2)
    <3>1. first(s) \in All /\ Cardinality(q[first(s)]) \in Int
      BY <1>1, <2>2, <2>4
    <3>2. sum[s] = Cardinality(q[first(s)])
      <4>1. sum[s] = Cardinality(q[first(s)]) + sum[s \ {first(s)}]
        BY <2>1, <2>4
      <4>2. sum[s \ {first(s)}] = 0
        BY <2>3, <2>4
      <4>. QED BY <3>1, <4>1, <4>2
    <3>3. Part(s, 1) + Part(s, 2) = Cardinality(q[first(s)]) + (Part({}, 1) + Part({}, 2))
      BY <1>1, <2>4
    <3>4. Part({}, 1) + Part({}, 2) = 0
      BY DEF Part
    <3>. QED BY <3>1, <3>2, <3>3, <3>4
  <2>5. CASE All = {}
    BY <2>3, <2>5 DEF Part
  <2>6. CASE All # {} /\ All \ {first(All)} = {}
    BY <2>4, <2>6
  <2>7. CASE All # {} /\ All \ {first(All)} # {}
    <3>. DEFINE less == All \ {first(All)}
    <3>1. less \in SUBSET All /\ less # {} /\ less \ {first(less)} = {}
      <4>1. first(All) \in All /\ first(All) \in {1, 2} /\ less \in SUBSET All
        BY <1>1, <2>7
      <4>2. first(less) \in less
        BY <1>1, <2>7, <4>1
      <4>3. less \subseteq {1, 2} \ {first(All)}
        BY DEF q
      <4>. QED BY <2>7, <4>1, <4>2, <4>3
    <3>2. sum[less] = Part(less, 1) + Part(less, 2)
      BY <2>4, <3>1
    <3>3. sum[All] = Cardinality(q[first(All)]) + sum[less]
      BY <2>1, <2>7
    <3>. QED BY <1>1, <2>7, <3>2, <3>3
  <2>. QED BY <2>5, <2>6, <2>7
<1>4. Sums(CHOOSE sum : Sums(sum, q), q)
  BY <1>2
<1>. QED BY <1>3, <1>4, DroppedIsSum DEF Size

(* One set of lost calls for each victim.                                  *)
LEMMA ReorderOf ==
    ASSUME NEW pb, NEW all, NEW v \in Call, NEW w \in Call
    PROVE  LET D(x) == DependentCalls(pb, all, Max(all), x)
               lost == Reorder(pb, all, {v, w})
           IN  IF v = w THEN lost = << D(v) >>
               ELSE lost = << D(v), D(w) >> \/ lost = << D(w), D(v) >>
<1>. DEFINE V == {v, w}
            D(x) == DependentCalls(pb, all, Max(all), x)
<1>1. V \in SUBSET Call /\ V \in SUBSET Nat /\ V # {} /\ v \in Nat /\ w \in Nat
  BY DEF Call
<1>2. /\ Min(V) \in V /\ Max(V) \in V
      /\ \A x \in V : Min(V) <= x /\ x <= Max(V)
  BY <1>1, MinIsLeast, MaxIsGreatest
<1>3. Cardinality(V) = IF v = w THEN 1 ELSE 2
  BY VictimsCounted
<1>4. Min(V) <= v /\ Min(V) <= w /\ v <= Max(V) /\ w <= Max(V)
      /\ (Min(V) = v \/ Min(V) = w) /\ (Max(V) = v \/ Max(V) = w)
  BY <1>2
<1>5. v # w => (Min(V) = v /\ Max(V) = w) \/ (Min(V) = w /\ Max(V) = v)
  BY <1>1, <1>4
<1>6. Reorder(pb, all, V) = IF Cardinality(V) = 1 THEN << D(Min(V)) >>
                            ELSE << D(Min(V)), D(Max(V)) >>
  BY DEF Reorder
<1>. HIDE DEF D, V
<1>7. IF v = w THEN Reorder(pb, all, V) = << D(v) >>
      ELSE Reorder(pb, all, V) = << D(v), D(w) >> \/ Reorder(pb, all, V) = << D(w), D(v) >>
  BY <1>3, <1>4, <1>5, <1>6
<1>. QED BY <1>7 DEF D, V

LEMMA CallsFinite == \A S \in SUBSET Call : IsFiniteSet(S) /\ Cardinality(S) \in Nat
<1>1. IsFiniteSet(Call)
  BY FS_Interval, NumCallsAssumption DEF Call
<1>. QED BY <1>1, FS_Subset, FS_CardinalityType

(* A call that more than one victim drags along counts more than once.     *)
Counted(pb, all, v, w) ==
    LET size(x) == Cardinality(DependentCalls(pb, all, Max(all), x))
    IN  /\ size(v) \in Nat /\ size(w) \in Nat
        /\ NumDropped(ReorderState(pb, all, {v, w})) = IF v = w THEN size(v) ELSE size(v) + size(w)

LEMMA DroppedCounts ==
    ASSUME NEW pb, NEW all \in SUBSET Call, NEW v \in Call, NEW w \in Call
    PROVE  Counted(pb, all, v, w)
<1>. DEFINE D(x) == DependentCalls(pb, all, Max(all), x)
            st == ReorderState(pb, all, {v, w})
<1>1. D(v) \in SUBSET Call /\ D(w) \in SUBSET Call
  BY DEF DependentCalls, Dependents
<1>2. st.reorder = Reorder(pb, all, {v, w})
  BY DEF ReorderState
<1>. HIDE DEF st
<1>3. IF v = w THEN st.reorder = << D(v) >>
      ELSE st.reorder = << D(v), D(w) >> \/ st.reorder = << D(w), D(v) >>
  <2>1. IF v = w THEN Reorder(pb, all, {v, w}) = << D(v) >>
        ELSE \/ Reorder(pb, all, {v, w}) = << D(v), D(w) >>
             \/ Reorder(pb, all, {v, w}) = << D(w), D(v) >>
    BY ReorderOf
  <2>. HIDE DEF D
  <2>. QED BY <1>2, <2>1
<1>. HIDE DEF D
<1>4. /\ IsFiniteSet(D(v)) /\ Cardinality(D(v)) \in Nat
      /\ IsFiniteSet(D(w)) /\ Cardinality(D(w)) \in Nat
  BY <1>1, CallsFinite
<1>5. /\ DOMAIN st.reorder \subseteq {1, 2}
      /\ \A k \in DOMAIN st.reorder : Cardinality(st.reorder[k]) \in Int
  BY <1>3, <1>4
<1>6. NumDropped(st) = Size(st.reorder, 1) + Size(st.reorder, 2)
  BY <1>5, SizesAdded
<1>7. CASE v = w
  <2>1. Size(st.reorder, 1) = Cardinality(D(v)) /\ Size(st.reorder, 2) = 0
    BY <1>3, <1>7 DEF Size
  <2>. QED BY <1>4, <1>6, <1>7, <2>1 DEF D, st, Counted
<1>8. CASE v # w
  <2>1. CASE st.reorder = << D(v), D(w) >>
    <3>1. Size(st.reorder, 1) = Cardinality(D(v)) /\ Size(st.reorder, 2) = Cardinality(D(w))
      BY <2>1 DEF Size
    <3>. QED BY <1>4, <1>6, <1>8, <3>1 DEF D, st, Counted
  <2>2. CASE st.reorder = << D(w), D(v) >>
    <3>1. Size(st.reorder, 1) = Cardinality(D(w)) /\ Size(st.reorder, 2) = Cardinality(D(v))
      BY <2>2 DEF Size
    <3>. QED BY <1>4, <1>6, <1>8, <3>1 DEF D, st, Counted
  <2>. QED BY <1>3, <1>8, <2>1, <2>2
<1>. QED BY <1>7, <1>8

(* The victims of a state in the list.                                     *)
LEMMA StateOfVictims ==
    ASSUME IInv, Tried, NEW i \in DOMAIN crash_states, HasReorder(crash_states[i])
    PROVE  LET st == crash_states[i]
           IN  /\ st.base \in SUBSET Call /\ st.base # {} /\ st.pivot = Max(st.base)
               /\ \E v, w \in (st.base \ {st.pivot}) \ Fsyncs(trace) :
                     /\ st.victims = {v, w}
                     /\ st = ReorderState(pbgraph, st.base, {v, w})
               /\ NumDropped(st) \in Nat
<1>. DEFINE st == crash_states[i]
            all == st.base
<1>1. all \in SUBSET Call
  <2>1. st \in CrashState
    BY DEF IInv, TypeOK
  <2>. QED BY <2>1 DEF CrashState
<1>2. st.victims \in Victims(trace, all) /\ st = ReorderState(pbgraph, all, st.victims)
  BY DEF Tried
<1>. HIDE DEF st
<1>3. all # {} /\ \E v, w \in (all \ {Max(all)}) \ Fsyncs(trace) : st.victims = {v, w}
  BY <1>2 DEF Victims
<1>4. st.pivot = Max(all)
  BY <1>1, <1>2, <1>3, ReorderFields
<1>5. PICK v, w \in (all \ {Max(all)}) \ Fsyncs(trace) : st.victims = {v, w}
  BY <1>3
<1>6. v \in Call /\ w \in Call
  BY <1>1
<1>7. NumDropped(st) \in Nat
  <2>. DEFINE a == Cardinality(DependentCalls(pbgraph, all, Max(all), v))
              b == Cardinality(DependentCalls(pbgraph, all, Max(all), w))
  <2>0. Counted(pbgraph, all, v, w)
    BY <1>1, <1>6, DroppedCounts
  <2>1. a \in Nat /\ b \in Nat /\ NumDropped(ReorderState(pbgraph, all, {v, w})) = IF v = w THEN a ELSE a + b
    BY <2>0 DEF Counted
  <2>. HIDE DEF a, b
  <2>2. NumDropped(ReorderState(pbgraph, all, {v, w})) \in Nat
    BY <2>1
  <2>. QED BY <1>2, <1>5, <2>2
<1>8. st = ReorderState(pbgraph, all, {v, w})
  BY <1>2, <1>5
<1>. QED BY <1>1, <1>3, <1>4, <1>5, <1>7, <1>8 DEF st

(* A cut comes before the states with the same calls that lost some.       *)
LEMMA CutsComeFirst ==
    ASSUME IInv, Listed, NEW i \in DOMAIN crash_states, NEW j \in DOMAIN crash_states,
           i < j, SameAs(i, j), HasReorder(crash_states[i])
    PROVE  HasReorder(crash_states[j])
<1>. SUFFICES ASSUME ~ HasReorder(crash_states[j]) PROVE FALSE
  OBVIOUS
<1>1. GoodState(crash_states[i]) /\ GoodState(crash_states[j])
  BY DEF IInv, States
<1>2. crash_states[j].base = crash_states[j].syscalls
  BY <1>1 DEF GoodState, HasReorder
<1>3. crash_states[i].syscalls \subseteq crash_states[i].base
  BY <1>1 DEF GoodState, Lost
<1>. QED BY <1>2, <1>3 DEF Listed, Follows, SameAs

-----------------------------------------------------------------------------
(* Of the states of a chain the one that is left loses no more calls than  *)
(* any that lost some and came before it.                                  *)
Lightest(u) ==
    \A j \in Unpruned :
        (j < u /\ SameAs(j, u) /\ HasReorder(crash_states[j]))
            => NumDropped(crash_states[u]) <= NumDropped(crash_states[j])

LightInv ==
    /\ phase = "duplicates" => \A u \in Seen \ Marked : Lightest(u)
    /\ phase = "explore" => live \subseteq Unpruned /\ \A u \in live : Lightest(u)

LEMMA ScanLight ==
    ASSUME DupInv, DupInv', Tried, Listed, LightInv, ScanDuplicates PROVE LightInv'
<1>. DEFINE i == Min(pending)
            same == {j \in live : i < j /\ SameAs(i, j)}
            m == Min(same)
<1>1. /\ IInv /\ TypeOK /\ Scanning /\ live \in SUBSET Nat /\ live = Unpruned
      /\ live \in SUBSET (DOMAIN crash_states) /\ pending \subseteq live
  BY DEF DupInv, IInv, ScanDuplicates, TypeOK, Scanning
<1>2. /\ phase = "duplicates" /\ phase' = "duplicates" /\ pending # {}
      /\ pending' = pending \ {i}
      /\ to_remove' = IF same = {} THEN to_remove ELSE Append(to_remove, Loser(i, m))
      /\ live' = live /\ crash_states' = crash_states /\ trace' = trace
  BY DEF ScanDuplicates, inputs
<1>3. /\ i \in pending
      /\ same = {} => Seen' = Seen \cup {i}
      /\ same # {} => /\ m \in same /\ m \notin Seen
                      /\ Seen' = Seen \cup {i, m}
      /\ i \notin Seen => \A s \in Seen : ~ SameAs(i, s)
  BY <1>1, <1>2, SeenGrows
<1>4. \A x \in live : x < i => x \in Scanned
  <2>1. \A p \in pending : i <= p
    BY <1>1, <1>2, MinIsLeast
  <2>. HIDE DEF i
  <2>2. \A x \in live : x < i => x \notin pending
    BY <1>1, <1>3, <2>1
  <2>. QED BY <2>2 DEF Scanned
<1>5. same # {} => \A x \in same : m <= x
  <2>1. same \in SUBSET Nat
    BY <1>1
  <2>. HIDE DEF same
  <2>. QED BY <2>1, MinIsLeast
<1>6. /\ Unpruned' = Unpruned /\ \A j, k : SameAs(j, k)' <=> SameAs(j, k)
      /\ \A u : Lightest(u)' <=> Lightest(u)
  <2>1. Unpruned' = Unpruned
    BY <1>2 DEF Unpruned
  <2>. QED BY <1>2, <2>1 DEF Lightest, SameAs, HasReorder
<1>7. \A u \in Seen \ Marked : Lightest(u)
  BY <1>2 DEF LightInv
<1>8. i \notin Seen => Lightest(i)
  BY <1>1, <1>3, <1>4, SameAsEquivalence DEF Lightest, Seen
<1>. HIDE DEF i
<1>9. CASE same = {}
  <2>1. Marked' = Marked
    BY <1>2, <1>9 DEF Marked
  <2>2. Seen' = Seen \cup {i}
    BY <1>3, <1>9
  <2>3. \A u \in Seen' \ Marked' : Lightest(u)
    BY <1>7, <1>8, <2>1, <2>2
  <2>. QED BY <1>2, <1>6, <2>3 DEF LightInv
<1>10. CASE same # {}
  <2>. DEFINE loser == Loser(i, m)
  <2>1. /\ m \in live /\ i < m /\ SameAs(i, m) /\ m \notin Seen
        /\ Seen' = Seen \cup {i, m} /\ i \in live
        /\ \A x \in live : i < x /\ SameAs(i, x) => m <= x
    BY <1>1, <1>3, <1>5, <1>10
  <2>. HIDE DEF m, same
  <2>2. Marked' = Marked \cup {loser}
    <3>1. to_remove' = Append(to_remove, loser)
      BY <1>2, <1>10
    <3>2. to_remove \in Seq(DOMAIN crash_states)
      BY <1>1 DEF TypeOK
    <3>. HIDE DEF loser
    <3>3. /\ DOMAIN to_remove' = DOMAIN to_remove \cup {Len(to_remove) + 1}
          /\ \A k \in DOMAIN to_remove : to_remove'[k] = to_remove[k]
          /\ to_remove'[Len(to_remove) + 1] = loser
      BY <3>1, <3>2
    <3>. QED BY <3>3 DEF Marked
  <2>3. ASSUME i \notin Marked, loser = i PROVE Lightest(m)
    <3>. SUFFICES ASSUME NEW x \in live, x < m, SameAs(x, m), HasReorder(crash_states[x])
                  PROVE  NumDropped(crash_states[m]) <= NumDropped(crash_states[x])
      BY <1>1 DEF Lightest
    <3>1. SameAs(x, i) /\ x <= i /\ i \in Nat /\ x \in Nat /\ m \in Nat
      BY <1>1, <2>1, SameAsEquivalence
    <3>2. HasReorder(crash_states[m]) /\ HasReorder(crash_states[i])
      <4>1. HasReorder(crash_states[m])
        BY <1>1, <2>1, CutsComeFirst
      <4>2. CASE x = i
        BY <4>1, <4>2
      <4>3. CASE x # i
        <5>1. x < i /\ x \in DOMAIN crash_states /\ i \in DOMAIN crash_states
          BY <1>1, <2>1, <3>1, <4>3
        <5>. QED BY <1>1, <3>1, <4>1, <5>1, CutsComeFirst
      <4>. QED BY <4>2, <4>3
    <3>3. /\ NumDropped(crash_states[i]) \in Nat /\ NumDropped(crash_states[m]) \in Nat
          /\ NumDropped(crash_states[x]) \in Nat
      BY <1>1, <2>1, <3>2, StateOfVictims
    <3>4. ~ (NumDropped(crash_states[i]) < NumDropped(crash_states[m]))
      BY <2>1, <2>3, <3>1, <3>2 DEF Loser
    <3>5. NumDropped(crash_states[i]) <= NumDropped(crash_states[x])
      <4>1. CASE x = i
        BY <3>3, <4>1
      <4>2. CASE x # i
        <5>1. x < i
          BY <3>1, <4>2
        <5>2. i \in Seen
          BY <1>3, <1>4, <3>1, <5>1, SameAsEquivalence DEF Seen
        <5>3. Lightest(i)
          BY <1>7, <2>3, <5>2
        <5>. QED BY <1>1, <3>1, <5>1, <5>3 DEF Lightest
      <4>. QED BY <4>1, <4>2
    <3>. QED BY <3>3, <3>4, <3>5
  <2>4. loser \in {i, m} /\ (i \in Marked => loser = m)
    BY DEF Loser
  <2>5. i # m
    BY <1>1, <2>1
  <2>. HIDE DEF loser
  <2>6. \A u \in Seen' \ Marked' : Lightest(u)
    BY <1>7, <1>8, <2>1, <2>2, <2>3, <2>4, <2>5
  <2>. QED BY <1>2, <1>6, <2>6 DEF LightInv
<1>. QED BY <1>9, <1>10

LEMMA LightNext ==
    ASSUME DupInv, DupInv', Tried, Listed, LightInv, [Next]_genvars PROVE LightInv'
<1>1. CASE VisitFrontier \/ TryVictims
  <2>1. phase' = "frontiers"
    BY <1>1 DEF VisitFrontier, TryVictims
  <2>. QED BY <2>1 DEF LightInv
<1>2. CASE StaticPrune
  <2>1. /\ phase = "frontiers" /\ phase' = "duplicates" /\ to_remove' = to_remove
        /\ pending' = live'
    BY <1>2 DEF StaticPrune
  <2>2. Seen' = {}
    BY <2>1 DEF Seen, Compared, Scanned
  <2>. QED BY <2>1, <2>2 DEF LightInv
<1>3. CASE RemoveDuplicates
  <2>1. Scanning /\ pending = {} /\ phase = "duplicates"
    BY <1>3 DEF DupInv, RemoveDuplicates
  <2>2. /\ phase' = "explore" /\ live' = live \ Marked
        /\ crash_states' = crash_states /\ trace' = trace
    BY <1>3 DEF RemoveDuplicates, inputs
  <2>3. Seen = live
    BY <2>1 DEF Scanning, Seen, Scanned
  <2>4. Unpruned' = Unpruned
    BY <2>2 DEF Unpruned
  <2>5. \A u : Lightest(u)' <=> Lightest(u)
    BY <2>2, <2>4 DEF Lightest, SameAs, HasReorder
  <2>6. live' \subseteq Unpruned'
    BY <2>1, <2>2, <2>4 DEF Scanning
  <2>. QED BY <2>1, <2>2, <2>3, <2>5, <2>6 DEF LightInv
<1>4. CASE UNCHANGED genvars
  BY <1>4 DEF genvars, inputs, LightInv, Seen, Scanned, Compared, Marked, Lightest, Unpruned,
              SameAs, HasReorder
<1>. QED BY <1>1, <1>2, <1>3, <1>4, ScanLight DEF Next
-----------------------------------------------------------------------------
(* When no message is stamped before the call that caused it, what happened*)
(* before a call has an earlier timestamp.                                 *)
LEMMA HappensForward ==
    ASSUME trace \in Traces, Forward, NEW a \in Call, NEW b \in Call,
           <<a, b>> \in HappensBefore(trace)
    PROVE  a < b
<1>. DEFINE S == {c \in Call : c <= b}
<1>1. a \in Nat /\ b \in Nat /\ a # b
  BY DEF HappensBefore, Call
<1>2. ASSUME NEW e \in Edges(trace), e[2] \in S PROVE e[1] \in S
  <2>1. e[1] \in Call /\ e[2] \in Call /\ e[1] < e[2]
    BY DEF Edges, Forward, Traces
  <2>. QED BY <1>2, <2>1 DEF Call
<1>3. S \in DownSets(trace) /\ b \in S
  BY <1>1, <1>2 DEF DownSets
<1>4. a \in S
  BY <1>3 DEF HappensBefore
<1>. QED BY <1>1, <1>4

LEMMA EdgeHappens ==
    ASSUME trace \in Traces, Forward, NEW e \in Edges(trace)
    PROVE  e[1] \in Call /\ e[2] \in Call /\ <<e[1], e[2]>> \in HappensBefore(trace)
<1>1. e[1] \in Call /\ e[2] \in Call /\ e[1] < e[2] /\ e[1] # e[2]
  BY DEF Edges, Forward, Traces, Call
<1>. QED BY <1>1 DEF HappensBefore, DownSets

LEMMA PersistsHappens ==
    ASSUME NEW t, Acyclic(t), NEW a \in Call, NEW b \in Call,
           <<a, b>> \in PersistsBefore(t, HappensBefore(t))
    PROVE  <<a, b>> \in HappensBefore(t)
<1>1. CASE SameService(t, a, b)
  BY <1>1 DEF PersistsBefore
<1>2. CASE ~ SameService(t, a, b)
  BY <1>2, HappensBeforeTransitive DEF PersistsBefore
<1>. QED BY <1>1, <1>2

(* The calls of a cut that another one persists before because its file is *)
(* flushed in between.  No cut that holds one of them lacks the fsync.     *)
Flushed(all, w) ==
    {x \in all : \E sync \in Fsyncs(trace) :
                    /\ SamePath(trace, sync, w)
                    /\ <<w, sync>> \in hbgraph
                    /\ <<sync, x>> \in hbgraph}

(* A victim's cut is still one without them, and has the same pivot; what  *)
(* the victim drags along of it are later calls of its own server.         *)
LEMMA WithoutFlushed ==
    ASSUME Inputs, Forward, NEW all \in DownSets(trace), NEW w \in all, w # Max(all),
           CanBeLost(pbgraph, all, Max(all), w)
    PROVE  LET less == all \ Flushed(all, w)
               D(x) == DependentCalls(pbgraph, all, Max(all), x)
           IN  /\ less \in DownSets(trace) /\ Max(less) = Max(all) /\ w \in less
               /\ Flushed(all, w) \subseteq D(w)
               /\ \A c \in D(w) : c \notin Flushed(all, w) =>
                     c = w \/ (SameService(trace, w, c) /\ w < c /\ c < Max(all))
               /\ \A c \in Flushed(all, w) : <<w, c>> \in HappensBefore(trace)
               /\ \A x \in less :
                     DependentCalls(pbgraph, less, Max(less), x) = D(x) \ Flushed(all, w)
<1>. DEFINE p == Max(all)
            X == Flushed(all, w)
            less == all \ X
            D(x) == DependentCalls(pbgraph, all, p, x)
<1>1. /\ trace \in Traces /\ Acyclic(trace) /\ all \in SUBSET Call /\ w \in Call
      /\ hbgraph = HappensBefore(trace)
      /\ pbgraph = PersistsBefore(trace, HappensBefore(trace))
  BY TraceAssumption, AcyclicAssumption DEF Inputs, DownSets
<1>2. p \in all /\ \A c \in all : c <= p
  BY <1>1, MaxIsGreatest
<1>. HIDE DEF p
<1>3. <<w, p>> \notin pbgraph
  BY DEF CanBeLost, DependentCalls, p
<1>4. ASSUME NEW x \in X
      PROVE  <<w, x>> \in HappensBefore(trace) /\ w < x /\ <<w, x>> \in pbgraph /\ x < p
  <2>1. PICK sync \in Fsyncs(trace) :
          /\ SamePath(trace, sync, w)
          /\ <<w, sync>> \in HappensBefore(trace) /\ <<sync, x>> \in HappensBefore(trace)
    BY <1>1 DEF Flushed
  <2>2. x \in Call /\ x \in all
    BY <1>1 DEF Flushed
  <2>3. <<w, x>> \in HappensBefore(trace)
    BY <1>1, <2>1, HappensBeforeTransitive
  <2>4. <<w, x>> \in pbgraph
    BY <1>1, <2>1, <2>2, PersistsByFsync
  <2>5. w < x
    BY <1>1, <2>2, <2>3, HappensForward
  <2>6. x < p
    BY <1>1, <1>2, <1>3, <2>2, <2>4 DEF Call
  <2>. QED BY <2>3, <2>4, <2>5, <2>6
<1>5. X \subseteq D(w)
  <2>1. X \subseteq all
    BY DEF Flushed
  <2>. HIDE DEF X
  <2>. QED BY <1>4, <2>1 DEF DependentCalls, Dependents
<1>6. p \in less /\ w \in less
  <2>1. p \notin X
    <3>1. p \in Nat /\ ~ (p < p)
      BY <1>1, <1>2 DEF Call
    <3>. HIDE DEF X
    <3>. QED BY <1>4, <3>1
  <2>2. w \notin X
    BY <1>1, <1>4 DEF HappensBefore
  <2>. HIDE DEF X
  <2>. QED BY <1>2, <2>1, <2>2
<1>7. less \in DownSets(trace)
  <2>. SUFFICES ASSUME NEW e \in Edges(trace), e[2] \in less PROVE e[1] \in less
    BY <1>1 DEF DownSets
  <2>1. e[1] \in all /\ e[2] \in all
    BY DEF DownSets
  <2>2. <<e[1], e[2]>> \in HappensBefore(trace)
    BY <1>1, EdgeHappens
  <2>3. ASSUME e[1] \in X PROVE FALSE
    <3>1. PICK sync \in Fsyncs(trace) :
            /\ SamePath(trace, sync, w)
            /\ <<w, sync>> \in hbgraph /\ <<sync, e[1]>> \in HappensBefore(trace)
      BY <1>1, <2>3 DEF Flushed
    <3>2. <<sync, e[2]>> \in HappensBefore(trace)
      BY <1>1, <2>2, <3>1, HappensBeforeTransitive
    <3>3. e[2] \in X
      BY <1>1, <2>1, <3>1, <3>2 DEF Flushed
    <3>. QED BY <3>3
  <2>. QED BY <2>1, <2>3
<1>8. Max(less) = p
  <2>1. less \in SUBSET Call /\ less # {}
    BY <1>1, <1>6
  <2>2. Max(less) \in less /\ p <= Max(less)
    <3>. HIDE DEF less
    <3>. QED BY <1>6, <2>1, MaxIsGreatest
  <2>3. Max(less) <= p /\ Max(less) \in Call /\ p \in Call
    BY <1>1, <1>2, <2>2
  <2>. QED BY <2>2, <2>3 DEF Call
<1>9. ASSUME NEW c \in D(w), c \notin X
      PROVE  c = w \/ (SameService(trace, w, c) /\ w < c /\ c < p)
  <2>. SUFFICES ASSUME c # w PROVE SameService(trace, w, c) /\ w < c /\ c < p
    OBVIOUS
  <2>1. c \in all /\ w < c /\ c < p /\ <<w, c>> \in pbgraph
    BY <1>9 DEF DependentCalls, Dependents
  <2>2. SameService(trace, w, c)
    BY <1>1, <1>9, <2>1 DEF PersistsBefore, Flushed
  <2>. QED BY <2>1, <2>2
<1>10. ASSUME NEW x \in less PROVE DependentCalls(pbgraph, less, p, x) = D(x) \ X
  BY <1>10 DEF DependentCalls, Dependents
<1>. HIDE DEF X
<1>. QED BY <1>4, <1>5, <1>6, <1>7, <1>8, <1>9, <1>10 DEF p, X

(* A state with the victims it can lose is in the list.                    *)
LEMMA StateInList ==
    ASSUME IInv, Tried, phase # "frontiers", NEW all \in DownSets(trace), all # {},
           NEW x \in all \ {Max(all)}, NEW y \in all \ {Max(all)},
           x \notin Fsyncs(trace), y \notin Fsyncs(trace),
           CanBeLost(pbgraph, all, Max(all), x), CanBeLost(pbgraph, all, Max(all), y)
    PROVE  \E j \in DOMAIN crash_states : crash_states[j] = ReorderState(pbgraph, all, {x, y})
<1>1. trace \in Traces /\ frontiers = {} /\ combinations = {}
  BY TraceAssumption DEF IInv, Inputs, Visited, Tried
<1>2. PICK f \in AllCombinations(trace) : AllSyscalls(trace, f) = all
  BY <1>1, CutHasFrontier
<1>3. {x, y} \in Victims(trace, all) /\ Losable(all, {x, y})
  BY DEF Victims, Losable
<1>. QED BY <1>1, <1>2, <1>3 DEF Tried
(* A state that lists a lost call twice has a lighter one before it, with  *)
(* the same calls: w is a dependent of v, or both drag a call of another   *)
(* server along.  Leaving the calls flushed after w out of the cut loses   *)
(* them without counting them.                                             *)
LEMMA LighterBefore ==
    ASSUME IInv, Tried, Listed, phase # "frontiers", Forward,
           NEW all \in DownSets(trace), all # {},
           NEW v \in all \ {Max(all)}, NEW w \in all \ {Max(all)}, v # w,
           v \notin Fsyncs(trace), w \notin Fsyncs(trace),
           CanBeLost(pbgraph, all, Max(all), v), CanBeLost(pbgraph, all, Max(all), w),
           NEW i \in DOMAIN crash_states, crash_states[i] = ReorderState(pbgraph, all, {v, w}),
           LET D(x) == DependentCalls(pbgraph, all, Max(all), x)
           IN  \/ w \in D(v)
               \/ v \notin D(w) /\ \E c \in D(v) \cap D(w) : ~ SameService(trace, w, c)
    PROVE  \E j \in DOMAIN crash_states :
              /\ j < i /\ SameAs(j, i) /\ HasReorder(crash_states[j])
              /\ ~ (NumDropped(crash_states[i]) <= NumDropped(crash_states[j]))
<1>. DEFINE p == Max(all)
            X == Flushed(all, w)
            less == all \ X
            D(x) == DependentCalls(pbgraph, all, p, x)
            E(x) == DependentCalls(pbgraph, less, p, x)
            size(S) == Cardinality(S)
<1>1. /\ Inputs /\ trace \in Traces /\ Acyclic(trace) /\ all \in SUBSET Call
      /\ v \in Call /\ w \in Call
      /\ pbgraph = PersistsBefore(trace, HappensBefore(trace))
  BY TraceAssumption, AcyclicAssumption DEF IInv, Inputs, DownSets
<1>2. /\ less \in DownSets(trace) /\ Max(less) = p /\ w \in less
      /\ X \subseteq D(w)
      /\ \A c \in D(w) : c \notin X => c = w \/ (SameService(trace, w, c) /\ w < c /\ c < p)
      /\ \A c \in X : <<w, c>> \in HappensBefore(trace)
      /\ \A x \in less : DependentCalls(pbgraph, less, Max(less), x) = D(x) \ X
  BY <1>1, WithoutFlushed
<1>3. \A x \in less : E(x) = D(x) \ X
  BY <1>2
<1>4. less \in SUBSET Call /\ less # {} /\ p \in all /\ \A c \in all : c <= p
  BY <1>1, <1>2, MaxIsGreatest
<1>5. v \in D(v) /\ w \in D(w) /\ v \in all /\ w \in all /\ v # p /\ w # p
  BY DEF DependentCalls
<1>6. v \in less
  <2>1. ASSUME v \in X PROVE FALSE
    <3>1. v \in D(w) /\ <<w, v>> \in HappensBefore(trace)
      BY <1>2, <2>1
    <3>2. w \in D(v)
      BY <3>1
    <3>3. <<v, w>> \in HappensBefore(trace)
      BY <1>1, <3>2, PersistsHappens DEF DependentCalls, Dependents
    <3>. QED BY <1>1, <3>1, <3>3 DEF Acyclic
  <2>. QED BY <1>5, <2>1
<1>7. D(v) \subseteq all /\ D(w) \subseteq all
  BY <1>5 DEF DependentCalls, Dependents
<1>8. /\ IsFiniteSet(D(v)) /\ size(D(v)) \in Nat /\ IsFiniteSet(D(w)) /\ size(D(w)) \in Nat
      /\ NumDropped(crash_states[i]) = size(D(v)) + size(D(w))
  <2>. DEFINE dropped == NumDropped(ReorderState(pbgraph, all, {v, w}))
  <2>1. /\ IsFiniteSet(D(v)) /\ size(D(v)) \in Nat /\ IsFiniteSet(D(w)) /\ size(D(w)) \in Nat
        /\ dropped = IF v = w THEN size(D(v)) ELSE size(D(v)) + size(D(w))
    <3>1. Counted(pbgraph, all, v, w)
      BY <1>1, DroppedCounts
    <3>2. D(v) \in SUBSET Call /\ D(w) \in SUBSET Call
      BY <1>1, <1>7
    <3>. QED BY <3>1, <3>2, CallsFinite DEF Counted
  <2>2. dropped = NumDropped(crash_states[i])
    OBVIOUS
  <2>. HIDE DEF dropped, D, size
  <2>. QED BY <2>1, <2>2
<1>9. \A c : c \in crash_states[i].syscalls <=> c \in all /\ c \notin D(v) /\ c \notin D(w)
  <2>1. PICK R : R = ReorderState(pbgraph, all, {v, w})
    OBVIOUS
  <2>2. \A c : c \in R.syscalls <=> c \in all /\ c \notin D(v) /\ c \notin D(w)
    BY <1>1, <2>1, ReorderCalls
  <2>3. crash_states[i] = R
    BY <2>1
  <2>. HIDE DEF D
  <2>. QED BY <2>2, <2>3
<1>10. ASSUME NEW x \in {v, w} PROVE x \in less \ {p} /\ CanBeLost(pbgraph, less, p, x)
  <2>1. x \in less /\ x # p /\ CanBeLost(pbgraph, all, p, x)
    BY <1>2, <1>5, <1>6
  <2>2. E(x) \subseteq D(x)
    BY <1>3, <2>1
  <2>. HIDE DEF p, less
  <2>. QED BY <2>1, <2>2 DEF CanBeLost
<1>11. ASSUME NEW x \in {v, w}, NEW y \in {v, w},
              less = all => x = y,
              \A c \in all \ X : c \in D(v) \/ c \in D(w) => c \in D(x) \/ c \in D(y),
              IF x = y THEN size(E(x)) < size(D(v)) + size(D(w))
              ELSE size(E(x)) + size(E(y)) < size(D(v)) + size(D(w))
       PROVE  \E j \in DOMAIN crash_states :
                 /\ j < i /\ SameAs(j, i) /\ HasReorder(crash_states[j])
                 /\ ~ (NumDropped(crash_states[i]) <= NumDropped(crash_states[j]))
  <2>1. PICK j \in DOMAIN crash_states : crash_states[j] = ReorderState(pbgraph, less, {x, y})
    <3>1. /\ x \in less \ {p} /\ y \in less \ {p} /\ x \notin Fsyncs(trace) /\ y \notin Fsyncs(trace)
          /\ CanBeLost(pbgraph, less, p, x) /\ CanBeLost(pbgraph, less, p, y)
      BY <1>10
    <3>. HIDE DEF less, p
    <3>. QED BY <1>2, <1>4, <3>1, StateInList
  <2>2. x \in Call /\ y \in Call
    BY <1>1
  <2>3. \A c : c \in crash_states[j].syscalls <=> c \in less /\ c \notin E(x) /\ c \notin E(y)
    <3>1. p = Max(less)
      BY <1>2
    <3>. HIDE DEF less, p
    <3>2. \A c : c \in ReorderState(pbgraph, less, {x, y}).syscalls <=>
                   /\ c \in less
                   /\ c \notin DependentCalls(pbgraph, less, Max(less), x)
                   /\ c \notin DependentCalls(pbgraph, less, Max(less), y)
      BY <1>4, <2>2, ReorderCalls
    <3>. QED BY <2>1, <3>1, <3>2
  <2>. HIDE DEF p, X
  <2>4. SameAs(j, i)
    <3>1. crash_states[j] \in CrashState /\ crash_states[i] \in CrashState
      BY DEF IInv, TypeOK
    <3>2. crash_states[j].syscalls \in SUBSET Call /\ crash_states[i].syscalls \in SUBSET Call
      BY <3>1 DEF CrashState
    <3>3. E(x) = D(x) \ X /\ E(y) = D(y) \ X
      BY <1>3, <1>10
    <3>. HIDE DEF D, E
    <3>4. \A c : c \in crash_states[j].syscalls <=> c \in crash_states[i].syscalls
      BY <1>2, <1>9, <1>11, <2>3, <3>3
    <3>. QED BY <3>2, <3>4 DEF SameAs
  <2>5. crash_states[j].base = less /\ crash_states[j].victims = {x, y} /\ HasReorder(crash_states[j])
    BY <1>4, <2>1, ReorderFields
  <2>6. crash_states[i].base = all /\ crash_states[i].victims = {v, w} /\ HasReorder(crash_states[i])
    BY <1>1, ReorderFields
  <2>7. ~ (NumDropped(crash_states[i]) <= NumDropped(crash_states[j]))
    <3>1. /\ size(E(x)) \in Nat /\ size(E(y)) \in Nat
          /\ NumDropped(crash_states[j]) = IF x = y THEN size(E(x)) ELSE size(E(x)) + size(E(y))
      <4>1. p = Max(less)
        BY <1>2
      <4>. DEFINE F(z) == DependentCalls(pbgraph, less, Max(less), z)
                  dropped == NumDropped(ReorderState(pbgraph, less, {x, y}))
      <4>. HIDE DEF less
      <4>2. /\ size(F(x)) \in Nat /\ size(F(y)) \in Nat
            /\ dropped = IF x = y THEN size(F(x)) ELSE size(F(x)) + size(F(y))
        <5>1. Counted(pbgraph, less, x, y)
          BY <1>4, <2>2, DroppedCounts
        <5>. QED BY <5>1 DEF Counted
      <4>3. dropped = NumDropped(crash_states[j]) /\ E(x) = F(x) /\ E(y) = F(y)
        BY <2>1, <4>1
      <4>. HIDE DEF dropped, E, F, size
      <4>. QED BY <4>2, <4>3
    <3>. HIDE DEF size, D, E
    <3>. QED BY <1>8, <1>11, <3>1
  <2>8. ~ (i < j)
    <3>1. Cardinality({v, w}) = 2 /\ (x = y => Cardinality({x, y}) = 1)
      BY <1>1, <2>2, VictimsCounted
    <3>2. ASSUME i < j PROVE FALSE
      <4>1. Follows(crash_states[j], crash_states[i])
        BY <3>2 DEF Listed
      <4>2. less = all /\ Cardinality({v, w}) <= Cardinality({x, y})
        BY <2>5, <2>6, <4>1 DEF Follows
      <4>. QED BY <1>11, <3>1, <4>2
    <3>. QED BY <3>2
  <2>9. i # j /\ i \in Nat /\ j \in Nat
    <3>1. NumDropped(crash_states[i]) \in Nat
      BY <1>8
    <3>2. crash_states \in Seq(CrashState)
      BY DEF IInv, TypeOK
    <3>. QED BY <2>7, <3>1, <3>2
  <2>. QED BY <2>4, <2>5, <2>7, <2>8, <2>9
<1>12. E(v) \subseteq D(v) /\ E(w) \subseteq D(w)
  BY <1>2, <1>3, <1>6
<1>13. /\ size(E(v)) \in Nat /\ size(E(v)) <= size(D(v))
       /\ size(E(w)) \in Nat /\ size(E(w)) <= size(D(w))
       /\ E(w) # D(w) => size(E(w)) < size(D(w))
  <2>. HIDE DEF D, E
  <2>1. IsFiniteSet(E(v)) /\ IsFiniteSet(E(w))
    BY <1>8, <1>12, FS_Subset
  <2>2. size(E(v)) \in Nat /\ size(E(w)) \in Nat
    BY <2>1, FS_CardinalityType
  <2>3. size(E(v)) <= size(D(v)) /\ size(E(w)) <= size(D(w))
    BY <1>8, <1>12, FS_Subset
  <2>4. size(E(w)) = size(D(w)) => E(w) = D(w)
    BY <1>8, <1>12, FS_Subset
  <2>5. E(w) # D(w) => size(E(w)) < size(D(w))
    BY <1>8, <2>2, <2>3, <2>4
  <2>. QED BY <2>2, <2>3, <2>5
<1>14. CASE w \in D(v)
  <2>1. ASSUME NEW c \in all \ X, c \in D(w) PROVE c \in D(v)
    <3>1. CASE c = w
      BY <1>14, <3>1
    <3>2. CASE c # w
      <4>1. SameService(trace, w, c) /\ w < c /\ c < p
        BY <1>2, <2>1, <3>2
      <4>2. v < w /\ <<v, w>> \in pbgraph
        BY <1>14 DEF DependentCalls, Dependents
      <4>3. c \in all /\ c \in Call
        BY <1>1
      <4>4. <<v, c>> \in pbgraph
        BY <1>1, <4>1, <4>2, <4>3, PersistsUpward
      <4>5. v < c
        BY <1>1, <4>1, <4>2, <4>3 DEF Call
      <4>. HIDE DEF p
      <4>. QED BY <4>1, <4>3, <4>4, <4>5 DEF DependentCalls, Dependents
    <3>. QED BY <3>1, <3>2
  <2>2. size(D(w)) # 0
    <3>. HIDE DEF D
    <3>. QED BY <1>5, <1>8, FS_EmptySet
  <2>3. size(E(v)) < size(D(v)) + size(D(w))
    <3>. HIDE DEF D, E, size
    <3>. QED BY <1>8, <1>13, <2>2
  <2>. HIDE DEF D, E, size, X, less, p
  <2>. QED BY <1>11, <2>1, <2>3
<1>15. CASE w \notin D(v)
  <2>1. PICK c \in D(v) \cap D(w) : ~ SameService(trace, w, c)
    BY <1>15
  <2>2. c \in X /\ c \in all
    <3>1. c # w
      BY <2>1 DEF SameService
    <3>. QED BY <1>2, <1>7, <2>1, <3>1
  <2>3. E(w) # D(w)
    BY <1>2, <1>3, <2>1, <2>2
  <2>4. size(E(v)) + size(E(w)) < size(D(v)) + size(D(w))
    <3>. HIDE DEF D, E, size
    <3>. QED BY <1>8, <1>13, <2>3
  <2>5. less # all
    BY <2>2
  <2>. HIDE DEF D, E, size, X, less, p
  <2>. QED BY <1>11, <2>4, <2>5
<1>. QED BY <1>14, <1>15
(* A state that is left lists each lost call once.                         *)
ListsOnce(st) == \A k, l \in DOMAIN st.reorder : k # l => st.reorder[k] \cap st.reorder[l] = {}

LEMMA LiveListOnce ==
    ASSUME DupInv, Tried, Listed, LightInv, phase = "explore", Forward,
           NEW i \in live, HasReorder(crash_states[i])
    PROVE  ListsOnce(crash_states[i])
<1>. DEFINE st == crash_states[i]
            all == st.base
            D(x) == DependentCalls(pbgraph, all, Max(all), x)
<1>1. IInv /\ TypeOK /\ i \in DOMAIN crash_states /\ i \in Unpruned /\ Lightest(i)
  BY DEF DupInv, IInv, TypeOK, LightInv
<1>2. all \in SUBSET Call /\ all # {} /\ st.pivot = Max(all)
  BY <1>1, StateOfVictims
<1>3. PICK v, w \in (all \ {Max(all)}) \ Fsyncs(trace) :
         st.victims = {v, w} /\ st = ReorderState(pbgraph, all, {v, w})
  <2>1. \E v, w \in (st.base \ {st.pivot}) \ Fsyncs(trace) :
           st.victims = {v, w} /\ st = ReorderState(pbgraph, st.base, {v, w})
    BY <1>1, StateOfVictims
  <2>. QED BY <1>2, <2>1
<1>4. v \in Call /\ w \in Call /\ v \in all /\ w \in all /\ v # Max(all) /\ w # Max(all)
      /\ v \notin Fsyncs(trace) /\ w \notin Fsyncs(trace)
  BY <1>2
<1>5. CanBeLost(pbgraph, all, Max(all), v) /\ CanBeLost(pbgraph, all, Max(all), w)
  <2>1. Losable(all, {v, w})
    BY <1>1, <1>3 DEF Tried
  <2>. QED BY <2>1 DEF Losable
<1>6. all \in DownSets(trace)
  BY <1>1 DEF IInv, States, GoodState
<1>7. st.reorder = Reorder(pbgraph, all, {v, w})
  <2>1. ReorderState(pbgraph, all, {v, w}).reorder = Reorder(pbgraph, all, {v, w})
    BY DEF ReorderState
  <2>. QED BY <1>3, <2>1
<1>8. IF v = w THEN Reorder(pbgraph, all, {v, w}) = << D(v) >>
      ELSE \/ Reorder(pbgraph, all, {v, w}) = << D(v), D(w) >>
           \/ Reorder(pbgraph, all, {v, w}) = << D(w), D(v) >>
  <2>1. v \in Call /\ w \in Call
    BY <1>4
  <2>. HIDE DEF all
  <2>. QED BY ONLY <2>1, ReorderOf
<1>9. ASSUME v # w PROVE D(v) \cap D(w) = {}
  <2>. SUFFICES ASSUME NEW c \in D(v) \cap D(w) PROVE FALSE
    OBVIOUS
  <2>. DEFINE Drags(x, y) == y \in D(x) \/ (x \notin D(y) /\ \E d \in D(x) \cap D(y) : ~ SameService(trace, y, d))
  <2>1. ASSUME NEW x \in {v, w}, NEW y \in {v, w}, x # y, Drags(x, y) PROVE FALSE
    <3>1. /\ x \in all \ {Max(all)} /\ y \in all \ {Max(all)}
          /\ x \notin Fsyncs(trace) /\ y \notin Fsyncs(trace)
          /\ CanBeLost(pbgraph, all, Max(all), x) /\ CanBeLost(pbgraph, all, Max(all), y)
      BY <1>4, <1>5
    <3>2. crash_states[i] = ReorderState(pbgraph, all, {x, y})
      <4>1. {x, y} = {v, w}
        BY <2>1
      <4>. QED BY <1>3, <4>1
    <3>3. /\ phase # "frontiers"
          /\ \/ y \in DependentCalls(pbgraph, all, Max(all), x)
             \/ /\ x \notin DependentCalls(pbgraph, all, Max(all), y)
                /\ \E d \in DependentCalls(pbgraph, all, Max(all), x)
                              \cap DependentCalls(pbgraph, all, Max(all), y) :
                      ~ SameService(trace, y, d)
      BY <2>1
    <3>. HIDE DEF all, Drags
    <3>4. PICK j \in DOMAIN crash_states :
            /\ j < i /\ SameAs(j, i) /\ HasReorder(crash_states[j])
            /\ ~ (NumDropped(crash_states[i]) <= NumDropped(crash_states[j]))
      BY <1>1, <1>2, <1>6, <2>1, <3>1, <3>2, <3>3, LighterBefore
    <3>5. j \in Unpruned
      BY <1>1, <3>4 DEF Unpruned, Prunable, SameAs
    <3>. QED BY <1>1, <3>4, <3>5 DEF Lightest
  <2>2. w \notin D(v) /\ v \notin D(w)
    BY <1>9, <2>1
  <2>3. SameService(trace, w, c) /\ SameService(trace, v, c)
    BY <1>9, <2>1, <2>2
  <2>4. ASSUME NEW x \in {v, w}, NEW y \in {v, w}, x < y PROVE y \in D(x)
    <3>1. SameService(trace, x, y)
      BY <2>3 DEF SameService
    <3>2. <<x, y>> \in pbgraph
      <4>1. pbgraph = PersistsBefore(trace, HappensBefore(trace))
        BY <1>1 DEF IInv, Inputs
      <4>2. x \in Call /\ y \in Call
        BY <1>4
      <4>. QED BY <2>4, <3>1, <4>1, <4>2, PersistsOnService
    <3>3. y \in all /\ y < Max(all)
      <4>1. y \in all /\ y # Max(all) /\ y <= Max(all) /\ Max(all) \in Call
        <5>. HIDE DEF all
        <5>. QED BY <1>2, <1>4, MaxIsGreatest
      <4>. HIDE DEF all
      <4>. QED BY <1>2, <4>1 DEF Call
    <3>. QED BY <2>4, <3>2, <3>3 DEF DependentCalls, Dependents
  <2>5. v < w \/ w < v
    BY <1>4, <1>9 DEF Call
  <2>. QED BY <2>2, <2>4, <2>5
<1>. HIDE DEF D, st
<1>10. CASE v = w
  BY <1>7, <1>8, <1>10 DEF ListsOnce, st
<1>11. CASE v # w
  <2>1. st.reorder = << D(v), D(w) >> \/ st.reorder = << D(w), D(v) >>
    BY <1>7, <1>8, <1>11
  <2>2. ListsOnce(st)
    BY <1>9, <1>11, <2>1 DEF ListsOnce
  <2>. QED BY <2>2 DEF st
<1>. QED BY <1>10, <1>11

-----------------------------------------------------------------------------
(* The list follows the product of the services: of two cuts the one that  *)
(* has more calls of the first service they differ on comes later.         *)
CallsAt(S, s) == {c \in S : trace.svc[c] = s}

Precedes(S, R) ==
    \E s \in Service :
        /\ CallsAt(S, s) \subseteq CallsAt(R, s) /\ CallsAt(S, s) # CallsAt(R, s)
        /\ \A r \in Service : r < s => CallsAt(S, r) = CallsAt(R, r)

Sorted ==
    /\ \A i, j \in DOMAIN crash_states :
         i < j => \/ crash_states[i].base = crash_states[j].base
                  \/ Precedes(crash_states[i].base, crash_states[j].base)
    /\ \A i \in DOMAIN crash_states : \A f \in frontiers :
         Precedes(crash_states[i].base, AllSyscalls(trace, f))
    /\ combinations # {} => \A i \in DOMAIN crash_states :
         crash_states[i].base = base \/ Precedes(crash_states[i].base, base)

(* A cut does not precede itself, and two cuts precede each other in one    *)
(* direction only.                                                          *)
LEMMA PrecedesOnce ==
    ASSUME NEW S, NEW R, Precedes(S, R) PROVE ~ Precedes(R, S) /\ S # R
<1>1. PICK s \in Service :
        /\ CallsAt(S, s) \subseteq CallsAt(R, s) /\ CallsAt(S, s) # CallsAt(R, s)
        /\ \A r \in Service : r < s => CallsAt(S, r) = CallsAt(R, r)
  BY DEF Precedes
<1>2. ASSUME NEW q \in Service,
             CallsAt(R, q) \subseteq CallsAt(S, q) /\ CallsAt(R, q) # CallsAt(S, q),
             \A r \in Service : r < q => CallsAt(R, r) = CallsAt(S, r)
      PROVE  FALSE
  <2>1. s \in Nat /\ q \in Nat
    BY ServiceAssumption
  <2>2. s < q \/ q < s \/ s = q
    BY <2>1
  <2>. QED BY <1>1, <1>2, <2>2
<1>. QED BY <1>1, <1>2 DEF Precedes

(* A frontier that comes before another in product() has the smaller cut    *)
(* (lines 37-41).                                                           *)
LEMMA ProductPrecedes ==
    ASSUME trace \in Traces, NEW f \in AllCombinations(trace), NEW g \in AllCombinations(trace),
           ProductOrder(f, g), f # g
    PROVE  Precedes(AllSyscalls(trace, f), AllSyscalls(trace, g))
<1>1. PICK s \in Service : f[s] < g[s] /\ \A r \in Service : r < s => f[r] = g[r]
  BY DEF ProductOrder
<1>2. \A r \in Service : /\ f[r] \in CallsOf(trace, r) \cup {None} /\ f[r] \in Nat
                         /\ g[r] \in CallsOf(trace, r) \cup {None} /\ g[r] \in Nat
  BY DEF AllCombinations, CallsOf, Call, None
<1>3. \A r \in Service : /\ CallsAt(AllSyscalls(trace, f), r) = {c \in CallsOf(trace, r) : c <= f[r]}
                         /\ CallsAt(AllSyscalls(trace, g), r) = {c \in CallsOf(trace, r) : c <= g[r]}
  BY DEF CallsAt, AllSyscalls, CallsOf
<1>4. g[s] \in CallsOf(trace, s)
  BY <1>1, <1>2 DEF None
<1>5. g[s] \in CallsAt(AllSyscalls(trace, g), s) /\ g[s] \notin CallsAt(AllSyscalls(trace, f), s)
  BY <1>1, <1>2, <1>3, <1>4
<1>6. CallsAt(AllSyscalls(trace, f), s) \subseteq CallsAt(AllSyscalls(trace, g), s)
  <2>. SUFFICES ASSUME NEW c \in CallsOf(trace, s), c <= f[s] PROVE c <= g[s]
    BY <1>3
  <2>1. c \in Nat
    BY DEF CallsOf, Call
  <2>. QED BY <1>1, <1>2, <2>1
<1>7. \A r \in Service : r < s =>
        CallsAt(AllSyscalls(trace, f), r) = CallsAt(AllSyscalls(trace, g), r)
  BY <1>1, <1>3
<1>. QED BY <1>5, <1>6, <1>7 DEF Precedes

(* The empty list is sorted, ...                                            *)
LEMMA InitSorted == Init => Sorted
<1>. SUFFICES ASSUME Init PROVE Sorted
  OBVIOUS
<1>1. crash_states = << >> /\ combinations = {}
  BY DEF Init
<1>. QED BY <1>1 DEF Sorted

(* ... the cut of the next frontier comes after those in the list, ...      *)
LEMMA VisitFrontierSorted == ASSUME IInv, Sorted, VisitFrontier PROVE Sorted'
<1>1. PICK f \in frontiers :
        /\ \A g \in frontiers : ProductOrder(f, g)
        /\ frontiers' = frontiers \ {f}
        /\ base' = AllSyscalls(trace, f)
        /\ crash_states' = Append(crash_states, BaseState(base'))
  BY DEF VisitFrontier
<1>2. /\ trace' = trace /\ trace \in Traces
      /\ frontiers \subseteq AllCombinations(trace) /\ crash_states \in Seq(CrashState)
  BY TraceAssumption DEF VisitFrontier, inputs, IInv, Visiting, Inputs, TypeOK
<1>. DEFINE n == Len(crash_states) + 1
<1>3. /\ DOMAIN crash_states' = DOMAIN crash_states \cup {n}
      /\ \A i \in DOMAIN crash_states : crash_states'[i] = crash_states[i] /\ i < n
      /\ crash_states'[n] = BaseState(base')
      /\ ~ (n < n) /\ \A i \in DOMAIN crash_states : ~ (n < i)
  BY <1>1, <1>2
<1>. HIDE DEF n
<1>4. crash_states'[n].base = base'
  BY <1>3 DEF BaseState
<1>5. \A i \in DOMAIN crash_states : Precedes(crash_states[i].base, base')
  BY <1>1 DEF Sorted
<1>6. \A S, R : Precedes(S, R)' <=> Precedes(S, R)
  BY <1>2 DEF Precedes, CallsAt
<1>7. ASSUME NEW i \in DOMAIN crash_states', NEW j \in DOMAIN crash_states', i < j
      PROVE  \/ crash_states'[i].base = crash_states'[j].base
             \/ Precedes(crash_states'[i].base, crash_states'[j].base)
  <2>1. CASE j = n
    BY <1>3, <1>4, <1>5, <1>7, <2>1
  <2>2. CASE j # n
    BY <1>3, <1>7, <2>2 DEF Sorted
  <2>. QED BY <2>1, <2>2
<1>8. ASSUME NEW i \in DOMAIN crash_states', NEW g \in frontiers'
      PROVE  Precedes(crash_states'[i].base, AllSyscalls(trace, g))
  <2>1. CASE i = n
    BY <1>1, <1>2, <1>4, <1>8, <2>1, ProductPrecedes
  <2>2. CASE i # n
    BY <1>1, <1>3, <1>8, <2>2 DEF Sorted
  <2>. QED BY <2>1, <2>2
<1>9. \A i \in DOMAIN crash_states' :
        crash_states'[i].base = base' \/ Precedes(crash_states'[i].base, base')
  BY <1>3, <1>4, <1>5
<1>. QED BY <1>2, <1>6, <1>7, <1>8, <1>9 DEF Sorted

(* ... a state that loses calls comes right after its cut, ...              *)
LEMMA TryVictimsSorted == ASSUME IInv, Listed, Sorted, TryVictims PROVE Sorted'
<1>1. PICK V \in combinations :
        /\ combinations' = combinations \ {V}
        /\ \/ crash_states' = Append(crash_states, ReorderState(pbgraph, base, V))
           \/ crash_states' = crash_states
  BY DEF TryVictims
<1>2. /\ trace' = trace /\ pbgraph' = pbgraph /\ frontiers' = frontiers /\ base' = base
      /\ crash_states \in Seq(CrashState) /\ base \in SUBSET Call /\ base # {}
  BY <1>1 DEF TryVictims, inputs, IInv, Visiting, TypeOK
<1>3. \A S, R : Precedes(S, R)' <=> Precedes(S, R)
  BY <1>2 DEF Precedes, CallsAt
<1>. DEFINE new == ReorderState(pbgraph, base, V)
            n == Len(crash_states) + 1
<1>4. new.base = base
  BY <1>2, ReorderFields
<1>5. CASE crash_states' = crash_states
  BY <1>1, <1>2, <1>3, <1>5 DEF Sorted
<1>6. CASE crash_states' = Append(crash_states, new)
  <2>1. /\ DOMAIN crash_states' = DOMAIN crash_states \cup {n}
        /\ \A i \in DOMAIN crash_states : crash_states'[i] = crash_states[i] /\ i < n
        /\ crash_states'[n] = new
        /\ ~ (n < n) /\ \A i \in DOMAIN crash_states : ~ (n < i)
    <3>. HIDE DEF new
    <3>. QED BY <1>2, <1>6
  <2>. HIDE DEF n, new
  <2>2. \A i \in DOMAIN crash_states : crash_states[i].base = base \/ Precedes(crash_states[i].base, base)
    BY <1>1 DEF Sorted
  <2>3. ASSUME NEW i \in DOMAIN crash_states', NEW j \in DOMAIN crash_states', i < j
        PROVE  \/ crash_states'[i].base = crash_states'[j].base
               \/ Precedes(crash_states'[i].base, crash_states'[j].base)
    <3>1. CASE j = n
      BY <1>4, <2>1, <2>2, <2>3, <3>1
    <3>2. CASE j # n
      BY <2>1, <2>3, <3>2 DEF Sorted
    <3>. QED BY <3>1, <3>2
  <2>4. ASSUME NEW i \in DOMAIN crash_states', NEW g \in frontiers
        PROVE  Precedes(crash_states'[i].base, AllSyscalls(trace, g))
    <3>1. \E k \in DOMAIN crash_states : crash_states[k].base = base
      BY <1>1 DEF Listed
    <3>. QED BY <1>4, <2>1, <3>1 DEF Sorted
  <2>5. \A i \in DOMAIN crash_states' :
          crash_states'[i].base = base \/ Precedes(crash_states'[i].base, base)
    BY <1>4, <2>1, <2>2
  <2>. QED BY <1>2, <1>3, <2>3, <2>4, <2>5 DEF Sorted
<1>. QED BY <1>1, <1>5, <1>6

(* ... and the two removals leave the list as it is.                        *)
LEMMA RemovalSorted ==
    ASSUME Sorted, StaticPrune \/ ScanDuplicates \/ RemoveDuplicates \/ UNCHANGED genvars
    PROVE  Sorted'
<1>1. /\ trace' = trace /\ frontiers' = frontiers /\ base' = base
      /\ combinations' = combinations /\ crash_states' = crash_states
  BY DEF StaticPrune, ScanDuplicates, RemoveDuplicates, genvars, inputs
<1>. QED BY <1>1 DEF Sorted, Precedes, CallsAt

-----------------------------------------------------------------------------
(* A cut is kept only when no state with the same calls comes after it.    *)
AloneIn(L, i) == \A j \in L : i < j => ~ SameAs(i, j)

CutsLose ==
    /\ phase = "duplicates" => \A i \in Scanned \ Marked :
         ~ HasReorder(crash_states[i]) => AloneIn(live, i)
    /\ phase = "explore" => \A i \in live :
         ~ HasReorder(crash_states[i]) => AloneIn(Unpruned, i)

LEMMA CutsLoseNext ==
    ASSUME DupInv, CutsLose, [Next]_genvars PROVE CutsLose'
<1>1. CASE VisitFrontier \/ TryVictims
  <2>1. phase' = "frontiers"
    BY <1>1 DEF VisitFrontier, TryVictims
  <2>. QED BY <2>1 DEF CutsLose
<1>2. CASE StaticPrune
  <2>1. phase' = "duplicates" /\ pending' = live'
    BY <1>2 DEF StaticPrune
  <2>. QED BY <2>1 DEF CutsLose, Scanned
<1>3. CASE ScanDuplicates
  <2>. DEFINE i == Min(pending)
              same == {j \in live : i < j /\ SameAs(i, j)}
  <2>1. /\ phase = "duplicates" /\ phase' = "duplicates"
        /\ pending' = pending \ {i}
        /\ to_remove' = IF same = {} THEN to_remove ELSE Append(to_remove, Loser(i, Min(same)))
        /\ live' = live /\ crash_states' = crash_states /\ trace' = trace
        /\ to_remove \in Seq(DOMAIN crash_states)
    BY <1>3 DEF ScanDuplicates, inputs, DupInv, IInv, TypeOK
  <2>2. Marked \subseteq Marked' /\ (same # {} => Loser(i, Min(same)) \in Marked')
    <3>. DEFINE x == Loser(i, Min(same))
    <3>1. CASE same = {}
      BY <2>1, <3>1 DEF Marked
    <3>2. CASE same # {}
      <4>1. to_remove' = Append(to_remove, x)
        BY <2>1, <3>2
      <4>. HIDE DEF x
      <4>2. /\ DOMAIN to_remove' = DOMAIN to_remove \cup {Len(to_remove) + 1}
            /\ \A k \in DOMAIN to_remove : to_remove'[k] = to_remove[k]
            /\ to_remove'[Len(to_remove) + 1] = x
        BY <2>1, <4>1
      <4>3. Marked \subseteq Marked' /\ x \in Marked'
        BY <4>2 DEF Marked
      <4>. QED BY <4>3 DEF x
    <3>. QED BY <3>1, <3>2
  <2>3. ASSUME NEW k \in Scanned', k \notin Marked', ~ HasReorder(crash_states[k])
        PROVE  AloneIn(live, k)
    <3>1. CASE k # i
      <4>1. k \in Scanned \ Marked
        BY <2>1, <2>2, <2>3, <3>1 DEF Scanned
      <4>. QED BY <2>1, <2>3, <4>1 DEF CutsLose
    <3>2. CASE k = i
      <4>1. i \notin Marked
        BY <2>2, <2>3, <3>2
      <4>2. same = {}
        <5>. SUFFICES ASSUME same # {} PROVE FALSE
          OBVIOUS
        <5>1. Loser(i, Min(same)) = i
          BY <2>3, <3>2, <4>1 DEF Loser
        <5>. QED BY <2>2, <2>3, <3>2, <5>1
      <4>. QED BY <3>2, <4>2 DEF AloneIn
    <3>. QED BY <3>1, <3>2
  <2>4. \A k : AloneIn(live, k)' <=> AloneIn(live, k)
    BY <2>1 DEF AloneIn, SameAs
  <2>. QED BY <2>1, <2>3, <2>4 DEF CutsLose, HasReorder
<1>4. CASE RemoveDuplicates
  <2>1. /\ phase = "duplicates" /\ phase' = "explore" /\ pending = {}
        /\ live' = live \ Marked /\ crash_states' = crash_states /\ trace' = trace
        /\ live = Unpruned
    BY <1>4 DEF RemoveDuplicates, inputs, DupInv, Scanning
  <2>2. Unpruned' = Unpruned
    BY <2>1 DEF Unpruned
  <2>. QED BY <2>1, <2>2 DEF CutsLose, AloneIn, SameAs, HasReorder, Scanned
<1>5. CASE UNCHANGED genvars
  BY <1>5 DEF genvars, inputs, CutsLose, AloneIn, SameAs, HasReorder, Scanned, Marked, Unpruned
<1>. QED BY <1>1, <1>2, <1>3, <1>4, <1>5 DEF Next

-----------------------------------------------------------------------------
(* Which states are left.                                                  *)
Reduced ==
    /\ DupInv /\ Tried /\ Listed /\ LightInv /\ Sorted /\ CutsLose
    /\ phase = "explore"

(* What the reduced list is known to be.                                   *)
LEMMA ReducedFacts ==
    ASSUME Reduced
    PROVE  /\ IInv /\ Tried /\ Listed /\ Sorted /\ phase # "frontiers"
           /\ trace \in Traces /\ Acyclic(trace)
           /\ pbgraph = PersistsBefore(trace, HappensBefore(trace))
           /\ hbgraph = HappensBefore(trace)
           /\ live \subseteq Unpruned /\ Unpruned \subseteq DOMAIN crash_states
           /\ DOMAIN crash_states \subseteq Nat
BY TraceAssumption, AcyclicAssumption
   DEF Reduced, DupInv, IInv, Inputs, TypeOK, LightInv, Unpruned

(* Everything known of a state that has lost calls.                        *)
LEMMA LostState ==
    ASSUME IInv, Tried, NEW i \in DOMAIN crash_states, HasReorder(crash_states[i])
    PROVE  LET st == crash_states[i]
           IN  /\ st.base \in DownSets(trace) /\ st.base \in SUBSET Call /\ st.base # {}
               /\ st.pivot = Max(st.base) /\ st.pivot \in st.syscalls
               /\ \A c \in st.base : c <= st.pivot
               /\ Dropped(st) = st.base \ st.syscalls /\ st.syscalls \subseteq st.base
               /\ \E v, w \in (st.base \ {st.pivot}) \ Fsyncs(trace) :
                     /\ st = ReorderState(pbgraph, st.base, {v, w})
                     /\ CanBeLost(pbgraph, st.base, st.pivot, v)
                     /\ CanBeLost(pbgraph, st.base, st.pivot, w)
                     /\ v \notin st.syscalls /\ w \notin st.syscalls
<1>. DEFINE st == crash_states[i]
            all == st.base
            p == Max(all)
            D(x) == DependentCalls(pbgraph, all, p, x)
<1>1. all \in DownSets(trace) /\ all \in SUBSET Call
  BY DEF IInv, States, GoodState, DownSets
<1>2. all # {} /\ st.pivot = p
  BY StateOfVictims
<1>3. p \in all /\ \A c \in all : c <= p
  BY <1>1, <1>2, MaxIsGreatest
<1>4. PICK v, w \in (all \ {p}) \ Fsyncs(trace) :
        /\ st.victims = {v, w} /\ st = ReorderState(pbgraph, all, {v, w})
  <2>1. \E v, w \in (st.base \ {st.pivot}) \ Fsyncs(trace) :
           st.victims = {v, w} /\ st = ReorderState(pbgraph, st.base, {v, w})
    BY StateOfVictims
  <2>. QED BY <1>2, <2>1
<1>5. CanBeLost(pbgraph, all, p, v) /\ CanBeLost(pbgraph, all, p, w)
  <2>1. Losable(st.base, st.victims)
    BY DEF Tried
  <2>. QED BY <1>4, <2>1 DEF Losable
<1>6. v \in D(v) /\ w \in D(w) /\ p \notin D(v) /\ p \notin D(w) /\ D(v) \subseteq all /\ D(w) \subseteq all
  <2>1. p \in Nat
    BY <1>1, <1>3 DEF Call
  <2>2. ~ (p < p)
    BY <2>1
  <2>. HIDE DEF p, all
  <2>. QED BY <1>4, <2>2 DEF DependentCalls, Dependents
<1>. HIDE DEF st
<1>7. \A c : c \in st.syscalls <=> c \in all /\ c \notin D(v) /\ c \notin D(w)
  <2>1. \A c : c \in ReorderState(pbgraph, all, {v, w}).syscalls <=>
                 c \in all /\ c \notin D(v) /\ c \notin D(w)
    BY <1>1, <1>4, ReorderCalls
  <2>. QED BY <1>4, <2>1
<1>8. Dropped(st) = D(v) \cup D(w)
  <2>1. st.reorder = Reorder(pbgraph, all, {v, w})
    BY <1>4 DEF ReorderState
  <2>2. IF v = w THEN st.reorder = << D(v) >>
        ELSE st.reorder = << D(v), D(w) >> \/ st.reorder = << D(w), D(v) >>
    <3>1. IF v = w THEN Reorder(pbgraph, all, {v, w}) = << D(v) >>
          ELSE \/ Reorder(pbgraph, all, {v, w}) = << D(v), D(w) >>
               \/ Reorder(pbgraph, all, {v, w}) = << D(w), D(v) >>
      BY <1>1, <1>4, ReorderOf
    <3>. HIDE DEF D
    <3>. QED BY <2>1, <3>1
  <2>. HIDE DEF D, all
  <2>3. \A c : c \in Dropped(st) <=> \E k \in DOMAIN st.reorder : c \in st.reorder[k]
    BY DEF Dropped
  <2>4. \A c : c \in Dropped(st) <=> c \in D(v) \/ c \in D(w)
    BY <2>2, <2>3
  <2>. QED BY <2>4
<1>9. Dropped(st) = all \ st.syscalls
  <2>. HIDE DEF D
  <2>. QED BY <1>6, <1>7, <1>8
<1>10. p \in st.syscalls /\ st.syscalls \subseteq all /\ v \notin st.syscalls /\ w \notin st.syscalls
  BY <1>3, <1>6, <1>7
<1>. USE DEF st
<1>11. \E x, y \in (all \ {st.pivot}) \ Fsyncs(trace) :
         /\ st = ReorderState(pbgraph, all, {x, y})
         /\ CanBeLost(pbgraph, all, st.pivot, x)
         /\ CanBeLost(pbgraph, all, st.pivot, y)
         /\ x \notin st.syscalls /\ y \notin st.syscalls
  <2>1. st.pivot = p
    BY <1>2
  <2>. HIDE DEF st, p, all
  <2>. QED BY <1>4, <1>5, <1>10, <2>1
<1>12. /\ st.pivot \in st.syscalls /\ st.syscalls \subseteq all
       /\ \A c \in all : c <= st.pivot
  <2>1. st.pivot = p
    BY <1>2
  <2>. HIDE DEF st, p, all
  <2>. QED BY <1>3, <1>10, <2>1
<1>. QED BY <1>1, <1>2, <1>9, <1>11, <1>12

(* The cuts of the list.                                                   *)
LEMMA CutState ==
    ASSUME IInv, NEW i \in DOMAIN crash_states, ~ HasReorder(crash_states[i])
    PROVE  /\ crash_states[i].base = crash_states[i].syscalls
           /\ crash_states[i].base \in DownSets(trace) /\ crash_states[i].base \in SUBSET Call
BY DEF IInv, States, GoodState, HasReorder, DownSets

(* Each cut is in the list (lines 37-54).                                   *)
LEMMA CutInList ==
    ASSUME IInv, phase # "frontiers", NEW all \in DownSets(trace)
    PROVE  \E k \in DOMAIN crash_states :
              /\ ~ HasReorder(crash_states[k])
              /\ crash_states[k].syscalls = all /\ crash_states[k].base = all
<1>1. trace \in Traces /\ frontiers = {}
  BY TraceAssumption DEF IInv, Inputs, Visited
<1>2. PICK f \in AllCombinations(trace) : AllSyscalls(trace, f) = all
  BY <1>1, CutHasFrontier
<1>3. PICK k \in DOMAIN crash_states :
        ~ HasReorder(crash_states[k]) /\ crash_states[k].syscalls = AllSyscalls(trace, f)
  BY <1>1, <1>2 DEF IInv, Visited
<1>. QED BY <1>2, <1>3, CutState

(* A cut that is left has no reordered state with the same calls.          *)
LEMMA CutsAlone ==
    ASSUME Reduced, NEW u \in live, ~ HasReorder(crash_states[u]), NEW j \in Unpruned, SameAs(u, j)
    PROVE  ~ HasReorder(crash_states[j])
<1>. SUFFICES ASSUME HasReorder(crash_states[j]) PROVE FALSE
  OBVIOUS
<1>1. /\ IInv /\ Listed /\ u \in DOMAIN crash_states /\ j \in DOMAIN crash_states
      /\ DOMAIN crash_states \subseteq Nat
  BY ReducedFacts
<1>2. CASE u < j
  BY <1>2 DEF Reduced, CutsLose, AloneIn
<1>3. CASE j < u
  BY <1>1, <1>3, CutsComeFirst, SameAsEquivalence
<1>4. CASE j = u
  BY <1>4
<1>5. u < j \/ j < u \/ j = u
  BY <1>1
<1>. QED BY <1>2, <1>3, <1>4, <1>5

(* A cut that is not pruned is left when no state has lost down to it.     *)
LEMMA CutIsLeft ==
    ASSUME Reduced, NEW i \in Unpruned, ~ HasReorder(crash_states[i]),
           \A j \in Unpruned : SameAs(i, j) => ~ HasReorder(crash_states[j])
    PROVE  i \in live
<1>1. /\ IInv /\ Listed /\ live \subseteq Unpruned
      /\ Unpruned \subseteq DOMAIN crash_states /\ DOMAIN crash_states \subseteq Nat
  BY DEF Reduced, DupInv, IInv, TypeOK, Unpruned, LightInv
<1>2. PICK u \in live : SameAs(i, u)
  BY DEF Reduced, DupInv
<1>3. ~ HasReorder(crash_states[u]) /\ u \in Unpruned
  BY <1>1, <1>2
<1>4. crash_states[i].base = crash_states[u].base
  BY <1>1, <1>2, <1>3, CutState DEF SameAs
<1>5. ~ (u < i) /\ ~ (i < u)
  BY <1>1, <1>3, <1>4 DEF Listed, Follows
<1>6. u = i
  BY <1>1, <1>3, <1>5
<1>. QED BY <1>6

-----------------------------------------------------------------------------
(* The calls that need not come after a; the largest cut without a.        *)
Without(a) == {c \in Call : c # a /\ <<a, c>> \notin HappensBefore(trace)}

(* A state that ends in this call is not pruned.                           *)
MayEnd(c) == Pruning => trace.kind[c] \notin {"fsync", "chunk"}

(* With messages recorded after their cause a cause is stamped first.       *)
LEMMA EdgeBefore ==
    ASSUME trace \in Traces, Forward, NEW e \in Edges(trace)
    PROVE  e[1] \in Call /\ e[2] \in Call /\ e[1] < e[2]
BY DEF Edges, Forward, Traces, Call

(* What need not come after a is a cut, ...                                 *)
LEMMA WithoutIsCut ==
    ASSUME trace \in Traces, Acyclic(trace), Forward, NEW a \in Call
    PROVE  Without(a) \in DownSets(trace)
<1>. SUFFICES ASSUME NEW e \in Edges(trace), e[2] \in Without(a) PROVE e[1] \in Without(a)
  BY DEF Without, DownSets
<1>1. e[1] \in Call /\ e[2] \in Call /\ <<e[1], e[2]>> \in HappensBefore(trace)
  BY EdgeHappens
<1>2. e[1] # a
  BY <1>1 DEF Without
<1>3. <<a, e[1]>> \notin HappensBefore(trace)
  BY <1>1, HappensBeforeTransitive DEF Without
<1>. QED BY <1>1, <1>2, <1>3 DEF Without

(* ... and so is the part of a cut up to a call, ...                        *)
LEMMA CutUpTo ==
    ASSUME trace \in Traces, Forward, NEW S \in DownSets(trace), NEW m \in Call
    PROVE  {c \in S : c <= m} \in DownSets(trace)
<1>. SUFFICES ASSUME NEW e \in Edges(trace), e[2] \in S, e[2] <= m PROVE e[1] \in S /\ e[1] <= m
  BY DEF DownSets
<1>1. e[1] \in Call /\ e[2] \in Call /\ e[1] < e[2]
  BY EdgeBefore
<1>2. e[1] \in S
  BY DEF DownSets
<1>. QED BY <1>1, <1>2 DEF Call

(* ... and two cuts together.                                               *)
LEMMA CutsJoined ==
    ASSUME NEW S \in DownSets(trace), NEW R \in DownSets(trace)
    PROVE  S \cup R \in DownSets(trace)
BY DEF DownSets

(* The last call of a set.                                                  *)
LEMMA EndsIn ==
    ASSUME NEW S \in SUBSET Call, NEW m \in S, \A c \in S : c <= m
    PROVE  Max(S) = m
<1>1. Max(S) \in S /\ \A c \in S : c <= Max(S)
  BY MaxIsGreatest
<1>2. Max(S) <= m /\ m <= Max(S) /\ Max(S) \in Int /\ m \in Int
  <2>. DEFINE k == Max(S)
  <2>1. k \in S /\ \A c \in S : c <= k
    BY <1>1
  <2>. HIDE DEF k
  <2>2. k <= m /\ m <= k /\ k \in Call /\ m \in Call
    BY <2>1
  <2>3. k \in Int /\ m \in Int
    BY <2>2, NumCallsAssumption DEF Call
  <2>. QED BY <2>2, <2>3 DEF k
<1>. QED BY <1>2

(* The static pruning looks at the last call only (lines 136-143).          *)
LEMMA EndsUnpruned ==
    ASSUME IInv, NEW i \in DOMAIN crash_states, crash_states[i].syscalls # {}
    PROVE  i \in Unpruned <=> MayEnd(Max(crash_states[i].syscalls))
BY DEF Unpruned, Prunable, MayEnd

-----------------------------------------------------------------------------
(* Nothing in the trace is a chunk and no message is stamped too early.    *)
Plain == Forward /\ \A c \in Call : trace.kind[c] # "chunk"

(* A state that loses a alone from the cut that holds what need not come   *)
(* after a, up to the call y.                                              *)
LosesOnly(st, a, y) ==
    /\ HasReorder(st) /\ Dropped(st) = {a}
    /\ st.syscalls = {c \in Without(a) : c <= y}
    /\ st.base = st.syscalls \cup {a}

(* What need not come after a holds all that is stamped before it.         *)
LEMMA EarlierIsWithout ==
    ASSUME trace \in Traces, Forward, NEW a \in Call, NEW c \in Call
    PROVE  /\ c < a => c \in Without(a)
           /\ c \notin Without(a) => a <= c /\ (c = a \/ <<a, c>> \in HappensBefore(trace))
<1>1. a \in Nat /\ c \in Nat
  BY DEF Call
<1>2. ASSUME c \notin Without(a) PROVE a <= c /\ (c = a \/ <<a, c>> \in HappensBefore(trace))
  <2>1. c = a \/ <<a, c>> \in HappensBefore(trace)
    BY <1>2 DEF Without
  <2>. QED BY <1>1, <2>1, HappensForward
<1>. QED BY <1>1, <1>2

(* A state that weighs no more than one lost call loses one call.           *)
LEMMA OneVictim ==
    ASSUME Reduced, NEW u \in DOMAIN crash_states, HasReorder(crash_states[u]),
           NumDropped(crash_states[u]) <= 1
    PROVE  \E v \in Call : Dropped(crash_states[u]) = {v}
<1>. DEFINE st == crash_states[u]
            all == st.base
            D(x) == DependentCalls(pbgraph, all, Max(all), x)
<1>1. IInv /\ Tried
  BY ReducedFacts
<1>2. all \in SUBSET Call /\ all # {} /\ st.pivot = Max(all)
  BY <1>1, LostState
<1>3. PICK v, w \in (all \ {st.pivot}) \ Fsyncs(trace) : st = ReorderState(pbgraph, all, {v, w})
  BY <1>1, LostState
<1>4. v \in Call /\ w \in Call
  BY <1>2
<1>. DEFINE dropped == NumDropped(ReorderState(pbgraph, all, {v, w}))
<1>5. /\ IsFiniteSet(D(v)) /\ Cardinality(D(v)) \in Nat /\ Cardinality(D(v)) # 0
      /\ IsFiniteSet(D(w)) /\ Cardinality(D(w)) \in Nat /\ Cardinality(D(w)) # 0
      /\ dropped = IF v = w THEN Cardinality(D(v)) ELSE Cardinality(D(v)) + Cardinality(D(w))
  <2>1. Counted(pbgraph, all, v, w)
    BY <1>2, <1>4, DroppedCounts
  <2>2. D(v) \in SUBSET Call /\ D(w) \in SUBSET Call /\ v \in D(v) /\ w \in D(w)
    BY <1>2, <1>4 DEF DependentCalls, Dependents
  <2>3. dropped = IF v = w THEN Cardinality(D(v)) ELSE Cardinality(D(v)) + Cardinality(D(w))
    BY <2>1 DEF Counted
  <2>. HIDE DEF D, dropped
  <2>4. IsFiniteSet(D(v)) /\ Cardinality(D(v)) \in Nat /\ IsFiniteSet(D(w)) /\ Cardinality(D(w)) \in Nat
    BY <2>2, CallsFinite
  <2>5. Cardinality(D(v)) # 0 /\ Cardinality(D(w)) # 0
    BY <2>2, <2>4, FS_EmptySet
  <2>. QED BY <2>3, <2>4, <2>5
<1>6. dropped = NumDropped(st)
  BY <1>3
<1>7. v = w /\ Cardinality(D(v)) = 1
  <2>. HIDE DEF dropped, D, st
  <2>1. dropped <= 1
    BY <1>6 DEF st
  <2>. QED BY <1>5, <2>1
<1>8. D(v) = {v}
  <2>1. v \in D(v)
    BY DEF DependentCalls
  <2>. HIDE DEF D
  <2>2. PICK x : D(v) = {x}
    BY <1>5, <1>7, FS_Singleton
  <2>. QED BY <2>1, <2>2
<1>9. st.reorder = << D(v) >>
  <2>1. Reorder(pbgraph, all, {v, w}) = << D(v) >>
    BY <1>4, <1>7, ReorderOf
  <2>2. ReorderState(pbgraph, all, {v, w}).reorder = Reorder(pbgraph, all, {v, w})
    BY DEF ReorderState
  <2>. QED BY <1>3, <2>1, <2>2
<1>10. Dropped(st) = {v}
  <2>. HIDE DEF D, st
  <2>. QED BY <1>8, <1>9 DEF Dropped
<1>. QED BY <1>4, <1>10

(* Losing a from the cut up to y is tried, with nothing else lost: the     *)
(* state that stands for that set of calls loses a alone.                  *)
LEMMA LoneLoss ==
    ASSUME Reduced, Forward, NEW a \in Call, a \notin Fsyncs(trace),
           NEW y \in Without(a), a < y, MayEnd(y)
    PROVE  \E u \in live : LosesOnly(crash_states[u], a, y)
<1>. DEFINE S == {c \in Without(a) : c <= y}
            C == S \cup {a}
<1>1. /\ IInv /\ Tried /\ Listed /\ phase # "frontiers"
      /\ trace \in Traces /\ Acyclic(trace)
      /\ pbgraph = PersistsBefore(trace, HappensBefore(trace))
      /\ live \subseteq Unpruned /\ Unpruned \subseteq DOMAIN crash_states
      /\ DOMAIN crash_states \subseteq Nat
  BY ReducedFacts
<1>2. y \in Call /\ y \in S /\ a \notin S /\ S \subseteq Call /\ a \in Nat /\ y \in Nat
      /\ \A c \in S : c <= y
  BY DEF Without, Call
<1>3. S \in DownSets(trace)
  <2>1. Without(a) \in DownSets(trace)
    BY <1>1, WithoutIsCut
  <2>. QED BY <1>1, <1>2, <2>1, CutUpTo
<1>4. C \in DownSets(trace)
  <2>. SUFFICES ASSUME NEW e \in Edges(trace), e[2] \in C PROVE e[1] \in C
    BY <1>2 DEF DownSets
  <2>1. e[1] \in Call /\ e[2] \in Call /\ e[1] < e[2]
    BY <1>1, EdgeBefore
  <2>2. CASE e[2] \in S
    BY <1>3, <2>2 DEF DownSets
  <2>3. CASE e[2] = a
    <3>1. e[1] \in Without(a)
      BY <1>1, <2>1, <2>3, EarlierIsWithout
    <3>2. e[1] <= y
      BY <1>2, <2>1, <2>3 DEF Call
    <3>. QED BY <3>1, <3>2
  <2>. QED BY <2>2, <2>3
<1>5. Max(C) = y /\ Max(S) = y
  <2>1. C \in SUBSET Call /\ y \in C /\ \A c \in C : c <= y
    BY <1>2
  <2>. HIDE DEF C, S
  <2>. QED BY <1>2, <2>1, EndsIn
<1>6. DependentCalls(pbgraph, C, y, a) = {a}
  <2>1. ASSUME NEW c \in C, a < c, <<a, c>> \in pbgraph PROVE FALSE
    <3>1. c \in S /\ c \in Call
      BY <1>2, <2>1
    <3>2. <<a, c>> \in HappensBefore(trace)
      BY <1>1, <2>1, <3>1, PersistsHappens
    <3>. QED BY <3>1, <3>2 DEF Without
  <2>. QED BY <2>1 DEF DependentCalls, Dependents
<1>7. CanBeLost(pbgraph, C, y, a)
  <2>1. <<a, y>> \notin pbgraph
    BY <1>1, <1>2, PersistsHappens DEF Without
  <2>. HIDE DEF C
  <2>. QED BY <1>6, <2>1 DEF CanBeLost
<1>8. PICK j \in DOMAIN crash_states : crash_states[j] = ReorderState(pbgraph, C, {a, a})
  <2>1. C # {} /\ a \in C \ {Max(C)} /\ CanBeLost(pbgraph, C, Max(C), a)
    BY <1>2, <1>5, <1>7
  <2>. HIDE DEF C
  <2>. QED BY <1>1, <1>4, <2>1, StateInList
<1>9. crash_states[j].syscalls = S
  <2>1. C \in SUBSET Call
    BY <1>2
  <2>. HIDE DEF C
  <2>2. \A c : c \in ReorderState(pbgraph, C, {a, a}).syscalls <=>
                 c \in C /\ c \notin DependentCalls(pbgraph, C, Max(C), a)
    BY <2>1, ReorderCalls
  <2>3. \A c : c \in crash_states[j].syscalls <=> c \in C /\ c # a
    BY <1>5, <1>6, <1>8, <2>2
  <2>4. \A c : c \in C <=> c \in S \/ c = a
    BY DEF C
  <2>5. crash_states[j] \in CrashState
    BY <1>1 DEF IInv, TypeOK
  <2>6. crash_states[j].syscalls \in SUBSET Call
    BY <2>5 DEF CrashState
  <2>. HIDE DEF S
  <2>. QED BY <1>2, <2>3, <2>4, <2>6
<1>10. crash_states[j].base = C /\ HasReorder(crash_states[j])
  BY <1>2, <1>8, ReorderFields
<1>11. NumDropped(crash_states[j]) = 1
  <2>1. C \in SUBSET Call
    BY <1>2
  <2>. DEFINE dropped == NumDropped(ReorderState(pbgraph, C, {a, a}))
  <2>. HIDE DEF C
  <2>2. Counted(pbgraph, C, a, a)
    BY <2>1, DroppedCounts
  <2>3. dropped = Cardinality(DependentCalls(pbgraph, C, Max(C), a))
    BY <2>2 DEF Counted
  <2>4. Cardinality({a}) = 1
    BY FS_Singleton
  <2>. QED BY <1>5, <1>6, <1>8, <2>3, <2>4
<1>12. j \in Unpruned
  <2>1. crash_states[j].syscalls # {} /\ Max(crash_states[j].syscalls) = y
    BY <1>2, <1>5, <1>9
  <2>. QED BY <1>1, <2>1, EndsUnpruned
<1>13. PICK u \in live : SameAs(j, u)
  BY <1>12 DEF Reduced, DupInv
<1>. DEFINE st == crash_states[u]
<1>14. u \in Unpruned /\ u \in DOMAIN crash_states /\ st.syscalls = S /\ SameAs(u, j)
  BY <1>1, <1>9, <1>13 DEF SameAs
<1>15. HasReorder(st)
  BY <1>10, <1>12, <1>14, CutsAlone
<1>16. /\ st.base \in DownSets(trace) /\ st.base \in SUBSET Call
       /\ st.pivot \in S /\ (\A c \in st.base : c <= st.pivot)
       /\ Dropped(st) = st.base \ S /\ S \subseteq st.base
       /\ \E v \in st.base : v \notin S
  <2>1. /\ st.base \in DownSets(trace) /\ st.base \in SUBSET Call
        /\ st.pivot \in st.syscalls
        /\ \A c \in st.base : c <= st.pivot
        /\ Dropped(st) = st.base \ st.syscalls /\ st.syscalls \subseteq st.base
        /\ \E v \in st.base : v \notin st.syscalls
    <3>. HIDE DEF st, S, C
    <3>. USE DEF st
    <3>1. PICK v, w \in (st.base \ {st.pivot}) \ Fsyncs(trace) :
            v \notin st.syscalls /\ w \notin st.syscalls
      BY <1>1, <1>14, <1>15, LostState
    <3>. QED BY <1>1, <1>14, <1>15, <3>1, LostState
  <2>. HIDE DEF S
  <2>. QED BY <1>14, <2>1
<1>17. \A c \in st.base : c <= y
  <2>1. st.pivot <= y /\ st.pivot \in Nat
    BY <1>2, <1>16 DEF Call
  <2>. HIDE DEF st, S
  <2>. QED BY <1>2, <1>16, <2>1 DEF Call
<1>18. a \in st.base
  <2>1. PICK d \in st.base : d \notin S
    BY <1>16
  <2>2. d \in Call /\ d \notin Without(a)
    BY <1>16, <1>17, <2>1
  <2>3. d = a \/ <<a, d>> \in HappensBefore(trace)
    BY <1>1, <2>2, EarlierIsWithout
  <2>. HIDE DEF st
  <2>. QED BY <1>16, <2>1, <2>3 DEF HappensBefore
<1>19. st.base = C
  <2>. SUFFICES ASSUME st.base # C PROVE FALSE
    OBVIOUS
  <2>1. C \subseteq st.base
    BY <1>16, <1>18
  <2>2. j < u
    <3>1. ASSUME u < j PROVE FALSE
      <4>1. Follows(crash_states[j], crash_states[u])
        BY <1>1, <1>14, <3>1 DEF Listed
      <4>. HIDE DEF C
      <4>. QED BY <1>10, <2>1, <4>1 DEF Follows
    <3>2. u # j
      BY <1>10
    <3>3. u \in Nat /\ j \in Nat
      BY <1>1, <1>14
    <3>. QED BY <3>1, <3>2, <3>3
  <2>3. NumDropped(st) <= 1
    <3>1. Lightest(u)
      BY DEF Reduced, LightInv
    <3>. HIDE DEF st
    <3>2. NumDropped(crash_states[u]) <= NumDropped(crash_states[j])
      BY <1>10, <1>12, <1>13, <2>2, <3>1 DEF Lightest
    <3>. QED BY <1>11, <3>2 DEF st
  <2>4. PICK v \in Call : Dropped(st) = {v}
    BY <1>14, <1>15, <2>3, OneVictim
  <2>. HIDE DEF S
  <2>. QED BY <1>2, <1>16, <1>18, <2>4
<1>20. Dropped(st) = {a}
  <2>. HIDE DEF S
  <2>. QED BY <1>2, <1>16, <1>19
<1>. QED BY <1>14, <1>15, <1>19, <1>20 DEF LosesOnly

-----------------------------------------------------------------------------
(* Which cuts are left.                                                    *)
LeftAs(i, S) ==
    /\ i \in live /\ ~ HasReorder(crash_states[i])
    /\ crash_states[i].base = S /\ crash_states[i].syscalls = S

UpTo(y) == {c \in Call : c <= y}

(* A state that has lost calls and ends in m has lost one before m.        *)
LEMMA LostBelow ==
    ASSUME Reduced, NEW j \in DOMAIN crash_states, HasReorder(crash_states[j]),
           NEW m \in Call, m \in crash_states[j].syscalls,
           \A c \in crash_states[j].syscalls : c <= m
    PROVE  LET st == crash_states[j]
           IN  /\ st.base \in DownSets(trace) /\ st.base \in SUBSET Call
               /\ Max(st.base) = m /\ m \in st.base /\ \A c \in st.base : c <= m
               /\ \E v, w \in (st.base \ {m}) \ Fsyncs(trace) :
                     /\ st = ReorderState(pbgraph, st.base, {v, w})
                     /\ CanBeLost(pbgraph, st.base, m, v)
                     /\ CanBeLost(pbgraph, st.base, m, w)
                     /\ v \notin st.syscalls /\ w \notin st.syscalls
<1>. DEFINE st == crash_states[j]
            all == st.base
<1>1. IInv /\ Tried
  BY ReducedFacts
<1>2. /\ all \in DownSets(trace) /\ all \in SUBSET Call /\ all # {}
      /\ st.pivot = Max(all) /\ st.pivot \in st.syscalls
      /\ \A c \in all : c <= st.pivot
      /\ st.syscalls \subseteq all
  BY <1>1, LostState
<1>3. st.pivot = m
  <2>. HIDE DEF st
  <2>1. st.pivot \in Call /\ st.pivot <= m /\ m <= st.pivot
    BY <1>2 DEF st
  <2>. QED BY <2>1 DEF Call
<1>4. \E v, w \in (all \ {st.pivot}) \ Fsyncs(trace) :
         /\ st = ReorderState(pbgraph, all, {v, w})
         /\ CanBeLost(pbgraph, all, st.pivot, v)
         /\ CanBeLost(pbgraph, all, st.pivot, w)
         /\ v \notin st.syscalls /\ w \notin st.syscalls
  BY <1>1, LostState
<1>. QED BY <1>2, <1>3, <1>4

(* A cut that may end in m is left when the calls before m that it lacks   *)
(* cannot be lost.                                                         *)
LEMMA CutLeft ==
    ASSUME Reduced, NEW T \in DownSets(trace), NEW m \in T, \A c \in T : c <= m, MayEnd(m),
           \A j \in Unpruned : HasReorder(crash_states[j]) => crash_states[j].syscalls # T
    PROVE  \E i \in live : LeftAs(i, T)
<1>1. IInv /\ phase # "frontiers" /\ T \in SUBSET Call
  BY ReducedFacts DEF DownSets
<1>2. PICK k \in DOMAIN crash_states :
        /\ ~ HasReorder(crash_states[k])
        /\ crash_states[k].syscalls = T /\ crash_states[k].base = T
  BY <1>1, CutInList
<1>3. Max(T) = m
  BY <1>1, EndsIn
<1>4. k \in Unpruned
  BY <1>1, <1>2, <1>3, EndsUnpruned
<1>5. \A j \in Unpruned : SameAs(k, j) => ~ HasReorder(crash_states[j])
  BY <1>2 DEF SameAs
<1>6. k \in live
  BY <1>2, <1>4, <1>5, CutIsLeft
<1>. QED BY <1>2, <1>6 DEF LeftAs

(* Everything up to a call is a cut.                                        *)
LEMMA UpToIsCut ==
    ASSUME trace \in Traces, Forward, NEW y \in Call PROVE UpTo(y) \in DownSets(trace)
<1>. SUFFICES ASSUME NEW e \in Edges(trace), e[2] \in UpTo(y) PROVE e[1] \in UpTo(y)
  BY DEF DownSets, UpTo
<1>1. e[1] \in Call /\ e[2] \in Call /\ e[1] < e[2]
  BY EdgeBefore
<1>. QED BY <1>1 DEF UpTo, Call

(* The cut of everything up to a call is left.                             *)
LEMMA WholeIsLeft ==
    ASSUME Reduced, Forward, NEW y \in Call, MayEnd(y)
    PROVE  \E i \in live : LeftAs(i, UpTo(y))
<1>1. /\ trace \in Traces /\ Unpruned \subseteq DOMAIN crash_states
  BY ReducedFacts
<1>2. UpTo(y) \in DownSets(trace) /\ y \in UpTo(y) /\ \A c \in UpTo(y) : c <= y
  BY <1>1, UpToIsCut DEF UpTo, Call
<1>3. ASSUME NEW j \in Unpruned, HasReorder(crash_states[j]), crash_states[j].syscalls = UpTo(y)
      PROVE  FALSE
  <2>1. PICK v \in crash_states[j].base :
          v \in Call /\ v <= y /\ v \notin crash_states[j].syscalls
    <3>1. /\ j \in DOMAIN crash_states /\ y \in crash_states[j].syscalls
          /\ \A c \in crash_states[j].syscalls : c <= y
      BY <1>1, <1>2, <1>3
    <3>2. /\ crash_states[j].base \in SUBSET Call
          /\ \A c \in crash_states[j].base : c <= y
          /\ \E v, w \in (crash_states[j].base \ {y}) \ Fsyncs(trace) : v \notin crash_states[j].syscalls
      BY <1>3, <3>1, LostBelow
    <3>. QED BY <3>2
  <2>. QED BY <1>3, <2>1 DEF UpTo
<1>. QED BY <1>2, <1>3, CutLeft

(* No state without a ends after y, and one does in y.                     *)
EndsBefore(a, y) ==
    /\ y \in Call /\ y < a /\ MayEnd(y)
    /\ \A c \in Without(a) : MayEnd(c) => c <= y

LEMMA JoinIsLeft ==
    ASSUME Reduced, Plain, NEW a \in Call, a \notin Fsyncs(trace), NEW y, EndsBefore(a, y),
           NEW T \in DownSets(trace), a \in T, \A c \in T : c <= a, UpTo(y) \subseteq T
    PROVE  \E i \in live : LeftAs(i, T)
<1>1. /\ trace \in Traces /\ Unpruned \subseteq DOMAIN crash_states
  BY ReducedFacts
<1>2. \A c \in Call : c \notin Fsyncs(trace) => MayEnd(c)
  BY DEF Plain, MayEnd, Fsyncs
<1>3. ASSUME NEW j \in Unpruned, HasReorder(crash_states[j]), crash_states[j].syscalls = T
      PROVE  FALSE
  <2>1. PICK v \in crash_states[j].base :
          v \in Call /\ v <= a /\ v # a /\ v \notin T /\ v \notin Fsyncs(trace)
    <3>1. /\ crash_states[j].base \in SUBSET Call
          /\ \A c \in crash_states[j].base : c <= a
          /\ \E v, w \in (crash_states[j].base \ {a}) \ Fsyncs(trace) : v \notin crash_states[j].syscalls
      BY <1>1, <1>3, LostBelow
    <3>. QED BY <1>3, <3>1
  <2>2. v \in Without(a)
    <3>1. v < a
      BY <2>1 DEF Call
    <3>2. Forward
      BY DEF Plain
    <3>. QED BY <1>1, <2>1, <3>1, <3>2, EarlierIsWithout
  <2>3. v <= y
    BY <1>2, <2>1, <2>2 DEF EndsBefore
  <2>. QED BY <2>1, <2>3 DEF UpTo
<1>. QED BY <1>2, <1>3, CutLeft

-----------------------------------------------------------------------------
(* The order of the cuts.                                                  *)
LEMMA PrecedesFirst ==
    ASSUME Reduced, NEW i \in DOMAIN crash_states, NEW j \in DOMAIN crash_states,
           Precedes(crash_states[i].base, crash_states[j].base)
    PROVE  i < j
<1>1. Sorted /\ i \in Nat /\ j \in Nat
  BY ReducedFacts
<1>2. ~ Precedes(crash_states[j].base, crash_states[i].base) /\ crash_states[j].base # crash_states[i].base
  BY PrecedesOnce
<1>3. ~ (j < i)
  BY <1>1, <1>2 DEF Sorted
<1>4. i # j
  BY <1>2
<1>. QED BY <1>1, <1>3, <1>4

(* A cut comes before the larger ones.                                      *)
LEMMA SmallerFirst ==
    ASSUME Reduced, NEW i \in DOMAIN crash_states, NEW j \in DOMAIN crash_states,
           crash_states[i].base \subseteq crash_states[j].base,
           crash_states[i].base # crash_states[j].base
    PROVE  i < j
<1>1. Listed /\ i \in Nat /\ j \in Nat
  BY ReducedFacts
<1>2. ~ (j < i)
  BY <1>1 DEF Listed, Follows
<1>3. i # j
  OBVIOUS
<1>. QED BY <1>1, <1>2, <1>3

(* A cut that is left and comes after everything up to y has a: no state    *)
(* that is left ends after y without it.                                    *)
LEMMA LaterHolds ==
    ASSUME Reduced, Forward, NEW a \in Call, NEW y, EndsBefore(a, y),
           NEW f, LeftAs(f, UpTo(y)), NEW q \in live, ~ HasReorder(crash_states[q]), f < q
    PROVE  a \in crash_states[q].base
<1>. DEFINE R == crash_states[q].base
<1>. SUFFICES ASSUME a \notin R PROVE FALSE
  OBVIOUS
<1>1. /\ IInv /\ Listed /\ live \subseteq Unpruned /\ Unpruned \subseteq DOMAIN crash_states
      /\ f \in DOMAIN crash_states /\ q \in DOMAIN crash_states
  BY ReducedFacts DEF LeftAs
<1>2. R = crash_states[q].syscalls /\ R \in DownSets(trace) /\ R \in SUBSET Call
  BY <1>1, CutState
<1>3. PICK c \in R : c \notin UpTo(y)
  <2>1. ~ (R \subseteq crash_states[f].base)
    BY <1>1 DEF Listed, Follows
  <2>. QED BY <2>1 DEF LeftAs
<1>4. R \subseteq Without(a)
  <2>. SUFFICES ASSUME NEW d \in R PROVE d \in Without(a)
    OBVIOUS
  <2>1. d \in Call /\ d # a
    BY <1>2
  <2>2. <<a, d>> \notin HappensBefore(trace)
    BY <1>2 DEF HappensBefore
  <2>. QED BY <2>1, <2>2 DEF Without
<1>5. Max(R) \in R /\ c <= Max(R)
  BY <1>2, <1>3, MaxIsGreatest
<1>6. MayEnd(Max(R))
  <2>. HIDE DEF R
  <2>1. crash_states[q].syscalls # {} /\ Max(R) = Max(crash_states[q].syscalls)
    BY <1>2, <1>3
  <2>. QED BY <1>1, <2>1, EndsUnpruned
<1>. DEFINE m == Max(R)
<1>7. m <= y /\ c <= m /\ m \in Call /\ c \in Call /\ y \in Call
  <2>. HIDE DEF R
  <2>. QED BY <1>2, <1>3, <1>4, <1>5, <1>6 DEF EndsBefore
<1>. HIDE DEF m
<1>8. c <= y
  BY <1>7 DEF Call
<1>. QED BY <1>3, <1>7, <1>8 DEF UpTo

(* What a cut of a larger one holds up to a is left, when the larger is.   *)
LEMMA PartIsLeft ==
    ASSUME Reduced, Plain, NEW a \in Call, a \notin Fsyncs(trace),
           NEW Q, NEW q, LeftAs(q, Q), a \in Q, NEW m \in Q, a < m, \A c \in Q : c <= m
    PROVE  \E i \in live : LeftAs(i, {c \in Q : c <= a})
<1>. DEFINE T == {c \in Q : c <= a}
<1>1. /\ IInv /\ Tried /\ phase # "frontiers"
      /\ trace \in Traces /\ Acyclic(trace) /\ Forward
      /\ pbgraph = PersistsBefore(trace, HappensBefore(trace))
      /\ live \subseteq Unpruned /\ Unpruned \subseteq DOMAIN crash_states
      /\ q \in live
  BY ReducedFacts DEF LeftAs, Plain
<1>2. Q \in DownSets(trace) /\ Q \in SUBSET Call /\ crash_states[q].syscalls = Q
      /\ ~ HasReorder(crash_states[q])
  BY <1>1, CutState DEF LeftAs
<1>3. T \in DownSets(trace) /\ a \in T /\ \A c \in T : c <= a
  <2>1. a <= a
    BY DEF Call
  <2>. QED BY <1>1, <1>2, <2>1, CutUpTo
<1>4. MayEnd(a)
  BY DEF MayEnd, Plain, Fsyncs
<1>5. ASSUME NEW j \in Unpruned, HasReorder(crash_states[j]), crash_states[j].syscalls = T
      PROVE  FALSE
  <2>. DEFINE st == crash_states[j]
              lower == st.base
              all == lower \cup Q
              D(x) == DependentCalls(pbgraph, lower, a, x)
              E(x) == DependentCalls(pbgraph, all, m, x)
  <2>1. j \in DOMAIN crash_states /\ a \in st.syscalls /\ \A c \in st.syscalls : c <= a
    <3>. HIDE DEF T
    <3>. QED BY <1>1, <1>3, <1>5
  <2>2. /\ lower \in DownSets(trace) /\ lower \in SUBSET Call
        /\ Max(lower) = a /\ \A c \in lower : c <= a
    BY <1>5, <2>1, LostBelow
  <2>3. PICK v, w \in (lower \ {a}) \ Fsyncs(trace) :
          /\ st = ReorderState(pbgraph, lower, {v, w})
          /\ v \notin T /\ w \notin T
    <3>1. \E v, w \in (lower \ {a}) \ Fsyncs(trace) :
            /\ st = ReorderState(pbgraph, lower, {v, w})
            /\ v \notin st.syscalls /\ w \notin st.syscalls
      BY <1>5, <2>1, LostBelow
    <3>. HIDE DEF T
    <3>. QED BY <1>5, <3>1
  <2>4. v \in Call /\ w \in Call /\ v \notin Q /\ w \notin Q /\ v \in all /\ w \in all
    BY <2>2, <2>3
  <2>5. \A c : c \in T <=> c \in lower /\ c \notin D(v) /\ c \notin D(w)
    <3>1. \A c : c \in ReorderState(pbgraph, lower, {v, w}).syscalls <=>
                   /\ c \in lower
                   /\ c \notin DependentCalls(pbgraph, lower, Max(lower), v)
                   /\ c \notin DependentCalls(pbgraph, lower, Max(lower), w)
      BY <2>2, <2>4, ReorderCalls
    <3>2. st.syscalls = T
      BY <1>5
    <3>. HIDE DEF T
    <3>. QED BY <2>2, <2>3, <3>1, <3>2
  <2>6. m \in Call /\ a \in Nat /\ m \in Nat /\ a < m
    BY <1>2 DEF Call
  <2>7. all \in DownSets(trace) /\ all \in SUBSET Call /\ m \in all
    BY <1>2, <2>2, CutsJoined
  <2>8. Max(all) = m
    <3>1. \A c \in all : c <= m
      <4>. SUFFICES ASSUME NEW c \in lower PROVE c <= m
        OBVIOUS
      <4>1. c \in Nat /\ c <= a
        BY <2>2 DEF Call
      <4>. QED BY <2>6, <4>1
    <3>. HIDE DEF all
    <3>. QED BY <2>7, <3>1, EndsIn
  <2>9. ASSUME NEW x \in {v, w}, NEW c \in E(x) PROVE c \notin Q
    <3>1. c = x \/ (c \in Call /\ <<x, c>> \in pbgraph)
      BY <2>7 DEF DependentCalls, Dependents
    <3>2. x \in Call /\ x \notin Q
      BY <2>4
    <3>3. c = x \/ <<x, c>> \in HappensBefore(trace)
      BY <1>1, <3>1, <3>2, PersistsHappens
    <3>. QED BY <1>2, <3>2, <3>3 DEF HappensBefore
  <2>10. ASSUME NEW x \in {v, w} PROVE CanBeLost(pbgraph, all, m, x)
    <3>. SUFFICES ASSUME NEW c \in E(x), <<c, m>> \in pbgraph PROVE FALSE
      BY DEF CanBeLost
    <3>1. c \notin Q /\ c \in Call
      BY <2>4, <2>7, <2>9 DEF DependentCalls, Dependents
    <3>2. <<c, m>> \in HappensBefore(trace)
      BY <1>1, <2>6, <3>1, PersistsHappens
    <3>. QED BY <1>2, <3>1, <3>2 DEF HappensBefore
  <2>11. PICK k \in DOMAIN crash_states : crash_states[k] = ReorderState(pbgraph, all, {v, w})
    <3>1. /\ v \in all \ {Max(all)} /\ w \in all \ {Max(all)} /\ all # {}
          /\ v \notin Fsyncs(trace) /\ w \notin Fsyncs(trace)
          /\ CanBeLost(pbgraph, all, Max(all), v) /\ CanBeLost(pbgraph, all, Max(all), w)
      <4>1. v # m /\ w # m
        BY <2>4
      <4>. HIDE DEF all
      <4>. QED BY <2>3, <2>4, <2>7, <2>8, <2>10, <4>1
    <3>. HIDE DEF all
    <3>. QED BY <1>1, <2>7, <3>1, StateInList
  <2>12. HasReorder(crash_states[k])
    <3>. HIDE DEF all
    <3>. QED BY <2>7, <2>11, ReorderFields
  <2>13. crash_states[k].syscalls = Q
    <3>1. \A c : c \in crash_states[k].syscalls <=> c \in all /\ c \notin E(v) /\ c \notin E(w)
      <4>1. \A c : c \in ReorderState(pbgraph, all, {v, w}).syscalls <=>
                   /\ c \in all
                   /\ c \notin DependentCalls(pbgraph, all, Max(all), v)
                   /\ c \notin DependentCalls(pbgraph, all, Max(all), w)
        <5>. HIDE DEF all
        <5>. QED BY <2>4, <2>7, ReorderCalls
      <4>. HIDE DEF all
      <4>. QED BY <2>8, <2>11, <4>1
    <3>2. ASSUME NEW c \in lower, c \notin Q PROVE c \in E(v) \/ c \in E(w)
      <4>1. c \notin T
        BY <3>2
      <4>2. PICK x \in {v, w} : c \in D(x)
        <5>. HIDE DEF D, T, lower
        <5>. QED BY <2>5, <3>2, <4>1
      <4>3. c = x \/ (x < c /\ c < a /\ <<x, c>> \in pbgraph)
        BY <4>2 DEF DependentCalls, Dependents
      <4>4. c \in Nat /\ c \in all
        BY <2>2 DEF Call
      <4>5. c < a => c < m
        BY <2>6, <4>4
      <4>6. c \in E(x)
        BY <4>3, <4>4, <4>5 DEF DependentCalls, Dependents
      <4>. QED BY <4>6
    <3>3. \A c : c \in all <=> c \in lower \/ c \in Q
      OBVIOUS
    <3>4. crash_states[k].syscalls \in SUBSET Call
      <4>1. crash_states[k] \in CrashState
        BY <1>1 DEF IInv, TypeOK
      <4>. QED BY <4>1 DEF CrashState
    <3>5. \A c : c \in crash_states[k].syscalls <=> c \in Q
      <4>. HIDE DEF E, all, lower
      <4>. QED BY <2>9, <3>1, <3>2, <3>3
    <3>. QED BY <1>2, <3>4, <3>5
  <2>14. k \in Unpruned /\ SameAs(q, k)
    <3>1. Q # {}
      OBVIOUS
    <3>2. q \in DOMAIN crash_states /\ q \in Unpruned
      BY <1>1
    <3>3. MayEnd(Max(Q))
      BY <1>1, <1>2, <3>1, <3>2, EndsUnpruned
    <3>. QED BY <1>1, <1>2, <2>13, <3>1, <3>3, EndsUnpruned DEF SameAs
  <2>. QED BY <1>1, <1>2, <2>12, <2>14, CutsAlone
<1>. HIDE DEF T
<1>6. \E i \in live : LeftAs(i, T)
  BY <1>3, <1>4, <1>5, CutLeft
<1>. QED BY <1>6 DEF T

(* The next cut that is left ends in a.                                    *)
LEMMA NextEndsIn ==
    ASSUME Reduced, Plain, NEW a \in Call, a \notin Fsyncs(trace), NEW y, EndsBefore(a, y),
           NEW f, LeftAs(f, UpTo(y)), NEW q \in live, ~ HasReorder(crash_states[q]), f < q,
           \A r \in live : ~ HasReorder(crash_states[r]) /\ f < r => ~ (r < q)
    PROVE  crash_states[q].base # {} /\ Max(crash_states[q].base) = a
<1>. DEFINE F == UpTo(y)
            Q == crash_states[q].base
            T == {c \in Q : c <= a}
            m == Max(Q)
<1>1. /\ IInv /\ Sorted /\ trace \in Traces /\ Forward
      /\ live \subseteq DOMAIN crash_states
      /\ f \in live /\ f \in DOMAIN crash_states /\ q \in DOMAIN crash_states
      /\ y \in Call /\ y < a
  BY ReducedFacts DEF LeftAs, Plain, EndsBefore
<1>2. LeftAs(q, Q) /\ Q \in DownSets(trace) /\ Q \in SUBSET Call
  BY <1>1, CutState DEF LeftAs
<1>3. a \in Q
  BY <1>1, LaterHolds
<1>4. m \in Q /\ m \in Call /\ \A c \in Q : c <= m
  BY <1>2, <1>3, MaxIsGreatest
<1>. SUFFICES ASSUME m # a PROVE FALSE
  BY <1>3
<1>5. a < m
  <2>. HIDE DEF m
  <2>. QED BY <1>3, <1>4 DEF Call
<1>6. PICK i \in live : LeftAs(i, T)
  <2>. HIDE DEF Q, m
  <2>. QED BY <1>2, <1>3, <1>4, <1>5, PartIsLeft
<1>7. /\ i \in DOMAIN crash_states /\ ~ HasReorder(crash_states[i])
      /\ crash_states[i].base = T /\ crash_states[f].base = F
  BY <1>1, <1>6 DEF LeftAs
<1>8. m \notin T /\ T \subseteq Q /\ a \in T /\ a \notin F
  <2>1. a \in Nat /\ m \in Nat /\ y \in Nat
    BY <1>1, <1>4 DEF Call
  <2>. HIDE DEF m
  <2>. QED BY <1>1, <1>3, <1>5, <2>1 DEF UpTo
<1>9. i < q
  <2>1. T # Q
    BY <1>4, <1>8
  <2>. HIDE DEF T
  <2>. QED BY <1>1, <1>7, <1>8, <2>1, SmallerFirst
<1>10. Precedes(F, Q)
  <2>1. F # Q
    BY <1>3, <1>8
  <2>. QED BY <1>1, <1>7, <2>1 DEF Sorted
<1>11. PICK s \in Service :
         /\ CallsAt(F, s) \subseteq CallsAt(Q, s) /\ CallsAt(F, s) # CallsAt(Q, s)
         /\ \A r \in Service : r < s => CallsAt(F, r) = CallsAt(Q, r)
  BY <1>10 DEF Precedes
<1>12. F \cap Q \subseteq T
  <2>. SUFFICES ASSUME NEW c \in F, c \in Q PROVE c <= a
    OBVIOUS
  <2>1. c \in Nat /\ c <= y /\ y \in Nat /\ a \in Nat
    BY <1>1 DEF UpTo, Call
  <2>. QED BY <1>1, <2>1
<1>. HIDE DEF T, Q, m, F
<1>13. \A r \in Service : r < s => CallsAt(F, r) = CallsAt(T, r)
  BY <1>8, <1>11, <1>12 DEF CallsAt
<1>14. CallsAt(F, s) \subseteq CallsAt(T, s)
  BY <1>11, <1>12 DEF CallsAt
<1>15. CASE CallsAt(F, s) # CallsAt(T, s)
  <2>1. Precedes(F, T)
    BY <1>13, <1>14, <1>15 DEF Precedes
  <2>2. f < i
    BY <1>1, <1>7, <2>1, PrecedesFirst
  <2>. QED BY <1>6, <1>7, <1>9, <2>2
<1>16. CASE CallsAt(F, s) = CallsAt(T, s)
  <2>. DEFINE J == T \cup F
  <2>1. J \in DownSets(trace)
    <3>1. T \in DownSets(trace) /\ F \in DownSets(trace)
      BY <1>1, <1>2, CutUpTo, UpToIsCut DEF T, F
    <3>. QED BY <3>1, CutsJoined
  <2>2. a \in J /\ F \subseteq J
    BY <1>8
  <2>3. \A c \in J : c <= a
    <3>. SUFFICES ASSUME NEW c \in F PROVE c <= a
      BY DEF T
    <3>1. c \in Nat /\ c <= y /\ y \in Nat /\ a \in Nat
      BY <1>1 DEF UpTo, Call, F
    <3>. QED BY <1>1, <3>1
  <2>4. PICK k \in live : LeftAs(k, J)
    <3>1. UpTo(y) \subseteq J
      BY <2>2 DEF F
    <3>. HIDE DEF J
    <3>. QED BY <2>1, <2>2, <2>3, <3>1, JoinIsLeft
  <2>5. k \in DOMAIN crash_states /\ ~ HasReorder(crash_states[k]) /\ crash_states[k].base = J
    BY <1>1, <2>4 DEF LeftAs
  <2>6. f < k
    <3>1. J # F
      BY <1>8, <2>2
    <3>. HIDE DEF J
    <3>. QED BY <1>1, <1>7, <2>2, <2>5, <3>1, SmallerFirst
  <2>7. Precedes(J, Q)
    <3>1. \A r \in Service : CallsAt(J, r) = CallsAt(T, r) \cup CallsAt(F, r)
      BY DEF CallsAt
    <3>. HIDE DEF J
    <3>2. CallsAt(J, s) = CallsAt(F, s)
      BY <1>16, <3>1
    <3>3. \A r \in Service : r < s => CallsAt(J, r) = CallsAt(F, r)
      BY <1>13, <3>1
    <3>4. /\ CallsAt(J, s) \subseteq CallsAt(Q, s) /\ CallsAt(J, s) # CallsAt(Q, s)
          /\ \A r \in Service : r < s => CallsAt(J, r) = CallsAt(Q, r)
      BY <1>11, <3>2, <3>3
    <3>. QED BY <3>4 DEF Precedes
  <2>8. k < q
    <3>1. crash_states[q].base = Q
      BY DEF Q
    <3>. HIDE DEF J
    <3>. QED BY <1>1, <2>5, <2>7, <3>1, PrecedesFirst
  <2>. QED BY <2>4, <2>5, <2>6, <2>8
<1>. QED BY <1>15, <1>16

(* There is a next one.                                                    *)
LEMMA NextIsThere ==
    ASSUME Reduced, Plain, NEW a \in Call, a \notin Fsyncs(trace), NEW y, EndsBefore(a, y),
           NEW f, LeftAs(f, UpTo(y))
    PROVE  \E q \in live : f < q /\ LeftAs(q, UpTo(a))
<1>1. MayEnd(a) /\ Forward
  BY DEF MayEnd, Plain, Fsyncs
<1>2. PICK q \in live : LeftAs(q, UpTo(a))
  BY <1>1, WholeIsLeft
<1>3. UpTo(y) \subseteq UpTo(a) /\ UpTo(y) # UpTo(a)
  <2>1. a \in Nat /\ y \in Nat /\ y < a /\ a \in UpTo(a) /\ a \notin UpTo(y)
    BY DEF EndsBefore, Call, UpTo
  <2>. QED BY <2>1 DEF UpTo, Call
<1>4. f < q
  <2>1. f \in DOMAIN crash_states /\ q \in DOMAIN crash_states
    BY <1>2, ReducedFacts DEF LeftAs
  <2>. QED BY <1>2, <1>3, <2>1, SmallerFirst DEF LeftAs
<1>. QED BY <1>2, <1>4

(* When b does not need a, a state without a ends at or after b: one that  *)
(* loses a alone, or all of those without a end before it.                 *)
LEMMA MissedCall ==
    ASSUME Reduced, Plain, NEW a \in Call, a \notin Fsyncs(trace),
           NEW b \in Without(a), b \notin Fsyncs(trace)
    PROVE  \E y \in Call :
              /\ b <= y
              /\ EndsBefore(a, y) \/ \E u \in live : LosesOnly(crash_states[u], a, y)
<1>. DEFINE Y == {c \in Without(a) : MayEnd(c)}
            y == Max(Y)
<1>1. Y \in SUBSET Call /\ b \in Y
  BY DEF Without, MayEnd, Plain, Fsyncs
<1>2. y \in Y /\ \A c \in Y : c <= y
  BY <1>1, MaxIsGreatest
<1>. HIDE DEF y
<1>3. y \in Call /\ y \in Without(a) /\ MayEnd(y) /\ b <= y
  BY <1>1, <1>2
<1>4. CASE a < y
  <2>1. Forward
    BY DEF Plain
  <2>. QED BY <1>3, <1>4, <2>1, LoneLoss
<1>5. CASE ~ (a < y)
  <2>1. y # a
    BY <1>3 DEF Without
  <2>2. y < a
    BY <1>3, <1>5, <2>1 DEF Call
  <2>3. \A c \in Without(a) : MayEnd(c) => c <= y
    BY <1>2
  <2>4. EndsBefore(a, y)
    BY <1>3, <2>2, <2>3 DEF EndsBefore
  <2>. QED BY <1>3, <2>4
<1>. QED BY <1>4, <1>5
=============================================================================
