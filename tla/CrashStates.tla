----------------------------- MODULE CrashStates -----------------------------
(***************************************************************************)
(* CrashStateGenerator.crash up to the exploration: the consistent cuts of *)
(* the execution graph, the states reached from each by losing one or two  *)
(* calls, the static pruning and the removal of duplicates.                *)
(*                                                                         *)
(* A crash state keeps the fields of the class: the calls it replays       *)
(* (always in timestamp order, so a set), the cut it was made from, the    *)
(* lost calls and the pivot (reorder[0], one set per victim, and           *)
(* reorder[1]) and the victims.  A cut has pivot None and no victims.  The *)
(* list crash_states is only appended to; what the code removes from it    *)
(* leaves `live`, the positions still in the list.                         *)
(***************************************************************************)
EXTENDS Causality, Sequences, FiniteSetsExt

CONSTANTS
    Trace,      \* the traces considered, a subset of Traces
    Pruning     \* config.pruning

ASSUME TraceAssumption == Trace \subseteq Traces
ASSUME AcyclicAssumption == \A t \in Trace : Acyclic(t)
ASSUME PruningAssumption == Pruning \in BOOLEAN

VARIABLES
    trace,              \* the recorded calls, fixed
    hbgraph, pbgraph,   \* the fields of Causality, fixed
    frontiers,          \* all_combinations not visited yet
    base,               \* all_syscalls of the frontier being visited
    combinations,       \* victim_combination: victims not tried yet
    crash_states,       \* self.crash_states
    live,               \* the positions of the states not removed
    pending,            \* positions i the duplicate scan has not visited
    to_remove,          \* positions appended to to_remove, in order
    phase               \* the part of crash() that runs

inputs == <<trace, hbgraph, pbgraph>>
genvars == <<inputs, frontiers, base, combinations, crash_states, live, pending,
             to_remove, phase>>

None == 0   \* no call; smaller than any, as in x.timestamp < src.timestamp

-----------------------------------------------------------------------------
(* Frontiers: for each service None or one of its calls.                   *)

CallsOf(t, s) == {c \in Call : t.svc[c] = s}

(* Mutant: the frontier may hold dest without src.                         *)
RespectsBefore(t, f, e) ==
    ~ (f[t.svc[e[1]]] < e[1] /\ f[t.svc[e[2]]] > e[2])

(* One cross-service dependency: not (src missing and dest present).       *)
Respects(t, f, e) ==
    ~ (f[t.svc[e[1]]] < e[1] /\ f[t.svc[e[2]]] >= e[2])

AllCombinations(t) ==
    {f \in [Service -> Call \cup {None}] :
        /\ \A s \in Service : f[s] \in CallsOf(t, s) \cup {None}
        /\ \A e \in t.cross : Respects(t, f, e)}

AllSyscalls(t, f) == {c \in Call : c <= f[t.svc[c]]}

(* itertools.product: the last service varies fastest.                     *)
ProductOrder(f, g) ==
    f = g \/ \E s \in Service :
                /\ f[s] < g[s]
                /\ \A r \in Service : r < s => f[r] = g[r]

(* itertools.combinations for k = 1, 2, each list reversed.                *)
Victims(t, all) ==
    IF all = {} THEN {}
    ELSE LET candidates == (all \ {Max(all)}) \ Fsyncs(t)
         IN  {{v, w} : v, w \in candidates}

CombinationOrder(V, W) ==
    \/ Cardinality(V) < Cardinality(W)
    \/ /\ Cardinality(V) = Cardinality(W)
       /\ Min(V) > Min(W) \/ (Min(V) = Min(W) /\ Max(V) >= Max(W))

(* dependent_calls, one entry per victim, in the order of the victims.     *)
Reorder(pb, all, V) ==
    LET D(v) == DependentCalls(pb, all, Max(all), v)
    IN  IF Cardinality(V) = 1 THEN << D(Min(V)) >> ELSE << D(Min(V)), D(Max(V)) >>

Dropped(st) == UNION {st.reorder[k] : k \in DOMAIN st.reorder}

NumDropped(st) == MapThenSumSet(LAMBDA k : Cardinality(st.reorder[k]), DOMAIN st.reorder)

HasReorder(st) == st.pivot # None

BaseState(all) ==
    [syscalls |-> all, base |-> all, reorder |-> << >>, pivot |-> None, victims |-> {}]

ReorderState(pb, all, V) ==
    LET lost == Reorder(pb, all, V)
    IN  [syscalls |-> {c \in all : \A k \in DOMAIN lost : c \notin lost[k]},
         base |-> all, reorder |-> lost, pivot |-> Max(all), victims |-> V]

CrashState ==
    [syscalls : SUBSET Call, base : SUBSET Call, reorder : Seq(SUBSET Call),
     pivot : Call \cup {None}, victims : SUBSET Call]

(* Mutant: an fsync anywhere in the state is enough.                       *)
HoldsFsync(t, st) == \E c \in st.syscalls : t.kind[c] \in {"fsync", "chunk"}

(* States whose last call is an fsync or writes only HDF5 data chunks.     *)
Prunable(t, st) ==
    st.syscalls # {} /\ t.kind[Max(st.syscalls)] \in {"fsync", "chunk"}

-----------------------------------------------------------------------------
Init ==
    /\ trace \in Trace
    /\ hbgraph = HappensBefore(trace)
    /\ pbgraph = PersistsBefore(trace, hbgraph)
    /\ frontiers = AllCombinations(trace)
    /\ base = {}
    /\ combinations = {}
    /\ crash_states = << >>
    /\ live = {}
    /\ pending = {}
    /\ to_remove = << >>
    /\ phase = "frontiers"

(* The next frontier: its cut becomes a crash state, its victims are listed.*)
VisitFrontier ==
    /\ phase = "frontiers"
    /\ combinations = {}
    /\ \E f \in frontiers :
        /\ \A g \in frontiers : ProductOrder(f, g)
        /\ frontiers' = frontiers \ {f}
        /\ base' = AllSyscalls(trace, f)
        /\ crash_states' = Append(crash_states, BaseState(base'))
        /\ combinations' = Victims(trace, base')
    /\ UNCHANGED <<inputs, live, pending, to_remove, phase>>

(* The next victims: a crash state when each of them can be lost.          *)
TryVictims ==
    /\ phase = "frontiers"
    /\ \E V \in combinations :
        /\ \A W \in combinations : CombinationOrder(V, W)
        /\ combinations' = combinations \ {V}
        /\ crash_states' =
             IF \A v \in V : CanBeLost(pbgraph, base, Max(base), v)
             THEN Append(crash_states, ReorderState(pbgraph, base, V))
             ELSE crash_states
    /\ UNCHANGED <<inputs, frontiers, base, live, pending, to_remove, phase>>

(* Static pruning, once every frontier has been visited.                   *)
StaticPrune ==
    /\ phase = "frontiers"
    /\ frontiers = {}
    /\ combinations = {}
    /\ live' = {i \in DOMAIN crash_states : Pruning => ~ Prunable(trace, crash_states[i])}
    /\ pending' = live'
    /\ phase' = "duplicates"
    /\ UNCHANGED <<inputs, frontiers, base, combinations, crash_states, to_remove>>

SameAs(i, j) == crash_states[i].syscalls = crash_states[j].syscalls

Marked == {to_remove[k] : k \in DOMAIN to_remove}

(* Mutant: a state already to be removed is compared like any other.       *)
LoserUnmarked(i, j) ==
    IF /\ HasReorder(crash_states[i])
       /\ HasReorder(crash_states[j])
       /\ NumDropped(crash_states[i]) < NumDropped(crash_states[j])
    THEN j
    ELSE i

(* Mutant: positions counted from 1 where the list counts from 0.          *)
LoserOffByOne(i, j) == j + 1

(* State i against the first later state with the same calls.              *)
Loser(i, j) ==
    IF \/ i \in Marked
       \/ /\ HasReorder(crash_states[i])
          /\ HasReorder(crash_states[j])
          /\ NumDropped(crash_states[i]) < NumDropped(crash_states[j])
    THEN j
    ELSE i

ScanDuplicates ==
    /\ phase = "duplicates"
    /\ pending # {}
    /\ LET i == Min(pending)
           same == {j \in live : i < j /\ SameAs(i, j)}
       IN  /\ pending' = pending \ {i}
           /\ to_remove' = IF same = {} THEN to_remove
                           ELSE Append(to_remove, Loser(i, Min(same)))
    /\ UNCHANGED <<inputs, frontiers, base, combinations, crash_states, live, phase>>

RemoveDuplicates ==
    /\ phase = "duplicates"
    /\ pending = {}
    /\ live' = live \ Marked
    /\ phase' = "explore"
    /\ UNCHANGED <<inputs, frontiers, base, combinations, crash_states, pending, to_remove>>

Next == VisitFrontier \/ TryVictims \/ StaticPrune \/ ScanDuplicates \/ RemoveDuplicates

Spec == Init /\ [][Next]_genvars

-----------------------------------------------------------------------------
(* Every variable keeps its type; positions are always in the list.        *)
TypeOK ==
    /\ trace \in Traces
    /\ hbgraph \in SUBSET (Call \X Call)
    /\ pbgraph \in SUBSET (Call \X Call)
    /\ frontiers \in SUBSET [Service -> Call \cup {None}]
    /\ base \in SUBSET Call
    /\ combinations \in SUBSET SUBSET Call
    /\ crash_states \in Seq(CrashState)
    /\ live \in SUBSET (DOMAIN crash_states)
    /\ pending \in SUBSET (DOMAIN crash_states)
    /\ to_remove \in Seq(DOMAIN crash_states)
    /\ phase \in {"frontiers", "duplicates", "explore"}

(* The cuts are exactly the sets of calls that hold, with a call, every    *)
(* call that happened before it: no effect without its cause, and no       *)
(* consistent cut is missed (lines 53-79).                                 *)
ConsistentCuts ==
    LET cuts == {i \in DOMAIN crash_states : ~ HasReorder(crash_states[i])}
    IN  /\ \A i \in DOMAIN crash_states : \A e \in hbgraph :
             e[2] \in crash_states[i].base => e[1] \in crash_states[i].base
        /\ phase # "frontiers" =>
             \A S \in DownSets(trace) : \E i \in cuts : crash_states[i].syscalls = S

(* Losing a victim loses everything its server journalled after it: each   *)
(* server is left with a prefix of its calls (lines 84-109).               *)
ServerPrefix ==
    \A i \in DOMAIN crash_states : \A a, b \in Call :
        (SameService(trace, a, b) /\ a < b /\ b \in crash_states[i].syscalls)
            => a \in crash_states[i].syscalls

(* A call whose file was flushed before the pivot was issued is never lost *)
(* in a state that keeps the pivot (lines 439-467).                        *)
FlushedBeforePivot ==
    \A i \in DOMAIN crash_states :
        LET st == crash_states[i]
        IN  HasReorder(st) =>
              /\ st.pivot \in st.syscalls
              /\ \A c \in Call : \A sync \in Fsyncs(trace) :
                    (/\ SamePath(trace, sync, c)
                     /\ <<c, sync>> \in hbgraph
                     /\ <<sync, st.pivot>> \in hbgraph) => c \in st.syscalls

(* The states the static pruning leaves in the list.                       *)
Unpruned == {i \in DOMAIN crash_states : Pruning => ~ Prunable(trace, crash_states[i])}

(* Duplicate removal never removes a state twice (list.remove would raise) *)
(* and leaves exactly one state for each set of calls (lines 145-165).     *)
OneOfEach ==
    /\ \A k, l \in DOMAIN to_remove : to_remove[k] = to_remove[l] => k = l
    /\ phase = "explore" =>
         \A i \in Unpruned : Cardinality({j \in live : SameAs(i, j)}) = 1

(* A state that keeps a call keeps all that persists before it.            *)
Legal(st) == \A e \in pbgraph : e[2] \in st.syscalls => e[1] \in st.syscalls

(* Replaying an fsync changes no disk.  When no message is stamped before  *)
(* the call that caused it, the pruning leaves no legal disk image without *)
(* a state to test, but those whose last change is a write of raw data:    *)
(* these the code prunes on purpose, at whatever fsync they end (lines     *)
(* 127-165).                                                               *)
DiskImage(st) == st.syscalls \ Fsyncs(trace)

Forward == \A e \in trace.cross : e[1] < e[2]

NoImageLost ==
    (phase = "explore" /\ Forward) =>
        \A i \in DOMAIN crash_states :
            LET image == DiskImage(crash_states[i])
            IN  (/\ Legal(crash_states[i])
                 /\ image # {} => trace.kind[Max(image)] # "chunk") =>
                    \E j \in live : DiskImage(crash_states[j]) = image
=============================================================================
