------------------------------- MODULE Explore -------------------------------
(***************************************************************************)
(* The rest of CrashStateGenerator.crash: the states are given one by one  *)
(* to crash_func, failures are grouped into reorder bugs and atomicity     *)
(* bugs with the help of auxiliary states, and the report is filtered.     *)
(*                                                                         *)
(* crash_func is __perform_crash: its verdict depends only on the calls of *)
(* the state (module Emulate shows that each check sees exactly them).     *)
(* Here a verdict comes from the vulnerabilities of the tested program:    *)
(* the pair <<a, b>> says that a must be on disk whenever b is; the two    *)
(* pairs <<a, b>> and <<b, a>> say that a and b must be atomic.            *)
(***************************************************************************)
EXTENDS CrashStates, TLC

CONSTANTS
    Vulnerability,  \* the sets of vulnerabilities considered
    OptExplore      \* config.opt_explore

ASSUME VulnerabilityAssumption == Vulnerability \subseteq SUBSET (Call \X Call)
ASSUME OptExploreAssumption == OptExplore \in BOOLEAN

VARIABLES
    vulnerabilities,    \* those of the tested program, fixed
    order,              \* the crash states in the order of the loop
    rest,               \* the ranks in that order not visited yet
    explored,           \* positions given to crash_func
    current,            \* the position being explored further
    aux_calls,          \* the calls whose auxiliary state is still to be tested
    real_reorder,       \* calls found by auxiliary_explore_reorder, in order
    current_atomic,     \* last calls of the failing cuts in a row
    reorder_bugs,       \* pairs <<call, pivot>>
    atomic_bugs,        \* the groups found
    step                \* the loop that runs

results == <<reorder_bugs, atomic_bugs>>
explorevars == <<vulnerabilities, order, rest, explored, current, aux_calls, real_reorder,
                 current_atomic, results, step>>

Fails(calls) == \E v \in vulnerabilities : v[2] \in calls /\ v[1] \notin calls

Chunks == {c \in Call : trace.kind[c] = "chunk"}

-----------------------------------------------------------------------------
(* The order of the loop over crash_states: that of the list, or the one   *)
(* solve_tsp returns.  The solver is a library's and greedy: it keeps the  *)
(* first and the last state in place, and the path it finds need not be    *)
(* the best one, so any path with these ends is allowed.                   *)

(* A path visits each position once; the set it is taken from is small.    *)
Paths(L) ==
    LET inner == L \ {Min(L), Max(L)}
        Through(p) == [r \in L |-> IF r \in inner THEN p[r] ELSE r]
    IN  {path \in {Through(p) : p \in Permutations(inner)} : path \in Bijection(L, L)}

Orders(states, L) == IF OptExplore THEN Paths(L) ELSE {[r \in L |-> r]}

(* The position of the state the loop is at.                               *)
NextState == order[Min(rest)]

(* The first components of reorder_bugs.                                   *)
Reordered == {reorder_bugs[k][1] : k \in DOMAIN reorder_bugs}

(* Mutant: clause c) looks at all calls of the cut, not at the lost ones.  *)
CutPruned(st) ==
    \/ st.pivot \in Chunks
    \/ Dropped(st) \cap Chunks # {}
    \/ st.base \cap Reordered # {}

(* Mutant: no clause c).                                                   *)
ChunkPruned(st) == st.pivot \in Chunks \/ Dropped(st) \cap Chunks # {}

(* state_pruned, except for its clause a) (base_state in atomic_bugs),     *)
(* which compares a CrashState with lists of calls and never holds.        *)
StatePruned(st) ==
    \/ st.pivot \in Chunks
    \/ Dropped(st) \cap Chunks # {}
    \/ Dropped(st) \cap Reordered # {}

ExploreInit ==
    /\ Init
    /\ vulnerabilities \in Vulnerability
    /\ \A v \in vulnerabilities : {v[1], v[2]} \cap Fsyncs(trace) = {}
    /\ order = << >>
    /\ rest = {}
    /\ explored = {}
    /\ current = None
    /\ aux_calls = << >>
    /\ real_reorder = << >>
    /\ current_atomic = << >>
    /\ reorder_bugs = << >>
    /\ atomic_bugs = << >>
    /\ step = "generate"

(* crash() up to the exploration.                                          *)
Generate ==
    /\ step = "generate"
    /\ Next
    /\ IF phase' = "explore"
       THEN /\ order' \in Orders(crash_states, live')
            /\ rest' = live'
            /\ step' = "next"
       ELSE UNCHANGED <<order, rest, step>>
    /\ UNCHANGED <<vulnerabilities, explored, current, aux_calls, real_reorder,
                   current_atomic, results>>

(* Mutant: the cut that passes adds no call to the group.                  *)
ExploreCutOpen ==
    /\ step = "next"
    /\ rest # {}
    /\ ~ HasReorder(crash_states[NextState])
    /\ rest' = rest \ {Min(rest)}
    /\ explored' = explored \cup {NextState}
    /\ LET calls == crash_states[NextState].syscalls
       IN  IF Fails(calls)
           THEN /\ current_atomic' = Append(current_atomic, Max(calls))
                /\ UNCHANGED <<current, aux_calls, step>>
           ELSE IF current_atomic = << >>
           THEN UNCHANGED <<current, aux_calls, current_atomic, step>>
           ELSE /\ aux_calls' = SubSeq(current_atomic, 2, Len(current_atomic))
                /\ current' = NextState
                /\ step' = "aux_atomic"
                /\ UNCHANGED current_atomic
    /\ UNCHANGED <<genvars, vulnerabilities, order, real_reorder, results>>

(* A cut.  A failure extends the run of failing cuts; a pass ends it, and  *)
(* each inner call of the run is then left out in turn.                    *)
ExploreCut ==
    /\ step = "next"
    /\ rest # {}
    /\ ~ HasReorder(crash_states[NextState])
    /\ rest' = rest \ {Min(rest)}
    /\ explored' = explored \cup {NextState}
    /\ LET calls == crash_states[NextState].syscalls
           group == Append(current_atomic, Max(calls))
       IN  IF Fails(calls)
           THEN /\ current_atomic' = group
                /\ UNCHANGED <<current, aux_calls, step>>
           ELSE IF current_atomic = << >>
           THEN UNCHANGED <<current, aux_calls, current_atomic, step>>
           ELSE /\ current_atomic' = group
                /\ aux_calls' = SubSeq(group, 2, Len(group) - 1)
                /\ current' = NextState
                /\ step' = "aux_atomic"
    /\ UNCHANGED <<genvars, vulnerabilities, order, real_reorder, results>>

(* Mutants: the call stays; None takes its place.                          *)
KeepAll(s, c) == s
Blank(s, c) == [k \in DOMAIN s |-> IF s[k] = c THEN None ELSE s[k]]

(* real_atomic.remove(call): the first occurrence goes.                    *)
RemoveFirst(s, c) ==
    LET k == Min({l \in DOMAIN s : s[l] = c})
    IN  SubSeq(s, 1, k - 1) \o SubSeq(s, k + 1, Len(s))

AuxAtomic ==
    /\ step = "aux_atomic"
    /\ aux_calls # << >>
    /\ aux_calls' = Tail(aux_calls)
    /\ current_atomic' =
         IF Fails(crash_states[current].syscalls \ {Head(aux_calls)})
         THEN current_atomic
         ELSE RemoveFirst(current_atomic, Head(aux_calls))
    /\ UNCHANGED <<genvars, vulnerabilities, order, rest, explored, current, real_reorder,
                   results, step>>

ReportAtomic ==
    /\ step = "aux_atomic"
    /\ aux_calls = << >>
    /\ atomic_bugs' = Append(atomic_bugs, current_atomic)
    /\ current_atomic' = << >>
    /\ step' = "next"
    /\ UNCHANGED <<genvars, vulnerabilities, order, rest, explored, current, aux_calls,
                   real_reorder, reorder_bugs>>

(* A reordered state that one of its lost calls already explains.          *)
SkipPruned ==
    /\ step = "next"
    /\ rest # {}
    /\ HasReorder(crash_states[NextState])
    /\ Pruning /\ StatePruned(crash_states[NextState])
    /\ rest' = rest \ {Min(rest)}
    /\ UNCHANGED <<genvars, vulnerabilities, order, explored, current, aux_calls, real_reorder,
                   current_atomic, results, step>>

(* Another one: when it fails, each lost call alone is left out of the cut.*)
ExploreReorder ==
    /\ step = "next"
    /\ rest # {}
    /\ HasReorder(crash_states[NextState])
    /\ ~ (Pruning /\ StatePruned(crash_states[NextState]))
    /\ rest' = rest \ {Min(rest)}
    /\ explored' = explored \cup {NextState}
    /\ IF Fails(crash_states[NextState].syscalls)
       THEN /\ aux_calls' = crash_states[NextState].reorder
            /\ current' = NextState
            /\ step' = "aux_reorder"
       ELSE UNCHANGED <<aux_calls, current, step>>
    /\ UNCHANGED <<genvars, vulnerabilities, order, real_reorder, current_atomic, results>>

(* aux_calls holds one set per victim here, each tried in timestamp order. *)
AuxReorder ==
    /\ step = "aux_reorder"
    /\ aux_calls # << >>
    /\ LET call == Min(Head(aux_calls))
           left == Head(aux_calls) \ {call}
       IN  /\ aux_calls' = IF left = {} THEN Tail(aux_calls)
                           ELSE <<left>> \o Tail(aux_calls)
           /\ real_reorder' = IF Fails(crash_states[current].base \ {call})
                              THEN Append(real_reorder, call)
                              ELSE real_reorder
    /\ UNCHANGED <<genvars, vulnerabilities, order, rest, explored, current, current_atomic,
                   results, step>>

ReportReorder ==
    /\ step = "aux_reorder"
    /\ aux_calls = << >>
    /\ reorder_bugs' = reorder_bugs \o
         [k \in DOMAIN real_reorder |-> <<real_reorder[k], crash_states[current].pivot>>]
    /\ real_reorder' = << >>
    /\ step' = "next"
    /\ UNCHANGED <<genvars, vulnerabilities, order, rest, explored, current, aux_calls,
                   current_atomic, atomic_bugs>>

(* The bug report drops the reorder bugs whose call is in an atomic group; *)
(* what is left of the list keeps its positions.                           *)
AtomicCalls == UNION {{g[k] : k \in DOMAIN g} : g \in {atomic_bugs[n] : n \in DOMAIN atomic_bugs}}

Report ==
    /\ step = "next"
    /\ rest = {}
    /\ LET kept == {k \in DOMAIN reorder_bugs : reorder_bugs[k][1] \notin AtomicCalls}
       IN  reorder_bugs' = [k \in kept |-> reorder_bugs[k]]
    /\ step' = "reported"
    /\ UNCHANGED <<genvars, vulnerabilities, order, rest, explored, current, aux_calls,
                   real_reorder, current_atomic, atomic_bugs>>

ExploreNext ==
    \/ Generate
    \/ ExploreCut \/ SkipPruned \/ ExploreReorder
    \/ AuxAtomic \/ ReportAtomic
    \/ AuxReorder \/ ReportReorder
    \/ Report

ExploreSpec == ExploreInit /\ [][ExploreNext]_<<genvars, explorevars>>

-----------------------------------------------------------------------------
(* The variables of the exploration keep their types.                      *)
ExploreTypeOK ==
    /\ TypeOK
    /\ vulnerabilities \in SUBSET (Call \X Call)
    /\ order \in [DOMAIN order -> DOMAIN crash_states]
    /\ rest \in SUBSET (DOMAIN order)
    /\ explored \in SUBSET (DOMAIN crash_states)
    /\ current \in DOMAIN crash_states \cup {None}
    /\ aux_calls \in IF step = "aux_atomic" THEN Seq(Call) ELSE Seq(SUBSET Call)
    /\ real_reorder \in Seq(Call)
    /\ current_atomic \in Seq(Call)
    /\ IF step = "reported" THEN reorder_bugs \in [DOMAIN reorder_bugs -> Call \X Call]
       ELSE reorder_bugs \in Seq(Call \X Call)
    /\ atomic_bugs \in Seq(Seq(Call))
    /\ step \in {"generate", "next", "aux_atomic", "aux_reorder", "reported"}

Needed(b) == {b} \cup {c \in Call : <<c, b>> \in hbgraph}

(* Dynamic pruning skips states that may be the only ones to show another  *)
(* bug.  A bug with its cause before its effect, that losing the cause and *)
(* what goes with it would show, is still told: the report names its cause *)
(* or a call lost together with the cause, never only calls that have      *)
(* nothing to do with it.  It takes a state that lost just these calls,    *)
(* which the removal of duplicates must have left, and the pruning must    *)
(* have skipped it for one of them (lines 145-165, 252-273, 298-303).      *)
CausesTold ==
    (step = "reported" /\ Forward /\ Chunks = {}) =>
        \A v \in vulnerabilities :
            LET all == Needed(v[2])
                lost == DependentCalls(pbgraph, all, v[2], v[1])
            IN  (v[1] \in all \ {v[2]} /\ CanBeLost(pbgraph, all, v[2], v[1])) =>
                    lost \cap (Reordered \cup AtomicCalls) # {}

(* A failed check is never silent: if some explored state failed, the      *)
(* report names a call that really has to be persisted first (lines        *)
(* 218-233, 321-349).  Raw data chunks are excluded: the passing cut that  *)
(* would close the group with the missing call can be dropped as the       *)
(* duplicate of a later state that only loses a chunk (lines 145-165).     *)
FailureReported ==
    (/\ step = "reported"
     /\ Chunks = {} /\ Forward
     /\ \E i \in explored : Fails(crash_states[i].syscalls)) =>
        \E v \in vulnerabilities : v[1] \in Reordered \cup AtomicCalls

(* A group ends with the last call of a passing cut that ended a run, and  *)
(* at most one of the calls before it could be left out of that cut: each  *)
(* inner call is tried, the first one is not.  Which of them stays is open *)
(* when a call occurs twice: remove() takes its first occurrence from the  *)
(* list that is being tried (lines 228-233, 337-349).                      *)
GroupsExplained ==
    \A n \in DOMAIN atomic_bugs : \E i \in explored :
        LET group == atomic_bugs[n]
            calls == crash_states[i].syscalls
            Unneeded(k) == ~ Fails(calls \ {group[k]})
        IN  /\ ~ HasReorder(crash_states[i])
            /\ ~ Fails(calls)
            /\ calls # {} /\ group[Len(group)] = Max(calls)
            /\ \A k, l \in 1 .. Len(group) - 1 : Unneeded(k) /\ Unneeded(l) => k = l

(* With pruning on, no call is reported as reordered twice, although a     *)
(* state lists a call once per victim that drags it along: the duplicate   *)
(* removal must have kept a state that lists it once (lines 145-165, 252). *)
EachCallReportedOnce ==
    Pruning => \A k, l \in DOMAIN reorder_bugs :
        reorder_bugs[k][1] = reorder_bugs[l][1] => k = l

(* Clause a) of the dynamic pruning, "no bugs in base state": a reported   *)
(* call is the cause of a failure, its cut being sound (lines 237-239).    *)
NoBugsInBaseState ==
    \A k \in DOMAIN reorder_bugs :
        \E i \in explored :
            LET st == crash_states[i]
            IN  /\ st.pivot = reorder_bugs[k][2]
                /\ reorder_bugs[k][1] \in Dropped(st)
                /\ ~ Fails(st.base)

(* The path of least cost: the servers that differ from state to state.    *)
DiffServers(S, T) == {trace.svc[c] : c \in SymDiff(S, T)}

PathCost(states, path) ==
    LET ranks == DOMAIN path
        Transition(r) == LET q == Min({x \in ranks : x > r})
                         IN  Cardinality(DiffServers(states[path[r]].syscalls,
                                                     states[path[q]].syscalls))
    IN  MapThenSumSet(Transition, ranks \ {Max(ranks)})

(* "compute optimal exploration path": the order of exploration, even the  *)
(* best one, does not change whether a failure is told (lines 172-192,     *)
(* 218-233).                                                               *)
OptimalPathReports ==
    (step = "reported" /\ ~ FailureReported) =>
        \E path \in Paths(live) : PathCost(crash_states, path) < PathCost(crash_states, order)
=============================================================================
