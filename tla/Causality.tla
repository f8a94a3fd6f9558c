------------------------------ MODULE Causality ------------------------------
(***************************************************************************)
(* A recorded trace and the two orders ParaCrash derives from it:          *)
(* happens-before (hbgraph) and persists-before (pbgraph), with            *)
(* persists_before_all, which says what must be lost together with a call. *)
(*                                                                         *)
(* A call is the number PFS.create_syscalls gives it, so the order of      *)
(* numbers is the order of timestamps.  A trace is a record                *)
(*   svc    the service (storage or metadata server) of each call,         *)
(*   kind   "op", "fsync" or "chunk" (a Pwrite of HDF5 raw data only),     *)
(*   paths  the file names of each call (get_paths), relative to the       *)
(*          directory of its service,                                      *)
(*   cross  the edges of the reduced execution graph between calls of      *)
(*          different services.                                            *)
(***************************************************************************)
EXTENDS Integers, FiniteSets

CONSTANTS
    NumCalls,   \* calls left in the reduced execution graph
    Service,    \* 1..n, in the order the configuration lists the services
    Path        \* file names

ASSUME NumCallsAssumption == NumCalls \in Nat
ASSUME ServiceAssumption == Service \subseteq Nat

Call == 1 .. NumCalls

Kind == {"op", "fsync", "chunk"}

Traces == [svc : [Call -> Service], kind : [Call -> Kind],
           paths : [Call -> SUBSET Path], cross : SUBSET (Call \X Call)]

Fsyncs(t) == {c \in Call : t.kind[c] = "fsync"}

SameService(t, a, b) == t.svc[a] = t.svc[b]

(* A service's calls form a chain in the execution graph; the edges here   *)
(* are that chain's closure, which leaves the reachability unchanged.      *)
Edges(t) == {e \in Call \X Call : SameService(t, e[1], e[2]) /\ e[1] < e[2]} \cup t.cross

DownSets(t) == {S \in SUBSET Call : \A e \in Edges(t) : e[2] \in S => e[1] \in S}

(* nx.transitive_closure of an acyclic graph: a reaches b when every set   *)
(* that is closed under predecessors and holds b also holds a.             *)
HappensBefore(t) ==
    {e \in Call \X Call :
        /\ e[1] # e[2]
        /\ \A S \in DownSets(t) : e[2] \in S => e[1] \in S}

(* nx.transitive_reduction refuses a graph with a cycle.                   *)
Acyclic(t) == \A a, b \in Call :
    <<a, b>> \in HappensBefore(t) => <<b, a>> \notin HappensBefore(t)

(* Recorded names are absolute, so calls of two services share none.       *)
SamePath(t, a, b) == SameService(t, a, b) /\ t.paths[a] \cap t.paths[b] # {}

(* Within a service the journal keeps the order of the calls; across       *)
(* services only an fsync of the first call's file, between them, does.    *)
PersistsBefore(t, hb) ==
    {e \in Call \X Call :
        IF SameService(t, e[1], e[2])
        THEN e \in hb
        ELSE \E sync \in Fsyncs(t) :
                /\ SamePath(t, sync, e[1])
                /\ <<e[1], sync>> \in hb
                /\ <<sync, e[2]>> \in hb}

-----------------------------------------------------------------------------
(* persists_before_all(victim, calls): calls are those of `all` after the  *)
(* victim, the last of them is the pivot.                                  *)

Dependents(pb, all, pivot, victim) ==
    {c \in all : victim < c /\ c < pivot /\ <<victim, c>> \in pb}

(* Mutant: only the victim is lost.                                        *)
VictimOnly(pb, all, pivot, victim) == {victim}

DependentCalls(pb, all, pivot, victim) == {victim} \cup Dependents(pb, all, pivot, victim)

(* Mutant: a dependent that must persist before the pivot does not matter. *)
VictimCanBeLost(pb, all, pivot, victim) == <<victim, pivot>> \notin pb

(* It returns None exactly when one of these must persist before the pivot.*)
CanBeLost(pb, all, pivot, victim) ==
    \A c \in DependentCalls(pb, all, pivot, victim) : <<c, pivot>> \notin pb
=============================================================================
