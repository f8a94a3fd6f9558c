------------------------------ MODULE MCExplore ------------------------------
(***************************************************************************)
(* Explore on up to five calls of two or three servers, at most one fsync  *)
(* or data chunk, one message between servers, and one program bug, a call *)
(* that another needs or two calls that must be atomic, or two bugs whose  *)
(* causes come before their effects: the one found may hide the other.     *)
(***************************************************************************)
EXTENDS Explore

MCService == {1, 2, 3}
MCPath == {"p"}

Placements == {SubSeq(s, 1, NumCalls) : s \in {<<1, 2, 1, 2, 3>>, <<1, 2, 2, 1, 1>>}}

Kinds == {k \in [Call -> Kind] : Cardinality({c \in Call : k[c] # "op"}) <= 1}

CrossEdges(s) ==
    {{e} : e \in {d \in Call \X Call : d[1] < d[2] /\ s[d[1]] # s[d[2]]}}

MCTrace ==
    UNION {[svc : {s}, kind : Kinds, paths : {[c \in Call |-> {"p"}]}, cross : CrossEdges(s)]
             : s \in Placements}

MCVulnerability ==
    LET pairs == {v \in Call \X Call : v[1] # v[2]}
        forward == {v \in pairs : v[1] < v[2]}
    IN  {{v} : v \in pairs} \cup {{v, <<v[2], v[1]>>} : v \in pairs}
            \cup {{v, w} : v, w \in forward}
=============================================================================
