---------------------------- MODULE MCCrashStates ----------------------------
(***************************************************************************)
(* CrashStates on five calls.                                              *)
(*   TwoServers    one fsync or data chunk at most, and one message, which *)
(*                 may be stamped before the call that caused it;          *)
(*   ThreeServers  up to two fsyncs, or an fsync and a data chunk, on two  *)
(*                 file names, and one message: an fsync seen by one       *)
(*                 server and not by the other.                            *)
(***************************************************************************)
EXTENDS CrashStates

MCService == {1, 2, 3}
MCPath == {"p", "q"}

OneSpecial == {k \in [Call -> Kind] : Cardinality({c \in Call : k[c] # "op"}) <= 1}

TwoSpecials ==
    {k \in [Call -> Kind] : /\ Cardinality({c \in Call : k[c] # "op"}) <= 2
                           /\ Cardinality({c \in Call : k[c] = "chunk"}) <= 1}

Between(s) == {e \in Call \X Call : s[e[1]] # s[e[2]]}

Names == {[c \in Call |-> IF c \in S THEN {"p"} ELSE {"q"}] : S \in {{1}, Call}}

TwoServers ==
    UNION {[svc : {s}, kind : OneSpecial, paths : {[c \in Call |-> {"p"}]},
            cross : {{e} : e \in Between(s)}]
             : s \in {<<1, 2, 1, 2, 2>>, <<2, 1, 1, 2, 1>>}}

ThreeServers ==
    UNION {[svc : {s}, kind : TwoSpecials, paths : Names,
            cross : {{e} : e \in {d \in Between(s) : d[1] < d[2]}}]
             : s \in {<<1, 1, 1, 2, 3>>, <<3, 1, 2, 1, 2>>}}

MCTrace == {t \in TwoServers \cup ThreeServers : Acyclic(t)}
=============================================================================
