------------------------------ MODULE MCEmulate ------------------------------
(***************************************************************************)
(* Five calls of three servers, tested in any sequence: every state that    *)
(* keeps a prefix of each server (what CrashStates generates) and every    *)
(* such state without one call (the auxiliary states of Explore).  The     *)
(* metadata server makes a directory, removes it and makes it again with   *)
(* one below; call 4 truncates a file that is not there and failed when it *)
(* was recorded.                                                           *)
(***************************************************************************)
EXTENDS Emulate

MCCall == 1 .. 5
MCService == {"meta", "storage1", "storage2"}
MCSvc == <<"meta", "storage1", "meta", "storage2", "meta">>
MCName == {"dentries", "d", "e", "chunks", "f"}

Does(do, path) == [do |-> do, path |-> path, to |-> << >>, failed |-> FALSE]

MCOp == <<Does("mkdir", <<"dentries", "d">>),
          Does("touch", <<"chunks", "f">>),
          Does("unlink", <<"dentries", "d">>),
          [Does("truncate", <<"chunks", "f">>) EXCEPT !.failed = TRUE],
          Does("mkdir", <<"dentries", "d", "e">>)>>

MCSnapshot == [s \in MCService |->
                  [dirs |-> {<< >>, IF s = "meta" THEN <<"dentries">> ELSE <<"chunks">>},
                   files |-> {}]]

(* The recorded run, call after call.                                      *)
MCRecorded ==
    LET after[c \in MCCall] ==
            LET earlier == {d \in MCCall : d < c /\ MCSvc[d] = MCSvc[c]}
            IN  Result(IF earlier = {} THEN MCSnapshot[MCSvc[c]] ELSE after[Max(earlier)],
                       MCOp[c])
    IN  after

ServerPrefixes == {S \in SUBSET MCCall : \A a, b \in MCCall :
                (MCSvc[a] = MCSvc[b] /\ a < b /\ b \in S) => a \in S}
MCTested == ServerPrefixes \cup {S \ {c} : S \in ServerPrefixes, c \in MCCall}

(* The snapshot, or what the recorded workload left.                       *)
Held(calls, tree) == [calls |-> calls, kept |-> {}, tree |-> tree]
MCInitialDisks ==
    {[s \in MCService |-> Held(<< >>, MCSnapshot[s])],
     [s \in MCService |-> CASE s = "meta" -> Held(<<1, 3, 5>>, MCRecorded[5])
                            [] s = "storage1" -> Held(<<2>>, MCRecorded[2])
                            [] s = "storage2" -> Held(<<4>>, MCRecorded[4])]}
=============================================================================
