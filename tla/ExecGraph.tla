------------------------------ MODULE ExecGraph ------------------------------
(***************************************************************************)
(* From the recorded calls of the servers to the execution graph that      *)
(* Causality starts from: the receives of one message merged, sends and    *)
(* receives matched (format_sendrecv), the edges between calls             *)
(* (dependencies), the communication calls taken out (reduction).          *)
(*                                                                         *)
(* The servers and their connections, one per pair and in order, are not   *)
(* code of ParaCrash; they make the traces.  A call is its position in     *)
(* the log, so the order of the numbers is the order of the time stamps.   *)
(* The client is one peer for every server, and is not traced.             *)
(***************************************************************************)
EXTENDS Integers, Sequences, FiniteSets, FiniteSetsExt, SequencesExt

CONSTANTS Services,   \* the traced servers
          Programs    \* what they do: records of headers (a message's header
                      \* is read by itself) and the steps of each server

Client == "client"

Peers == Services \union {Client}

Step == [do : {"op"}] \union [do : {"send", "recv"}, peer : Peers]

ASSUME ServicesAssumption == Client \notin Services
ASSUME ProgramsAssumption == Programs \subseteq [headers : BOOLEAN, steps : [Services -> Seq(Step)]]

VARIABLES
  program,     \* the program that runs
  pc,          \* the next step of each server
  log,         \* the calls, as strace stamps them
  connection,  \* what is on its way, for each pair of peers
  phase,       \* "running", "parsed", "linked", "reduced", "raised"
  syscalls,    \* service.syscalls: the calls kept
  correlated,  \* the pairs <<send, receive>> (correlated_call)
  edges        \* the edges of the execution graph

vars == <<program, pc, log, connection, phase, syscalls, correlated, edges>>
graphVars == <<phase, syscalls, correlated, edges>>

Init ==
  /\ program \in Programs
  /\ pc = [s \in Services |-> 1]
  /\ log = <<>>
  /\ connection = [p \in Peers \X Services |-> <<>>]
  /\ phase = "running"
  /\ syscalls = [s \in Services |-> {}]
  /\ correlated = {}
  /\ edges = {}

-----------------------------------------------------------------------------
(* The servers. *)

\* msg: the call that sent it, or the first that reads it; 0 for none.
Record(s, kind, peer, part, msg) ==
  /\ phase = "running"
  /\ log' = Append(log, [svc |-> s, kind |-> kind, peer |-> peer, part |-> part, msg |-> msg])
  /\ UNCHANGED <<program, graphVars>>

Does(s, kind) ==
  /\ pc[s] <= Len(program.steps[s]) /\ program.steps[s][pc[s]].do = kind
  /\ pc' = [pc EXCEPT ![s] = @ + 1]

Peer(s) == program.steps[s][pc[s]].peer

Op(s) == Does(s, "op") /\ Record(s, "op", s, "none", 0) /\ UNCHANGED connection

\* A message is read at once, or in a header and, maybe, a body.
Parts(msg) ==
  IF program.headers
  THEN {<<[part |-> "header", msg |-> msg]>>,
        <<[part |-> "header", msg |-> msg], [part |-> "body", msg |-> msg]>>}
  ELSE {<<[part |-> "whole", msg |-> msg]>>}

Send(s) ==
  /\ Does(s, "send")
  /\ Record(s, "send", Peer(s), "none", 0)
  /\ IF Peer(s) = Client THEN UNCHANGED connection
     ELSE \E parts \in Parts(Len(log) + 1) :
            connection' = [connection EXCEPT ![<<s, Peer(s)>>] = @ \o parts]

\* The client's messages come at any time.
Arrived(s, p) ==
  IF p = Client /\ connection[p, s] = <<>> THEN Parts(Len(log) + 1) ELSE {connection[p, s]}

Read(s, p, parts) ==
  /\ Record(s, "recv", p, Head(parts).part, Head(parts).msg)
  /\ connection' = [connection EXCEPT ![<<p, s>>] = Tail(parts)]

Receive(s) ==
  /\ Does(s, "recv")
  /\ \E parts \in Arrived(s, Peer(s)) :
       parts # <<>> /\ Head(parts).part # "body" /\ Read(s, Peer(s), parts)

\* The thread that read the header; others of the server may go on before.
ReceiveBody(s, p) ==
  /\ connection[p, s] # <<>> /\ Head(connection[p, s]).part = "body"
  /\ Read(s, p, connection[p, s])
  /\ UNCHANGED pc

-----------------------------------------------------------------------------
(* PFS.create_syscalls and format_sendrecv. *)

CallsOf(s) == {i \in DOMAIN log : log[i].svc = s}

\* Network calls before the first other call are dropped.
Trimmed(s) == {i \in CallsOf(s) : \E j \in 1..i : log[j].kind = "op"}

\* One receive of a service: a header waits for its body; what is not a
\* header goes into the first header that waits for this peer.
MergeReceive(acc, i) ==
  LET fromPeer == {h \in acc.waiting : log[h].peer = log[i].peer}
  IN  IF i \notin acc.kept \/ log[i].kind # "recv" THEN acc
      ELSE IF log[i].part = "header" THEN [acc EXCEPT !.waiting = @ \union {i}]
      ELSE IF fromPeer = {} THEN acc
      ELSE [kept |-> acc.kept \ {i}, waiting |-> acc.waiting \ {Min(fromPeer)}]

InOrder == [i \in DOMAIN log |-> i]

WithoutBodies(calls) ==
  FoldLeft(MergeReceive, [kept |-> calls, waiting |-> {}], InOrder).kept

Sends(kept, s, d) == {i \in kept[s] : log[i].kind = "send" /\ log[i].peer = d}
Receives(kept, d, s) == {i \in kept[d] : log[i].kind = "recv" /\ log[i].peer = s}

\* How many of the calls there are until this one.
Rank(calls, i) == Cardinality({k \in calls : k <= i})

\* First come, first served for each pair of servers.
MatchedPair(kept, s, d) ==
  {e \in Sends(kept, s, d) \X Receives(kept, d, s) :
     Rank(Sends(kept, s, d), e[1]) = Rank(Receives(kept, d, s), e[2])}

Matched(kept) == UNION {MatchedPair(kept, s, d) : s \in Services, d \in Services}

\* The log ends while no message is on its way.
CreateSyscalls ==
  /\ phase = "running"
  /\ \A p \in DOMAIN connection : connection[p] = <<>>
  /\ syscalls' = [s \in Services |-> WithoutBodies(Trimmed(s))]
  /\ correlated' = Matched(syscalls')
  /\ phase' = "parsed"
  /\ UNCHANGED <<program, pc, log, connection, edges>>

-----------------------------------------------------------------------------
(* ExecGraph. *)

Nodes == UNION {syscalls[s] : s \in Services}

\* zip(calls[:-1], calls[1:])
Chained(calls) ==
  {e \in calls \X calls : e[1] < e[2] /\ ~ \E k \in calls : e[1] < k /\ k < e[2]}

Chains == UNION {Chained(syscalls[s]) : s \in Services}

\* What was not matched is taken for communication with the client.
ClientCalls(kind) ==
  LET matched == {c[1] : c \in correlated} \union {c[2] : c \in correlated}
  IN  {i \in Nodes \ matched : log[i].kind = kind}

\* A receive from the client follows the last send of each other service,
\* unless an earlier receive of its service did.
ClientEdges ==
  LET sends == ClientCalls("send")
      recvs == ClientCalls("recv")
      IsLast(j, i) == j < i /\ ~ \E k \in sends : log[k].svc = log[j].svc /\ j < k /\ k < i
      Follows(j, i) ==
        /\ log[j].svc # log[i].svc /\ IsLast(j, i)
        /\ ~ \E k \in recvs : k < i /\ log[k].svc = log[i].svc /\ IsLast(j, k)
  IN  {e \in sends \X recvs : Follows(e[1], e[2])}

Dependencies ==
  /\ phase = "parsed"
  /\ edges' = Chains \union correlated \union ClientEdges
  /\ phase' = "linked"
  /\ UNCHANGED <<program, pc, log, connection, syscalls, correlated>>

\* The node goes, and no edge takes its place.
RemoveNode(E, node) == {e \in E : node \notin {e[1], e[2]}}

Preds(E, node) == {e[1] : e \in {d \in E : d[2] = node}}
Succs(E, node) == {e[2] : e \in {d \in E : d[1] = node}}

NicelyRemoveNode(E, node) ==
  {e \in E : node \notin {e[1], e[2]}} \union (Preds(E, node) \X Succs(E, node))

Through(R, node) == R \union (Preds(R, node) \X Succs(R, node))

\* The pairs of calls joined by a path.
Reachability(E) == FoldLeft(Through, E, InOrder)

\* networkx: an edge stays when no other path joins its ends.
TransitiveReduction(E) ==
  LET reach == Reachability(E)
  IN  {e \in E : \A d \in E : d[1] = e[1] => <<d[2], e[2]>> \notin reach}

IntraEdges(E) == {e \in E : log[e[1]].svc = log[e[2]].svc}

RemoveReceive(E, i) == IF log[i].kind = "recv" THEN NicelyRemoveNode(E, i) ELSE E
RemoveSend(E, i) == IF log[i].kind = "send" THEN NicelyRemoveNode(E, i) ELSE E

Reduction ==
  /\ phase = "linked"
  /\ LET G == FoldLeft(RemoveSend, FoldLeft(RemoveReceive, edges, InOrder), InOrder)
     IN  IF \E e \in Reachability(G) : e[1] = e[2]
         THEN phase' = "raised" /\ UNCHANGED edges
         ELSE phase' = "reduced" /\ edges' = TransitiveReduction(G) \union IntraEdges(G)
  /\ UNCHANGED <<program, pc, log, connection, syscalls, correlated>>

Stopped == phase \in {"reduced", "raised"} /\ UNCHANGED vars

Next ==
  \/ \E s \in Services : Op(s) \/ Send(s) \/ Receive(s) \/ \E p \in Peers : ReceiveBody(s, p)
  \/ CreateSyscalls \/ Dependencies \/ Reduction \/ Stopped

Spec == Init /\ [][Next]_vars

-----------------------------------------------------------------------------
(* Properties. *)

\* What caused what: calls of one server in order, a message its receive,
\* and a message to the client the messages of the client that arrive later.
Causes ==
  LET Causing(a, b) ==
        /\ a < b
        /\ \/ log[a].svc = log[b].svc
           \/ log[b].msg = a
           \/ /\ log[a].kind = "send" /\ log[b].kind = "recv" /\ log[b].part # "body"
              /\ log[a].peer = Client /\ log[b].peer = Client
  IN  {e \in (DOMAIN log) \X (DOMAIN log) : Causing(e[1], e[2])}

\* No message is cut by the first file system call.
StartsQuiet ==
  LET Dropped(i) == \A k \in 1..i : log[k].kind # "op"
  IN  \A j \in DOMAIN log : log[j].msg # 0 => Dropped(j) = Dropped(log[j].msg)

\* In the reduced graph a file system call reaches another exactly when it
\* happened before it: merging, matching, removing the communication calls
\* and reducing lose and invent no order (format_sendrecv, ExecGraph).
HappensBeforeKept ==
  phase \in {"reduced", "raised"} /\ StartsQuiet =>
    /\ phase = "reduced"
    /\ Reachability(edges) =
         {e \in Reachability(Causes) : log[e[1]].kind = "op" /\ log[e[2]].kind = "op"}
=============================================================================
