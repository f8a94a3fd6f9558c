--------------------------- MODULE ExecGraph_proof ---------------------------
(***************************************************************************)
(* The execution graph orders two file system calls exactly when one       *)
(* happened before the other.  A path is stated through the transitive     *)
(* relations that hold the edges; the folds of the model are unfolded call *)
(* by call (Folding).  On the way: taking a call out keeps the paths       *)
(* between the others, transitive reduction keeps all paths, merging keeps *)
(* one receive per message, and ranks match each send with its receive.    *)
(***************************************************************************)
EXTENDS ExecGraph, FiniteSetTheorems, TLAPS

Transitive(R) == \A a, b, c : <<a, b>> \in R /\ <<b, c>> \in R => <<a, c>> \in R

(* The pairs of N joined by a path of E: those in each transitive relation *)
(* on N that holds E.                                                      *)
Paths(N, E) ==
  {p \in N \X N : \A R \in SUBSET (N \X N) : E \subseteq R /\ Transitive(R) => p \in R}

(* The pairs that do not touch a node.                                     *)
Apart(R, node) == {p \in R : node \notin {p[1], p[2]}}

LEMMA ApartTransitive ==
  ASSUME NEW R, NEW node, Transitive(R) PROVE Transitive(Apart(R, node))
<1>. SUFFICES ASSUME NEW a, NEW b, NEW c, <<a, b>> \in Apart(R, node), <<b, c>> \in Apart(R, node)
              PROVE  <<a, c>> \in Apart(R, node)
  BY DEF Transitive
<1>1. <<a, b>> \in R /\ <<b, c>> \in R /\ a # node /\ c # node
  BY DEF Apart
<1>2. <<a, c>> \in R
  BY <1>1 DEF Transitive
<1>. QED BY <1>1, <1>2 DEF Apart

LEMMA PredsSuccs ==
  ASSUME NEW N, NEW E \in SUBSET (N \X N), NEW node
  PROVE  /\ \A a : a \in Preds(E, node) <=> <<a, node>> \in E
         /\ \A b : b \in Succs(E, node) <=> <<node, b>> \in E
<1>1. ASSUME NEW a, <<a, node>> \in E PROVE a \in Preds(E, node)
  <2>1. <<a, node>>[1] = a /\ <<a, node>>[2] = node
    OBVIOUS
  <2>. QED BY <1>1, <2>1 DEF Preds
<1>2. ASSUME NEW b, <<node, b>> \in E PROVE b \in Succs(E, node)
  <2>1. <<node, b>>[1] = node /\ <<node, b>>[2] = b
    OBVIOUS
  <2>. QED BY <1>2, <2>1 DEF Succs
<1>3. ASSUME NEW a \in Preds(E, node) PROVE <<a, node>> \in E
  <2>1. PICK e \in E : e[2] = node /\ e[1] = a
    BY DEF Preds
  <2>. QED BY <2>1
<1>4. ASSUME NEW b \in Succs(E, node) PROVE <<node, b>> \in E
  <2>1. PICK e \in E : e[1] = node /\ e[2] = b
    BY DEF Succs
  <2>. QED BY <2>1
<1>. QED BY <1>1, <1>2, <1>3, <1>4

(* What a path of the new graph joins, a path of the old one joined, and   *)
(* the node is on none.                                                    *)
LEMMA NoNewPath ==
  ASSUME NEW N, NEW E \in SUBSET (N \X N), NEW node \in N, <<node, node>> \notin E
  PROVE  Paths(N, NicelyRemoveNode(E, node)) \subseteq Apart(Paths(N, E), node)
<1>. DEFINE F == NicelyRemoveNode(E, node)
<1>1. F \subseteq Apart(N \X N, node)
  <2>. SUFFICES ASSUME NEW e \in F PROVE e \in Apart(N \X N, node)
    OBVIOUS
  <2>1. CASE e \in E /\ node \notin {e[1], e[2]}
    BY <2>1 DEF Apart
  <2>2. CASE e \in Preds(E, node) \X Succs(E, node)
    <3>1. <<e[1], node>> \in E /\ <<node, e[2]>> \in E /\ e = <<e[1], e[2]>>
      BY <2>2, PredsSuccs
    <3>. QED BY <3>1 DEF Apart
  <2>. QED BY <2>1, <2>2 DEF NicelyRemoveNode
<1>. SUFFICES ASSUME NEW p \in Paths(N, F) PROVE p \in Apart(Paths(N, E), node)
  OBVIOUS
<1>2. node \notin {p[1], p[2]}
  <2>1. Transitive(N \X N)
    BY DEF Transitive
  <2>2. Transitive(Apart(N \X N, node)) /\ Apart(N \X N, node) \in SUBSET (N \X N)
    BY <2>1, ApartTransitive DEF Apart
  <2>3. p \in Apart(N \X N, node)
    BY <1>1, <2>2 DEF Paths
  <2>. QED BY <2>3 DEF Apart
<1>3. ASSUME NEW R \in SUBSET (N \X N), E \subseteq R, Transitive(R) PROVE p \in R
  <2>1. F \subseteq R
    <3>. SUFFICES ASSUME NEW e \in F PROVE e \in R
      OBVIOUS
    <3>1. CASE e \in E
      BY <3>1, <1>3
    <3>2. CASE e \in Preds(E, node) \X Succs(E, node)
      <4>1. <<e[1], node>> \in E /\ <<node, e[2]>> \in E /\ e = <<e[1], e[2]>>
        BY <3>2, PredsSuccs
      <4>2. <<e[1], node>> \in R /\ <<node, e[2]>> \in R
        BY <4>1, <1>3
      <4>. QED BY <4>1, <4>2, <1>3 DEF Transitive
    <3>. QED BY <3>1, <3>2 DEF NicelyRemoveNode
  <2>. QED BY <2>1, <1>3 DEF Paths
<1>. QED BY <1>2, <1>3 DEF Paths, Apart

(* Every path between two other calls is still there: a transitive         *)
(* relation that holds the new edges grows by the node to one that holds   *)
(* the old edges, and gains no pair of other calls.                        *)
LEMMA NoPathLost ==
  ASSUME NEW N, NEW E \in SUBSET (N \X N), NEW node \in N, <<node, node>> \notin E
  PROVE  Apart(Paths(N, E), node) \subseteq Paths(N, NicelyRemoveNode(E, node))
<1>. DEFINE F == NicelyRemoveNode(E, node)
<1>. SUFFICES ASSUME NEW p \in Apart(Paths(N, E), node),
                     NEW R \in SUBSET (N \X N), F \subseteq R, Transitive(R)
              PROVE  p \in R
  BY DEF Paths, Apart
<1>. DEFINE R0 == Apart(R, node)
            Into == {a \in N : a # node /\ \E x \in Preds(E, node) : x = a \/ <<a, x>> \in R0}
            From == {b \in N : b # node /\ \E y \in Succs(E, node) : y = b \/ <<y, b>> \in R0}
            Grown == R0 \cup (Into \X {node}) \cup ({node} \X From) \cup {<<node, node>>}
<1>1. /\ R0 \in SUBSET (N \X N)
      /\ Transitive(R0)
      /\ \A a, b : <<a, b>> \in R0 => a # node /\ b # node
  BY ApartTransitive DEF Apart
<1>2. \A x \in Preds(E, node), y \in Succs(E, node) : <<x, y>> \in R0
  <2>. SUFFICES ASSUME NEW x \in Preds(E, node), NEW y \in Succs(E, node) PROVE <<x, y>> \in R0
    OBVIOUS
  <2>1. <<x, y>> \in R
    BY DEF NicelyRemoveNode
  <2>2. x # node /\ y # node
    BY PredsSuccs
  <2>. QED BY <2>1, <2>2 DEF Apart
<1>3. \A a \in Into, b \in From : <<a, b>> \in R0
  BY <1>1, <1>2 DEF Transitive
<1>4. \A a, b : <<a, b>> \in R0 /\ b \in Into => a \in Into
  BY <1>1 DEF Transitive
<1>5. \A a, b : <<a, b>> \in R0 /\ a \in From => b \in From
  BY <1>1 DEF Transitive
<1>. HIDE DEF R0, Into, From
<1>6. Transitive(Grown)
  <2>. SUFFICES ASSUME NEW a, NEW b, NEW c, <<a, b>> \in Grown, <<b, c>> \in Grown
                PROVE  <<a, c>> \in Grown
    BY DEF Transitive
  <2>1. \/ <<a, b>> \in R0
        \/ a \in Into /\ b = node
        \/ a = node /\ b \in From
        \/ a = node /\ b = node
    OBVIOUS
  <2>2. \/ <<b, c>> \in R0
        \/ b \in Into /\ c = node
        \/ b = node /\ c \in From
        \/ b = node /\ c = node
    OBVIOUS
  <2>3. node \notin Into /\ node \notin From
    BY DEF Into, From
  <2>4. CASE <<a, b>> \in R0
    BY <2>4, <2>2, <1>1, <1>4 DEF Transitive
  <2>5. CASE a \in Into /\ b = node
    BY <2>5, <2>2, <2>3, <1>1, <1>3
  <2>6. CASE a = node /\ b \in From
    BY <2>6, <2>2, <2>3, <1>5
  <2>7. CASE a = node /\ b = node
    BY <2>7, <2>2, <2>3, <1>1
  <2>. QED BY <2>1, <2>4, <2>5, <2>6, <2>7
<1>7. E \subseteq Grown
  <2>. SUFFICES ASSUME NEW e \in E PROVE e \in Grown
    OBVIOUS
  <2>1. e = <<e[1], e[2]>> /\ e[1] \in N /\ e[2] \in N
    OBVIOUS
  <2>2. CASE node \notin {e[1], e[2]}
    <3>1. e \in R
      BY <2>2 DEF NicelyRemoveNode
    <3>. QED BY <2>2, <3>1 DEF R0, Apart
  <2>3. CASE e[2] = node
    <3>1. e[1] \in Preds(E, node) /\ e[1] # node
      BY <2>1, <2>3, PredsSuccs
    <3>2. e[1] \in Into
      BY <2>1, <3>1 DEF Into
    <3>. QED BY <2>1, <2>3, <3>2
  <2>4. CASE e[1] = node
    <3>1. e[2] \in Succs(E, node) /\ e[2] # node
      BY <2>1, <2>4, PredsSuccs
    <3>2. e[2] \in From
      BY <2>1, <3>1 DEF From
    <3>. QED BY <2>1, <2>4, <3>2
  <2>. QED BY <2>2, <2>3, <2>4
<1>8. Grown \in SUBSET (N \X N)
  BY <1>1 DEF Into, From
<1>9. p \in Grown
  BY <1>6, <1>7, <1>8 DEF Paths, Apart
<1>10. p \in R0
  BY <1>9 DEF Apart
<1>. QED BY <1>10 DEF R0, Apart

-----------------------------------------------------------------------------
(* Taking a communication call out of the execution graph keeps the order  *)
(* of all other calls, whatever the graph (nicely_remove_node).            *)
THEOREM RemovalKeepsPaths ==
  ASSUME NEW N, NEW E \in SUBSET (N \X N), NEW node \in N, <<node, node>> \notin E
  PROVE  Paths(N, NicelyRemoveNode(E, node)) = Apart(Paths(N, E), node)
<1>1. Paths(N, NicelyRemoveNode(E, node)) \subseteq Apart(Paths(N, E), node)
  BY NoNewPath
<1>2. Apart(Paths(N, E), node) \subseteq Paths(N, NicelyRemoveNode(E, node))
  BY NoPathLost
<1>. QED BY <1>1, <1>2

(* A graph without a cycle stays one, so that the next call can be taken   *)
(* out in turn, in any order (the loops of ExecGraph.reduction).           *)
THEOREM RemovalKeepsAcyclic ==
  ASSUME NEW N, NEW E \in SUBSET (N \X N), NEW node \in N,
         \A x \in N : <<x, x>> \notin Paths(N, E)
  PROVE  /\ NicelyRemoveNode(E, node) \in SUBSET (N \X N)
         /\ \A x \in N : <<x, x>> \notin Paths(N, NicelyRemoveNode(E, node))
<1>1. E \subseteq Paths(N, E)
  BY DEF Paths
<1>2. Paths(N, NicelyRemoveNode(E, node)) = Apart(Paths(N, E), node)
  BY <1>1, RemovalKeepsPaths
<1>3. Preds(E, node) \X Succs(E, node) \subseteq N \X N
  <2>1. \A e \in E : e[1] \in N /\ e[2] \in N
    OBVIOUS
  <2>2. \A a \in Preds(E, node) : a \in N
    BY <2>1 DEF Preds
  <2>3. \A b \in Succs(E, node) : b \in N
    BY <2>1 DEF Succs
  <2>. QED BY <2>2, <2>3
<1>4. NicelyRemoveNode(E, node) \in SUBSET (N \X N)
  BY <1>3 DEF NicelyRemoveNode
<1>. QED BY <1>2, <1>4 DEF Apart

-----------------------------------------------------------------------------
(* The inductive invariant: what the log and the connections hold while    *)
(* the servers run, and what each later phase has computed from them.      *)
Call == [svc : Services, kind : {"op", "send", "recv"}, peer : Peers,
         part : {"none", "whole", "header", "body"}, msg : Nat]

Part == [part : {"whole", "header", "body"}, msg : Nat]

TypeOK ==
  /\ program \in Programs
  /\ pc \in [Services -> Nat \ {0}]
  /\ log \in Seq(Call)
  /\ connection \in [Peers \X Services -> Seq(Part)]
  /\ phase \in {"running", "parsed", "linked", "reduced", "raised"}

Sent(i, p, s) == log[i].kind = "send" /\ log[i].svc = p /\ log[i].peer = s
Got(j, p, s) == log[j].kind = "recv" /\ log[j].svc = s /\ log[j].peer = p
Opens(j, p, s) == Got(j, p, s) /\ log[j].part # "body"

\* A message is whole, or starts with a header.
FramedFirst(part) == part # "body" => part = (IF program.headers THEN "header" ELSE "whole")

\* The header that the body j belongs to: nothing else was read in between.
HeaderOf(h, j, p, s) ==
  /\ Got(h, p, s) /\ log[h].part = "header" /\ log[h].msg = log[j].msg
  /\ \A k \in (h + 1)..(j - 1) : ~ Got(k, p, s)

\* What a call of the log reads.
ReadOK(j) ==
  LET p == log[j].peer
      s == log[j].svc
  IN  IF log[j].kind # "recv" THEN log[j].msg = 0 /\ log[j].part = "none"
      ELSE /\ log[j].part # "none" /\ log[j].msg \in 1..j
           /\ FramedFirst(log[j].part)
           /\ p # Client => log[j].msg < j /\ Sent(log[j].msg, p, s)
           /\ p = Client /\ log[j].part # "body" => log[j].msg = j
           /\ log[j].part = "body" => \E h \in 1..(j - 1) : HeaderOf(h, j, p, s)

\* Messages between two servers are read in the order they were sent.
ReadInOrder(p, s) ==
  \A j, k \in DOMAIN log : Opens(j, p, s) /\ Opens(k, p, s) /\ j < k => log[j].msg < log[k].msg

LogInv ==
  /\ \A j \in DOMAIN log : ReadOK(j)
  /\ \A p \in Services, s \in Services : ReadInOrder(p, s)

\* What is on its way from p to s.
BodyOK(c, n, p, s) ==
  IF n = 1 THEN \E h \in DOMAIN log :
                  /\ Got(h, p, s) /\ log[h].part = "header" /\ log[h].msg = c[n].msg
                  /\ \A k \in (h + 1)..Len(log) : ~ Got(k, p, s)
  ELSE c[n - 1].part = "header" /\ c[n - 1].msg = c[n].msg

FirstOK(c, n, p, s) ==
  /\ p # Client
  /\ c[n].msg \in DOMAIN log /\ Sent(c[n].msg, p, s)
  /\ \A m \in 1..(n - 1) : c[m].part # "body" => c[m].msg < c[n].msg
  /\ \A j \in DOMAIN log : Opens(j, p, s) => log[j].msg < c[n].msg

OnItsWayOK(c, p, s) ==
  /\ p = Client => Len(c) <= 1
  /\ \A n \in DOMAIN c :
       /\ FramedFirst(c[n].part)
       /\ IF c[n].part = "body" THEN BodyOK(c, n, p, s) ELSE FirstOK(c, n, p, s)

\* No message is lost.
Delivered(i, p, s) ==
  \/ \E j \in DOMAIN log : Opens(j, p, s) /\ log[j].msg = i
  \/ \E n \in DOMAIN connection[p, s] :
       connection[p, s][n].part # "body" /\ connection[p, s][n].msg = i

ConnectionInv ==
  /\ \A p \in Peers, s \in Services : OnItsWayOK(connection[p, s], p, s)
  /\ \A p \in Services, s \in Services, i \in DOMAIN log :
       Sent(i, p, s) => Delivered(i, p, s)

\* What the later phases compute.
CallsKept == [s \in Services |-> WithoutBodies(Trimmed(s))]
Linked == Chains \union correlated \union ClientEdges
Cleared(E) == FoldLeft(RemoveSend, FoldLeft(RemoveReceive, E, InOrder), InOrder)
CycleFound == \E e \in Reachability(Cleared(Linked)) : e[1] = e[2]
Reduced == TransitiveReduction(Cleared(Linked)) \union IntraEdges(Cleared(Linked))

PhaseInv ==
  /\ phase # "running" =>
       /\ \A p \in Peers, s \in Services : connection[p, s] = <<>>
       /\ syscalls = CallsKept
       /\ correlated = Matched(syscalls)
  /\ phase = "linked" => edges = Linked
  /\ phase = "raised" => CycleFound
  /\ phase = "reduced" => edges = Reduced

IInv == TypeOK /\ LogInv /\ ConnectionInv /\ PhaseInv

-----------------------------------------------------------------------------
(* Reachability joins by a path exactly what a path joins: after the calls *)
(* up to one, every path through these calls alone has its pair.           *)
Closing == INSTANCE Folding WITH Op <- Through

LEMMA PathsAreTransitive ==
  ASSUME NEW N, NEW E \in SUBSET (N \X N)
  PROVE  Paths(N, E) \in SUBSET (N \X N) /\ E \subseteq Paths(N, E) /\ Transitive(Paths(N, E))
<1>1. Paths(N, E) \in SUBSET (N \X N) /\ E \subseteq Paths(N, E)
  BY DEF Paths
<1>2. ASSUME NEW a, NEW b, NEW c, <<a, b>> \in Paths(N, E), <<b, c>> \in Paths(N, E)
      PROVE  <<a, c>> \in Paths(N, E)
  <2>1. <<a, c>> \in N \X N
    BY <1>1, <1>2
  <2>2. ASSUME NEW R \in SUBSET (N \X N), E \subseteq R, Transitive(R) PROVE <<a, c>> \in R
    <3>1. <<a, b>> \in R /\ <<b, c>> \in R
      BY <1>2, <2>2 DEF Paths
    <3>. QED BY <2>2, <3>1 DEF Transitive
  <2>. QED BY <2>1, <2>2 DEF Paths
<1>. QED BY <1>1, <1>2 DEF Transitive

LEMMA PathsAreLeast ==
  ASSUME NEW N, NEW E, NEW R \in SUBSET (N \X N), E \subseteq R, Transitive(R)
  PROVE  Paths(N, E) \subseteq R
BY DEF Paths

LEMMA PathsGrow ==
  ASSUME NEW N, NEW E, NEW F \in SUBSET (N \X N), E \subseteq Paths(N, F)
  PROVE  Paths(N, E) \subseteq Paths(N, F)
BY PathsAreTransitive, PathsAreLeast

(* The positions of the log, in order.                                     *)
LEMMA Positions ==
  ASSUME log \in Seq(Call)
  PROVE  /\ Len(log) \in Nat /\ DOMAIN log = 1..Len(log)
         /\ InOrder \in Seq(Nat) /\ Len(InOrder) = Len(log)
         /\ \A i \in 1..Len(InOrder) : InOrder[i] = i
<1>1. Len(log) \in Nat /\ DOMAIN log = 1..Len(log)
  OBVIOUS
<1>2. InOrder = [i \in 1..Len(log) |-> i]
  BY <1>1 DEF InOrder
<1>. QED BY <1>1, <1>2

LEMMA CallFields ==
  ASSUME log \in Seq(Call), NEW i \in DOMAIN log
  PROVE  /\ log[i].svc \in Services /\ log[i].kind \in {"op", "send", "recv"} /\ log[i].peer \in Peers
         /\ log[i].part \in {"none", "whole", "header", "body"} /\ log[i].msg \in Nat
<1>1. log[i] \in Call
  OBVIOUS
<1>. QED BY <1>1 DEF Call

LEMMA ThroughPairs ==
  ASSUME NEW N, NEW R \in SUBSET (N \X N), NEW k
  PROVE  /\ Through(R, k) \in SUBSET (N \X N)
         /\ \A a, b : <<a, b>> \in Through(R, k) <=>
              <<a, b>> \in R \/ (<<a, k>> \in R /\ <<k, b>> \in R)
<1>1. /\ \A a : a \in Preds(R, k) <=> <<a, k>> \in R
      /\ \A b : b \in Succs(R, k) <=> <<k, b>> \in R
  BY PredsSuccs
<1>2. Preds(R, k) \subseteq N /\ Succs(R, k) \subseteq N
  <2>1. ASSUME NEW a \in Preds(R, k) PROVE a \in N
    <3>1. <<a, k>> \in R
      BY <1>1
    <3>. QED BY <3>1
  <2>2. ASSUME NEW b \in Succs(R, k) PROVE b \in N
    <3>1. <<k, b>> \in R
      BY <1>1
    <3>. QED BY <3>1
  <2>. QED BY <2>1, <2>2
<1>. QED BY <1>1, <1>2 DEF Through

(* The pairs after the calls until i.                                      *)
Closed(N, E, i) ==
  {R \in SUBSET (N \X N) :
     /\ E \subseteq R /\ R \subseteq Paths(N, E)
     /\ \A k \in 1..i : \A a, b : <<a, k>> \in R /\ <<k, b>> \in R => <<a, b>> \in R}

LEMMA ClosedStep ==
  ASSUME NEW N, NEW E \in SUBSET (N \X N), NEW i \in Nat, i > 0, NEW R \in Closed(N, E, i - 1)
  PROVE  Through(R, i) \in Closed(N, E, i)
<1>1. /\ R \in SUBSET (N \X N) /\ E \subseteq R /\ R \subseteq Paths(N, E)
      /\ \A k \in 1..(i - 1) : \A a, b : <<a, k>> \in R /\ <<k, b>> \in R => <<a, b>> \in R
  BY DEF Closed
<1>2. PICK T : T = Through(R, i)
  OBVIOUS
<1>3. /\ T \in SUBSET (N \X N)
      /\ \A a, b : <<a, b>> \in T <=> <<a, b>> \in R \/ (<<a, i>> \in R /\ <<i, b>> \in R)
  BY <1>1, <1>2, ThroughPairs
<1>4. E \subseteq T
  BY <1>1, <1>2 DEF Through
<1>5. T \subseteq Paths(N, E)
  <2>. SUFFICES ASSUME NEW e \in T PROVE e \in Paths(N, E)
    OBVIOUS
  <2>1. PICK a, b : e = <<a, b>>
    BY <1>3
  <2>2. <<a, b>> \in R \/ (<<a, i>> \in R /\ <<i, b>> \in R)
    BY <1>3, <2>1
  <2>3. PICK P : P = Paths(N, E)
    OBVIOUS
  <2>4. Transitive(P) /\ R \subseteq P
    BY <1>1, <2>3, PathsAreTransitive
  <2>5. <<a, b>> \in P \/ (<<a, i>> \in P /\ <<i, b>> \in P)
    BY <2>2, <2>4
  <2>6. <<a, b>> \in P
    BY <2>4, <2>5 DEF Transitive
  <2>. QED BY <2>1, <2>3, <2>6
<1>6. ASSUME NEW k \in 1..i, NEW a, NEW b, <<a, k>> \in T, <<k, b>> \in T PROVE <<a, b>> \in T
  <2>1. CASE k = i
    BY <1>3, <1>6, <2>1
  <2>2. CASE k # i
    <3>1. k \in 1..(i - 1)
      BY <2>2
    <3>2. \A x, y : <<x, k>> \in R /\ <<k, y>> \in R => <<x, y>> \in R
      BY <1>1, <3>1
    <3>. QED BY <1>3, <1>6, <3>2
  <2>. QED BY <2>1, <2>2
<1>7. T \in Closed(N, E, i)
  BY <1>3, <1>4, <1>5, <1>6 DEF Closed
<1>. QED BY <1>2, <1>7

LEMMA ReachabilityIsPaths ==
  ASSUME log \in Seq(Call), NEW E \in SUBSET ((DOMAIN log) \X (DOMAIN log))
  PROVE  Reachability(E) = Paths(DOMAIN log, E)
<1>. DEFINE N == DOMAIN log
            n == Len(log)
            Good == [i \in Nat |-> Closed(N, E, i)]
<1>1. n \in Nat /\ N = 1..n /\ InOrder \in Seq(Nat) /\ Len(InOrder) = n
      /\ \A i \in 1..Len(InOrder) : InOrder[i] = i
  BY Positions
<1>2. E \in SUBSET (N \X N)
  OBVIOUS
<1>3. Reachability(E) = Closing!Fold(E, InOrder)
  BY DEF Reachability, FoldLeft, MapThenFoldSet, Max, Closing!Fold, Closing!FoldLeft,
         Closing!MapThenFoldSet, Closing!Max
<1>. HIDE DEF N, n
<1>4. E \in Good[0]
  <2>1. E \in Closed(N, E, 0)
    BY <1>2, PathsAreTransitive DEF Closed
  <2>. QED BY <2>1
<1>5. \A i \in 1..Len(InOrder) : \A R \in Good[i - 1] : Through(R, InOrder[i]) \in Good[i]
  <2>. SUFFICES ASSUME NEW i \in 1..Len(InOrder), NEW R \in Good[i - 1]
                PROVE  Through(R, InOrder[i]) \in Good[i]
    OBVIOUS
  <2>1. i \in Nat /\ i > 0 /\ i - 1 \in Nat /\ InOrder[i] = i
    BY <1>1
  <2>2. R \in Closed(N, E, i - 1)
    BY <2>1
  <2>3. Through(R, i) \in Closed(N, E, i)
    BY <1>2, <2>1, <2>2, ClosedStep
  <2>. QED BY <2>1, <2>3
<1>. HIDE DEF Good
<1>6. Closing!Fold(E, InOrder) \in Good[n]
  BY <1>1, <1>4, <1>5, Closing!FoldInvariant
<1>7. PICK R \in Closed(N, E, n) : R = Reachability(E)
  BY <1>1, <1>3, <1>6 DEF Good
<1>8. /\ R \in SUBSET (N \X N) /\ E \subseteq R /\ R \subseteq Paths(N, E)
      /\ \A k \in 1..n : \A a, b : <<a, k>> \in R /\ <<k, b>> \in R => <<a, b>> \in R
  BY <1>7 DEF Closed
<1>9. Transitive(R)
  BY <1>1, <1>8 DEF Transitive
<1>10. R = Paths(N, E)
  BY <1>8, <1>9, PathsAreLeast
<1>. QED BY <1>7, <1>10 DEF N

-----------------------------------------------------------------------------
(* Taking the communication calls out, one by one, and then the edges that *)
(* other paths make up for, keeps the paths between the other calls.       *)
RemovingReceives == INSTANCE Folding WITH Op <- RemoveReceive
RemovingSends == INSTANCE Folding WITH Op <- RemoveSend

Forwards(E) == \A a, b : <<a, b>> \in E => a < b

LEMMA ForwardPaths ==
  ASSUME NEW N \in SUBSET Nat, NEW E \in SUBSET (N \X N), Forwards(E)
  PROVE  Forwards(Paths(N, E))
<1>. DEFINE R == {e \in N \X N : e[1] < e[2]}
<1>1. R \in SUBSET (N \X N) /\ \A a, b : <<a, b>> \in R <=> a \in N /\ b \in N /\ a < b
  OBVIOUS
<1>. HIDE DEF R
<1>2. E \subseteq R
  <2>. SUFFICES ASSUME NEW e \in E PROVE e \in R
    OBVIOUS
  <2>1. PICK a, b : e = <<a, b>>
    OBVIOUS
  <2>2. a \in N /\ b \in N
    BY <2>1
  <2>. QED BY <1>1, <2>1, <2>2 DEF Forwards
<1>3. Transitive(R)
  <2>. SUFFICES ASSUME NEW a, NEW b, NEW c, <<a, b>> \in R, <<b, c>> \in R PROVE <<a, c>> \in R
    BY DEF Transitive
  <2>1. a \in Nat /\ b \in Nat /\ c \in Nat /\ a \in N /\ c \in N /\ a < b /\ b < c
    BY <1>1
  <2>2. a < c
    BY <2>1
  <2>. QED BY <1>1, <2>1, <2>2
<1>4. Paths(N, E) \subseteq R
  BY <1>1, <1>2, <1>3, PathsAreLeast
<1>. QED BY <1>1, <1>4 DEF Forwards

(* The edges after the calls of Gone were taken out.                       *)
ClearedOf(N, E, Gone) ==
  {F \in SUBSET (N \X N) :
     Forwards(F) /\ Paths(N, F) = {p \in Paths(N, E) : p[1] \notin Gone /\ p[2] \notin Gone}}

LEMMA ClearedOnce ==
  ASSUME NEW N \in SUBSET Nat, NEW E, NEW Gone, NEW F \in ClearedOf(N, E, Gone), NEW i \in N
  PROVE  NicelyRemoveNode(F, i) \in ClearedOf(N, E, Gone \union {i})
<1>1. /\ F \in SUBSET (N \X N) /\ Forwards(F)
      /\ Paths(N, F) = {p \in Paths(N, E) : p[1] \notin Gone /\ p[2] \notin Gone}
  BY DEF ClearedOf
<1>2. <<i, i>> \notin F
  BY <1>1 DEF Forwards
<1>3. PICK G : G = NicelyRemoveNode(F, i)
  OBVIOUS
<1>4. ASSUME NEW e \in G
      PROVE  e \in N \X N /\ \A a, b : e = <<a, b>> => a < b
  <2>1. CASE e \in F
    BY <1>1, <2>1 DEF Forwards
  <2>2. CASE e \in Preds(F, i) \X Succs(F, i)
    <3>1. PICK a, b : e = <<a, b>> /\ a \in Preds(F, i) /\ b \in Succs(F, i)
      BY <2>2
    <3>2. <<a, i>> \in F /\ <<i, b>> \in F
      BY <1>1, <3>1, PredsSuccs
    <3>3. a \in N /\ b \in N /\ a < i /\ i < b
      BY <1>1, <3>2 DEF Forwards
    <3>4. a < b
      BY <3>3
    <3>. QED BY <3>1, <3>3, <3>4
  <2>. QED BY <1>3, <1>4, <2>1, <2>2 DEF NicelyRemoveNode
<1>5. G \in SUBSET (N \X N) /\ Forwards(G)
  BY <1>4 DEF Forwards
<1>6. Paths(N, G) = Apart(Paths(N, F), i)
  <2>1. F \in SUBSET (N \X N) /\ i \in N /\ <<i, i>> \notin F
    BY <1>1, <1>2
  <2>2. Paths(N, NicelyRemoveNode(F, i)) = Apart(Paths(N, F), i)
    BY <2>1, RemovalKeepsPaths
  <2>. QED BY <1>3, <2>2
<1>7. PICK left, right : /\ left = Apart(Paths(N, F), i)
                         /\ right = {p \in Paths(N, E) : p[1] \notin Gone \union {i} /\ p[2] \notin Gone \union {i}}
  OBVIOUS
<1>8. left = right
  <2>1. \A p : p \in left <=> p \in right
    BY <1>1, <1>7 DEF Apart
  <2>. QED BY <2>1
<1>9. G \in ClearedOf(N, E, Gone \union {i})
  BY <1>5, <1>6, <1>7, <1>8 DEF ClearedOf
<1>. QED BY <1>3, <1>9

(* The calls of a kind until a position of the log.                        *)
KindUntil(kind, i) == {k \in DOMAIN log : k <= i /\ log[k].kind = kind}

LEMMA KindGrows ==
  ASSUME NEW kind, log \in Seq(Call), NEW i \in DOMAIN log
  PROVE  KindUntil(kind, i) =
           IF log[i].kind = kind THEN KindUntil(kind, i - 1) \union {i} ELSE KindUntil(kind, i - 1)
<1>1. DOMAIN log \subseteq Nat
  OBVIOUS
<1>2. \A k \in DOMAIN log : k <= i <=> (k <= i - 1 \/ k = i)
  BY <1>1
<1>. QED BY <1>2 DEF KindUntil

LEMMA ClearedOfKind ==
  ASSUME NEW E, NEW Gone, NEW kind, log \in Seq(Call), NEW i \in DOMAIN log,
         NEW F \in ClearedOf(DOMAIN log, E, Gone \union KindUntil(kind, i - 1))
  PROVE  (IF log[i].kind = kind THEN NicelyRemoveNode(F, i) ELSE F)
           \in ClearedOf(DOMAIN log, E, Gone \union KindUntil(kind, i))
<1>1. DOMAIN log \in SUBSET Nat
  OBVIOUS
<1>2. CASE log[i].kind = kind
  <2>1. PICK Before : Before = Gone \union KindUntil(kind, i - 1)
    OBVIOUS
  <2>2. Gone \union KindUntil(kind, i) = Before \union {i}
    BY <1>2, <2>1, KindGrows
  <2>. QED BY <1>1, <1>2, <2>1, <2>2, ClearedOnce
<1>3. CASE log[i].kind # kind
  BY <1>3, KindGrows
<1>. QED BY <1>2, <1>3

LEMMA ReceivesCleared ==
  ASSUME log \in Seq(Call), NEW E, NEW Gone, NEW F \in ClearedOf(DOMAIN log, E, Gone)
  PROVE  FoldLeft(RemoveReceive, F, InOrder) \in ClearedOf(DOMAIN log, E, Gone \union KindUntil("recv", Len(log)))
<1>. DEFINE n == Len(log)
            Good == [i \in Nat |-> ClearedOf(DOMAIN log, E, Gone \union KindUntil("recv", i))]
<1>1. n \in Nat /\ DOMAIN log = 1..n /\ InOrder \in Seq(Nat) /\ Len(InOrder) = n
      /\ \A i \in 1..Len(InOrder) : InOrder[i] = i
  BY Positions
<1>2. FoldLeft(RemoveReceive, F, InOrder) = RemovingReceives!Fold(F, InOrder)
  BY DEF FoldLeft, MapThenFoldSet, Max, RemovingReceives!Fold, RemovingReceives!FoldLeft,
         RemovingReceives!MapThenFoldSet, RemovingReceives!Max
<1>3. F \in Good[0]
  <2>1. KindUntil("recv", 0) = {}
    BY <1>1 DEF KindUntil
  <2>. QED BY <2>1
<1>4. \A i \in 1..Len(InOrder) : \A G \in Good[i - 1] : RemoveReceive(G, InOrder[i]) \in Good[i]
  <2>. SUFFICES ASSUME NEW i \in 1..Len(InOrder), NEW G \in Good[i - 1]
                PROVE  RemoveReceive(G, InOrder[i]) \in Good[i]
    OBVIOUS
  <2>1. i \in Nat /\ i - 1 \in Nat /\ InOrder[i] = i /\ i \in DOMAIN log
    BY <1>1
  <2>2. G \in ClearedOf(DOMAIN log, E, Gone \union KindUntil("recv", i - 1))
    BY <2>1
  <2>3. RemoveReceive(G, i) \in ClearedOf(DOMAIN log, E, Gone \union KindUntil("recv", i))
    BY <2>1, <2>2, ClearedOfKind DEF RemoveReceive
  <2>. QED BY <2>1, <2>3
<1>. HIDE DEF Good, n
<1>5. RemovingReceives!Fold(F, InOrder) \in Good[n]
  BY <1>1, <1>3, <1>4, RemovingReceives!FoldInvariant
<1>. QED BY <1>1, <1>2, <1>5 DEF Good, n

LEMMA SendsCleared ==
  ASSUME log \in Seq(Call), NEW E, NEW Gone, NEW F \in ClearedOf(DOMAIN log, E, Gone)
  PROVE  FoldLeft(RemoveSend, F, InOrder) \in ClearedOf(DOMAIN log, E, Gone \union KindUntil("send", Len(log)))
<1>. DEFINE n == Len(log)
            Good == [i \in Nat |-> ClearedOf(DOMAIN log, E, Gone \union KindUntil("send", i))]
<1>1. n \in Nat /\ DOMAIN log = 1..n /\ InOrder \in Seq(Nat) /\ Len(InOrder) = n
      /\ \A i \in 1..Len(InOrder) : InOrder[i] = i
  BY Positions
<1>2. FoldLeft(RemoveSend, F, InOrder) = RemovingSends!Fold(F, InOrder)
  BY DEF FoldLeft, MapThenFoldSet, Max, RemovingSends!Fold, RemovingSends!FoldLeft,
         RemovingSends!MapThenFoldSet, RemovingSends!Max
<1>3. F \in Good[0]
  <2>1. KindUntil("send", 0) = {}
    BY <1>1 DEF KindUntil
  <2>. QED BY <2>1
<1>4. \A i \in 1..Len(InOrder) : \A G \in Good[i - 1] : RemoveSend(G, InOrder[i]) \in Good[i]
  <2>. SUFFICES ASSUME NEW i \in 1..Len(InOrder), NEW G \in Good[i - 1]
                PROVE  RemoveSend(G, InOrder[i]) \in Good[i]
    OBVIOUS
  <2>1. i \in Nat /\ i - 1 \in Nat /\ InOrder[i] = i /\ i \in DOMAIN log
    BY <1>1
  <2>2. G \in ClearedOf(DOMAIN log, E, Gone \union KindUntil("send", i - 1))
    BY <2>1
  <2>3. RemoveSend(G, i) \in ClearedOf(DOMAIN log, E, Gone \union KindUntil("send", i))
    BY <2>1, <2>2, ClearedOfKind DEF RemoveSend
  <2>. QED BY <2>1, <2>3
<1>. HIDE DEF Good, n
<1>5. RemovingSends!Fold(F, InOrder) \in Good[n]
  BY <1>1, <1>3, <1>4, RemovingSends!FoldInvariant
<1>. QED BY <1>1, <1>2, <1>5 DEF Good, n

IsOp(i) == log[i].kind = "op"

LEMMA ClearedPaths ==
  ASSUME log \in Seq(Call), NEW E \in SUBSET ((DOMAIN log) \X (DOMAIN log)), Forwards(E)
  PROVE  /\ Cleared(E) \in SUBSET ((DOMAIN log) \X (DOMAIN log)) /\ Forwards(Cleared(E))
         /\ Paths(DOMAIN log, Cleared(E)) = {p \in Paths(DOMAIN log, E) : IsOp(p[1]) /\ IsOp(p[2])}
<1>1. PICK N : N = DOMAIN log
  OBVIOUS
<1>2. E \in ClearedOf(N, E, {})
  BY <1>1 DEF ClearedOf
<1>3. PICK Recvs, Sent2 : Recvs = KindUntil("recv", Len(log)) /\ Sent2 = KindUntil("send", Len(log))
  OBVIOUS
<1>4. PICK F : F = FoldLeft(RemoveReceive, E, InOrder)
  OBVIOUS
<1>5. F \in ClearedOf(N, E, {} \union Recvs)
  BY <1>1, <1>2, <1>3, <1>4, ReceivesCleared
<1>6. Cleared(E) \in ClearedOf(N, E, ({} \union Recvs) \union Sent2)
  BY <1>1, <1>3, <1>4, <1>5, SendsCleared DEF Cleared
<1>7. \A i \in N : i \notin ({} \union Recvs) \union Sent2 <=> IsOp(i)
  <2>1. \A i \in N : i <= Len(log) /\ log[i].kind \in {"op", "send", "recv"}
    BY <1>1, CallFields, Positions
  <2>. QED BY <1>1, <1>3, <2>1 DEF KindUntil, IsOp
<1>8. Paths(N, E) \in SUBSET (N \X N)
  BY DEF Paths
<1>9. PICK left, right : /\ left = {p \in Paths(N, E) : /\ p[1] \notin ({} \union Recvs) \union Sent2
                                                          /\ p[2] \notin ({} \union Recvs) \union Sent2}
                         /\ right = {p \in Paths(N, E) : IsOp(p[1]) /\ IsOp(p[2])}
  OBVIOUS
<1>10. left = right
  <2>1. \A p \in Paths(N, E) : p[1] \in N /\ p[2] \in N
    BY <1>8
  <2>2. \A p : p \in left <=> p \in right
    BY <1>7, <1>9, <2>1
  <2>. QED BY <2>2
<1>. QED BY <1>1, <1>6, <1>9, <1>10 DEF ClearedOf

(* A path is an edge or goes through another call.                         *)
LEMMA PathSplits ==
  ASSUME NEW N, NEW E \in SUBSET (N \X N), NEW a, NEW b, <<a, b>> \in Paths(N, E)
  PROVE  \/ <<a, b>> \in E
         \/ \E c : <<a, c>> \in Paths(N, E) /\ <<c, b>> \in Paths(N, E)
<1>. DEFINE R == {p \in N \X N : p \in E \/ \E c : <<p[1], c>> \in Paths(N, E) /\ <<c, p[2]>> \in Paths(N, E)}
<1>1. Paths(N, E) \in SUBSET (N \X N) /\ E \subseteq Paths(N, E) /\ Transitive(Paths(N, E))
  BY PathsAreTransitive
<1>2. /\ R \in SUBSET (N \X N) /\ E \subseteq R
      /\ \A x, y : <<x, y>> \in R =>
           <<x, y>> \in E \/ \E c : <<x, c>> \in Paths(N, E) /\ <<c, y>> \in Paths(N, E)
  OBVIOUS
<1>3. \A x, y, c : <<x, c>> \in Paths(N, E) /\ <<c, y>> \in Paths(N, E) => <<x, y>> \in R
  <2>. SUFFICES ASSUME NEW x, NEW y, NEW c, <<x, c>> \in Paths(N, E), <<c, y>> \in Paths(N, E)
                PROVE  <<x, y>> \in R
    OBVIOUS
  <2>1. <<x, y>> \in N \X N
    BY <1>1
  <2>. QED BY <2>1
<1>. HIDE DEF R
<1>4. \A x, y : <<x, y>> \in R => <<x, y>> \in Paths(N, E)
  BY <1>1, <1>2 DEF Transitive
<1>5. Transitive(R)
  BY <1>3, <1>4 DEF Transitive
<1>6. <<a, b>> \in R
  BY <1>2, <1>5, PathsAreLeast
<1>. QED BY <1>2, <1>6

(* The reduction keeps every path: by induction on its span.               *)
LEMMA ReducedPaths ==
  ASSUME log \in Seq(Call), NEW G \in SUBSET ((DOMAIN log) \X (DOMAIN log)), Forwards(G)
  PROVE  Paths(DOMAIN log, TransitiveReduction(G) \union IntraEdges(G)) = Paths(DOMAIN log, G)
<1>1. PICK N : N = DOMAIN log
  OBVIOUS
<1>2. N \in SUBSET Nat /\ G \in SUBSET (N \X N)
  BY <1>1
<1>3. PICK P : P = Paths(N, G)
  OBVIOUS
<1>4. /\ P \in SUBSET (N \X N) /\ G \subseteq P /\ Transitive(P) /\ Forwards(P)
      /\ Reachability(G) = P
  BY <1>1, <1>2, <1>3, PathsAreTransitive, ForwardPaths, ReachabilityIsPaths
<1>5. PICK F : F = TransitiveReduction(G) \union IntraEdges(G)
  OBVIOUS
<1>6. F \subseteq G
  BY <1>5 DEF TransitiveReduction, IntraEdges
<1>7. ASSUME NEW a, NEW b, <<a, b>> \in G, <<a, b>> \notin F
      PROVE  \E c : <<a, c>> \in P /\ <<c, b>> \in P
  <2>1. <<a, b>> \notin TransitiveReduction(G)
    BY <1>5, <1>7
  <2>2. PICK d \in G : d[1] = a /\ <<d[2], b>> \in P
    BY <1>4, <1>7, <2>1 DEF TransitiveReduction
  <2>3. d = <<a, d[2]>>
    BY <1>2, <2>2
  <2>. QED BY <1>4, <2>2, <2>3
<1>8. PICK Q : Q = Paths(N, F)
  OBVIOUS
<1>9. F \subseteq Q /\ Transitive(Q)
  BY <1>2, <1>6, <1>8, PathsAreTransitive
<1>10. \A k \in Nat : \A a, b : <<a, b>> \in P /\ b - a <= k => <<a, b>> \in Q
  <2>. DEFINE S == {k \in Nat : \A a, b : <<a, b>> \in P /\ b - a <= k => <<a, b>> \in Q}
  <2>1. \A a, b : <<a, b>> \in P => a \in Nat /\ b \in Nat /\ a < b
    BY <1>2, <1>4 DEF Forwards
  <2>2. 0 \in S
    <3>1. ASSUME NEW a, NEW b, <<a, b>> \in P, b - a <= 0 PROVE FALSE
      BY <2>1, <3>1
    <3>. QED BY <3>1
  <2>3. ASSUME NEW k \in Nat, k \in S PROVE k + 1 \in S
    <3>. SUFFICES ASSUME NEW a, NEW b, <<a, b>> \in P, b - a <= k + 1 PROVE <<a, b>> \in Q
      OBVIOUS
    <3>1. <<a, b>> \in F \/ \E c : <<a, c>> \in P /\ <<c, b>> \in P
      BY <1>2, <1>3, <1>7, PathSplits
    <3>2. ASSUME NEW c, <<a, c>> \in P, <<c, b>> \in P PROVE <<a, b>> \in Q
      <4>1. a \in Nat /\ b \in Nat /\ c \in Nat /\ a < c /\ c < b
        BY <2>1, <3>2
      <4>2. c - a <= k /\ b - c <= k
        BY <4>1
      <4>3. <<a, c>> \in Q /\ <<c, b>> \in Q
        BY <2>3, <3>2, <4>2
      <4>. QED BY <1>9, <4>3 DEF Transitive
    <3>. QED BY <1>9, <3>1, <3>2
  <2>. HIDE DEF S
  <2>4. \A k \in Nat : k \in S
    BY <2>2, <2>3, Closing!Inductive
  <2>. QED BY <2>4 DEF S
<1>11. P \subseteq Q
  <2>. SUFFICES ASSUME NEW e \in P PROVE e \in Q
    OBVIOUS
  <2>1. PICK a, b : e = <<a, b>>
    BY <1>4
  <2>2. a \in Nat /\ b \in Nat /\ a < b
    BY <1>2, <1>4, <2>1 DEF Forwards
  <2>3. b - a \in Nat /\ b - a <= b - a
    BY <2>2
  <2>. QED BY <1>10, <2>1, <2>3
<1>12. Q \subseteq P
  BY <1>2, <1>3, <1>4, <1>6, <1>8, PathsGrow
<1>. QED BY <1>1, <1>3, <1>5, <1>8, <1>11, <1>12

(* What the reduction of an execution graph whose edges go forward ends    *)
(* with: no cycle is found, and the paths left are those of the graph      *)
(* between its file system calls.                                          *)
LEMMA ReductionKeeps ==
  ASSUME log \in Seq(Call), NEW E \in SUBSET ((DOMAIN log) \X (DOMAIN log)), Forwards(E)
  PROVE  /\ ~ \E e \in Reachability(Cleared(E)) : e[1] = e[2]
         /\ Reachability(TransitiveReduction(Cleared(E)) \union IntraEdges(Cleared(E))) =
              {p \in Paths(DOMAIN log, E) : IsOp(p[1]) /\ IsOp(p[2])}
<1>1. PICK N, G : N = DOMAIN log /\ G = Cleared(E)
  OBVIOUS
<1>2. N \in SUBSET Nat
  BY <1>1
<1>3. /\ G \in SUBSET (N \X N) /\ Forwards(G)
      /\ Paths(N, G) = {p \in Paths(N, E) : IsOp(p[1]) /\ IsOp(p[2])}
  BY <1>1, ClearedPaths
<1>4. /\ Reachability(G) = Paths(N, G) /\ Paths(N, G) \in SUBSET (N \X N) /\ Forwards(Paths(N, G))
  BY <1>1, <1>2, <1>3, ReachabilityIsPaths, ForwardPaths, PathsAreTransitive
<1>5. ASSUME NEW e \in Reachability(G) PROVE e[1] # e[2]
  <2>1. PICK a, b : e = <<a, b>> /\ a \in N /\ b \in N
    BY <1>4
  <2>2. a < b
    BY <1>4, <2>1 DEF Forwards
  <2>. QED BY <1>2, <2>1, <2>2
<1>6. PICK F : F = TransitiveReduction(G) \union IntraEdges(G)
  OBVIOUS
<1>7. F \in SUBSET (N \X N)
  BY <1>3, <1>6 DEF TransitiveReduction, IntraEdges
<1>8. Reachability(F) = Paths(N, F) /\ Paths(N, F) = Paths(N, G)
  BY <1>1, <1>3, <1>6, <1>7, ReachabilityIsPaths, ReducedPaths
<1>. QED BY <1>1, <1>3, <1>5, <1>6, <1>8

-----------------------------------------------------------------------------
(* Merging the receives removes the bodies of the calls that are left      *)
(* after the trimming, and nothing else.                                   *)
Merging == INSTANCE Folding WITH Op <- MergeReceive

Early(i) == \A k \in 1..i : log[k].kind # "op"
IsBody(i) == log[i].kind = "recv" /\ log[i].part = "body"
IsHeader(i) == log[i].kind = "recv" /\ log[i].part = "header"
Kept(i) == i \in DOMAIN log /\ ~ Early(i) /\ ~ IsBody(i)

LEMMA QuietMeans ==
  ASSUME StartsQuiet, NEW j \in DOMAIN log, log[j].msg # 0
  PROVE  Early(j) <=> Early(log[j].msg)
BY DEF StartsQuiet, Early

LEMMA TrimmedMeans ==
  ASSUME NEW s, NEW i
  PROVE  i \in Trimmed(s) <=> i \in DOMAIN log /\ log[i].svc = s /\ ~ Early(i)
BY DEF Trimmed, CallsOf, Early

(* The header of a body is left when the body is.                          *)
LEMMA HeaderStays ==
  ASSUME log \in Seq(Call), LogInv, StartsQuiet, NEW s, NEW i \in Trimmed(s), IsBody(i)
  PROVE  \E h \in Trimmed(s) : h < i /\ IsHeader(h) /\ HeaderOf(h, i, log[i].peer, s)
<1>1. i \in DOMAIN log /\ log[i].svc = s /\ ~ Early(i) /\ i \in Nat /\ i \in 1..Len(log)
  BY TrimmedMeans, Positions
<1>2. ReadOK(i)
  BY <1>1 DEF LogInv
<1>3. PICK h \in 1..(i - 1) : HeaderOf(h, i, log[i].peer, s)
  BY <1>1, <1>2 DEF ReadOK, IsBody
<1>4. log[i].msg # 0
  BY <1>1, <1>2 DEF ReadOK, IsBody
<1>5. h \in DOMAIN log /\ h < i
  BY <1>1, Positions
<1>6. Early(h) <=> Early(i)
  <2>1. log[h].msg = log[i].msg
    BY <1>3 DEF HeaderOf
  <2>. QED BY <1>1, <1>4, <1>5, <2>1, QuietMeans
<1>7. h \in Trimmed(s) /\ IsHeader(h)
  BY <1>1, <1>3, <1>5, <1>6, TrimmedMeans DEF HeaderOf, Got, IsHeader
<1>. QED BY <1>3, <1>5, <1>7

(* The receives of s after the calls until i: the bodies are gone, and a   *)
(* header that nothing of its peer followed waits.                         *)
MergedUntil(s, i) ==
  {acc \in [kept : SUBSET Trimmed(s), waiting : SUBSET {h \in Trimmed(s) : IsHeader(h)}] :
     /\ \A k \in Trimmed(s) : k \in acc.kept <=> ~ (k <= i /\ IsBody(k))
     /\ \A h \in Trimmed(s) :
          h <= i /\ IsHeader(h) /\ (\A k \in (h + 1)..i : ~ Got(k, log[h].peer, s))
            => h \in acc.waiting}

LEMMA MergedStep ==
  ASSUME log \in Seq(Call), LogInv, StartsQuiet, NEW s, NEW i \in DOMAIN log,
         NEW acc \in MergedUntil(s, i - 1)
  PROVE  MergeReceive(acc, i) \in MergedUntil(s, i)
<1>1. /\ acc = [kept |-> acc.kept, waiting |-> acc.waiting]
      /\ acc.kept \subseteq Trimmed(s)
      /\ \A h \in acc.waiting : h \in Trimmed(s) /\ IsHeader(h)
      /\ \A k \in Trimmed(s) : k \in acc.kept <=> ~ (k <= i - 1 /\ IsBody(k))
      /\ \A h \in Trimmed(s) :
           h <= i - 1 /\ IsHeader(h) /\ (\A k \in (h + 1)..(i - 1) : ~ Got(k, log[h].peer, s))
             => h \in acc.waiting
  BY DEF MergedUntil
<1>2. i \in Nat /\ i >= 1 /\ \A k \in Trimmed(s) : k \in Nat /\ (k <= i <=> k <= i - 1 \/ k = i)
  <2>1. \A k \in Trimmed(s) : k \in Nat
    BY TrimmedMeans, Positions
  <2>2. i \in Nat /\ i >= 1
    BY Positions
  <2>. QED BY <2>1, <2>2
<1>3. \A h \in Trimmed(s) : h <= i - 1 /\ (\A k \in (h + 1)..i : ~ Got(k, log[h].peer, s))
        => \A k \in (h + 1)..(i - 1) : ~ Got(k, log[h].peer, s)
  BY <1>2
<1>4. i \in acc.kept <=> i \in Trimmed(s)
  BY <1>1, <1>2
<1>5. PICK fromPeer : fromPeer = {h \in acc.waiting : log[h].peer = log[i].peer}
  OBVIOUS
<1>6. CASE i \notin Trimmed(s) \/ log[i].kind # "recv"
  <2>1. MergeReceive(acc, i) = acc
    BY <1>4, <1>6 DEF MergeReceive
  <2>2. \A k \in Trimmed(s) : k \in acc.kept <=> ~ (k <= i /\ IsBody(k))
    BY <1>1, <1>2, <1>6 DEF IsBody
  <2>3. \A h \in Trimmed(s) :
           h <= i /\ IsHeader(h) /\ (\A k \in (h + 1)..i : ~ Got(k, log[h].peer, s))
             => h \in acc.waiting
    BY <1>1, <1>2, <1>3, <1>6 DEF IsHeader
  <2>. QED BY <1>1, <2>1, <2>2, <2>3 DEF MergedUntil
<1>7. CASE i \in Trimmed(s) /\ IsHeader(i)
  <2>1. MergeReceive(acc, i) = [kept |-> acc.kept, waiting |-> acc.waiting \union {i}]
    BY <1>1, <1>4, <1>7 DEF MergeReceive, IsHeader
  <2>2. \A k \in Trimmed(s) : k \in acc.kept <=> ~ (k <= i /\ IsBody(k))
    BY <1>1, <1>2, <1>7 DEF IsBody, IsHeader
  <2>3. \A h \in Trimmed(s) :
           h <= i /\ IsHeader(h) /\ (\A k \in (h + 1)..i : ~ Got(k, log[h].peer, s))
             => h \in acc.waiting \union {i}
    BY <1>1, <1>2, <1>3
  <2>4. \A h \in acc.waiting \union {i} : h \in Trimmed(s) /\ IsHeader(h)
    BY <1>1, <1>7
  <2>5. PICK new : new = [kept |-> acc.kept, waiting |-> acc.waiting \union {i}]
    OBVIOUS
  <2>6. new \in MergedUntil(s, i)
    BY <1>1, <2>2, <2>3, <2>4, <2>5 DEF MergedUntil
  <2>. QED BY <2>1, <2>5, <2>6
<1>8. CASE i \in Trimmed(s) /\ log[i].kind = "recv" /\ log[i].part # "header"
  <2>0. i \in Trimmed(s) /\ log[i].svc = s /\ i \in DOMAIN log
    BY <1>8, TrimmedMeans
  <2>1. CASE fromPeer = {}
    <3>1. ~ IsBody(i)
      <4>. SUFFICES ASSUME IsBody(i) PROVE FALSE
        OBVIOUS
      <4>1. PICK h \in Trimmed(s) : h < i /\ IsHeader(h) /\ HeaderOf(h, i, log[i].peer, s)
        BY <2>0, HeaderStays
      <4>2. h <= i - 1 /\ log[h].peer = log[i].peer
        BY <1>2, <4>1 DEF HeaderOf, Got
      <4>3. h \in acc.waiting
        BY <1>1, <4>1, <4>2 DEF HeaderOf
      <4>. QED BY <1>5, <2>1, <4>2, <4>3
    <3>2. MergeReceive(acc, i) = acc
      BY <1>5, <1>8, <2>1 DEF MergeReceive
    <3>3. \A k \in Trimmed(s) : k \in acc.kept <=> ~ (k <= i /\ IsBody(k))
      BY <1>1, <1>2, <3>1
    <3>4. \A h \in Trimmed(s) :
             h <= i /\ IsHeader(h) /\ (\A k \in (h + 1)..i : ~ Got(k, log[h].peer, s))
               => h \in acc.waiting
      BY <1>1, <1>2, <1>3, <1>8 DEF IsHeader
    <3>. QED BY <1>1, <3>2, <3>3, <3>4 DEF MergedUntil
  <2>2. CASE fromPeer # {}
    <3>1. PICK first : first = Min(fromPeer)
      OBVIOUS
    <3>2. first \in fromPeer
      <4>1. fromPeer \in SUBSET Nat
        BY <1>1, <1>2, <1>5
      <4>2. \E x \in fromPeer : \A y \in fromPeer : x <= y
        BY <2>2, <4>1, Merging!Least
      <4>. QED BY <3>1, <4>2 DEF Min
    <3>3. IsBody(i)
      <4>1. first \in DOMAIN log /\ log[first].part = "header" /\ log[first].kind = "recv"
        BY <1>1, <1>5, <3>2, TrimmedMeans DEF IsHeader
      <4>2. ReadOK(first) /\ ReadOK(i)
        BY <4>1 DEF LogInv
      <4>3. program.headers
        BY <4>1, <4>2 DEF ReadOK, FramedFirst
      <4>. QED BY <1>8, <4>2, <4>3 DEF ReadOK, FramedFirst, IsBody
    <3>4. PICK new : new = [kept |-> acc.kept \ {i}, waiting |-> acc.waiting \ {first}]
      OBVIOUS
    <3>5. MergeReceive(acc, i) = new
      BY <1>4, <1>5, <1>8, <2>2, <3>1, <3>4 DEF MergeReceive
    <3>6. \A k \in Trimmed(s) : k \in acc.kept \ {i} <=> ~ (k <= i /\ IsBody(k))
      BY <1>1, <1>2, <3>3
    <3>7. ASSUME NEW h \in Trimmed(s), h <= i, IsHeader(h),
                 \A k \in (h + 1)..i : ~ Got(k, log[h].peer, s)
          PROVE  h \in acc.waiting \ {first}
      <4>1. h # i
        BY <1>8, <3>7 DEF IsHeader
      <4>2. h <= i - 1 /\ i \in (h + 1)..i
        BY <1>2, <3>7, <4>1
      <4>3. h \in acc.waiting
        BY <1>1, <1>3, <3>7, <4>2
      <4>4. log[h].peer # log[i].peer
        BY <1>8, <2>0, <3>7, <4>2 DEF Got
      <4>. QED BY <1>5, <3>2, <4>3, <4>4
    <3>8. \A h \in acc.waiting \ {first} : h \in Trimmed(s) /\ IsHeader(h)
      BY <1>1
    <3>9. new \in MergedUntil(s, i)
      BY <1>1, <3>4, <3>6, <3>7, <3>8 DEF MergedUntil
    <3>. QED BY <3>5, <3>9
  <2>. QED BY <2>1, <2>2
<1>. QED BY <1>6, <1>7, <1>8 DEF IsHeader

LEMMA WithoutBodiesKeeps ==
  ASSUME log \in Seq(Call), LogInv, StartsQuiet, NEW s
  PROVE  \A i : i \in WithoutBodies(Trimmed(s)) <=> Kept(i) /\ log[i].svc = s
<1>. DEFINE n == Len(log)
            Good == [i \in Nat |-> MergedUntil(s, i)]
<1>1. n \in Nat /\ DOMAIN log = 1..n /\ InOrder \in Seq(Nat) /\ Len(InOrder) = n
      /\ \A i \in 1..Len(InOrder) : InOrder[i] = i
  BY Positions
<1>2. PICK base : base = [kept |-> Trimmed(s), waiting |-> {}]
  OBVIOUS
<1>3. WithoutBodies(Trimmed(s)) = Merging!Fold(base, InOrder).kept
  BY <1>2 DEF WithoutBodies, FoldLeft, MapThenFoldSet, Max, Merging!Fold, Merging!FoldLeft,
              Merging!MapThenFoldSet, Merging!Max
<1>4. base \in Good[0]
  <2>1. \A k \in Trimmed(s) : ~ (k <= 0)
    BY <1>1, TrimmedMeans
  <2>2. base \in MergedUntil(s, 0)
    BY <1>2, <2>1 DEF MergedUntil
  <2>. QED BY <2>2
<1>5. \A i \in 1..Len(InOrder) : \A acc \in Good[i - 1] : MergeReceive(acc, InOrder[i]) \in Good[i]
  <2>. SUFFICES ASSUME NEW i \in 1..Len(InOrder), NEW acc \in Good[i - 1]
                PROVE  MergeReceive(acc, InOrder[i]) \in Good[i]
    OBVIOUS
  <2>1. i \in Nat /\ i - 1 \in Nat /\ InOrder[i] = i /\ i \in DOMAIN log
    BY <1>1
  <2>2. acc \in MergedUntil(s, i - 1)
    BY <2>1
  <2>3. MergeReceive(acc, i) \in MergedUntil(s, i)
    BY <2>1, <2>2, MergedStep
  <2>. QED BY <2>1, <2>3
<1>. HIDE DEF Good, n
<1>6. Merging!Fold(base, InOrder) \in Good[n]
  BY <1>1, <1>4, <1>5, Merging!FoldInvariant
<1>7. PICK acc \in MergedUntil(s, n) : acc = Merging!Fold(base, InOrder)
  BY <1>1, <1>6 DEF Good
<1>8. /\ acc.kept \subseteq Trimmed(s)
      /\ \A k \in Trimmed(s) : k \in acc.kept <=> ~ (k <= n /\ IsBody(k))
  BY <1>7 DEF MergedUntil
<1>9. \A k \in Trimmed(s) : k <= n
  BY <1>1, TrimmedMeans
<1>. QED BY <1>3, <1>7, <1>8, <1>9, TrimmedMeans DEF Kept

-----------------------------------------------------------------------------
(* Sends and receives are matched by their ranks; as no message is lost    *)
(* and none overtakes another, equal ranks are the same message.           *)
LEMMA RankOfImage ==
  ASSUME NEW S \in SUBSET Nat, NEW R \in SUBSET Nat, IsFiniteSet(R), NEW f \in [R -> S],
         \A i \in S : \E j \in R : f[j] = i,
         \A j, k \in R : j < k => f[j] < f[k],
         NEW j \in R
  PROVE  Rank(S, f[j]) = Rank(R, j)
<1>. DEFINE U == {k \in R : k <= j}
            V == {k \in S : k <= f[j]}
            g == [k \in U |-> f[k]]
<1>0. \A k, l \in R : k \in Nat /\ l \in Nat /\ f[k] \in Nat /\ f[l] \in Nat /\ (k = l \/ k < l \/ l < k)
  <2>1. \A k \in R : k \in Nat /\ f[k] \in Nat
    <3>1. \A k \in R : f[k] \in S
      OBVIOUS
    <3>. QED BY <3>1
  <2>2. \A k, l \in Nat : k = l \/ k < l \/ l < k
    OBVIOUS
  <2>. QED BY <2>1, <2>2
<1>1. \A k, l \in R : (k < l <=> f[k] < f[l]) /\ (k = l <=> f[k] = f[l])
  BY <1>0
<1>2. \A k \in R : k <= j <=> f[k] <= f[j]
  <2>1. \A k \in R : (k <= j <=> k < j \/ k = j) /\ (f[k] <= f[j] <=> f[k] < f[j] \/ f[k] = f[j])
    BY <1>0
  <2>. QED BY <1>1, <2>1
<1>3. \A k \in U : g[k] = f[k] /\ g[k] \in V
  BY <1>2
<1>4. \A y \in V : \E k \in U : g[k] = y
  <2>. SUFFICES ASSUME NEW y \in V PROVE \E k \in U : g[k] = y
    OBVIOUS
  <2>1. PICK k \in R : f[k] = y
    OBVIOUS
  <2>2. k \in U
    BY <1>2, <2>1
  <2>. QED BY <1>3, <2>1, <2>2
<1>5. \A k, l \in U : g[k] = g[l] => k = l
  BY <1>1, <1>3
<1>6. U \subseteq R /\ IsFiniteSet(U)
  BY FS_Subset
<1>7. g \in [U -> V]
  BY <1>3
<1>8. Rank(S, f[j]) = Cardinality(V) /\ Rank(R, j) = Cardinality(U)
  BY DEF Rank
<1>. HIDE DEF U, V, g
<1>9. g \in Bijection(U, V)
  BY <1>4, <1>5, <1>7 DEF Bijection, Injection, Surjection, IsInjective
<1>10. ExistsBijection(U, V)
  BY <1>9 DEF ExistsBijection
<1>11. Cardinality(V) = Cardinality(U)
  BY <1>6, <1>10, FS_Bijection
<1>. QED BY <1>8, <1>11

LEMMA RankGrows ==
  ASSUME NEW R \in SUBSET Nat, IsFiniteSet(R), NEW j \in R, NEW k \in R, j < k
  PROVE  Rank(R, j) # Rank(R, k)
<1>. DEFINE U == {x \in R : x <= j}
            V == {x \in R : x <= k}
<1>1. U \subseteq V /\ k \in V /\ k \notin U /\ V \subseteq R
  <2>1. \A x \in R : x \in Nat /\ (x <= j => x <= k)
    OBVIOUS
  <2>2. k <= k /\ ~ (k <= j)
    OBVIOUS
  <2>. QED BY <2>1, <2>2
<1>2. Rank(R, j) = Cardinality(U) /\ Rank(R, k) = Cardinality(V)
  BY DEF Rank
<1>. HIDE DEF U, V
<1>3. IsFiniteSet(V)
  BY <1>1, FS_Subset
<1>4. Cardinality(V) = Cardinality(U) => V = U
  BY <1>1, <1>3, FS_Subset
<1>. QED BY <1>1, <1>2, <1>4

LEMMA RanksAgree ==
  ASSUME NEW S \in SUBSET Nat, NEW R \in SUBSET Nat, IsFiniteSet(R), NEW f \in [R -> S],
         \A i \in S : \E j \in R : f[j] = i,
         \A j, k \in R : j < k => f[j] < f[k],
         NEW i \in S, NEW j \in R
  PROVE  Rank(S, i) = Rank(R, j) <=> i = f[j]
<1>1. PICK k \in R : f[k] = i
  OBVIOUS
<1>2. Rank(S, i) = Rank(R, k) /\ Rank(S, f[j]) = Rank(R, j)
  BY <1>1, RankOfImage
<1>3. k = j \/ k < j \/ j < k
  OBVIOUS
<1>4. Rank(R, k) = Rank(R, j) => k = j
  BY <1>3, RankGrows
<1>. QED BY <1>1, <1>2, <1>4

(* The log when it ends, and what was made of it.                          *)
Settled ==
  /\ log \in Seq(Call) /\ LogInv /\ StartsQuiet
  /\ \A p \in Services, s \in Services, i \in DOMAIN log :
       Sent(i, p, s) => \E j \in DOMAIN log : Opens(j, p, s) /\ log[j].msg = i
  /\ syscalls = CallsKept
  /\ correlated = Matched(syscalls)

LEMMA KeptCalls ==
  ASSUME Settled, NEW s \in Services
  PROVE  \A i : i \in syscalls[s] <=> Kept(i) /\ log[i].svc = s
BY WithoutBodiesKeeps DEF Settled, CallsKept

\* The message that the receive j opens, from another server.
Message(i, j) ==
  /\ Kept(i) /\ Kept(j) /\ log[j].kind = "recv" /\ log[j].peer # Client /\ log[j].msg = i

LEMMA MessageEnds ==
  ASSUME Settled, NEW j, Kept(j), log[j].kind = "recv", log[j].peer # Client
  PROVE  /\ Message(log[j].msg, j) /\ log[j].msg < j
         /\ Sent(log[j].msg, log[j].peer, log[j].svc)
         /\ log[j].peer \in Services /\ log[j].svc \in Services
<1>1. j \in DOMAIN log /\ ~ Early(j) /\ log \in Seq(Call) /\ LogInv /\ StartsQuiet
  BY DEF Kept, Settled
<1>2. ReadOK(j)
  BY <1>1 DEF LogInv
<1>3. log[j].msg \in 1..j /\ log[j].msg < j /\ Sent(log[j].msg, log[j].peer, log[j].svc)
  BY <1>2 DEF ReadOK
<1>4. log[j].msg \in DOMAIN log /\ log[j].msg # 0
  BY <1>1, <1>3, Positions
<1>5. ~ Early(log[j].msg)
  BY <1>1, <1>4, QuietMeans
<1>6. Kept(log[j].msg)
  BY <1>3, <1>4, <1>5 DEF Kept, IsBody, Sent
<1>7. log[j].peer \in Services /\ log[j].svc \in Services
  BY <1>1, CallFields DEF Peers
<1>. QED BY <1>3, <1>6, <1>7 DEF Message

LEMMA PairMatched ==
  ASSUME Settled, NEW s \in Services, NEW d \in Services,
         NEW i \in Sends(syscalls, s, d), NEW j \in Receives(syscalls, d, s)
  PROVE  Rank(Sends(syscalls, s, d), i) = Rank(Receives(syscalls, d, s), j) <=> log[j].msg = i
<1>. DEFINE S == Sends(syscalls, s, d)
            R == Receives(syscalls, d, s)
            f == [k \in R |-> log[k].msg]
<1>1. log \in Seq(Call) /\ LogInv /\ StartsQuiet /\ DOMAIN log \in SUBSET Nat
  BY Positions DEF Settled
<1>2. /\ \A k : k \in S <=> Kept(k) /\ Sent(k, s, d)
      /\ \A k : k \in R <=> Kept(k) /\ Got(k, s, d)
  BY KeptCalls DEF Sends, Receives, Sent, Got
<1>3. s # Client /\ d # Client
  BY ServicesAssumption
<1>. HIDE DEF S, R
<1>4. S \in SUBSET Nat /\ R \in SUBSET Nat /\ IsFiniteSet(R)
  <2>1. S \subseteq DOMAIN log /\ R \subseteq DOMAIN log
    BY <1>2 DEF Kept
  <2>2. IsFiniteSet(DOMAIN log)
    BY <1>1, Positions, FS_Interval
  <2>. QED BY <1>1, <2>1, <2>2, FS_Subset
<1>5. \A k \in R : f[k] = log[k].msg /\ f[k] \in S
  <2>. SUFFICES ASSUME NEW k \in R PROVE f[k] = log[k].msg /\ f[k] \in S
    OBVIOUS
  <2>1. Kept(k) /\ Got(k, s, d)
    BY <1>2
  <2>2. Message(log[k].msg, k) /\ Sent(log[k].msg, s, d)
    BY <1>3, <2>1, MessageEnds DEF Got
  <2>. QED BY <1>2, <2>2 DEF Message
<1>6. \A k \in S : \E l \in R : f[l] = k
  <2>. SUFFICES ASSUME NEW k \in S PROVE \E l \in R : f[l] = k
    OBVIOUS
  <2>1. Kept(k) /\ Sent(k, s, d) /\ k \in DOMAIN log
    BY <1>2 DEF Kept
  <2>2. PICK l \in DOMAIN log : Opens(l, s, d) /\ log[l].msg = k
    BY <2>1 DEF Settled
  <2>3. log[l].msg # 0
    BY <1>1, <2>1, <2>2, Positions
  <2>4. ~ Early(l)
    BY <1>1, <2>1, <2>2, <2>3, QuietMeans DEF Kept
  <2>5. l \in R
    BY <1>2, <2>2, <2>4 DEF Opens, Kept, IsBody
  <2>. QED BY <1>5, <2>2, <2>5
<1>7. \A k, l \in R : k < l => f[k] < f[l]
  <2>1. ReadInOrder(s, d)
    BY <1>1 DEF LogInv
  <2>2. \A k \in R : Opens(k, s, d) /\ k \in DOMAIN log
    BY <1>2 DEF Kept, IsBody, Opens, Got
  <2>. QED BY <1>5, <2>1, <2>2 DEF ReadInOrder
<1>8. i \in S /\ j \in R
  BY DEF S, R
<1>9. f \in [R -> S] /\ f[j] = log[j].msg
  BY <1>5, <1>8
<1>. HIDE DEF f
<1>10. Rank(S, i) = Rank(R, j) <=> i = f[j]
  BY <1>4, <1>6, <1>7, <1>8, <1>9, RanksAgree
<1>. QED BY <1>9, <1>10 DEF S, R

(* format_sendrecv matches exactly the messages.                           *)
LEMMA MatchesMessages ==
  ASSUME Settled
  PROVE  /\ \A i, j : <<i, j>> \in correlated <=> Message(i, j)
         /\ \A e \in correlated : e = <<e[1], e[2]>>
<1>1. correlated = Matched(syscalls)
  BY DEF Settled
<1>2. ASSUME NEW e \in correlated
      PROVE  \E i, j : e = <<i, j>> /\ Message(i, j)
  <2>1. PICK s \in Services, d \in Services :
          /\ e \in Sends(syscalls, s, d) \X Receives(syscalls, d, s)
          /\ Rank(Sends(syscalls, s, d), e[1]) = Rank(Receives(syscalls, d, s), e[2])
    BY <1>1 DEF Matched, MatchedPair
  <2>2. PICK i, j : e = <<i, j>> /\ i \in Sends(syscalls, s, d) /\ j \in Receives(syscalls, d, s)
    BY <2>1
  <2>3. log[j].msg = i
    BY <2>1, <2>2, PairMatched
  <2>4. Kept(j) /\ log[j].kind = "recv" /\ log[j].peer = s
    BY <2>2, KeptCalls DEF Receives
  <2>5. s # Client
    BY ServicesAssumption
  <2>6. Message(i, j)
    BY <2>3, <2>4, <2>5, MessageEnds
  <2>. QED BY <2>2, <2>6
<1>3. ASSUME NEW i, NEW j, Message(i, j) PROVE <<i, j>> \in correlated
  <2>1. Kept(i) /\ Kept(j) /\ log[j].kind = "recv" /\ log[j].peer # Client /\ log[j].msg = i
    BY <1>3 DEF Message
  <2>2. Sent(i, log[j].peer, log[j].svc) /\ log[j].peer \in Services /\ log[j].svc \in Services
    BY <2>1, MessageEnds
  <2>3. PICK s \in Services, d \in Services : s = log[j].peer /\ d = log[j].svc
    BY <2>2
  <2>4. i \in Sends(syscalls, s, d) /\ j \in Receives(syscalls, d, s)
    BY <2>1, <2>2, <2>3, KeptCalls DEF Sends, Receives, Sent
  <2>5. Rank(Sends(syscalls, s, d), i) = Rank(Receives(syscalls, d, s), j)
    BY <2>1, <2>4, PairMatched
  <2>6. <<i, j>> \in MatchedPair(syscalls, s, d)
    BY <2>4, <2>5 DEF MatchedPair
  <2>. QED BY <1>1, <2>6 DEF Matched
<1>. QED BY <1>2, <1>3

-----------------------------------------------------------------------------
(* The edges of the execution graph are causes, and they leave no path     *)
(* between two kept calls out.                                             *)
LEMMA KeptIs ==
  ASSUME Settled, NEW i, Kept(i)
  PROVE  i \in DOMAIN log /\ i \in Nat /\ i \in 1..Len(log) /\ Len(log) \in Nat
         /\ log[i].svc \in Services /\ log[i].peer \in Peers
         /\ log[i].kind \in {"op", "send", "recv"} /\ ~ Early(i) /\ ~ IsBody(i)
<1>1. i \in DOMAIN log /\ ~ Early(i) /\ ~ IsBody(i) /\ log \in Seq(Call)
  BY DEF Kept, Settled
<1>. QED BY <1>1, CallFields, Positions

LEMMA NodesKept == ASSUME Settled PROVE \A i : i \in Nodes <=> Kept(i)
<1>1. ASSUME NEW i \in Nodes PROVE Kept(i)
  <2>1. PICK s \in Services : i \in syscalls[s]
    BY DEF Nodes
  <2>. QED BY <2>1, KeptCalls
<1>2. ASSUME NEW i, Kept(i) PROVE i \in Nodes
  <2>1. PICK s \in Services : s = log[i].svc
    BY <1>2, KeptIs
  <2>2. i \in syscalls[s]
    BY <1>2, <2>1, KeptCalls
  <2>. QED BY <2>2 DEF Nodes
<1>. QED BY <1>1, <1>2

(* What is not matched is communication with the client.                   *)
LEMMA ClientCallsAre ==
  ASSUME Settled, NEW kind \in {"send", "recv"}
  PROVE  \A i : i \in ClientCalls(kind) <=> Kept(i) /\ log[i].kind = kind /\ log[i].peer = Client
<1>. DEFINE Partner(i) == (\E j : Message(i, j)) \/ (\E k : Message(k, i))
<1>1. \A i : i \in {c[1] : c \in correlated} \union {c[2] : c \in correlated} <=> Partner(i)
  <2>1. ASSUME NEW i, i \in {c[1] : c \in correlated} \union {c[2] : c \in correlated} PROVE Partner(i)
    <3>1. PICK c \in correlated : i = c[1] \/ i = c[2]
      BY <2>1
    <3>2. Message(c[1], c[2])
      BY MatchesMessages
    <3>. QED BY <3>1, <3>2
  <2>2. ASSUME NEW i, NEW j, Message(i, j)
        PROVE  /\ i \in {c[1] : c \in correlated} \union {c[2] : c \in correlated}
               /\ j \in {c[1] : c \in correlated} \union {c[2] : c \in correlated}
    <3>1. <<i, j>> \in correlated /\ <<i, j>>[1] = i /\ <<i, j>>[2] = j
      BY <2>2, MatchesMessages
    <3>. QED BY <3>1
  <2>. QED BY <2>1, <2>2
<1>2. \A i : i \in ClientCalls(kind) <=> Kept(i) /\ ~ Partner(i) /\ log[i].kind = kind
  BY <1>1, NodesKept DEF ClientCalls
<1>3. ASSUME NEW i, Kept(i), log[i].kind = kind PROVE Partner(i) <=> log[i].peer # Client
  <2>1. CASE kind = "recv"
    <3>1. ASSUME NEW j PROVE ~ Message(i, j)
      BY <1>3, <2>1, MessageEnds DEF Message, Sent
    <3>2. log[i].peer # Client => Message(log[i].msg, i)
      BY <1>3, <2>1, MessageEnds
    <3>. QED BY <3>1, <3>2 DEF Message
  <2>2. CASE kind = "send"
    <3>1. \A k : ~ Message(k, i)
      BY <1>3, <2>2 DEF Message
    <3>2. ASSUME NEW j, Message(i, j) PROVE log[i].peer # Client
      <4>1. Sent(i, log[j].peer, log[j].svc) /\ log[j].svc \in Services
        BY <3>2, MessageEnds DEF Message
      <4>. QED BY <4>1, ServicesAssumption DEF Sent
    <3>3. ASSUME log[i].peer # Client PROVE \E j : Message(i, j)
      <4>1. PICK p \in Services, s \in Services : Sent(i, p, s)
        BY <1>3, <2>2, <3>3, KeptIs DEF Sent, Peers
      <4>2. i \in DOMAIN log /\ i \in Nat /\ i # 0 /\ ~ Early(i) /\ StartsQuiet
        BY <1>3, KeptIs DEF Settled
      <4>3. PICK j \in DOMAIN log : Opens(j, p, s) /\ log[j].msg = i
        BY <4>1, <4>2 DEF Settled
      <4>4. ~ Early(j)
        BY <4>2, <4>3, QuietMeans
      <4>5. p # Client
        BY ServicesAssumption
      <4>. QED BY <1>3, <4>3, <4>4, <4>5 DEF Message, Kept, Opens, Got, IsBody
    <3>. QED BY <3>1, <3>2, <3>3
  <2>. QED BY <2>1, <2>2
<1>. QED BY <1>2, <1>3

LEMMA ChainEdges ==
  ASSUME Settled
  PROVE  /\ \A a, b : <<a, b>> \in Chains <=>
              /\ Kept(a) /\ Kept(b) /\ log[a].svc = log[b].svc /\ a < b
              /\ ~ \E k : Kept(k) /\ log[k].svc = log[a].svc /\ a < k /\ k < b
         /\ \A e \in Chains : e = <<e[1], e[2]>>
<1>1. ASSUME NEW e \in Chains
      PROVE  \E s \in Services : \E a, b :
                /\ e = <<a, b>> /\ a \in syscalls[s] /\ b \in syscalls[s] /\ a < b
                /\ ~ \E k \in syscalls[s] : a < k /\ k < b
  <2>1. PICK s \in Services : e \in Chained(syscalls[s])
    BY DEF Chains
  <2>2. PICK a, b : e = <<a, b>> /\ a \in syscalls[s] /\ b \in syscalls[s]
    BY <2>1 DEF Chained
  <2>3. a < b /\ ~ \E k \in syscalls[s] : a < k /\ k < b
    BY <2>1, <2>2 DEF Chained
  <2>. QED BY <2>2, <2>3
<1>2. ASSUME NEW a, NEW b, Kept(a), Kept(b), log[a].svc = log[b].svc, a < b,
             ~ \E k : Kept(k) /\ log[k].svc = log[a].svc /\ a < k /\ k < b
      PROVE  <<a, b>> \in Chains
  <2>1. PICK s \in Services : s = log[a].svc
    BY <1>2, KeptIs
  <2>2. a \in syscalls[s] /\ b \in syscalls[s] /\ ~ \E k \in syscalls[s] : a < k /\ k < b
    BY <1>2, <2>1, KeptCalls
  <2>3. <<a, b>> \in Chained(syscalls[s])
    BY <1>2, <2>2 DEF Chained
  <2>. QED BY <2>3 DEF Chains
<1>3. ASSUME NEW a, NEW b, <<a, b>> \in Chains
      PROVE  /\ Kept(a) /\ Kept(b) /\ log[a].svc = log[b].svc /\ a < b
             /\ ~ \E k : Kept(k) /\ log[k].svc = log[a].svc /\ a < k /\ k < b
  <2>1. PICK s \in Services : a \in syscalls[s] /\ b \in syscalls[s] /\ a < b
                              /\ ~ \E k \in syscalls[s] : a < k /\ k < b
    BY <1>1, <1>3
  <2>. QED BY <2>1, KeptCalls
<1>. QED BY <1>1, <1>2, <1>3

\* j is the last call to the client of its service before i.
LastBefore(j, i) ==
  j < i /\ ~ \E k \in ClientCalls("send") : log[k].svc = log[j].svc /\ j < k /\ k < i

LEMMA ClientEdgesAre ==
  /\ \A j, i : <<j, i>> \in ClientEdges <=>
       /\ j \in ClientCalls("send") /\ i \in ClientCalls("recv")
       /\ log[j].svc # log[i].svc /\ LastBefore(j, i)
       /\ ~ \E k \in ClientCalls("recv") : k < i /\ log[k].svc = log[i].svc /\ LastBefore(j, k)
  /\ \A e \in ClientEdges : e = <<e[1], e[2]>>
BY DEF ClientEdges, LastBefore

LEMMA CausesAre ==
  \A a, b : <<a, b>> \in Causes <=>
    /\ a \in DOMAIN log /\ b \in DOMAIN log /\ a < b
    /\ \/ log[a].svc = log[b].svc
       \/ log[b].msg = a
       \/ /\ log[a].kind = "send" /\ log[b].kind = "recv" /\ log[b].part # "body"
          /\ log[a].peer = Client /\ log[b].peer = Client
BY DEF Causes

(* Every edge is a cause, so the edges go forward.                         *)
LEMMA EdgesAreCauses ==
  ASSUME Settled
  PROVE  /\ Linked \in SUBSET ((DOMAIN log) \X (DOMAIN log)) /\ Forwards(Linked)
         /\ Linked \subseteq Causes
<1>1. ASSUME NEW e \in Linked
      PROVE  \E a, b : /\ e = <<a, b>> /\ Kept(a) /\ Kept(b) /\ a < b
                       /\ <<a, b>> \in Causes
  <2>1. CASE e \in Chains
    <3>1. PICK a, b : e = <<a, b>>
      BY <2>1, ChainEdges
    <3>2. Kept(a) /\ Kept(b) /\ log[a].svc = log[b].svc /\ a < b
      BY <2>1, <3>1, ChainEdges
    <3>. QED BY <3>1, <3>2, KeptIs, CausesAre
  <2>2. CASE e \in correlated
    <3>1. PICK a, b : e = <<a, b>>
      BY <2>2, MatchesMessages
    <3>2. Message(a, b)
      BY <2>2, <3>1, MatchesMessages
    <3>3. Kept(a) /\ Kept(b) /\ log[b].msg = a /\ a < b
      BY <3>2, MessageEnds DEF Message
    <3>. QED BY <3>1, <3>3, KeptIs, CausesAre
  <2>3. CASE e \in ClientEdges
    <3>1. PICK a, b : e = <<a, b>>
      BY <2>3, ClientEdgesAre
    <3>2. a \in ClientCalls("send") /\ b \in ClientCalls("recv") /\ a < b
      BY <2>3, <3>1, ClientEdgesAre DEF LastBefore
    <3>3. Kept(a) /\ log[a].kind = "send" /\ log[a].peer = Client
      BY <3>2, ClientCallsAre
    <3>4. Kept(b) /\ log[b].kind = "recv" /\ log[b].peer = Client
      BY <3>2, ClientCallsAre
    <3>5. log[b].part # "body"
      BY <3>4, KeptIs DEF IsBody
    <3>. QED BY <3>1, <3>2, <3>3, <3>4, <3>5, KeptIs, CausesAre
  <2>. QED BY <2>1, <2>2, <2>3 DEF Linked
<1>2. ASSUME NEW e \in Linked PROVE e \in (DOMAIN log) \X (DOMAIN log) /\ e \in Causes
  <2>1. PICK a, b : e = <<a, b>> /\ Kept(a) /\ Kept(b) /\ <<a, b>> \in Causes
    BY <1>1
  <2>. QED BY <2>1, KeptIs
<1>3. ASSUME NEW a, NEW b, <<a, b>> \in Linked PROVE a < b
  <2>1. PICK x, y : <<a, b>> = <<x, y>> /\ x < y
    BY <1>1, <1>3
  <2>2. a = x /\ b = y
    BY <2>1
  <2>. QED BY <2>1, <2>2
<1>. QED BY <1>2, <1>3 DEF Forwards

(* Two kept calls of one server are joined by its chain.                   *)
LEMMA ChainPaths ==
  ASSUME Settled, NEW a, NEW b, Kept(a), Kept(b), log[a].svc = log[b].svc, a < b
  PROVE  <<a, b>> \in Paths(DOMAIN log, Linked)
<1>. DEFINE P == Paths(DOMAIN log, Linked)
            S == {k \in Nat : \A x, y : /\ Kept(x) /\ Kept(y) /\ log[x].svc = log[y].svc
                                        /\ x < y /\ y - x <= k
                                        => <<x, y>> \in P}
<1>1. Linked \subseteq P /\ Transitive(P)
  BY EdgesAreCauses, PathsAreTransitive
<1>2. \A i : Kept(i) => i \in Nat
  BY KeptIs
<1>. HIDE DEF P
<1>3. 0 \in S
  <2>1. ASSUME NEW x, NEW y, Kept(x), Kept(y), x < y, y - x <= 0 PROVE FALSE
    <3>1. x \in Nat /\ y \in Nat
      BY <1>2, <2>1
    <3>. QED BY <2>1, <3>1
  <2>. QED BY <2>1
<1>4. ASSUME NEW k \in Nat, k \in S PROVE k + 1 \in S
  <2>. SUFFICES ASSUME NEW x, NEW y, Kept(x), Kept(y), log[x].svc = log[y].svc, x < y, y - x <= k + 1
                PROVE  <<x, y>> \in P
    OBVIOUS
  <2>1. CASE \E c : Kept(c) /\ log[c].svc = log[x].svc /\ x < c /\ c < y
    <3>1. PICK c : Kept(c) /\ log[c].svc = log[x].svc /\ x < c /\ c < y
      BY <2>1
    <3>2. x \in Nat /\ c \in Nat /\ y \in Nat
      BY <1>2, <3>1
    <3>3. c - x <= k /\ y - c <= k
      BY <3>1, <3>2
    <3>4. <<x, c>> \in P /\ <<c, y>> \in P
      BY <1>4, <3>1, <3>3
    <3>. QED BY <1>1, <3>4 DEF Transitive
  <2>2. CASE ~ \E c : Kept(c) /\ log[c].svc = log[x].svc /\ x < c /\ c < y
    <3>1. <<x, y>> \in Chains
      BY <2>2, ChainEdges
    <3>. QED BY <1>1, <3>1 DEF Linked
  <2>. QED BY <2>1, <2>2
<1>. HIDE DEF S
<1>5. \A k \in Nat : k \in S
  BY <1>3, <1>4, Closing!Inductive
<1>6. a \in Nat /\ b \in Nat /\ b - a \in Nat /\ b - a <= b - a
  BY <1>2
<1>7. <<a, b>> \in P
  BY <1>5, <1>6 DEF S
<1>. QED BY <1>7 DEF P

(* What a server is asked by the client after an answer to it is joined to *)
(* the answer, over the last answer of the one server and the first        *)
(* question to the other that knows of it.                                 *)
LEMMA ClientPaths ==
  ASSUME Settled, NEW a \in ClientCalls("send"), NEW b \in ClientCalls("recv"), a < b
  PROVE  <<a, b>> \in Paths(DOMAIN log, Linked)
<1>. DEFINE P == Paths(DOMAIN log, Linked)
<1>1. Linked \subseteq P /\ Transitive(P)
  BY EdgesAreCauses, PathsAreTransitive
<1>2. \A i \in ClientCalls("send") : Kept(i) /\ i \in Nat /\ i \in 1..Len(log)
  BY ClientCallsAre, KeptIs
<1>3. \A i \in ClientCalls("recv") : Kept(i) /\ i \in Nat /\ i \in 1..Len(log)
  BY ClientCallsAre, KeptIs
<1>. HIDE DEF P
<1>4. CASE log[a].svc = log[b].svc
  BY <1>2, <1>3, <1>4, ChainPaths DEF P
<1>5. CASE log[a].svc # log[b].svc
  <2>. DEFINE T == {k \in ClientCalls("send") : log[k].svc = log[a].svc /\ k < b}
  <2>1. PICK last \in T : \A k \in T : last >= k
    <3>1. T \in SUBSET (1..Len(log)) /\ a \in T /\ Len(log) \in Nat
      BY <1>2, KeptIs
    <3>. HIDE DEF T
    <3>. QED BY <3>1, Closing!LargestOf
  <2>2. /\ last \in ClientCalls("send") /\ log[last].svc = log[a].svc /\ last < b /\ last >= a
        /\ last \in Nat /\ a \in Nat /\ b \in Nat
    BY <1>2, <1>3, <2>1
  <2>3. LastBefore(last, b)
    <3>1. ASSUME NEW k \in ClientCalls("send"), log[k].svc = log[last].svc, last < k, k < b PROVE FALSE
      <4>1. k \in T /\ k \in Nat
        BY <1>2, <2>2, <3>1
      <4>2. last >= k
        BY <2>1, <4>1
      <4>. QED BY <2>2, <3>1, <4>1, <4>2
    <3>. QED BY <2>2, <3>1 DEF LastBefore
  <2>. DEFINE U == {k \in ClientCalls("recv") : k <= b /\ log[k].svc = log[b].svc /\ LastBefore(last, k)}
  <2>4. PICK first \in U : \A k \in U : first <= k
    <3>1. b <= b
      BY <2>2
    <3>2. U \in SUBSET Nat /\ b \in U
      BY <1>3, <2>3, <3>1
    <3>. HIDE DEF U
    <3>. QED BY <3>2, Closing!Least
  <2>5. /\ first \in ClientCalls("recv") /\ first <= b /\ log[first].svc = log[b].svc
        /\ LastBefore(last, first) /\ first \in Nat
    BY <1>3, <2>4
  <2>6. ~ \E k \in ClientCalls("recv") : k < first /\ log[k].svc = log[first].svc /\ LastBefore(last, k)
    <3>. SUFFICES ASSUME NEW k \in ClientCalls("recv"), k < first, log[k].svc = log[first].svc,
                         LastBefore(last, k)
                  PROVE  FALSE
      OBVIOUS
    <3>1. k \in Nat
      BY <1>3
    <3>2. k <= b
      BY <2>2, <2>5, <3>1
    <3>3. k \in U
      BY <2>5, <3>2
    <3>4. first <= k
      BY <2>4, <3>3
    <3>. QED BY <2>5, <3>1, <3>4
  <2>7. <<last, first>> \in P
    <3>1. <<last, first>> \in ClientEdges
      BY <1>5, <2>2, <2>5, <2>6, ClientEdgesAre
    <3>. QED BY <1>1, <3>1 DEF Linked
  <2>8. a = last \/ <<a, last>> \in P
    <3>1. a = last \/ a < last
      BY <2>2
    <3>. QED BY <1>2, <2>2, <3>1, ChainPaths DEF P
  <2>9. first = b \/ <<first, b>> \in P
    <3>1. first = b \/ first < b
      BY <2>2, <2>5
    <3>. QED BY <1>3, <2>5, <3>1, ChainPaths DEF P
  <2>10. <<a, first>> \in P
    BY <1>1, <2>7, <2>8 DEF Transitive
  <2>11. <<a, b>> \in P
    BY <1>1, <2>9, <2>10 DEF Transitive
  <2>. QED BY <2>11 DEF P
<1>. QED BY <1>4, <1>5

-----------------------------------------------------------------------------
(* A cause of a call that is not kept is a cause of the kept calls of its  *)
(* server around it.  So the pairs below hold all causes, are transitive,  *)
(* and have only paths of the graph between kept calls.                    *)
Upon(x, a) == Kept(x) /\ log[x].svc = log[a].svc /\ a <= x
Below(y, b) == Kept(y) /\ log[y].svc = log[b].svc /\ y <= b

Joined(x, y) == x = y \/ <<x, y>> \in Paths(DOMAIN log, Linked)

Leads(a, b) ==
  Early(a) \/ log[a].svc = log[b].svc \/ \E x, y : Upon(x, a) /\ Below(y, b) /\ Joined(x, y)

LeadsTo == {e \in (DOMAIN log) \X (DOMAIN log) : e[1] < e[2] /\ Leads(e[1], e[2])}

LEMMA LeadsToMeans ==
  /\ LeadsTo \in SUBSET ((DOMAIN log) \X (DOMAIN log))
  /\ \A a, b : <<a, b>> \in LeadsTo <=> a \in DOMAIN log /\ b \in DOMAIN log /\ a < b /\ Leads(a, b)
BY DEF LeadsTo

LEMMA JoinedIs ==
  ASSUME Settled
  PROVE  /\ \A x, y, z : Joined(x, y) /\ Joined(y, z) => Joined(x, z)
         /\ \A x, y : Kept(x) /\ Kept(y) /\ log[x].svc = log[y].svc /\ x <= y => Joined(x, y)
<1>1. \A x, y, z : Joined(x, y) /\ Joined(y, z) => Joined(x, z)
  <2>1. Transitive(Paths(DOMAIN log, Linked))
    BY EdgesAreCauses, PathsAreTransitive
  <2>. QED BY <2>1 DEF Joined, Transitive
<1>2. ASSUME NEW x, NEW y, Kept(x), Kept(y), log[x].svc = log[y].svc, x <= y PROVE Joined(x, y)
  <2>1. x \in Nat /\ y \in Nat
    BY <1>2, KeptIs
  <2>2. x = y \/ x < y
    BY <1>2, <2>1
  <2>. QED BY <1>2, <2>2, ChainPaths DEF Joined
<1>. QED BY <1>1, <1>2

LEMMA KeptNat == ASSUME Settled PROVE \A i : Kept(i) => i \in Nat
BY KeptIs

LEMMA LeadsToTransitive == ASSUME Settled PROVE Transitive(LeadsTo)
<1>. SUFFICES ASSUME NEW a, NEW b, NEW c, <<a, b>> \in LeadsTo, <<b, c>> \in LeadsTo
              PROVE  <<a, c>> \in LeadsTo
  BY DEF Transitive
<1>1. /\ a \in DOMAIN log /\ b \in DOMAIN log /\ c \in DOMAIN log
      /\ a < b /\ b < c /\ Leads(a, b) /\ Leads(b, c)
  BY LeadsToMeans
<1>2. a \in Nat /\ b \in Nat /\ c \in Nat
  BY <1>1, Positions DEF Settled
<1>3. a < c
  BY <1>1, <1>2
<1>4. Leads(a, c)
  <2>. SUFFICES ASSUME ~ Early(a) PROVE Leads(a, c)
    BY DEF Leads
  <2>1. ~ Early(b)
    BY <1>1, <1>2 DEF Early
  <2>2. ASSUME NEW x, Upon(x, b), log[a].svc = log[b].svc PROVE Upon(x, a)
    <3>1. x \in Nat
      BY <2>2, KeptNat DEF Upon
    <3>. QED BY <1>1, <1>2, <2>2, <3>1 DEF Upon
  <2>3. ASSUME NEW y, Below(y, b), log[b].svc = log[c].svc PROVE Below(y, c)
    <3>1. y \in Nat
      BY <2>3, KeptNat DEF Below
    <3>. QED BY <1>1, <1>2, <2>3, <3>1 DEF Below
  <2>4. CASE log[a].svc = log[b].svc
    BY <1>1, <2>1, <2>2, <2>4 DEF Leads
  <2>5. CASE log[a].svc # log[b].svc
    <3>1. PICK x, y : Upon(x, a) /\ Below(y, b) /\ Joined(x, y)
      BY <1>1, <2>5 DEF Leads
    <3>2. CASE log[b].svc = log[c].svc
      BY <2>3, <3>1, <3>2 DEF Leads
    <3>3. CASE log[b].svc # log[c].svc
      <4>1. PICK u, v : Upon(u, b) /\ Below(v, c) /\ Joined(u, v)
        BY <1>1, <2>1, <3>3 DEF Leads
      <4>2. Kept(y) /\ Kept(u) /\ log[y].svc = log[u].svc /\ y <= u
        <5>1. Kept(y) /\ Kept(u) /\ log[y].svc = log[u].svc /\ y <= b /\ b <= u
          BY <3>1, <4>1 DEF Upon, Below
        <5>2. y \in Nat /\ u \in Nat
          BY <5>1, KeptNat
        <5>. QED BY <1>2, <5>1, <5>2
      <4>3. Joined(x, v)
        BY <3>1, <4>1, <4>2, JoinedIs
      <4>. QED BY <3>1, <4>1, <4>3 DEF Leads
    <3>. QED BY <3>2, <3>3
  <2>. QED BY <2>4, <2>5
<1>. QED BY <1>1, <1>3, <1>4, LeadsToMeans

LEMMA LeadsToCauses == ASSUME Settled PROVE Causes \subseteq LeadsTo
<1>0. Causes \in SUBSET ((DOMAIN log) \X (DOMAIN log)) /\ log \in Seq(Call) /\ LogInv /\ StartsQuiet
  BY DEF Causes, Settled
<1>. SUFFICES ASSUME NEW a, NEW b, <<a, b>> \in Causes PROVE Leads(a, b)
  <2>1. ASSUME NEW e \in Causes PROVE e \in LeadsTo
    <3>1. PICK a, b : e = <<a, b>>
      BY <1>0
    <3>2. Leads(a, b)
      BY <3>1
    <3>. QED BY <3>1, <3>2, CausesAre, LeadsToMeans
  <2>. QED BY <2>1
<1>1. /\ a \in DOMAIN log /\ b \in DOMAIN log /\ a < b
      /\ \/ log[a].svc = log[b].svc
         \/ log[b].msg = a
         \/ /\ log[a].kind = "send" /\ log[b].kind = "recv" /\ log[b].part # "body"
            /\ log[a].peer = Client /\ log[b].peer = Client
  BY CausesAre
<1>2. a \in Nat /\ b \in Nat /\ a >= 1 /\ Len(log) \in Nat /\ DOMAIN log = 1..Len(log)
  BY <1>0, <1>1, Positions
<1>. SUFFICES ASSUME ~ Early(a) PROVE Leads(a, b)
  BY DEF Leads
<1>3. ~ Early(b)
  BY <1>1, <1>2 DEF Early
<1>4. CASE log[a].svc = log[b].svc
  BY <1>4 DEF Leads
<1>5. CASE log[b].msg = a
  <2>1. ReadOK(b) /\ log[b].kind = "recv"
    <3>1. ReadOK(b)
      BY <1>0, <1>1 DEF LogInv
    <3>2. log[b].kind # "recv" => log[b].msg = 0
      BY <3>1 DEF ReadOK
    <3>. QED BY <1>2, <1>5, <3>1, <3>2
  <2>2. CASE log[b].part = "body"
    <3>1. PICK h \in 1..(b - 1) : HeaderOf(h, b, log[b].peer, log[b].svc)
      BY <2>1, <2>2 DEF ReadOK
    <3>2. h \in DOMAIN log /\ h \in Nat /\ h <= b /\ log[h].msg = a
      BY <1>1, <1>2, <1>5, <3>1 DEF HeaderOf
    <3>3. log[h].kind = "recv" /\ log[h].part = "header" /\ log[h].svc = log[b].svc /\ log[h].peer = log[b].peer
      BY <3>1 DEF HeaderOf, Got
    <3>4. ReadOK(h)
      BY <1>0, <3>2 DEF LogInv
    <3>5. CASE log[b].peer = Client
      <4>1. h = a
        BY <3>2, <3>3, <3>4, <3>5 DEF ReadOK
      <4>. QED BY <3>3, <4>1 DEF Leads
    <3>6. CASE log[b].peer # Client
      <4>1. ~ Early(h)
        BY <1>0, <1>2, <3>2, QuietMeans
      <4>2. Kept(h)
        BY <3>2, <3>3, <4>1 DEF Kept, IsBody
      <4>3. Message(a, h)
        BY <3>2, <3>3, <3>6, <4>2, MessageEnds
      <4>4. Joined(a, h)
        BY <4>3, MatchesMessages, EdgesAreCauses, PathsAreTransitive DEF Joined, Linked
      <4>5. Upon(a, a) /\ Below(h, b)
        BY <1>2, <3>2, <3>3, <4>2, <4>3 DEF Upon, Below, Message
      <4>. QED BY <4>4, <4>5 DEF Leads
    <3>. QED BY <3>5, <3>6
  <2>3. CASE log[b].part # "body"
    <3>1. CASE log[b].peer = Client
      BY <1>1, <1>2, <1>5, <2>1, <2>3, <3>1 DEF ReadOK
    <3>2. CASE log[b].peer # Client
      <4>1. Kept(b)
        BY <1>1, <1>3, <2>3 DEF Kept, IsBody
      <4>2. Message(a, b)
        BY <1>5, <2>1, <3>2, <4>1, MessageEnds
      <4>3. Joined(a, b)
        BY <4>2, MatchesMessages, EdgesAreCauses, PathsAreTransitive DEF Joined, Linked
      <4>4. Upon(a, a) /\ Below(b, b)
        BY <1>2, <4>1, <4>2 DEF Upon, Below, Message
      <4>. QED BY <4>3, <4>4 DEF Leads
    <3>. QED BY <3>1, <3>2
  <2>. QED BY <2>2, <2>3
<1>6. CASE /\ log[a].kind = "send" /\ log[b].kind = "recv" /\ log[b].part # "body"
           /\ log[a].peer = Client /\ log[b].peer = Client
  <2>1. Kept(a) /\ Kept(b)
    BY <1>1, <1>3, <1>6 DEF Kept, IsBody
  <2>2. a \in ClientCalls("send")
    BY <1>6, <2>1, ClientCallsAre
  <2>3. b \in ClientCalls("recv")
    BY <1>6, <2>1, ClientCallsAre
  <2>4. Joined(a, b)
    BY <1>1, <2>2, <2>3, ClientPaths DEF Joined
  <2>5. Upon(a, a) /\ Below(b, b)
    BY <1>2, <2>1 DEF Upon, Below
  <2>. QED BY <2>4, <2>5 DEF Leads
<1>. QED BY <1>1, <1>4, <1>5, <1>6

(* Between file system calls, the graph has the paths of the causes.       *)
LEMMA PathsAreCauses ==
  ASSUME Settled
  PROVE  {p \in Paths(DOMAIN log, Linked) : IsOp(p[1]) /\ IsOp(p[2])} =
           {p \in Reachability(Causes) : IsOp(p[1]) /\ IsOp(p[2])}
<1>1. PICK N, P, Q : N = DOMAIN log /\ P = Paths(N, Linked) /\ Q = Paths(N, Causes)
  OBVIOUS
<1>2. /\ log \in Seq(Call) /\ Causes \in SUBSET (N \X N) /\ Linked \in SUBSET (N \X N)
      /\ Linked \subseteq Causes
  BY <1>1, EdgesAreCauses DEF Causes, Settled
<1>3. Reachability(Causes) = Q
  BY <1>1, <1>2, ReachabilityIsPaths
<1>4. P \subseteq Q /\ Q \in SUBSET (N \X N)
  <2>1. Linked \subseteq Q /\ Q \in SUBSET (N \X N)
    BY <1>1, <1>2, PathsAreTransitive
  <2>. QED BY <1>1, <1>2, <2>1, PathsGrow
<1>5. Q \subseteq LeadsTo
  <2>1. LeadsTo \in SUBSET (N \X N)
    BY <1>1, LeadsToMeans
  <2>. QED BY <1>1, <2>1, LeadsToTransitive, LeadsToCauses, PathsAreLeast
<1>6. ASSUME NEW a, NEW b, <<a, b>> \in Q, IsOp(a), IsOp(b) PROVE <<a, b>> \in P
  <2>1. a \in DOMAIN log /\ b \in DOMAIN log /\ a < b /\ Leads(a, b)
    BY <1>5, <1>6, LeadsToMeans
  <2>2. a \in Nat /\ b \in Nat /\ a \in 1..a /\ b \in 1..b
    BY <1>2, <2>1, Positions
  <2>3. Kept(a) /\ Kept(b)
    BY <1>6, <2>1, <2>2 DEF Kept, Early, IsBody, IsOp
  <2>4. Joined(a, b)
    <3>1. CASE log[a].svc = log[b].svc
      BY <2>1, <2>2, <2>3, <3>1, JoinedIs
    <3>2. CASE log[a].svc # log[b].svc
      <4>1. PICK x, y : Upon(x, a) /\ Below(y, b) /\ Joined(x, y)
        BY <2>1, <2>3, <3>2 DEF Leads, Kept
      <4>2. Joined(a, x) /\ Joined(y, b)
        BY <2>3, <4>1, JoinedIs DEF Upon, Below
      <4>. QED BY <4>1, <4>2, JoinedIs
    <3>. QED BY <3>1, <3>2
  <2>5. a # b
    BY <2>1, <2>2
  <2>. QED BY <1>1, <2>4, <2>5 DEF Joined
<1>7. \A p \in Q : p = <<p[1], p[2]>>
  BY <1>4
<1>8. PICK left, right : /\ left = {p \in P : IsOp(p[1]) /\ IsOp(p[2])}
                         /\ right = {p \in Q : IsOp(p[1]) /\ IsOp(p[2])}
  OBVIOUS
<1>9. left = right
  <2>1. ASSUME NEW p \in right PROVE p \in P
    <3>1. p \in Q /\ IsOp(p[1]) /\ IsOp(p[2])
      BY <1>8
    <3>2. <<p[1], p[2]>> \in Q
      BY <1>7, <3>1
    <3>3. <<p[1], p[2]>> \in P
      BY <1>6, <3>1, <3>2
    <3>. QED BY <1>7, <3>1, <3>3
  <2>. QED BY <1>4, <1>8, <2>1
<1>. QED BY <1>1, <1>3, <1>8, <1>9

LEMMA SettledWhenParsed ==
  ASSUME IInv, phase # "running", StartsQuiet
  PROVE  Settled
<1>1. \A p \in Services, s \in Services, i \in DOMAIN log :
        Sent(i, p, s) => \E j \in DOMAIN log : Opens(j, p, s) /\ log[j].msg = i
  <2>. SUFFICES ASSUME NEW p \in Services, NEW s \in Services, NEW i \in DOMAIN log, Sent(i, p, s)
                PROVE  \E j \in DOMAIN log : Opens(j, p, s) /\ log[j].msg = i
    OBVIOUS
  <2>1. Delivered(i, p, s)
    BY DEF IInv, ConnectionInv
  <2>2. connection[p, s] = <<>>
    BY DEF IInv, PhaseInv, Peers
  <2>3. PICK c : c = connection[p, s]
    OBVIOUS
  <2>4. \A n : n \notin DOMAIN c
    <3>1. c = <<>>
      BY <2>2, <2>3
    <3>2. DOMAIN <<>> = 1..0
      OBVIOUS
    <3>. QED BY <3>1, <3>2
  <2>. QED BY <2>1, <2>3, <2>4 DEF Delivered
<1>. QED BY <1>1 DEF IInv, TypeOK, PhaseInv, Settled

LEMMA OrderIsKept == ASSUME IInv PROVE HappensBeforeKept
<1>. SUFFICES ASSUME phase \in {"reduced", "raised"}, StartsQuiet
              PROVE  /\ phase = "reduced"
                     /\ Reachability(edges) =
                          {e \in Reachability(Causes) : log[e[1]].kind = "op" /\ log[e[2]].kind = "op"}
  BY DEF HappensBeforeKept
<1>1. Settled
  BY SettledWhenParsed
<1>2. log \in Seq(Call) /\ Linked \in SUBSET ((DOMAIN log) \X (DOMAIN log)) /\ Forwards(Linked)
  BY <1>1, EdgesAreCauses DEF Settled
<1>3. /\ ~ CycleFound
      /\ Reachability(Reduced) = {p \in Paths(DOMAIN log, Linked) : IsOp(p[1]) /\ IsOp(p[2])}
  BY <1>2, ReductionKeeps DEF CycleFound, Reduced
<1>4. phase = "reduced" /\ edges = Reduced
  BY <1>3 DEF IInv, PhaseInv
<1>5. Reachability(edges) = {p \in Reachability(Causes) : IsOp(p[1]) /\ IsOp(p[2])}
  BY <1>1, <1>3, <1>4, PathsAreCauses
<1>. QED BY <1>4, <1>5 DEF IsOp

-----------------------------------------------------------------------------
(* The invariant is inductive.  First, what a step leaves alone.           *)
LEMMA FrameParsed ==
  ASSUME log' = log
  PROVE  CallsKept' = CallsKept
<1>1. InOrder' = InOrder
  BY DEF InOrder
<1>. QED BY <1>1 DEF CallsKept, Trimmed, CallsOf, WithoutBodies, FoldLeft, MapThenFoldSet, Max, MergeReceive, Min

LEMMA FrameMatched ==
  ASSUME log' = log, syscalls' = syscalls
  PROVE  Matched(syscalls)' = Matched(syscalls)
BY DEF Matched, MatchedPair, Sends, Receives

LEMMA FrameLinked ==
  ASSUME log' = log, syscalls' = syscalls, correlated' = correlated
  PROVE  /\ Linked' = Linked
         /\ CycleFound' <=> CycleFound
         /\ Reduced' = Reduced
<1>1. InOrder' = InOrder
  BY DEF InOrder
<1>2. Linked' = Linked
  BY DEF Linked, Chains, ClientEdges, ClientCalls, Nodes
<1>3. Cleared(Linked)' = Cleared(Linked)
  BY <1>1, <1>2 DEF Cleared, FoldLeft, MapThenFoldSet, Max, RemoveSend, RemoveReceive
<1>4. CycleFound' <=> CycleFound
  BY <1>1, <1>3 DEF CycleFound, Reachability
<1>5. Reduced' = Reduced
  BY <1>1, <1>3 DEF Reduced, TransitiveReduction, IntraEdges, Reachability
<1>. QED BY <1>2, <1>4, <1>5

LEMMA FrameLog ==
  ASSUME UNCHANGED <<program, pc, log, connection>>, TypeOK, LogInv, ConnectionInv,
         phase' \in {"running", "parsed", "linked", "reduced", "raised"}
  PROVE  TypeOK' /\ LogInv' /\ ConnectionInv'
<1>1. TypeOK'
  BY DEF TypeOK
<1>2. LogInv'
  BY DEF LogInv, ReadOK, ReadInOrder, Sent, Got, Opens, HeaderOf, FramedFirst
<1>3. ConnectionInv'
  <2>1. ASSUME NEW p \in Peers, NEW s \in Services PROVE OnItsWayOK(connection[p, s], p, s)'
    <3>1. OnItsWayOK(connection[p, s], p, s)
      BY DEF ConnectionInv
    <3>2. ASSUME NEW n PROVE (BodyOK(connection[p, s], n, p, s)' <=> BodyOK(connection[p, s], n, p, s))
      BY DEF BodyOK, Got
    <3>3. ASSUME NEW n PROVE (FirstOK(connection[p, s], n, p, s)' <=> FirstOK(connection[p, s], n, p, s))
      BY DEF FirstOK, Sent, Opens, Got
    <3>. QED BY <3>1, <3>2, <3>3 DEF OnItsWayOK, FramedFirst
  <2>2. ASSUME NEW p \in Services, NEW s \in Services, NEW i \in DOMAIN log, Sent(i, p, s)
        PROVE  Delivered(i, p, s)'
    <3>1. Delivered(i, p, s)
      BY <2>2 DEF ConnectionInv
    <3>. QED BY <3>1 DEF Delivered, Opens, Got
  <2>. QED BY <2>1, <2>2 DEF ConnectionInv, Sent
<1>. QED BY <1>1, <1>2, <1>3

LEMMA CreateSyscallsKeeps == ASSUME IInv, CreateSyscalls PROVE IInv'
<1>1. TypeOK' /\ LogInv' /\ ConnectionInv'
  BY FrameLog DEF CreateSyscalls, IInv
<1>2. PhaseInv'
  <2>1. phase' = "parsed" /\ UNCHANGED <<log, connection>>
    BY DEF CreateSyscalls
  <2>2. syscalls' = CallsKept'
    BY <2>1, FrameParsed DEF CreateSyscalls, CallsKept
  <2>3. correlated' = Matched(syscalls)'
    BY <2>1 DEF CreateSyscalls, Matched, MatchedPair, Sends, Receives
  <2>4. \A p \in Peers, s \in Services : (connection[p, s] = <<>>)'
    <3>. SUFFICES ASSUME NEW p \in Peers, NEW s \in Services PROVE connection'[p, s] = <<>>
      OBVIOUS
    <3>1. DOMAIN connection = Peers \X Services
      BY DEF IInv, TypeOK
    <3>2. <<p, s>> \in DOMAIN connection
      BY <3>1
    <3>3. connection[<<p, s>>] = <<>>
      BY <3>2 DEF CreateSyscalls
    <3>. QED BY <2>1, <3>3
  <2>. QED BY <2>1, <2>2, <2>3, <2>4 DEF PhaseInv
<1>. QED BY <1>1, <1>2 DEF IInv

LEMMA DependenciesKeeps == ASSUME IInv, Dependencies PROVE IInv'
<1>1. TypeOK' /\ LogInv' /\ ConnectionInv'
  BY FrameLog DEF Dependencies, IInv
<1>2. PhaseInv'
  <2>1. phase = "parsed" /\ phase' = "linked" /\ UNCHANGED <<log, connection, syscalls, correlated>>
    BY DEF Dependencies
  <2>2. edges' = Linked'
    BY <2>1, FrameLinked DEF Dependencies, Linked
  <2>3. PhaseInv /\ CallsKept' = CallsKept /\ Matched(syscalls)' = Matched(syscalls)
    BY <2>1, FrameParsed, FrameMatched DEF IInv
  <2>. QED BY <2>1, <2>2, <2>3 DEF PhaseInv
<1>. QED BY <1>1, <1>2 DEF IInv

LEMMA ReductionStep ==
  ASSUME IInv, Reduction
  PROVE  /\ phase = "linked" /\ UNCHANGED <<program, pc, log, connection, syscalls, correlated>>
         /\ \/ phase' = "raised" /\ CycleFound
            \/ phase' = "reduced" /\ edges' = Reduced
<1>1. phase = "linked" /\ UNCHANGED <<program, pc, log, connection, syscalls, correlated>>
  BY DEF Reduction
<1>2. edges = Linked
  BY <1>1 DEF IInv, PhaseInv
<1>3. IF \E e \in Reachability(Cleared(edges)) : e[1] = e[2]
      THEN phase' = "raised" /\ UNCHANGED edges
      ELSE phase' = "reduced" /\ edges' = TransitiveReduction(Cleared(edges)) \union IntraEdges(Cleared(edges))
  BY DEF Reduction, Cleared
<1>. QED BY <1>1, <1>2, <1>3 DEF CycleFound, Reduced

LEMMA ReductionStepKeeps == ASSUME IInv, Reduction PROVE IInv'
<1>0. /\ phase = "linked" /\ UNCHANGED <<program, pc, log, connection, syscalls, correlated>>
      /\ \/ phase' = "raised" /\ CycleFound
         \/ phase' = "reduced" /\ edges' = Reduced
  BY ReductionStep
<1>1. TypeOK' /\ LogInv' /\ ConnectionInv'
  BY <1>0, FrameLog DEF IInv
<1>2. PhaseInv'
  <2>1. PhaseInv /\ CallsKept' = CallsKept /\ Matched(syscalls)' = Matched(syscalls)
        /\ (CycleFound' <=> CycleFound) /\ Reduced' = Reduced
    BY <1>0, FrameParsed, FrameMatched, FrameLinked DEF IInv
  <2>. QED BY <1>0, <2>1 DEF PhaseInv
<1>. QED BY <1>1, <1>2 DEF IInv

LEMMA StutterKeeps == ASSUME IInv, UNCHANGED vars PROVE IInv'
<1>0. UNCHANGED <<program, pc, log, connection, phase, syscalls, correlated, edges>>
  BY DEF vars
<1>1. TypeOK' /\ LogInv' /\ ConnectionInv'
  BY <1>0, FrameLog DEF IInv, TypeOK
<1>2. PhaseInv'
  <2>1. PhaseInv /\ CallsKept' = CallsKept /\ Matched(syscalls)' = Matched(syscalls)
        /\ (CycleFound' <=> CycleFound) /\ Reduced' = Reduced /\ Linked' = Linked
    BY <1>0, FrameParsed, FrameMatched, FrameLinked DEF IInv
  <2>. QED BY <1>0, <2>1 DEF PhaseInv
<1>. QED BY <1>1, <1>2 DEF IInv

(* A step of a server appends one call to the log, at position n.          *)
Appends(call, n) ==
  /\ call \in Call /\ n = Len(log) + 1 /\ log' = Append(log, call) /\ program' = program
  /\ UNCHANGED <<phase, syscalls, correlated, edges>> /\ phase = "running"

LEMMA AppendsOne ==
  ASSUME TypeOK, NEW call, NEW n, Appends(call, n)
  PROVE  /\ Len(log) \in Nat /\ DOMAIN log = 1..Len(log) /\ n \notin DOMAIN log
         /\ log' \in Seq(Call) /\ Len(log') = n /\ n \in Nat /\ n = Len(log) + 1
         /\ \A i : i \in DOMAIN log' <=> i \in DOMAIN log \/ i = n
         /\ \A i \in DOMAIN log : log'[i] = log[i] /\ i \in Nat /\ i < n /\ i >= 1
         /\ log'[n] = call
<1>1. log \in Seq(Call) /\ call \in Call /\ log' = Append(log, call) /\ n = Len(log) + 1
  BY DEF TypeOK, Appends
<1>2. Len(log) \in Nat /\ DOMAIN log = 1..Len(log)
  BY <1>1
<1>3. log' \in Seq(Call) /\ Len(log') = Len(log) + 1 /\ DOMAIN log' = 1..(Len(log) + 1)
  BY <1>1
<1>4. \A i \in 1..Len(log) : log'[i] = log[i]
  BY <1>1
<1>5. log'[Len(log) + 1] = call
  BY <1>1
<1>6. \A i : i \in 1..(Len(log) + 1) <=> i \in 1..Len(log) \/ i = Len(log) + 1
  BY <1>2
<1>7. \A i \in 1..Len(log) : i \in Nat /\ i < Len(log) + 1 /\ i >= 1
  BY <1>2
<1>8. Len(log) + 1 \notin 1..Len(log)
  BY <1>2
<1>. QED BY <1>1, <1>2, <1>3, <1>4, <1>5, <1>6, <1>7, <1>8

LEMMA OldCalls ==
  ASSUME TypeOK, NEW call, NEW n, Appends(call, n), NEW i \in DOMAIN log, NEW p, NEW s
  PROVE  /\ Sent(i, p, s)' <=> Sent(i, p, s)
         /\ Got(i, p, s)' <=> Got(i, p, s)
         /\ Opens(i, p, s)' <=> Opens(i, p, s)
<1>1. log'[i] = log[i]
  BY AppendsOne
<1>. QED BY <1>1 DEF Sent, Got, Opens

LEMMA NewCall ==
  ASSUME TypeOK, NEW call, NEW n, Appends(call, n), NEW p, NEW s
  PROVE  /\ Sent(n, p, s)' <=> call.kind = "send" /\ call.svc = p /\ call.peer = s
         /\ Got(n, p, s)' <=> call.kind = "recv" /\ call.svc = s /\ call.peer = p
         /\ Opens(n, p, s)' <=> call.kind = "recv" /\ call.svc = s /\ call.peer = p /\ call.part # "body"
<1>1. log'[n] = call
  BY AppendsOne
<1>. QED BY <1>1 DEF Sent, Got, Opens

LEMMA HeaderOfKept ==
  ASSUME TypeOK, NEW call, NEW n, Appends(call, n), NEW j \in DOMAIN log, NEW h \in 1..(j - 1), NEW p, NEW s
  PROVE  HeaderOf(h, j, p, s) => HeaderOf(h, j, p, s)'
<1>1. j \in Nat /\ DOMAIN log = 1..Len(log) /\ Len(log) \in Nat
  BY AppendsOne
<1>2. h \in DOMAIN log /\ \A k \in (h + 1)..(j - 1) : k \in DOMAIN log
  BY <1>1
<1>3. log'[h] = log[h] /\ log'[j] = log[j]
  BY <1>2, AppendsOne
<1>4. \A k \in (h + 1)..(j - 1) : Got(k, p, s)' <=> Got(k, p, s)
  BY <1>2, OldCalls
<1>5. Got(h, p, s)' <=> Got(h, p, s)
  BY <1>2, OldCalls
<1>. QED BY <1>3, <1>4, <1>5 DEF HeaderOf

LEMMA ReadsStayOK ==
  ASSUME TypeOK, NEW call, NEW n, Appends(call, n), NEW j \in DOMAIN log, ReadOK(j)
  PROVE  ReadOK(j)'
<1>1. log'[j] = log[j] /\ program' = program /\ j \in Nat /\ j \in 1..Len(log) /\ Len(log) \in Nat
      /\ DOMAIN log = 1..Len(log)
  BY AppendsOne DEF Appends
<1>2. PICK p, s, m : p = log[j].peer /\ s = log[j].svc /\ m = log[j].msg
  OBVIOUS
<1>3. CASE log[j].kind # "recv"
  BY <1>1, <1>3 DEF ReadOK
<1>4. CASE log[j].kind = "recv"
  <2>1. /\ log[j].part # "none" /\ m \in 1..j
        /\ FramedFirst(log[j].part)
        /\ p # Client => m < j /\ Sent(m, p, s)
        /\ p = Client /\ log[j].part # "body" => m = j
        /\ log[j].part = "body" => \E h \in 1..(j - 1) : HeaderOf(h, j, p, s)
    BY <1>2, <1>4 DEF ReadOK
  <2>2. m \in DOMAIN log
    BY <1>1, <2>1
  <2>3. Sent(m, p, s) => Sent(m, p, s)'
    BY <2>2, OldCalls
  <2>4. log[j].part = "body" => \E h \in 1..(j - 1) : HeaderOf(h, j, p, s)'
    BY <2>1, HeaderOfKept
  <2>5. FramedFirst(log[j].part)'
    BY <1>1, <2>1 DEF FramedFirst
  <2>6. /\ log'[j].kind = "recv" /\ log'[j].part # "none" /\ log'[j].msg \in 1..j
        /\ p # Client => log'[j].msg < j /\ Sent(m, p, s)'
        /\ p = Client /\ log'[j].part # "body" => log'[j].msg = j
    BY <1>1, <1>2, <1>4, <2>1, <2>3
  <2>7. log'[j].peer = p /\ log'[j].svc = s /\ log'[j].msg = m /\ log'[j].part = log[j].part
    BY <1>1, <1>2
  <2>. QED BY <1>1, <2>4, <2>5, <2>6, <2>7 DEF ReadOK, FramedFirst, Sent, HeaderOf, Got
<1>. QED BY <1>3, <1>4

LEMMA LogGrows ==
  ASSUME TypeOK, LogInv, NEW call, NEW n, Appends(call, n), ReadOK(n)',
         \A p \in Services, s \in Services :
           call.kind = "recv" /\ call.svc = s /\ call.peer = p /\ call.part # "body" =>
             \A j \in DOMAIN log : Opens(j, p, s) => log[j].msg < call.msg
  PROVE  LogInv'
<1>1. ASSUME NEW j \in DOMAIN log' PROVE ReadOK(j)'
  <2>1. CASE j = n
    BY <2>1
  <2>2. CASE j \in DOMAIN log
    <3>1. ReadOK(j)
      BY <2>2 DEF LogInv
    <3>. QED BY <2>2, <3>1, ReadsStayOK
  <2>. QED BY <2>1, <2>2, AppendsOne
<1>2. ASSUME NEW p \in Services, NEW s \in Services PROVE ReadInOrder(p, s)'
  <2>. SUFFICES ASSUME NEW j \in DOMAIN log', NEW k \in DOMAIN log', Opens(j, p, s)', Opens(k, p, s)', j < k
                PROVE  log'[j].msg < log'[k].msg
    BY DEF ReadInOrder
  <2>1. ReadInOrder(p, s)
    BY DEF LogInv
  <2>2. j \in DOMAIN log
    <3>1. \A i \in DOMAIN log : i \in Nat /\ i < n /\ n \in Nat
      BY AppendsOne
    <3>. QED BY <3>1, AppendsOne
  <2>3. Opens(j, p, s) /\ log'[j] = log[j]
    BY <2>2, OldCalls, AppendsOne
  <2>4. CASE k \in DOMAIN log
    <3>1. Opens(k, p, s) /\ log'[k] = log[k]
      BY <2>4, OldCalls, AppendsOne
    <3>. QED BY <2>1, <2>2, <2>3, <2>4, <3>1 DEF ReadInOrder
  <2>5. CASE k = n
    <3>1. call.kind = "recv" /\ call.svc = s /\ call.peer = p /\ call.part # "body"
      BY <2>5, NewCall
    <3>2. log[j].msg < call.msg
      BY <2>2, <2>3, <3>1
    <3>. QED BY <2>3, <2>5, <3>2, AppendsOne
  <2>. QED BY <2>4, <2>5, AppendsOne
<1>. QED BY <1>1, <1>2 DEF LogInv

(* What is on its way stays fine as long as nothing of it is read.         *)
LEMMA BodyStays ==
  ASSUME TypeOK, NEW call, NEW n, Appends(call, n), NEW c, NEW m, NEW p, NEW s,
         ~ (call.kind = "recv" /\ call.svc = s /\ call.peer = p), BodyOK(c, m, p, s)
  PROVE  BodyOK(c, m, p, s)'
<1>1. CASE m = 1
  <2>1. PICK h \in DOMAIN log : /\ Got(h, p, s) /\ log[h].part = "header" /\ log[h].msg = c[m].msg
                                /\ \A k \in (h + 1)..Len(log) : ~ Got(k, p, s)
    BY <1>1 DEF BodyOK
  <2>2. h \in DOMAIN log' /\ log'[h] = log[h] /\ Got(h, p, s)' /\ h \in Nat /\ n = Len(log) + 1
        /\ Len(log) \in Nat /\ DOMAIN log = 1..Len(log) /\ Len(log') = n
    BY <2>1, AppendsOne, OldCalls
  <2>3. ASSUME NEW k \in (h + 1)..n PROVE ~ Got(k, p, s)'
    <3>1. CASE k = n
      BY <3>1, NewCall
    <3>2. CASE k # n
      <4>1. k \in (h + 1)..Len(log) /\ k \in DOMAIN log
        BY <2>2, <3>2
      <4>. QED BY <2>1, <4>1, OldCalls
    <3>. QED BY <3>1, <3>2
  <2>. QED BY <1>1, <2>1, <2>2, <2>3 DEF BodyOK
<1>2. CASE m # 1
  BY <1>2 DEF BodyOK
<1>. QED BY <1>1, <1>2

LEMMA FirstStays ==
  ASSUME TypeOK, NEW call, NEW n, Appends(call, n), NEW c, NEW m, NEW p, NEW s,
         ~ (call.kind = "recv" /\ call.svc = s /\ call.peer = p /\ call.part # "body"), FirstOK(c, m, p, s)
  PROVE  FirstOK(c, m, p, s)'
<1>1. /\ p # Client
      /\ c[m].msg \in DOMAIN log /\ Sent(c[m].msg, p, s)
      /\ \A k \in 1..(m - 1) : c[k].part # "body" => c[k].msg < c[m].msg
      /\ \A j \in DOMAIN log : Opens(j, p, s) => log[j].msg < c[m].msg
  BY DEF FirstOK
<1>2. c[m].msg \in DOMAIN log' /\ Sent(c[m].msg, p, s)'
  BY <1>1, AppendsOne, OldCalls
<1>3. \A j \in DOMAIN log' : Opens(j, p, s)' => log'[j].msg < c[m].msg
  <2>1. ASSUME NEW j \in DOMAIN log', Opens(j, p, s)' PROVE log'[j].msg < c[m].msg
    <3>1. j # n
      BY <2>1, NewCall
    <3>2. j \in DOMAIN log
      BY <3>1, AppendsOne
    <3>3. Opens(j, p, s) /\ log'[j] = log[j]
      BY <2>1, <3>2, OldCalls, AppendsOne
    <3>. QED BY <1>1, <3>2, <3>3
  <2>. QED BY <2>1
<1>. QED BY <1>1, <1>2, <1>3 DEF FirstOK

LEMMA PairUntouched ==
  ASSUME TypeOK, NEW call, NEW n, Appends(call, n), NEW c, NEW p, NEW s,
         ~ (call.kind = "recv" /\ call.svc = s /\ call.peer = p), OnItsWayOK(c, p, s)
  PROVE  OnItsWayOK(c, p, s)'
<1>1. program' = program
  BY DEF Appends
<1>2. \A m \in DOMAIN c : BodyOK(c, m, p, s) => BodyOK(c, m, p, s)'
  BY BodyStays
<1>3. \A m \in DOMAIN c : FirstOK(c, m, p, s) => FirstOK(c, m, p, s)'
  BY FirstStays
<1>. QED BY <1>1, <1>2, <1>3 DEF OnItsWayOK, FramedFirst

(* Each part of a message that was on its way still is, or is the one read. *)
StillOnItsWay(call, c, d, p, s) ==
  \A m \in DOMAIN c : c[m].part # "body" =>
    \/ \E k \in DOMAIN d : d[k] = c[m]
    \/ call.kind = "recv" /\ call.svc = s /\ call.peer = p /\ call.part # "body" /\ call.msg = c[m].msg

(* The call leaves d on one connection and the others as they are.         *)
OneChanged(d, p0, s0) ==
  /\ connection'[p0, s0] = d
  /\ \A p \in Peers, s \in Services : p # p0 \/ s # s0 => connection'[p, s] = connection[p, s]

CallOn(call, n, d, p0, s0) ==
  /\ call.kind = "recv" => call.svc = s0 /\ call.peer = p0
  /\ StillOnItsWay(call, connection[p0, s0], d, p0, s0)
  /\ call.kind = "send" => \/ call.peer = Client
                           \/ /\ call.svc = p0 /\ call.peer = s0
                              /\ \E m \in DOMAIN d : d[m].part # "body" /\ d[m].msg = n

LEMMA OnConnection ==
  ASSUME NEW p, NEW s, NEW c, connection'[p, s] = c, OnItsWayOK(c, p, s)'
  PROVE  OnItsWayOK(connection[p, s], p, s)'
BY DEF OnItsWayOK, BodyOK, FirstOK

LEMMA ConnectionsKept ==
  ASSUME IInv, NEW call, NEW n, Appends(call, n), NEW p0 \in Peers, NEW s0 \in Services, NEW d,
         OneChanged(d, p0, s0), CallOn(call, n, d, p0, s0), OnItsWayOK(d, p0, s0)'
  PROVE  ConnectionInv'
<1>0. TypeOK /\ ConnectionInv
  BY DEF IInv
<1>3. call.kind = "recv" => call.svc = s0 /\ call.peer = p0
  BY DEF CallOn
<1>1. ASSUME NEW p \in Peers, NEW s \in Services PROVE OnItsWayOK(connection[p, s], p, s)'
  <2>1. CASE p = p0 /\ s = s0
    <3>1. connection'[p, s] = d
      BY <2>1 DEF OneChanged
    <3>2. OnItsWayOK(d, p, s)'
      BY <2>1
    <3>. QED BY <3>1, <3>2, OnConnection
  <2>2. CASE p # p0 \/ s # s0
    <3>1. PICK c : c = connection[p, s]
      OBVIOUS
    <3>2. OnItsWayOK(c, p, s)
      BY <1>0, <3>1 DEF ConnectionInv
    <3>3. OnItsWayOK(c, p, s)'
      <4>1. ~ (call.kind = "recv" /\ call.svc = s /\ call.peer = p)
        BY <1>3, <2>2
      <4>. QED BY <1>0, <3>2, <4>1, PairUntouched
    <3>4. connection'[p, s] = c
      BY <2>2, <3>1 DEF OneChanged
    <3>. QED BY <3>3, <3>4, OnConnection
  <2>. QED BY <2>1, <2>2
<1>2. ASSUME NEW p \in Services, NEW s \in Services, NEW i \in DOMAIN log', Sent(i, p, s)'
      PROVE  Delivered(i, p, s)'
  <2>0. p \in Peers
    BY DEF Peers
  <2>1. CASE i = n
    <3>1. call.kind = "send" /\ call.svc = p /\ call.peer = s /\ s # Client
      BY <1>0, <1>2, <2>1, NewCall, ServicesAssumption
    <3>2. p = p0 /\ s = s0 /\ \E m \in DOMAIN d : d[m].part # "body" /\ d[m].msg = n
      BY <3>1 DEF CallOn
    <3>3. connection'[p, s] = d
      BY <3>2 DEF OneChanged
    <3>. QED BY <2>1, <3>2, <3>3 DEF Delivered
  <2>2. CASE i \in DOMAIN log
    <3>1. Sent(i, p, s)
      BY <1>0, <1>2, <2>2, OldCalls
    <3>2. Delivered(i, p, s)
      BY <1>0, <2>2, <3>1 DEF ConnectionInv
    <3>3. CASE \E j \in DOMAIN log : Opens(j, p, s) /\ log[j].msg = i
      <4>1. PICK j \in DOMAIN log : Opens(j, p, s) /\ log[j].msg = i
        BY <3>3
      <4>2. j \in DOMAIN log' /\ log'[j] = log[j] /\ Opens(j, p, s)'
        BY <1>0, <4>1, AppendsOne, OldCalls
      <4>3. log'[j].msg = i
        BY <4>1, <4>2
      <4>. QED BY <4>2, <4>3 DEF Delivered
    <3>4. CASE \E m \in DOMAIN connection[p, s] :
                 connection[p, s][m].part # "body" /\ connection[p, s][m].msg = i
      <4>1. PICK m \in DOMAIN connection[p, s] :
              connection[p, s][m].part # "body" /\ connection[p, s][m].msg = i
        BY <3>4
      <4>2. CASE p # p0 \/ s # s0
        <5>1. connection'[p, s] = connection[p, s]
          BY <2>0, <4>2 DEF OneChanged
        <5>. QED BY <4>1, <5>1 DEF Delivered
      <4>3. CASE p = p0 /\ s = s0
        <5>0. connection'[p, s] = d /\ StillOnItsWay(call, connection[p, s], d, p, s)
          BY <4>3 DEF OneChanged, CallOn
        <5>1. CASE \E k \in DOMAIN d : d[k] = connection[p, s][m]
          BY <4>1, <5>0, <5>1 DEF Delivered
        <5>2. CASE call.kind = "recv" /\ call.svc = s /\ call.peer = p /\ call.part # "body" /\ call.msg = i
          <6>1. n \in DOMAIN log' /\ log'[n] = call /\ Opens(n, p, s)'
            BY <1>0, <5>2, AppendsOne, NewCall
          <6>2. log'[n].msg = i
            BY <5>2, <6>1
          <6>. QED BY <6>1, <6>2 DEF Delivered
        <5>. QED BY <4>1, <5>0, <5>1, <5>2 DEF StillOnItsWay
      <4>. QED BY <4>2, <4>3
    <3>. QED BY <3>2, <3>3, <3>4 DEF Delivered
  <2>. QED BY <1>0, <2>1, <2>2, AppendsOne
<1>. QED BY <1>1, <1>2 DEF ConnectionInv

LEMMA ServerStepKeeps ==
  ASSUME IInv, NEW call, NEW n, Appends(call, n), LogInv', ConnectionInv',
         pc' \in [Services -> Nat \ {0}], connection' \in [Peers \X Services -> Seq(Part)]
  PROVE  IInv'
<1>1. TypeOK'
  BY AppendsOne DEF IInv, TypeOK, Appends
<1>2. PhaseInv'
  BY DEF PhaseInv, Appends
<1>. QED BY <1>1, <1>2 DEF IInv

(* The steps of the servers, one by one.                                   *)
LEMMA StepDone ==
  ASSUME TypeOK, NEW s \in Services, NEW kind, Does(s, kind)
  PROVE  pc' \in [Services -> Nat \ {0}] /\ (kind # "op" => Peer(s) \in Peers)
<1>1. pc \in [Services -> Nat \ {0}] /\ program.steps \in [Services -> Seq(Step)]
  BY ProgramsAssumption DEF TypeOK
<1>2. PICK i, steps : i = pc[s] /\ steps = program.steps[s]
  OBVIOUS
<1>3. i \in Nat \ {0} /\ steps \in Seq(Step) /\ i <= Len(steps) /\ steps[i].do = kind
  BY <1>1, <1>2 DEF Does
<1>4. steps[i] \in Step
  BY <1>3
<1>5. kind # "op" => steps[i].peer \in Peers
  BY <1>3, <1>4 DEF Step
<1>6. pc' = [pc EXCEPT ![s] = i + 1] /\ i + 1 \in Nat \ {0}
  BY <1>2, <1>3 DEF Does
<1>. QED BY <1>1, <1>2, <1>5, <1>6 DEF Peer

LEMMA RecordAppends ==
  ASSUME TypeOK, NEW s \in Services, NEW kind \in {"op", "send", "recv"}, NEW peer \in Peers,
         NEW part \in {"none", "whole", "header", "body"}, NEW msg \in Nat,
         Record(s, kind, peer, part, msg), NEW n, n = Len(log) + 1
  PROVE  Appends([svc |-> s, kind |-> kind, peer |-> peer, part |-> part, msg |-> msg], n)
BY DEF Record, graphVars, Appends, Call

(* A call that reads nothing and sends nothing to a traced server.         *)
LEMMA QuietKeeps ==
  ASSUME IInv, NEW call, NEW n, Appends(call, n), call.kind # "recv", call.part = "none", call.msg = 0,
         call.kind = "send" => call.peer = Client, NEW s \in Services,
         connection' = connection, pc' \in [Services -> Nat \ {0}]
  PROVE  IInv'
<1>0. TypeOK /\ LogInv /\ ConnectionInv /\ s \in Peers
  BY DEF IInv, Peers
<1>1. ReadOK(n)'
  <2>1. log'[n] = call
    BY <1>0, AppendsOne
  <2>. QED BY <2>1 DEF ReadOK
<1>2. LogInv'
  BY <1>0, <1>1, LogGrows
<1>3. PICK c : c = connection[s, s]
  OBVIOUS
<1>4. OnItsWayOK(c, s, s)
  BY <1>0, <1>3 DEF ConnectionInv
<1>5. OnItsWayOK(c, s, s)'
  BY <1>0, <1>4, PairUntouched
<1>6. StillOnItsWay(call, connection[s, s], c, s, s)
  BY <1>3 DEF StillOnItsWay
<1>7. OneChanged(c, s, s) /\ CallOn(call, n, c, s, s)
  BY <1>3, <1>6 DEF OneChanged, CallOn
<1>8. ConnectionInv'
  BY <1>0, <1>5, <1>7, ConnectionsKept
<1>9. connection' \in [Peers \X Services -> Seq(Part)]
  BY <1>0 DEF TypeOK
<1>. QED BY <1>2, <1>8, <1>9, ServerStepKeeps

LEMMA OpKeeps ==
  ASSUME IInv, NEW s \in Services, Op(s)
  PROVE  IInv'
<1>0. TypeOK
  BY DEF IInv
<1>1. Does(s, "op") /\ Record(s, "op", s, "none", 0) /\ connection' = connection
  BY DEF Op
<1>2. PICK n : n = Len(log) + 1
  OBVIOUS
<1>3. PICK call : call = [svc |-> s, kind |-> "op", peer |-> s, part |-> "none", msg |-> 0]
  OBVIOUS
<1>4. Appends(call, n)
  BY <1>0, <1>1, <1>2, <1>3, RecordAppends DEF Peers
<1>5. pc' \in [Services -> Nat \ {0}]
  BY <1>0, <1>1, StepDone
<1>. QED BY <1>1, <1>3, <1>4, <1>5, QuietKeeps

(* The parts of a message.                                                 *)
LEMMA PartsAre ==
  ASSUME NEW n \in Nat, NEW parts \in Parts(n)
  PROVE  /\ parts \in Seq(Part) /\ Len(parts) \in 1..2 /\ parts # <<>>
         /\ parts[1].part # "body" /\ parts[1].msg = n /\ FramedFirst(parts[1].part)
         /\ Len(parts) = 2 => parts[1].part = "header" /\ parts[2].part = "body" /\ parts[2].msg = n
<1>1. CASE parts = <<[part |-> "header", msg |-> n]>> /\ program.headers
  BY <1>1 DEF Part, FramedFirst
<1>2. CASE parts = <<[part |-> "header", msg |-> n], [part |-> "body", msg |-> n]>> /\ program.headers
  BY <1>2 DEF Part, FramedFirst
<1>3. CASE parts = <<[part |-> "whole", msg |-> n]>> /\ ~ program.headers
  BY <1>3 DEF Part, FramedFirst
<1>. QED BY <1>1, <1>2, <1>3 DEF Parts

LEMMA Concatenated ==
  ASSUME NEW S, NEW c \in Seq(S), NEW e \in Seq(S), NEW d, d = c \o e
  PROVE  /\ d \in Seq(S) /\ Len(c) \in Nat /\ Len(e) \in Nat /\ Len(d) = Len(c) + Len(e)
         /\ DOMAIN c = 1..Len(c) /\ DOMAIN e = 1..Len(e) /\ DOMAIN d = 1..(Len(c) + Len(e))
         /\ \A k \in 1..Len(c) : d[k] = c[k]
         /\ \A k \in 1..Len(e) : d[Len(c) + k] = e[k]
<1>1. d \in Seq(S) /\ Len(c) \in Nat /\ Len(e) \in Nat /\ Len(d) = Len(c) + Len(e)
  OBVIOUS
<1>2. DOMAIN c = 1..Len(c) /\ DOMAIN e = 1..Len(e) /\ DOMAIN d = 1..Len(d)
  BY <1>1
<1>3. \A k \in 1..Len(c) : d[k] = c[k]
  OBVIOUS
<1>4. \A k \in 1..Len(e) : d[Len(c) + k] = e[k]
  BY <1>1
<1>. QED BY <1>1, <1>2, <1>3, <1>4

LEMMA SentBefore ==
  ASSUME TypeOK, LogInv, NEW call, NEW n, Appends(call, n), NEW j \in DOMAIN log, log[j].kind = "recv"
  PROVE  log[j].msg < n
<1>1. ReadOK(j)
  BY DEF LogInv
<1>2. log[j].msg \in 1..j
  BY <1>1 DEF ReadOK
<1>3. j \in Nat /\ n \in Nat /\ j < n
  BY AppendsOne
<1>. QED BY <1>2, <1>3

LEMMA Extended ==
  ASSUME TypeOK, LogInv, NEW call, NEW n, Appends(call, n), NEW p \in Services, NEW s \in Services,
         call.kind = "send", call.svc = p, call.peer = s,
         NEW c \in Seq(Part), OnItsWayOK(c, p, s), NEW parts \in Parts(n)
  PROVE  OnItsWayOK(c \o parts, p, s)'
<1>1. PICK d, l, m : d = c \o parts /\ l = Len(c) /\ m = l + 1
  OBVIOUS
<1>2. n \in Nat /\ n \in DOMAIN log' /\ n \notin DOMAIN log
  BY AppendsOne
<1>3. /\ parts \in Seq(Part) /\ Len(parts) \in 1..2
      /\ parts[1].part # "body" /\ parts[1].msg = n /\ FramedFirst(parts[1].part)
      /\ Len(parts) = 2 => parts[1].part = "header" /\ parts[2].part = "body" /\ parts[2].msg = n
  BY <1>2, PartsAre
<1>4. /\ l \in Nat /\ DOMAIN c = 1..l /\ m \in Nat /\ d[m] = parts[1]
      /\ \A k \in 1..l : d[k] = c[k]
      /\ \A k \in DOMAIN d : k \in 1..l \/ k = m \/ (k = l + 2 /\ Len(parts) = 2 /\ d[k] = parts[2])
  <2>1. /\ Len(c) \in Nat /\ DOMAIN c = 1..Len(c) /\ DOMAIN d = 1..(Len(c) + Len(parts))
        /\ \A k \in 1..Len(c) : d[k] = c[k]
        /\ \A k \in 1..Len(parts) : d[Len(c) + k] = parts[k]
    BY <1>1, <1>3, Concatenated
  <2>2. 1 \in 1..Len(parts) /\ (Len(parts) = 2 => 2 \in 1..Len(parts))
    BY <1>3
  <2>3. d[m] = parts[1] /\ (Len(parts) = 2 => d[l + 2] = parts[2])
    BY <1>1, <2>1, <2>2
  <2>4. \A k \in DOMAIN d : k \in 1..l \/ k = m \/ (k = l + 2 /\ Len(parts) = 2)
    <3>1. PICK b : b = Len(parts)
      OBVIOUS
    <3>2. b \in 1..2 /\ l \in Nat /\ m = l + 1
      BY <1>1, <1>3, <2>1, <3>1
    <3>3. \A k \in 1..(l + b) : k \in 1..l \/ k = m \/ (k = l + 2 /\ b = 2)
      BY <3>2
    <3>4. DOMAIN d = 1..(l + b)
      BY <1>1, <2>1, <3>1
    <3>. QED BY <3>1, <3>3, <3>4
  <2>5. l = Len(c) /\ m = l + 1
    BY <1>1
  <2>6. l \in Nat /\ DOMAIN c = 1..l /\ m \in Nat /\ \A k \in 1..l : d[k] = c[k]
    BY <2>1, <2>5
  <2>7. \A k \in DOMAIN d : k \in 1..l \/ k = m \/ (k = l + 2 /\ Len(parts) = 2 /\ d[k] = parts[2])
    BY <2>3, <2>4
  <2>. QED BY <2>3, <2>6, <2>7
<1>5. OnItsWayOK(c, p, s)'
  BY PairUntouched
<1>6. OnItsWayOK(d, p, s)'
  <2>0. p # Client /\ program' = program
    BY ServicesAssumption DEF Appends
  <2>1. ASSUME NEW k \in 1..l
        PROVE  FramedFirst(d[k].part)' /\ IF d[k].part = "body" THEN BodyOK(d, k, p, s)' ELSE FirstOK(d, k, p, s)'
    <3>1. FramedFirst(c[k].part)' /\ IF c[k].part = "body" THEN BodyOK(c, k, p, s)' ELSE FirstOK(c, k, p, s)'
      BY <1>4, <1>5 DEF OnItsWayOK
    <3>2. k = 1 \/ k - 1 \in 1..l
      BY <1>4
    <3>3. d[k] = c[k] /\ (k = 1 \/ d[k - 1] = c[k - 1]) /\ \A i \in 1..(k - 1) : d[i] = c[i]
      BY <1>4, <3>2
    <3>4. BodyOK(c, k, p, s)' => BodyOK(d, k, p, s)'
      BY <3>3 DEF BodyOK
    <3>5. FirstOK(c, k, p, s)' => FirstOK(d, k, p, s)'
      BY <3>3 DEF FirstOK
    <3>. QED BY <3>1, <3>3, <3>4, <3>5 DEF FramedFirst
  <2>2. FirstOK(d, m, p, s)'
    <3>1. Sent(n, p, s)'
      BY NewCall
    <3>2. ASSUME NEW i \in 1..l, c[i].part # "body" PROVE c[i].msg < n
      <4>1. FirstOK(c, i, p, s)
        BY <1>4, <3>2 DEF OnItsWayOK
      <4>2. c[i].msg \in DOMAIN log
        BY <4>1 DEF FirstOK
      <4>. QED BY <4>2, AppendsOne
    <3>3. ASSUME NEW j \in DOMAIN log', Opens(j, p, s)' PROVE log'[j].msg < n
      <4>1. j # n
        BY <3>3, NewCall
      <4>2. j \in DOMAIN log
        BY <4>1, AppendsOne
      <4>3. Opens(j, p, s) /\ log'[j] = log[j]
        BY <3>3, <4>2, OldCalls, AppendsOne
      <4>4. log[j].kind = "recv"
        BY <4>3 DEF Opens, Got
      <4>. QED BY <4>2, <4>3, <4>4, SentBefore
    <3>4. m - 1 = l /\ d[m].msg = n
      BY <1>1, <1>3, <1>4
    <3>5. \A i \in 1..l : d[i].part # "body" => d[i].msg < n
      BY <1>4, <3>2
    <3>6. Sent(d[m].msg, p, s)' /\ d[m].msg \in DOMAIN log'
      BY <1>2, <3>1, <3>4 DEF Sent
    <3>7. \A i \in 1..(m - 1) : d[i].part # "body" => d[i].msg < d[m].msg
      BY <3>4, <3>5
    <3>8. \A j \in DOMAIN log' : Opens(j, p, s)' => log'[j].msg < d[m].msg
      BY <3>3, <3>4
    <3>. QED BY <2>0, <3>6, <3>7, <3>8 DEF FirstOK
  <2>3. FramedFirst(d[m].part)' /\ d[m].part # "body"
    BY <1>3, <1>4, <2>0 DEF FramedFirst
  <2>4. ASSUME Len(parts) = 2, d[l + 2] = parts[2]
        PROVE  FramedFirst(d[l + 2].part)' /\ d[l + 2].part = "body" /\ BodyOK(d, l + 2, p, s)'
    <3>1. l + 2 # 1 /\ l + 2 - 1 = m
      BY <1>1, <1>4
    <3>. QED BY <1>3, <1>4, <2>4, <3>1 DEF BodyOK, FramedFirst
  <2>. QED BY <1>4, <2>0, <2>1, <2>2, <2>3, <2>4 DEF OnItsWayOK
<1>. QED BY <1>1, <1>6 DEF OnItsWayOK, BodyOK, FirstOK

LEMMA SendKeeps ==
  ASSUME IInv, NEW s \in Services, Send(s)
  PROVE  IInv'
<1>0. TypeOK /\ LogInv /\ ConnectionInv /\ s \in Peers
  BY DEF IInv, Peers
<1>1. PICK n, q : n = Len(log) + 1 /\ q = Peer(s)
  OBVIOUS
<1>2. Does(s, "send") /\ Record(s, "send", q, "none", 0)
  BY <1>1 DEF Send
<1>3. PICK call : call = [svc |-> s, kind |-> "send", peer |-> q, part |-> "none", msg |-> 0]
  OBVIOUS
<1>4. pc' \in [Services -> Nat \ {0}] /\ q \in Peers
  BY <1>0, <1>1, <1>2, StepDone
<1>5. Appends(call, n)
  BY <1>0, <1>1, <1>2, <1>3, <1>4, RecordAppends
<1>6. CASE q = Client
  <2>1. connection' = connection
    BY <1>1, <1>6 DEF Send
  <2>. QED BY <1>3, <1>4, <1>5, <1>6, <2>1, QuietKeeps
<1>7. CASE q # Client
  <2>1. q \in Services
    BY <1>4, <1>7 DEF Peers
  <2>2. PICK parts \in Parts(n) : connection' = [connection EXCEPT ![<<s, q>>] = @ \o parts]
    BY <1>1, <1>7 DEF Send
  <2>3. PICK c, d : c = connection[s, q] /\ d = c \o parts
    OBVIOUS
  <2>4. connection \in [Peers \X Services -> Seq(Part)] /\ <<s, q>> \in Peers \X Services
    BY <1>0, <2>1 DEF TypeOK
  <2>5. c \in Seq(Part) /\ OnItsWayOK(c, s, q)
    BY <1>0, <2>1, <2>3, <2>4 DEF ConnectionInv
  <2>6. n \in Nat
    BY <1>0, <1>5, AppendsOne
  <2>7. /\ parts \in Seq(Part) /\ Len(parts) \in 1..2
        /\ parts[1].part # "body" /\ parts[1].msg = n
    BY <2>6, PartsAre
  <2>8. d \in Seq(Part) /\ (\A k \in DOMAIN c : k \in DOMAIN d /\ d[k] = c[k])
        /\ Len(c) + 1 \in DOMAIN d /\ d[Len(c) + 1] = parts[1]
    <3>1. /\ d \in Seq(Part) /\ Len(c) \in Nat /\ DOMAIN c = 1..Len(c)
          /\ DOMAIN d = 1..(Len(c) + Len(parts))
          /\ \A k \in 1..Len(c) : d[k] = c[k]
          /\ \A k \in 1..Len(parts) : d[Len(c) + k] = parts[k]
      <4>1. c \in Seq(Part) /\ parts \in Seq(Part) /\ d = c \o parts
        BY <2>3, <2>5, <2>7
      <4>. QED BY <4>1, Concatenated
    <3>2. 1 \in 1..Len(parts) /\ Len(parts) \in Nat
      BY <2>7
    <3>3. Len(c) + 1 \in 1..(Len(c) + Len(parts)) /\ \A k \in 1..Len(c) : k \in 1..(Len(c) + Len(parts))
      BY <3>1, <3>2
    <3>. QED BY <3>1, <3>2, <3>3
  <2>9. OneChanged(d, s, q)
    BY <2>2, <2>3, <2>4 DEF OneChanged
  <2>10. connection' \in [Peers \X Services -> Seq(Part)]
    BY <2>2, <2>3, <2>4, <2>8
  <2>11. ReadOK(n)'
    <3>1. log'[n] = call
      BY <1>0, <1>5, AppendsOne
    <3>. QED BY <1>3, <3>1 DEF ReadOK
  <2>12. LogInv'
    BY <1>0, <1>3, <1>5, <2>11, LogGrows
  <2>13. OnItsWayOK(c \o parts, s, q)'
    BY <1>0, <1>3, <1>5, <2>1, <2>5, Extended
  <2>14. OnItsWayOK(d, s, q)'
    BY <2>3, <2>13
  <2>15. StillOnItsWay(call, connection[s, q], d, s, q)
    BY <2>3, <2>8 DEF StillOnItsWay
  <2>16. call.kind = "send" /\ call.kind # "recv" /\ call.svc = s /\ call.peer = q
         /\ \E m \in DOMAIN d : d[m].part # "body" /\ d[m].msg = n
    BY <1>3, <2>7, <2>8
  <2>17. ConnectionInv'
    <3>1. CallOn(call, n, d, s, q)
      BY <2>15, <2>16 DEF CallOn
    <3>. QED BY <1>0, <1>5, <2>1, <2>9, <2>14, <3>1, ConnectionsKept
  <2>. QED BY <1>4, <1>5, <2>10, <2>12, <2>17, ServerStepKeeps
<1>. QED BY <1>6, <1>7

(* What is left of a connection once its first part is read.               *)
Reads(call, part, p, s) ==
  call.kind = "recv" /\ call.svc = s /\ call.peer = p /\ call.part = part.part /\ call.msg = part.msg

LEMMA OpensNow ==
  ASSUME TypeOK, NEW call, NEW n, Appends(call, n), NEW part, NEW p, NEW s, Reads(call, part, p, s),
         NEW x, part.part # "body" => part.msg < x,
         \A j \in DOMAIN log : Opens(j, p, s) => log[j].msg < x
  PROVE  \A j \in DOMAIN log' : Opens(j, p, s)' => log'[j].msg < x
<1>. SUFFICES ASSUME NEW j \in DOMAIN log', Opens(j, p, s)' PROVE log'[j].msg < x
  OBVIOUS
<1>1. CASE j = n
  <2>1. log'[n] = call /\ call.part # "body"
    BY <1>1, NewCall, AppendsOne
  <2>. QED BY <1>1, <2>1 DEF Reads
<1>2. CASE j \in DOMAIN log
  <2>1. Opens(j, p, s) /\ log'[j] = log[j]
    BY <1>2, OldCalls, AppendsOne
  <2>. QED BY <1>2, <2>1
<1>. QED BY <1>1, <1>2, AppendsOne

LEMMA HeaderNow ==
  ASSUME TypeOK, NEW call, NEW n, Appends(call, n), NEW part, NEW p, NEW s, Reads(call, part, p, s),
         part.part = "header", NEW d, d[1].msg = part.msg
  PROVE  BodyOK(d, 1, p, s)'
<1>1. n \in DOMAIN log' /\ log'[n] = call /\ Len(log') = n /\ n \in Nat
  BY AppendsOne
<1>2. Got(n, p, s)'
  BY NewCall DEF Reads
<1>3. log'[n].part = "header" /\ log'[n].msg = d[1].msg
  BY <1>1 DEF Reads
<1>4. \A k \in (n + 1)..Len(log') : ~ Got(k, p, s)'
  BY <1>1
<1>. QED BY <1>1, <1>2, <1>3, <1>4 DEF BodyOK

LEMMA Rest ==
  ASSUME NEW S, NEW c \in Seq(S), c # <<>>, NEW d, d = Tail(c), NEW l, l = Len(c)
  PROVE  /\ c[1] \in S /\ Head(c) = c[1] /\ l \in Nat /\ l >= 1 /\ DOMAIN c = 1..l /\ 1 \in DOMAIN c
         /\ d \in Seq(S) /\ Len(d) = l - 1 /\ DOMAIN d = 1..(l - 1)
         /\ \A k \in 1..(l - 1) : d[k] = c[k + 1]
<1>1. l \in Nat /\ l >= 1 /\ DOMAIN c = 1..l
  OBVIOUS
<1>2. c[1] \in S /\ 1 \in DOMAIN c /\ Head(c) = c[1]
  BY <1>1
<1>3. d \in Seq(S) /\ Len(d) = l - 1
  BY <1>1
<1>4. DOMAIN d = 1..(l - 1)
  BY <1>1, <1>3
<1>5. \A k \in 1..(l - 1) : d[k] = c[k + 1]
  BY <1>1
<1>. QED BY <1>1, <1>2, <1>3, <1>4, <1>5

LEMMA TailStays ==
  ASSUME TypeOK, NEW call, NEW n, Appends(call, n), NEW p, NEW s,
         NEW c \in Seq(Part), c # <<>>, OnItsWayOK(c, p, s), Reads(call, c[1], p, s),
         NEW d, d = Tail(c)
  PROVE  OnItsWayOK(d, p, s)'
<1>1. PICK l : l = Len(c)
  OBVIOUS
<1>2. l \in Nat /\ l >= 1 /\ DOMAIN c = 1..l
  BY <1>1
<1>3. d \in Seq(Part) /\ Len(d) = l - 1 /\ DOMAIN d = 1..(l - 1) /\ \A k \in 1..(l - 1) : d[k] = c[k + 1]
  BY <1>1, <1>2
<1>4. program' = program
  BY DEF Appends
<1>5. ASSUME NEW k \in 1..(l - 1)
      PROVE  FramedFirst(d[k].part)' /\ IF d[k].part = "body" THEN BodyOK(d, k, p, s)' ELSE FirstOK(d, k, p, s)'
  <2>1. PICK m : m = k + 1
    OBVIOUS
  <2>2. m \in 1..l /\ m # 1 /\ m - 1 = k /\ k \in Nat /\ k >= 1 /\ d[k] = c[m] /\ 1 \in 1..l
    BY <1>2, <1>3, <2>1
  <2>3. FramedFirst(c[m].part) /\ IF c[m].part = "body" THEN BodyOK(c, m, p, s) ELSE FirstOK(c, m, p, s)
    BY <1>2, <2>2 DEF OnItsWayOK
  <2>4. CASE c[m].part = "body"
    <3>1. c[k].part = "header" /\ c[k].msg = c[m].msg
      BY <2>2, <2>3, <2>4 DEF BodyOK
    <3>2. CASE k = 1
      <4>1. d[1].msg = c[1].msg /\ c[1].part = "header"
        BY <2>2, <3>1, <3>2
      <4>2. BodyOK(d, 1, p, s)'
        BY <4>1, HeaderNow
      <4>. QED BY <1>4, <2>2, <2>3, <2>4, <3>2, <4>2 DEF FramedFirst
    <3>3. CASE k # 1
      <4>1. k - 1 \in 1..(l - 1) /\ k - 1 + 1 = k
        BY <1>2, <2>2, <3>3
      <4>2. d[k - 1] = c[k]
        BY <1>3, <4>1
      <4>3. BodyOK(d, k, p, s)'
        BY <2>2, <3>1, <3>3, <4>2 DEF BodyOK
      <4>. QED BY <1>4, <2>2, <2>3, <2>4, <4>3 DEF FramedFirst
    <3>. QED BY <3>2, <3>3
  <2>5. CASE c[m].part # "body"
    <3>1. FirstOK(c, m, p, s)
      BY <2>3, <2>5
    <3>2. PICK x : x = c[m].msg
      OBVIOUS
    <3>3. /\ p # Client /\ x \in DOMAIN log /\ Sent(x, p, s)
          /\ \A i \in 1..(m - 1) : c[i].part # "body" => c[i].msg < x
          /\ \A j \in DOMAIN log : Opens(j, p, s) => log[j].msg < x
      BY <3>1, <3>2 DEF FirstOK
    <3>4. x \in DOMAIN log' /\ Sent(x, p, s)'
      BY <3>3, AppendsOne, OldCalls
    <3>5. c[1].part # "body" => c[1].msg < x
      BY <2>2, <3>3
    <3>6. \A j \in DOMAIN log' : Opens(j, p, s)' => log'[j].msg < x
      BY <3>3, <3>5, OpensNow
    <3>7. ASSUME NEW i \in 1..(k - 1), d[i].part # "body" PROVE d[i].msg < x
      <4>1. i \in 1..(l - 1) /\ i + 1 \in 1..(m - 1)
        BY <1>2, <2>1, <2>2
      <4>. QED BY <1>3, <3>3, <3>7, <4>1
    <3>8. d[k].msg = x
      BY <2>2, <3>2
    <3>9. FirstOK(d, k, p, s)'
      BY <3>3, <3>4, <3>6, <3>7, <3>8 DEF FirstOK
    <3>. QED BY <1>4, <2>2, <2>3, <2>5, <3>9 DEF FramedFirst
  <2>. QED BY <2>4, <2>5
<1>6. p = Client => Len(d) <= 1
  BY <1>1, <1>2, <1>3 DEF OnItsWayOK
<1>. QED BY <1>3, <1>5, <1>6 DEF OnItsWayOK

(* A receive that takes the first part of what is on its way.              *)
LEMMA ReadIsOK ==
  ASSUME TypeOK, LogInv, NEW call, NEW n, Appends(call, n), NEW p, NEW s,
         NEW c \in Seq(Part), c # <<>>, OnItsWayOK(c, p, s), Reads(call, c[1], p, s)
  PROVE  ReadOK(n)'
<1>1. PICK f : f = c[1]
  OBVIOUS
<1>2. f \in Part /\ 1 \in DOMAIN c
  BY <1>1
<1>3. /\ n \in Nat /\ n = Len(log) + 1 /\ log'[n] = call /\ program' = program
      /\ Len(log) \in Nat /\ DOMAIN log = 1..Len(log)
  BY AppendsOne DEF Appends
<1>4. call.kind = "recv" /\ call.svc = s /\ call.peer = p /\ call.part = f.part /\ call.msg = f.msg
  BY <1>1 DEF Reads
<1>5. FramedFirst(f.part) /\ IF f.part = "body" THEN BodyOK(c, 1, p, s) ELSE FirstOK(c, 1, p, s)
  BY <1>1, <1>2 DEF OnItsWayOK
<1>6. FramedFirst(f.part)' /\ f.part # "none"
  BY <1>2, <1>3, <1>5 DEF FramedFirst, Part
<1>7. CASE f.part = "body"
  <2>1. PICK h \in DOMAIN log : /\ Got(h, p, s) /\ log[h].part = "header" /\ log[h].msg = f.msg
                                /\ \A k \in (h + 1)..Len(log) : ~ Got(k, p, s)
    BY <1>1, <1>5, <1>7 DEF BodyOK
  <2>2. ReadOK(h) /\ log[h].kind = "recv" /\ log[h].peer = p /\ log[h].svc = s
    BY <2>1 DEF LogInv, Got
  <2>3. f.msg \in 1..h /\ (p # Client => f.msg < h /\ Sent(f.msg, p, s))
    BY <2>1, <2>2 DEF ReadOK
  <2>4. h \in Nat /\ h \in 1..(n - 1) /\ n - 1 = Len(log)
    BY <1>3
  <2>5. f.msg \in 1..n /\ f.msg \in DOMAIN log /\ f.msg < n
    BY <1>3, <2>3, <2>4
  <2>6. p # Client => Sent(f.msg, p, s)'
    BY <2>3, <2>5, OldCalls
  <2>7. HeaderOf(h, n, p, s)'
    <3>1. Got(h, p, s)' /\ log'[h] = log[h]
      BY <2>1, OldCalls, AppendsOne
    <3>2. \A k \in (h + 1)..(n - 1) : ~ Got(k, p, s)'
      <4>1. ASSUME NEW k \in (h + 1)..(n - 1) PROVE ~ Got(k, p, s)'
        <5>1. k \in DOMAIN log /\ k \in (h + 1)..Len(log)
          BY <1>3, <2>4
        <5>. QED BY <2>1, <5>1, OldCalls
      <4>. QED BY <4>1
    <3>. QED BY <1>3, <1>4, <2>1, <3>1, <3>2 DEF HeaderOf
  <2>. QED BY <1>3, <1>4, <1>6, <1>7, <2>4, <2>5, <2>6, <2>7 DEF ReadOK
<1>8. CASE f.part # "body"
  <2>1. p # Client /\ f.msg \in DOMAIN log /\ Sent(f.msg, p, s)
    BY <1>1, <1>5, <1>8 DEF FirstOK
  <2>2. Sent(f.msg, p, s)' /\ f.msg \in 1..n /\ f.msg < n
    BY <1>3, <2>1, OldCalls
  <2>. QED BY <1>3, <1>4, <1>6, <1>8, <2>1, <2>2 DEF ReadOK
<1>. QED BY <1>7, <1>8

Idle(p, s) == connection[p, s] = <<>>
Takes(p, s) == Read(s, p, connection[p, s])

LEMMA TakenKeeps ==
  ASSUME IInv, NEW s \in Services, NEW p \in Peers, ~ Idle(p, s),
         Takes(p, s), pc' \in [Services -> Nat \ {0}]
  PROVE  IInv'
<1>0. TypeOK /\ LogInv /\ ConnectionInv
  BY DEF IInv
<1>1. PICK n, c : n = Len(log) + 1 /\ c = connection[p, s]
  OBVIOUS
<1>2. PICK d, f, l : d = Tail(c) /\ f = c[1] /\ l = Len(c)
  OBVIOUS
<1>17. connection \in [Peers \X Services -> Seq(Part)] /\ <<p, s>> \in Peers \X Services
  BY <1>0 DEF TypeOK
<1>3. c \in Seq(Part) /\ c # <<>> /\ OnItsWayOK(c, p, s)
  BY <1>0, <1>1, <1>17 DEF ConnectionInv, Idle
<1>4. f \in Part /\ d \in Seq(Part) /\ Head(c) = f /\ l \in Nat /\ DOMAIN c = 1..l /\ 1 \in DOMAIN c
      /\ DOMAIN d = 1..(l - 1) /\ \A k \in 1..(l - 1) : d[k] = c[k + 1]
  <2>1. c \in Seq(Part) /\ c # <<>> /\ d = Tail(c) /\ f = c[1] /\ l = Len(c)
    BY <1>1, <1>2, <1>3
  <2>2. /\ f \in Part /\ Head(c) = f /\ l \in Nat /\ l >= 1 /\ DOMAIN c = 1..l /\ 1 \in DOMAIN c
        /\ d \in Seq(Part) /\ Len(d) = l - 1 /\ DOMAIN d = 1..(l - 1)
        /\ \A k \in 1..(l - 1) : d[k] = c[k + 1]
    BY <2>1, Rest
  <2>. QED BY <2>2
<1>5. Record(s, "recv", p, f.part, f.msg) /\ connection' = [connection EXCEPT ![<<p, s>>] = d]
  <2>1. Read(s, p, c)
    BY <1>1 DEF Takes
  <2>. QED BY <1>2, <1>4, <2>1 DEF Read
<1>6. PICK call : call = [svc |-> s, kind |-> "recv", peer |-> p, part |-> f.part, msg |-> f.msg]
  OBVIOUS
<1>7. f.part \in {"none", "whole", "header", "body"} /\ f.msg \in Nat
  BY <1>4 DEF Part
<1>8. Appends(call, n)
  BY <1>0, <1>1, <1>5, <1>6, <1>7, RecordAppends
<1>9. Reads(call, c[1], p, s)
  BY <1>2, <1>6 DEF Reads
<1>10. ReadOK(n)' /\ OnItsWayOK(d, p, s)'
  BY <1>0, <1>2, <1>3, <1>8, <1>9, ReadIsOK, TailStays
<1>11. LogInv'
  <2>1. ASSUME NEW p1 \in Services, NEW s1 \in Services, NEW j \in DOMAIN log,
               call.kind = "recv", call.svc = s1, call.peer = p1, call.part # "body", Opens(j, p1, s1)
        PROVE  log[j].msg < call.msg
    <3>1. p1 = p /\ s1 = s /\ f.part # "body" /\ call.msg = f.msg
      BY <1>6, <2>1
    <3>2. FirstOK(c, 1, p, s)
      BY <1>2, <1>3, <1>4, <3>1 DEF OnItsWayOK
    <3>. QED BY <1>2, <2>1, <3>1, <3>2 DEF FirstOK
  <2>. QED BY <1>0, <1>8, <1>10, <2>1, LogGrows
<1>12. OneChanged(d, p, s)
  BY <1>17, <1>5 DEF OneChanged
<1>13. connection' \in [Peers \X Services -> Seq(Part)]
  BY <1>17, <1>4, <1>5
<1>14. StillOnItsWay(call, connection[p, s], d, p, s)
  <2>1. ASSUME NEW m \in DOMAIN c, c[m].part # "body"
        PROVE  \/ \E k \in DOMAIN d : d[k] = c[m]
               \/ call.kind = "recv" /\ call.svc = s /\ call.peer = p /\ call.part # "body" /\ call.msg = c[m].msg
    <3>1. CASE m = 1
      BY <1>2, <1>6, <2>1, <3>1
    <3>2. CASE m # 1
      <4>1. m - 1 \in 1..(l - 1) /\ m - 1 + 1 = m
        <5>1. m \in 1..l /\ l \in Nat
          BY <1>4
        <5>. QED BY <3>2, <5>1
      <4>. QED BY <1>4, <4>1
    <3>. QED BY <3>1, <3>2
  <2>. QED BY <1>1, <2>1 DEF StillOnItsWay
<1>15. call.kind # "send" /\ call.svc = s /\ call.peer = p
  BY <1>6
<1>18. CallOn(call, n, d, p, s)
  BY <1>14, <1>15 DEF CallOn
<1>16. ConnectionInv'
  BY <1>8, <1>10, <1>12, <1>18, ConnectionsKept
<1>. QED BY <1>8, <1>11, <1>13, <1>16, ServerStepKeeps

(* A receive of a message that the client just sent.                       *)
LEMMA ArrivedKeeps ==
  ASSUME IInv, NEW s \in Services, NEW parts \in Parts(Len(log) + 1), Idle(Client, s),
         Read(s, Client, parts), pc' \in [Services -> Nat \ {0}]
  PROVE  IInv'
<1>0. TypeOK /\ LogInv /\ ConnectionInv /\ Client \in Peers /\ Client \notin Services
  BY ServicesAssumption DEF IInv, Peers
<1>1. PICK n, b : n = Len(log) + 1 /\ b = parts
  OBVIOUS
<1>2. PICK d, f, l : d = Tail(b) /\ f = b[1] /\ l = Len(b)
  OBVIOUS
<1>3. connection \in [Peers \X Services -> Seq(Part)] /\ <<Client, s>> \in Peers \X Services
  BY <1>0 DEF TypeOK
<1>4. n \in Nat /\ n # 0
  <2>1. log \in Seq(Call)
    BY <1>0 DEF TypeOK
  <2>2. Len(log) \in Nat
    BY <2>1
  <2>. QED BY <1>1, <2>2
<1>5. /\ b \in Seq(Part) /\ l \in 1..2 /\ b # <<>>
      /\ f.part # "body" /\ f.msg = n /\ FramedFirst(f.part)
      /\ l = 2 => f.part = "header" /\ b[2].part = "body" /\ b[2].msg = n
  <2>1. b \in Parts(n)
    BY <1>1
  <2>2. /\ b \in Seq(Part) /\ Len(b) \in 1..2 /\ b # <<>>
        /\ b[1].part # "body" /\ b[1].msg = n /\ FramedFirst(b[1].part)
        /\ Len(b) = 2 => b[1].part = "header" /\ b[2].part = "body" /\ b[2].msg = n
    BY <1>4, <2>1, PartsAre
  <2>. QED BY <1>2, <2>2
<1>6. f \in Part /\ d \in Seq(Part) /\ Head(b) = f /\ DOMAIN d = 1..(l - 1)
      /\ Len(d) = l - 1 /\ \A k \in 1..(l - 1) : d[k] = b[k + 1]
  <2>1. b \in Seq(Part) /\ b # <<>> /\ d = Tail(b) /\ f = b[1] /\ l = Len(b)
    BY <1>2, <1>5
  <2>. QED BY <2>1, Rest
<1>7. Record(s, "recv", Client, f.part, f.msg) /\ connection' = [connection EXCEPT ![<<Client, s>>] = d]
  BY <1>1, <1>2, <1>6 DEF Read
<1>8. PICK call : call = [svc |-> s, kind |-> "recv", peer |-> Client, part |-> f.part, msg |-> f.msg]
  OBVIOUS
<1>9. f.part \in {"none", "whole", "header", "body"} /\ f.msg \in Nat /\ f.part # "none"
  BY <1>6 DEF Part
<1>10. Appends(call, n)
  BY <1>0, <1>1, <1>7, <1>8, <1>9, RecordAppends
<1>11. Reads(call, f, Client, s)
  BY <1>8 DEF Reads
<1>12. ReadOK(n)'
  <2>1. log'[n] = call /\ program' = program
    BY <1>0, <1>10, AppendsOne DEF Appends
  <2>2. FramedFirst(f.part)'
    BY <1>5, <2>1 DEF FramedFirst
  <2>3. f.msg \in 1..n
    BY <1>4, <1>5
  <2>. QED BY <1>5, <1>8, <1>9, <2>1, <2>2, <2>3 DEF ReadOK
<1>13. OnItsWayOK(d, Client, s)'
  <2>1. Len(d) <= 1
    BY <1>5, <1>6
  <2>2. ASSUME NEW k \in DOMAIN d
        PROVE  FramedFirst(d[k].part)' /\ d[k].part = "body" /\ BodyOK(d, k, Client, s)'
    <3>1. k = 1 /\ l = 2 /\ d[1] = b[2]
      <4>1. k \in 1..(l - 1) /\ l \in 1..2
        BY <1>5, <1>6
      <4>2. k = 1 /\ l = 2
        BY <4>1
      <4>. QED BY <1>6, <4>2
    <3>2. f.part = "header" /\ d[1].part = "body" /\ d[1].msg = f.msg
      BY <1>5, <3>1
    <3>3. BodyOK(d, 1, Client, s)'
      BY <1>0, <1>10, <1>11, <3>2, HeaderNow
    <3>. QED BY <3>1, <3>2, <3>3 DEF FramedFirst
  <2>. QED BY <2>1, <2>2 DEF OnItsWayOK
<1>14. LogInv'
  <2>1. \A p1 \in Services : call.peer # p1
    BY <1>0, <1>8
  <2>. QED BY <1>0, <1>10, <1>12, <2>1, LogGrows
<1>15. OneChanged(d, Client, s)
  BY <1>3, <1>7 DEF OneChanged
<1>16. connection' \in [Peers \X Services -> Seq(Part)]
  BY <1>3, <1>6, <1>7
<1>17. StillOnItsWay(call, connection[Client, s], d, Client, s)
  <2>1. PICK c : c = connection[Client, s]
    OBVIOUS
  <2>2. c = <<>>
    BY <2>1 DEF Idle
  <2>3. DOMAIN c = {}
    BY <2>2
  <2>. QED BY <2>1, <2>3 DEF StillOnItsWay
<1>18. call.kind # "send" /\ call.svc = s /\ call.peer = Client
  BY <1>8
<1>20. CallOn(call, n, d, Client, s)
  BY <1>17, <1>18 DEF CallOn
<1>19. ConnectionInv'
  BY <1>0, <1>10, <1>13, <1>15, <1>20, ConnectionsKept
<1>. QED BY <1>10, <1>14, <1>16, <1>19, ServerStepKeeps

LEMMA ReceiveKeeps ==
  ASSUME IInv, NEW s \in Services, Receive(s)
  PROVE  IInv'
<1>0. TypeOK
  BY DEF IInv
<1>1. PICK p : p = Peer(s)
  OBVIOUS
<1>2. PICK parts \in Arrived(s, p) : parts # <<>> /\ Read(s, p, parts)
  BY <1>1 DEF Receive
<1>3. pc' \in [Services -> Nat \ {0}] /\ p \in Peers
  BY <1>0, <1>1, StepDone DEF Receive
<1>4. CASE p = Client /\ connection[p, s] = <<>>
  <2>1. parts \in Parts(Len(log) + 1)
    BY <1>2, <1>4 DEF Arrived
  <2>2. Read(s, Client, parts) /\ Idle(Client, s)
    BY <1>2, <1>4 DEF Idle
  <2>. QED BY <1>3, <2>1, <2>2, ArrivedKeeps
<1>5. CASE ~ (p = Client /\ connection[p, s] = <<>>)
  <2>1. parts = connection[p, s]
    BY <1>2, <1>5 DEF Arrived
  <2>2. Takes(p, s) /\ ~ Idle(p, s)
    BY <1>2, <2>1 DEF Idle, Takes
  <2>. QED BY <1>3, <2>2, TakenKeeps
<1>. QED BY <1>4, <1>5

LEMMA ReceiveBodyKeeps ==
  ASSUME IInv, NEW s \in Services, NEW p \in Peers, ReceiveBody(s, p)
  PROVE  IInv'
<1>1. ~ Idle(p, s) /\ Takes(p, s) /\ pc' = pc
  BY DEF ReceiveBody, Idle, Takes
<1>2. pc' \in [Services -> Nat \ {0}]
  BY <1>1 DEF IInv, TypeOK
<1>. QED BY <1>1, <1>2, TakenKeeps

LEMMA InitHolds ==
  ASSUME Init
  PROVE  IInv
<1>1. log = <<>> /\ phase = "running" /\ program \in Programs
      /\ connection = [p \in Peers \X Services |-> <<>>] /\ pc = [s \in Services |-> 1]
  BY DEF Init
<1>2. DOMAIN log = {} /\ log \in Seq(Call)
  BY <1>1
<1>3. \A p \in Peers, s \in Services : <<p, s>> \in Peers \X Services
  OBVIOUS
<1>4. \A p \in Peers, s \in Services : connection[p, s] = <<>>
  BY <1>1, <1>3
<1>5. connection \in [Peers \X Services -> Seq(Part)]
  <2>1. <<>> \in Seq(Part)
    OBVIOUS
  <2>. QED BY <1>1, <2>1
<1>6. pc \in [Services -> Nat \ {0}]
  BY <1>1
<1>7. TypeOK
  BY <1>1, <1>2, <1>5, <1>6 DEF TypeOK
<1>8. LogInv
  BY <1>2 DEF LogInv, ReadInOrder
<1>9. ConnectionInv
  <2>1. PICK c : c = <<>>
    OBVIOUS
  <2>2. DOMAIN c = {} /\ Len(c) <= 1
    BY <2>1
  <2>3. \A p, s : OnItsWayOK(c, p, s)
    BY <2>2 DEF OnItsWayOK
  <2>4. \A p \in Peers, s \in Services : connection[p, s] = c
    BY <1>4, <2>1
  <2>5. \A p \in Peers, s \in Services : OnItsWayOK(connection[p, s], p, s)
    BY <2>3, <2>4
  <2>. QED BY <1>2, <2>5 DEF ConnectionInv
<1>10. PhaseInv
  BY <1>1 DEF PhaseInv
<1>. QED BY <1>7, <1>8, <1>9, <1>10 DEF IInv

LEMMA NextKeeps == ASSUME IInv, [Next]_vars PROVE IInv'
<1>1. CASE \E s \in Services : Op(s) \/ Send(s) \/ Receive(s) \/ \E p \in Peers : ReceiveBody(s, p)
  <2>1. PICK s \in Services : Op(s) \/ Send(s) \/ Receive(s) \/ \E p \in Peers : ReceiveBody(s, p)
    BY <1>1
  <2>2. CASE Op(s)
    BY <2>2, OpKeeps
  <2>3. CASE Send(s)
    BY <2>3, SendKeeps
  <2>4. CASE Receive(s)
    BY <2>4, ReceiveKeeps
  <2>5. CASE \E p \in Peers : ReceiveBody(s, p)
    BY <2>5, ReceiveBodyKeeps
  <2>. QED BY <2>1, <2>2, <2>3, <2>4, <2>5
<1>2. CASE CreateSyscalls
  BY <1>2, CreateSyscallsKeeps
<1>3. CASE Dependencies
  BY <1>3, DependenciesKeeps
<1>4. CASE Reduction
  BY <1>4, ReductionStepKeeps
<1>5. CASE Stopped \/ UNCHANGED vars
  BY <1>5, StutterKeeps DEF Stopped
<1>. QED BY <1>1, <1>2, <1>3, <1>4, <1>5 DEF Next

-----------------------------------------------------------------------------
(* Each body is read after the header of the same message, each message    *)
(* after it was sent, and those between two servers in the order they were *)
(* sent; every message to a traced server is on its way or was read.  This *)
(* is what lets format_sendrecv pair the n-th send with the n-th receive.  *)
THEOREM MessagesAreRead == Spec => [](LogInv /\ ConnectionInv)
<1>1. Init => IInv
  BY InitHolds
<1>2. IInv /\ [Next]_vars => IInv'
  BY NextKeeps
<1>3. IInv => LogInv /\ ConnectionInv
  BY DEF IInv
<1>. QED BY <1>1, <1>2, <1>3, PTL DEF Spec

(* Whatever the servers, their programs and the order of their calls,     *)
(* unless the first file system call cuts a message (StartsQuiet): two     *)
(* file system calls are ordered in the reduced graph exactly when one     *)
(* happened before the other, and reduction finds no cycle                 *)
(* (format_sendrecv, ExecGraph.dependencies and reduction).                *)
THEOREM KeepsOrder == Spec => []HappensBeforeKept
<1>1. Init => IInv
  BY InitHolds
<1>2. IInv /\ [Next]_vars => IInv'
  BY NextKeeps
<1>3. IInv => HappensBeforeKept
  BY OrderIsKept
<1>. QED BY <1>1, <1>2, <1>3, PTL DEF Spec
=============================================================================
