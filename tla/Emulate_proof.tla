---------------------------- MODULE Emulate_proof ----------------------------
(***************************************************************************)
(* Proofs about Emulate, for any calls, servers, crash states and initial  *)
(* disks: types, the invariant behind the incremental mode, and that every *)
(* check implements a check of ExactReplay.                                *)
(***************************************************************************)
EXTENDS Emulate, TLAPS

Replays(q, S, s) == Abstract!Replays(q, S, s)

(* A server's disk holds the calls q of crash_state that are not to do, and *)
(* those come before all that are.                                         *)
Partial(q, s) ==
    /\ Abstract!InOrder(q)
    /\ Abstract!Performed(q) \cup Abstract!CallsOf(todo, s) = Abstract!CallsOf(crash_state, s)
    /\ \A p \in Abstract!Performed(q), d \in Abstract!CallsOf(todo, s) : p < d

Servers_Up == running = Service \/ (fstype # "beegfs" /\ pc \in {"restore", "emulate", "raised"})

Idle ==
    (pc = "idle" /\ last_state # None) =>
        view = disk /\ \A s \in Service : Replays(disk[s].calls, last_state, s)

Restoring ==
    pc = "restore" =>
        /\ todo = {c \in crash_state : svc[c] \in ToRestart(blocklist)}
        /\ \A s \in Service \ ToRestart(blocklist) :
              view[s] = disk[s] /\ Replays(disk[s].calls, crash_state, s)

Emulating ==
    pc = "emulate" =>
        /\ \A s \in Service : Partial(disk[s].calls, s)
        /\ \A s \in Service \ ToRestart(blocklist) :
              view[s] = disk[s] /\ Abstract!CallsOf(todo, s) = {}

Checking ==
    pc = "check" => view = disk /\ \A s \in Service : Replays(disk[s].calls, crash_state, s)

Kept ==
    /\ \A s \in Service : AsRecorded(disk[s], s)
    /\ fstype # "beegfs" => \A s \in Service : disk[s].kept = {}

TestsState == pc \in {"restore", "emulate", "check"} => crash_state \in Tested

IInv ==
    /\ TypeOK /\ TestsState /\ Kept
    /\ Servers_Up /\ Idle /\ Restoring /\ Emulating /\ Checking /\ OnlyGapsRaise
-----------------------------------------------------------------------------
USE CallAssumption, SvcAssumption, TestedAssumption, TreesAssumption

(* Renaming or making directories (real_perform) leads to paths again.     *)
LEMMA ResultType == ASSUME NEW t \in Tree, NEW o \in Operation PROVE Result(t, o) \in Tree
<1>1. o.path \in Path /\ o.to \in Path
  BY DEF Operation
<1>2. UpTo(o.path) \subseteq Path
  BY <1>1 DEF UpTo, Path
<1>3. \A p \in Path : Moved(p, o) \in Path
  <2>. SUFFICES ASSUME NEW p \in Seq(Name), Len(o.path) \in Nat PROVE Moved(p, o) \in Seq(Name)
    BY <1>1 DEF Path
  <2>1. SubSeq(p, Len(o.path) + 1, Len(p)) \in Seq(Name)
    OBVIOUS
  <2>. QED BY <1>1, <2>1 DEF Moved, Path
<1>4. Applied(t, o) \in Tree
  <2>. HIDE DEF Path
  <2>. QED BY <1>1, <1>2, <1>3 DEF Applied, Tree
<1>. QED BY <1>4 DEF Result

(* A disk that performed all earlier calls of a server is as it was when   *)
(* the next one was recorded: that call performs (RecordedAssumption).     *)
LEMMA NextPerforms ==
    ASSUME NEW d, NEW c \in Call, AsRecorded(d, svc[c]), d.kept = {},
           Abstract!Performed(d.calls) = Earlier(c)
    PROVE  Performs(d.tree, op[c]) /\ Result(d.tree, op[c]) = recorded[c]
<1>1. \A p \in Earlier(c) : p \in Call /\ p < c /\ svc[p] = svc[c]
  BY DEF Earlier
<1>2. \A p \in Earlier(c) : Earlier(p) \subseteq Earlier(c)
  <2>. SUFFICES ASSUME NEW p \in Earlier(c), NEW q \in Earlier(p) PROVE q \in Earlier(c)
    OBVIOUS
  <2>1. q \in Call /\ q < p /\ svc[q] = svc[c]
    BY <1>1 DEF Earlier
  <2>. QED BY <1>1, <2>1 DEF Earlier
<1>3. d.tree = RecordedTree(Earlier(c), svc[c])
  BY <1>2 DEF AsRecorded
<1>. QED BY <1>3, RecordedAssumption


(* Performing a call (emulate's loop) adds exactly that call to its disk.  *)
LEMMA AppendPerformed ==
    ASSUME NEW q \in Seq(Call), NEW c \in Call
    PROVE  /\ Append(q, c) \in Seq(Call)
           /\ Abstract!Performed(Append(q, c)) = Abstract!Performed(q) \cup {c}
<1>1. DOMAIN Append(q, c) = DOMAIN q \cup {Len(q) + 1} /\ DOMAIN q = 1 .. Len(q)
  OBVIOUS
<1>2. /\ \A i \in DOMAIN q : Append(q, c)[i] = q[i]
      /\ Append(q, c)[Len(q) + 1] = c
  OBVIOUS
<1>. QED BY <1>1, <1>2 DEF Abstract!Performed

(* Performing the smallest call left, emulate keeps the disk in order.     *)
LEMMA AppendInOrder ==
    ASSUME NEW q \in Seq(Call), NEW c \in Call,
           Abstract!InOrder(q), \A p \in Abstract!Performed(q) : p < c
    PROVE  Abstract!InOrder(Append(q, c))
<1>1. DOMAIN Append(q, c) = DOMAIN q \cup {Len(q) + 1} /\ DOMAIN q = 1 .. Len(q)
  OBVIOUS
<1>2. /\ \A i \in DOMAIN q : Append(q, c)[i] = q[i] /\ q[i] < c
      /\ Append(q, c)[Len(q) + 1] = c
  BY DEF Abstract!Performed
<1>3. SUFFICES ASSUME NEW i \in DOMAIN Append(q, c), NEW j \in DOMAIN Append(q, c), i < j
               PROVE  Append(q, c)[i] < Append(q, c)[j]
  BY DEF Abstract!InOrder
<1>4. i \in DOMAIN q
  BY <1>1, <1>3
<1>5. CASE j \in DOMAIN q
  BY <1>2, <1>3, <1>4, <1>5 DEF Abstract!InOrder
<1>6. CASE j = Len(q) + 1
  BY <1>2, <1>4, <1>6
<1>. QED BY <1>1, <1>5, <1>6

(* After emulate performed c, the disk is as recorded when it was before.  *)
LEMMA AppendAsRecorded ==
    ASSUME NEW d, NEW c \in Call, NEW e,
           AsRecorded(d, svc[c]), e.kept = d.kept, e.tree = Result(d.tree, op[c]),
           Abstract!Performed(e.calls) = Abstract!Performed(d.calls) \cup {c},
           \A p \in Abstract!Performed(d.calls) : p \in Call /\ svc[p] = svc[c] /\ p < c
    PROVE  AsRecorded(e, svc[c])
<1>. DEFINE P == Abstract!Performed(d.calls)
<1>1. SUFFICES ASSUME d.kept = {}, \A p \in P \cup {c} : Earlier(p) \subseteq P \cup {c}
               PROVE  e.tree = RecordedTree(P \cup {c}, svc[c])
  BY DEF AsRecorded
<1>2. P = Earlier(c)
  <2>1. P \subseteq Earlier(c)
    BY DEF Earlier
  <2>2. Earlier(c) \subseteq P
    BY <1>1 DEF Earlier
  <2>. QED BY <2>1, <2>2
<1>3. e.tree = recorded[c]
  BY <1>1, <1>2, NextPerforms
<1>4. Max(P \cup {c}) = c
  <2>1. \A p \in P \cup {c} : p \in Nat /\ c >= p
    <3>. SUFFICES ASSUME NEW p \in P PROVE p \in Nat /\ c >= p
      OBVIOUS
    <3>1. p \in Call /\ p < c
      OBVIOUS
    <3>2. p \in Nat /\ c \in Nat
      BY <3>1
    <3>. QED BY <3>1, <3>2
  <2>2. \A x \in P \cup {c} : (\A y \in P \cup {c} : x >= y) => x = c
    BY <2>1
  <2>. QED BY <2>1, <2>2 DEF Max
<1>. QED BY <1>3, <1>4 DEF RecordedTree

(* Servers that do not differ from the remembered state hold the same      *)
(* calls in both states (diff_servers).                                    *)
LEMMA SameOnOtherServers ==
    ASSUME NEW S \in SUBSET Call, NEW T \in SUBSET Call,
           NEW s \in Service, s \notin DiffServers(S, T)
    PROVE  Abstract!CallsOf(S, s) = Abstract!CallsOf(T, s)
BY DEF DiffServers, Servers, Abstract!CallsOf

-----------------------------------------------------------------------------
(* The invariant holds when pfs_check begins.                              *)
LEMMA InitIInv == Init => IInv
<1>. SUFFICES ASSUME Init PROVE IInv
  OBVIOUS
<1>1. TypeOK
  BY InitialDisksAssumption DEF Init, TypeOK, FsType, Disk
<1>2. Kept
  BY InitialDisksAssumption DEF Init, Kept
<1>. QED BY <1>1, <1>2 DEF Init, IInv, TestsState, Servers_Up, Idle, Restoring, Emulating,
                     Checking, OnlyGapsRaise

(* The list of servers and the calls to do, for a state S about to be      *)
(* tested, leave every server that is not restarted as it should be.       *)
LEMMA BeginIInv ==
    ASSUME IInv, NEW S \in Tested, Begin(S)
    PROVE  IInv'
<1>. USE DEF IInv
<1>1. S \in SUBSET Call /\ crash_state' = S /\ blocklist' = Blocklist(S)
  BY DEF Begin
<1>2. Blocklist(S) \in (SUBSET Service) \cup {None}
  BY <1>1 DEF Blocklist, DiffServers, Servers, TypeOK
<1>3. TypeOK'
  BY <1>1, <1>2 DEF Begin, TypeOK
<1>4. /\ pc = "idle" /\ running = Service
      /\ running' = IF fstype = "beegfs" THEN running ELSE {}
      /\ fstype' = fstype /\ is_inc' = is_inc /\ last_state' = last_state
      /\ disk' = disk /\ view' = view
      /\ pc' = IF Incremental(S) THEN "emulate" ELSE "restore"
      /\ todo' = {c \in IF Incremental(S) THEN S \ last_state ELSE S :
                      svc[c] \in ToEmulate(blocklist', S)}
  BY DEF Begin, Servers_Up
<1>5. Servers_Up' /\ Idle' /\ Checking' /\ OnlyGapsRaise' /\ TestsState' /\ Kept'
  BY <1>1, <1>4 DEF Servers_Up, Idle, Checking, OnlyGapsRaise, TestsState, Kept, AsRecorded
<1>6. ASSUME blocklist' # None
      PROVE  /\ is_inc /\ last_state # None /\ last_state \in SUBSET Call
             /\ blocklist' = DiffServers(last_state, S)
             /\ view = disk
             /\ \A s \in Service : Abstract!Replays(disk[s].calls, last_state, s)
  BY <1>1, <1>4, <1>6 DEF Blocklist, Idle, Replays, TypeOK
<1>7. ASSUME NEW s \in Service \ ToRestart(blocklist')
      PROVE  /\ view[s] = disk[s]
             /\ Abstract!Replays(disk[s].calls, S, s)
             /\ Abstract!CallsOf(S \ last_state, s) = {}
  <2>1. blocklist' # None /\ s \notin DiffServers(last_state, S)
    BY <1>6, <1>7 DEF ToRestart
  <2>2. Abstract!CallsOf(last_state, s) = Abstract!CallsOf(S, s)
    BY <1>1, <1>6, <2>1, SameOnOtherServers
  <2>3. Abstract!CallsOf(S \ last_state, s) = {}
    BY <2>2 DEF Abstract!CallsOf
  <2>. QED BY <1>6, <2>1, <2>2, <2>3 DEF Abstract!Replays
<1>8. Restoring'
  <2>1. SUFFICES ASSUME ~ Incremental(S)
                 PROVE  todo' = {c \in S : svc[c] \in ToRestart(blocklist')}
    BY <1>1, <1>4, <1>7 DEF Restoring, Replays
  <2>2. ToEmulate(blocklist', S) \cap Servers(S) = ToRestart(blocklist') \cap Servers(S)
    <3>1. CASE blocklist' = None
      BY <1>1, <3>1 DEF ToEmulate, ToRestart, Servers
    <3>2. CASE blocklist' # None
      <4>1. last_state # S
        BY <1>6, <2>1, <3>2 DEF Incremental, ContainsState
      <4>2. blocklist' # {}
        <5>1. PICK c \in (last_state \ S) \cup (S \ last_state) : TRUE
          BY <1>1, <1>6, <3>2, <4>1
        <5>2. svc[c] \in DiffServers(last_state, S)
          BY <5>1 DEF DiffServers, Servers
        <5>. QED BY <1>6, <3>2, <5>2
      <4>. QED BY <3>2, <4>2 DEF ToEmulate, ToRestart
    <3>. QED BY <3>1, <3>2
  <2>3. \A c \in S : svc[c] \in Servers(S)
    BY DEF Servers
  <2>. QED BY <1>4, <2>1, <2>2, <2>3
<1>9. Emulating'
  <2>1. SUFFICES ASSUME Incremental(S)
                 PROVE  /\ \A s \in Service : Partial(disk[s].calls, s)'
                        /\ \A s \in Service \ ToRestart(blocklist') :
                              view[s] = disk[s] /\ Abstract!CallsOf(todo', s) = {}
    BY <1>1, <1>4 DEF Emulating
  <2>2. last_state # None /\ last_state \subseteq S /\ last_state \in SUBSET Call
        /\ \A t \in last_state : \A c \in S \ last_state : t < c
    BY <1>1, <2>1 DEF Incremental, ContainsState, TypeOK
  <2>3. \A s \in Service : Abstract!Replays(disk[s].calls, last_state, s)
    BY <1>4, <2>2 DEF Idle, Replays
  <2>4. todo' = S \ last_state
    <3>1. \A c \in S \ last_state : svc[c] \in DiffServers(last_state, S) \cap Servers(S)
      BY DEF DiffServers, Servers
    <3>. QED BY <1>1, <1>4, <2>1, <3>1 DEF ToEmulate, Blocklist, Servers
  <2>5. ASSUME NEW s \in Service PROVE Partial(disk[s].calls, s)'
    <3>1. /\ Abstract!InOrder(disk[s].calls)
          /\ Abstract!Performed(disk[s].calls) = Abstract!CallsOf(last_state, s)
      BY <2>3 DEF Abstract!Replays
    <3>2. /\ Abstract!CallsOf(last_state, s) \cup Abstract!CallsOf(S \ last_state, s)
                = Abstract!CallsOf(S, s)
          /\ \A p \in Abstract!CallsOf(last_state, s),
                d \in Abstract!CallsOf(S \ last_state, s) : p < d
      BY <2>2 DEF Abstract!CallsOf
    <3>. QED BY <1>1, <1>4, <2>4, <3>1, <3>2 DEF Partial
  <2>. QED BY <1>4, <1>7, <2>4, <2>5
<1>. QED BY <1>3, <1>5, <1>8, <1>9

(* restore_snapshot: no calls, and the snapshot where nothing was kept.    *)
LEMMA RestoredDisk ==
    ASSUME TypeOK, NEW s \in Service
    PROVE  /\ Restored(s) \in Disk /\ Restored(s).calls = << >>
           /\ AsRecorded(Restored(s), s)
           /\ fstype # "beegfs" => Restored(s).kept = {}
<1>1. disk[s] \in Disk /\ Snapshot[s] \in Tree
  BY DEF TypeOK
<1>2. Restored(s) \in Disk
  <2>. HIDE DEF Path
  <2>1. << >> \in Seq(Call)
    OBVIOUS
  <2>. QED BY <1>1, <2>1 DEF Restored, Disk, Tree
<1>3. Restored(s).calls = << >> /\ (fstype # "beegfs" => Restored(s).kept = {})
  BY DEF Restored
<1>4. ASSUME Restored(s).kept = {} PROVE Restored(s).tree = Snapshot[s]
  BY <1>1, <1>4 DEF Restored, Tree
<1>5. AsRecorded(Restored(s), s)
  BY <1>3, <1>4 DEF AsRecorded, RecordedTree, Abstract!Performed
<1>. QED BY <1>2, <1>3, <1>5

(* Restoring the snapshot leaves every server with all its calls to do, or *)
(* with none.                                                              *)
LEMMA RestoreIInv == IInv /\ Restore => IInv'
<1>. SUFFICES ASSUME IInv, Restore PROVE IInv'
  OBVIOUS
<1>. USE DEF IInv
<1>0. ASSUME NEW s \in Service
      PROVE  /\ Restored(s) \in Disk /\ Restored(s).calls = << >>
             /\ AsRecorded(Restored(s), s)
             /\ fstype # "beegfs" => Restored(s).kept = {}
  BY RestoredDisk
<1>1. TypeOK'
  BY <1>0 DEF Restore, TypeOK
<1>a. Kept'
  <2>1. ASSUME NEW s \in Service
        PROVE  AsRecorded(disk'[s], s) /\ (fstype # "beegfs" => disk'[s].kept = {})
    BY <1>0 DEF Restore, Kept
  <2>. QED BY <2>1 DEF Restore, Kept, AsRecorded
<1>2. Servers_Up' /\ Idle' /\ Checking' /\ OnlyGapsRaise' /\ TestsState' /\ Restoring'
  BY DEF Restore, Servers_Up, Idle, Checking, OnlyGapsRaise, TestsState, Restoring
<1>3. ASSUME NEW s \in Service
      PROVE  /\ Partial(disk[s].calls, s)'
             /\ s \notin ToRestart(blocklist) =>
                   view[s] = disk'[s] /\ Abstract!CallsOf(todo, s) = {}
  <2>1. todo = {c \in crash_state : svc[c] \in ToRestart(blocklist)}
    BY DEF Restore, Restoring
  <2>2. CASE s \in ToRestart(blocklist)
    <3>1. disk'[s].calls = << >>
      BY <1>0, <2>2 DEF Restore
    <3>2. Abstract!InOrder(<< >>) /\ Abstract!Performed(<< >>) = {}
      BY DEF Abstract!InOrder, Abstract!Performed
    <3>3. Abstract!CallsOf(todo, s) = Abstract!CallsOf(crash_state, s)
      BY <2>1, <2>2 DEF Abstract!CallsOf
    <3>. QED BY <2>2, <3>1, <3>2, <3>3 DEF Partial, Restore
  <2>3. CASE s \notin ToRestart(blocklist)
    <3>1. /\ view[s] = disk[s] /\ disk'[s] = disk[s]
          /\ Abstract!InOrder(disk[s].calls)
          /\ Abstract!Performed(disk[s].calls) = Abstract!CallsOf(crash_state, s)
      BY <2>3 DEF Restore, Restoring, Replays, Abstract!Replays
    <3>2. Abstract!CallsOf(todo, s) = {}
      BY <2>1, <2>3 DEF Abstract!CallsOf
    <3>. QED BY <3>1, <3>2 DEF Partial, Restore
  <2>. QED BY <2>2, <2>3
<1>4. Emulating'
  BY <1>3 DEF Restore, Emulating
<1>. QED BY <1>1, <1>a, <1>2, <1>4

(* The smallest call to do is performed after all others of its server, or *)
(* raises because crash_state lacks a call or the disk kept a directory.   *)
LEMMA PerformIInv == IInv /\ Perform => IInv'
<1>. SUFFICES ASSUME IInv, Perform PROVE IInv'
  OBVIOUS
<1>. USE DEF IInv
<1>1. PICK c \in todo :
        /\ IsFirst(c)
        /\ IF Performs(disk[svc[c]].tree, op[c])
           THEN /\ disk' = [disk EXCEPT ![svc[c]].calls = Append(@, c),
                                        ![svc[c]].tree = Result(@, op[c])]
                /\ todo' = todo \ {c}
                /\ pc' = pc
           ELSE pc' = "raised" /\ disk' = disk /\ todo' = todo
  BY DEF Perform
<1>2. /\ c \in Call /\ c \in crash_state /\ svc[c] \in Service
      /\ \A d \in todo : c <= d
      /\ Partial(disk[svc[c]].calls, svc[c])
      /\ disk[svc[c]] \in Disk
  BY <1>1 DEF Perform, TypeOK, IsFirst, Emulating
<1>3. /\ pc = "emulate"
      /\ fstype' = fstype /\ is_inc' = is_inc /\ last_state' = last_state
      /\ crash_state' = crash_state /\ blocklist' = blocklist /\ running' = running
      /\ view' = view /\ checked' = checked /\ seen' = seen
  BY DEF Perform
<1>. DEFINE P == Abstract!Performed(disk[svc[c]].calls)
<1>4. /\ c \in Abstract!CallsOf(todo, svc[c])
      /\ \A p \in P : p \in Call /\ svc[p] = svc[c] /\ p < c
  <2>1. c \in Abstract!CallsOf(todo, svc[c])
    BY DEF Abstract!CallsOf
  <2>2. \A p \in P : p < c /\ p \in Abstract!CallsOf(crash_state, svc[c])
    BY <1>2, <2>1 DEF Partial
  <2>. QED BY <2>1, <2>2 DEF Abstract!CallsOf, TypeOK
<1>5. CASE Performs(disk[svc[c]].tree, op[c])
  <2>1. /\ Append(disk[svc[c]].calls, c) \in Seq(Call)
        /\ Abstract!Performed(Append(disk[svc[c]].calls, c)) = P \cup {c}
    BY <1>2, AppendPerformed DEF Disk
  <2>2. Result(disk[svc[c]].tree, op[c]) \in Tree
    BY <1>2, ResultType DEF Disk
  <2>3. /\ disk'[svc[c]] = [calls |-> Append(disk[svc[c]].calls, c),
                            kept |-> disk[svc[c]].kept,
                            tree |-> Result(disk[svc[c]].tree, op[c])]
        /\ \A s \in Service \ {svc[c]} : disk'[s] = disk[s]
        /\ DOMAIN disk' = Service
        /\ disk' = [s \in Service |-> disk'[s]]
    BY <1>1, <1>2, <1>5 DEF TypeOK, Disk
  <2>4. \A s \in Service : disk'[s] \in Disk
    <3>1. disk'[svc[c]] \in Disk
      <4>1. disk[svc[c]].kept \in SUBSET Path
        BY <1>2 DEF Disk
      <4>. HIDE DEF Path, Tree
      <4>. QED BY <2>1, <2>2, <2>3, <4>1 DEF Disk
    <3>2. ASSUME NEW s \in Service \ {svc[c]} PROVE disk'[s] \in Disk
      BY <2>3 DEF TypeOK
    <3>. QED BY <3>1, <3>2
  <2>5. TypeOK'
    BY <1>1, <1>3, <1>5, <2>3, <2>4 DEF TypeOK
  <2>6. AsRecorded(disk'[svc[c]], svc[c])
    <3>1. AsRecorded(disk[svc[c]], svc[c])
      BY <1>2 DEF Kept
    <3>2. disk'[svc[c]].kept = disk[svc[c]].kept
          /\ disk'[svc[c]].tree = Result(disk[svc[c]].tree, op[c])
          /\ Abstract!Performed(disk'[svc[c]].calls) = P \cup {c}
      BY <2>1, <2>3
    <3>. QED BY <1>2, <1>4, <3>1, <3>2, AppendAsRecorded
  <2>7. Kept'
    <3>1. ASSUME NEW s \in Service PROVE AsRecorded(disk'[s], s) /\ disk'[s].kept = disk[s].kept
      <4>1. CASE s = svc[c]
        <5>1. disk'[s].kept = disk[s].kept
          BY <2>3, <4>1
        <5>. QED BY <2>6, <4>1, <5>1
      <4>2. CASE s # svc[c]
        <5>1. disk'[s] = disk[s]
          BY <2>3, <4>2
        <5>. QED BY <5>1 DEF Kept
      <4>. QED BY <4>1, <4>2
    <3>. QED BY <1>3, <3>1 DEF Kept, AsRecorded
  <2>8. TestsState' /\ Servers_Up' /\ Idle' /\ Restoring' /\ Checking' /\ OnlyGapsRaise'
    BY <1>1, <1>3, <1>5
       DEF TestsState, Servers_Up, Idle, Restoring, Checking, OnlyGapsRaise
  <2>9. ASSUME NEW s \in Service
        PROVE  /\ Partial(disk[s].calls, s)'
               /\ s \notin ToRestart(blocklist) =>
                     view[s] = disk'[s] /\ Abstract!CallsOf(todo', s) = {}
    <3>1. /\ Partial(disk[s].calls, s)
          /\ s \notin ToRestart(blocklist) =>
                view[s] = disk[s] /\ Abstract!CallsOf(todo, s) = {}
      BY <1>3 DEF Emulating
    <3>2. CASE s = svc[c]
      <4>1. c \in Abstract!CallsOf(todo, s)
        BY <1>4, <3>2
      <4>2. Abstract!CallsOf(todo', s) = Abstract!CallsOf(todo, s) \ {c}
        BY <1>1, <1>5 DEF Abstract!CallsOf
      <4>3. disk'[s].calls = Append(disk[s].calls, c)
        BY <2>3, <3>2
      <4>4. Abstract!InOrder(disk'[s].calls)
        <5>1. Abstract!InOrder(disk[s].calls) /\ disk[s].calls \in Seq(Call)
          BY <1>2, <3>1, <3>2 DEF Partial, Disk
        <5>. QED BY <1>2, <1>4, <3>2, <4>3, <5>1, AppendInOrder
      <4>5. Abstract!Performed(disk'[s].calls) = Abstract!Performed(disk[s].calls) \cup {c}
        BY <2>1, <3>2, <4>3
      <4>6. \A p \in Abstract!Performed(disk'[s].calls), d \in Abstract!CallsOf(todo', s) : p < d
        <5>1. \A d \in Abstract!CallsOf(todo', s) : d \in Call /\ d # c /\ c <= d
          BY <1>2, <4>2 DEF Abstract!CallsOf, TypeOK
        <5>2. ASSUME NEW d \in Abstract!CallsOf(todo', s) PROVE c < d
          <6>1. d \in Nat /\ c \in Nat /\ d # c /\ c <= d
            BY <1>2, <5>1
          <6>. QED BY <6>1
        <5>. QED BY <3>1, <4>2, <4>5, <5>2 DEF Partial
      <4>. QED BY <1>3, <3>1, <4>1, <4>2, <4>4, <4>5, <4>6 DEF Partial
    <3>3. CASE s # svc[c]
      <4>1. disk'[s] = disk[s]
        BY <2>3, <3>3
      <4>2. Abstract!CallsOf(todo', s) = Abstract!CallsOf(todo, s)
        BY <1>1, <1>5, <3>3 DEF Abstract!CallsOf
      <4>. QED BY <1>3, <3>1, <4>1, <4>2 DEF Partial
    <3>. QED BY <3>2, <3>3
  <2>10. Emulating'
    BY <1>3, <2>9 DEF Emulating
  <2>. QED BY <2>5, <2>7, <2>8, <2>10
<1>6. CASE ~ Performs(disk[svc[c]].tree, op[c])
  <2>1. TypeOK'
    BY <1>1, <1>3, <1>6 DEF TypeOK
  <2>2. TestsState' /\ Kept' /\ Servers_Up' /\ Idle' /\ Restoring' /\ Emulating' /\ Checking'
    BY <1>1, <1>3, <1>6
       DEF TestsState, Kept, AsRecorded, Servers_Up, Idle, Restoring, Emulating, Checking
  <2>3. ASSUME IsServerPrefix(crash_state), disk[svc[c]].kept = {} PROVE FALSE
    <3>1. P \subseteq Earlier(c)
      BY <1>4 DEF Earlier
    <3>2. ASSUME NEW d \in Earlier(c) PROVE d \in P
      <4>1. d \in Call /\ d < c /\ svc[d] = svc[c]
        BY DEF Earlier
      <4>2. d \in Abstract!CallsOf(crash_state, svc[c])
        BY <1>2, <2>3, <4>1 DEF IsServerPrefix, Abstract!CallsOf
      <4>3. d \notin todo
        <5>1. c \in Nat /\ d \in Nat
          BY <1>2, <4>1
        <5>. QED BY <1>2, <4>1, <5>1
      <4>. QED BY <1>2, <4>2, <4>3 DEF Partial, Abstract!CallsOf
    <3>3. AsRecorded(disk[svc[c]], svc[c])
      BY <1>2 DEF Kept
    <3>4. P = Earlier(c)
      BY <3>1, <3>2
    <3>. QED BY <1>2, <1>6, <2>3, <3>3, <3>4, NextPerforms
  <2>4. OnlyGapsRaise'
    BY <1>1, <1>2, <1>3, <1>6, <2>3 DEF OnlyGapsRaise, IsServerPrefix
  <2>. QED BY <2>1, <2>2, <2>4
<1>. QED BY <1>5, <1>6

(* With nothing left to do every disk holds the crash state, and the       *)
(* servers that did not restart had it loaded already.                     *)
LEMMA StartIInv == IInv /\ Start => IInv'
<1>. SUFFICES ASSUME IInv, Start PROVE IInv'
  OBVIOUS
<1>. USE DEF IInv
<1>. DEFINE started == IF fstype = "beegfs" THEN ToRestart(blocklist) ELSE Service
<1>1. /\ pc = "emulate" /\ todo = {} /\ pc' = "check"
      /\ running' = running \cup started
      /\ view' = [s \in Service |-> IF s \in started THEN disk[s] ELSE view[s]]
      /\ fstype' = fstype /\ is_inc' = is_inc /\ last_state' = last_state
      /\ crash_state' = crash_state /\ blocklist' = blocklist /\ todo' = todo
      /\ disk' = disk /\ checked' = checked /\ seen' = seen
  BY DEF Start
<1>2. started \in SUBSET Service
  BY DEF TypeOK, ToRestart
<1>3. TypeOK'
  BY <1>1, <1>2 DEF TypeOK
<1>4. Servers_Up'
  BY <1>1, <1>2 DEF Servers_Up, TypeOK
<1>5. ASSUME NEW s \in Service
      PROVE  view'[s] = disk[s] /\ Abstract!Replays(disk[s].calls, crash_state, s)
  <2>1. Partial(disk[s].calls, s) /\ (s \notin ToRestart(blocklist) => view[s] = disk[s])
    BY <1>1 DEF Emulating
  <2>2. Abstract!CallsOf(todo, s) = {}
    BY <1>1 DEF Abstract!CallsOf
  <2>. QED BY <1>1, <2>1, <2>2 DEF Partial, Abstract!Replays
<1>6. Checking'
  BY <1>1, <1>5 DEF Checking, Replays, TypeOK
<1>7. TestsState' /\ Kept' /\ Idle' /\ Restoring' /\ Emulating' /\ OnlyGapsRaise'
  BY <1>1 DEF TestsState, Kept, AsRecorded, Idle, Restoring, Emulating, OnlyGapsRaise
<1>. QED BY <1>3, <1>4, <1>6, <1>7

(* The state just checked is remembered only while its disks are kept.     *)
LEMMA CheckStateIInv == IInv /\ CheckState => IInv'
<1>. SUFFICES ASSUME IInv, CheckState PROVE IInv'
  OBVIOUS
<1>. USE DEF IInv
<1>1. crash_state \in Tested
  BY DEF CheckState, TestsState
<1>2. TypeOK'
  BY <1>1 DEF CheckState, TypeOK
<1>3. Idle'
  BY DEF CheckState, Checking, Idle, Replays
<1>4. /\ TestsState' /\ Kept' /\ Servers_Up' /\ Restoring' /\ Emulating' /\ Checking'
      /\ OnlyGapsRaise'
  BY DEF CheckState, TestsState, Kept, AsRecorded, Servers_Up, Restoring, Emulating, Checking,
         OnlyGapsRaise
<1>. QED BY <1>2, <1>3, <1>4

(* The cleanup at the end of pfs_check.                                    *)
LEMMA FinishIInv == IInv /\ Finish => IInv'
<1>. SUFFICES ASSUME IInv, Finish PROVE IInv'
  OBVIOUS
<1>. USE DEF IInv
<1>1. ASSUME NEW s \in Service
      PROVE  /\ Restored(s) \in Disk /\ AsRecorded(Restored(s), s)
             /\ fstype # "beegfs" => Restored(s).kept = {}
  BY RestoredDisk
<1>2. TypeOK'
  BY <1>1 DEF Finish, TypeOK
<1>3. Kept'
  <2>1. ASSUME NEW s \in Service
        PROVE  AsRecorded(disk'[s], s) /\ (fstype # "beegfs" => disk'[s].kept = {})
    BY <1>1 DEF Finish
  <2>. QED BY <2>1 DEF Finish, Kept, AsRecorded
<1>. QED BY <1>2, <1>3 DEF Finish, TestsState, Servers_Up, Idle, Restoring, Emulating, Checking,
                     OnlyGapsRaise

(* A step that changes nothing.                                            *)
LEMMA StutterIInv == IInv /\ UNCHANGED vars => IInv'
BY DEF vars, IInv, TypeOK, TestsState, Servers_Up, Idle, Restoring, Emulating, Checking,
       OnlyGapsRaise, Partial, Replays, IsServerPrefix, Kept, AsRecorded

(* IInv is inductive: it holds in every state __perform_crash goes through.*)
THEOREM Invariance == Spec => []IInv
<1>1. IInv /\ [Next]_vars => IInv'
  <2>. SUFFICES ASSUME IInv, [Next]_vars PROVE IInv'
    OBVIOUS
  <2>1. ASSUME NEW S \in Tested, Begin(S) PROVE IInv'
    BY <2>1, BeginIInv
  <2>. QED BY <2>1, RestoreIInv, PerformIInv, StartIInv, CheckStateIInv, FinishIInv,
              StutterIInv DEF Next
<1>. QED BY InitIInv, <1>1, PTL DEF Spec

(* Every variable keeps its type.                                          *)
THEOREM TypeCorrect == Spec => []TypeOK
<1>1. IInv => TypeOK
  BY DEF IInv
<1>. QED BY Invariance, <1>1, PTL

(* When the checker runs, every server is up and serves exactly the calls  *)
(* of the crash state, however many states were tested before it.          *)
THEOREM ChecksSeeCrashState == Spec => []ServesCrashState
<1>1. IInv => ServesCrashState
  <2>. SUFFICES ASSUME IInv, pc = "check", NEW s \in Service
                PROVE  /\ running = Service
                       /\ Abstract!Replays(view[s].calls, crash_state, s)
                       /\ AsRecorded(view[s], s)
                       /\ fstype # "beegfs" => view[s].kept = {}
    BY DEF IInv, Servers_Up, ServesCrashState
  <2>. QED BY DEF IInv, Servers_Up, Checking, Kept, Replays
<1>. QED BY Invariance, <1>1, PTL

(* The disks the incremental mode reuses hold the state it remembers.      *)
THEOREM RemembersDisksHolds == Spec => []RemembersDisks
<1>1. IInv => RemembersDisks
  BY DEF IInv, Idle, Replays, RemembersDisks
<1>. QED BY Invariance, <1>1, PTL

(* Only a state with a gap in the calls of one server makes emulate raise. *)
THEOREM OnlyGapsRaiseHolds == Spec => []OnlyGapsRaise
<1>1. IInv => OnlyGapsRaise
  BY DEF IInv
<1>. QED BY Invariance, <1>1, PTL

(* __perform_crash implements ExactReplay: CheckState is a Check of the    *)
(* crash state, every other step leaves checked and seen alone.            *)
THEOREM Refinement == Spec => ChecksExactReplay
<1>1. Init => Abstract!Init
  BY DEF Init, Abstract!Init
<1>2. IInv /\ [Next]_vars => [Abstract!Next]_<<fstype = "beegfs", checked, seen>>
  <2>. SUFFICES ASSUME IInv, [Next]_vars
                PROVE  [Abstract!Next]_<<fstype = "beegfs", checked, seen>>
    OBVIOUS
  <2>0. fstype' = fstype
    BY DEF Next, Begin, Restore, Perform, Start, CheckState, Finish, vars
  <2>1. CASE CheckState
    <3>1. crash_state \in Tested /\ checked' = crash_state /\ seen' = view
      BY <2>1 DEF CheckState, IInv, TestsState
    <3>2. seen' \in [Service -> Disk]
      BY <3>1 DEF IInv, TypeOK
    <3>3. \A s \in Service : /\ Abstract!Replays(seen'[s].calls, crash_state, s)
                             /\ fstype = "beegfs" \/ seen'[s].kept = {}
      BY <2>1, <3>1 DEF CheckState, IInv, Checking, Replays, Kept
    <3>4. Abstract!Check(crash_state)
      BY <2>0, <3>1, <3>2, <3>3 DEF Abstract!Check
    <3>. QED BY <3>1, <3>4 DEF Abstract!Next
  <2>2. CASE ~ CheckState
    <3>1. checked' = checked /\ seen' = seen
      BY <2>2 DEF Next, Begin, Restore, Perform, Start, Finish, vars
    <3>. QED BY <2>0, <3>1
  <2>. QED BY <2>1, <2>2
<1>. QED BY Invariance, <1>1, <1>2, PTL DEF Spec, ChecksExactReplay, Abstract!Spec
=============================================================================
