------------------------------- MODULE Emulate -------------------------------
(***************************************************************************)
(* __perform_crash (pfs_check) with pfs_stop, pfs_restore, pfs_start and   *)
(* CrashState.emulate: how the disks of the servers are brought to a crash *)
(* state.  With -in the disks of the last state that passed are reused:    *)
(* only the servers that differ are restored, and when the last state is   *)
(* a prefix of the new one nothing is restored at all.                     *)
(*                                                                         *)
(* What a disk holds is the tree of its files and directories, and, for    *)
(* the contents of the files, the calls performed since they were          *)
(* restored.  On BeeGFS pfs_restore removes the files only: directories    *)
(* made before stay.                                                       *)
(***************************************************************************)
EXTENDS Integers, SequencesExt

CONSTANTS
    Call, Service, svc, Tested,
    Name,           \* the names of files and directories
    op,             \* what a call does, and whether it failed when recorded
    Snapshot,       \* the tree of each server that pfs_save saved
    recorded,       \* the tree of its server after each call of the recorded run
    InitialDisks,   \* what the disks may hold when the check begins
    None            \* Python's None

Path == Seq(Name)
Tree == [dirs : SUBSET Path, files : SUBSET Path]
Disk == [calls : Seq(Call), kept : SUBSET Path, tree : Tree]
Operation ==
    [do : {"mkdir", "touch", "truncate", "setxattr", "unlink", "link", "rename", "fsync"},
     path : Path, to : Path, failed : BOOLEAN]

-----------------------------------------------------------------------------
(* real_perform of each class, on a tree.                                  *)

Exists(t, p) == p \in t.dirs \cup t.files

HasParent(t, p) == Front(p) \in t.dirs

IsEmpty(t, p) == \A q \in t.dirs \cup t.files : ~ IsStrictPrefix(p, q)

(* The path and the directories it lies in, as os.makedirs makes them.     *)
UpTo(p) == {SubSeq(p, 1, k) : k \in 1 .. Len(p)}

(* The exceptions of the system calls.                                     *)
Raises(t, o) ==
    \/ /\ o.do = "mkdir"
       /\ \E p \in UpTo(o.path) : p \in t.files
    \/ /\ o.do = "touch"
       /\ o.path \in t.dirs \/ ~ HasParent(t, o.path)
    \/ o.do = "truncate" /\ o.path \notin t.files
    \/ o.do = "setxattr" /\ ~ Exists(t, o.path)
    \/ /\ o.do = "unlink"
       /\ ~ Exists(t, o.path) \/ (o.path \in t.dirs /\ ~ IsEmpty(t, o.path))
    \/ /\ o.do = "link"
       /\ ~ Exists(t, o.path) \/ Exists(t, o.to) \/ ~ HasParent(t, o.to)
    \/ /\ o.do = "rename"
       /\ \/ ~ Exists(t, o.path) \/ ~ HasParent(t, o.to) \/ IsStrictPrefix(o.path, o.to)
          \/ o.path \in t.dirs /\ (o.to \in t.files \/ ~ IsEmpty(t, o.to)) /\ o.to # o.path
          \/ o.path \in t.files /\ o.to \in t.dirs

(* A rename takes along what lies below.                                   *)
Moved(p, o) == IF IsPrefix(o.path, p) THEN o.to \o SubSeq(p, Len(o.path) + 1, Len(p)) ELSE p

Applied(t, o) ==
    CASE o.do = "mkdir"  -> [t EXCEPT !.dirs = @ \cup UpTo(o.path)]
      [] o.do = "touch"  -> [t EXCEPT !.files = @ \cup {o.path}]
      [] o.do = "unlink" -> [dirs |-> t.dirs \ {o.path}, files |-> t.files \ {o.path}]
      [] o.do = "link"   -> [t EXCEPT !.files = @ \cup {o.to}]
      [] o.do = "rename" -> [dirs  |-> {Moved(p, o) : p \in t.dirs},
                             files |-> {Moved(p, o) : p \in t.files}]
      [] OTHER -> t

(* A call that failed when it was recorded may fail again.                 *)
Performs(t, o) == o.failed \/ ~ Raises(t, o)

Result(t, o) == IF Raises(t, o) THEN t ELSE Applied(t, o)

Earlier(c) == {d \in Call : d < c /\ svc[d] = svc[c]}

(* The tree of a server after the calls P, when nothing was left out.      *)
RecordedTree(P, s) == IF P = {} THEN Snapshot[s] ELSE recorded[Max(P)]

ASSUME CallAssumption == Call \subseteq Nat
ASSUME SvcAssumption == svc \in [Call -> Service]
ASSUME TestedAssumption == Tested \subseteq SUBSET Call
ASSUME TreesAssumption ==
    /\ op \in [Call -> Operation]
    /\ Snapshot \in [Service -> Tree]
    /\ recorded \in [Call -> Tree]
(* What was recorded can be performed again on the snapshot.               *)
ASSUME RecordedAssumption ==
    \A c \in Call :
        LET before == RecordedTree(Earlier(c), svc[c])
        IN  Performs(before, op[c]) /\ recorded[c] = Result(before, op[c])

FsType == {"orangefs", "beegfs", "glusterfs"}

VARIABLES
    fstype, is_inc,     \* the configuration, fixed
    last_state,         \* the calls of the state the disks hold, or None
    crash_state,        \* the calls of the state being tested
    blocklist,          \* the servers that differ from last_state, or None
    todo,               \* calls emulate has still to perform
    disk,               \* what each server's disk holds
    running,            \* the servers that are up
    view,               \* the disk each server loaded when it started
    checked, seen,      \* as in ExactReplay
    pc                  \* the part of __perform_crash that runs

vars == <<fstype, is_inc, last_state, crash_state, blocklist, todo, disk, running,
          view, checked, seen, pc>>

(* What has been checked, and what the servers held then, is the abstract  *)
(* state; the list of servers and the rest are not seen there.             *)
Abstract == INSTANCE ExactReplay WITH keeps <- fstype = "beegfs"

(* What the first calls of a server leave is what the recorded run had.    *)
IsServerPrefix(S) ==
    \A a, b \in Call : (svc[a] = svc[b] /\ a < b /\ b \in S) => a \in S

AsRecorded(d, s) ==
    LET P == Abstract!Performed(d.calls)
    IN  (d.kept = {} /\ \A p \in P : Earlier(p) \subseteq P) => d.tree = RecordedTree(P, s)

ASSUME InitialDisksAssumption ==
    /\ InitialDisks \subseteq [Service -> Disk]
    /\ \A d \in InitialDisks : \A s \in Service :
          d[s].kept = {} /\ AsRecorded(d[s], s)
          /\ Abstract!Performed(d[s].calls) \subseteq Abstract!CallsOf(Call, s)

-----------------------------------------------------------------------------
Servers(S) == {svc[c] : c \in S}

(* Mutant: only the calls the new state removes count.                     *)
RemovedServers(S, T) == Servers(S \ T)

(* diff_servers                                                            *)
DiffServers(S, T) == Servers((S \ T) \cup (T \ S))

(* Mutant: any subset, not only a prefix.                                  *)
ContainsSubset(S, T) == T \subseteq S

(* contains: the first calls of S, as many as T has, are those of T.       *)
ContainsState(S, T) ==
    /\ T \subseteq S
    /\ \A t \in T : \A c \in S \ T : t < c

(* to_restart of pfs_stop, pfs_restore and pfs_start: `if blocklist != None`. *)
ToRestart(b) == IF b = None THEN Service ELSE b

(* to_restart of emulate, where an empty list counts as None.              *)
ToEmulate(b, S) == IF b = None \/ b = {} THEN Servers(S) ELSE Servers(S) \cap b

Truncates(S) == \E c \in S : op[c].do = "truncate"

(* Mutant: the servers of the new state only.                              *)
NewServers(S) ==
    IF (fstype = "glusterfs" /\ Truncates(S)) \/ ~ is_inc \/ last_state = None
    THEN None
    ELSE Servers(S \ last_state)

(* Lines 61-71: the list is dropped on GlusterFS when a call truncates.    *)
Blocklist(S) ==
    IF (fstype = "glusterfs" /\ Truncates(S)) \/ ~ is_inc \/ last_state = None
    THEN None
    ELSE DiffServers(last_state, S)

Incremental(S) == is_inc /\ last_state # None /\ ContainsState(S, last_state)

Init ==
    /\ fstype \in FsType
    /\ is_inc \in BOOLEAN
    /\ last_state = None
    /\ crash_state = {}
    /\ blocklist = None
    /\ todo = {}
    /\ disk \in InitialDisks
    /\ running = Service
    /\ view = disk
    /\ checked = {}
    /\ seen = [s \in Service |-> [calls |-> << >>, kept |-> {}, tree |-> Snapshot[s]]]
    /\ pc = "idle"

(* Mutant: the state is not recorded as the one being tested.              *)
BeginUnrecorded(S) ==
    /\ pc = "idle"
    /\ blocklist' = Blocklist(S)
    /\ running' = IF fstype = "beegfs" THEN running ELSE {}
    /\ todo' = {c \in IF Incremental(S) THEN S \ last_state ELSE S :
                    svc[c] \in ToEmulate(blocklist', S)}
    /\ pc' = IF Incremental(S) THEN "emulate" ELSE "restore"
    /\ UNCHANGED <<fstype, is_inc, last_state, crash_state, disk, view, checked, seen>>

(* A state is given to crash_func: the list is made, the servers stopped.  *)
(* A BeeGFS server keeps running until pfs_start restarts it.              *)
Begin(S) ==
    /\ pc = "idle"
    /\ crash_state' = S
    /\ blocklist' = Blocklist(S)
    /\ running' = IF fstype = "beegfs" THEN running ELSE {}
    /\ todo' = {c \in IF Incremental(S) THEN S \ last_state ELSE S :
                    svc[c] \in ToEmulate(blocklist', S)}
    /\ pc' = IF Incremental(S) THEN "emulate" ELSE "restore"
    /\ UNCHANGED <<fstype, is_inc, last_state, disk, view, checked, seen>>

(* restore_snapshot: BeeGFS removes files with `find -type f`, the others  *)
(* everything with `rm -rf`; then tar puts the snapshot back.              *)
Restored(s) ==
    LET kept == IF fstype = "beegfs"
                THEN disk[s].tree.dirs \ (Snapshot[s].dirs \cup Snapshot[s].files)
                ELSE {}
    IN  [calls |-> << >>, kept |-> kept, tree |-> [Snapshot[s] EXCEPT !.dirs = @ \cup kept]]

Restore ==
    /\ pc = "restore"
    /\ disk' = [s \in Service |-> IF s \in ToRestart(blocklist) THEN Restored(s) ELSE disk[s]]
    /\ pc' = "emulate"
    /\ UNCHANGED <<fstype, is_inc, last_state, crash_state, blocklist, todo, running,
                   view, checked, seen>>

(* Mutant: the last call first.                                            *)
IsLast(c) == c \in todo /\ \A d \in todo : d <= c

IsFirst(c) == c \in todo /\ \A d \in todo : c <= d

(* syscall.perform() of the next call; an exception ends the program.      *)
Perform ==
    /\ pc = "emulate"
    /\ \E c \in todo :
        /\ IsFirst(c)
        /\ IF Performs(disk[svc[c]].tree, op[c])
           THEN /\ disk' = [disk EXCEPT ![svc[c]].calls = Append(@, c),
                                        ![svc[c]].tree = Result(@, op[c])]
                /\ todo' = todo \ {c}
                /\ UNCHANGED pc
           ELSE pc' = "raised" /\ UNCHANGED <<disk, todo>>
    /\ UNCHANGED <<fstype, is_inc, last_state, crash_state, blocklist, running, view,
                   checked, seen>>

(* pfs_start: OrangeFS and GlusterFS start every server.                   *)
Start ==
    /\ pc = "emulate"
    /\ todo = {}
    /\ LET started == IF fstype = "beegfs" THEN ToRestart(blocklist) ELSE Service
       IN  /\ running' = running \cup started
           /\ view' = [s \in Service |-> IF s \in started THEN disk[s] ELSE view[s]]
    /\ pc' = "check"
    /\ UNCHANGED <<fstype, is_inc, last_state, crash_state, blocklist, todo, disk,
                   checked, seen>>

(* The verdict depends on what the servers serve; the model allows both.   *)
CheckState ==
    /\ pc = "check"
    /\ checked' = crash_state
    /\ seen' = view
    /\ last_state' \in {crash_state, None}
    /\ pc' = "idle"
    /\ UNCHANGED <<fstype, is_inc, crash_state, blocklist, todo, disk, running, view>>

(* The end of pfs_check: every server is restored and restarted.           *)
Finish ==
    /\ pc = "idle"
    /\ disk' = [s \in Service |-> Restored(s)]
    /\ running' = Service
    /\ view' = disk'
    /\ pc' = "done"
    /\ UNCHANGED <<fstype, is_inc, last_state, crash_state, blocklist, todo, checked, seen>>

Next ==
    \/ \E S \in Tested : Begin(S)
    \/ Restore \/ Perform \/ Start \/ CheckState \/ Finish

Spec == Init /\ [][Next]_vars

-----------------------------------------------------------------------------
(* Every variable keeps its type; what is to do belongs to crash_state.    *)
TypeOK ==
    /\ fstype \in FsType
    /\ is_inc \in BOOLEAN
    /\ last_state \in Tested \cup {None}
    /\ crash_state \in SUBSET Call
    /\ blocklist \in (SUBSET Service) \cup {None}
    /\ todo \in SUBSET crash_state
    /\ disk \in [Service -> Disk]
    /\ running \in SUBSET Service
    /\ view \in [Service -> Disk]
    /\ checked \in SUBSET Call
    /\ seen \in [Service -> Disk]
    /\ pc \in {"idle", "restore", "emulate", "check", "raised", "done"}

(* When the checker runs, every server is up and serves exactly the calls  *)
(* of the crash state, each performed once and in order, however the disks *)
(* were reused (pfs_check 56-90, pfs_csg.py 369-412).  Directories of      *)
(* earlier states are there only on BeeGFS; where there are none, a server *)
(* that lost no call before one it kept has the tree it had in the         *)
(* recorded run.                                                           *)
ServesCrashState ==
    pc = "check" =>
        /\ running = Service
        /\ \A s \in Service :
              /\ Abstract!Replays(view[s].calls, crash_state, s)
              /\ AsRecorded(view[s], s)
              /\ fstype # "beegfs" => view[s].kept = {}

(* What the incremental mode reuses: between two checks the disks hold the *)
(* remembered state, and the servers have loaded them.                     *)
RemembersDisks ==
    (pc = "idle" /\ last_state # None) =>
        /\ view = disk
        /\ \A s \in Service : Abstract!Replays(disk[s].calls, last_state, s)

(* Replaying raises an exception, which ends the exploration, only for a   *)
(* state that lost a call its server made before one it kept (an auxiliary *)
(* state that leaves out a single call), or on a disk with directories of  *)
(* an earlier state: never for a state that keeps a prefix of each server  *)
(* on disks that were restored in full (pfs_csg.py 377-382).               *)
OnlyGapsRaise ==
    pc = "raised" => ~ IsServerPrefix(crash_state) \/ \E s \in Service : disk[s].kept # {}

(* "restore pfs-service backup" (pfs_utils.py:750): a server that is       *)
(* restored holds what was saved.                                          *)
BackupRestored ==
    [][Restore => \A s \in ToRestart(blocklist) : disk'[s].tree = Snapshot[s]]_vars

(* Each check is a check of ExactReplay.                                   *)
ChecksExactReplay == Abstract!Spec
=============================================================================
