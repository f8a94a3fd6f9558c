----------------------------- MODULE ExactReplay -----------------------------
(***************************************************************************)
(* What the exploration relies on: whatever was tested before, a check of  *)
(* a crash state is made on servers that each hold exactly that state's    *)
(* calls, performed in timestamp order on the saved snapshot.  Where the   *)
(* file system keeps directories (BeeGFS), some may be there beside those  *)
(* of the snapshot.                                                        *)
(***************************************************************************)
EXTENDS Integers, Sequences

CONSTANTS
    Call,       \* calls, ordered by their timestamps
    Service,
    svc,        \* the service of each call
    Tested,     \* the crash states that may be given to crash_func
    Disk, Snapshot

VARIABLES
    keeps,      \* directories survive a restore
    checked,    \* the crash state of the last check
    seen        \* what each server held, as that check saw it

InOrder(q) == \A i, j \in DOMAIN q : i < j => q[i] < q[j]

Performed(q) == {q[i] : i \in DOMAIN q}

CallsOf(calls, s) == {c \in calls : svc[c] = s}

(* q is the replay of the calls on service s.                              *)
Replays(q, calls, s) == InOrder(q) /\ Performed(q) = CallsOf(calls, s)

Init ==
    /\ keeps \in BOOLEAN
    /\ checked = {}
    /\ seen = [s \in Service |-> [calls |-> << >>, kept |-> {}, tree |-> Snapshot[s]]]

Check(S) ==
    /\ checked' = S
    /\ seen' \in [Service -> Disk]
    /\ \A s \in Service :
          Replays(seen'[s].calls, S, s) /\ (keeps \/ seen'[s].kept = {})
    /\ UNCHANGED keeps

Next == \E S \in Tested : Check(S)

Spec == Init /\ [][Next]_<<keeps, checked, seen>>
=============================================================================
