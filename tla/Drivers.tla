------------------------------- MODULE Drivers -------------------------------
(***************************************************************************)
(* The virtual file drivers of h5check.  A file is opened as one sec2 file *)
(* until its superblock names the driver; then it is reopened, and what    *)
(* follows is read through the family driver (members of equal size, one   *)
(* behind the other) or the multi driver (a member for each type of data,  *)
(* each at an address of its own).  Members are sec2 files again.          *)
(*                                                                         *)
(* disk is what was stored: the driver information [info, map, addrs,      *)
(* msize], the members' bytes memb, the length of the user block super and *)
(* the end of the allocated addresses eoa.                                 *)
(***************************************************************************)
EXTENDS Integers, FiniteSets, SequencesExt

CONSTANT AddrUndef  \* CK_ADDR_UNDEF, the largest address

ASSUME AddrUndefAssumption == AddrUndef \in Nat

VARIABLES
    disk,           \* the files, fixed
    fd,             \* the driver [driver, memb, msize, addr]; memb: members opened
    io              \* FD_read [res, addr, size, buf]

MemTypes == 1..6    \* FD_MEM_SUPER..FD_MEM_OHDR
First == IF disk.info = "NCSAmult" THEN 1 ELSE 0

Closed == [driver |-> "none", memb |-> {}, msize |-> 0, addr |-> <<>>]
IdleIo == [res |-> "idle", addr |-> 0, size |-> 0, buf |-> <<>>]

(* get_driver_class, set_driver_id                                         *)
DriverId(info) ==
    CASE info = "NCSAmult" -> "multi" [] info = "NCSAfami" -> "family" [] OTHER -> "sec2"

(* decode_driver: a driver block is there only for multi and family.       *)
DecodeFails == disk.info # "none" /\ DriverId(disk.info) = "sec2"

-----------------------------------------------------------------------------
(* multi_decode_driver: the address of a member is kept under the first    *)
(* type that is mapped to it.                                              *)
Target(u) == IF disk.map[u] = 0 THEN u ELSE disk.map[u]
Unmapped == {u \in MemTypes : \A w \in 1..(u - 1) : Target(w) # Target(u)}
Members == {Target(u) : u \in MemTypes}

MembAddr ==
    [u \in MemTypes |->
        IF u \in Unmapped THEN disk.addrs[Cardinality({w \in Unmapped : w <= u})]
        ELSE AddrUndef]

(* sec2_open                                                               *)
OpenDefault ==
    fd' = IF First \in DOMAIN disk.memb
          THEN [Closed EXCEPT !.driver = "sec2", !.memb = {First}]
          ELSE Closed

(* open_members asserts a name, which is kept like the address.            *)
NoName == ~ Members \subseteq Unmapped

(* multi_open, open_members: all of them are tried.                        *)
OpenMulti ==
    fd' = IF Members \subseteq DOMAIN disk.memb
          THEN [driver |-> "multi", memb |-> Members, msize |-> 0, addr |-> MembAddr]
          ELSE Closed

(* sec2_get_eof                                                            *)
Sec2Eof(m) == Len(disk.memb[m])

(* The size of the first member counts, not that of the information.       *)
MembSize == IF Sec2Eof(0) # 0 THEN Sec2Eof(0) ELSE disk.msize

(* family_open: members until one cannot be opened.                        *)
Opened == CHOOSE n \in 0..Cardinality(DOMAIN disk.memb) :
              0..(n - 1) \subseteq DOMAIN disk.memb /\ n \notin DOMAIN disk.memb
OpenFamily ==
    fd' = IF Opened = 0 THEN Closed
          ELSE [driver |-> "family", memb |-> 0..(Opened - 1), msize |-> MembSize,
                addr |-> <<>>]

Reopen ==
    CASE DriverId(disk.info) = "multi" -> OpenMulti
      [] DriverId(disk.info) = "family" -> OpenFamily

(* multi_get_eof                                                           *)
MultiEof ==
    LET eof(t) == IF Sec2Eof(t) > 0 THEN Sec2Eof(t) + fd.addr[t] ELSE 0
    IN  CHOOSE e \in {eof(t) : t \in fd.memb} : \A t \in fd.memb : eof(t) <= e

(* Mutant: an empty last member counts as a whole one.                     *)
FamilyEofLast == Sec2Eof(Cardinality(fd.memb) - 1) + (Cardinality(fd.memb) - 1) * fd.msize

(* family_get_eof: the last member that is not empty.                      *)
FamilyEof ==
    LET filled == {m \in fd.memb : m = 0 \/ Sec2Eof(m) # 0}
        last == CHOOSE m \in filled : \A n \in filled : n <= m
    IN  Sec2Eof(last) + last * fd.msize

Eof == CASE fd.driver = "sec2" -> Sec2Eof(First)
         [] fd.driver = "multi" -> MultiEof
         [] fd.driver = "family" -> FamilyEof

-----------------------------------------------------------------------------
(* FD_read adds the length of the user block, in a member again.           *)
Shifted(addr) == addr + disk.super

ReadFailed == io' = [io EXCEPT !.res = "fail"]
ReadGot(bytes, size) ==
    io' = [io EXCEPT !.buf = @ \o bytes, !.addr = @ + size, !.size = @ - size,
                     !.res = IF io.size = size THEN "ok" ELSE "run"]

(* sec2_read                                                               *)
Sec2Fails(at, size) == at[2] + size > Sec2Eof(at[1])
Sec2Bytes(at, size) == SubSeq(disk.memb[at[1]], at[2] + 1, at[2] + size)

ReadStart(addr, size) ==
    io' = [res |-> "run", addr |-> Shifted(addr), size |-> size, buf |-> <<>>]

ReadSec2 ==
    /\ io.res = "run" /\ fd.driver = "sec2"
    /\ IF Sec2Fails(<<First, io.addr>>, io.size) THEN ReadFailed
       ELSE ReadGot(Sec2Bytes(<<First, io.addr>>, io.size), io.size)

(* multi_read: the member that begins last at or before the address.       *)
MultiMember(addr) ==
    LET later(h, u) == LET t == Target(u)
                       IN  IF fd.addr[t] > addr \/ fd.addr[t] < h.start THEN h
                           ELSE [type |-> t, start |-> fd.addr[t]]
    IN  FoldLeft(later, [type |-> 0, start |-> 0], <<1, 2, 3, 4, 5, 6>>)

ReadMulti ==
    /\ io.res = "run" /\ fd.driver = "multi"
    /\ LET hi == MultiMember(io.addr)
           at == <<hi.type, Shifted(io.addr - hi.start)>>
       IN IF Sec2Fails(at, io.size) THEN ReadFailed
          ELSE ReadGot(Sec2Bytes(at, io.size), io.size)

(* Mutant: a read that ends with its member asks for one byte more.        *)
PartOfLong(sub) == IF io.size <= fd.msize - sub THEN io.size ELSE fd.msize - sub + 1

(* As much as the member holds.                                            *)
PartOf(sub) == IF io.size <= fd.msize - sub THEN io.size ELSE fd.msize - sub

(* family_read, one member.                                                *)
ReadFamily ==
    /\ io.res = "run" /\ fd.driver = "family"
    /\ LET u == io.addr \div fd.msize
           sub == io.addr % fd.msize
           at == <<u, Shifted(sub)>>
           part == PartOf(sub)
       IN IF io.size = 0 THEN ReadGot(<<>>, 0)
          ELSE IF u \notin fd.memb THEN ReadFailed
          ELSE IF Sec2Fails(at, part) THEN ReadFailed
          ELSE ReadGot(Sec2Bytes(at, part), part)

ReadStep == ReadSec2 \/ ReadMulti \/ ReadFamily

=============================================================================
