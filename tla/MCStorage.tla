------------------------------ MODULE MCStorage ------------------------------
(***************************************************************************)
(* Small files and blocks for Storage.  A byte has 4 bits.  The library    *)
(* that stored the blocks is external: its filters are written here from   *)
(* the format, on bits and not on partly used bytes.                       *)
(***************************************************************************)
EXTENDS Storage, TLC

-----------------------------------------------------------------------------
(* Files of each driver, with different bytes at different places.         *)
Content(m, len) == [j \in 1..len |-> 100 * m + j]
Disk(info, memb, super, eoa) ==
    [info |-> info, map |-> <<0, 0, 0, 0, 0, 0>>, addrs |-> <<0>>, msize |-> 0,
     memb |-> memb, super |-> super, eoa |-> eoa]

Plain(addr, size) == [addr |-> addr, size |-> size, pline |-> <<>>, mask |-> {}, want |-> size]
Case(d, r, p) == [disk |-> d, req |-> r, plain |-> p]
Reads(disks, last) ==
    {Case(d, Plain(a, s), <<>>) : d \in disks, a \in 0..last, s \in {1, 2, 3, 4, 5, 9}}

Single == {Disk(info, 0 :> Content(0, 6), super, eoa) :
              info \in {"none", "NCSAother"}, super \in {0, 2}, eoa \in {5, 6, 7}}

FamilyOf(lens) == [m \in 0..(Len(lens) - 1) |-> Content(m, lens[m + 1])]
Families ==
    {[Disk("NCSAfami", FamilyOf(lens), super, eoa) EXCEPT !.msize = 4] :
        lens \in {<<4, 4, 4>>, <<4, 4, 1>>, <<4, 4, 0>>, <<4, 0, 0>>, <<3>>, <<4, 2, 4>>},
        super \in {0, 1}, eoa \in {3, 4, 8, 9, 12, 13}}

(* One member for each type; metadata apart from data; a type that shares  *)
(* the member of a later one.                                              *)
SplitMap == <<1, 1, 3, 3, 1, 1>>
LateMap == <<1, 1, 4, 4, 1, 1>>
Multis ==
    {[Disk("NCSAmult", [m \in MemTypes |-> Content(m, 3)], 0, eoa) EXCEPT
        !.addrs = <<0, 9, 3, 6, 20, 12>>] : eoa \in {12, 23, 24}}
    \cup {[Disk("NCSAmult", (1 :> Content(1, len)) @@ (3 :> Content(3, 4)) @@ (4 :> Content(4, 4)), 0, 9)
            EXCEPT !.addrs = <<0, 8>>, !.map = map] : map \in {SplitMap, LateMap}, len \in {4, 8, 9}}

(* A first file or a member that is not there.                             *)
Lost == {Disk("none", 1 :> <<1>>, 0, 1),
         [Disk("NCSAmult", (1 :> Content(1, 4)), 0, 4) EXCEPT !.addrs = <<0, 8>>, !.map = SplitMap]}

DriverCases == Reads(Single, 6) \cup Reads(Families, 12) \cup Reads(Multis, 22) \cup Reads(Lost, 0)

-----------------------------------------------------------------------------
(* Bits, the highest first, and bytes made of them.                        *)
BitsOf(v, n) == [j \in 1..n |-> (v \div 2^(n - j)) % 2]
ByteOfBits(bits) == FoldLeft(LAMBDA v, b : 2 * v + b, 0, bits)
Packed(bits) ==
    [j \in 1..((Len(bits) + ByteBits - 1) \div ByteBits) |->
        ByteOfBits([k \in 1..ByteBits |->
            LET at == (j - 1) * ByteBits + k IN IF at <= Len(bits) THEN bits[at] ELSE 0])]
BytesOf(v, size, order) ==
    LET le == [k \in 1..size |-> Bytes(v, k - 1)]
    IN  IF order = LittleEndian THEN le ELSE Reverse(le)

(* Types: an atomic one, an array, a compound of two members, other types. *)
IntType(size, order, precision, offset) ==
    [class |-> AtomicClass, parms |-> <<size, order, precision, offset>>, size |-> size, of |-> <<>>]
Bytewise(size) == [class |-> NoopClass, parms |-> <<size>>, size |-> size, of |-> <<>>]
ArrayOf(t, n) ==
    [class |-> ArrayClass, parms |-> <<n * t.size, t.class>> \o t.parms, size |-> n * t.size,
     of |-> [i \in 1..n |-> [at |-> (i - 1) * t.size, type |-> t]]]
Pair(t, u, gap) ==
    [class |-> CompoundClass, size |-> t.size + gap + u.size,
     parms |-> <<t.size + gap + u.size, 2, 0, t.class>> \o t.parms
               \o <<t.size + gap, u.class>> \o u.parms,
     of |-> <<[at |-> 0, type |-> t], [at |-> t.size + gap, type |-> u]>>]

(* A value of each type made from a seed, its bytes and its packed bits.   *)
RECURSIVE ValueBytes(_, _), ValueBits(_, _)
Num(seed, n) == (seed * 89) % 2^n
ValueBytes(t, seed) ==
    CASE t.class = AtomicClass ->
            BytesOf(Num(seed, t.parms[3]) * 2^t.parms[4], t.size, t.parms[2])
      [] t.class = NoopClass -> [k \in 1..t.size |-> Num(seed + k, ByteBits)]
      [] OTHER -> LET part(k) == {j \in DOMAIN t.of : k \in t.of[j].at..(t.of[j].at + t.of[j].type.size - 1)}
                  IN  [k \in 1..t.size |->
                        IF part(k - 1) = {} THEN 0
                        ELSE LET j == CHOOSE j \in part(k - 1) : TRUE
                             IN  ValueBytes(t.of[j].type, seed + j)[k - t.of[j].at]]
ValueBits(t, seed) ==
    CASE t.class = AtomicClass -> BitsOf(Num(seed, t.parms[3]), t.parms[3])
      [] t.class = NoopClass -> FlattenSeq([k \in 1..t.size |-> BitsOf(Num(seed + k, ByteBits), ByteBits)])
      [] OTHER -> FlattenSeq([j \in DOMAIN t.of |-> ValueBits(t.of[j].type, seed + j)])

NbitFilter(t, n) ==
    [id |-> "nbit", cd |-> <<4 + Len(t.parms), 0, n, t.class>> \o t.parms]
NbitPlain(t, n, seed) == FlattenSeq([i \in 1..n |-> ValueBytes(t, seed + i)])
NbitStored(t, n, seed) == Packed(FlattenSeq([i \in 1..n |-> ValueBits(t, seed + i)]))

(* Integers of one size around a minimum; the largest code is the fill.    *)
SoFilter(size, n, order, fill) ==
    [id |-> "scaleoffset", cd |-> <<ScaleInt, 0, n, 0, size, 0, order, IF fill < 0 THEN 0 ELSE 1, fill>>]
SoPlain(codes, size, minbits, min, order, fill) ==
    FlattenSeq([i \in DOMAIN codes |->
        BytesOf(IF fill >= 0 /\ codes[i] = 2^minbits - 1 THEN fill
                ELSE (codes[i] + min) % 2^(ByteBits * size), size, order)])
SoStored(codes, size, minbits, min, order) ==
    <<minbits, 8, min>> \o
        IF minbits = size * ByteBits
        THEN FlattenSeq([i \in DOMAIN codes |-> BytesOf(codes[i], size, LittleEndian)])
        ELSE Packed(FlattenSeq([i \in DOMAIN codes |-> BitsOf(codes[i], minbits)]))

(* The other filters forward.                                              *)
F(id, cd) == [id |-> id, cd |-> cd]
Done1(f, data) ==
    CASE f.id = "deflate" -> <<ZMark, Len(data)>> \o data
      [] f.id = "fletcher32" -> data \o Checksum(data)
      [] f.id = "shuffle" ->
            LET size == f.cd[1]
                n == Len(data) \div size
            IN  [j \in 1..Len(data) |->
                    IF j > n * size THEN data[j]
                    ELSE data[((j - 1) % n) * size + ((j - 1) \div n) + 1]]
      [] OTHER -> data
Applied(pline, data) == FoldLeft(LAMBDA d, f : Done1(f, d), data, pline)

(* The block in the middle of a file, or over members of a family.         *)
InFile(pline, stored, block, want) ==
    Case(Disk("none", 0 :> (<<1, 2>> \o stored \o <<3>>), 0, 1),
         [addr |-> 2, size |-> Len(stored), pline |-> pline, mask |-> {}, want |-> want], block)
InFamily(pline, stored, block, want) ==
    LET all == <<1, 2>> \o stored \o <<3, 4>>
    IN  Case([Disk("NCSAfami", [m \in 0..((Len(all) - 1) \div 3) |->
                                    SubSeq(all, 3 * m + 1, IF 3 * m + 3 <= Len(all) THEN 3 * m + 3 ELSE Len(all))], 0, 1)
                EXCEPT !.msize = 3],
             [addr |-> 2, size |-> Len(stored), pline |-> pline, mask |-> {}, want |-> want], block)

-----------------------------------------------------------------------------
(* Every layout of an integer of two bytes; nested types.                  *)
Atoms == {IntType(2, order, p, o) : order \in {LittleEndian, BigEndian}, p \in 1..8, o \in 0..7}
FittingAtoms == {t \in Atoms : t.parms[3] + t.parms[4] <= 8}
A3 == IntType(1, LittleEndian, 3, 1)
A5 == IntType(2, BigEndian, 5, 2)
Nested ==
    {ArrayOf(A3, 2), ArrayOf(ArrayOf(A5, 2), 2), ArrayOf(Bytewise(2), 2), Pair(A3, A5, 1),
     Pair(A5, ArrayOf(A3, 2), 0), Pair(A3, Bytewise(2), 0), Pair(ArrayOf(A3, 2), A5, 0),
     Pair(A3, ArrayOf(ArrayOf(A3, 2), 2), 0), ArrayOf(Pair(A3, A5, 0), 2),
     Pair(ArrayOf(ArrayOf(A3, 2), 2), A5, 0), Pair(A5, Pair(A3, A3, 1), 0)}
NbitCases ==
    {InFile(<<NbitFilter(t, n)>>, NbitStored(t, n, s), NbitPlain(t, n, s), n * t.size) :
        t \in FittingAtoms \cup Nested, n \in {1, 3}, s \in {0, 2, 5}}

SoCasesOf(size) ==
    {InFile(<<SoFilter(size, 3, order, fill)>>,
            SoStored(codes, size, minbits, min, order),
            IF size = 3 THEN <<>>
            ELSE SoPlain(codes, size, minbits, IF minbits = size * ByteBits THEN 0 ELSE min, order, fill),
            3 * size) :
        codes \in {<<0, 1, 0>>, <<1, 0, 1>>}, minbits \in 1..(4 * size), min \in {0, 3, 15},
        order \in {LittleEndian, BigEndian}, fill \in {-1, 2}}

SoCases == UNION {SoCasesOf(size) : size \in 1..3}

(* Pipelines, applied to blocks of the sizes they change.                  *)
Z == F("deflate", <<6>>)
C == F("fletcher32", <<>>)
S(n) == F("shuffle", <<n>>)
N0 == [id |-> "nbit", cd |-> <<5, 1, 1, 1, 1>>]
SO0 == [id |-> "scaleoffset", cd |-> <<ScaleInt, 4, 1, 0, 1, 0, 0, 0, 0>>]
Pipelines ==
    {<<S(n), Z>> : n \in 0..4} \cup {<<S(n)>> : n \in 0..4}
    \cup {<<Z>>, <<C>>, <<Z, C>>, <<C, Z>>, <<S(2), Z, C>>, <<C, S(3)>>, <<N0>>, <<N0, Z>>, <<Z, N0>>,
          <<SO0, C>>, <<C, S(2), Z, C>>, <<S(2), S(3), S(2), S(3), Z>>, <<F("szip", <<>>), Z>>, <<F("deflate", <<10>>)>>}
Blocks == {[j \in 1..n |-> (j * j) % 16] : n \in {1, 2, 5, 6, 9}} \cup {<<15, 15, 15, 15>>, <<>>}
NotThere(pline) == \E k \in DOMAIN pline : pline[k].id = "szip" \/ pline[k].cd \in {<<0>>, <<10>>}
Stored(pline, block) ==
    IF NotThere(pline) THEN block ELSE Applied(pline, block)
PipelineCases ==
    {InFile(p, Stored(p, b), IF NotThere(p) THEN <<>> ELSE b, Len(b)) : p \in Pipelines, b \in Blocks}
    \cup {InFamily(p, Stored(p, b), IF NotThere(p) THEN <<>> ELSE b, Len(b)) : p \in Pipelines, b \in Blocks \ {<<>>}}

(* One byte of a stored block changed, or its end lost.                    *)
Damaged(p, b) ==
    LET stored == Stored(p, b)
    IN  {InFile(p, [stored EXCEPT ![j] = (@ + d) % 16], <<>>, Len(b)) : j \in DOMAIN stored, d \in {1, 8}}
        \cup {InFile(p, SubSeq(stored, 1, j), <<>>, Len(b)) : j \in 1..(Len(stored) - 1)}
DamageCases == UNION {Damaged(p, b) : p \in {<<Z>>, <<C>>, <<Z, C>>, <<C, Z>>, <<S(2), Z, C>>},
                                      b \in Blocks \ {<<>>}}
    \cup {InFile(<<SoFilter(1, 2, LittleEndian, -1)>>, <<minbits, 8, 3, 5, 10>>, <<>>, 2) : minbits \in {4, 5}}

(* Blocks stored without some of the filters.                              *)
WithoutMasked(p, mask, data) ==
    FoldLeft(LAMBDA d, k : IF k \in mask THEN d ELSE Done1(p[k], d), data, UpFrom(1, Len(p)))
Masked(p, mask, b) ==
    [InFile(p, WithoutMasked(p, mask, b), b, Len(b)) EXCEPT !.req.mask = mask]
MaskedCases ==
    UNION {{Masked(p, mask, b) : mask \in SUBSET DOMAIN p \ {{}}} :
              p \in {<<Z>>, <<C>>, <<Z, C>>, <<C, S(3)>>, <<S(2), Z, C>>}, b \in Blocks \ {<<>>}}

MCCases == DriverCases \cup NbitCases \cup SoCases \cup PipelineCases \cup DamageCases
           \cup MaskedCases
MCUninitialized == {0, 9}
MCRegistered == {"deflate", "shuffle", "fletcher32", "nbit", "scaleoffset"}

=============================================================================
