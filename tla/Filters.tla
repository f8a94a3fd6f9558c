------------------------------- MODULE Filters -------------------------------
(***************************************************************************)
(* The filter pipeline as h5check undoes it (h5pline.c).  Each filter      *)
(* takes the bytes used in a buffer and the buffer and gives both back; a  *)
(* filter that fails returns FAIL as a size, which is the largest one, and *)
(* leaves the buffer alone.  A buffer is a sequence of bytes as long as    *)
(* buf_size says.  A byte has ByteBits bits.                               *)
(*                                                                         *)
(* cd is the array of client data of a filter, counted from 1 here.        *)
(***************************************************************************)
EXTENDS Integers, SequencesExt

CONSTANTS
    ByteBits,       \* the bits of a byte
    SizeMax,        \* the largest size_t
    Registered,     \* the filters the build knows
    Uninitialized,  \* bytes that memory nobody wrote may hold
    MaxFilters      \* Z_MAX_NFILTERS

ASSUME ByteBitsAssumption == ByteBits \in Nat \ {0}
ASSUME SizeMaxAssumption == SizeMax \in Nat
ASSUME MaxFiltersAssumption == MaxFilters \in Nat \ {0}

Byte == 0..(2^ByteBits - 1)
FilterFailed == SizeMax     \* (size_t) FAIL

Out(nbytes, buf) == [nbytes |-> nbytes, buf |-> buf]
Failing(buf) == Out(FilterFailed, buf)

(* Where memory ends the bytes are unknown.                                *)
CellsOf(buf, garbage) == [j \in Nat |-> IF j < Len(buf) THEN buf[j + 1] ELSE garbage]

UpFrom(lo, hi) == [i \in 1..(hi - lo + 1) |-> lo + i - 1]
DownFrom(hi, lo) == Reverse(UpFrom(lo, hi))

-----------------------------------------------------------------------------
(* Deflate.  A compressed stream is its mark, its length and its bytes;    *)
(* inflate stops at its end and needs all of it.                           *)
ZMark == 2^ByteBits - 1
Complete(buf, nbytes) ==
    Len(buf) >= 2 /\ buf[1] = ZMark /\ Len(buf) >= 2 + buf[2] /\ nbytes >= 2 + buf[2]

(* The output doubles until it is large enough.                            *)
Grown(nalloc, total) ==
    LET doubled == {n \in 0..total : nalloc * 2^n >= total}
    IN  nalloc * 2^(CHOOSE n \in doubled : \A m \in doubled : n <= m)

Deflate(cd, nbytes, buf, garbage) ==
    IF Len(cd) # 1 \/ cd[1] > 9 \/ ~ Complete(buf, nbytes) THEN Failing(buf)
    ELSE LET total == buf[2]
         IN  Out(total, [j \in 1..Grown(Len(buf), total) |->
                            IF j <= total THEN buf[2 + j] ELSE garbage])

-----------------------------------------------------------------------------
(* Shuffle: the first bytes of all elements were stored first.             *)
ShuffleSource(k, size, n) == ((k % size) * n) + (k \div size)

Shuffle(cd, nbytes, buf) ==
    LET size == cd[1]
        n == nbytes \div size
    IN  IF Len(cd) # 1 \/ size = 0 THEN Failing(buf)
        ELSE IF ~ (size > 1 /\ n > 1) THEN Out(nbytes, buf)
        ELSE IF nbytes > Len(buf) THEN Failing(buf)      \* malloc of the largest size
        ELSE Out(nbytes, [j \in 1..nbytes |->
                            IF j > n * size THEN buf[j]
                            ELSE buf[ShuffleSource(j - 1, size, n) + 1]])

-----------------------------------------------------------------------------
(* Fletcher32: two sums of two-byte words, the carries folded in.          *)
Word == 2^(2 * ByteBits)
FoldCarry(s) == (s % Word) + (s \div Word)

Sums(data) ==
    LET pad == IF Len(data) % 2 = 1 THEN data \o <<0>> ELSE data
        words == [j \in 1..(Len(pad) \div 2) |-> pad[2 * j - 1] * 2^ByteBits + pad[2 * j]]
        added == FoldLeft(LAMBDA s, w : <<s[1] + w, s[2] + s[1] + w>>, <<0, 0>>, words)
    IN  <<FoldCarry(FoldCarry(added[1])), FoldCarry(FoldCarry(added[2]))>>

(* The four bytes of the checksum, and those of a library that wrote each  *)
(* half in the wrong order.                                                *)
LowHigh(s) == <<s % 2^ByteBits, s \div 2^ByteBits>>
Checksum(data) == LowHigh(Sums(data)[1]) \o LowHigh(Sums(data)[2])
ReversedChecksum(data) == LET c == Checksum(data) IN <<c[2], c[1], c[4], c[3]>>

FletcherLen == 4

Fletcher32(nbytes, buf) ==
    LET data == SubSeq(buf, 1, nbytes - FletcherLen)
        stored == SubSeq(buf, nbytes - FletcherLen + 1, nbytes)
    IN  IF stored \notin {Checksum(data), ReversedChecksum(data)} THEN Failing(buf)
        ELSE Out(nbytes - FletcherLen, buf)

-----------------------------------------------------------------------------
(* N-bit and scale-offset: values packed bit after bit.  A stream is       *)
(* [j, len, data, idx]: the byte of the input, the bits of it that are     *)
(* left, the output, and parms_index.                                      *)

NextByte(s) == [s EXCEPT !.j = @ + 1, !.len = ByteBits]

(* Of the len lowest bits of v the first n, and the len lowest themselves.  *)
Piece(v, len, n) == (v \div 2^(len - n)) % 2^n
LowBits(v, len) == v % 2^len

(* Mutant: the bits already used are not masked away.                      *)
OneByteUnmasked(s, in, at, n, shift) ==
    LET rest == n - s.len
        high == in[s.j] * 2^rest * 2^shift
        t == NextByte([s EXCEPT !.data[at] = high])
    IN  IF s.len > n
        THEN [s EXCEPT !.data[at] = Piece(in[s.j], s.len, n) * 2^shift, !.len = @ - n]
        ELSE IF rest = 0 THEN t
        ELSE [t EXCEPT !.data[at] = @ + Piece(in[t.j], ByteBits, rest) * 2^shift,
                       !.len = @ - rest]

(* decompress_one_byte: the next n bits become byte at, shifted.           *)
OneByte(s, in, at, n, shift) ==
    LET rest == n - s.len
        high == LowBits(in[s.j], s.len) * 2^rest * 2^shift
        t == NextByte([s EXCEPT !.data[at] = high])
    IN  IF s.len > n
        THEN [s EXCEPT !.data[at] = Piece(in[s.j], s.len, n) * 2^shift, !.len = @ - n]
        ELSE IF rest = 0 THEN t
        ELSE [t EXCEPT !.data[at] = @ + Piece(in[t.j], ByteBits, rest) * 2^shift,
                       !.len = @ - rest]

LittleEndian == 0
BigEndian == 1

(* An atomic value p is [size, order, precision, offset]; the byte with    *)
(* its first bit comes first.                                              *)
Begin(p) ==
    LET bits == p.precision + p.offset
    IN  IF p.order = LittleEndian
        THEN IF bits % ByteBits # 0 THEN bits \div ByteBits ELSE bits \div ByteBits - 1
        ELSE (p.size * ByteBits - bits) \div ByteBits

EndAt(p) ==
    LET bits == p.size * ByteBits - p.offset
    IN  IF p.order = LittleEndian THEN p.offset \div ByteBits
        ELSE IF p.offset % ByteBits # 0 THEN bits \div ByteBits ELSE bits \div ByteBits - 1

BitsIn(p, k) ==
    IF Begin(p) = EndAt(p) THEN p.precision
    ELSE IF k = Begin(p) THEN ByteBits - ((p.size * ByteBits - p.precision - p.offset) % ByteBits)
    ELSE IF k = EndAt(p) THEN ByteBits - (p.offset % ByteBits)
    ELSE ByteBits

Atomic(s, in, at, p) ==
    LET step(t, k) == OneByte(t, in, at + k, BitsIn(p, k),
                              IF k = EndAt(p) THEN p.offset % ByteBits ELSE 0)
    IN  FoldLeft(step, s, IF p.order = LittleEndian THEN DownFrom(Begin(p), EndAt(p))
                                                    ELSE UpFrom(Begin(p), EndAt(p)))

(* Other types are stored byte by byte.                                    *)
NoopType(s, in, at, size) ==
    FoldLeft(LAMBDA t, k : OneByte(t, in, at + k, ByteBits, 0), s, UpFrom(0, size - 1))

AtomicClass == 1
ArrayClass == 2
CompoundClass == 3
NoopClass == 4

ParmsAtomic(cd, i) ==
    [size |-> cd[i + 1], order |-> cd[i + 2], precision |-> cd[i + 3], offset |-> cd[i + 4]]
Skip(s, n) == [s EXCEPT !.idx = @ + n]

RECURSIVE ArrayType(_, _, _, _), CompoundType(_, _, _, _)

(* A value of the class, whose parameters begin at parms_index.            *)
TypedValue(s, in, cd, class, at) ==
    CASE class = AtomicClass -> Atomic(Skip(s, 4), in, at, ParmsAtomic(cd, s.idx))
      [] class = ArrayClass -> ArrayType(s, in, cd, at)
      [] class = CompoundClass -> CompoundType(s, in, cd, at)
      [] class = NoopClass -> NoopType(Skip(s, 1), in, at, cd[s.idx + 1])

(* An array of arrays or compounds ends with parms_index where the         *)
(* parameters of its base type begin, not behind them.                     *)
ArrayType(s, in, cd, at) ==
    LET total == cd[s.idx + 1]
        class == cd[s.idx + 2]
        base == Skip(s, 2)
        size == cd[base.idx + 1]
        element(t, i) ==
            [TypedValue([t EXCEPT !.idx = base.idx], in, cd, class, at + i * size)
                EXCEPT !.idx = IF class = AtomicClass THEN @ ELSE base.idx]
    IN  IF class = NoopClass THEN NoopType(Skip(base, 1), in, at, total)
        ELSE FoldLeft(element, base, UpFrom(0, total \div size - 1))

CompoundType(s, in, cd, at) ==
    LET member(t, i) ==
            TypedValue(Skip(t, 2), in, cd, cd[t.idx + 2], at + cd[t.idx + 1])
    IN  FoldLeft(member, Skip(s, 2), UpFrom(1, cd[s.idx + 2]))

Empty(n) == [k \in 0..(n - 1) |-> 0]
AsSeq(data, n) == [j \in 1..n |-> data[j - 1]]
StreamStart(n) == [j |-> 0, len |-> ByteBits, data |-> Empty(n), idx |-> 4]

(* Z_filter_nbit.  Data that needed no compression are passed on with the  *)
(* size of the buffer.                                                     *)
Nbit(cd, nbytes, buf, garbage) ==
    LET n == cd[3]
        size == cd[5]
        in == CellsOf(buf, garbage)
        one(t, i) == IF cd[4] = NoopClass THEN t
                     ELSE TypedValue([t EXCEPT !.idx = 4], in, cd, cd[4], i * size)
        s == FoldLeft(one, StreamStart(n * size), UpFrom(0, n - 1))
    IN  IF Len(cd) # cd[1] THEN Failing(buf)
        ELSE IF cd[2] # 0 THEN Out(Len(buf), buf)
        ELSE Out(n * size, AsSeq(s.data, n * size))

-----------------------------------------------------------------------------
(* Scale-offset on integers: cd is <<scale type, scale factor, elements,   *)
(* class, size, sign, order, fill value defined, fill value>>.  In the     *)
(* buffer the number of bits, the size of the minimum and the minimum come *)
(* first, in one cell each.                                                *)
ScaleInt == 2
SoHeader == 3

(* The sizes of the C integers.                                            *)
IntSizes == {1, 2, 4, 8}

Number(data, at, size) ==
    FoldLeft(LAMBDA v, k : v * 2^ByteBits + data[at + k], 0, DownFrom(size - 1, 0))
Bytes(v, k) == (v \div 2^(ByteBits * k)) % 2^ByteBits

(* Z_scaleoffset_decompress, in the byte order of the machine.             *)
SoDecompress(in, n, size, minbits) ==
    LET bits == size * ByteBits - minbits
        begin == size - 1 - bits \div ByteBits
        value(t, i) == FoldLeft(LAMBDA u, k : OneByte(u, in, i * size + k,
                       IF k = begin THEN ByteBits - (bits % ByteBits) ELSE ByteBits, 0),
                       t, DownFrom(begin, 0))
    IN  FoldLeft(value, StreamStart(n * size), UpFrom(0, n - 1)).data

(* Mutant: the fill value is moved by the minimum like every other.        *)
PostdecompressAll(v, cd, size, minbits, minval) == (v + minval) % 2^(ByteBits * size)

(* Z_scaleoffset_postdecompress_i on one value.                            *)
Postdecompress(v, cd, size, minbits, minval) ==
    IF cd[8] = 1 /\ v = 2^minbits - 1 THEN cd[9]
    ELSE (v + minval) % 2^(ByteBits * size)

(* A size no C integer has is an error that the caller takes for a type:   *)
(* the values stay as they are.                                            *)
SoValues(data, cd, n, size, minbits, minval) ==
    IF size \notin IntSizes THEN data
    ELSE LET new == [i \in 0..(n - 1) |->
                        Postdecompress(Number(data, i * size, size), cd, size, minbits, minval)]
         IN  [k \in 0..(n * size - 1) |-> Bytes(new[k \div size], k % size)]

(* Z_scaleoffset_convert                                                   *)
SoConvert(data, cd, n, size) ==
    IF cd[7] # BigEndian THEN data
    ELSE [k \in 0..(n * size - 1) |-> data[(k \div size) * size + (size - 1) - (k % size)]]

ScaleOffset(cd, nbytes, buf, garbage) ==
    LET n == cd[3]
        size == cd[5]
        minbits == buf[1]
        in == CellsOf(SubSeq(buf, SoHeader + 1, Len(buf)), garbage)
        raw == [k \in 0..(n * size - 1) |-> in[k]]
        data == IF minbits = 0 THEN Empty(n * size) ELSE SoDecompress(in, n, size, minbits)
        whole == SoConvert(raw, cd, n, size)
        values == SoConvert(SoValues(data, cd, n, size, minbits, buf[3]), cd, n, size)
    IN  IF Len(cd) # 9 \/ cd[1] # ScaleInt \/ cd[2] > size * ByteBits THEN Failing(buf)
        ELSE IF cd[2] = size * ByteBits THEN Out(Len(buf), buf)
        ELSE Out(n * size, AsSeq(IF minbits = size * ByteBits THEN whole ELSE values, n * size))

-----------------------------------------------------------------------------
(* The checksum of nothing, or of more than there is, and more bits than a *)
(* value has: what the filters assert or read out of bounds.               *)
Crashes(f, nbytes, buf) ==
    \/ f.id = "fletcher32" /\ (nbytes <= FletcherLen \/ nbytes > Len(buf))
    \/ /\ f.id = "scaleoffset" /\ Len(f.cd) = 9 /\ f.cd[1] = ScaleInt
       /\ f.cd[2] < f.cd[5] * ByteBits /\ buf[1] > f.cd[5] * ByteBits

(* What filter_pline asserts of the whole pipeline and of the bytes it is  *)
(* given.                                                                  *)
PipelineAborts(pline, buf) == Len(pline) >= MaxFilters \/ buf = <<>>

(* filter_pline, one filter.                                               *)
Apply(f, nbytes, buf, garbage) ==
    CASE f.id = "deflate" -> Deflate(f.cd, nbytes, buf, garbage)
      [] f.id = "shuffle" -> Shuffle(f.cd, nbytes, buf)
      [] f.id = "fletcher32" -> Fletcher32(nbytes, buf)
      [] f.id = "nbit" -> Nbit(f.cd, nbytes, buf, garbage)
      [] f.id = "scaleoffset" -> ScaleOffset(f.cd, nbytes, buf, garbage)

=============================================================================
