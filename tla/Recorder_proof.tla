---------------------------- MODULE Recorder_proof ----------------------------
(***************************************************************************)
(* The buffer of records loses, repeats and reorders nothing, whatever its *)
(* size and the sizes of the pieces appended to it; the trace of a rank    *)
(* is complete, unless another rank removes the directory under it.        *)
(***************************************************************************)
EXTENDS MPIWorkload, FiniteSetTheorems, SequenceTheorems, TLAPS

\* What struct MemBuf holds: pieces on disk, pieces in memory, less of them
\* than the buffer has room for.
Buffers(Piece) == [file : Seq(Piece), buf : Seq(Piece), pos : 0..(BufSize - 1)]

Stream(m) == m.file \o m.buf

\* membufDump moves what is in memory behind what is on disk.
LEMMA DumpKeepsStream ==
  ASSUME NEW Piece, NEW m \in Buffers(Piece)
  PROVE  /\ MembufDump(m) \in Buffers(Piece)
         /\ MembufDump(m).pos = 0
         /\ Stream(MembufDump(m)) = Stream(m)
<1>1. MembufDump(m).pos = 0 /\ MembufDump(m).buf = <<>> /\ MembufDump(m).file = Stream(m)
  BY DEF MembufDump, Stream
<1>2. m.file \in Seq(Piece) /\ m.buf \in Seq(Piece)
  BY DEF Buffers
<1>3. Stream(m) \in Seq(Piece) /\ Stream(m) \o <<>> = Stream(m)
  BY <1>2, ConcatProperties, ConcatEmptySeq DEF Stream
<1>4. Stream(MembufDump(m)) = Stream(m)
  BY <1>1, <1>3 DEF Stream
<1>5. 0 \in 0..(BufSize - 1)
  BY BufSizeAssumption
<1>. QED BY <1>1, <1>3, <1>4, <1>5 DEF Buffers, MembufDump, Stream

-----------------------------------------------------------------------------
\* A piece, long or short, comes after all that was appended before it, and
\* the position stays inside the buffer (membufAppend).
THEOREM AppendKeepsOrder ==
  ASSUME NEW Piece, NEW m \in Buffers(Piece), NEW piece \in Piece, piece.size \in Nat
  PROVE  /\ MembufAppend(m, piece) \in Buffers(Piece)
         /\ Stream(MembufAppend(m, piece)) = Append(Stream(m), piece)
<1>1. CASE piece.size >= BufSize
  <2>. DEFINE d == MembufDump(m)
  <2>1. d \in Buffers(Piece) /\ d.buf = <<>> /\ Stream(d) = Stream(m)
    BY DumpKeepsStream DEF MembufDump
  <2>2. d.file \in Seq(Piece) /\ d.file = Stream(m)
    <3>1. d.file \in Seq(Piece)
      BY <2>1 DEF Buffers
    <3>. QED BY <3>1, <2>1, ConcatEmptySeq DEF Stream
  <2>. HIDE DEF d
  <2>3. MembufAppend(m, piece) = [d EXCEPT !.file = Append(@, piece)]
    BY <1>1 DEF MembufAppend, d
  <2>4. Append(d.file, piece) \in Seq(Piece)
    BY <2>2, AppendProperties
  <2>5. [d EXCEPT !.file = Append(@, piece)] \in Buffers(Piece)
    BY <2>1, <2>4 DEF Buffers
  <2>6. Append(d.file, piece) \o <<>> = Append(d.file, piece)
    BY <2>4, ConcatEmptySeq
  <2>7. Stream([d EXCEPT !.file = Append(@, piece)]) = Append(d.file, piece)
    BY <2>1, <2>6 DEF Stream, Buffers
  <2>. QED BY <2>2, <2>3, <2>5, <2>7
<1>2. CASE ~ (piece.size >= BufSize)
  <2>. DEFINE room == IF m.pos + piece.size >= BufSize THEN MembufDump(m) ELSE m
  <2>1. room \in Buffers(Piece) /\ Stream(room) = Stream(m)
    BY DumpKeepsStream
  <2>2. room.pos + piece.size \in 0..(BufSize - 1)
    <3>1. CASE m.pos + piece.size >= BufSize
      BY <3>1, <1>2, DumpKeepsStream, BufSizeAssumption
    <3>2. CASE ~ (m.pos + piece.size >= BufSize)
      BY <3>2, BufSizeAssumption DEF Buffers
    <3>. QED BY <3>1, <3>2
  <2>3. MembufAppend(m, piece) = [room EXCEPT !.buf = Append(@, piece), !.pos = @ + piece.size]
    BY <1>2 DEF MembufAppend
  <2>. HIDE DEF room
  <2>4. room.file \in Seq(Piece) /\ room.buf \in Seq(Piece)
    BY <2>1 DEF Buffers
  <2>5. Append(room.buf, piece) \in Seq(Piece)
    BY <2>4, AppendProperties
  <2>6. room.file \o Append(room.buf, piece) = Append(room.file \o room.buf, piece)
    <3>1. \A f, b \in Seq(Piece) : f \o Append(b, piece) = Append(f \o b, piece)
      OBVIOUS
    <3>. QED BY <2>4, <3>1, Zenon
  <2>. QED BY <2>1, <2>2, <2>3, <2>5, <2>6 DEF Buffers, Stream
<1>. QED BY <1>1, <1>2

-----------------------------------------------------------------------------
\* The folds and the sums of the model, as instances of Folding.
AddSize(n, p) == n + p.size
Concat(s, t) == s \o t

Appending == INSTANCE Folding WITH Op <- MembufAppend
Summing == INSTANCE Folding WITH Op <- AddSize
Joining == INSTANCE Folding WITH Op <- Concat

Piece == [line : Nat, left : Nat, size : Nat]

Sizes(buf) == FoldLeft(LAMBDA n, p : n + p.size, 0, buf)

LEMMA SizesIsFold == ASSUME NEW buf PROVE Sizes(buf) = Summing!Fold(0, buf)
BY DEF Sizes, FoldLeft, MapThenFoldSet, Max, AddSize, Summing!Fold, Summing!FoldLeft,
       Summing!MapThenFoldSet, Summing!Max

LEMMA WriteIsFold ==
  ASSUME NEW m, NEW line, NEW rec
  PROVE  WriteInText(m, line, rec) = Appending!Fold(m, Pieces(line, rec))
BY DEF WriteInText, FoldLeft, MapThenFoldSet, Max, Appending!Fold, Appending!FoldLeft,
       Appending!MapThenFoldSet, Appending!Max

LEMMA SizesEmpty == Sizes(<<>>) = 0
<1>1. DOMAIN <<>> = 1..0
  OBVIOUS
<1>2. Summing!Fold(0, <<>>) = 0
  BY <1>1, Summing!FoldEmpty
<1>. QED BY <1>2, SizesIsFold

LEMMA SizesStep ==
  ASSUME NEW buf \in Seq(Piece), NEW p \in Piece
  PROVE  Sizes(Append(buf, p)) = Sizes(buf) + p.size
<1>. DEFINE n == Len(buf)
            longer == Append(buf, p)
<1>1. /\ n \in Nat /\ DOMAIN buf = 1..n /\ DOMAIN longer = 1..(n + 1)
      /\ \A i \in 1..n : longer[i] = buf[i]
      /\ longer[n + 1] = p
  BY AppendProperties
<1>. HIDE DEF n, longer
<1>2. Summing!Fold(0, longer) = AddSize(Summing!Fold(0, buf), longer[n + 1])
  BY <1>1, Summing!FoldStep
<1>3. Sizes(longer) = Sizes(buf) + p.size
  BY <1>1, <1>2, SizesIsFold DEF AddSize
<1>. QED BY <1>3 DEF longer

-----------------------------------------------------------------------------
\* The position is the number of bytes in memory.
Full == {m \in Buffers(Piece) : m.pos = Sizes(m.buf)}

LEMMA DumpStaysFull == ASSUME NEW m \in Full PROVE MembufDump(m) \in Full
<1>1. MembufDump(m) \in Buffers(Piece) /\ MembufDump(m).pos = 0
  BY DumpKeepsStream DEF Full
<1>2. MembufDump(m).buf = <<>>
  BY DEF MembufDump
<1>. QED BY <1>1, <1>2, SizesEmpty DEF Full

LEMMA AppendStaysFull ==
  ASSUME NEW m \in Full, NEW piece \in Piece
  PROVE  /\ MembufAppend(m, piece) \in Full
         /\ Stream(MembufAppend(m, piece)) = Append(Stream(m), piece)
<1>1. m \in Buffers(Piece) /\ piece.size \in Nat
  BY DEF Full, Piece
<1>2. /\ MembufAppend(m, piece) \in Buffers(Piece)
      /\ Stream(MembufAppend(m, piece)) = Append(Stream(m), piece)
  BY <1>1, AppendKeepsOrder
<1>3. CASE piece.size >= BufSize
  <2>1. MembufAppend(m, piece).buf = <<>> /\ MembufAppend(m, piece).pos = 0
    BY <1>3 DEF MembufAppend, MembufDump
  <2>. QED BY <1>2, <2>1, SizesEmpty DEF Full
<1>4. CASE ~ (piece.size >= BufSize)
  <2>. DEFINE room == IF m.pos + piece.size >= BufSize THEN MembufDump(m) ELSE m
  <2>1. room \in Full
    BY DumpStaysFull
  <2>2. MembufAppend(m, piece) = [room EXCEPT !.buf = Append(@, piece), !.pos = @ + piece.size]
    BY <1>4 DEF MembufAppend
  <2>. HIDE DEF room
  <2>3. room.buf \in Seq(Piece) /\ room.pos = Sizes(room.buf) /\ room \in Buffers(Piece)
    BY <2>1 DEF Full, Buffers
  <2>4. /\ MembufAppend(m, piece).buf = Append(room.buf, piece)
        /\ MembufAppend(m, piece).pos = room.pos + piece.size
    BY <2>2, <2>3 DEF Buffers
  <2>5. Sizes(Append(room.buf, piece)) = Sizes(room.buf) + piece.size
    BY <2>3, SizesStep
  <2>. QED BY <1>2, <2>3, <2>4, <2>5 DEF Full
<1>. QED BY <1>2, <1>3, <1>4

\* The first k pieces of a line.
FirstOf(pieces, k) == SubSeq(pieces, 1, k)

LEMMA FirstPieces ==
  ASSUME NEW S, NEW pieces \in Seq(S)
  PROVE  /\ FirstOf(pieces, 0) = <<>>
         /\ FirstOf(pieces, Len(pieces)) = pieces
         /\ \A k \in 1..Len(pieces) :
              /\ FirstOf(pieces, k - 1) \in Seq(S)
              /\ FirstOf(pieces, k) = Append(FirstOf(pieces, k - 1), pieces[k])
BY DEF FirstOf

LEMMA AppendConcat ==
  \A s, t \in Seq(Piece) : \A x \in Piece : Append(s \o t, x) = s \o Append(t, x)
OBVIOUS

\* A record, whatever its pieces, comes after all that was written before.
LEMMA LineWritten ==
  ASSUME NEW m \in Full, NEW line, NEW rec, Pieces(line, rec) \in Seq(Piece)
  PROVE  /\ WriteInText(m, line, rec) \in Full
         /\ Stream(WriteInText(m, line, rec)) = Stream(m) \o Pieces(line, rec)
<1>. DEFINE pieces == Pieces(line, rec)
            n == Len(pieces)
            Good == [i \in 0..n |-> {v \in Full : Stream(v) = Stream(m) \o FirstOf(pieces, i)}]
<1>. HIDE DEF pieces
<1>1. pieces \in Seq(Piece) /\ n \in Nat /\ Stream(m) \in Seq(Piece)
  BY DEF pieces, Full, Buffers, Stream
<1>2. m \in Good[0]
  BY <1>1, FirstPieces, ConcatEmptySeq
<1>3. ASSUME NEW i \in 1..n, NEW v \in Good[i - 1]
      PROVE  MembufAppend(v, pieces[i]) \in Good[i]
  <2>1. i - 1 \in 0..n /\ i \in 0..n /\ pieces[i] \in Piece
    BY <1>1
  <2>2. v \in Full /\ Stream(v) = Stream(m) \o FirstOf(pieces, i - 1)
    BY <2>1
  <2>3. MembufAppend(v, pieces[i]) \in Full
        /\ Stream(MembufAppend(v, pieces[i])) = Append(Stream(v), pieces[i])
    BY <2>1, <2>2, AppendStaysFull
  <2>4. FirstOf(pieces, i - 1) \in Seq(Piece)
        /\ FirstOf(pieces, i) = Append(FirstOf(pieces, i - 1), pieces[i])
    BY <1>1, FirstPieces
  <2>5. Append(Stream(m) \o FirstOf(pieces, i - 1), pieces[i])
        = Stream(m) \o Append(FirstOf(pieces, i - 1), pieces[i])
    <3>1. Stream(m) \in Seq(Piece) /\ FirstOf(pieces, i - 1) \in Seq(Piece) /\ pieces[i] \in Piece
      BY <1>1, <2>1, <2>4
    <3>. QED BY <3>1, AppendConcat, Zenon
  <2>. QED BY <2>1, <2>2, <2>3, <2>4, <2>5
<1>4. Appending!Fold(m, pieces) \in Good[n]
  <2>. HIDE DEF Good
  <2>. QED BY <1>1, <1>2, <1>3, Appending!FoldInvariant
<1>5. Good[n] = {v \in Full : Stream(v) = Stream(m) \o pieces}
  <2>1. FirstOf(pieces, n) = pieces /\ n \in 0..n
    BY <1>1, FirstPieces
  <2>. QED BY <2>1
<1>6. WriteInText(m, line, rec) = Appending!Fold(m, pieces)
  BY WriteIsFold DEF pieces
<1>. QED BY <1>4, <1>5, <1>6 DEF pieces

-----------------------------------------------------------------------------
\* FlattenSeq is a fold as well: its recursive function is the only one.
Flattens(f, seqs) ==
  f = [i \in 1..Len(seqs) |-> IF i = 1 THEN seqs[i] ELSE f[i - 1] \o seqs[i]]

Flattened(seqs) == CHOOSE f : Flattens(f, seqs)

LEMMA FlattenUnfolded ==
  ASSUME NEW seqs, Len(seqs) # 0
  PROVE  FlattenSeq(seqs) = Flattened(seqs)[Len(seqs)]
BY DEF FlattenSeq, Flattened, Flattens

Joined(seqs) == Joining!Fold(<<>>, seqs)

LEMMA JoinEmpty == ASSUME NEW seqs, DOMAIN seqs = 1..0 PROVE Joined(seqs) = <<>>
BY Joining!FoldEmpty DEF Joined

LEMMA JoinStep ==
  ASSUME NEW seqs, NEW longer, NEW n \in Nat, DOMAIN seqs = 1..n, DOMAIN longer = 1..(n + 1),
         \A i \in 1..n : longer[i] = seqs[i]
  PROVE  Joined(longer) = Joined(seqs) \o longer[n + 1]
<1>1. \A b : Joining!Fold(b, longer) = Concat(Joining!Fold(b, seqs), longer[n + 1])
  BY Joining!FoldStep
<1>. QED BY <1>1 DEF Joined, Concat

LEMMA FlattenIsFold ==
  ASSUME NEW S, NEW seqs \in Seq(Seq(S))
  PROVE  FlattenSeq(seqs) = Joined(seqs)
<1>. DEFINE n == Len(seqs)
            upTo(k) == [i \in 1..k |-> seqs[i]]
            g == [k \in 1..n |-> Joined(upTo(k))]
<1>1. n \in Nat /\ DOMAIN seqs = 1..n /\ upTo(n) = seqs /\ (\A i \in 1..n : seqs[i] \in Seq(S))
  OBVIOUS
<1>2. CASE n = 0
  <2>1. seqs = <<>> /\ DOMAIN seqs = 1..0
    BY <1>2
  <2>2. Joined(seqs) = <<>>
    BY <2>1, JoinEmpty
  <2>. QED BY <1>2, <2>1, <2>2 DEF FlattenSeq
<1>3. CASE n # 0
  <2>0. \A k \in Nat : DOMAIN upTo(k) = 1..k
    OBVIOUS
  <2>1. ASSUME NEW k \in 1..n
        PROVE  Joined(upTo(k)) = Joined(upTo(k - 1)) \o seqs[k]
    <3>1. /\ k - 1 \in Nat /\ DOMAIN upTo(k - 1) = 1..(k - 1) /\ DOMAIN upTo(k - 1 + 1) = 1..(k - 1 + 1)
          /\ \A i \in 1..(k - 1) : upTo(k - 1 + 1)[i] = upTo(k - 1)[i]
          /\ upTo(k - 1 + 1)[k - 1 + 1] = seqs[k] /\ k - 1 + 1 = k
      BY <1>1
    <3>. HIDE DEF upTo
    <3>2. Joined(upTo(k - 1 + 1))
          = Joined(upTo(k - 1)) \o upTo(k - 1 + 1)[k - 1 + 1]
      BY <3>1, JoinStep
    <3>. QED BY <3>1, <3>2
  <2>2. Joined(upTo(0)) = <<>>
    BY <2>0, JoinEmpty
  <2>. HIDE DEF upTo
  <2>3. Joined(upTo(1)) = seqs[1]
    <3>1. 1 \in 1..n /\ 1 - 1 = 0
      BY <1>1, <1>3
    <3>2. seqs[1] \in Seq(S)
      BY <1>1, <3>1
    <3>3. <<>> \o seqs[1] = seqs[1]
      BY <3>2
    <3>. QED BY <2>1, <2>2, <3>1, <3>3
  <2>4. \A k \in 1..n : g[k] = IF k = 1 THEN seqs[k] ELSE g[k - 1] \o seqs[k]
    <3>. SUFFICES ASSUME NEW k \in 1..n
                  PROVE  g[k] = IF k = 1 THEN seqs[k] ELSE g[k - 1] \o seqs[k]
      OBVIOUS
    <3>1. k # 1 => k - 1 \in 1..n
      BY <1>1
    <3>2. g[k] = Joined(upTo(k)) /\ (k # 1 => g[k - 1] = Joined(upTo(k - 1)))
      BY <3>1
    <3>. HIDE DEF g
    <3>. QED BY <2>1, <2>3, <3>2
  <2>5. Flattens(g, seqs)
    <3>1. g = [k \in 1..n |-> g[k]]
      OBVIOUS
    <3>. HIDE DEF g
    <3>2. g = [k \in 1..n |-> IF k = 1 THEN seqs[k] ELSE g[k - 1] \o seqs[k]]
      BY <2>4, <3>1, Zenon
    <3>. QED BY <3>2 DEF Flattens
  <2>6. ASSUME NEW f, Flattens(f, seqs) PROVE f[n] = g[n]
    <3>. DEFINE Same == {k \in Nat : k \in 1..n => f[k] = g[k]}
    <3>1. \A k \in 1..n : f[k] = IF k = 1 THEN seqs[k] ELSE f[k - 1] \o seqs[k]
      BY <2>6 DEF Flattens
    <3>. HIDE DEF g
    <3>2. 0 \in Same
      OBVIOUS
    <3>3. ASSUME NEW k \in Nat, k \in Same PROVE k + 1 \in Same
      <4>1. CASE k = 0
        BY <2>4, <3>1, <4>1
      <4>2. CASE k # 0
        <5>. SUFFICES ASSUME k + 1 \in 1..n PROVE f[k + 1] = g[k + 1]
          OBVIOUS
        <5>1. k \in 1..n /\ k + 1 - 1 = k /\ k + 1 # 1
          BY <1>1, <4>2
        <5>2. f[k] = g[k]
          BY <3>3, <5>1
        <5>. QED BY <2>4, <3>1, <5>1, <5>2
      <4>. QED BY <4>1, <4>2
    <3>. HIDE DEF Same
    <3>4. \A k \in Nat : k \in Same
      BY <3>2, <3>3, Joining!Inductive
    <3>5. n \in Same /\ n \in 1..n
      BY <1>1, <1>3, <3>4
    <3>. QED BY <3>5 DEF Same
  <2>7. Flattened(seqs)[n] = g[n]
    <3>. HIDE DEF g
    <3>1. Flattens(Flattened(seqs), seqs)
      BY <2>5 DEF Flattened
    <3>. QED BY <2>6, <3>1
  <2>8. n \in 1..n
    BY <1>1, <1>3
  <2>. QED BY <1>1, <1>3, <2>7, <2>8, FlattenUnfolded
<1>. QED BY <1>2, <1>3

-----------------------------------------------------------------------------
\* All pieces of the records w, as TraceComplete has them.
RecordStream(w) == FlattenSeq([k \in DOMAIN w |-> Pieces(k, w[k])])

\* Records whose pieces are pieces.
Writable(w) == (\E S : w \in Seq(S)) /\ \A k \in 1..Len(w) : Pieces(k, w[k]) \in Seq(Piece)

LEMMA NothingWritten == Writable(<<>>) /\ RecordStream(<<>>) = <<>>
<1>1. <<>> \in Seq({}) /\ Len(<<>>) = 0
  OBVIOUS
<1>2. [k \in DOMAIN <<>> |-> Pieces(k, <<>>[k])] = <<>>
  OBVIOUS
<1>. QED BY <1>1, <1>2 DEF Writable, RecordStream, FlattenSeq

LEMMA OneMoreRecord ==
  ASSUME NEW w, Writable(w), NEW rec, Pieces(Len(w) + 1, rec) \in Seq(Piece)
  PROVE  /\ Writable(Append(w, rec)) /\ Len(w) \in Nat /\ Len(Append(w, rec)) = Len(w) + 1
         /\ RecordStream(Append(w, rec)) = RecordStream(w) \o Pieces(Len(w) + 1, rec)
<1>1. PICK S : w \in Seq(S)
  BY DEF Writable
<1>. DEFINE n == Len(w)
            longer == Append(w, rec)
            before == [k \in DOMAIN w |-> Pieces(k, w[k])]
            after == [k \in DOMAIN longer |-> Pieces(k, longer[k])]
<1>2. w \in Seq(S \cup {rec}) /\ n \in Nat /\ DOMAIN w = 1..n
  BY <1>1
<1>3. /\ longer \in Seq(S \cup {rec}) /\ Len(longer) = n + 1 /\ DOMAIN longer = 1..(n + 1)
      /\ longer[n + 1] = rec
      /\ \A k \in 1..n : longer[k] = w[k]
  BY <1>2, AppendProperties
<1>. HIDE DEF longer
<1>4. \A k \in 1..n : Pieces(k, w[k]) \in Seq(Piece)
  BY DEF Writable
<1>5. \A k \in 1..(n + 1) : Pieces(k, longer[k]) \in Seq(Piece)
  <2>. SUFFICES ASSUME NEW k \in 1..(n + 1) PROVE Pieces(k, longer[k]) \in Seq(Piece)
    OBVIOUS
  <2>1. CASE k = n + 1
    BY <1>3, <2>1
  <2>2. CASE k # n + 1
    <3>1. k \in 1..n
      BY <1>2, <2>2
    <3>. QED BY <1>3, <1>4, <3>1
  <2>. QED BY <2>1, <2>2
<1>6. before \in Seq(Seq(Piece)) /\ DOMAIN before = 1..n
  <2>1. before = [k \in 1..n |-> Pieces(k, w[k])]
    BY <1>2
  <2>. HIDE DEF before
  <2>. QED BY <1>2, <1>4, <2>1
<1>7. after \in Seq(Seq(Piece)) /\ DOMAIN after = 1..(n + 1)
  <2>1. after = [k \in 1..(n + 1) |-> Pieces(k, longer[k])]
    BY <1>3
  <2>. HIDE DEF after
  <2>. QED BY <1>2, <1>5, <2>1
<1>8. after[n + 1] = Pieces(n + 1, rec) /\ \A k \in 1..n : after[k] = before[k]
  BY <1>2, <1>3
<1>9. RecordStream(w) = Joined(before) /\ RecordStream(longer) = Joined(after)
  <2>1. RecordStream(w) = FlattenSeq(before) /\ RecordStream(longer) = FlattenSeq(after)
    BY DEF RecordStream
  <2>. HIDE DEF before, after
  <2>. QED BY <1>6, <1>7, <2>1, FlattenIsFold
<1>10. Joined(after) = Joined(before) \o after[n + 1]
  <2>. HIDE DEF before, after
  <2>. QED BY <1>2, <1>6, <1>7, <1>8, JoinStep
<1>. HIDE DEF before, after
<1>. QED BY <1>2, <1>3, <1>5, <1>8, <1>9, <1>10 DEF Writable, longer

-----------------------------------------------------------------------------
(* The ranks. *)

Startup == {"access", "remove", "mkdir", "data", "meta", "global", "start"}

\* The calls that the wrappers of the library see.
Wrapped == {c \in Invocations : c.fn \notin {"MPI_Init", "MPI_Finalize"}}

Frames == [call : Wrapped, next : Nat \ {0}, tstart : Nat]

Directories == [exists : BOOLEAN, files : SUBSET [kind : FileKinds, rank : Nat]]

Types ==
  /\ program \in Programs /\ clock \in Nat
  /\ dir \in Directories
  /\ pc \in [Ranks -> Startup \union {"app", "crashed"}]
  /\ at \in [Ranks -> Nat \ {0}]
  /\ stack \in [Ranks -> Seq(Frames)]
  /\ recording \in [Ranks -> BOOLEAN]
  /\ data \in [Ranks -> {"closed", "open", "null"}]
  /\ meta \in [Ranks -> {"closed", "open", "null"}]

\* A rank whose directory has gone, or that could not open a file in it, is
\* not the only one: it made the directory, and never removes it again.
\* No file was there when the programs began: one that was there keeps the
\* directory from being removed.
NotAlone(r) == \E q \in Ranks : q # r

Earlier == program.found.files

Lost(r) == data[r] = "null" \/ meta[r] = "null" \/ pc[r] = "crashed"

DirInv ==
  /\ dir.files # {} => dir.exists
  /\ Earlier \subseteq dir.files
  /\ \A r \in Ranks : pc[r] \in {"data", "meta", "global"} /\ ~ dir.exists => NotAlone(r)
  /\ \A r \in Ranks : Lost(r) => NotAlone(r) /\ Earlier = {}

\* A rank that starts the logger, or records, has called MPI_Init and not
\* yet MPI_Finalize.
Unfinished(calls, n) ==
  \E i \in DOMAIN calls :
    /\ i < n /\ calls[i].fn = "MPI_Init"
    /\ \A j \in DOMAIN calls : i < j /\ j < n => calls[j].fn # "MPI_Finalize"

SessionInv ==
  /\ \A r \in Ranks : recording[r] \/ pc[r] \in Startup => Unfinished(Calls(r), at[r])
  /\ \A r \in Ranks : stack[r] # <<>> => Calls(r)[at[r]].fn # "MPI_Finalize"
  /\ phase # "recording" => ProgramOver

TraceInv ==
  /\ mem \in [Ranks -> Full]
  /\ DOMAIN written = Ranks /\ DOMAIN total = Ranks
  /\ \A r \in Ranks :
       /\ Writable(written[r]) /\ total[r] = Len(written[r])
       /\ Stream(mem[r]) = RecordStream(written[r])
       /\ ~ recording[r] /\ pc[r] # "crashed" => mem[r].buf = <<>>

IInv == Types /\ DirInv /\ SessionInv /\ TraceInv

-----------------------------------------------------------------------------
LEMMA EmptyBuffer == [file |-> <<>>, buf |-> <<>>, pos |-> 0] \in Full
                     /\ Stream([file |-> <<>>, buf |-> <<>>, pos |-> 0]) = <<>>
<1>1. <<>> \in Seq(Piece) /\ 0 \in 0..(BufSize - 1) /\ <<>> \o <<>> = <<>>
  BY BufSizeAssumption
<1>. QED BY <1>1, SizesEmpty DEF Full, Buffers, Stream

LEMMA InitIInv == Init => IInv
<1>. SUFFICES ASSUME Init PROVE IInv
  OBVIOUS
<1>. USE DEF Init, RecorderInit
<1>1. Types
  <2>1. dir \in Directories
    BY ProgramsAssumption DEF Directories
  <2>. QED BY <2>1 DEF Types
<1>2. DirInv
  <2>1. dir.files # {} => dir.exists
    BY ProgramsAssumption
  <2>. QED BY <2>1 DEF DirInv, Lost, Earlier
<1>3. SessionInv
  BY DEF SessionInv, Startup
<1>4. TraceInv
  <2>1. \A r \in Ranks : mem[r] \in Full /\ Stream(mem[r]) = <<>> /\ mem[r].buf = <<>>
    BY EmptyBuffer
  <2>2. \A r \in Ranks : written[r] = <<>> /\ total[r] = 0
    OBVIOUS
  <2>3. mem \in [Ranks -> Full] /\ DOMAIN written = Ranks /\ DOMAIN total = Ranks
    BY EmptyBuffer
  <2>4. Len(<<>>) = 0
    OBVIOUS
  <2>. QED BY <2>1, <2>2, <2>3, <2>4, NothingWritten DEF TraceInv
<1>. QED BY <1>1, <1>2, <1>3, <1>4 DEF IInv

-----------------------------------------------------------------------------
(* The start of the logger. *)

StartStep(r) ==
  \/ AccessDir(r) \/ RemoveDir(r) \/ MakeDir(r) \/ OpenData(r) \/ OpenMeta(r)
  \/ WriteGlobal(r) \/ StartRecording(r)

\* A file of rank r appears in the directory, if that is there.
FileAdded(r) ==
  /\ dir' \in Directories /\ dir'.exists = dir.exists
  /\ ~ dir.exists => dir' = dir
  /\ dir.files \subseteq dir'.files

LEMMA AddFile ==
  ASSUME dir \in Directories, NEW r \in Ranks, NEW k \in FileKinds,
         dir' = IF dir.exists THEN [dir EXCEPT !.files = @ \union {FileOf(r, k)}] ELSE dir
  PROVE  FileAdded(r)
<1>1. CASE dir.exists
  <2>. DEFINE f == FileOf(r, k)
  <2>1. f \in [kind : FileKinds, rank : Nat] /\ f.rank = r
    BY RanksAssumption DEF FileOf
  <2>. HIDE DEF f
  <2>2. dir' = [dir EXCEPT !.files = @ \union {f}]
    BY <1>1 DEF f
  <2>3. dir'.exists = dir.exists /\ dir'.files = dir.files \union {f}
        /\ dir' = [exists |-> dir.exists, files |-> dir.files \union {f}]
    BY <2>2 DEF Directories
  <2>4. dir.exists \in BOOLEAN /\ dir.files \in SUBSET [kind : FileKinds, rank : Nat]
    BY DEF Directories
  <2>5. dir' \in Directories
    BY <2>1, <2>3, <2>4 DEF Directories
  <2>6. dir.files \subseteq dir'.files
    BY <2>3
  <2>. QED BY <1>1, <2>3, <2>5, <2>6 DEF FileAdded
<1>2. CASE ~ dir.exists
  BY <1>2 DEF FileAdded
<1>. QED BY <1>1, <1>2

LEMMA StartAddsFiles ==
  ASSUME Types, NEW r \in Ranks
  PROVE  OpenData(r) \/ OpenMeta(r) \/ WriteGlobal(r) => FileAdded(r)
<1>1. dir \in Directories
  BY DEF Types, Directories
<1>2. \A k \in FileKinds :
        dir' = (IF dir.exists THEN [dir EXCEPT !.files = @ \union {FileOf(r, k)}] ELSE dir)
        => FileAdded(r)
  BY <1>1, AddFile
<1>3. "itf" \in FileKinds /\ "mt" \in FileKinds /\ "global" \in FileKinds
  BY DEF FileKinds
<1>4. OpenData(r) => FileAdded(r)
  BY <1>2, <1>3, Zenon DEF OpenData, OpenIn
<1>5. OpenMeta(r) => FileAdded(r)
  BY <1>2, <1>3, Zenon DEF OpenMeta, OpenIn
<1>6. WriteGlobal(r) => FileAdded(r)
  BY <1>2, <1>3, Zenon DEF WriteGlobal
<1>. QED BY <1>4, <1>5, <1>6

LEMMA StartTypes == ASSUME Types, NEW r \in Ranks, StartStep(r) PROVE Types'
<1>. USE DEF Types, Startup, Directories
<1>1. CASE AccessDir(r)
  BY <1>1 DEF AccessDir, appVars
<1>2. CASE RemoveDir(r)
  BY <1>2 DEF RemoveDir, appVars
<1>3. CASE MakeDir(r)
  BY <1>3 DEF MakeDir, appVars
<1>4. CASE OpenData(r)
  BY <1>4, StartAddsFiles DEF FileAdded, OpenData, OpenIn, appVars
<1>5. CASE OpenMeta(r)
  BY <1>5, StartAddsFiles DEF FileAdded, OpenMeta, OpenIn, appVars
<1>6. CASE WriteGlobal(r)
  BY <1>6, StartAddsFiles DEF FileAdded, WriteGlobal, appVars
<1>7. CASE StartRecording(r)
  BY <1>7 DEF StartRecording, appVars
<1>. QED BY <1>1, <1>2, <1>3, <1>4, <1>5, <1>6, <1>7 DEF StartStep

\* Nothing else moves, and the rank only gets on.
LEMMA StartFrame ==
  ASSUME Types, NEW r \in Ranks, StartStep(r)
  PROVE  /\ pc[r] \in Startup /\ \A q \in Ranks : q # r => pc'[q] = pc[q]
         /\ pc'[r] \in Startup \union {"crashed"} \/ (pc'[r] = "app" /\ recording'[r])
         /\ \A q \in Ranks : q # r => recording'[q] = recording[q]
         /\ recording'[r] = recording[r] \/ recording'[r]
         /\ UNCHANGED <<program, at, stack, mem, written, total>>
BY DEF StartStep, AccessDir, RemoveDir, MakeDir, OpenData, OpenMeta, WriteGlobal, StartRecording,
       OpenIn, Types, Startup, appVars, localVars

LEMMA StartDir == ASSUME Types, DirInv, NEW r \in Ranks, StartStep(r) PROVE DirInv'
<1>0. Earlier' = Earlier
  BY StartFrame DEF Earlier
<1>. USE <1>0 DEF Types, DirInv, Lost, NotAlone
<1>1. CASE AccessDir(r)
  BY <1>1 DEF AccessDir
<1>2. CASE RemoveDir(r)
  BY <1>2 DEF RemoveDir
<1>3. CASE MakeDir(r)
  BY <1>3 DEF MakeDir
<1>4. CASE OpenData(r)
  <2>1. FileAdded(r)
    BY <1>4, StartAddsFiles
  <2>2. /\ pc[r] = "data" /\ pc' = [pc EXCEPT ![r] = "meta"] /\ meta' = meta
        /\ data' = [data EXCEPT ![r] = IF dir.exists THEN "open" ELSE "null"]
    BY <1>4 DEF OpenData, OpenIn
  <2>. QED BY <2>1, <2>2 DEF FileAdded
<1>5. CASE OpenMeta(r)
  <2>1. FileAdded(r)
    BY <1>5, StartAddsFiles
  <2>2. /\ pc[r] = "meta" /\ pc' = [pc EXCEPT ![r] = IF r = 0 THEN "global" ELSE "start"]
        /\ data' = data /\ meta' = [meta EXCEPT ![r] = IF dir.exists THEN "open" ELSE "null"]
    BY <1>5 DEF OpenMeta, OpenIn
  <2>. QED BY <2>1, <2>2 DEF FileAdded
<1>6. CASE WriteGlobal(r)
  <2>1. FileAdded(r)
    BY <1>6, StartAddsFiles
  <2>2. /\ pc[r] = "global" /\ data' = data /\ meta' = meta
        /\ pc' = [pc EXCEPT ![r] = IF dir.exists THEN "start" ELSE "crashed"]
    BY <1>6 DEF WriteGlobal
  <2>. QED BY <2>1, <2>2 DEF FileAdded
<1>7. CASE StartRecording(r)
  BY <1>7 DEF StartRecording
<1>. QED BY <1>1, <1>2, <1>3, <1>4, <1>5, <1>6, <1>7 DEF StartStep

LEMMA StartKeepsSession ==
  ASSUME IInv, phase = "recording", phase' = phase, NEW r \in Ranks, StartStep(r)
  PROVE  SessionInv'
<1>1. /\ pc[r] \in Startup /\ \A q \in Ranks : q # r => pc'[q] = pc[q]
      /\ \A q \in Ranks : q # r => recording'[q] = recording[q]
      /\ UNCHANGED <<program, at, stack>>
  BY StartFrame DEF IInv
<1>2. \A q \in Ranks : Calls(q)' = Calls(q)
  BY <1>1 DEF Calls
<1>. QED BY <1>1, <1>2 DEF IInv, SessionInv

LEMMA StartKeepsTrace ==
  ASSUME IInv, NEW r \in Ranks, StartStep(r)
  PROVE  TraceInv'
<1>1. /\ pc[r] \in Startup /\ \A q \in Ranks : q # r => pc'[q] = pc[q]
      /\ \A q \in Ranks : q # r => recording'[q] = recording[q]
      /\ recording'[r] = recording[r] \/ recording'[r]
      /\ UNCHANGED <<mem, written, total>>
  BY StartFrame DEF IInv
<1>2. pc[r] # "crashed"
  BY <1>1 DEF Startup
<1>. QED BY <1>1, <1>2 DEF IInv, TraceInv

LEMMA StartKeepsIInv ==
  ASSUME IInv, phase = "recording", phase' = phase, NEW r \in Ranks, StartStep(r)
  PROVE  IInv'
BY StartTypes, StartDir, StartKeepsSession, StartKeepsTrace DEF IInv

-----------------------------------------------------------------------------
(* Calls begin and end. *)

LEMMA NextIsInvocation ==
  ASSUME Types, NEW r \in Ranks, HasNext(r)
  PROVE  /\ NextCall(r) \in Invocations
         /\ stack[r] = <<>> => at[r] \in DOMAIN Calls(r) /\ NextCall(r) = Calls(r)[at[r]]
<1>1. CASE stack[r] = <<>>
  <2>1. Calls(r) \in Seq(Invocations) /\ at[r] \in Nat \ {0}
    BY ProgramsAssumption DEF Types, Calls
  <2>2. at[r] <= Len(Calls(r)) /\ NextCall(r) = Calls(r)[at[r]]
    BY <1>1 DEF HasNext, NextCall
  <2>. HIDE DEF Calls
  <2>. QED BY <2>1, <2>2
<1>2. CASE stack[r] # <<>>
  <2>1. stack[r] \in Seq(Frames)
    BY DEF Types
  <2>2. Top(r) \in Frames
    BY <1>2, <2>1 DEF Top, Last
  <2>3. Top(r).next \in Nat \ {0} /\ Top(r).call.inner \in Seq(Invocations)
    BY <2>2, InvocationsAssumption DEF Frames, Wrapped
  <2>4. Top(r).next <= Len(Top(r).call.inner) /\ NextCall(r) = Top(r).call.inner[Top(r).next]
    BY <1>2 DEF HasNext, NextCall
  <2>. QED BY <1>2, <2>3, <2>4
<1>. QED BY <1>1, <1>2

LEMMA AdvancedIsStack == ASSUME NEW s \in Seq(Frames) PROVE Advanced(s) \in Seq(Frames)
<1>1. CASE s = <<>>
  BY <1>1 DEF Advanced
<1>2. CASE s # <<>>
  <2>. DEFINE n == Len(s)
              top == [s[n] EXCEPT !.next = @ + 1]
              t == [s EXCEPT ![n].next = @ + 1]
  <2>1. n \in 1..n /\ DOMAIN s = 1..n /\ s[n] \in Frames /\ n \in Nat
        /\ \A i \in 1..n : s[i] \in Frames
    BY <1>2
  <2>2. top \in Frames
    <3>. DEFINE u == s[n]
    <3>1. u \in Frames /\ top = [u EXCEPT !.next = @ + 1]
      BY <2>1
    <3>. HIDE DEF u, top
    <3>2. u.next + 1 \in Nat \ {0}
      BY <3>1 DEF Frames
    <3>. QED BY <3>1, <3>2 DEF Frames
  <2>3. t = [i \in 1..n |-> IF i = n THEN top ELSE s[i]]
    BY <2>1
  <2>. HIDE DEF top, t, n
  <2>4. \A i \in 1..n : (IF i = n THEN top ELSE s[i]) \in Frames
    BY <2>1, <2>2
  <2>5. t \in Seq(Frames)
    BY <2>1, <2>3, <2>4
  <2>. QED BY <1>2, <2>5 DEF t, n, Advanced
<1>. QED BY <1>1, <1>2

LEMMA BeginKeepsIInv ==
  ASSUME IInv, phase = "recording", phase' = phase, NEW r \in Ranks, Begin(r)
  PROVE  IInv'
<1>. USE DEF IInv
<1>1. /\ UNCHANGED <<program, at, dir, pc, recording, data, meta, mem, written, total>>
      /\ HasNext(r) /\ clock' = clock + 2
  BY DEF Begin, localVars
<1>2. [call |-> NextCall(r), next |-> 1, tstart |-> clock'] \in Frames
  BY <1>1, NextIsInvocation DEF Begin, Frames, Wrapped, Types
<1>3. stack' \in [Ranks -> Seq(Frames)]
  <2>. DEFINE f == [call |-> NextCall(r), next |-> 1, tstart |-> clock']
              s == Append(Advanced(stack[r]), f)
  <2>1. stack \in [Ranks -> Seq(Frames)]
    BY DEF Types
  <2>2. s \in Seq(Frames)
    <3>. HIDE DEF f
    <3>1. f \in Frames /\ Advanced(stack[r]) \in Seq(Frames)
      BY <1>2, <2>1, AdvancedIsStack DEF f
    <3>. QED BY <3>1, AppendProperties
  <2>3. stack' = [stack EXCEPT ![r] = s]
    BY DEF Begin
  <2>. HIDE DEF s
  <2>. QED BY <2>1, <2>2, <2>3
<1>4. Types'
  BY <1>1, <1>3 DEF Types
<1>5. DirInv'
  BY <1>1 DEF DirInv, Lost, Earlier, NotAlone
<1>6. SessionInv'
  <2>1. \A q \in Ranks : Calls(q)' = Calls(q)
    BY <1>1 DEF Calls
  <2>2. \A q \in Ranks : q # r => stack'[q] = stack[q]
    BY DEF Begin, Types
  <2>3. Calls(r)[at[r]].fn # "MPI_Finalize"
    <3>1. CASE stack[r] = <<>>
      BY <1>1, <3>1, NextIsInvocation DEF Begin
    <3>2. CASE stack[r] # <<>>
      BY <3>2 DEF SessionInv
    <3>. QED BY <3>1, <3>2
  <2>4. \A q \in Ranks : stack'[q] # <<>> => Calls(q)'[at'[q]].fn # "MPI_Finalize"
    BY <1>1, <2>1, <2>2, <2>3 DEF SessionInv
  <2>. QED BY <1>1, <2>1, <2>4 DEF SessionInv
<1>7. TraceInv'
  BY <1>1 DEF TraceInv
<1>. QED BY <1>4, <1>5, <1>6, <1>7

LEMMA InitKeepsIInv ==
  ASSUME IInv, phase = "recording", phase' = phase, NEW r \in Ranks, CallInit(r)
  PROVE  IInv'
<1>. USE DEF IInv
<1>1. /\ pc[r] = "app" /\ stack[r] = <<>> /\ HasNext(r) /\ NextCall(r).fn = "MPI_Init"
      /\ pc' = [pc EXCEPT ![r] = "access"] /\ at' = [at EXCEPT ![r] = @ + 1]
      /\ UNCHANGED <<program, clock, stack, dir, recording, data, meta, mem, written, total>>
  BY DEF CallInit, localVars
<1>2. Types'
  BY <1>1 DEF Types, Startup
<1>3. DirInv'
  BY <1>1 DEF DirInv, Lost, Earlier, NotAlone, Types
<1>4. SessionInv'
  <2>1. \A q \in Ranks : Calls(q)' = Calls(q)
    BY <1>1 DEF Calls
  <2>2. at[r] \in DOMAIN Calls(r) /\ Calls(r)[at[r]].fn = "MPI_Init" /\ at[r] \in Nat
    BY <1>1, NextIsInvocation DEF Types
  <2>3. at'[r] = at[r] + 1 /\ \A q \in Ranks : q # r => at'[q] = at[q] /\ pc'[q] = pc[q]
    BY <1>1 DEF Types
  <2>4. Unfinished(Calls(r), at[r] + 1)
    <3>1. DOMAIN Calls(r) \subseteq Nat
      BY ProgramsAssumption DEF Calls, Types
    <3>. HIDE DEF Calls
    <3>2. \A j \in DOMAIN Calls(r) : ~ (at[r] < j /\ j < at[r] + 1)
      BY <2>2, <3>1
    <3>. QED BY <2>2, <3>2 DEF Unfinished
  <2>. QED BY <1>1, <2>1, <2>3, <2>4 DEF SessionInv
<1>5. TraceInv'
  <2>1. pc[r] # "crashed" /\ \A q \in Ranks : q # r => pc'[q] = pc[q]
    BY <1>1 DEF Types
  <2>. QED BY <1>1, <2>1 DEF TraceInv
<1>. QED BY <1>2, <1>3, <1>4, <1>5

-----------------------------------------------------------------------------
(* The record of a call. *)

LEMMA PiecesOfRecord ==
  ASSUME Types, NEW r \in Ranks, NEW c \in Wrapped, NEW t, NEW line \in Nat
  PROVE  Pieces(line, RecordOf(r, c, t)) \in Seq(Piece)
<1>. DEFINE rec == RecordOf(r, c, t)
            n == NumPieces(rec)
<1>1. ArgKinds(c) \in Seq(STRING) /\ c.len \in Nat
  BY InvocationsAssumption DEF Wrapped
<1>2. rec.args = Arguments(c) /\ rec.len = c.len
  BY DEF RecordOf
<1>3. Len(Arguments(c)) \in Nat
  <2>1. DOMAIN Arguments(c) = 1..Len(ArgKinds(c)) /\ Len(ArgKinds(c)) \in Nat
    BY <1>1 DEF Arguments
  <2>2. Arguments(c) = [i \in DOMAIN ArgKinds(c) |-> [kind |-> ArgKinds(c)[i], val |-> ArgValue(c, i)]]
    BY DEF Arguments
  <2>3. Len(Arguments(c)) = Len(ArgKinds(c))
    <3>1. \A k \in Nat : \A f : DOMAIN f = 1..k /\ f = [i \in DOMAIN f |-> f[i]] => Len(f) = k
      OBVIOUS
    <3>. QED BY <2>1, <2>2, <3>1
  <2>. QED BY <2>1, <2>3
<1>. HIDE DEF rec
<1>4. n \in Nat
  BY <1>2, <1>3 DEF NumPieces
<1>5. Pieces(line, rec)
      = [i \in 1..n |-> [line |-> line, left |-> n - i,
                         size |-> IF IsPayload(rec, i) THEN rec.len ELSE 1]]
  BY DEF Pieces
<1>. HIDE DEF n
<1>6. \A i \in 1..n :
        [line |-> line, left |-> n - i, size |-> IF IsPayload(rec, i) THEN rec.len ELSE 1] \in Piece
  BY <1>1, <1>2, <1>4 DEF Piece
<1>7. Pieces(line, rec) \in Seq(Piece)
  BY <1>4, <1>5, <1>6
<1>. QED BY <1>7 DEF rec

LEMMA LoggedKeepsTrace ==
  ASSUME Types, DirInv, TraceInv, NEW r \in Ranks, NEW c \in Wrapped, NEW t, recording' = recording,
         recording[r], pc[r] = "app", Logged(r, RecordOf(r, c, t))
  PROVE  /\ TraceInv'
         /\ pc' = pc \/ (pc' = [pc EXCEPT ![r] = "crashed"] /\ data[r] = "null")
<1>. DEFINE rec == RecordOf(r, c, t)
            line == total[r] + 1
            m == WriteInText(mem[r], line, rec)
<1>1. total[r] = Len(written[r]) /\ Writable(written[r]) /\ mem[r] \in Full
      /\ Stream(mem[r]) = RecordStream(written[r])
  BY DEF TraceInv
<1>2. Len(written[r]) \in Nat
  BY <1>1 DEF Writable
<1>3. Pieces(line, rec) \in Seq(Piece)
  BY <1>1, <1>2, PiecesOfRecord
<1>. HIDE DEF rec
<1>4. m \in Full /\ Stream(m) = Stream(mem[r]) \o Pieces(line, rec)
  BY <1>1, <1>3, LineWritten
<1>5. /\ Writable(Append(written[r], rec)) /\ Len(Append(written[r], rec)) = line
      /\ RecordStream(Append(written[r], rec)) = RecordStream(written[r]) \o Pieces(line, rec)
  BY <1>1, <1>3, OneMoreRecord
<1>6. Logged(r, rec)
  BY DEF rec
<1>. HIDE DEF m
<1>7. CASE data[r] = "null" /\ m.file # mem[r].file
  <2>1. pc' = [pc EXCEPT ![r] = "crashed"] /\ UNCHANGED <<mem, written, total>>
    BY <1>6, <1>7 DEF Logged, m
  <2>2. pc'[r] = "crashed" /\ \A q \in Ranks : q # r => pc'[q] = pc[q]
    BY <2>1 DEF Types
  <2>. QED BY <1>7, <2>1, <2>2 DEF TraceInv
<1>8. CASE ~ (data[r] = "null" /\ m.file # mem[r].file)
  <2>1. /\ mem' = [mem EXCEPT ![r] = m] /\ pc' = pc
        /\ written' = [written EXCEPT ![r] = Append(@, rec)]
        /\ total' = [total EXCEPT ![r] = @ + 1]
    BY <1>6, <1>8 DEF Logged, m
  <2>2. mem'[r] = m /\ written'[r] = Append(written[r], rec) /\ total'[r] = line
    BY <2>1 DEF TraceInv
  <2>3. /\ mem' \in [Ranks -> Full] /\ DOMAIN written' = Ranks /\ DOMAIN total' = Ranks
        /\ \A q \in Ranks : q # r =>
             mem'[q] = mem[q] /\ written'[q] = written[q] /\ total'[q] = total[q]
    BY <1>4, <2>1 DEF TraceInv
  <2>. HIDE DEF line
  <2>4. \A q \in Ranks :
          /\ Writable(written'[q]) /\ total'[q] = Len(written'[q])
          /\ Stream(mem'[q]) = RecordStream(written'[q])
          /\ ~ recording'[q] /\ pc'[q] # "crashed" => mem'[q].buf = <<>>
    <3>. SUFFICES ASSUME NEW q \in Ranks
                  PROVE  /\ Writable(written'[q]) /\ total'[q] = Len(written'[q])
                         /\ Stream(mem'[q]) = RecordStream(written'[q])
                         /\ ~ recording'[q] /\ pc'[q] # "crashed" => mem'[q].buf = <<>>
      OBVIOUS
    <3>1. CASE q = r
      BY <1>1, <1>4, <1>5, <2>2, <3>1
    <3>2. CASE q # r
      BY <2>1, <2>3, <3>2 DEF TraceInv
    <3>. QED BY <3>1, <3>2
  <2>5. TraceInv'
    BY <2>3, <2>4 DEF TraceInv
  <2>. QED BY <2>1, <2>5
<1>. QED BY <1>7, <1>8

LEMMA FrontIsStack ==
  ASSUME NEW s \in Seq(Frames), s # <<>>
  PROVE  /\ Front(s) \in Seq(Frames) /\ Last(s) \in Frames
         /\ Front(s) # <<>> => Len(s) # 1
<1>1. Len(s) \in Nat \ {0} /\ Len(s) \in DOMAIN s
  OBVIOUS
<1>3. SubSeq(s, 1, Len(s) - 1) \in Seq(Frames)
  <2>1. \A i \in 1..(Len(s) - 1) : s[i] \in Frames
    BY <1>1
  <2>. QED BY <1>1, <2>1, SubSeqProperties
<1>4. Len(s) = 1 => SubSeq(s, 1, Len(s) - 1) = <<>>
  BY <1>3
<1>. QED BY <1>1, <1>3, <1>4 DEF Front, Last

LEMMA EndKeepsIInv ==
  ASSUME IInv, phase = "recording", phase' = phase, NEW r \in Ranks, End(r)
  PROVE  IInv'
<1>. USE DEF IInv
<1>. DEFINE c == Top(r).call
<1>1. /\ pc[r] = "app" /\ stack[r] # <<>> /\ stack' = [stack EXCEPT ![r] = Front(@)]
      /\ at' = IF Len(stack[r]) = 1 THEN [at EXCEPT ![r] = @ + 1] ELSE at
      /\ UNCHANGED <<program, clock, dir, recording, data, meta>>
  BY DEF End
<1>2. recording[r] => Logged(r, RecordOf(r, c, Top(r).tstart))
  BY DEF End
<1>3. ~ recording[r] => UNCHANGED <<pc, mem, written, total>>
  BY DEF End
<1>4. Front(stack[r]) \in Seq(Frames) /\ c \in Wrapped
      /\ (Front(stack[r]) # <<>> => Len(stack[r]) # 1)
  <2>1. stack[r] \in Seq(Frames)
    BY DEF Types
  <2>. QED BY <1>1, <2>1, FrontIsStack DEF Top, Frames
<1>5. /\ TraceInv'
      /\ pc' = pc \/ (pc' = [pc EXCEPT ![r] = "crashed"] /\ data[r] = "null")
  <2>1. CASE recording[r]
    <3>. HIDE DEF c
    <3>. QED BY <1>1, <1>2, <1>4, <2>1, LoggedKeepsTrace
  <2>2. CASE ~ recording[r]
    BY <1>1, <1>3, <2>2 DEF TraceInv
  <2>. QED BY <2>1, <2>2
<1>6. Types'
  <2>1. pc' \in [Ranks -> Startup \union {"app", "crashed"}]
    BY <1>5 DEF Types
  <2>2. stack' \in [Ranks -> Seq(Frames)]
    BY <1>1, <1>4 DEF Types
  <2>3. at' \in [Ranks -> Nat \ {0}]
    BY <1>1 DEF Types
  <2>. QED BY <1>1, <2>1, <2>2, <2>3 DEF Types
<1>7. DirInv'
  <2>1. \A q \in Ranks : pc'[q] = pc[q] \/ (pc'[q] = "crashed" /\ data[q] = "null")
    BY <1>5 DEF Types
  <2>. QED BY <1>1, <2>1 DEF DirInv, Lost, Earlier, NotAlone
<1>8. SessionInv'
  <2>1. \A q \in Ranks : Calls(q)' = Calls(q)
    BY <1>1 DEF Calls
  <2>2. \A q \in Ranks : pc'[q] \in Startup => pc[q] \in Startup
    BY <1>5 DEF Types, Startup
  <2>3. \A q \in Ranks : q # r => stack'[q] = stack[q] /\ at'[q] = at[q]
    BY <1>1 DEF Types
  <2>4. stack'[r] = Front(stack[r])
        /\ at'[r] = IF Len(stack[r]) = 1 THEN at[r] + 1 ELSE at[r]
    BY <1>1 DEF Types
  <2>5. Unfinished(Calls(r), at[r]) => Unfinished(Calls(r), at'[r])
    <3>1. DOMAIN Calls(r) \subseteq Nat /\ at[r] \in Nat
      <4>1. program.calls \in [Ranks -> Seq(Invocations)]
        BY ProgramsAssumption DEF Types
      <4>2. Calls(r) \in Seq(Invocations)
        BY <4>1 DEF Calls
      <4>3. at[r] \in Nat
        BY DEF Types
      <4>. HIDE DEF Calls
      <4>. QED  BY <4>2, <4>3
    <3>2. Calls(r)[at[r]].fn # "MPI_Finalize"
      BY <1>1 DEF SessionInv
    <3>. HIDE DEF Calls
    <3>. SUFFICES ASSUME Unfinished(Calls(r), at[r]), at'[r] = at[r] + 1
                  PROVE  Unfinished(Calls(r), at[r] + 1)
      BY <2>4
    <3>3. PICK i \in DOMAIN Calls(r) :
            /\ i < at[r] /\ Calls(r)[i].fn = "MPI_Init"
            /\ \A j \in DOMAIN Calls(r) : i < j /\ j < at[r] => Calls(r)[j].fn # "MPI_Finalize"
      BY DEF Unfinished
    <3>4. i < at[r] + 1
      BY <3>1, <3>3
    <3>5. ASSUME NEW j \in DOMAIN Calls(r), i < j, j < at[r] + 1
          PROVE  Calls(r)[j].fn # "MPI_Finalize"
      <4>1. j < at[r] \/ j = at[r]
        BY <3>1, <3>5
      <4>. QED BY <3>2, <3>3, <3>5, <4>1
    <3>. QED BY <3>3, <3>4, <3>5 DEF Unfinished
  <2>6. \A q \in Ranks : recording'[q] \/ pc'[q] \in Startup => Unfinished(Calls(q)', at'[q])
    BY <1>1, <2>1, <2>2, <2>3, <2>5 DEF SessionInv
  <2>7. \A q \in Ranks : stack'[q] # <<>> => Calls(q)'[at'[q]].fn # "MPI_Finalize"
    BY <1>1, <1>4, <2>1, <2>3, <2>4 DEF SessionInv
  <2>. QED BY <2>6, <2>7 DEF SessionInv
<1>. QED BY <1>5, <1>6, <1>7, <1>8

-----------------------------------------------------------------------------
LEMMA FinalizeKeepsIInv ==
  ASSUME IInv, phase = "recording", phase' = phase, NEW r \in Ranks, CallFinalize(r)
  PROVE  IInv'
<1>. USE DEF IInv
<1>. DEFINE m == MembufDump(mem[r])
            described == meta[r] # "null"
            dumped == described /\ (data[r] = "null" => m.file = mem[r].file)
<1>1. /\ pc[r] = "app" /\ stack[r] = <<>> /\ at' = [at EXCEPT ![r] = @ + 1]
      /\ UNCHANGED <<program, clock, stack, dir, total, written>>
  BY DEF CallFinalize
<1>2. /\ recording' = [recording EXCEPT ![r] = FALSE]
      /\ meta' = (IF described THEN [meta EXCEPT ![r] = "closed"] ELSE meta)
      /\ data' = (IF dumped THEN [data EXCEPT ![r] = "closed"] ELSE data)
      /\ mem' = (IF dumped THEN [mem EXCEPT ![r] = m] ELSE mem)
      /\ pc' = [pc EXCEPT ![r] = IF dumped THEN "app" ELSE "crashed"]
  BY DEF CallFinalize, LoggerExit
<1>3. ~ dumped => Lost(r)
  BY DEF Lost
<1>. HIDE DEF dumped, described
<1>4. Types'
  BY <1>1, <1>2 DEF Types
<1>5. DirInv'
  <2>1. ASSUME NEW q \in Ranks, Lost(q)' PROVE Lost(q)
    <3>1. CASE q = r
      BY <1>2, <1>3, <2>1, <3>1 DEF Lost, Types
    <3>2. CASE q # r
      BY <1>2, <2>1, <3>2 DEF Lost, Types
    <3>. QED BY <3>1, <3>2
  <2>2. \A q \in Ranks : pc'[q] \in {"data", "meta", "global"} => pc[q] = pc'[q]
    BY <1>2 DEF Types
  <2>. QED BY <1>1, <2>1, <2>2 DEF DirInv, Earlier, NotAlone
<1>6. SessionInv'
  <2>1. \A q \in Ranks : Calls(q)' = Calls(q)
    BY <1>1 DEF Calls
  <2>2. \A q \in Ranks : q # r =>
          at'[q] = at[q] /\ pc'[q] = pc[q] /\ recording'[q] = recording[q]
    BY <1>1, <1>2 DEF Types
  <2>3. ~ recording'[r] /\ pc'[r] \notin Startup
    BY <1>2 DEF Types, Startup
  <2>. QED BY <1>1, <2>1, <2>2, <2>3 DEF SessionInv
<1>7. TraceInv'
  <2>1. mem[r] \in Full /\ mem \in [Ranks -> Full]
    BY DEF TraceInv
  <2>2. m \in Full /\ m.buf = <<>> /\ Stream(m) = Stream(mem[r])
    <3>1. mem[r] \in Buffers(Piece)
      BY <2>1 DEF Full
    <3>2. Stream(m) = Stream(mem[r])
      BY <3>1, DumpKeepsStream
    <3>. QED BY <2>1, <3>2, DumpStaysFull DEF MembufDump
  <2>. HIDE DEF m
  <2>3. mem' \in [Ranks -> Full]
    BY <1>2, <2>1, <2>2
  <2>4. \A q \in Ranks :
          /\ Stream(mem'[q]) = Stream(mem[q])
          /\ ~ recording'[q] /\ pc'[q] # "crashed" => mem'[q].buf = <<>>
    <3>. SUFFICES ASSUME NEW q \in Ranks
                  PROVE  /\ Stream(mem'[q]) = Stream(mem[q])
                         /\ ~ recording'[q] /\ pc'[q] # "crashed" => mem'[q].buf = <<>>
      OBVIOUS
    <3>1. CASE q = r
      BY <1>2, <2>1, <2>2, <3>1 DEF Types
    <3>2. CASE q # r
      <4>1. mem'[q] = mem[q] /\ recording'[q] = recording[q] /\ pc'[q] = pc[q]
        BY <1>2, <2>1, <3>2 DEF Types
      <4>. QED BY <4>1 DEF TraceInv
    <3>. QED BY <3>1, <3>2
  <2>. QED BY <1>1, <2>3, <2>4 DEF TraceInv
<1>. QED BY <1>4, <1>5, <1>6, <1>7

-----------------------------------------------------------------------------
(* The readers do not touch what the ranks have. *)

LEMMA UnchangedKeepsIInv ==
  ASSUME IInv, UNCHANGED recorderVars, phase' # "recording" => ProgramOver
  PROVE  IInv'
<1>. USE DEF IInv, recorderVars, appVars, localVars
<1>1. \A r \in Ranks : Calls(r)' = Calls(r)
  BY DEF Calls
<1>2. ProgramOver => ProgramOver'
  BY <1>1 DEF ProgramOver, HasNext, Top
<1>3. Types'
  BY DEF Types
<1>4. DirInv'
  BY DEF DirInv, Lost, Earlier, NotAlone
<1>5. SessionInv'
  BY <1>1, <1>2 DEF SessionInv
<1>6. TraceInv'
  BY DEF TraceInv
<1>. QED BY <1>3, <1>4, <1>5, <1>6

LEMMA NextIInv == ASSUME IInv, [Next]_vars PROVE IInv'
<1>1. CASE Recording
  <2>1. phase = "recording" /\ phase' = phase
    BY <1>1 DEF Recording
  <2>2. PICK r \in Ranks : StartStep(r) \/ Begin(r) \/ CallInit(r) \/ End(r) \/ CallFinalize(r)
    BY <1>1 DEF Recording, RecorderNext, StartStep
  <2>. QED BY <2>1, <2>2, StartKeepsIInv, BeginKeepsIInv, InitKeepsIInv, EndKeepsIInv,
           FinalizeKeepsIInv
<1>2. CASE ReadTraces
  BY <1>2, UnchangedKeepsIInv DEF ReadTraces
<1>3. CASE LegalReplay
  <2>1. UNCHANGED recorderVars /\ phase = "read"
    BY <1>3 DEF LegalReplay
  <2>2. ProgramOver
    BY <2>1 DEF IInv, SessionInv
  <2>. QED BY <2>1, <2>2, UnchangedKeepsIInv
<1>4. CASE UNCHANGED vars
  <2>1. UNCHANGED recorderVars /\ phase' = phase
    BY <1>4 DEF vars
  <2>2. phase' # "recording" => ProgramOver
    BY <2>1 DEF IInv, SessionInv
  <2>. QED BY <2>1, <2>2, UnchangedKeepsIInv
<1>. QED BY <1>1, <1>2, <1>3, <1>4 DEF Next, Stopped

-----------------------------------------------------------------------------
LEMMA OthersCount == ASSUME NEW r \in Ranks, NotAlone(r) PROVE Cardinality(Ranks) > 1
<1>1. PICK q \in Ranks : q # r
  BY DEF NotAlone
<1>2. IsFiniteSet({r}) /\ Cardinality({r}) = 1
  BY FS_Singleton
<1>3. IsFiniteSet({r} \union {q}) /\ Cardinality({r} \union {q}) = 2
  BY <1>1, <1>2, FS_AddElement
<1>4. Cardinality({r} \union {q}) <= Cardinality(Ranks)
  BY RanksAssumption, FS_Subset
<1>5. Cardinality(Ranks) \in Nat
  BY RanksAssumption, FS_CardinalityType
<1>. QED BY <1>3, <1>4, <1>5

LEMMA OverIsFinished ==
  ASSUME Types, SessionInv, ProgramOver, NEW r \in Ranks
  PROVE  ~ recording[r]
<1>. SUFFICES ASSUME Unfinished(Calls(r), at[r]) PROVE FALSE
  BY DEF SessionInv
<1>1. Calls(r) \in Seq(Invocations) /\ at[r] \in Nat
  BY ProgramsAssumption DEF Types, Calls
<1>2. ~ (at[r] <= Len(Calls(r)))
  BY DEF ProgramOver, HasNext
<1>3. \A i \in DOMAIN Calls(r) : Calls(r)[i].fn = "MPI_Init" =>
        \E j \in DOMAIN Calls(r) : j > i /\ Calls(r)[j].fn = "MPI_Finalize"
  BY ProgramsAssumption DEF Types, Calls
<1>. HIDE DEF Calls
<1>4. PICK i \in DOMAIN Calls(r) :
        /\ i < at[r] /\ Calls(r)[i].fn = "MPI_Init"
        /\ \A j \in DOMAIN Calls(r) : i < j /\ j < at[r] => Calls(r)[j].fn # "MPI_Finalize"
  BY DEF Unfinished
<1>5. PICK j \in DOMAIN Calls(r) : j > i /\ Calls(r)[j].fn = "MPI_Finalize"
  BY <1>3, <1>4
<1>6. i < j /\ j < at[r]
  BY <1>1, <1>2, <1>5
<1>. QED BY <1>4, <1>5, <1>6

LEMMA IInvImpliesComplete == IInv => TraceComplete
<1>. SUFFICES ASSUME IInv, NEW r \in Ranks
              PROVE  LET stream == RecordStream(written[r])
                     IN  /\ mem[r].file \o mem[r].buf = stream
                         /\ mem[r].pos = Sizes(mem[r].buf)
                         /\ mem[r].pos < BufSize
                         /\ phase # "recording" => mem[r].buf = <<>>
                         /\ pc[r] = "crashed" => Cardinality(Ranks) > 1 /\ Earlier = {}
  BY DEF TraceComplete, RecordStream, Sizes, Earlier
<1>. USE DEF IInv
<1>1. pc[r] = "crashed" => Cardinality(Ranks) > 1 /\ Earlier = {}
  BY OthersCount DEF DirInv, Lost
<1>2. mem[r] \in Full /\ Stream(mem[r]) = RecordStream(written[r])
  BY DEF TraceInv
<1>3. mem[r].pos = Sizes(mem[r].buf) /\ mem[r].pos < BufSize
  BY <1>2, BufSizeAssumption DEF Full, Buffers
<1>4. phase # "recording" => mem[r].buf = <<>>
  <2>1. phase # "recording" => ~ recording[r] /\ pc[r] # "crashed"
    BY OverIsFinished DEF SessionInv, ProgramOver
  <2>. QED BY <2>1 DEF TraceInv
<1>. QED BY <1>1, <1>2, <1>3, <1>4 DEF Stream

\* Each rank's trace is complete, for any programs, any number of ranks and
\* any buffer: what is on disk and in memory are the pieces of its records,
\* each once and in their order (write_record, membufAppend, logger_exit),
\* and all of them are on disk when the programs are over.  A rank crashes
\* only where there are others and the trace directory held no file at the
\* start: an empty one is removed by every rank that finds it (logger_init).
THEOREM TraceIsComplete == Spec => []TraceComplete
<1>1. Init => IInv
  BY InitIInv
<1>2. IInv /\ [Next]_vars => IInv'
  BY NextIInv
<1>3. IInv => TraceComplete
  BY IInvImpliesComplete
<1>. QED BY <1>1, <1>2, <1>3, PTL DEF Spec
-----------------------------------------------------------------------------
(* What the metadata say of the trace. *)

\* The numbers of the records that end in these pieces.
LineNumbers(pieces) == FlattenSeq([i \in DOMAIN pieces |-> LineEnd(pieces[i])])

Numbers(n) == [i \in 1..n |-> i]

LEMMA NumbersGrow ==
  ASSUME NEW n \in Nat PROVE Numbers(n) \in Seq(Nat) /\ Append(Numbers(n), n + 1) = Numbers(n + 1)
BY DEF Numbers

LEMMA NoPieces == LineNumbers(<<>>) = Numbers(0)
<1>1. [i \in DOMAIN <<>> |-> LineEnd(<<>>[i])] = <<>>
  OBVIOUS
<1>. QED BY <1>1 DEF LineNumbers, Numbers, FlattenSeq

LEMMA OneMorePiece ==
  ASSUME NEW s \in Seq(Piece), NEW p \in Piece
  PROVE  LineNumbers(Append(s, p)) = LineNumbers(s) \o LineEnd(p)
<1>. DEFINE n == Len(s)
            longer == Append(s, p)
            before == [i \in DOMAIN s |-> LineEnd(s[i])]
            after == [i \in DOMAIN longer |-> LineEnd(longer[i])]
<1>1. /\ n \in Nat /\ DOMAIN s = 1..n /\ DOMAIN longer = 1..(n + 1) /\ longer[n + 1] = p
      /\ \A i \in 1..n : longer[i] = s[i]
      /\ \A i \in 1..n : s[i] \in Piece
      /\ \A i \in 1..(n + 1) : longer[i] \in Piece
  BY AppendProperties
<1>. HIDE DEF n, longer
<1>2. \A q \in Piece : LineEnd(q) \in Seq(Nat)
  BY DEF LineEnd, Piece
<1>3. before \in Seq(Seq(Nat)) /\ DOMAIN before = 1..n
  <2>1. before = [i \in 1..n |-> LineEnd(s[i])] /\ \A i \in 1..n : LineEnd(s[i]) \in Seq(Nat)
    BY <1>1, <1>2
  <2>. HIDE DEF before
  <2>. QED BY <1>1, <2>1
<1>4. after \in Seq(Seq(Nat)) /\ DOMAIN after = 1..(n + 1)
  <2>1. /\ after = [i \in 1..(n + 1) |-> LineEnd(longer[i])]
        /\ \A i \in 1..(n + 1) : LineEnd(longer[i]) \in Seq(Nat)
    BY <1>1, <1>2
  <2>. HIDE DEF after
  <2>. QED BY <1>1, <2>1
<1>5. after[n + 1] = LineEnd(p) /\ \A i \in 1..n : after[i] = before[i]
  BY <1>1
<1>6. LineNumbers(s) = FlattenSeq(before) /\ LineNumbers(longer) = FlattenSeq(after)
  BY DEF LineNumbers
<1>. HIDE DEF before, after
<1>7. LineNumbers(s) = Joined(before) /\ LineNumbers(longer) = Joined(after)
  BY <1>3, <1>4, <1>6, FlattenIsFold
<1>8. Joined(after) = Joined(before) \o after[n + 1]
  BY <1>1, <1>3, <1>4, <1>5, JoinStep
<1>. QED BY <1>5, <1>7, <1>8 DEF longer

\* A record ends once, in its last piece.
LEMMA OneMoreLine ==
  ASSUME NEW s \in Seq(Piece), NEW line \in Nat, NEW rec, NumPieces(rec) \in Nat \ {0},
         Pieces(line, rec) \in Seq(Piece), LineNumbers(s) \in Seq(Nat)
  PROVE  LineNumbers(s \o Pieces(line, rec)) = Append(LineNumbers(s), line)
<1>. DEFINE pieces == Pieces(line, rec)
            n == NumPieces(rec)
            Reached(k) == LineNumbers(s \o FirstOf(pieces, k))
                            = IF k < n THEN LineNumbers(s) ELSE Append(LineNumbers(s), line)
            K == {k \in Nat : k <= n => Reached(k)}
<1>1. /\ pieces \in Seq(Piece) /\ Len(pieces) = n /\ n \in Nat \ {0}
      /\ \A k \in 1..n : pieces[k].line = line /\ pieces[k].left = n - k
  BY DEF Pieces
<1>. HIDE DEF pieces, n
<1>2. /\ FirstOf(pieces, 0) = <<>> /\ FirstOf(pieces, n) = pieces
      /\ \A k \in 1..n : /\ FirstOf(pieces, k - 1) \in Seq(Piece)
                         /\ FirstOf(pieces, k) = Append(FirstOf(pieces, k - 1), pieces[k])
                         /\ pieces[k] \in Piece
  BY <1>1, FirstPieces
<1>3. 0 \in K
  <2>1. s \o <<>> = s
    OBVIOUS
  <2>2. Reached(0)
    <3>1. 0 < n
      BY <1>1
    <3>2. s \o FirstOf(pieces, 0) = s
      BY <1>2, <2>1, Zenon
    <3>. QED BY <3>1, <3>2
  <2>. HIDE DEF Reached
  <2>. QED BY <2>2
<1>4. ASSUME NEW k \in Nat, k \in K PROVE k + 1 \in K
  <2>1. k + 1 <= n => k + 1 \in 1..n /\ k + 1 - 1 = k /\ k < n
    BY <1>1
  <2>2. k + 1 <= n => Reached(k)
    <3>. HIDE DEF Reached
    <3>. QED BY <1>4, <2>1, <1>1
  <2>3. ASSUME k + 1 <= n PROVE Reached(k + 1)
    <3>1. k + 1 \in 1..n /\ k + 1 - 1 = k /\ k < n
      BY <2>1, <2>3
    <3>2. LineNumbers(s \o FirstOf(pieces, k)) = LineNumbers(s)
      BY <2>2, <2>3, <3>1
    <3>3. /\ FirstOf(pieces, k) \in Seq(Piece) /\ pieces[k + 1] \in Piece
          /\ FirstOf(pieces, k + 1) = Append(FirstOf(pieces, k), pieces[k + 1])
      BY <1>2, <3>1
    <3>4. s \o FirstOf(pieces, k + 1) = Append(s \o FirstOf(pieces, k), pieces[k + 1])
      BY <3>3, AppendConcat, Zenon
    <3>5. s \o FirstOf(pieces, k) \in Seq(Piece)
      BY <3>3, ConcatProperties
    <3>6. LineNumbers(s \o FirstOf(pieces, k + 1)) = LineNumbers(s) \o LineEnd(pieces[k + 1])
      BY <3>2, <3>3, <3>4, <3>5, OneMorePiece
    <3>7. LineEnd(pieces[k + 1]) = IF k + 1 < n THEN <<>> ELSE <<line>>
      BY <1>1, <3>1 DEF LineEnd
    <3>8. \A t \in Seq(Nat) : t \o <<>> = t /\ t \o <<line>> = Append(t, line)
      OBVIOUS
    <3>. QED BY <3>6, <3>7, <3>8
  <2>. HIDE DEF Reached
  <2>. QED BY <2>3
<1>. HIDE DEF K
<1>5. n \in K
  BY <1>1, <1>3, <1>4, Joining!Inductive
<1>6. Reached(n)
  <2>. HIDE DEF Reached
  <2>. QED BY <1>1, <1>5 DEF K
<1>. QED BY <1>1, <1>2, <1>6 DEF pieces

\* How many records there are of each function.
Tally(w) ==
  [f \in {w[k].fn : k \in 1..Len(w)} |-> Cardinality({k \in 1..Len(w) : w[k].fn = f})]

LEMMA NoTally == Tally(<<>>) = EmptyBag
<1>1. {<<>>[k].fn : k \in 1..Len(<<>>)} = {}
  OBVIOUS
<1>2. Tally(<<>>) = [f \in {} |-> Cardinality({k \in 1..Len(<<>>) : <<>>[k].fn = f})]
  BY <1>1 DEF Tally
<1>3. EmptyBag = [f \in {} |-> 1]
  BY DEF EmptyBag, SetToBag
<1>. QED BY <1>2, <1>3

LEMMA TallyStep ==
  ASSUME NEW S, NEW w \in Seq(S), NEW rec
  PROVE  Tally(Append(w, rec)) = Tally(w) (+) SetToBag({rec.fn})
<1>. DEFINE n == Len(w)
            longer == Append(w, rec)
            Of(f) == {k \in 1..n : w[k].fn = f}
            OfLonger(f) == {k \in 1..(n + 1) : longer[k].fn = f}
            old == {w[k].fn : k \in 1..n}
            new == {longer[k].fn : k \in 1..(n + 1)}
<1>1. w \in Seq(S \union {rec})
  OBVIOUS
<1>2. /\ n \in Nat /\ Len(longer) = n + 1 /\ longer[n + 1] = rec
      /\ \A k \in 1..n : longer[k] = w[k]
  BY <1>1, AppendProperties
<1>. HIDE DEF n, longer
<1>3. \A f : IsFiniteSet(Of(f)) /\ Cardinality(Of(f)) \in Nat
  <2>. SUFFICES ASSUME NEW f PROVE IsFiniteSet(Of(f)) /\ Cardinality(Of(f)) \in Nat
    OBVIOUS
  <2>1. Of(f) \subseteq 1..n /\ IsFiniteSet(1..n)
    BY <1>2, FS_Interval
  <2>. HIDE DEF Of
  <2>. QED BY <2>1, FS_Subset, FS_CardinalityType
<1>4. ASSUME NEW f
      PROVE  Cardinality(OfLonger(f)) = Cardinality(Of(f)) + (IF f = rec.fn THEN 1 ELSE 0)
  <2>1. CASE f = rec.fn
    <3>1. OfLonger(f) = Of(f) \union {n + 1} /\ n + 1 \notin Of(f)
      BY <1>2, <2>1
    <3>. HIDE DEF Of, OfLonger
    <3>. QED BY <1>3, <2>1, <3>1, FS_AddElement
  <2>2. CASE f # rec.fn
    <3>1. OfLonger(f) = Of(f)
      BY <1>2, <2>2
    <3>. HIDE DEF Of, OfLonger
    <3>. QED BY <1>3, <2>2, <3>1
  <2>. QED BY <2>1, <2>2
<1>5. new = old \union {rec.fn}
  BY <1>2
<1>6. \A f : f \notin old => Cardinality(Of(f)) = 0
  <2>. SUFFICES ASSUME NEW f, f \notin old PROVE Cardinality(Of(f)) = 0
    OBVIOUS
  <2>1. Of(f) = {}
    OBVIOUS
  <2>. HIDE DEF Of
  <2>. QED BY <2>1, FS_EmptySet
<1>7. Tally(w) = [f \in old |-> Cardinality(Of(f))]
  BY DEF Tally, n
<1>8. Tally(longer) = [f \in new |-> Cardinality(OfLonger(f))]
  BY <1>2 DEF Tally
<1>. HIDE DEF old, new, Of, OfLonger
<1>9. \A f \in new : Cardinality(OfLonger(f))
        = (IF f \in old THEN Cardinality(Of(f)) ELSE 0) + (IF f \in {rec.fn} THEN 1 ELSE 0)
  BY <1>3, <1>4, <1>6
<1>10. Tally(w) (+) SetToBag({rec.fn})
       = [f \in old \union {rec.fn} |->
            (IF f \in old THEN Cardinality(Of(f)) ELSE 0) + (IF f \in {rec.fn} THEN 1 ELSE 0)]
  <2>. DEFINE B == Tally(w)
              C == SetToBag({rec.fn})
  <2>1. DOMAIN B = old /\ \A f \in old : B[f] = Cardinality(Of(f))
    BY <1>7
  <2>2. DOMAIN C = {rec.fn} /\ \A f \in {rec.fn} : C[f] = 1
    BY DEF SetToBag
  <2>3. B (+) C = [f \in (DOMAIN B) \union (DOMAIN C) |->
                     (IF f \in DOMAIN B THEN B[f] ELSE 0) + (IF f \in DOMAIN C THEN C[f] ELSE 0)]
    BY DEF (+)
  <2>. HIDE DEF B, C
  <2>. QED BY <2>1, <2>2, <2>3 DEF B, C
<1>. QED BY <1>5, <1>8, <1>9, <1>10 DEF longer
-----------------------------------------------------------------------------
(* The file name table. *)

Entering == INSTANCE Folding WITH Op <- RealRealPath

PathsIn(args) == {a.val : a \in {b \in Range(args) : b.kind = "path"}}

\* The files named in the records w.
Named(w) == UNION {PathsIn(w[k].args) : k \in 1..Len(w)}

\* A table with each of these names exactly once.
TableOf(names, S) ==
  (\E V : names \in Seq(V)) /\ IsInjective(names) /\ Range(names) = S

NamedBy(arg) == IF arg.kind = "path" THEN {arg.val} ELSE {}

LEMMA PathEntered ==
  ASSUME NEW names, NEW S, TableOf(names, S), NEW arg
  PROVE  TableOf(RealRealPath(names, arg), S \union NamedBy(arg))
<1>1. PICK V : names \in Seq(V)
  BY DEF TableOf
<1>2. Range(names) = S /\ IsInjective(names)
  BY DEF TableOf
<1>3. CASE arg.kind = "path" /\ \A i \in DOMAIN names : names[i] # arg.val
  <2>. DEFINE x == arg.val
              n == Len(names)
              longer == Append(names, x)
  <2>1. RealRealPath(names, arg) = longer /\ NamedBy(arg) = {x}
    BY <1>3 DEF RealRealPath, NamedBy
  <2>2. names \in Seq(V \union {x}) /\ x \in V \union {x}
    BY <1>1
  <2>3. /\ longer \in Seq(V \union {x}) /\ n \in Nat
        /\ DOMAIN names = 1..n /\ DOMAIN longer = 1..(n + 1)
        /\ longer[n + 1] = x /\ \A i \in 1..n : longer[i] = names[i]
    BY <2>2, AppendProperties
  <2>4. \A i \in 1..n : names[i] # x
    BY <1>3, <2>3
  <2>. HIDE DEF longer, x, n
  <2>5. IsInjective(longer)
    BY <1>2, <2>3, <2>4 DEF IsInjective
  <2>6. Range(longer) = S \union {x}
    BY <1>2, <2>3 DEF Range
  <2>. QED BY <2>1, <2>3, <2>5, <2>6 DEF TableOf
<1>4. CASE arg.kind # "path"
  BY <1>4 DEF RealRealPath, NamedBy
<1>5. CASE arg.kind = "path" /\ \E i \in DOMAIN names : names[i] = arg.val
  <2>1. arg.val \in S /\ NamedBy(arg) = {arg.val}
    BY <1>2, <1>5 DEF Range, NamedBy
  <2>2. RealRealPath(names, arg) = names
    BY <1>5 DEF RealRealPath
  <2>3. S \union NamedBy(arg) = S
    BY <2>1
  <2>. QED BY <2>2, <2>3
<1>. QED BY <1>3, <1>4, <1>5

LEMMA EnterIsFold ==
  ASSUME NEW names, NEW args
  PROVE  FoldLeft(RealRealPath, names, args) = Entering!Fold(names, args)
BY DEF FoldLeft, MapThenFoldSet, Max, Entering!Fold, Entering!FoldLeft,
       Entering!MapThenFoldSet, Entering!Max

\* All paths of a record are entered, and none a second time.
LEMMA PathsEntered ==
  ASSUME NEW names, NEW S, TableOf(names, S), NEW E, NEW args \in Seq(E)
  PROVE  TableOf(FoldLeft(RealRealPath, names, args), S \union PathsIn(args))
<1>. DEFINE n == Len(args)
            upTo(i) == S \union UNION {NamedBy(args[j]) : j \in 1..i}
            V == upTo(n)
            Good == [i \in 0..n |-> {v \in Seq(V) : TableOf(v, upTo(i))}]
<1>1. n \in Nat /\ DOMAIN args = 1..n
  OBVIOUS
<1>2. upTo(0) = S /\ \A i \in 1..n : upTo(i) = upTo(i - 1) \union NamedBy(args[i])
  <2>1. 1..0 = {} /\ \A i \in 1..n : 1..i = (1..(i - 1)) \union {i}
    BY <1>1
  <2>. QED BY <2>1
<1>3. \A i \in 0..n : upTo(i) \subseteq V
  <2>1. \A i \in 0..n : 1..i \subseteq 1..n
    BY <1>1
  <2>. QED BY <2>1
<1>4. V = S \union PathsIn(args)
  BY <1>1 DEF PathsIn, NamedBy, Range
<1>. HIDE DEF upTo, V, n
<1>5. \A i \in 0..n : \A v : TableOf(v, upTo(i)) => v \in Seq(V)
  <2>. SUFFICES ASSUME NEW i \in 0..n, NEW v, TableOf(v, upTo(i)) PROVE v \in Seq(V)
    OBVIOUS
  <2>1. PICK U : v \in Seq(U)
    BY DEF TableOf
  <2>2. \A k \in 1..Len(v) : v[k] \in V
    BY <1>3, <2>1 DEF TableOf, Range
  <2>. QED BY <2>1, <2>2
<1>6. names \in Good[0]
  <2>1. TableOf(names, upTo(0)) /\ 0 \in 0..n
    BY <1>1, <1>2
  <2>. QED BY <1>5, <2>1
<1>7. ASSUME NEW i \in 1..n, NEW v \in Good[i - 1]
      PROVE  RealRealPath(v, args[i]) \in Good[i]
  <2>1. i - 1 \in 0..n /\ i \in 0..n
    BY <1>1
  <2>2. TableOf(v, upTo(i - 1))
    BY <2>1
  <2>3. TableOf(RealRealPath(v, args[i]), upTo(i))
    BY <1>2, <2>2, PathEntered
  <2>. QED BY <1>5, <2>1, <2>3
<1>8. Entering!Fold(names, args) \in Good[n]
  <2>. HIDE DEF Good
  <2>. QED BY <1>6, <1>7, Entering!FoldInvariant DEF n
<1>9. TableOf(Entering!Fold(names, args), V)
  <2>1. n \in 0..n
    BY <1>1
  <2>. QED BY <1>8, <2>1 DEF V
<1>10. FoldLeft(RealRealPath, names, args) = Entering!Fold(names, args)
  BY EnterIsFold
<1>. QED BY <1>4, <1>9, <1>10

LEMMA NamedStep ==
  ASSUME NEW S, NEW w \in Seq(S), NEW rec
  PROVE  Named(Append(w, rec)) = Named(w) \union PathsIn(rec.args)
<1>. DEFINE n == Len(w)
            longer == Append(w, rec)
<1>1. w \in Seq(S \union {rec})
  OBVIOUS
<1>2. /\ n \in Nat /\ Len(longer) = n + 1 /\ longer[n + 1] = rec
      /\ \A k \in 1..n : longer[k] = w[k]
  BY <1>1, AppendProperties
<1>. HIDE DEF n, longer
<1>3. 1..(n + 1) = (1..n) \union {n + 1}
  BY <1>2
<1>4. Named(longer) = UNION {PathsIn(longer[k].args) : k \in 1..(n + 1)}
  BY <1>2 DEF Named
<1>5. Named(w) = UNION {PathsIn(w[k].args) : k \in 1..n}
  BY DEF Named, n
<1>. QED BY <1>2, <1>3, <1>4, <1>5 DEF longer

LEMMA NothingNamed == TableOf(<<>>, Named(<<>>))
<1>1. <<>> \in Seq({}) /\ DOMAIN <<>> = {} /\ Named(<<>>) = {}
  BY DEF Named
<1>. QED BY <1>1 DEF TableOf, IsInjective, Range

LEMMA TableSize ==
  ASSUME NEW names, NEW S, TableOf(names, S)
  PROVE  Len(names) = Cardinality(S)
<1>1. PICK V : names \in Seq(V)
  BY DEF TableOf
<1>. DEFINE n == Len(names)
<1>2. n \in Nat /\ DOMAIN names = 1..n /\ names = [i \in 1..n |-> names[i]]
  BY <1>1
<1>3. Range(names) = S /\ \A i, j \in 1..n : names[i] = names[j] => i = j
  BY <1>2 DEF TableOf, IsInjective
<1>. HIDE DEF n
<1>4. S = {names[i] : i \in 1..n}
  BY <1>2, <1>3 DEF Range
<1>5. names \in Bijection(1..n, S)
  BY <1>2, <1>3, <1>4 DEF Bijection, Injection, Surjection, IsInjective
<1>6. IsFiniteSet(1..n) /\ Cardinality(1..n) = n
  BY <1>2, FS_Interval
<1>7. Cardinality(S) = n
  BY <1>5, <1>6, FS_Bijection DEF ExistsBijection
<1>. QED BY <1>7 DEF n

-----------------------------------------------------------------------------
(* The metadata of the ranks. *)

\* One of the first n - 1 calls has ended MPI.
EndedBy(calls, n) == \E i \in DOMAIN calls : i < n /\ calls[i].fn = "MPI_Finalize"

Ended(r) == EndedBy(Calls(r), at[r])

Describes(sum, w) ==
  /\ sum.total = Len(w) /\ sum.count = Tally(w)
  /\ sum.num_files = Len(sum.names) /\ TableOf(sum.names, Named(w))

\* Until MPI_Finalize the counters and the table describe the records made
\* so far; what it leaves describes them all, for no more are made.
RankMeta(r) ==
  /\ LineNumbers(RecordStream(written[r])) = Numbers(Len(written[r]))
  /\ count[r] = Tally(written[r])
  /\ ~ Ended(r) => summary[r] = <<>> /\ TableOf(table[r], Named(written[r]))
  /\ Ended(r) =>
       /\ ~ recording[r] /\ pc[r] \in {"app", "crashed"}
       /\ summary[r] # <<>> => Describes(summary[r], written[r])

MetaInv ==
  /\ DOMAIN count = Ranks /\ DOMAIN table = Ranks /\ DOMAIN summary = Ranks
  /\ \A r \in Ranks : RankMeta(r)

LEMMA EndedStep ==
  ASSUME NEW S, NEW calls \in Seq(S), NEW n \in Nat
  PROVE  EndedBy(calls, n + 1)
         <=> EndedBy(calls, n) \/ (n \in DOMAIN calls /\ calls[n].fn = "MPI_Finalize")
<1>1. \A i \in DOMAIN calls : i < n + 1 <=> i < n \/ i = n
  OBVIOUS
<1>. QED BY <1>1 DEF EndedBy

LEMMA RankStays ==
  ASSUME NEW r \in Ranks, RankMeta(r), Calls(r)' = Calls(r), at'[r] = at[r],
         recording'[r] = recording[r], pc'[r] = pc[r], written'[r] = written[r],
         count'[r] = count[r], table'[r] = table[r], summary'[r] = summary[r]
  PROVE  RankMeta(r)'
BY DEF RankMeta, Ended

LEMMA InitMeta == Init => MetaInv
<1>. SUFFICES ASSUME Init PROVE MetaInv
  OBVIOUS
<1>. USE DEF Init, RecorderInit
<1>1. ASSUME NEW r \in Ranks PROVE RankMeta(r)
  <2>1. /\ at[r] = 1 /\ written[r] = <<>> /\ count[r] = EmptyBag /\ table[r] = <<>>
        /\ summary[r] = <<>> /\ Len(<<>>) = 0
    OBVIOUS
  <2>2. ~ Ended(r)
    <3>1. Calls(r) \in Seq(Invocations)
      BY ProgramsAssumption DEF Calls
    <3>. HIDE DEF Calls
    <3>. QED BY <2>1, <3>1 DEF Ended, EndedBy
  <2>. QED BY <2>1, <2>2, NothingWritten, NoPieces, NoTally, NothingNamed DEF RankMeta
<1>. QED BY <1>1 DEF MetaInv

LEMMA StartKeepsMeta ==
  ASSUME IInv, MetaInv, NEW r \in Ranks, StartStep(r)
  PROVE  MetaInv'
<1>1. /\ pc[r] \in Startup /\ \A q \in Ranks : q # r => pc'[q] = pc[q]
      /\ \A q \in Ranks : q # r => recording'[q] = recording[q]
      /\ UNCHANGED <<program, at, written>>
  BY StartFrame DEF IInv
<1>2. UNCHANGED <<count, table, summary>>
  BY DEF StartStep, AccessDir, RemoveDir, MakeDir, OpenData, OpenMeta, WriteGlobal,
         StartRecording, localVars
<1>3. \A q \in Ranks : Calls(q)' = Calls(q)
  BY <1>1 DEF Calls
<1>4. ASSUME NEW q \in Ranks, q # r PROVE RankMeta(q)'
  BY <1>1, <1>2, <1>3, <1>4, RankStays DEF MetaInv
<1>5. RankMeta(r)'
  <2>1. ~ Ended(r)
    BY <1>1 DEF MetaInv, RankMeta, Startup
  <2>2. ~ Ended(r)'
    BY <1>1, <1>3, <2>1 DEF Ended
  <2>. QED BY <1>1, <1>2, <2>1, <2>2 DEF MetaInv, RankMeta
<1>. QED BY <1>2, <1>4, <1>5 DEF MetaInv

LEMMA BeginKeepsMeta ==
  ASSUME IInv, MetaInv, NEW r \in Ranks, Begin(r)
  PROVE  MetaInv'
<1>1. UNCHANGED <<program, at, pc, recording, written, count, table, summary>>
  BY DEF Begin, localVars
<1>2. \A q \in Ranks : Calls(q)' = Calls(q)
  BY <1>1 DEF Calls
<1>. QED BY <1>1, <1>2, RankStays DEF MetaInv

LEMMA OthersStay ==
  ASSUME Types, MetaInv, NEW r \in Ranks, UNCHANGED program,
         \A q \in Ranks : q # r =>
           /\ at'[q] = at[q] /\ pc'[q] = pc[q] /\ recording'[q] = recording[q]
           /\ written'[q] = written[q] /\ count'[q] = count[q]
           /\ table'[q] = table[q] /\ summary'[q] = summary[q],
         DOMAIN count' = Ranks, DOMAIN table' = Ranks, DOMAIN summary' = Ranks,
         RankMeta(r)'
  PROVE  MetaInv'
<1>1. \A q \in Ranks : Calls(q)' = Calls(q)
  BY DEF Calls
<1>2. ASSUME NEW q \in Ranks PROVE RankMeta(q)'
  <2>1. CASE q # r
    BY <1>1, <2>1, RankStays DEF MetaInv
  <2>. QED BY <2>1
<1>. QED BY <1>2 DEF MetaInv

LEMMA MPICalls ==
  ASSUME Types, NEW r \in Ranks
  PROVE  /\ Calls(r) \in Seq(Invocations) /\ at[r] \in Nat
         /\ \A i \in DOMAIN Calls(r) :
              /\ Calls(r)[i].fn = "MPI_Init" =>
                   \E j \in DOMAIN Calls(r) : j > i /\ Calls(r)[j].fn = "MPI_Finalize"
              /\ Calls(r)[i].fn = "MPI_Finalize" =>
                   \A j \in DOMAIN Calls(r) : Calls(r)[j].fn = "MPI_Finalize" => j = i
<1>1. program \in Programs /\ at[r] \in Nat
  BY DEF Types
<1>2. program.calls \in [Ranks -> Seq(Invocations)]
  BY <1>1, ProgramsAssumption
<1>3. Calls(r) \in Seq(Invocations)
  BY <1>2 DEF Calls
<1>4. ASSUME NEW i \in DOMAIN Calls(r)
      PROVE  /\ Calls(r)[i].fn = "MPI_Init" =>
                  \E j \in DOMAIN Calls(r) : j > i /\ Calls(r)[j].fn = "MPI_Finalize"
             /\ Calls(r)[i].fn = "MPI_Finalize" =>
                  \A j \in DOMAIN Calls(r) : Calls(r)[j].fn = "MPI_Finalize" => j = i
  BY <1>1, ProgramsAssumption DEF Calls
<1>. QED BY <1>1, <1>3, <1>4

\* MPI is started before it is ended.
LEMMA InitKeepsMeta ==
  ASSUME IInv, MetaInv, NEW r \in Ranks, CallInit(r)
  PROVE  MetaInv'
<1>0. Types
  BY DEF IInv
<1>1. /\ pc[r] = "app" /\ stack[r] = <<>> /\ HasNext(r) /\ NextCall(r).fn = "MPI_Init"
      /\ pc' = [pc EXCEPT ![r] = "access"] /\ at' = [at EXCEPT ![r] = @ + 1]
      /\ UNCHANGED <<program, recording, written, count, table, summary>>
  BY DEF CallInit, localVars
<1>2. Calls(r) \in Seq(Invocations) /\ at[r] \in Nat /\ Calls(r)' = Calls(r)
  BY <1>0, <1>1, MPICalls DEF Calls
<1>3. at[r] \in DOMAIN Calls(r) /\ Calls(r)[at[r]].fn = "MPI_Init"
  BY <1>0, <1>1, NextIsInvocation
<1>4. at'[r] = at[r] + 1
  BY <1>0, <1>1 DEF Types
<1>5. ~ EndedBy(Calls(r), at[r])
  <2>1. PICK j \in DOMAIN Calls(r) : j > at[r] /\ Calls(r)[j].fn = "MPI_Finalize"
    BY <1>0, <1>3, MPICalls
  <2>2. \A i \in DOMAIN Calls(r) : Calls(r)[i].fn = "MPI_Finalize" => i = j
    BY <1>0, <2>1, MPICalls
  <2>3. j \in Nat
    <3>. HIDE DEF Calls
    <3>. QED BY <1>2, <2>1
  <2>4. ~ (j < at[r])
    BY <1>2, <2>1, <2>3
  <2>. QED BY <2>2, <2>4 DEF EndedBy
<1>6. ~ EndedBy(Calls(r), at[r] + 1)
  <2>. HIDE DEF Calls
  <2>. QED BY <1>2, <1>3, <1>5, EndedStep
<1>7. ~ Ended(r) /\ ~ Ended(r)'
  BY <1>2, <1>4, <1>5, <1>6 DEF Ended
<1>8. RankMeta(r)'
  BY <1>1, <1>7 DEF MetaInv, RankMeta
<1>9. \A q \in Ranks : q # r => at'[q] = at[q] /\ pc'[q] = pc[q]
  BY <1>0, <1>1 DEF Types
<1>. QED BY <1>0, <1>1, <1>8, <1>9, OthersStay DEF MetaInv

LEMMA ArgumentsAreSequence ==
  ASSUME NEW c \in Wrapped
  PROVE  /\ \E E : Arguments(c) \in Seq(E)
         /\ Len(Arguments(c)) \in Nat
<1>1. ArgKinds(c) \in Seq(STRING)
  BY InvocationsAssumption DEF Wrapped
<1>. DEFINE n == Len(ArgKinds(c))
            A(i) == [kind |-> ArgKinds(c)[i], val |-> ArgValue(c, i)]
            E == {A(i) : i \in 1..n}
<1>2. n \in Nat /\ DOMAIN ArgKinds(c) = 1..n
  BY <1>1
<1>3. Arguments(c) = [i \in 1..n |-> A(i)]
  BY <1>2 DEF Arguments
<1>4. \A i \in 1..n : A(i) \in E
  OBVIOUS
<1>. HIDE DEF A, E, n
<1>5. Arguments(c) \in Seq(E)
  BY <1>2, <1>3, <1>4
<1>. QED BY <1>5

LEMMA RecordDescribed ==
  ASSUME IInv, MetaInv, NEW r \in Ranks, NEW c \in Wrapped, NEW t, ~ Ended(r),
         Calls(r)' = Calls(r), ~ Ended(r)', summary' = summary, Logged(r, RecordOf(r, c, t))
  PROVE  /\ RankMeta(r)'
         /\ DOMAIN count' = Ranks /\ DOMAIN table' = Ranks
         /\ \A q \in Ranks : q # r =>
              /\ written'[q] = written[q] /\ count'[q] = count[q] /\ table'[q] = table[q]
              /\ pc'[q] = pc[q]
<1>. DEFINE rec == RecordOf(r, c, t)
            w == written[r]
            m == WriteInText(mem[r], total[r] + 1, rec)
<1>1. /\ Types /\ Writable(w) /\ total[r] = Len(w) /\ DOMAIN written = Ranks
      /\ DOMAIN count = Ranks /\ DOMAIN table = Ranks /\ DOMAIN summary = Ranks
  BY DEF IInv, TraceInv, MetaInv
<1>2. /\ LineNumbers(RecordStream(w)) = Numbers(Len(w)) /\ count[r] = Tally(w)
      /\ summary[r] = <<>> /\ TableOf(table[r], Named(w))
  BY DEF MetaInv, RankMeta
<1>3. PICK S : w \in Seq(S)
  BY <1>1 DEF Writable
<1>4. Len(w) \in Nat /\ Len(w) + 1 \in Nat
  BY <1>3
<1>5. Pieces(Len(w) + 1, rec) \in Seq(Piece)
  BY <1>1, <1>4, PiecesOfRecord
<1>6. (\E E : rec.args \in Seq(E)) /\ NumPieces(rec) \in Nat \ {0}
  <2>1. rec.args = Arguments(c)
    BY DEF RecordOf
  <2>. HIDE DEF rec
  <2>. QED BY <2>1, ArgumentsAreSequence DEF NumPieces
<1>7. Logged(r, rec)
  OBVIOUS
<1>. HIDE DEF rec
<1>8. CASE data[r] = "null" /\ m.file # mem[r].file
  <2>1. pc' = [pc EXCEPT ![r] = "crashed"] /\ UNCHANGED <<written, count, table>>
    BY <1>7, <1>8 DEF Logged
  <2>2. RankMeta(r)'
    BY <1>2, <2>1 DEF RankMeta
  <2>3. \A q \in Ranks : q # r => pc'[q] = pc[q]
    BY <1>1, <2>1 DEF Types
  <2>. QED BY <1>1, <2>1, <2>2, <2>3
<1>9. CASE ~ (data[r] = "null" /\ m.file # mem[r].file)
  <2>1. /\ written' = [written EXCEPT ![r] = Append(@, rec)] /\ pc' = pc
        /\ count' = [count EXCEPT ![r] = @ (+) SetToBag({rec.fn})]
        /\ table' = [table EXCEPT ![r] = FoldLeft(RealRealPath, @, rec.args)]
    BY <1>7, <1>9 DEF Logged
  <2>2. /\ written'[r] = Append(w, rec)
        /\ count'[r] = Tally(w) (+) SetToBag({rec.fn})
        /\ table'[r] = FoldLeft(RealRealPath, table[r], rec.args)
    BY <1>1, <1>2, <2>1
  <2>3. LineNumbers(RecordStream(Append(w, rec))) = Numbers(Len(Append(w, rec)))
    <3>1. /\ RecordStream(Append(w, rec)) = RecordStream(w) \o Pieces(Len(w) + 1, rec)
          /\ Len(Append(w, rec)) = Len(w) + 1
      BY <1>1, <1>5, OneMoreRecord
    <3>2. RecordStream(w) \in Seq(Piece)
      <4>1. mem[r] \in Full /\ Stream(mem[r]) = RecordStream(w)
        BY DEF IInv, TraceInv
      <4>2. mem[r].file \in Seq(Piece) /\ mem[r].buf \in Seq(Piece)
        BY <4>1 DEF Full, Buffers
      <4>. QED BY <4>1, <4>2, ConcatProperties DEF Stream
    <3>3. LineNumbers(RecordStream(w)) \in Seq(Nat)
      BY <1>2, <1>4, NumbersGrow
    <3>4. LineNumbers(RecordStream(w) \o Pieces(Len(w) + 1, rec))
          = Append(LineNumbers(RecordStream(w)), Len(w) + 1)
      BY <1>4, <1>5, <1>6, <3>2, <3>3, OneMoreLine
    <3>. QED BY <1>2, <1>4, <3>1, <3>4, NumbersGrow
  <2>4. Tally(Append(w, rec)) = count'[r]
    BY <1>3, <2>2, TallyStep
  <2>5. TableOf(table'[r], Named(Append(w, rec)))
    <3>1. PICK E : rec.args \in Seq(E)
      BY <1>6
    <3>2. TableOf(FoldLeft(RealRealPath, table[r], rec.args), Named(w) \union PathsIn(rec.args))
      BY <1>2, <3>1, PathsEntered
    <3>. QED BY <1>3, <2>2, <3>2, NamedStep
  <2>6. summary'[r] = <<>>
    BY <1>2
  <2>. HIDE DEF w
  <2>7. RankMeta(r)'
    BY <2>2, <2>3, <2>4, <2>5, <2>6 DEF RankMeta
  <2>8. \A q \in Ranks : q # r =>
          /\ written'[q] = written[q] /\ count'[q] = count[q] /\ table'[q] = table[q]
          /\ pc'[q] = pc[q]
    BY <1>1, <2>1
  <2>. QED BY <1>1, <2>1, <2>7, <2>8
<1>. QED BY <1>8, <1>9

LEMMA EndKeepsMeta ==
  ASSUME IInv, MetaInv, NEW r \in Ranks, End(r)
  PROVE  MetaInv'
<1>. DEFINE c == Top(r).call
            t == Top(r).tstart
<1>0. Types
  BY DEF IInv
<1>1. /\ pc[r] = "app" /\ stack[r] # <<>>
      /\ at' = IF Len(stack[r]) = 1 THEN [at EXCEPT ![r] = @ + 1] ELSE at
      /\ UNCHANGED <<program, recording, summary>>
  BY DEF End
<1>2. recording[r] => Logged(r, RecordOf(r, c, t))
  BY DEF End
<1>3. ~ recording[r] => UNCHANGED <<pc, written, count, table>>
  BY DEF End
<1>4. c \in Wrapped
  <2>1. stack[r] \in Seq(Frames)
    BY <1>0 DEF Types
  <2>. QED BY <1>1, <2>1, FrontIsStack DEF Top, Frames
<1>5. \A q \in Ranks : Calls(q)' = Calls(q)
  BY <1>1 DEF Calls
<1>6. Ended(r)' <=> Ended(r)
  <2>1. Calls(r) \in Seq(Invocations) /\ at[r] \in Nat
    BY <1>0, MPICalls
  <2>2. Calls(r)[at[r]].fn # "MPI_Finalize"
    BY <1>1 DEF IInv, SessionInv
  <2>3. at'[r] = at[r] \/ at'[r] = at[r] + 1
    BY <1>0, <1>1 DEF Types
  <2>4. EndedBy(Calls(r), at[r] + 1) <=> EndedBy(Calls(r), at[r])
    <3>. HIDE DEF Calls
    <3>. QED BY <2>1, <2>2, EndedStep
  <2>. QED BY <1>5, <2>3, <2>4 DEF Ended
<1>7. \A q \in Ranks : q # r => at'[q] = at[q]
  BY <1>0, <1>1 DEF Types
<1>. HIDE DEF c, t
<1>8. CASE recording[r]
  <2>1. ~ Ended(r)
    BY <1>8 DEF MetaInv, RankMeta
  <2>2. /\ RankMeta(r)'
        /\ DOMAIN count' = Ranks /\ DOMAIN table' = Ranks
        /\ \A q \in Ranks : q # r =>
             /\ written'[q] = written[q] /\ count'[q] = count[q] /\ table'[q] = table[q]
             /\ pc'[q] = pc[q]
    BY <1>1, <1>2, <1>4, <1>5, <1>6, <1>8, <2>1, RecordDescribed
  <2>. QED BY <1>0, <1>1, <1>7, <2>2, OthersStay DEF MetaInv
<1>9. CASE ~ recording[r]
  <2>1. RankMeta(r)'
    BY <1>1, <1>3, <1>6, <1>9 DEF MetaInv, RankMeta
  <2>. QED BY <1>0, <1>1, <1>3, <1>7, <1>9, <2>1, OthersStay DEF MetaInv
<1>. QED BY <1>8, <1>9

LEMMA FinalizeKeepsMeta ==
  ASSUME IInv, MetaInv, NEW r \in Ranks, CallFinalize(r)
  PROVE  MetaInv'
<1>. DEFINE described == meta[r] # "null"
            dumped == described /\ (data[r] = "null" => MembufDump(mem[r]).file = mem[r].file)
            sum == [num_files |-> Len(table[r]), total |-> total[r], count |-> count[r],
                    names |-> table[r]]
<1>0. /\ Types /\ total[r] = Len(written[r])
      /\ DOMAIN count = Ranks /\ DOMAIN table = Ranks /\ DOMAIN summary = Ranks
  BY DEF IInv, TraceInv, MetaInv
<1>1. /\ pc[r] = "app" /\ stack[r] = <<>> /\ HasNext(r) /\ NextCall(r).fn = "MPI_Finalize"
      /\ at' = [at EXCEPT ![r] = @ + 1]
      /\ UNCHANGED <<program, count, written>>
  BY DEF CallFinalize
<1>2. /\ recording' = [recording EXCEPT ![r] = FALSE]
      /\ summary' = (IF described THEN [summary EXCEPT ![r] = sum] ELSE summary)
      /\ table' = (IF described THEN [table EXCEPT ![r] = <<>>] ELSE table)
      /\ pc' = [pc EXCEPT ![r] = IF dumped THEN "app" ELSE "crashed"]
  BY DEF CallFinalize, LoggerExit
<1>. HIDE DEF dumped, described
<1>3. at[r] \in DOMAIN Calls(r) /\ Calls(r)[at[r]].fn = "MPI_Finalize" /\ Calls(r)' = Calls(r)
  BY <1>0, <1>1, NextIsInvocation DEF Calls
<1>4. Calls(r) \in Seq(Invocations) /\ at[r] \in Nat /\ at'[r] = at[r] + 1
  BY <1>0, <1>1, MPICalls DEF Types
<1>5. ~ Ended(r)
  <2>1. \A j \in DOMAIN Calls(r) : Calls(r)[j].fn = "MPI_Finalize" => j = at[r]
    BY <1>0, <1>3, MPICalls
  <2>2. ~ (at[r] < at[r])
    BY <1>4
  <2>. QED BY <2>1, <2>2 DEF Ended, EndedBy
<1>6. Ended(r)'
  <2>1. EndedBy(Calls(r), at[r] + 1)
    <3>. HIDE DEF Calls
    <3>. QED BY <1>3, <1>4, EndedStep
  <2>. QED BY <1>3, <1>4, <2>1 DEF Ended
<1>7. /\ LineNumbers(RecordStream(written[r])) = Numbers(Len(written[r]))
      /\ count[r] = Tally(written[r])
      /\ summary[r] = <<>> /\ TableOf(table[r], Named(written[r]))
  BY <1>5 DEF MetaInv, RankMeta
<1>8. Describes(sum, written[r])
  BY <1>0, <1>7 DEF Describes
<1>. HIDE DEF sum
<1>9. /\ ~ recording'[r] /\ pc'[r] \in {"app", "crashed"}
      /\ summary'[r] # <<>> => Describes(summary'[r], written'[r])
  <2>1. ~ recording'[r] /\ pc'[r] = IF dumped THEN "app" ELSE "crashed"
    BY <1>0, <1>2 DEF Types
  <2>2. summary'[r] = IF described THEN sum ELSE <<>>
    BY <1>0, <1>2, <1>7
  <2>. QED BY <1>1, <1>8, <2>1, <2>2
<1>10. RankMeta(r)'
  BY <1>1, <1>6, <1>7, <1>9 DEF RankMeta
<1>11. \A q \in Ranks : q # r =>
         /\ at'[q] = at[q] /\ pc'[q] = pc[q] /\ recording'[q] = recording[q]
         /\ table'[q] = table[q] /\ summary'[q] = summary[q]
  BY <1>0, <1>1, <1>2 DEF Types
<1>12. DOMAIN table' = Ranks /\ DOMAIN summary' = Ranks
  BY <1>0, <1>2
<1>. QED BY <1>0, <1>1, <1>10, <1>11, <1>12, OthersStay DEF MetaInv

LEMMA NextMeta == ASSUME IInv, MetaInv, [Next]_vars PROVE MetaInv'
<1>1. CASE Recording
  <2>1. PICK r \in Ranks : StartStep(r) \/ Begin(r) \/ CallInit(r) \/ End(r) \/ CallFinalize(r)
    BY <1>1 DEF Recording, RecorderNext, StartStep
  <2>. QED BY <2>1, StartKeepsMeta, BeginKeepsMeta, InitKeepsMeta, EndKeepsMeta, FinalizeKeepsMeta
<1>2. CASE UNCHANGED recorderVars
  <2>1. UNCHANGED <<program, at, pc, recording, written, count, table, summary>>
    BY <1>2 DEF recorderVars, appVars, localVars
  <2>2. \A q \in Ranks : Calls(q)' = Calls(q)
    BY <2>1 DEF Calls
  <2>. QED BY <2>1, <2>2, RankStays DEF MetaInv
<1>. QED BY <1>1, <1>2 DEF Next, ReadTraces, LegalReplay, Stopped, vars

LEMMA MetaInvImplies == IInv /\ MetaInv => MetaDescribesTrace
<1>. SUFFICES ASSUME IInv, MetaInv, NEW r \in Ranks, summary[r] # <<>>
              PROVE  LET numbers == IF pc[r] = "crashed" THEN [i \in DOMAIN written[r] |-> i] ELSE Lines(r)
                         lines == [i \in DOMAIN numbers |-> written[r][numbers[i]]]
                         paths(rec) == {a.val : a \in {b \in Range(rec.args) : b.kind = "path"}}
                         named == UNION {paths(lines[i]) : i \in DOMAIN lines}
                     IN  /\ summary[r].total = Len(lines)
                         /\ \A i \in DOMAIN lines :
                              summary[r].count[lines[i].fn]
                                = Cardinality({j \in DOMAIN lines : lines[j].fn = lines[i].fn})
                         /\ IsInjective(summary[r].names) /\ Range(summary[r].names) = named
                         /\ summary[r].num_files = Cardinality(named)
  BY DEF MetaDescribesTrace
<1>. DEFINE w == written[r]
            n == Len(w)
            s == summary[r]
            numbers == IF pc[r] = "crashed" THEN [i \in DOMAIN w |-> i] ELSE Lines(r)
            lines == [i \in DOMAIN numbers |-> w[numbers[i]]]
            named == UNION {PathsIn(lines[i].args) : i \in DOMAIN lines}
<1>1. RankMeta(r) /\ Ended(r)
  BY DEF MetaInv, RankMeta
<1>2. ~ recording[r] /\ Describes(s, w) /\ LineNumbers(RecordStream(w)) = Numbers(n)
  BY <1>1 DEF RankMeta
<1>3. /\ mem[r] \in Full /\ Writable(w) /\ Stream(mem[r]) = RecordStream(w)
      /\ pc[r] # "crashed" => mem[r].buf = <<>>
  BY <1>2 DEF IInv, TraceInv
<1>4. pc[r] # "crashed" => mem[r].file = RecordStream(w)
  <2>1. mem[r].file \in Seq(Piece)
    BY <1>3 DEF Full, Buffers
  <2>. QED BY <1>3, <2>1, ConcatEmptySeq DEF Stream
<1>5. PICK S : w \in Seq(S)
  BY <1>3 DEF Writable
<1>6. numbers = Numbers(n)
  <2>1. CASE pc[r] = "crashed"
    <3>1. DOMAIN w = 1..n
      BY <1>5
    <3>. QED BY <2>1, <3>1 DEF Numbers
  <2>2. CASE pc[r] # "crashed"
    BY <1>2, <1>4, <2>2 DEF Lines, LineNumbers
  <2>. QED BY <2>1, <2>2
<1>7. lines = w /\ n \in Nat /\ DOMAIN w = 1..n
  <2>. HIDE DEF numbers
  <2>1. n \in Nat /\ DOMAIN w = 1..n /\ w = [i \in 1..n |-> w[i]]
    BY <1>5
  <2>2. DOMAIN numbers = 1..n /\ \A i \in 1..n : numbers[i] = i
    BY <1>6, <2>1 DEF Numbers
  <2>. HIDE DEF w, n
  <2>3. lines = [i \in 1..n |-> w[i]]
    BY <2>2
  <2>. QED BY <2>1, <2>3
<1>. HIDE DEF lines
<1>8. named = Named(w)
  BY <1>7 DEF Named
<1>9. /\ s.total = Len(lines) /\ IsInjective(s.names) /\ Range(s.names) = named
      /\ s.num_files = Cardinality(named)
  BY <1>2, <1>7, <1>8, TableSize DEF Describes, TableOf
<1>10. ASSUME NEW i \in DOMAIN lines
       PROVE  s.count[lines[i].fn] = Cardinality({j \in DOMAIN lines : lines[j].fn = lines[i].fn})
  <2>1. s.count = Tally(w)
    BY <1>2 DEF Describes
  <2>. HIDE DEF s, w, n
  <2>. QED BY <1>7, <2>1 DEF Tally, n
<1>. QED BY <1>9, <1>10 DEF lines, PathsIn

\* The metadata a rank leaves describe its trace, for any programs, any
\* number of ranks and any buffer: as many records as the data file has
\* lines, for each function as many as lines of it, and the files named in
\* them exactly once (write_record, realrealpath, logger_exit).
THEOREM MetaIsRight == Spec => []MetaDescribesTrace
<1>1. Init => IInv /\ MetaInv
  BY InitIInv, InitMeta
<1>2. IInv /\ MetaInv /\ [Next]_vars => (IInv /\ MetaInv)'
  BY NextIInv, NextMeta
<1>3. IInv /\ MetaInv => MetaDescribesTrace
  BY MetaInvImplies
<1>. QED BY <1>1, <1>2, <1>3, PTL DEF Spec
=============================================================================
