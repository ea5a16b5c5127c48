----------------------- MODULE CompressedStreamProofs -----------------------
(***************************************************************************)
(* From the node to the decoder's output, for any size of the blocks and   *)
(* of the bit buffer, any blocks and any lines lost.                       *)
(*                                                                         *)
(* The argument: what CompressTask leaves in the buffer is a chain of      *)
(* codes, of all the integers of the block or of fewer; reading it integer *)
(* by integer takes the decoder's codec through the states of the          *)
(* encoder's, and a line that lacks an integer is no block.  Then the      *)
(* steps: as long as no line is missing since a sync line, the decoder's   *)
(* codec is the one that the node had before the line under way.           *)
(***************************************************************************)
EXTENDS CompressedStream, BlockFormatProofs

-----------------------------------------------------------------------------

(* The decoder's copies of the operators.                                  *)

\* The gamma decoder is that of the library.
LEMMA SameGamma ==
  ASSUME NEW buf, NEW p
  PROVE  QD!elias_gamma_decode(buf, p) = Decode("gamma", buf, p)
<1>1. \A S : QD!Min(S) = Min(S)
  BY DEF QD!Min, Min
<1>2. \A b, r, n : QD!OneThen(b, r, n) = OneThen(b, r, n)
  BY Zenon DEF QD!OneThen, OneThen, QD!bitBuf_getNextBit, bitBuf_getNextBit
<1> DEFINE ones  == {i \in p..Len(buf.bits) - 1 : bitBuf_getNextBit(buf, i) = 1}
           first == Min(ones)
           l     == first - p
<1>3. {i \in p..Len(buf.bits) - 1 : QD!bitBuf_getNextBit(buf, i) = 1} = ones
  BY Zenon DEF QD!bitBuf_getNextBit, bitBuf_getNextBit
<1> HIDE DEF ones
<1>4. QD!elias_gamma_decode(buf, p) =
        IF ones = {} \/ first + 1 + l > Len(buf.bits) THEN Ends(buf)
        ELSE [n |-> OneThen(buf, first + 1, l), rpos |-> first + 1 + l]
  BY <1>1, <1>2, <1>3 DEF QD!elias_gamma_decode, QD!Ends, Ends
<1>5. elias_gamma_decode(buf, p) =
        IF ones = {} \/ first + 1 + l > Len(buf.bits) THEN Ends(buf)
        ELSE [n |-> OneThen(buf, first + 1, l), rpos |-> first + 1 + l]
  BY DEF elias_gamma_decode, ones
<1> QED
  BY <1>4, <1>5 DEF Decode

\* The delta decoder is that of the library.
LEMMA SameDelta ==
  ASSUME NEW buf, NEW p
  PROVE  QD!elias_delta_decode(buf, p) = Decode("delta", buf, p)
<1>1. \A b, r, n : QD!OneThen(b, r, n) = OneThen(b, r, n)
  BY Zenon DEF QD!OneThen, OneThen, QD!bitBuf_getNextBit, bitBuf_getNextBit
<1>2. \A b, r : QD!elias_gamma_decode(b, r) = elias_gamma_decode(b, r)
  BY SameGamma DEF Decode
<1> QED
  BY <1>1, <1>2 DEF QD!elias_delta_decode, elias_delta_decode, QD!Ends, Ends, Decode

\* The main programs fill their buffers alike.
LEMMA SameFilled ==
  ASSUME NEW bytes
  PROVE  /\ QD!GammaMain!FillBuffer(bytes) = BufferOf(BITBUFSIZE, bytes)
         /\ QD!DeltaMain!FillBuffer(bytes) = BufferOf(BITBUFSIZE, bytes)
<1>1. \A n : QD!GammaMain!Zeros(n) = Zeros(n) /\ QD!DeltaMain!Zeros(n) = Zeros(n)
  BY Zenon DEF QD!GammaMain!Zeros, QD!DeltaMain!Zeros, Zeros
<1>2. \A buf : QD!GammaMain!bitBuf_pad(buf) = bitBuf_pad(buf)
  BY <1>1, Zenon DEF QD!GammaMain!bitBuf_pad, bitBuf_pad, QD!GammaMain!FreeBits, FreeBits,
                     QD!GammaMain!ByteBits, ByteBits
<1>3. \A buf : QD!DeltaMain!bitBuf_pad(buf) = bitBuf_pad(buf)
  BY <1>1, Zenon DEF QD!DeltaMain!bitBuf_pad, bitBuf_pad, QD!DeltaMain!FreeBits, FreeBits,
                     QD!DeltaMain!ByteBits, ByteBits
<1>4. \A buf, b : QD!GammaMain!bitBuf_putByte(buf, b) = bitBuf_putByte(buf, b)
  BY <1>2, Zenon DEF QD!GammaMain!bitBuf_putByte, bitBuf_putByte, QD!GammaMain!bitBuf_length,
                     bitBuf_length, QD!GammaMain!ByteBits, ByteBits
<1>5. \A buf, b : QD!DeltaMain!bitBuf_putByte(buf, b) = bitBuf_putByte(buf, b)
  BY <1>3, Zenon DEF QD!DeltaMain!bitBuf_putByte, bitBuf_putByte, QD!DeltaMain!bitBuf_length,
                     bitBuf_length, QD!DeltaMain!ByteBits, ByteBits
<1>6. QD!GammaMain!bitBuf_clear(BITBUFSIZE) = bitBuf_clear(BITBUFSIZE)
  BY DEF QD!GammaMain!bitBuf_clear, bitBuf_clear
<1>7. QD!DeltaMain!bitBuf_clear(BITBUFSIZE) = bitBuf_clear(BITBUFSIZE)
  BY DEF QD!DeltaMain!bitBuf_clear, bitBuf_clear
<1>8. QD!GammaMain!FillBuffer(bytes) = BufferOf(BITBUFSIZE, bytes)
  BY <1>4, <1>6 DEF QD!GammaMain!FillBuffer, BufferOf
<1>9. QD!DeltaMain!FillBuffer(bytes) = BufferOf(BITBUFSIZE, bytes)
  BY <1>5, <1>7 DEF QD!DeltaMain!FillBuffer, BufferOf
<1> QED
  BY <1>8, <1>9

\* The tables and the lists are the same.
LEMMA SameCodes ==
  /\ \A k, n : QD!FieldOf(k, n) = FieldOf(k, n) /\ QD!EntryOf(k, n) = EntryOf(k, n)
  /\ \A n : QD!Wrap(n) = Wrap(n)
  /\ \A mtf : QD!mtf_init(mtf) = mtf_init(mtf)
  /\ \A mtf, b : QD!mtf_decode(mtf, b) = mtf_decode(mtf, b)
  /\ QD!MtfField = MtfField
<1>1. \A k, n : QD!FieldOf(k, n) = FieldOf(k, n) /\ QD!EntryOf(k, n) = EntryOf(k, n)
  BY Zenon DEF QD!FieldOf, FieldOf, QD!EntryOf, EntryOf, QD!Fields, Fields
<1>2. QD!Power = Power
  BY DEF QD!Power, Power
<1>3. \A n : QD!Wrap(n) = Wrap(n)
  BY <1>2 DEF QD!Wrap, Wrap
<1>4. \A mtf : QD!mtf_init(mtf) = mtf_init(mtf)
  BY Zenon DEF QD!mtf_init, mtf_init, QD!Symbol, Symbol
<1>5. \A mtf, i : QD!Nth(mtf, i) = Nth(mtf, i)
  BY Zenon DEF QD!Nth, Nth
<1>6. \A mtf, p, v : QD!MoveUp(mtf, p, v) = MoveUp(mtf, p, v)
  BY Zenon DEF QD!MoveUp, MoveUp
<1>7. \A mtf, b : QD!mtf_decode(mtf, b) = mtf_decode(mtf, b)
  BY <1>5, <1>6, Zenon DEF QD!mtf_decode, mtf_decode
<1>8. QD!MtfField = MtfField
  BY Zenon DEF QD!MtfField, MtfField
<1> QED
  BY <1>1, <1>3, <1>4, <1>7, <1>8

\* The main programs count alike.
LEMMA SameCount ==
  ASSUME NEW size, NEW bits
  PROVE  /\ QD!GammaMain!Count(Buf(size, bits)) = CountOf("gamma", Buf(size, bits))
         /\ QD!DeltaMain!Count(Buf(size, bits)) = CountOf("delta", Buf(size, bits))
<1> DEFINE buf == Buf(size, bits)
<1>1. QD!GammaMain!bitBuf_resetReadPos(buf).rpos = 0 /\ QD!DeltaMain!bitBuf_resetReadPos(buf).rpos = 0
  BY DEF QD!GammaMain!bitBuf_resetReadPos, QD!DeltaMain!bitBuf_resetReadPos, QD!GammaMain!bitBuf_setReadPos,
         QD!DeltaMain!bitBuf_setReadPos, Buf
<1> HIDE DEF buf
<1>2. QD!GammaMain!Count(buf) = CountOf("gamma", buf)
  BY <1>1, SameGamma DEF QD!GammaMain!Count, CountOf
<1>3. QD!DeltaMain!Count(buf) = CountOf("delta", buf)
  BY <1>1, SameDelta DEF QD!DeltaMain!Count, CountOf
<1> QED
  BY <1>2, <1>3 DEF buf

\* One turn of either decoder on a buffer.
Ended(code) == exit' = code /\ out' = << >> /\ UNCHANGED <<dec, block_size, syncd, initial_sync>>

LineRead(d, size, sync) ==
  /\ block_size' = size /\ initial_sync' = (initial_sync \/ sync)
  /\ dec' = d.codec
  /\ syncd' = ((syncd \/ sync) /\ d.ok)
  /\ out' = IF (syncd \/ sync) /\ d.ok THEN d.block ELSE << >>
  /\ exit' = exit

BlockRead(code, buf, codec, n) ==
  QD!DecodeBlock(Table(code, buf), codec, Decode(code, buf, 0).rpos, n, Decode(code, buf, 0).n = 2)

Size(code, buf) == IF block_size = 0 THEN CountOf(code, buf) \div 6 ELSE block_size
Known(code, buf) == block_size = 0 => CountOf(code, buf) % 6 = 1

TurnOf(code, buf) ==
  \/ ~Known(code, buf) /\ Ended(1)
  \/ Known(code, buf) /\ Decode(code, buf, 0).n \notin {1, 2} /\ Ended(2)
  \/ /\ Known(code, buf) /\ Decode(code, buf, 0).n \in {1, 2}
     /\ LineRead(BlockRead(code, buf, dec, Size(code, buf)), Size(code, buf), Decode(code, buf, 0).n = 2)

\* A turn of the loop of the gamma decoder.
LEMMA GammaTurn ==
  ASSUME NEW bytes, NEW x, BufferOf(BITBUFSIZE, bytes) = Buf(BITBUFSIZE, x), QD!GammaMain!Turn(bytes)
  PROVE  TurnOf("gamma", Buf(BITBUFSIZE, x))
<1> DEFINE buf == Buf(BITBUFSIZE, x)
           header == Decode("gamma", buf, 0)
           guess == IF block_size = 0 THEN QD!GammaMain!Guess(buf) ELSE [ok |-> TRUE, size |-> block_size]
<1>1. QD!GammaMain!FillBuffer(bytes) = buf /\ QD!elias_gamma_decode(buf, 0) = header
  BY SameFilled, SameGamma
<1>2. QD!GammaMain!Count(buf) = CountOf("gamma", buf)
  BY SameCount
<1>3. \A c, p, n, s : QD!gamma_block(c, buf, p, n, s) = QD!DecodeBlock(Table("gamma", buf), c, p, n, s)
  BY SameGamma DEF QD!gamma_block, Table
<1> HIDE DEF buf
<1>4. /\ guess.ok <=> Known("gamma", buf)
      /\ guess.ok => guess.size = Size("gamma", buf)
  BY <1>2 DEF QD!GammaMain!Guess, Known, Size
<1> HIDE DEF header, guess
<1>5. \/ ~guess.ok /\ QD!GammaMain!Stop(1)
      \/ guess.ok /\ header.n \notin {1, 2} /\ QD!GammaMain!Stop(2)
      \/ guess.ok /\ header.n \in {1, 2} /\ QD!GammaMain!DecodeLine(buf, guess.size, header)
  BY <1>1 DEF QD!GammaMain!Turn, guess
<1>6. CASE ~guess.ok /\ QD!GammaMain!Stop(1)
  BY <1>4, <1>6 DEF TurnOf, QD!GammaMain!Stop, Ended, buf
<1>7. CASE guess.ok /\ header.n \notin {1, 2} /\ QD!GammaMain!Stop(2)
  BY <1>4, <1>7 DEF TurnOf, QD!GammaMain!Stop, Ended, buf, header
<1>8. CASE guess.ok /\ header.n \in {1, 2} /\ QD!GammaMain!DecodeLine(buf, guess.size, header)
  <2>1. QD!gamma_block(dec, buf, header.rpos, guess.size, header.n = 2) = BlockRead("gamma", buf, dec, Size("gamma", buf))
    BY <1>3, <1>4, <1>8 DEF BlockRead, header
  <2>2. LineRead(BlockRead("gamma", buf, dec, Size("gamma", buf)), Size("gamma", buf), header.n = 2)
    BY <1>4, <1>8, <2>1, Zenon DEF QD!GammaMain!DecodeLine, LineRead
  <2> QED
    BY <1>4, <1>8, <2>2 DEF TurnOf, buf, header
<1> QED
  BY <1>5, <1>6, <1>7, <1>8

\* A turn of the loop of the delta decoder.
LEMMA DeltaTurn ==
  ASSUME NEW bytes, NEW x, BufferOf(BITBUFSIZE, bytes) = Buf(BITBUFSIZE, x), QD!DeltaMain!Turn(bytes)
  PROVE  TurnOf("delta", Buf(BITBUFSIZE, x))
<1> DEFINE buf == Buf(BITBUFSIZE, x)
           header == Decode("delta", buf, 0)
           guess == IF block_size = 0 THEN QD!DeltaMain!Guess(buf) ELSE [ok |-> TRUE, size |-> block_size]
<1>1. QD!DeltaMain!FillBuffer(bytes) = buf /\ QD!elias_delta_decode(buf, 0) = header
  BY SameFilled, SameDelta
<1>2. QD!DeltaMain!Count(buf) = CountOf("delta", buf)
  BY SameCount
<1>3. \A c, p, n, s : QD!delta_block(c, buf, p, n, s) = QD!DecodeBlock(Table("delta", buf), c, p, n, s)
  BY SameDelta DEF QD!delta_block, Table
<1> HIDE DEF buf
<1>4. /\ guess.ok <=> Known("delta", buf)
      /\ guess.ok => guess.size = Size("delta", buf)
  BY <1>2 DEF QD!DeltaMain!Guess, Known, Size
<1> HIDE DEF header, guess
<1>5. \/ ~guess.ok /\ QD!DeltaMain!Stop(1)
      \/ guess.ok /\ header.n \notin {1, 2} /\ QD!DeltaMain!Stop(2)
      \/ guess.ok /\ header.n \in {1, 2} /\ QD!DeltaMain!DecodeLine(buf, guess.size, header)
  BY <1>1 DEF QD!DeltaMain!Turn, guess
<1>6. CASE ~guess.ok /\ QD!DeltaMain!Stop(1)
  BY <1>4, <1>6 DEF TurnOf, QD!DeltaMain!Stop, Ended, buf
<1>7. CASE guess.ok /\ header.n \notin {1, 2} /\ QD!DeltaMain!Stop(2)
  BY <1>4, <1>7 DEF TurnOf, QD!DeltaMain!Stop, Ended, buf, header
<1>8. CASE guess.ok /\ header.n \in {1, 2} /\ QD!DeltaMain!DecodeLine(buf, guess.size, header)
  <2>1. QD!delta_block(dec, buf, header.rpos, guess.size, header.n = 2) = BlockRead("delta", buf, dec, Size("delta", buf))
    BY <1>3, <1>4, <1>8 DEF BlockRead, header
  <2>2. LineRead(BlockRead("delta", buf, dec, Size("delta", buf)), Size("delta", buf), header.n = 2)
    BY <1>4, <1>8, <2>1, Zenon DEF QD!DeltaMain!DecodeLine, LineRead
  <2> QED
    BY <1>4, <1>8, <2>2 DEF TurnOf, buf, header
<1> QED
  BY <1>5, <1>6, <1>7, <1>8

(* CompressTask.                                                           *)
K == 6 * CBLOCKSIZE
GoodCodec == {c \in Codec : Permuted(c.mtf)}
Written == {x \in Seq(Bit) : Len(x) <= ByteBits * BITBUFSIZE}
EncState == [buf : {Buf(BITBUFSIZE, w) : w \in Written}, codec : GoodCodec, ints : Seq(Number), whole : BOOLEAN]

\* What is assumed of the constants.
LEMMA StreamConstants ==
  /\ CBLOCKSIZE \in Nat \ {0} /\ BITBUFSIZE \in Nat \ {0} /\ MTFSYNC \in Nat \ {0} /\ K \in Nat \ {0}
  /\ 1 \in Number /\ 2 \in Number
<1>1. CBLOCKSIZE \in Nat \ {0} /\ BITBUFSIZE \in Nat \ {0} /\ MTFSYNC \in Nat \ {0}
  BY StreamAssumption
<1>2. K \in Nat \ {0}
  BY <1>1 DEF K
<1>3. N \in Nat /\ N >= 2 /\ N < Power[MaxLog + 1] /\ Power[MaxLog + 1] \in Nat
  BY FormatAssumption, PowerIs
<1> QED
  BY <1>1, <1>2, <1>3 DEF Number

\* A codec of the node and what assigning one of its parts leaves.
LEMMA CodecParts ==
  ASSUME NEW c \in GoodCodec
  PROVE  /\ c.mtf \in MtfEncoder /\ Permuted(c.mtf) /\ c.time \in Word /\ c.ic \in Word /\ c \in Codec
         /\ \A m : Permuted(m) => [c EXCEPT !.mtf = m] \in GoodCodec /\ [c EXCEPT !.mtf = m].mtf = m
         /\ \A m : Permuted(m) => [c EXCEPT !.mtf = m].time = c.time /\ [c EXCEPT !.mtf = m].ic = c.ic
         /\ \A t \in Word : [c EXCEPT !.time = t] \in GoodCodec /\ [c EXCEPT !.time = t].time = t
         /\ \A t \in Word : [c EXCEPT !.time = t].mtf = c.mtf /\ [c EXCEPT !.time = t].ic = c.ic
         /\ \A t \in Word : [c EXCEPT !.ic = t] \in GoodCodec /\ [c EXCEPT !.ic = t].ic = t
         /\ \A t \in Word : [c EXCEPT !.ic = t].mtf = c.mtf /\ [c EXCEPT !.ic = t].time = c.time
<1>1. c \in [mtf : MtfEncoder, time : Word, ic : Word] /\ Permuted(c.mtf)
  BY DEF GoodCodec, Codec
<1>2. \A m : Permuted(m) => m \in MtfEncoder
  BY PermutedTyped
<1> QED
  BY <1>1, <1>2 DEF GoodCodec, Codec

Fits(w, n) == Len(w) + Len(Code(elias, n)) <= ByteBits * BITBUFSIZE
EncodedAs(e, w, ints, whole, codec, n) ==
  /\ e \in EncState /\ e.codec = codec /\ e.ints = Append(ints, n)
  /\ Fits(w, n) => e.buf = Buf(BITBUFSIZE, w \o Code(elias, n)) /\ e.whole = whole
  /\ ~Fits(w, n) => e.buf = Buf(BITBUFSIZE, w) /\ e.whole = FALSE

\* An integer is put whole or left out, and whole remembers which.
LEMMA EncodedIs ==
  ASSUME elias \in {"gamma", "delta"}, NEW w \in Written, NEW ints \in Seq(Number), NEW whole \in BOOLEAN,
         NEW st, st.buf = Buf(BITBUFSIZE, w), st.ints = ints, st.whole = whole,
         NEW codec \in GoodCodec, NEW n \in Number
  PROVE  EncodedAs(Encoded(st, codec, n), w, ints, whole, codec, n)
<1> DEFINE s == Code(elias, n)
           e == Encoded(st, codec, n)
           fits == Len(w) + Len(s) <= ByteBits * BITBUFSIZE
<1>1. s \in Seq(Bit) /\ Len(s) \in Nat
  BY NumberCode
<1>2. w \in Seq(Bit) /\ Len(w) \in Nat /\ Len(w) <= ByteBits * BITBUFSIZE /\ BITBUFSIZE \in Nat
  BY StreamConstants DEF Written
<1>3. encodeInt(Buf(BITBUFSIZE, w), n) =
        IF elias = "gamma" THEN encodeGamma(Buf(BITBUFSIZE, w), n) ELSE encodeDelta(Buf(BITBUFSIZE, w), n)
  BY DEF encodeInt
<1>4. encodeInt(Buf(BITBUFSIZE, w), n) = IF fits THEN Buf(BITBUFSIZE, w \o s) ELSE Buf(BITBUFSIZE, w)
  BY <1>1, <1>2, <1>3, EncodesWhole
<1>5. FreeBits(Buf(BITBUFSIZE, w)) = ByteBits * BITBUFSIZE - Len(w)
  BY DEF FreeBits, Buf
<1> HIDE DEF s
<1>6. Len(s) <= FreeBits(Buf(BITBUFSIZE, w)) <=> fits
  <2> DEFINE x == Len(s)
             y == Len(w)
             z == ByteBits * BITBUFSIZE
  <2>1. x \in Nat /\ y \in Nat /\ z \in Nat
    BY <1>1, <1>2 DEF ByteBits
  <2> HIDE DEF x, y, z
  <2>2. x <= z - y <=> y + x <= z
    BY <2>1
  <2> QED
    BY <1>5, <2>2 DEF x, y, z
<1>7. w \o s \in Seq(Bit) /\ Len(w \o s) = Len(w) + Len(s)
  BY <1>1, <1>2, JoinedBits
<1>8. fits => w \o s \in Written
  BY <1>7 DEF Written
<1> HIDE DEF fits
<1>9. e = [buf |-> IF fits THEN Buf(BITBUFSIZE, w \o s) ELSE Buf(BITBUFSIZE, w), codec |-> codec,
           ints |-> Append(ints, n), whole |-> whole /\ fits]
  BY <1>4, <1>6 DEF Encoded, s
<1>10. Append(ints, n) \in Seq(Number)
  OBVIOUS
<1>11. (whole /\ fits) \in BOOLEAN
  OBVIOUS
<1> HIDE DEF e
<1>12. e.buf \in {Buf(BITBUFSIZE, v) : v \in Written}
  BY <1>8, <1>9
<1>13. e \in EncState
  BY <1>9, <1>10, <1>11, <1>12 DEF EncState
<1>14. fits => e.buf = Buf(BITBUFSIZE, w \o s) /\ e.whole = whole
  BY <1>9
<1>15. ~fits => e.buf = Buf(BITBUFSIZE, w) /\ e.whole = FALSE
  BY <1>9
<1> QED
  BY <1>9, <1>13, <1>14, <1>15 DEF e, s, fits, EncodedAs, Fits

\* What the encoder does with a value, field by field.
LEMMA IntIs ==
  ASSUME NEW c \in GoodCodec, NEW f \in AllFields, NEW v, NEW absolute \in BOOLEAN,
         f \in MtfField => v \in Symbol, f \notin MtfField => v \in Word
  PROVE  LET e == IntOf(c, f, v, absolute)
         IN  /\ e.n \in Number /\ e.codec \in GoodCodec
             /\ f \in MtfField => e = [n |-> mtf_encode(c.mtf, v).code + 1,
                                       codec |-> [c EXCEPT !.mtf = mtf_encode(c.mtf, v).mtf]]
             /\ f = "time" => e = [n |-> IF absolute THEN Wrap(v + 1) ELSE Wrap(v - c.time),
                                   codec |-> [c EXCEPT !.time = v]]
             /\ f = "ic" => e = [n |-> IF absolute THEN Wrap(v + 1) ELSE Wrap(v - c.ic + 1),
                                 codec |-> [c EXCEPT !.ic = v]]
<1>1. f \in MtfField \/ f = "time" \/ f = "ic"
  BY DEF AllFields, MtfField
<1>2. "time" \notin MtfField /\ "ic" \notin MtfField /\ "time" # "ic"
  BY DEF MtfField
<1>3. Word \subseteq Number /\ (\A x \in Word : x \in Int) /\ c.time \in Word /\ c.ic \in Word
  BY WordIs, CodecParts
<1>4. CASE f \in MtfField
  <2> DEFINE m == mtf_encode(c.mtf, v)
  <2>1. IntOf(c, f, v, absolute) = [n |-> m.code + 1, codec |-> [c EXCEPT !.mtf = m.mtf]]
    BY <1>2, <1>4 DEF IntOf
  <2>2. m.code \in Symbol /\ Permuted(m.mtf)
    BY <1>4, CodecParts, PermutedEncodes
  <2> HIDE DEF m
  <2>3. m.code + 1 \in Number /\ [c EXCEPT !.mtf = m.mtf] \in GoodCodec
    BY <2>2, CodecParts, WordIs
  <2> QED
    BY <1>2, <1>4, <2>1, <2>3 DEF m
<1>5. CASE f = "time"
  <2> DEFINE w == IF absolute THEN Wrap(v + 1) ELSE Wrap(v - c.time)
  <2>1. IntOf(c, f, v, absolute) = [n |-> w, codec |-> [c EXCEPT !.time = v]]
    BY <1>2, <1>5 DEF IntOf
  <2>2. v \in Word
    BY <1>2, <1>5
  <2>3. w \in Word
    <3>1. v + 1 \in Int /\ v - c.time \in Int
      BY <1>3, <2>2
    <3> QED
      BY <3>1, WrapIs
  <2> HIDE DEF w
  <2>4. w \in Number /\ [c EXCEPT !.time = v] \in GoodCodec
    BY <1>3, <2>2, <2>3, CodecParts
  <2> QED
    BY <1>2, <1>5, <2>1, <2>4 DEF w
<1>6. CASE f = "ic"
  <2> DEFINE w == IF absolute THEN Wrap(v + 1) ELSE Wrap(v - c.ic + 1)
  <2>1. IntOf(c, f, v, absolute) = [n |-> w, codec |-> [c EXCEPT !.ic = v]]
    BY <1>2, <1>6 DEF IntOf
  <2>2. v \in Word
    BY <1>2, <1>6
  <2>3. w \in Word
    <3>1. v + 1 \in Int /\ v - c.ic + 1 \in Int
      BY <1>3, <2>2
    <3> QED
      BY <3>1, WrapIs
  <2> HIDE DEF w
  <2>4. w \in Number /\ [c EXCEPT !.ic = v] \in GoodCodec
    BY <1>3, <2>2, <2>3, CodecParts
  <2> QED
    BY <1>2, <1>6, <2>1, <2>4 DEF w
<1> QED
  BY <1>1, <1>4, <1>5, <1>6

\* The states of CompressTask, integer by integer.
Started(c, sync) == IF sync THEN [c EXCEPT !.mtf = mtf_init(@)] ELSE c
First(c, sync) ==
  Encoded([buf |-> bitBuf_clear(BITBUFSIZE), ints |-> << >>, whole |-> TRUE], Started(c, sync), IF sync THEN 2 ELSE 1)
StepInt(block, sync, codec, k) ==
  IntOf(codec, FieldOf(k, CBLOCKSIZE), block[EntryOf(k, CBLOCKSIZE)][FieldOf(k, CBLOCKSIZE)],
        sync /\ EntryOf(k, CBLOCKSIZE) = 1)

Compressed(g, block, sync, c) ==
  /\ g \in [0..K -> EncState] /\ g[0] = First(c, sync)
  /\ \A k \in 1..K : g[k] = Encoded(g[k - 1], StepInt(block, sync, g[k - 1].codec, k).codec,
                                    StepInt(block, sync, g[k - 1].codec, k).n)

Block == [1..CBLOCKSIZE -> Entry]

\* The value that is encoded next.
LEMMA FieldAt ==
  ASSUME NEW block \in Block, NEW k \in 1..K
  PROVE  LET f == FieldOf(k, CBLOCKSIZE)
             v == block[EntryOf(k, CBLOCKSIZE)][f]
         IN  f \in AllFields /\ (f \in MtfField => v \in Symbol) /\ (f \notin MtfField => v \in Word)
<1> DEFINE f == FieldOf(k, CBLOCKSIZE)
           e == EntryOf(k, CBLOCKSIZE)
<1>1. e \in 1..CBLOCKSIZE /\ f \in AllFields
  <2>1. CBLOCKSIZE \in Nat \ {0} /\ k \in 1..6 * CBLOCKSIZE
    BY StreamConstants DEF K
  <2>2. e \in 1..CBLOCKSIZE
    BY <2>1, Places
  <2>3. PICK q \in 0..5 : f = Fields[q + 1]
    BY <2>1, Places
  <2> QED
    BY <2>2, <2>3, FieldIs
<1> HIDE DEF e, f
<1>2. block[e] \in Entry
  BY <1>1 DEF Block
<1>3. (f \in MtfField => block[e][f] \in Symbol) /\ (f \notin MtfField => block[e][f] \in Word)
  BY <1>1, <1>2, FieldTyped
<1> QED
  BY <1>1, <1>3 DEF e, f

\* Its integer, and the codec after it.
LEMMA StepTyped ==
  ASSUME NEW block \in Block, NEW sync \in BOOLEAN, NEW c \in GoodCodec, NEW k \in 1..K
  PROVE  StepInt(block, sync, c, k).n \in Number /\ StepInt(block, sync, c, k).codec \in GoodCodec
<1> DEFINE f == FieldOf(k, CBLOCKSIZE)
           v == block[EntryOf(k, CBLOCKSIZE)][f]
           a == sync /\ EntryOf(k, CBLOCKSIZE) = 1
<1>1. f \in AllFields /\ (f \in MtfField => v \in Symbol) /\ (f \notin MtfField => v \in Word) /\ a \in BOOLEAN
  BY FieldAt
<1> HIDE DEF f, v, a
<1>2. IntOf(c, f, v, a).n \in Number /\ IntOf(c, f, v, a).codec \in GoodCodec
  BY <1>1, IntIs
<1> QED
  BY <1>2 DEF f, v, a, StepInt

\* At a sync block the list starts anew.
LEMMA StartedGood ==
  ASSUME NEW c \in GoodCodec, NEW sync \in BOOLEAN
  PROVE  Started(c, sync) \in GoodCodec
<1>1. Permuted(mtf_init(c.mtf))
  BY CodecParts, InitListed DEF Permuted
<1> QED
  BY <1>1, CodecParts DEF Started

\* The header.
LEMMA FirstIs ==
  ASSUME elias \in {"gamma", "delta"}, NEW c \in GoodCodec, NEW sync \in BOOLEAN
  PROVE  EncodedAs(First(c, sync), << >>, << >>, TRUE, Started(c, sync), IF sync THEN 2 ELSE 1)
<1> DEFINE n == IF sync THEN 2 ELSE 1
           st == [buf |-> bitBuf_clear(BITBUFSIZE), ints |-> << >>, whole |-> TRUE]
           w == << >>
           whole == TRUE
<1>1. n \in Number
  BY StreamConstants
<1>2. st.buf = Buf(BITBUFSIZE, w) /\ st.ints = w /\ st.whole = whole
  BY DEF bitBuf_clear, Buf
<1>3. w \in Written /\ w \in Seq(Number) /\ whole \in BOOLEAN
  BY StreamConstants DEF Written, ByteBits
<1>4. Started(c, sync) \in GoodCodec
  BY StartedGood
<1>5. First(c, sync) = Encoded(st, Started(c, sync), n)
  BY DEF First
<1> HIDE DEF n, st, w, whole
<1>6. EncodedAs(Encoded(st, Started(c, sync), n), w, w, whole, Started(c, sync), n)
  BY <1>1, <1>2, <1>3, <1>4, EncodedIs
<1> QED
  BY <1>5, <1>6, Zenon DEF n, w, whole

\* A state of CompressTask.
LEMMA EncStateParts ==
  ASSUME NEW st \in EncState
  PROVE  /\ st.codec \in GoodCodec /\ st.ints \in Seq(Number) /\ st.whole \in BOOLEAN
         /\ \E w \in Written : st.buf = Buf(BITBUFSIZE, w)
         /\ st.buf.bits \in Written /\ st.buf = Buf(BITBUFSIZE, st.buf.bits)
<1>1. st.codec \in GoodCodec /\ st.ints \in Seq(Number) /\ st.whole \in BOOLEAN
  BY DEF EncState
<1>2. PICK w \in Written : st.buf = Buf(BITBUFSIZE, w)
  BY DEF EncState
<1>3. Buf(BITBUFSIZE, w).bits = w
  BY DEF Buf
<1> QED
  BY <1>1, <1>2, <1>3

\* CompressTask runs through states of that kind.
LEMMA Compresses ==
  ASSUME elias \in {"gamma", "delta"}, enc \in GoodCodec, NEW block \in Block, NEW sync \in BOOLEAN
  PROVE  \E g : Compressed(g, block, sync, enc) /\ CompressBlock(block, sync) = g[K]
<1> DEFINE step(st, k) == Encoded(st, StepInt(block, sync, st.codec, k).codec, StepInt(block, sync, st.codec, k).n)
           F == [p \in EncState \X (1..K) |-> step(p[1], p[2])]
           a == First(enc, sync)
<1>1. a \in EncState
  BY FirstIs DEF EncodedAs
<1>2. \A st \in EncState, k \in 1..K : step(st, k) \in EncState
  <2> SUFFICES ASSUME NEW st \in EncState, NEW k \in 1..K PROVE step(st, k) \in EncState
    OBVIOUS
  <2> DEFINE c == StepInt(block, sync, st.codec, k).codec
             n == StepInt(block, sync, st.codec, k).n
  <2>1. st.codec \in GoodCodec
    BY EncStateParts
  <2>2. c \in GoodCodec /\ n \in Number
    BY <2>1, StepTyped
  <2>3. PICK w \in Written : st.buf = Buf(BITBUFSIZE, w)
    BY EncStateParts
  <2>4. st.ints \in Seq(Number) /\ st.whole \in BOOLEAN
    BY EncStateParts
  <2> HIDE DEF c, n
  <2>5. Encoded(st, c, n) \in EncState
    BY <2>2, <2>3, <2>4, EncodedIs DEF EncodedAs
  <2> QED
    BY <2>5 DEF c, n
<1>3. F \in [EncState \X (1..K) -> EncState] /\ \A st \in EncState, k \in 1..K : F[<<st, k>>] = step(st, k)
  BY <1>2
<1>4. K \in Nat /\ \A k \in 1..K : k \in 0..K /\ k - 1 \in 0..K /\ k # 0
  BY StreamConstants
<1> HIDE DEF F, a, step
<1>5. PICK g : Recurs(g, K, EncState, a, F)
  BY <1>1, <1>3, <1>4, Recursion
<1>6. g \in [0..K -> EncState] /\ g[0] = a /\ \A k \in 1..K : g[k] = step(g[k - 1], k)
  BY <1>3, <1>4, <1>5 DEF Recurs
<1> DEFINE after[k \in 0..6 * CBLOCKSIZE] ==
             IF k = 0 THEN Encoded([buf |-> bitBuf_clear(BITBUFSIZE), ints |-> << >>, whole |-> TRUE],
                                   IF sync THEN [enc EXCEPT !.mtf = mtf_init(@)] ELSE enc,
                                   IF sync THEN 2 ELSE 1)
             ELSE EncodeStep(block, sync, after[k - 1], k)
<1>7. CompressBlock(block, sync) = after[K]
  BY DEF CompressBlock, K
<1>8. \A st, k : EncodeStep(block, sync, st, k) = step(st, k)
  BY DEF EncodeStep, step, StepInt
<1>9. a = Encoded([buf |-> bitBuf_clear(BITBUFSIZE), ints |-> << >>, whole |-> TRUE],
                  IF sync THEN [enc EXCEPT !.mtf = mtf_init(@)] ELSE enc, IF sync THEN 2 ELSE 1)
  BY DEF a, First, Started
<1>10. g = [k \in 0..K |-> IF k = 0 THEN a ELSE EncodeStep(block, sync, g[k - 1], k)]
  <2>1. g = [k \in 0..K |-> g[k]]
    BY <1>6
  <2>2. \A k \in 0..K : k = 0 \/ k \in 1..K
    BY <1>4
  <2>3. \A k \in 0..K : g[k] = IF k = 0 THEN a ELSE EncodeStep(block, sync, g[k - 1], k)
    BY <1>4, <1>6, <1>8, <2>2
  <2> QED
    BY <2>1, <2>3
<1>11. after = [k \in 0..K |-> IF k = 0 THEN a ELSE EncodeStep(block, sync, after[k - 1], k)]
  BY <1>9, <1>10 DEF K
<1> HIDE DEF after
<1> DEFINE T == {k \in 0..K : after[k] = g[k]}
<1>12. 0 \in T
  <2>1. 0 \in 0..K
    BY <1>4
  <2> QED
    BY <1>6, <1>11, <2>1
<1>13. ASSUME NEW k \in 1..K, k - 1 \in T PROVE k \in T
  <2>1. after[k] = EncodeStep(block, sync, after[k - 1], k)
    BY <1>4, <1>11
  <2> QED
    BY <1>4, <1>6, <1>8, <1>13, <2>1
<1> HIDE DEF T
<1>14. K \in T
  <2>1. K \in 0..K
    BY <1>4
  <2> QED
    BY <1>4, <1>12, <1>13, <2>1, InductionUpTo
<1>15. CompressBlock(block, sync) = g[K]
  BY <1>7, <1>14 DEF T
<1>16. Compressed(g, block, sync, enc)
  BY <1>6 DEF Compressed, step, a
<1> QED
  BY <1>15, <1>16

\* What found room in the buffer.
Kept(st, k, ps, pos) ==
  /\ Chain(elias, st.buf.bits, ps, pos) /\ Len(ps) >= 1 /\ ps[1] = st.ints[1] /\ Len(st.ints) = k + 1
  /\ IF st.whole THEN ps = st.ints ELSE Len(ps) <= k
HasKept(st, k) == \E ps, pos : Kept(st, k, ps, pos)

\* The header finds room.
LEMMA HeaderFits ==
  ASSUME NEW code, NEW n \in {1, 2}
  PROVE  n \in Coded /\ n \in Number /\ Code(code, n) \in Seq(Bit) /\ Len(Code(code, n)) <= 4
<1>1. n \in Number /\ n \in Nat /\ n # 0
  BY StreamConstants
<1>2. n \in Coded /\ Code(code, n) \in Seq(Bit)
  BY <1>1, NumberCode
<1> DEFINE l == FloorLog2(n)
<1>3. l \in Nat /\ l <= 1
  <2>1. l \in 0..MaxLog /\ MaxLog \in Nat /\ Power[l] <= n
    BY <1>2, LogIs
  <2>2. l \in 0..MaxLog + 1
    BY <2>1
  <2>3. Power[l] \in Nat /\ l < Power[l]
    BY <2>2, PowerIs
  <2> HIDE DEF l
  <2> QED
    BY <2>1, <2>3
<1>4. Gamma(n) \in Seq(Bit) /\ Len(Gamma(n)) = 2 * l + 1
  BY <1>2, GammaIs
<1>5. l + 1 \in Coded /\ Gamma(l + 1) \in Seq(Bit) /\ LowBits(n, l) \in Seq(Bit)
      /\ Delta(n) = Gamma(l + 1) \o LowBits(n, l) /\ Len(LowBits(n, l)) = l
  BY <1>2, DeltaIs
<1> DEFINE s == Gamma(l + 1)
           t == LowBits(n, l)
           m == FloorLog2(l + 1)
<1>6. m \in Nat /\ m <= 1
  <2>1. m \in 0..MaxLog /\ MaxLog \in Nat /\ Power[m] <= l + 1
    BY <1>5, LogIs
  <2>2. m \in 0..MaxLog + 1
    BY <2>1
  <2>3. Power[m] \in Nat /\ m < Power[m]
    BY <2>2, PowerIs
  <2> HIDE DEF l, m
  <2> QED
    BY <1>3, <2>1, <2>3
<1>7. Len(s) = 2 * m + 1
  BY <1>5, GammaIs
<1>8. Len(Delta(n)) = Len(s) + Len(t)
  <2>1. s \in Seq(Bit) /\ t \in Seq(Bit) /\ Delta(n) = s \o t
    BY <1>5
  <2> HIDE DEF s, t
  <2>2. Len(s \o t) = Len(s) + Len(t)
    BY <2>1, JoinedBits
  <2> QED
    BY <2>1, <2>2
<1>9. Len(t) = l
  BY <1>5
<1> HIDE DEF l, s, t, m
<1>10. Len(Gamma(n)) <= 4 /\ Len(Delta(n)) <= 4
  BY <1>3, <1>4, <1>6, <1>7, <1>8, <1>9
<1>11. Code(code, n) = Gamma(n) \/ Code(code, n) = Delta(n)
  BY DEF Code
<1>12. Len(Code(code, n)) <= 4
  BY <1>10, <1>11
<1> QED
  BY <1>1, <1>2, <1>12

\* After the header.
LEMMA KeptFirst ==
  ASSUME elias \in {"gamma", "delta"}, NEW c \in GoodCodec, NEW sync \in BOOLEAN
  PROVE  HasKept(First(c, sync), 0)
<1> DEFINE n == IF sync THEN 2 ELSE 1
           s == Code(elias, n)
           e == First(c, sync)
           none == << >>
<1>1. n \in Coded /\ s \in Seq(Bit) /\ Len(s) <= 4
  BY HeaderFits
<1>2. EncodedAs(e, none, none, TRUE, Started(c, sync), n)
  BY FirstIs
<1>3. Fits(none, n)
  <2>1. Len(none) = 0 /\ ByteBits * BITBUFSIZE >= 8 /\ Len(s) \in Nat
    BY <1>1, StreamConstants DEF ByteBits
  <2>2. Fits(none, n) <=> Len(none) + Len(s) <= ByteBits * BITBUFSIZE
    BY DEF Fits
  <2> DEFINE x == Len(none)
             y == Len(s)
             z == ByteBits * BITBUFSIZE
  <2>3. x = 0 /\ y \in Nat /\ y <= 4 /\ z >= 8 /\ z \in Nat
    BY <1>1, <2>1, StreamConstants DEF ByteBits
  <2> HIDE DEF x, y, z
  <2>4. x + y <= z
    BY <2>3
  <2> QED
    BY <2>2, <2>4 DEF x, y, z
<1>4. e.buf = Buf(BITBUFSIZE, none \o s) /\ e.whole = TRUE /\ e.ints = Append(none, n)
  BY <1>2, <1>3 DEF EncodedAs
<1>5. Chain(elias, none, none, [j \in 0..0 |-> 0])
  BY NoChain
<1>6. e.buf.bits = none \o s
  BY <1>4 DEF Buf
<1> HIDE DEF n, e
<1>7. \E q : Chain(elias, none \o s, Append(none, n), q)
  BY <1>1, <1>5, ChainGrows
<1>8. PICK q : Chain(elias, e.buf.bits, e.ints, q)
  BY <1>4, <1>6, <1>7
<1>9. Len(e.ints) = 1
  BY <1>4
<1>10. Kept(e, 0, e.ints, q)
  BY <1>4, <1>8, <1>9 DEF Kept
<1> QED
  BY <1>10 DEF HasKept, e

\* After one integer more, unless it is 0.
LEMMA KeptNext ==
  ASSUME elias \in {"gamma", "delta"}, NEW st \in EncState, NEW k \in Nat, k # 0, HasKept(st, k - 1),
         NEW codec \in GoodCodec, NEW n \in Number, n # 0
  PROVE  HasKept(Encoded(st, codec, n), k)
<1> DEFINE w == st.buf.bits
           e == Encoded(st, codec, n)
           s == Code(elias, n)
           ints == st.ints
           whole == st.whole
           m == Append(ints, n)
<1>1. w \in Written /\ st.buf = Buf(BITBUFSIZE, w) /\ ints \in Seq(Number) /\ whole \in BOOLEAN
  BY EncStateParts
<1>2. n \in Coded
  BY NumberCode
<1>3. EncodedAs(e, w, ints, whole, codec, n)
  <2>1. st.ints = ints /\ st.whole = whole
    OBVIOUS
  <2> HIDE DEF ints, whole, w
  <2> QED
    BY <1>1, <2>1, EncodedIs
<1>4. PICK ps, pos : Kept(st, k - 1, ps, pos)
  BY DEF HasKept
<1>5. /\ Chain(elias, w, ps, pos) /\ Len(ps) >= 1 /\ ps[1] = ints[1] /\ Len(ints) = k
      /\ IF whole THEN ps = ints ELSE Len(ps) <= k - 1
  BY <1>4 DEF Kept
<1>6. ps \in Seq(Coded) /\ Len(ps) \in Nat
  BY <1>5 DEF Chain
<1> HIDE DEF w, ints, whole, s, m
<1>7. e.ints = m /\ Len(m) = k + 1 /\ m[1] = ints[1]
  BY <1>1, <1>3, <1>5 DEF EncodedAs, m
<1>8. CASE Fits(w, n)
  <2> DEFINE np == Append(ps, n)
  <2>1. e.buf = Buf(BITBUFSIZE, w \o s) /\ e.whole = whole
    BY <1>3, <1>8 DEF EncodedAs, s
  <2>2. e.buf.bits = w \o s
    BY <2>1 DEF Buf
  <2>3. \E q : Chain(elias, w \o s, np, q)
    BY <1>2, <1>5, ChainGrows DEF s
  <2>4. PICK q : Chain(elias, e.buf.bits, np, q)
    BY <2>2, <2>3
  <2>5. Len(np) = Len(ps) + 1 /\ np[1] = ps[1]
    BY <1>2, <1>5, <1>6
  <2>6. whole => np = m
    BY <1>5 DEF m
  <2> HIDE DEF np
  <2>7. ~whole => Len(np) <= k
    BY <1>5, <1>6, <2>5
  <2>8. Len(np) >= 1 /\ np[1] = m[1]
    BY <1>5, <1>6, <1>7, <2>5
  <2> HIDE DEF e
  <2>9. Kept(e, k, np, q)
    BY <1>7, <2>1, <2>4, <2>6, <2>7, <2>8 DEF Kept
  <2> QED
    BY <2>9 DEF HasKept, e
<1>9. CASE ~Fits(w, n)
  <2>1. e.buf = Buf(BITBUFSIZE, w) /\ e.whole = FALSE
    BY <1>3, <1>9 DEF EncodedAs
  <2>2. e.buf.bits = w
    BY <2>1 DEF Buf
  <2>3. Len(ps) <= k
    BY <1>5, <1>6
  <2> HIDE DEF e
  <2>4. Kept(e, k, ps, pos)
    BY <1>5, <1>7, <2>1, <2>2, <2>3 DEF Kept
  <2> QED
    BY <2>4 DEF HasKept, e
<1> QED
  BY <1>8, <1>9

\* The integers of the whole block, and the codecs between them.
LEMMA IntsAre ==
  ASSUME elias \in {"gamma", "delta"}, NEW block \in Block, NEW sync \in BOOLEAN, NEW c \in GoodCodec,
         NEW g, Compressed(g, block, sync, c)
  PROVE  /\ \A k \in 0..K : g[k] \in EncState /\ g[k].codec \in GoodCodec
         /\ g[0].codec = Started(c, sync) /\ g[K].ints[1] = (IF sync THEN 2 ELSE 1)
         /\ Len(g[K].ints) = K + 1
         /\ \A k \in 1..K : /\ g[k].codec = StepInt(block, sync, g[k - 1].codec, k).codec
                            /\ g[K].ints[k + 1] = StepInt(block, sync, g[k - 1].codec, k).n
                            /\ StepInt(block, sync, g[k - 1].codec, k).n \in Number
                            /\ StepInt(block, sync, g[k - 1].codec, k).codec \in GoodCodec
<1> DEFINE head == IF sync THEN 2 ELSE 1
<1>1. g \in [0..K -> EncState] /\ g[0] = First(c, sync)
  BY DEF Compressed
<1>2. K \in Nat \ {0} /\ \A k \in 1..K : k \in 0..K /\ k - 1 \in 0..K /\ k # 0
  BY StreamConstants
<1>3. \A k \in 0..K : g[k] \in EncState /\ g[k].codec \in GoodCodec /\ g[k].ints \in Seq(Number)
  BY <1>1, EncStateParts
<1>4. EncodedAs(g[0], << >>, << >>, TRUE, Started(c, sync), head)
  BY <1>1, FirstIs
<1>5. g[0].codec = Started(c, sync) /\ Len(g[0].ints) = 1 /\ g[0].ints[1] = head
  BY <1>4 DEF EncodedAs
<1> DEFINE cd(k) == StepInt(block, sync, g[k - 1].codec, k).codec
           num(k) == StepInt(block, sync, g[k - 1].codec, k).n
<1>6. ASSUME NEW k \in 1..K
      PROVE  num(k) \in Number /\ cd(k) \in GoodCodec /\ g[k].codec = cd(k) /\ g[k].ints = Append(g[k - 1].ints, num(k))
  <2> DEFINE st == g[k - 1]
             w == st.buf.bits
             ints == st.ints
             whole == st.whole
             n == num(k)
             d == cd(k)
  <2>1. st \in EncState /\ st.codec \in GoodCodec
    BY <1>2, <1>3
  <2>2. n \in Number /\ d \in GoodCodec
    BY <2>1, StepTyped
  <2>3. g[k] = Encoded(st, d, n)
    BY DEF Compressed
  <2>4. w \in Written /\ st.buf = Buf(BITBUFSIZE, w) /\ ints \in Seq(Number) /\ whole \in BOOLEAN
    BY <2>1, EncStateParts
  <2>5. EncodedAs(Encoded(st, d, n), w, ints, whole, d, n)
    <3>1. st.ints = ints /\ st.whole = whole
      OBVIOUS
    <3> HIDE DEF st, w, ints, whole, n, d
    <3> QED
      BY <2>2, <2>4, <3>1, EncodedIs
  <2> QED
    BY <2>2, <2>3, <2>5 DEF EncodedAs
<1> HIDE DEF cd, num, head
<1> DEFINE T == {k \in 0..K : Len(g[k].ints) = k + 1 /\ \A i \in 1..k + 1 : g[k].ints[i] = g[i - 1].ints[i]}
<1>7. 0 \in T
  <2>1. 0 \in 0..K /\ 1 - 1 = 0 /\ \A i \in 1..0 + 1 : i = 1
    BY <1>2
  <2> QED
    BY <1>5, <2>1
<1>8. ASSUME NEW k \in 1..K, k - 1 \in T PROVE k \in T
  <2> DEFINE a == g[k - 1].ints
             b == g[k].ints
  <2>1. a \in Seq(Number) /\ b = Append(a, num(k)) /\ Len(a) = k /\ num(k) \in Number
    <3>1. k - 1 \in 0..K /\ (k - 1) + 1 = k
      BY <1>2
    <3>2. Len(g[k - 1].ints) = (k - 1) + 1
      BY <1>8
    <3> QED
      BY <1>3, <1>6, <3>1, <3>2
  <2>2. Len(b) = k + 1 /\ \A i \in 1..k : b[i] = a[i]
    BY <2>1
  <2>3. \A i \in 1..k : a[i] = g[i - 1].ints[i]
    <3>1. (k - 1) + 1 = k
      BY <1>2
    <3>2. \A i \in 1..(k - 1) + 1 : g[k - 1].ints[i] = g[i - 1].ints[i]
      BY <1>8
    <3> QED
      BY <3>1, <3>2
  <2> HIDE DEF a, b
  <2>4. \A i \in 1..k + 1 : b[i] = g[i - 1].ints[i]
    <3> SUFFICES ASSUME NEW i \in 1..k + 1 PROVE b[i] = g[i - 1].ints[i]
      OBVIOUS
    <3>1. CASE i \in 1..k
      BY <2>2, <2>3, <3>1
    <3>2. CASE i = k + 1
      <4>1. i - 1 = k
        BY <1>2, <3>2
      <4> QED
        BY <4>1 DEF b
    <3> QED
      BY <1>2, <3>1, <3>2
  <2> QED
    BY <1>2, <2>2, <2>4 DEF b
<1> HIDE DEF T
<1>9. \A k \in 0..K : k \in T
  BY <1>2, <1>7, <1>8, InductionUpTo
<1>10. \A k \in 0..K : Len(g[k].ints) = k + 1 /\ \A i \in 1..k + 1 : g[k].ints[i] = g[i - 1].ints[i]
  BY <1>9 DEF T
<1>11. \A k \in 1..K : g[K].ints[k + 1] = num(k)
  <2> SUFFICES ASSUME NEW k \in 1..K PROVE g[K].ints[k + 1] = num(k)
    OBVIOUS
  <2> DEFINE a == g[k - 1].ints
             b == g[k].ints
  <2>1. a \in Seq(Number) /\ b = Append(a, num(k)) /\ Len(a) = k /\ num(k) \in Number
    BY <1>2, <1>3, <1>6, <1>10
  <2>2. b[k + 1] = num(k)
    BY <2>1
  <2>3. k + 1 \in 1..K + 1 /\ (k + 1) - 1 = k /\ K \in 0..K
    BY <1>2
  <2>4. g[K].ints[k + 1] = g[(k + 1) - 1].ints[k + 1]
    BY <1>10, <2>3
  <2> QED
    BY <2>2, <2>3, <2>4
<1>12. g[K].ints[1] = head /\ Len(g[K].ints) = K + 1
  <2>1. 1 \in 1..K + 1 /\ 1 - 1 = 0 /\ K \in 0..K
    BY <1>2
  <2> QED
    BY <1>5, <1>10, <2>1
<1> QED
  BY <1>3, <1>5, <1>6, <1>11, <1>12 DEF cd, num, head

\* All that found room, when no integer is 0.
LEMMA KeptAll ==
  ASSUME elias \in {"gamma", "delta"}, NEW block \in Block, NEW sync \in BOOLEAN, NEW c \in GoodCodec,
         NEW g, Compressed(g, block, sync, c), \A i \in 1..Len(g[K].ints) : g[K].ints[i] # 0
  PROVE  HasKept(g[K], K)
<1> DEFINE cd(k) == StepInt(block, sync, g[k - 1].codec, k).codec
           num(k) == StepInt(block, sync, g[k - 1].codec, k).n
           T == {k \in 0..K : HasKept(g[k], k)}
<1>1. K \in Nat \ {0} /\ \A k \in 1..K : k \in 0..K /\ k - 1 \in 0..K /\ k # 0
  BY StreamConstants
<1>2. 0 \in T
  <2>1. g[0] = First(c, sync)
    BY DEF Compressed
  <2>2. 0 \in 0..K
    BY <1>1
  <2> QED
    BY <2>1, <2>2, KeptFirst
<1>3. ASSUME NEW k \in 1..K, k - 1 \in T PROVE k \in T
  <2>1. g[k - 1] \in EncState /\ cd(k) \in GoodCodec /\ num(k) \in Number /\ num(k) = g[K].ints[k + 1]
    BY <1>1, IntsAre
  <2>2. num(k) # 0
    <3>1. Len(g[K].ints) = K + 1
      BY IntsAre
    <3>2. k + 1 \in 1..Len(g[K].ints)
      BY <1>1, <3>1
    <3> QED
      BY <2>1, <3>2
  <2>3. g[k] = Encoded(g[k - 1], cd(k), num(k))
    BY DEF Compressed
  <2>4. HasKept(g[k - 1], k - 1) /\ k \in Nat /\ k # 0
    BY <1>1, <1>3
  <2> HIDE DEF cd, num
  <2>5. HasKept(Encoded(g[k - 1], cd(k), num(k)), k)
    BY <2>1, <2>2, <2>4, KeptNext
  <2> QED
    BY <1>1, <2>3, <2>5
<1>4. K \in T
  <2> HIDE DEF T
  <2>1. K \in 0..K
    BY <1>1
  <2> QED
    BY <1>1, <1>2, <1>3, <2>1, InductionUpTo
<1> QED
  BY <1>4

(* decode_block.                                                           *)
DecCodec(perm) == {c \in Codec : perm => Permuted(c.mtf)}
DecState(len, n, perm) == [ok : BOOLEAN, rpos : 0..len, block : [1..n -> Entry], codec : DecCodec(perm)]

\* A codec of the decoder and what assigning one of its parts leaves.
LEMMA DecCodecParts ==
  ASSUME NEW perm \in BOOLEAN, NEW c \in DecCodec(perm)
  PROVE  /\ c.mtf \in MtfEncoder /\ (perm => Permuted(c.mtf)) /\ c.time \in Word /\ c.ic \in Word /\ c \in Codec
         /\ \A m \in MtfEncoder : (perm => Permuted(m)) => [c EXCEPT !.mtf = m] \in DecCodec(perm)
         /\ \A m : [c EXCEPT !.mtf = m].time = c.time /\ [c EXCEPT !.mtf = m].ic = c.ic /\ [c EXCEPT !.mtf = m].mtf = m
         /\ \A t \in Word : [c EXCEPT !.time = t] \in DecCodec(perm) /\ [c EXCEPT !.time = t].time = t
         /\ \A t : [c EXCEPT !.time = t].mtf = c.mtf /\ [c EXCEPT !.time = t].ic = c.ic
         /\ \A t \in Word : [c EXCEPT !.ic = t] \in DecCodec(perm) /\ [c EXCEPT !.ic = t].ic = t
         /\ \A t : [c EXCEPT !.ic = t].mtf = c.mtf /\ [c EXCEPT !.ic = t].time = c.time
<1>1. c \in [mtf : MtfEncoder, time : Word, ic : Word] /\ (perm => Permuted(c.mtf))
  BY DEF DecCodec, Codec
<1> QED
  BY <1>1 DEF DecCodec, Codec

ValueAs(x, c, f, d, absolute) ==
  /\ f \in MtfField => x = [v |-> mtf_decode(c.mtf, (d - 1) % N).symbol,
                            codec |-> [c EXCEPT !.mtf = mtf_decode(c.mtf, (d - 1) % N).mtf]]
  /\ f = "time" => \E t : /\ t = IF absolute THEN Wrap(d - 1) ELSE Wrap(d + c.time)
                          /\ x = [v |-> t, codec |-> [c EXCEPT !.time = t]]
  /\ f = "ic" => \E t : /\ t = IF absolute THEN Wrap(d - 1) ELSE Wrap(d + c.ic - 1)
                        /\ x = [v |-> t, codec |-> [c EXCEPT !.ic = t]]

\* The value that an integer stands for, and the codec after it.
LEMMA ValueIs ==
  ASSUME NEW perm \in BOOLEAN, NEW c \in DecCodec(perm), NEW f \in AllFields, NEW d \in Nat, d # 0,
         NEW absolute \in BOOLEAN
  PROVE  LET x == QD!ValueOf(c, f, d, absolute)
         IN  /\ ValueAs(x, c, f, d, absolute)
             /\ x.codec \in DecCodec(perm)
             /\ f \in MtfField => x.v \in Symbol
             /\ f \notin MtfField => x.v \in Word
<1> DEFINE x == QD!ValueOf(c, f, d, absolute)
<1>1. f \in MtfField \/ f = "time" \/ f = "ic"
  BY DEF AllFields, MtfField
<1>2. "time" \notin MtfField /\ "ic" \notin MtfField /\ "time" # "ic"
  BY DEF MtfField
<1>3. (\A w \in Word : w \in Int) /\ c.time \in Word /\ c.ic \in Word /\ c.mtf \in MtfEncoder
  BY WordIs, DecCodecParts
<1>4. CASE f \in MtfField
  <2> DEFINE i == (d - 1) % N
             m == mtf_decode(c.mtf, i)
  <2>1. i \in Symbol
    <3>1. d - 1 \in Nat /\ N \in Nat \ {0}
      BY FormatAssumption
    <3> DEFINE e == d - 1
    <3> HIDE DEF e
    <3>2. e % N \in Nat /\ e % N < N
      BY <3>1, Quotient DEF e
    <3> QED
      BY <3>1, <3>2 DEF Symbol, e
  <2>2. x = [v |-> m.symbol, codec |-> [c EXCEPT !.mtf = m.mtf]]
    <3> DEFINE q == QD!mtf_decode(c.mtf, i)
    <3>1. QD!MtfField = MtfField /\ q = m
      BY SameCodes
    <3>2. x = [v |-> q.symbol, codec |-> [c EXCEPT !.mtf = q.mtf]]
      BY <1>2, <1>4, <3>1 DEF QD!ValueOf
    <3> HIDE DEF q, m, x
    <3> QED
      BY <3>1, <3>2
  <2> HIDE DEF i
  <2>3. m.symbol \in Symbol /\ m.mtf \in MtfEncoder /\ (perm => Permuted(m.mtf))
    BY <1>3, <2>1, DecCodecParts, DecodeTyped, PermutedDecodes
  <2> HIDE DEF x, m
  <2>4. [c EXCEPT !.mtf = m.mtf] \in DecCodec(perm)
    BY <2>3, DecCodecParts
  <2>5. ValueAs(x, c, f, d, absolute)
    BY <1>2, <1>4, <2>2 DEF ValueAs, m, i
  <2> QED
    BY <1>4, <2>2, <2>3, <2>4, <2>5 DEF x
<1>5. CASE f = "time"
  <2> DEFINE t == IF absolute THEN Wrap(d - 1) ELSE Wrap(d + c.time)
  <2>1. x = [v |-> t, codec |-> [c EXCEPT !.time = t]]
    <3>1. QD!MtfField = MtfField /\ QD!Wrap(d - 1) = Wrap(d - 1) /\ QD!Wrap(d + c.time) = Wrap(d + c.time)
      BY SameCodes
    <3>2. t = IF absolute THEN QD!Wrap(d - 1) ELSE QD!Wrap(d + c.time)
      BY <3>1
    <3> HIDE DEF t
    <3> QED
      BY <1>2, <1>5, <3>1, <3>2 DEF QD!ValueOf
  <2>2. t \in Word
    <3>1. d - 1 \in Int /\ d + c.time \in Int
      BY <1>3
    <3> QED
      BY <3>1, WrapIs
  <2>3. \E s : s = t
    OBVIOUS
  <2> HIDE DEF x
  <2>4. ValueAs(x, c, f, d, absolute)
    BY <1>2, <1>5, <2>1 DEF ValueAs
  <2> HIDE DEF t
  <2>5. [c EXCEPT !.time = t] \in DecCodec(perm)
    BY <2>2, DecCodecParts
  <2> QED
    BY <1>2, <1>5, <2>1, <2>2, <2>4, <2>5 DEF x
<1>6. CASE f = "ic"
  <2> DEFINE t == IF absolute THEN Wrap(d - 1) ELSE Wrap(d + c.ic - 1)
  <2>1. x = [v |-> t, codec |-> [c EXCEPT !.ic = t]]
    <3>1. QD!MtfField = MtfField /\ QD!Wrap(d - 1) = Wrap(d - 1) /\ QD!Wrap(d + c.ic - 1) = Wrap(d + c.ic - 1)
      BY SameCodes
    <3>2. t = IF absolute THEN QD!Wrap(d - 1) ELSE QD!Wrap(d + c.ic - 1)
      BY <3>1
    <3> HIDE DEF t
    <3> QED
      BY <1>2, <1>6, <3>1, <3>2 DEF QD!ValueOf
  <2>2. t \in Word
    <3>1. d - 1 \in Int /\ d + c.ic - 1 \in Int
      BY <1>3
    <3> QED
      BY <3>1, WrapIs
  <2> HIDE DEF x
  <2>4. ValueAs(x, c, f, d, absolute)
    BY <1>2, <1>6, <2>1 DEF ValueAs
  <2> HIDE DEF t
  <2>5. [c EXCEPT !.ic = t] \in DecCodec(perm)
    BY <2>2, DecCodecParts
  <2> QED
    BY <1>2, <1>6, <2>1, <2>2, <2>4, <2>5 DEF x
<1> QED
  BY <1>1, <1>4, <1>5, <1>6

\* Writing a field of an entry of the block.
FieldSet(b, e, f, v) == [b EXCEPT ![e][f] = v]

\* One field of one entry is written.
LEMMA FieldWritten ==
  ASSUME NEW n \in Nat, NEW b \in [1..n -> Entry], NEW e \in 1..n, NEW f \in AllFields, NEW v,
         f \in MtfField => v \in Symbol, f \notin MtfField => v \in Word
  PROVE  LET d == FieldSet(b, e, f, v)
         IN  /\ d \in [1..n -> Entry] /\ d[e][f] = v
             /\ \A j \in 1..n, h \in AllFields : (j # e \/ h # f) => d[j][h] = b[j][h]
<1> DEFINE x == [b[e] EXCEPT ![f] = v]
           d == [b EXCEPT ![e] = x]
<1>1. b[e] \in Entry
  OBVIOUS
<1>2. x \in Entry /\ x[f] = v /\ \A h \in AllFields : h # f => x[h] = b[e][h]
  BY <1>1 DEF Entry, AllFields, MtfField
<1>3. FieldSet(b, e, f, v) = d
  BY DEF FieldSet
<1> HIDE DEF x
<1>4. d \in [1..n -> Entry] /\ d[e] = x /\ \A j \in 1..n : j # e => d[j] = b[j]
  BY <1>2
<1> HIDE DEF d
<1>5. \A j \in 1..n, h \in AllFields : (j # e \/ h # f) => d[j][h] = b[j][h]
  BY <1>2, <1>4
<1> QED
  BY <1>2, <1>3, <1>4, <1>5

\* One integer of a line.
Stepped(st2, tab, n, sync, st, k) ==
  LET f == FieldOf(k, n)
      e == EntryOf(k, n)
      d == tab[st.rpos]
      x == QD!ValueOf(st.codec, f, d.n, sync /\ e = 1)
  IN  /\ ~st.ok \/ d.n = 0 => st2 = [st EXCEPT !.ok = FALSE]
      /\ st.ok /\ d.n # 0 => /\ st2.ok = TRUE /\ st2.rpos = d.rpos /\ st2.codec = x.codec
                             /\ st2.block = [st.block EXCEPT ![e][f] = x.v]

\* One turn of the loops of decode_block (quanto_decode.c).
LEMMA DecodeStepIs ==
  ASSUME NEW code, NEW buf, buf.bits \in Seq(Bit), NEW n \in Nat, n # 0, NEW k \in 1..6 * n,
         NEW sync \in BOOLEAN, NEW perm \in BOOLEAN, NEW st \in DecState(Len(buf.bits), n, perm)
  PROVE  LET st2 == QD!DecodeStep(Table(code, buf), n, sync, st, k)
         IN  st2 \in DecState(Len(buf.bits), n, perm) /\ Stepped(st2, Table(code, buf), n, sync, st, k)
<1> DEFINE tab == Table(code, buf)
           f == FieldOf(k, n)
           e == EntryOf(k, n)
           d == tab[st.rpos]
           x == QD!ValueOf(st.codec, f, d.n, sync /\ e = 1)
           st2 == QD!DecodeStep(tab, n, sync, st, k)
           L == Len(buf.bits)
           b == [st.block EXCEPT ![e][f] = x.v]
<1>1. e \in 1..n /\ f \in AllFields
  <2>1. PICK q \in 0..5 : f = Fields[q + 1]
    BY Places
  <2> QED
    BY <2>1, Places, FieldIs
<1>2. /\ st.ok \in BOOLEAN /\ st.rpos \in 0..L /\ st.block \in [1..n -> Entry] /\ st.codec \in DecCodec(perm)
      /\ st \in [ok : BOOLEAN, rpos : 0..L, block : [1..n -> Entry], codec : DecCodec(perm)]
  BY DEF DecState
<1>3. d.n \in Nat /\ d.rpos \in 0..L
  <2>1. d = Decode(code, buf, st.rpos)
    BY <1>2 DEF Table
  <2>2. Decode(code, buf, st.rpos) \in [n : Nat, rpos : 0..Len(buf.bits)]
    BY <1>2, DecodeIsTyped
  <2> QED
    BY <2>1, <2>2
<1>4. QD!FieldOf(k, n) = f /\ QD!EntryOf(k, n) = e
  BY SameCodes
<1> HIDE DEF tab, d, f, e, L
<1>5. st2 = IF ~st.ok \/ d.n = 0 THEN [st EXCEPT !.ok = FALSE]
            ELSE [st EXCEPT !.rpos = d.rpos, !.codec = x.codec, !.block[e][f] = x.v]
  BY <1>4 DEF QD!DecodeStep, d
<1> HIDE DEF st2
<1>6. CASE ~st.ok \/ d.n = 0
  <2>1. st2 = [st EXCEPT !.ok = FALSE]
    BY <1>5, <1>6
  <2>2. st2 \in [ok : BOOLEAN, rpos : 0..L, block : [1..n -> Entry], codec : DecCodec(perm)]
    BY <1>2, <2>1
  <2> QED
    BY <1>6, <2>1, <2>2 DEF DecState, Stepped, st2, tab, d, L
<1>7. CASE ~(~st.ok \/ d.n = 0)
  <2>1. /\ x.codec \in DecCodec(perm)
        /\ f \in MtfField => x.v \in Symbol
        /\ f \notin MtfField => x.v \in Word
    <3>1. (sync /\ e = 1) \in BOOLEAN /\ d.n # 0
      BY <1>7
    <3> QED
      BY <1>1, <1>2, <1>3, <3>1, ValueIs
  <2> DEFINE c == x.codec
             v == x.v
  <2> HIDE DEF x
  <2>2. [st.block EXCEPT ![e][f] = v] \in [1..n -> Entry]
    <3> DEFINE bl == st.block
    <3>1. bl \in [1..n -> Entry]
      BY <1>2
    <3> HIDE DEF bl
    <3>2. FieldSet(bl, e, f, v) \in [1..n -> Entry]
      BY <1>1, <2>1, <3>1, FieldWritten
    <3> QED
      BY <3>2 DEF FieldSet, bl
  <2>3. st2 = [st EXCEPT !.rpos = d.rpos, !.codec = c, !.block[e][f] = v]
    BY <1>5, <1>7
  <2> DEFINE nb == [st.block EXCEPT ![e][f] = v]
  <2>4. st2 = [st EXCEPT !.rpos = d.rpos, !.codec = c, !.block = nb]
    BY <2>3
  <2> HIDE DEF nb
  <2>5. st2 \in [ok : BOOLEAN, rpos : 0..L, block : [1..n -> Entry], codec : DecCodec(perm)]
    BY <1>2, <1>3, <2>1, <2>2, <2>4 DEF nb
  <2>6. st2.ok = TRUE /\ st2.rpos = d.rpos /\ st2.codec = c /\ st2.block = nb
    BY <1>2, <1>7, <2>4
  <2> QED
    BY <1>7, <2>5, <2>6 DEF DecState, Stepped, st2, tab, d, L, x, nb, e, f
<1> QED
  BY <1>6, <1>7

Decoded(h, code, buf, c, p, n, sync, perm) ==
  /\ h \in [0..6 * n -> DecState(Len(buf.bits), n, perm)]
  /\ h[0].ok = TRUE /\ h[0].rpos = p /\ h[0].codec = Started(c, sync)
  /\ \A k \in 1..6 * n : Stepped(h[k], Table(code, buf), n, sync, h[k - 1], k)

DecodesTo(h, code, buf, c, p, n, sync, perm, b) ==
  Decoded(h, code, buf, c, p, n, sync, perm) /\ b = h[6 * n]

\* decode_block runs through states of that kind.
LEMMA Decodes ==
  ASSUME NEW code, NEW buf, buf.bits \in Seq(Bit), NEW p \in 0..Len(buf.bits), NEW n \in Nat,
         NEW sync \in BOOLEAN, NEW perm \in BOOLEAN, NEW c, Started(c, sync) \in DecCodec(perm)
  PROVE  \E h : DecodesTo(h, code, buf, c, p, n, sync, perm, QD!DecodeBlock(Table(code, buf), c, p, n, sync))
<1> DEFINE S == DecState(Len(buf.bits), n, perm)
           M == 6 * n
           tab == Table(code, buf)
           step(st, k) == QD!DecodeStep(tab, n, sync, st, k)
           F == [q \in S \X (1..M) |-> step(q[1], q[2])]
           a == [ok |-> TRUE, rpos |-> p, block |-> [i \in 1..n |-> QD!Unset], codec |-> Started(c, sync)]
<1>1. a \in S
  <2>1. QD!Unset \in Entry
    BY Symbols, WordIs DEF QD!Unset, Entry
  <2> QED
    BY <2>1 DEF DecState
<1>2. \A st \in S, k \in 1..M : step(st, k) \in S /\ Stepped(step(st, k), tab, n, sync, st, k)
  <2> SUFFICES ASSUME NEW st \in S, NEW k \in 1..M
               PROVE  step(st, k) \in S /\ Stepped(step(st, k), tab, n, sync, st, k)
    OBVIOUS
  <2>1. n # 0
    OBVIOUS
  <2> QED
    BY <2>1, DecodeStepIs
<1>3. F \in [S \X (1..M) -> S] /\ \A st \in S, k \in 1..M : F[<<st, k>>] = step(st, k)
  BY <1>2
<1>4. M \in Nat /\ \A k \in 1..M : k \in 0..M /\ k - 1 \in 0..M /\ k # 0
  OBVIOUS
<1> HIDE DEF F, step, S, M
<1>5. PICK h : Recurs(h, M, S, a, F)
  <2> HIDE DEF a
  <2> QED
    BY <1>1, <1>3, <1>4, Recursion
<1>6. h \in [0..M -> S] /\ h[0] = a /\ \A k \in 1..M : h[k] = step(h[k - 1], k)
  BY <1>3, <1>4, <1>5 DEF Recurs
<1> DEFINE after[k \in 0..6 * n] ==
             IF k = 0 THEN [ok |-> TRUE, rpos |-> p, block |-> [i \in 1..n |-> QD!Unset],
                            codec |-> IF sync THEN [c EXCEPT !.mtf = QD!mtf_init(@)] ELSE c]
             ELSE QD!DecodeStep(tab, n, sync, after[k - 1], k)
<1>7. QD!DecodeBlock(tab, c, p, n, sync) = after[M]
  BY DEF QD!DecodeBlock, M
<1>8. a = [ok |-> TRUE, rpos |-> p, block |-> [i \in 1..n |-> QD!Unset],
           codec |-> IF sync THEN [c EXCEPT !.mtf = QD!mtf_init(@)] ELSE c]
  <2>1. QD!mtf_init(c.mtf) = mtf_init(c.mtf)
    BY SameCodes
  <2> QED
    BY <2>1 DEF Started
<1> HIDE DEF a
<1>9. h = [k \in 0..M |-> IF k = 0 THEN a ELSE QD!DecodeStep(tab, n, sync, h[k - 1], k)]
  <2>1. h = [k \in 0..M |-> h[k]]
    BY <1>6
  <2>2. \A k \in 0..M : k = 0 \/ k \in 1..M
    BY <1>4
  <2>3. \A k \in 0..M : h[k] = IF k = 0 THEN a ELSE QD!DecodeStep(tab, n, sync, h[k - 1], k)
    BY <1>4, <1>6, <2>2 DEF step
  <2> QED
    BY <2>1, <2>3
<1> HIDE DEF tab
<1>10. after = [k \in 0..M |-> IF k = 0 THEN a ELSE QD!DecodeStep(tab, n, sync, after[k - 1], k)]
  BY <1>8, <1>9 DEF M
<1> HIDE DEF after
<1> DEFINE T == {k \in 0..M : after[k] = h[k]}
<1>11. 0 \in T
  <2>1. 0 \in 0..M
    BY <1>4
  <2> QED
    BY <1>6, <1>10, <2>1
<1>12. ASSUME NEW k \in 1..M, k - 1 \in T PROVE k \in T
  <2>1. after[k] = QD!DecodeStep(tab, n, sync, after[k - 1], k)
    BY <1>4, <1>10
  <2> QED
    BY <1>4, <1>6, <1>12, <2>1 DEF step
<1> HIDE DEF T
<1>13. M \in T
  <2>1. M \in 0..M
    BY <1>4
  <2> QED
    BY <1>4, <1>11, <1>12, <2>1, InductionUpTo
<1>14. QD!DecodeBlock(tab, c, p, n, sync) = h[M]
  BY <1>7, <1>13 DEF T
<1>15. \A k \in 1..M : Stepped(h[k], tab, n, sync, h[k - 1], k)
  BY <1>2, <1>4, <1>6
<1>16. h[0].ok = TRUE /\ h[0].rpos = p /\ h[0].codec = Started(c, sync)
  BY <1>6 DEF a
<1>17. Decoded(h, code, buf, c, p, n, sync, perm)
  BY <1>6, <1>15, <1>16 DEF Decoded, S, M, tab
<1> QED
  BY <1>14, <1>17 DEF M, tab, DecodesTo

(* The decoder undoes what CompressTask did.                               *)
Matches(c1, c2) == SameList(c1.mtf, c2.mtf) /\ c1.time = c2.time /\ c1.ic = c2.ic

\* Value v of field f is coded with codec c and read with codec d, which are alike enough.
FieldGoes(c, d, f, v, a) ==
  /\ c \in GoodCodec /\ d \in DecCodec(TRUE) /\ SameList(c.mtf, d.mtf)
  /\ f \in AllFields /\ a \in BOOLEAN
  /\ f \in MtfField => v \in Symbol
  /\ f \notin MtfField => v \in Word
  /\ f = "time" => a \/ c.time = d.time
  /\ f = "ic" => a \/ c.ic = d.ic
  /\ IntOf(c, f, v, a).n # 0

\* The value comes out, and the codecs after it are alike.
FieldCame(c, d, f, v, e, x) ==
  /\ x.v = v /\ SameList(e.codec.mtf, x.codec.mtf)
  /\ e.codec.time = x.codec.time \/ (f # "time" /\ e.codec.time = c.time /\ x.codec.time = d.time)
  /\ e.codec.ic = x.codec.ic \/ (f # "ic" /\ e.codec.ic = c.ic /\ x.codec.ic = d.ic)

\* One value: what IntOf codes ValueOf reads, and the codecs stay alike.
LEMMA ValueMatches ==
  ASSUME NEW c, NEW d, NEW f, NEW v, NEW a, FieldGoes(c, d, f, v, a),
         NEW e, NEW x, e = IntOf(c, f, v, a), x = QD!ValueOf(d, f, e.n, a)
  PROVE  FieldCame(c, d, f, v, e, x)
<1>0. /\ c \in GoodCodec /\ d \in DecCodec(TRUE) /\ SameList(c.mtf, d.mtf) /\ f \in AllFields
      /\ (f \in MtfField => v \in Symbol) /\ (f \notin MtfField => v \in Word) /\ a \in BOOLEAN
      /\ (f = "time" => a \/ c.time = d.time) /\ (f = "ic" => a \/ c.ic = d.ic) /\ e.n # 0
  BY DEF FieldGoes
<1>1. f \in MtfField \/ f = "time" \/ f = "ic"
  BY <1>0 DEF AllFields, MtfField
<1>2. "time" \notin MtfField /\ "ic" \notin MtfField /\ "time" # "ic"
  BY DEF MtfField
<1>3. /\ e.n \in Number
      /\ f \in MtfField => e = [n |-> mtf_encode(c.mtf, v).code + 1,
                                codec |-> [c EXCEPT !.mtf = mtf_encode(c.mtf, v).mtf]]
      /\ f = "time" => e = [n |-> IF a THEN Wrap(v + 1) ELSE Wrap(v - c.time),
                            codec |-> [c EXCEPT !.time = v]]
      /\ f = "ic" => e = [n |-> IF a THEN Wrap(v + 1) ELSE Wrap(v - c.ic + 1),
                          codec |-> [c EXCEPT !.ic = v]]
  BY <1>0, IntIs
<1>4. e.n \in Nat /\ e.n # 0
  <2>1. Power[MaxLog + 1] \in Nat
    BY FormatAssumption, PowerIs
  <2> QED
    BY <1>0, <1>3, <2>1 DEF Number
<1>5. ValueAs(x, d, f, e.n, a)
  BY <1>0, <1>4, ValueIs
<1>6. (\A w \in Word : w \in Int) /\ c.time \in Word /\ c.ic \in Word /\ d.time \in Word /\ d.ic \in Word
  <2>1. c.time \in Word /\ c.ic \in Word
    BY <1>0, CodecParts
  <2>2. d.time \in Word /\ d.ic \in Word
    BY <1>0, DecCodecParts
  <2> QED
    BY <2>1, <2>2, WordIs
<1>7. c \in Codec /\ d \in Codec
  <2>1. c \in Codec
    BY <1>0, CodecParts
  <2>2. d \in Codec
    BY <1>0, DecCodecParts
  <2> QED
    BY <2>1, <2>2
<1>8. CASE f \in MtfField
  <2> DEFINE m == mtf_encode(c.mtf, v)
             q == mtf_decode(d.mtf, m.code)
  <2>1. m.code \in Symbol /\ q.symbol = v /\ SameList(m.mtf, q.mtf)
    BY <1>0, <1>8, SameListStays
  <2>2. e.n = m.code + 1 /\ e.codec = [c EXCEPT !.mtf = m.mtf]
    BY <1>3, <1>8
  <2> DEFINE i == m.code
  <2>3. (e.n - 1) % N = i
    <3>1. i \in Symbol
      BY <2>1
    <3>2. e.n = i + 1
      BY <2>2
    <3> HIDE DEF i
    <3> QED
      BY <3>1, <3>2, CodeMinusOne
  <2>4. x = [v |-> mtf_decode(d.mtf, (e.n - 1) % N).symbol,
             codec |-> [d EXCEPT !.mtf = mtf_decode(d.mtf, (e.n - 1) % N).mtf]]
    BY <1>5, <1>8 DEF ValueAs
  <2>5. x = [v |-> q.symbol, codec |-> [d EXCEPT !.mtf = q.mtf]]
    <3> DEFINE j == (e.n - 1) % N
    <3>1. mtf_decode(d.mtf, j) = q
      BY <2>3
    <3> HIDE DEF q
    <3> QED
      BY <2>4, <3>1
  <2> HIDE DEF m, q, i
  <2>6. e.codec.mtf = m.mtf /\ e.codec.time = c.time /\ e.codec.ic = c.ic
    BY <1>7, <2>2 DEF Codec
  <2>7. x.v = v /\ x.codec.mtf = q.mtf /\ x.codec.time = d.time /\ x.codec.ic = d.ic
    BY <1>7, <2>1, <2>5 DEF Codec
  <2> QED
    BY <1>0, <1>2, <1>8, <2>1, <2>6, <2>7 DEF FieldCame
<1>9. CASE f = "time"
  <2>1. v \in Word /\ e.n = (IF a THEN Wrap(v + 1) ELSE Wrap(v - c.time)) /\ e.codec = [c EXCEPT !.time = v]
    BY <1>0, <1>2, <1>3, <1>9
  <2>2. PICK t : t = (IF a THEN Wrap(e.n - 1) ELSE Wrap(e.n + d.time)) /\ x = [v |-> t, codec |-> [d EXCEPT !.time = t]]
    BY <1>5, <1>9 DEF ValueAs
  <2>3. t = v
    <3>1. CASE a
      <4>1. Wrap(Wrap(v + 1) - 1) = v
        BY <1>6, <2>1, WrapsBack
      <4> QED
        BY <2>1, <2>2, <3>1, <4>1
    <3>2. CASE ~a
      <4>1. c.time = d.time
        BY <1>0, <1>9, <3>2
      <4>2. Wrap(Wrap(v - c.time + 0) + c.time - 0) = v /\ Wrap(v - c.time + 0) \in Word
        BY <1>6, <2>1, WrapsBack
      <4>3. v - c.time + 0 = v - c.time
        BY <1>6, <2>1
      <4> DEFINE w == Wrap(v - c.time)
      <4>4. w \in Int /\ Wrap(w + c.time - 0) = v
        BY <1>6, <4>2, <4>3
      <4>5. w + c.time - 0 = w + c.time
        BY <1>6, <4>4
      <4> QED
        BY <2>1, <2>2, <3>2, <4>1, <4>4, <4>5
    <3> QED
      BY <3>1, <3>2
  <2>4. e.codec.mtf = c.mtf /\ e.codec.time = v /\ e.codec.ic = c.ic
    BY <1>7, <2>1 DEF Codec
  <2>5. x.v = v /\ x.codec.mtf = d.mtf /\ x.codec.time = v /\ x.codec.ic = d.ic
    BY <1>7, <2>2, <2>3 DEF Codec
  <2> QED
    BY <1>0, <1>2, <1>9, <2>4, <2>5 DEF FieldCame
<1>10. CASE f = "ic"
  <2>1. v \in Word /\ e.n = (IF a THEN Wrap(v + 1) ELSE Wrap(v - c.ic + 1)) /\ e.codec = [c EXCEPT !.ic = v]
    BY <1>0, <1>2, <1>3, <1>10
  <2>2. PICK t : t = (IF a THEN Wrap(e.n - 1) ELSE Wrap(e.n + d.ic - 1)) /\ x = [v |-> t, codec |-> [d EXCEPT !.ic = t]]
    BY <1>5, <1>10 DEF ValueAs
  <2>3. t = v
    <3>1. CASE a
      <4>1. Wrap(Wrap(v + 1) - 1) = v
        BY <1>6, <2>1, WrapsBack
      <4> QED
        BY <2>1, <2>2, <3>1, <4>1
    <3>2. CASE ~a
      <4>1. c.ic = d.ic
        BY <1>0, <1>10, <3>2
      <4>2. Wrap(Wrap(v - c.ic + 1) + c.ic - 1) = v
        BY <1>6, <2>1, WrapsBack
      <4> QED
        BY <2>1, <2>2, <3>2, <4>1, <4>2
    <3> QED
      BY <3>1, <3>2
  <2>4. e.codec.mtf = c.mtf /\ e.codec.ic = v /\ e.codec.time = c.time
    BY <1>7, <2>1 DEF Codec
  <2>5. x.v = v /\ x.codec.mtf = d.mtf /\ x.codec.ic = v /\ x.codec.time = d.time
    BY <1>7, <2>2, <2>3 DEF Codec
  <2> QED
    BY <1>0, <1>2, <1>10, <2>4, <2>5 DEF FieldCame
<1> QED
  BY <1>1, <1>8, <1>9, <1>10

\* Where the decoder stands after k integers of a block of the node.
Agree(g, h, block, sync, pos, k) ==
  /\ h[k].ok /\ h[k].rpos = pos[k + 1]
  /\ SameList(g[k].codec.mtf, h[k].codec.mtf)
  /\ (sync /\ k <= 2 * CBLOCKSIZE) \/ g[k].codec.time = h[k].codec.time
  /\ (sync /\ k <= 3 * CBLOCKSIZE) \/ g[k].codec.ic = h[k].codec.ic
  /\ \A q \in 0..5, i \in 1..CBLOCKSIZE :
       q * CBLOCKSIZE + i <= k => h[k].block[i][Fields[q + 1]] = block[i][Fields[q + 1]]

\* Both sides at work on one block: the states g of the node, h of the decoder.
Paired(g, h, block, sync, c, d, ps, pos, pad, size) ==
  /\ elias \in {"gamma", "delta"} /\ block \in Block /\ sync \in BOOLEAN /\ c \in GoodCodec
  /\ Compressed(g, block, sync, c)
  /\ Chain(elias, g[K].buf.bits, ps, pos) /\ pad \in Nat
  /\ Decoded(h, elias, Buf(size, g[K].buf.bits \o Zeros(pad)), d, pos[1], CBLOCKSIZE, sync, TRUE)

\* Before the first integer: alike, or both started anew.
LEMMA AgreeFirst ==
  ASSUME NEW g, NEW h, NEW block, NEW sync, NEW c, NEW d, NEW ps, NEW pos, NEW pad, NEW size,
         Paired(g, h, block, sync, c, d, ps, pos, pad, size), d \in Codec, sync \/ Matches(c, d)
  PROVE  Agree(g, h, block, sync, pos, 0)
<1>1. h[0].ok = TRUE /\ h[0].rpos = pos[1] /\ h[0].codec = Started(d, sync)
  BY DEF Paired, Decoded
<1>2. g[0].codec = Started(c, sync)
  BY IntsAre DEF Paired
<1>3. c \in GoodCodec /\ c \in Codec /\ sync \in BOOLEAN /\ c.mtf \in MtfEncoder
  BY CodecParts DEF Paired
<1>4. d.mtf \in MtfEncoder
  BY DEF Codec
<1>5. CBLOCKSIZE \in Nat \ {0}
  BY StreamConstants
<1>6. CASE sync
  <2>1. Started(c, sync) = [c EXCEPT !.mtf = mtf_init(@)] /\ Started(d, sync) = [d EXCEPT !.mtf = mtf_init(@)]
    BY <1>6 DEF Started
  <2>2. Started(c, sync).mtf = mtf_init(c.mtf) /\ Started(d, sync).mtf = mtf_init(d.mtf)
    BY <1>3, <2>1 DEF Codec
  <2>3. SameList(mtf_init(c.mtf), mtf_init(d.mtf))
    BY <1>3, <1>4, InitListed DEF SameList
  <2>4. 0 <= 2 * CBLOCKSIZE /\ 0 <= 3 * CBLOCKSIZE
    BY <1>5
  <2>5. \A q \in 0..5, i \in 1..CBLOCKSIZE : ~(q * CBLOCKSIZE + i <= 0)
    BY <1>5, PlaceIs
  <2>6. SameList(g[0].codec.mtf, h[0].codec.mtf)
    BY <1>1, <1>2, <2>2, <2>3
  <2>7. h[0].ok /\ h[0].rpos = pos[0 + 1]
    BY <1>1
  <2> QED
    BY <1>6, <2>4, <2>5, <2>6, <2>7 DEF Agree
<1>7. CASE ~sync
  <2>1. Started(c, sync) = c /\ Started(d, sync) = d
    BY <1>7 DEF Started
  <2>2. Matches(c, d)
    BY <1>7
  <2>3. \A q \in 0..5, i \in 1..CBLOCKSIZE : ~(q * CBLOCKSIZE + i <= 0)
    BY <1>5, PlaceIs
  <2> QED
    BY <1>1, <1>2, <2>1, <2>2, <2>3 DEF Agree, Matches
<1> QED
  BY <1>3, <1>6, <1>7

\* And after each one more.
LEMMA AgreeNext ==
  ASSUME NEW g, NEW h, NEW block, NEW sync, NEW c, NEW d, NEW ps, NEW pos, NEW pad, NEW size,
         Paired(g, h, block, sync, c, d, ps, pos, pad, size), ps = g[K].ints,
         NEW k \in 1..K, Agree(g, h, block, sync, pos, k - 1)
  PROVE  Agree(g, h, block, sync, pos, k)
<1> DEFINE n == CBLOCKSIZE
           buf == Buf(size, g[K].buf.bits \o Zeros(pad))
           f == FieldOf(k, n)
           e == EntryOf(k, n)
           a == sync /\ e = 1
           v == block[e][f]
           ce == g[k - 1].codec
           cd == h[k - 1].codec
           w == IntOf(ce, f, v, a)
           x == QD!ValueOf(cd, f, w.n, a)
<1>1. /\ elias \in {"gamma", "delta"} /\ block \in Block /\ sync \in BOOLEAN /\ c \in GoodCodec
      /\ Compressed(g, block, sync, c) /\ Chain(elias, g[K].buf.bits, ps, pos) /\ pad \in Nat
      /\ Decoded(h, elias, buf, d, pos[1], n, sync, TRUE)
  BY DEF Paired
<1>2. n \in Nat \ {0} /\ K \in Nat /\ k \in 1..6 * n /\ k \in 0..K /\ k - 1 \in 0..K /\ k \in Nat
  BY StreamConstants DEF K
<1>3. ce \in GoodCodec /\ g[k].codec = w.codec /\ ps[k + 1] = w.n /\ Len(ps) = K + 1
  <2>1. g[k - 1].codec \in GoodCodec
    BY <1>1, <1>2, IntsAre
  <2>2. g[k].codec = StepInt(block, sync, ce, k).codec /\ g[K].ints[k + 1] = StepInt(block, sync, ce, k).n
    BY <1>1, IntsAre
  <2>3. Len(g[K].ints) = K + 1
    BY <1>1, IntsAre
  <2> QED
    BY <2>1, <2>2, <2>3 DEF StepInt
<1>4. f \in AllFields /\ (f \in MtfField => v \in Symbol) /\ (f \notin MtfField => v \in Word)
  BY <1>1, FieldAt
<1>5. e \in 1..n
  BY <1>2, Places
<1>6. PICK q \in 0..5 : f = Fields[q + 1] /\ k = q * n + e
  BY <1>2, Places
<1>7. h[k - 1] \in DecState(Len(buf.bits), n, TRUE) /\ Stepped(h[k], Table(elias, buf), n, sync, h[k - 1], k)
  BY <1>1, <1>2 DEF Decoded, K
<1>8. /\ h[k - 1].ok /\ h[k - 1].rpos = pos[k]
      /\ SameList(ce.mtf, cd.mtf)
      /\ (sync /\ k - 1 <= 2 * n) \/ ce.time = cd.time
      /\ (sync /\ k - 1 <= 3 * n) \/ ce.ic = cd.ic
      /\ \A p \in 0..5, i \in 1..n : p * n + i <= k - 1 => h[k - 1].block[i][Fields[p + 1]] = block[i][Fields[p + 1]]
  <2>1. (k - 1) + 1 = k
    BY <1>2
  <2> QED
    BY <2>1 DEF Agree
<1>9. cd \in DecCodec(TRUE) /\ h[k - 1].block \in [1..n -> Entry]
  BY <1>7 DEF DecState
<1>10. Decode(elias, buf, pos[k]) = [n |-> w.n, rpos |-> pos[k + 1]] /\ pos[k] \in 0..Len(buf.bits)
  <2>1. k + 1 \in 1..Len(ps) /\ k \in 0..Len(ps) /\ (k + 1) - 1 = k
    BY <1>2, <1>3
  <2> HIDE DEF w
  <2>2. /\ \A j \in 1..Len(ps) : Decode(elias, buf, pos[j - 1]) = [n |-> ps[j], rpos |-> pos[j]]
        /\ \A j \in 0..Len(ps) : pos[j] \in 0..Len(buf.bits)
    <3>1. Chain(elias, g[K].buf.bits, ps, pos) /\ pad \in Nat
      BY <1>1
    <3>2. buf = Buf(size, g[K].buf.bits \o Zeros(pad))
      OBVIOUS
    <3> HIDE DEF buf
    <3> QED
      BY <3>1, <3>2, ChainReads
  <2> HIDE DEF buf
  <2>3. pos[k] \in 0..Len(buf.bits)
    BY <2>1, <2>2
  <2>4. Decode(elias, buf, pos[(k + 1) - 1]) = [n |-> ps[k + 1], rpos |-> pos[k + 1]]
    BY <2>1, <2>2
  <2>5. Decode(elias, buf, pos[k]) = [n |-> ps[k + 1], rpos |-> pos[k + 1]]
    BY <2>1, <2>4
  <2> QED
    BY <1>3, <2>3, <2>5
<1>11. w.n # 0
  <2>1. ps \in Seq(Coded) /\ 0 \notin Coded /\ k + 1 \in 1..Len(ps)
    BY <1>1, <1>2, <1>3 DEF Chain, Coded
  <2> QED
    BY <1>3, <2>1
<1>12. Table(elias, buf)[h[k - 1].rpos] = [n |-> w.n, rpos |-> pos[k + 1]]
  <2> HIDE DEF buf, w
  <2> QED
    BY <1>8, <1>10 DEF Table
<1>13. h[k].ok = TRUE /\ h[k].rpos = pos[k + 1] /\ h[k].codec = x.codec
       /\ h[k].block = [h[k - 1].block EXCEPT ![e][f] = x.v]
  <2> DEFINE r == Table(elias, buf)[h[k - 1].rpos]
             y == QD!ValueOf(cd, f, r.n, a)
  <2>1. r.n = w.n /\ r.rpos = pos[k + 1]
    BY <1>12
  <2>2. h[k].ok = TRUE /\ h[k].rpos = r.rpos /\ h[k].codec = y.codec /\ h[k].block = [h[k - 1].block EXCEPT ![e][f] = y.v]
    <3>1. h[k - 1].ok /\ r.n # 0
      BY <1>8, <1>11, <2>1
    <3> HIDE DEF buf
    <3> QED
      BY <1>7, <3>1 DEF Stepped
  <2> HIDE DEF r, w
  <2>3. y = x
    BY <2>1
  <2> QED
    BY <2>1, <2>2, <2>3
<1>14. k = 2 * n + 1 => f = "time" /\ e = 1
  <2>1. 2 \in 0..5 /\ 1 \in 1..n
    BY <1>2
  <2>2. FieldOf(2 * n + 1, n) = Fields[2 + 1] /\ EntryOf(2 * n + 1, n) = 1
    BY <1>2, <2>1, PlaceIs
  <2> QED
    BY <2>2, FieldIs
<1>15. k = 3 * n + 1 => f = "ic" /\ e = 1
  <2>1. 3 \in 0..5 /\ 1 \in 1..n
    BY <1>2
  <2>2. FieldOf(3 * n + 1, n) = Fields[3 + 1] /\ EntryOf(3 * n + 1, n) = 1
    BY <1>2, <2>1, PlaceIs
  <2> QED
    BY <2>2, FieldIs
<1>16. f = "time" => a \/ ce.time = cd.time
  <2> SUFFICES ASSUME f = "time", ~a PROVE ce.time = cd.time
    OBVIOUS
  <2>1. q = 2
    BY <1>6, FieldIs
  <2>2. k = 2 * n + e
    BY <1>6, <2>1
  <2>3. CASE sync
    <3>1. e # 1
      BY <2>3
    <3> HIDE DEF e
    <3>2. ~(k - 1 <= 2 * n)
      BY <1>2, <1>5, <2>2, <3>1
    <3> QED
      BY <1>8, <3>2
  <2>4. CASE ~sync
    BY <1>8, <2>4
  <2> QED
    BY <2>3, <2>4
<1>17. f = "ic" => a \/ ce.ic = cd.ic
  <2> SUFFICES ASSUME f = "ic", ~a PROVE ce.ic = cd.ic
    OBVIOUS
  <2>1. q = 3
    BY <1>6, FieldIs
  <2>2. k = 3 * n + e
    BY <1>6, <2>1
  <2>3. CASE sync
    <3>1. e # 1
      BY <2>3
    <3> HIDE DEF e
    <3>2. ~(k - 1 <= 3 * n)
      BY <1>2, <1>5, <2>2, <3>1
    <3> QED
      BY <1>8, <3>2
  <2>4. CASE ~sync
    BY <1>8, <2>4
  <2> QED
    BY <2>3, <2>4
<1>18. a \in BOOLEAN
  BY <1>1
<1> HIDE DEF buf, f, e, a, v, ce, cd
<1>19. /\ x.v = v /\ SameList(w.codec.mtf, x.codec.mtf)
       /\ w.codec.time = x.codec.time \/ (f # "time" /\ w.codec.time = ce.time /\ x.codec.time = cd.time)
       /\ w.codec.ic = x.codec.ic \/ (f # "ic" /\ w.codec.ic = ce.ic /\ x.codec.ic = cd.ic)
  <2>1. FieldGoes(ce, cd, f, v, a)
    BY <1>3, <1>4, <1>8, <1>9, <1>11, <1>16, <1>17, <1>18 DEF FieldGoes
  <2> HIDE DEF w, x
  <2>2. w = IntOf(ce, f, v, a) /\ x = QD!ValueOf(cd, f, w.n, a)
    BY DEF w, x
  <2>3. FieldCame(ce, cd, f, v, w, x)
    BY <2>1, <2>2, ValueMatches
  <2> QED
    BY <2>3 DEF FieldCame
<1> HIDE DEF w, x
<1>20. (sync /\ k <= 2 * n) \/ w.codec.time = x.codec.time
  <2> SUFFICES ASSUME ~(sync /\ k <= 2 * n), w.codec.time # x.codec.time PROVE FALSE
    OBVIOUS
  <2>1. f # "time" /\ ce.time # cd.time
    BY <1>19
  <2>2. sync /\ k - 1 <= 2 * n
    BY <1>8, <2>1
  <2>3. k = 2 * n + 1
    BY <1>2, <2>2
  <2> QED
    BY <1>14, <2>1, <2>3
<1>21. (sync /\ k <= 3 * n) \/ w.codec.ic = x.codec.ic
  <2> SUFFICES ASSUME ~(sync /\ k <= 3 * n), w.codec.ic # x.codec.ic PROVE FALSE
    OBVIOUS
  <2>1. f # "ic" /\ ce.ic # cd.ic
    BY <1>19
  <2>2. sync /\ k - 1 <= 3 * n
    BY <1>8, <2>1
  <2>3. k = 3 * n + 1
    BY <1>2, <2>2
  <2> QED
    BY <1>15, <2>1, <2>3
<1>22. ASSUME NEW p \in 0..5, NEW i \in 1..n, p * n + i <= k
       PROVE  h[k].block[i][Fields[p + 1]] = block[i][Fields[p + 1]]
  <2> DEFINE b == h[k - 1].block
             j == Fields[p + 1]
  <2>1. j \in AllFields
    BY FieldIs
  <2>2. x.v = v
    BY <1>19
  <2>3. LET b2 == FieldSet(b, e, f, v)
        IN  /\ b2[e][f] = v
            /\ \A i2 \in 1..n, h2 \in AllFields : (i2 # e \/ h2 # f) => b2[i2][h2] = b[i2][h2]
    <3>1. b \in [1..n -> Entry] /\ n \in Nat
      BY <1>2, <1>9
    <3> HIDE DEF b, n
    <3> QED
      BY <1>4, <1>5, <3>1, FieldWritten
  <2>4. h[k].block = FieldSet(b, e, f, v)
    BY <1>13, <2>2 DEF FieldSet
  <2>5. /\ h[k].block[e][f] = v
        /\ \A i2 \in 1..n, h2 \in AllFields : (i2 # e \/ h2 # f) => h[k].block[i2][h2] = b[i2][h2]
    BY <2>3, <2>4
  <2>6. CASE i = e /\ j = f
    BY <2>5, <2>6 DEF v
  <2>7. CASE ~(i = e /\ j = f)
    <3>1. h[k].block[i][j] = b[i][j]
      BY <2>1, <2>5, <2>7
    <3>2. p * n + i # k
      <4>1. FieldOf(p * n + i, n) = Fields[p + 1] /\ EntryOf(p * n + i, n) = i
        BY <1>2, PlaceIs
      <4> QED
        BY <2>7, <4>1 DEF e, f
    <3>3. p * n \in Nat
      BY <1>2
    <3> DEFINE y == p * n + i
    <3>4. y \in Nat /\ y <= k /\ y # k
      BY <1>22, <3>2, <3>3
    <3> HIDE DEF y
    <3>5. y <= k - 1
      BY <1>2, <3>4
    <3>6. b[i][j] = block[i][j]
      BY <1>8, <3>5 DEF y
    <3> QED
      BY <3>1, <3>6
  <2> QED
    BY <2>6, <2>7
<1>23. SameList(g[k].codec.mtf, h[k].codec.mtf)
  BY <1>3, <1>13, <1>19
<1> QED
  BY <1>3, <1>13, <1>20, <1>21, <1>22, <1>23 DEF Agree

\* A whole block comes out as it went in.
LEMMA WholeDecodes ==
  ASSUME NEW g, NEW h, NEW block, NEW sync, NEW c, NEW d, NEW ps, NEW pos, NEW pad, NEW size,
         Paired(g, h, block, sync, c, d, ps, pos, pad, size), ps = g[K].ints,
         d \in Codec, sync \/ Matches(c, d)
  PROVE  h[K].ok = TRUE /\ h[K].block = block /\ Matches(g[K].codec, h[K].codec)
<1> DEFINE T == {k \in 0..K : Agree(g, h, block, sync, pos, k)}
<1>1. K \in Nat \ {0} /\ CBLOCKSIZE \in Nat \ {0} /\ K = 6 * CBLOCKSIZE
  BY StreamConstants DEF K
<1>2. 0 \in T
  <2>1. 0 \in 0..K
    BY <1>1
  <2> QED
    BY <2>1, AgreeFirst
<1>3. ASSUME NEW k \in 1..K, k - 1 \in T PROVE k \in T
  <2>1. k \in 0..K
    BY <1>1
  <2>2. Agree(g, h, block, sync, pos, k - 1)
    BY <1>3
  <2>3. Agree(g, h, block, sync, pos, k)
    BY <2>2, AgreeNext
  <2> QED
    BY <2>1, <2>3
<1>4. Agree(g, h, block, sync, pos, K)
  <2> HIDE DEF T
  <2>1. K \in 0..K
    BY <1>1
  <2>2. K \in T
    BY <1>1, <1>2, <1>3, <2>1, InductionUpTo
  <2> QED
    BY <2>2 DEF T
<1>5. ~(K <= 2 * CBLOCKSIZE) /\ ~(K <= 3 * CBLOCKSIZE)
  BY <1>1
<1>6. h[K].ok /\ Matches(g[K].codec, h[K].codec)
  BY <1>4, <1>5 DEF Agree, Matches
<1>7. \E len : h[K] \in DecState(len, CBLOCKSIZE, TRUE)
  <2>1. K \in 0..6 * CBLOCKSIZE
    BY <1>1
  <2> QED
    BY <2>1 DEF Paired, Decoded
<1>8. h[K].ok \in BOOLEAN /\ h[K].block \in [1..CBLOCKSIZE -> Entry] /\ block \in [1..CBLOCKSIZE -> Entry]
  BY <1>7 DEF DecState, Paired, Block
<1>9. ASSUME NEW i \in 1..CBLOCKSIZE PROVE h[K].block[i] = block[i]
  <2>1. \A q \in 0..5 : h[K].block[i][Fields[q + 1]] = block[i][Fields[q + 1]]
    <3> SUFFICES ASSUME NEW q \in 0..5 PROVE h[K].block[i][Fields[q + 1]] = block[i][Fields[q + 1]]
      OBVIOUS
    <3>1. q * CBLOCKSIZE + i \in 1..6 * CBLOCKSIZE
      BY <1>1, PlaceIs
    <3> DEFINE y == q * CBLOCKSIZE + i
    <3>2. y <= K
      BY <1>1, <3>1
    <3> QED
      BY <1>4, <3>2 DEF Agree
  <2>2. h[K].block[i] \in Entry /\ block[i] \in Entry
    BY <1>8
  <2> QED
    BY <2>1, <2>2, EntriesEqual
<1>10. h[K].block = block
  <2> DEFINE b == h[K].block
  <2>1. b \in [1..CBLOCKSIZE -> Entry] /\ \A i \in 1..CBLOCKSIZE : b[i] = block[i]
    BY <1>8, <1>9
  <2> HIDE DEF b
  <2>2. b = [i \in 1..CBLOCKSIZE |-> b[i]] /\ block = [i \in 1..CBLOCKSIZE |-> block[i]]
    BY <1>8, <2>1
  <2>3. [i \in 1..CBLOCKSIZE |-> b[i]] = [i \in 1..CBLOCKSIZE |-> block[i]]
    BY <2>1
  <2> QED
    BY <2>2, <2>3 DEF b
<1> QED
  BY <1>6, <1>8, <1>10

\* A block that lost a code is not decoded with its own size.
Cut(h, code, w, ps, pos, pad, size, buf, d, sync, perm) ==
  /\ Chain(code, w, ps, pos) /\ Len(ps) >= 1 /\ Len(ps) <= K
  /\ pad \in Nat /\ buf = Buf(size, w \o Zeros(pad))
  /\ Decoded(h, code, buf, d, pos[1], CBLOCKSIZE, sync, perm)
\* A line that lacks an integer is no block: the decoder meets the end of the bits.
LEMMA CutFails ==
  ASSUME NEW h, NEW code, NEW w, NEW ps, NEW pos, NEW pad, NEW size, NEW buf, NEW d, NEW sync, NEW perm,
         Cut(h, code, w, ps, pos, pad, size, buf, d, sync, perm)
  PROVE  h[K].ok = FALSE
<1>0. /\ Chain(code, w, ps, pos) /\ Len(ps) >= 1 /\ Len(ps) <= K
      /\ pad \in Nat /\ buf = Buf(size, w \o Zeros(pad))
      /\ Decoded(h, code, buf, d, pos[1], CBLOCKSIZE, sync, perm)
  BY DEF Cut
<1> DEFINE m == Len(ps)
           T == {k \in 0..K : IF k < m THEN h[k].ok => h[k].rpos = pos[k + 1] ELSE ~h[k].ok}
<1>1. K \in Nat \ {0} /\ K = 6 * CBLOCKSIZE /\ \A k \in 1..K : k \in 0..K /\ k - 1 \in 0..K /\ k \in Nat
  BY StreamConstants DEF K
<1>2. m \in Nat /\ m >= 1 /\ m <= K
  BY <1>0, ChainEnds
<1>3. /\ h[0].rpos = pos[1]
      /\ \A k \in 0..K : h[k] \in DecState(Len(buf.bits), CBLOCKSIZE, perm)
      /\ \A k \in 1..K : Stepped(h[k], Table(code, buf), CBLOCKSIZE, sync, h[k - 1], k)
  BY <1>0, <1>1 DEF Decoded
<1>4. /\ \A j \in 1..m : Decode(code, buf, pos[j - 1]) = [n |-> ps[j], rpos |-> pos[j]]
      /\ Decode(code, buf, pos[m]) = Ends(buf)
      /\ \A j \in 0..m : pos[j] \in 0..Len(buf.bits)
  BY <1>0, ChainReads
<1>5. Ends(buf).n = 0
  BY DEF Ends
<1> HIDE DEF m
<1>6. 0 \in T
  BY <1>1, <1>2, <1>3
<1>7. ASSUME NEW k \in 1..K, k - 1 \in T PROVE k \in T
  <2> DEFINE st == h[k - 1]
             r == Table(code, buf)[st.rpos]
  <2>1. st.ok \in BOOLEAN /\ st \in DecState(Len(buf.bits), CBLOCKSIZE, perm)
    BY <1>1, <1>3 DEF DecState
  <2>2. /\ ~st.ok \/ r.n = 0 => h[k] = [st EXCEPT !.ok = FALSE]
        /\ st.ok /\ r.n # 0 => h[k].rpos = r.rpos
    BY <1>3 DEF Stepped
  <2>3. ~st.ok \/ r.n = 0 => ~h[k].ok
    BY <2>1, <2>2 DEF DecState
  <2>4. IF k - 1 < m THEN st.ok => st.rpos = pos[(k - 1) + 1] ELSE ~st.ok
    BY <1>7
  <2>5. (k - 1) + 1 = k /\ k \in Nat /\ k \in 0..K
    BY <1>1
  <2> HIDE DEF T, st
  <2>6. CASE k < m
    <3>1. k - 1 < m
      BY <1>2, <2>5, <2>6
    <3>2. k + 1 \in 1..m /\ (k + 1) - 1 = k /\ k \in 0..m
      BY <1>2, <2>5, <2>6
    <3>3. Decode(code, buf, pos[k]).rpos = pos[k + 1] /\ pos[k] \in 0..Len(buf.bits)
      <4>1. Decode(code, buf, pos[(k + 1) - 1]) = [n |-> ps[k + 1], rpos |-> pos[k + 1]]
        BY <1>4, <3>2
      <4>2. pos[(k + 1) - 1] = pos[k]
        BY <3>2
      <4>3. Decode(code, buf, pos[k]) = [n |-> ps[k + 1], rpos |-> pos[k + 1]]
        BY <4>1, <4>2
      <4> QED
        BY <1>4, <3>2, <4>3
    <3>4. st.ok => r = Decode(code, buf, pos[k])
      BY <2>4, <2>5, <3>1, <3>3 DEF Table
    <3> HIDE DEF r
    <3>5. h[k].ok => h[k].rpos = pos[k + 1]
      <4>1. CASE ~st.ok \/ r.n = 0
        BY <2>3, <4>1
      <4>2. CASE ~(~st.ok \/ r.n = 0)
        BY <2>2, <3>3, <3>4, <4>2
      <4> QED
        BY <4>1, <4>2
    <3> QED
      BY <2>5, <2>6, <3>5 DEF T
  <2>7. CASE k = m
    <3>1. k - 1 < m
      BY <1>2, <2>5, <2>7
    <3>2. pos[k] \in 0..Len(buf.bits) /\ Decode(code, buf, pos[k]).n = 0
      <4>1. m \in 0..m
        BY <1>2
      <4> QED
        BY <1>4, <1>5, <2>7, <4>1
    <3>3. st.ok => r = Decode(code, buf, pos[k])
      BY <2>4, <2>5, <3>1, <3>2 DEF Table
    <3> HIDE DEF r
    <3>4. ~h[k].ok
      BY <2>3, <3>2, <3>3
    <3>5. ~(k < m)
      BY <1>2, <2>7
    <3> QED
      BY <2>5, <3>4, <3>5 DEF T
  <2>8. CASE k > m
    <3>1. ~(k - 1 < m) /\ ~(k < m)
      BY <1>2, <2>5, <2>8
    <3>2. ~h[k].ok
      BY <2>3, <2>4, <3>1
    <3> QED
      BY <2>5, <3>1, <3>2 DEF T
  <2> QED
    BY <1>2, <2>5, <2>6, <2>7, <2>8
<1> HIDE DEF T
<1>8. K \in T
  <2>1. K \in 0..K
    BY <1>1
  <2> QED
    BY <1>1, <1>6, <1>7, <2>1, InductionUpTo
<1>9. ~(K < m)
  BY <1>1, <1>2
<1>10. h[K].ok \in BOOLEAN
  <2>1. K \in 0..K
    BY <1>1
  <2> QED
    BY <1>3, <2>1 DEF DecState
<1> QED
  BY <1>8, <1>9, <1>10 DEF T

\* What decode_block makes (b) of a block for a decoder with codec d.
Comes(b, whole, sync, block, c0, c1, d) ==
  /\ whole /\ (sync \/ Matches(c0, d)) => b.ok = TRUE /\ b.block = block /\ Matches(c1, b.codec)
  /\ ~whole => b.ok = FALSE

\* The line of a block: c0 is the codec of the node before the block, c1 the codec after it.
LineHolds(code, line, c0, c1, x) ==
  LET buf == Buf(BITBUFSIZE, x)
  IN  /\ x \in Seq(Bit) /\ BufferOf(BITBUFSIZE, line.bytes) = buf
      /\ Decode(code, buf, 0).n = IF line.sync THEN 2 ELSE 1
      /\ line.whole => CountOf(code, buf) = K + 1
      /\ ~line.whole => CountOf(code, buf) <= K
      /\ \A d \in Codec :
           Comes(BlockRead(code, buf, d, CBLOCKSIZE), line.whole, line.sync, line.block, c0, c1, d)
Decodable(code, line, c0, c1) == \E x : LineHolds(code, line, c0, c1, x)

\* At a sync line the list starts anew, whatever it was.
LEMMA StartedTyped ==
  ASSUME NEW d \in Codec, NEW sync \in BOOLEAN
  PROVE  /\ Started(d, sync) \in DecCodec(FALSE)
         /\ sync \/ Permuted(d.mtf) => Started(d, sync) \in DecCodec(TRUE)
<1>1. d \in [mtf : MtfEncoder, time : Word, ic : Word] /\ d.mtf \in MtfEncoder
  BY DEF Codec
<1>2. Permuted(mtf_init(d.mtf)) /\ mtf_init(d.mtf) \in MtfEncoder
  <2>1. Permuted(mtf_init(d.mtf))
    BY <1>1, InitListed DEF Permuted
  <2> QED
    BY <2>1, PermutedTyped
<1> DEFINE m == mtf_init(d.mtf)
           e == [d EXCEPT !.mtf = m]
<1>3. sync => Started(d, sync) = e
  BY DEF Started
<1>4. ~sync => Started(d, sync) = d
  BY DEF Started
<1> HIDE DEF m
<1>5. e \in Codec /\ e.mtf = m
  BY <1>1, <1>2 DEF Codec, m
<1> HIDE DEF e
<1>6. CASE sync
  BY <1>2, <1>3, <1>5, <1>6 DEF DecCodec, m
<1>7. CASE ~sync
  BY <1>4, <1>7 DEF DecCodec
<1> QED
  BY <1>6, <1>7

\* What the decoder gets of a block, from the states g of CompressTask.
LEMMA LineDecodes ==
  ASSUME elias \in {"gamma", "delta"}, NEW block \in Block, NEW sync \in BOOLEAN, NEW c \in GoodCodec,
         NEW g, Compressed(g, block, sync, c), NEW ps, NEW pos, Kept(g[K], K, ps, pos),
         NEW pad \in Nat, NEW size, NEW buf, buf = Buf(size, g[K].buf.bits \o Zeros(pad)), NEW d \in Codec
  PROVE  Comes(QD!DecodeBlock(Table(elias, buf), d, pos[1], CBLOCKSIZE, sync),
               g[K].whole, sync, block, c, g[K].codec, d)
<1> DEFINE w == g[K].buf.bits
           b == QD!DecodeBlock(Table(elias, buf), d, pos[1], CBLOCKSIZE, sync)
<1>1. /\ Chain(elias, w, ps, pos) /\ Len(ps) >= 1
      /\ IF g[K].whole THEN ps = g[K].ints ELSE Len(ps) <= K
  BY DEF Kept
<1>2. buf.bits \in Seq(Bit) /\ pos[1] \in 0..Len(buf.bits)
  <2>1. Len(ps) \in Nat
    BY <1>1 DEF Chain
  <2>2. 1 \in 0..Len(ps)
    BY <1>1, <2>1
  <2>3. buf.bits \in Seq(Bit) /\ \A j \in 0..Len(ps) : pos[j] \in 0..Len(buf.bits)
    <3> HIDE DEF w
    <3>1. buf = Buf(size, w \o Zeros(pad))
      BY DEF w
    <3> QED
      BY <1>1, <3>1, ChainReads
  <2> QED
    BY <2>2, <2>3
<1>3. CBLOCKSIZE \in Nat /\ 6 * CBLOCKSIZE = K
  BY StreamConstants DEF K
<1>4. ASSUME g[K].whole, sync \/ Matches(c, d)
      PROVE  b.ok = TRUE /\ b.block = block /\ Matches(g[K].codec, b.codec)
  <2>1. Started(d, sync) \in DecCodec(TRUE)
    <3>1. sync \/ Permuted(d.mtf)
      BY <1>4, SamePermuted DEF Matches
    <3> QED
      BY <3>1, StartedTyped
  <2>2. \E h : /\ Decoded(h, elias, buf, d, pos[1], CBLOCKSIZE, sync, TRUE)
               /\ b = h[6 * CBLOCKSIZE]
    <3>1. TRUE \in BOOLEAN /\ pos[1] \in 0..Len(buf.bits)
      BY <1>2
    <3> DEFINE perm == TRUE
    <3>2. perm \in BOOLEAN /\ Started(d, sync) \in DecCodec(perm)
      BY <2>1
    <3> HIDE DEF perm, b
    <3>3. \E h : DecodesTo(h, elias, buf, d, pos[1], CBLOCKSIZE, sync, perm, b)
      BY <1>2, <1>3, <3>1, <3>2, Decodes DEF b
    <3> QED
      BY <3>3 DEF DecodesTo, perm
  <2>3. PICK h : Decoded(h, elias, buf, d, pos[1], CBLOCKSIZE, sync, TRUE) /\ b = h[K]
    BY <1>3, <2>2
  <2> HIDE DEF b
  <2>4. Paired(g, h, block, sync, c, d, ps, pos, pad, size)
    BY <1>1, <2>3 DEF Paired
  <2>5. ps = g[K].ints
    BY <1>1, <1>4
  <2>6. h[K].ok = TRUE /\ h[K].block = block /\ Matches(g[K].codec, h[K].codec)
    BY <1>4, <2>4, <2>5, WholeDecodes
  <2> QED
    BY <2>3, <2>6
<1>5. ASSUME ~g[K].whole PROVE b.ok = FALSE
  <2>1. Started(d, sync) \in DecCodec(FALSE) /\ FALSE \in BOOLEAN
    BY StartedTyped
  <2>2. \E h : /\ Decoded(h, elias, buf, d, pos[1], CBLOCKSIZE, sync, FALSE)
               /\ b = h[6 * CBLOCKSIZE]
    <3>1. FALSE \in BOOLEAN /\ pos[1] \in 0..Len(buf.bits)
      BY <1>2
    <3> DEFINE perm == FALSE
    <3>2. perm \in BOOLEAN /\ Started(d, sync) \in DecCodec(perm)
      BY <2>1
    <3> HIDE DEF perm, b
    <3>3. \E h : DecodesTo(h, elias, buf, d, pos[1], CBLOCKSIZE, sync, perm, b)
      BY <1>2, <1>3, <3>1, <3>2, Decodes DEF b
    <3> QED
      BY <3>3 DEF DecodesTo, perm
  <2>3. PICK h : Decoded(h, elias, buf, d, pos[1], CBLOCKSIZE, sync, FALSE) /\ b = h[K]
    BY <1>3, <2>2
  <2> HIDE DEF b
  <2>4. buf = Buf(size, w \o Zeros(pad))
    OBVIOUS
  <2>5. Len(ps) <= K
    BY <1>1, <1>5
  <2> HIDE DEF w
  <2>6. h[K].ok = FALSE
    <3> DEFINE perm == FALSE
    <3>1. Decoded(h, elias, buf, d, pos[1], CBLOCKSIZE, sync, perm)
      BY <2>3
    <3> HIDE DEF perm
    <3>2. Cut(h, elias, w, ps, pos, pad, size, buf, d, sync, perm)
      BY <1>1, <2>4, <2>5, <3>1 DEF Cut
    <3> QED
      BY <3>2, CutFails
  <2> QED
    BY <2>3, <2>6
<1> HIDE DEF b
<1> QED
  BY <1>4, <1>5 DEF Comes, b

\* The line that CompressTask sends is one that can be decoded.
LEMMA LineIs ==
  ASSUME elias \in {"gamma", "delta"}, enc \in GoodCodec, NEW block \in Block, NEW sync \in BOOLEAN,
         NEW c, c = CompressBlock(block, sync), 0 \notin ToSet(c.ints),
         NEW line, line.bytes = Bytes(c.buf), line.sync = sync, line.block = block, line.whole = c.whole
  PROVE  Decodable(elias, line, enc, c.codec)
<1>1. PICK g : Compressed(g, block, sync, enc) /\ c = g[K]
  BY Compresses
<1>2. K \in Nat \ {0} /\ K \in 0..K /\ BITBUFSIZE \in Nat
  BY StreamConstants
<1>3. g[K] \in EncState
  BY <1>1, <1>2, IntsAre
<1> DEFINE w == g[K].buf.bits
<1>4. w \in Seq(Bit) /\ Len(w) <= ByteBits * BITBUFSIZE /\ g[K].buf = Buf(BITBUFSIZE, w) /\ g[K].ints \in Seq(Number)
      /\ g[K].whole \in BOOLEAN
  BY <1>3, EncStateParts DEF Written
<1>5. \A i \in 1..Len(g[K].ints) : g[K].ints[i] # 0
  BY <1>1, <1>4 DEF ToSet
<1>6. PICK ps, pos : Kept(g[K], K, ps, pos)
  <2>1. HasKept(g[K], K)
    BY <1>1, <1>5, KeptAll
  <2> QED
    BY <2>1 DEF HasKept
<1>7. /\ Chain(elias, w, ps, pos) /\ Len(ps) >= 1 /\ ps[1] = g[K].ints[1] /\ Len(g[K].ints) = K + 1
      /\ IF g[K].whole THEN ps = g[K].ints ELSE Len(ps) <= K
  BY <1>6 DEF Kept
<1>8. g[K].ints[1] = IF sync THEN 2 ELSE 1
  BY <1>1, IntsAre
<1>9. line.bytes = Bytes(Buf(BITBUFSIZE, w))
  BY <1>1, <1>4
<1>10. PICK pad \in 0..7 : BufferOf(BITBUFSIZE, Bytes(Buf(BITBUFSIZE, w))) = Buf(BITBUFSIZE, w \o Zeros(pad))
  <2> HIDE DEF w
  <2> QED
    BY <1>2, <1>4, BytesFill
<1>11. pad \in Nat
  OBVIOUS
<1> DEFINE x == w \o Zeros(pad)
           buf == Buf(BITBUFSIZE, x)
<1>12. /\ buf.bits \in Seq(Bit)
       /\ \A j \in 1..Len(ps) : Decode(elias, buf, pos[j - 1]) = [n |-> ps[j], rpos |-> pos[j]]
  <2> HIDE DEF w
  <2>1. buf = Buf(BITBUFSIZE, w \o Zeros(pad))
    OBVIOUS
  <2> HIDE DEF buf
  <2>2. Chain(elias, w, ps, pos)
    BY <1>7
  <2>3. buf.bits \in Seq(Bit)
    BY <1>11, <2>1, <2>2, ChainReads
  <2>4. \A j \in 1..Len(ps) : Decode(elias, buf, pos[j - 1]) = [n |-> ps[j], rpos |-> pos[j]]
    BY <1>11, <2>1, <2>2, ChainReads
  <2> QED
    BY <2>3, <2>4
<1>13. Decode(elias, buf, 0) = [n |-> IF sync THEN 2 ELSE 1, rpos |-> pos[1]]
  <2>1. Len(ps) \in Nat /\ pos[0] = 0
    BY <1>7 DEF Chain
  <2>2. 1 \in 1..Len(ps) /\ 1 - 1 = 0
    BY <1>7, <2>1
  <2> HIDE DEF buf
  <2>3. Decode(elias, buf, pos[1 - 1]) = [n |-> ps[1], rpos |-> pos[1]]
    BY <1>12, <2>2
  <2> QED
    BY <1>7, <1>8, <2>1, <2>2, <2>3
<1>14. CountOf(elias, buf) = Len(ps)
  <2> HIDE DEF w
  <2> QED
    BY <1>7, <1>11, CountIs
<1>15. x \in Seq(Bit)
  BY <1>12 DEF Buf
<1>16. \A d \in Codec : BlockRead(elias, buf, d, CBLOCKSIZE) = QD!DecodeBlock(Table(elias, buf), d, pos[1], CBLOCKSIZE, sync)
  <2> HIDE DEF buf
  <2>1. Decode(elias, buf, 0).rpos = pos[1] /\ (Decode(elias, buf, 0).n = 2) = sync
    BY <1>13
  <2> QED
    BY <2>1 DEF BlockRead
<1>17. ASSUME NEW d \in Codec
       PROVE  Comes(QD!DecodeBlock(Table(elias, buf), d, pos[1], CBLOCKSIZE, sync),
                    g[K].whole, sync, block, enc, g[K].codec, d)
  <2>1. buf = Buf(BITBUFSIZE, g[K].buf.bits \o Zeros(pad))
    OBVIOUS
  <2> HIDE DEF buf
  <2> QED
    BY <1>1, <1>6, <1>11, <2>1, LineDecodes
<1>18. ASSUME NEW d \in Codec
       PROVE  Comes(BlockRead(elias, buf, d, CBLOCKSIZE), line.whole, line.sync, line.block, enc, c.codec, d)
  <2> HIDE DEF buf
  <2> QED
    BY <1>1, <1>16, <1>17
<1>19. BufferOf(BITBUFSIZE, line.bytes) = buf
  BY <1>9, <1>10
<1> HIDE DEF w, x
<1>20. LineHolds(elias, line, enc, c.codec, x)
  <2>1. Decode(elias, buf, 0).n = IF line.sync THEN 2 ELSE 1
    <3> HIDE DEF buf
    <3> QED
      BY <1>13
  <2>2. (line.whole => CountOf(elias, buf) = K + 1) /\ (~line.whole => CountOf(elias, buf) <= K)
    BY <1>1, <1>7, <1>14
  <2> QED
    BY <1>15, <1>18, <1>19, <2>1, <2>2 DEF LineHolds
<1> QED
  BY <1>20 DEF Decodable

(* What the node compresses.                                               *)
\* The clock wraps at a word.
LEMMA ClockTyped ==
  ASSUME NEW a \in Word, NEW n \in Nat, NEW d \in [1..n -> Nat], NEW clock,
         clock = CHOOSE f : f = [i \in 0..n |-> IF i = 0 THEN a ELSE Wrap(f[i - 1] + d[i])]
  PROVE  \A i \in 0..n : clock[i] \in Word
<1> DEFINE F == [p \in Word \X (1..n) |-> Wrap(p[1] + d[p[2]])]
<1>1. \A w \in Word : w \in Int
  BY WordIs
<1>2. \A w \in Word, i \in 1..n : Wrap(w + d[i]) \in Word
  <2> SUFFICES ASSUME NEW w \in Word, NEW i \in 1..n PROVE Wrap(w + d[i]) \in Word
    OBVIOUS
  <2>1. w + d[i] \in Int
    BY <1>1
  <2> QED
    BY <2>1, WrapIs
<1>3. F \in [Word \X (1..n) -> Word] /\ \A w \in Word, i \in 1..n : F[<<w, i>>] = Wrap(w + d[i])
  BY <1>2
<1> HIDE DEF F
<1>4. PICK g : Recurs(g, n, Word, a, F)
  BY <1>3, Recursion
<1>5. g \in [0..n -> Word] /\ g[0] = a /\ \A i \in 1..n : g[i] = F[<<g[i - 1], i>>]
  BY <1>4 DEF Recurs
<1>6. \A i \in 1..n : i \in 0..n /\ i - 1 \in 0..n /\ i # 0
  OBVIOUS
<1>7. g = [i \in 0..n |-> IF i = 0 THEN a ELSE Wrap(g[i - 1] + d[i])]
  <2>1. g = [i \in 0..n |-> g[i]]
    BY <1>5
  <2>2. \A i \in 0..n : i = 0 \/ i \in 1..n
    OBVIOUS
  <2>3. \A i \in 0..n : g[i] = IF i = 0 THEN a ELSE Wrap(g[i - 1] + d[i])
    BY <1>3, <1>5, <1>6, <2>2
  <2> QED
    BY <2>1, <2>3
<1>8. clock = [i \in 0..n |-> IF i = 0 THEN a ELSE Wrap(clock[i - 1] + d[i])]
  BY <1>7
<1>9. clock[0] \in Word
  <2>1. 0 \in 0..n
    OBVIOUS
  <2> QED
    BY <1>8, <2>1
<1>10. \A i \in 1..n : clock[i - 1] \in Word => clock[i] \in Word
  BY <1>2, <1>6, <1>8
<1> QED
  BY <1>9, <1>10, RecursionTyped

\* So the entries of a block hold words.
LEMMA BlockTyped ==
  ASSUME NEW recs \in Supply, enc \in GoodCodec
  PROVE  BlockOf(recs) \in Block
<1> DEFINE n == CBLOCKSIZE
           time[i \in 0..CBLOCKSIZE] == IF i = 0 THEN enc.time ELSE Wrap(time[i - 1] + recs[i].dt)
           ic[i \in 0..CBLOCKSIZE]   == IF i = 0 THEN enc.ic ELSE Wrap(ic[i - 1] + recs[i].dic)
           dt == [i \in 1..n |-> recs[i].dt]
           dic == [i \in 1..n |-> recs[i].dic]
<1>1. n \in Nat /\ n # 0 /\ \A i \in 1..n : i \in 0..n
  BY StreamConstants
<1>2. \A i \in 1..n : recs[i] \in [type : Symbol, res : Symbol, dt : Nat, dic : Nat, msb : Symbol, lsb : Symbol]
  BY SupplyAssumption
<1>3. dt \in [1..n -> Nat] /\ dic \in [1..n -> Nat]
  BY <1>2
<1>4. enc.time \in Word /\ enc.ic \in Word
  BY CodecParts
<1>5. \A i \in 0..n : i = 0 \/ (i # 0 /\ i \in 1..n)
  BY <1>1
<1>6. \A f : [i \in 0..n |-> IF i = 0 THEN enc.time ELSE Wrap(f[i - 1] + recs[i].dt)]
             = [i \in 0..n |-> IF i = 0 THEN enc.time ELSE Wrap(f[i - 1] + dt[i])]
  BY <1>5
<1>7. \A f : [i \in 0..n |-> IF i = 0 THEN enc.ic ELSE Wrap(f[i - 1] + recs[i].dic)]
             = [i \in 0..n |-> IF i = 0 THEN enc.ic ELSE Wrap(f[i - 1] + dic[i])]
  BY <1>5
<1> HIDE DEF dt, dic
<1>8. time = CHOOSE f : f = [i \in 0..n |-> IF i = 0 THEN enc.time ELSE Wrap(f[i - 1] + dt[i])]
  BY <1>6, Zenon
<1>9. ic = CHOOSE f : f = [i \in 0..n |-> IF i = 0 THEN enc.ic ELSE Wrap(f[i - 1] + dic[i])]
  BY <1>7, Zenon
<1>10. BlockOf(recs) = [i \in 1..n |-> [type |-> recs[i].type, res |-> recs[i].res, time |-> time[i],
                                        ic |-> ic[i], msb |-> recs[i].msb, lsb |-> recs[i].lsb]]
  BY DEF BlockOf
<1> HIDE DEF time, ic, n
<1>11. \A i \in 0..n : time[i] \in Word
  BY <1>1, <1>3, <1>4, <1>8, ClockTyped
<1>12. \A i \in 0..n : ic[i] \in Word
  BY <1>1, <1>3, <1>4, <1>9, ClockTyped
<1>13. \A i \in 1..n : BlockOf(recs)[i] \in Entry
  BY <1>1, <1>2, <1>10, <1>11, <1>12 DEF Entry
<1> QED
  BY <1>10, <1>13 DEF Block, n

(* What the decoder makes of any line.                                     *)
\* Whatever the bits are, entries come out of them.
LEMMA ReadTyped ==
  ASSUME NEW code, NEW x \in Seq(Bit), NEW buf, buf = Buf(BITBUFSIZE, x), NEW d \in Codec, NEW n \in Nat
  PROVE  LET b == BlockRead(code, buf, d, n)
         IN  /\ b.ok \in BOOLEAN /\ b.block \in [1..n -> Entry] /\ b.codec \in Codec
             /\ Decode(code, buf, 0).n = 2 \/ Permuted(d.mtf) => Permuted(b.codec.mtf)
<1> DEFINE sync == Decode(code, buf, 0).n = 2
           p == Decode(code, buf, 0).rpos
           b == BlockRead(code, buf, d, n)
<1>1. buf.bits \in Seq(Bit)
  BY DEF Buf
<1>2. sync \in BOOLEAN /\ p \in 0..Len(buf.bits)
  <2>1. Len(buf.bits) \in Nat
    BY <1>1
  <2>2. 0 \in 0..Len(buf.bits)
    BY <2>1
  <2>3. Decode(code, buf, 0) \in [n : Nat, rpos : 0..Len(buf.bits)]
    BY <1>1, <2>2, DecodeIsTyped
  <2> QED
    BY <2>3
<1>3. b = QD!DecodeBlock(Table(code, buf), d, p, n, sync)
  BY DEF BlockRead
<1> HIDE DEF sync, p, b
<1>4. ASSUME NEW perm \in BOOLEAN, Started(d, sync) \in DecCodec(perm)
      PROVE  b.ok \in BOOLEAN /\ b.block \in [1..n -> Entry] /\ b.codec \in Codec /\ (perm => Permuted(b.codec.mtf))
  <2>1. PICK h : DecodesTo(h, code, buf, d, p, n, sync, perm, b)
    BY <1>1, <1>2, <1>3, <1>4, Decodes
  <2>2. 6 * n \in 0..6 * n
    OBVIOUS
  <2>3. b \in DecState(Len(buf.bits), n, perm)
    BY <2>1, <2>2 DEF DecodesTo, Decoded
  <2> QED
    BY <2>3 DEF DecState, DecCodec
<1>5. b.ok \in BOOLEAN /\ b.block \in [1..n -> Entry] /\ b.codec \in Codec
  <2> DEFINE perm == FALSE
  <2>1. perm \in BOOLEAN /\ Started(d, sync) \in DecCodec(perm)
    BY <1>2, StartedTyped
  <2> HIDE DEF perm
  <2> QED
    BY <1>4, <2>1
<1>6. ASSUME sync \/ Permuted(d.mtf) PROVE Permuted(b.codec.mtf)
  <2> DEFINE perm == TRUE
  <2>1. perm \in BOOLEAN /\ Started(d, sync) \in DecCodec(perm)
    BY <1>2, <1>6, StartedTyped
  <2>2. perm
    OBVIOUS
  <2> HIDE DEF perm
  <2> QED
    BY <1>4, <2>1, <2>2
<1> QED
  BY <1>5, <1>6 DEF sync, b

\* The end of a line that was cut holds nothing.
LEMMA NothingReads ==
  /\ BufferOf(BITBUFSIZE, << >>) = Buf(BITBUFSIZE, << >>)
  /\ \A code : /\ CountOf(code, Buf(BITBUFSIZE, << >>)) = 0
               /\ Decode(code, Buf(BITBUFSIZE, << >>), 0).n = 0
<1> DEFINE none == << >>
           pos == [j \in 0..0 |-> 0]
<1>1. BufferOf(BITBUFSIZE, none) = Buf(BITBUFSIZE, none)
  <2>1. BITBUFSIZE \in Nat /\ none \in Seq(Bit) /\ Len(none) = ByteBits * 0 /\ 0 <= BITBUFSIZE /\ 0 \in Nat
    BY StreamConstants DEF ByteBits
  <2>2. none = [i \in 1..0 |-> SubSeq(none, ByteBits * (i - 1) + 1, ByteBits * i)]
    OBVIOUS
  <2> HIDE DEF none
  <2> QED
    BY <2>1, <2>2, FilledIs
<1> DEFINE zero == 0
           m == Len(none)
<1>2. none = none \o Zeros(zero) /\ zero \in Nat /\ zero = 0
  BY DEF Zeros
<1>3. \A code : Chain(code, none, none, pos)
  BY NoChain
<1>4. pos[m] = 0 /\ m = 0 /\ m = Len(none)
  OBVIOUS
<1> HIDE DEF none, pos, zero, m
<1> DEFINE buf == Buf(BITBUFSIZE, none)
<1>5. buf = Buf(BITBUFSIZE, none \o Zeros(zero))
  BY <1>2
<1> HIDE DEF buf
<1>6. ASSUME NEW code PROVE CountOf(code, buf) = 0
  <2>1. Chain(code, none, none, pos)
    BY <1>3
  <2>2. CountOf(code, Buf(BITBUFSIZE, none \o Zeros(zero))) = Len(none)
    BY <1>2, <2>1, CountIs
  <2> QED
    BY <1>4, <1>5, <2>2
<1>7. ASSUME NEW code PROVE Decode(code, buf, 0).n = 0
  <2>1. Chain(code, none, none, pos)
    BY <1>3
  <2>2. Decode(code, buf, pos[Len(none)]) = Ends(buf)
    BY <1>2, <1>5, <2>1, ChainReads
  <2>3. Ends(buf).n = 0
    BY DEF Ends
  <2> QED
    BY <1>4, <2>2, <2>3
<1> QED
  BY <1>1, <1>6, <1>7 DEF none, buf

(* Any line at all.                                                        *)
LineTyped(line) ==
  /\ Len(line.bytes) \in Nat /\ Len(line.bytes) <= BITBUFSIZE
  /\ \A b \in ToSet(line.bytes) : b \in [1..ByteBits -> Bit]
  /\ \E x \in Seq(Bit) : BufferOf(BITBUFSIZE, line.bytes) = Buf(BITBUFSIZE, x)

NodeTyped ==
  /\ elias \in {"gamma", "delta"} /\ m_sync \in 0..MTFSYNC - 1 /\ enc \in GoodCodec
  /\ blocks \in 0..MaxBlocks /\ reboots \in 0..MaxReboots
DecoderTyped ==
  /\ dec \in Codec /\ block_size \in Nat /\ exit \in {-1, 0, 1, 2}
  /\ syncd \in BOOLEAN /\ initial_sync \in BOOLEAN /\ rest \in BOOLEAN
  /\ syncd => initial_sync
  /\ initial_sync => Permuted(dec.mtf)
  /\ \E n \in Nat : out \in [1..n -> Entry]
Typed == NodeTyped /\ DecoderTyped /\ intact \in BOOLEAN /\ LineTyped(air)

-------------------------------------------------------------------------------
\* That no line is under way.
LEMMA NoLineTyped == LineTyped(NoLine)
<1> DEFINE none == << >>
<1>1. NoLine.bytes = none
  BY DEF NoLine
<1>2. none \in Seq(Bit) /\ BufferOf(BITBUFSIZE, none) = Buf(BITBUFSIZE, none)
  BY NothingReads
<1>3. Len(none) = 0 /\ ToSet(none) = {}
  BY DEF ToSet
<1>4. BITBUFSIZE \in Nat
  BY StreamConstants
<1> HIDE DEF none
<1>5. \E x \in Seq(Bit) : BufferOf(BITBUFSIZE, NoLine.bytes) = Buf(BITBUFSIZE, x)
  BY <1>1, <1>2
<1>6. Len(NoLine.bytes) = 0 /\ ToSet(NoLine.bytes) = {}
  BY <1>1, <1>3
<1> QED
  BY <1>4, <1>5, <1>6 DEF LineTyped

\* The codec of a node that booted.
LEMMA BootedGood == BootedCodec \in GoodCodec /\ CodecZero \in Codec /\ BootedCodec \in Codec
<1>1. CodecZero \in Codec /\ CodecZero.mtf = MtfZero
  BY MtfZeroTyped, WordIs DEF CodecZero, Codec
<1>2. Permuted(mtf_init(MtfZero)) /\ mtf_init(MtfZero) \in MtfEncoder
  <2>1. Permuted(mtf_init(MtfZero))
    BY MtfZeroTyped, InitListed DEF Permuted
  <2> QED
    BY <2>1, PermutedTyped
<1>3. BootedCodec = [CodecZero EXCEPT !.mtf = mtf_init(MtfZero)]
  BY <1>1 DEF BootedCodec
<1> QED
  BY <1>1, <1>2, <1>3 DEF Codec, GoodCodec

\* The line of a block.
LEMMA LineOfTyped ==
  ASSUME elias \in {"gamma", "delta"}, enc \in GoodCodec, NEW block \in Block, NEW sync \in BOOLEAN,
         NEW c, c = CompressBlock(block, sync), NEW line, line.bytes = Bytes(c.buf)
  PROVE  c.codec \in GoodCodec /\ c.whole \in BOOLEAN /\ LineTyped(line)
<1>1. PICK g : Compressed(g, block, sync, enc) /\ c = g[K]
  BY Compresses
<1>2. K \in 0..K /\ BITBUFSIZE \in Nat
  BY StreamConstants
<1>3. c \in EncState
  BY <1>1, <1>2, IntsAre
<1>4. c.codec \in GoodCodec /\ c.whole \in BOOLEAN
  BY <1>3, EncStateParts
<1>5. PICK w \in Written : c.buf = Buf(BITBUFSIZE, w)
  BY <1>3, EncStateParts
<1>6. w \in Seq(Bit) /\ Len(w) <= ByteBits * BITBUFSIZE
  BY DEF Written
<1>7. /\ Len(line.bytes) \in Nat /\ Len(line.bytes) <= BITBUFSIZE
      /\ \A b \in ToSet(line.bytes) : b \in [1..ByteBits -> Bit]
      /\ \E pad \in 0..7 : BufferOf(BITBUFSIZE, line.bytes) = Buf(BITBUFSIZE, w \o Zeros(pad))
  <2>1. line.bytes = Bytes(Buf(BITBUFSIZE, w))
    BY <1>5
  <2> QED
    BY <1>2, <1>6, <2>1, BytesFill
<1>8. PICK pad \in 0..7 : BufferOf(BITBUFSIZE, line.bytes) = Buf(BITBUFSIZE, w \o Zeros(pad))
  BY <1>7
<1>9. w \o Zeros(pad) \in Seq(Bit)
  <2> DEFINE z == Zeros(pad)
  <2>1. z \in Seq(Bit)
    BY ZerosAre
  <2> HIDE DEF z
  <2>2. w \o z \in Seq(Bit)
    BY <1>6, <2>1
  <2> QED
    BY <2>2 DEF z
<1> QED
  BY <1>4, <1>7, <1>8, <1>9 DEF LineTyped

(* The turns of the decoder, whichever it is.                              *)
\* A turn with a line.
LEMMA LineTurns ==
  ASSUME DecoderReads, elias \in {"gamma", "delta"}, NEW x, BufferOf(BITBUFSIZE, air.bytes) = Buf(BITBUFSIZE, x)
  PROVE  /\ exit = -1
         /\ rest' \in BOOLEAN
         /\ rest' <=> Len(air.bytes) * 3 + 1 > BITBUFSIZE * 3 - 1
         /\ TurnOf(elias, Buf(BITBUFSIZE, x))
<1>1. CASE elias = "gamma"
  <2>1. QD!GammaMain!ReadLine(air.bytes)
    BY <1>1 DEF DecoderReads, QD!main_reads
  <2>2. QD!GammaMain!Turn(air.bytes)
    BY <2>1 DEF QD!GammaMain!ReadLine
  <2>3. TurnOf("gamma", Buf(BITBUFSIZE, x))
    BY <2>2, GammaTurn
  <2>4. exit = -1 /\ rest' = (Len(air.bytes) * 3 + 1 > BITBUFSIZE * 3 - 1)
    BY <2>1 DEF QD!GammaMain!ReadLine
  <2>5. rest' \in BOOLEAN
    BY <2>4
  <2>6. rest' <=> Len(air.bytes) * 3 + 1 > BITBUFSIZE * 3 - 1
    BY <2>4
  <2> QED
    BY <1>1, <2>3, <2>4, <2>5, <2>6, Zenon
<1>2. CASE elias = "delta"
  <2>1. QD!DeltaMain!ReadLine(air.bytes)
    BY <1>2 DEF DecoderReads, QD!delta_main_reads
  <2>2. QD!DeltaMain!Turn(air.bytes)
    BY <2>1 DEF QD!DeltaMain!ReadLine
  <2>3. TurnOf("delta", Buf(BITBUFSIZE, x))
    BY <2>2, DeltaTurn
  <2>4. exit = -1 /\ rest' = (Len(air.bytes) * 3 + 1 > BITBUFSIZE * 3 - 1)
    BY <2>1 DEF QD!DeltaMain!ReadLine
  <2>5. rest' \in BOOLEAN
    BY <2>4
  <2>6. rest' <=> Len(air.bytes) * 3 + 1 > BITBUFSIZE * 3 - 1
    BY <2>4
  <2> QED
    BY <1>2, <2>3, <2>4, <2>5, <2>6, Zenon
<1> QED
  BY <1>1, <1>2

\* A turn with the rest of a line as long as the buffer.
LEMMA RestTurns ==
  ASSUME DecoderReadsRest, elias \in {"gamma", "delta"}
  PROVE  /\ exit = -1 /\ rest /\ rest' = FALSE
         /\ IF block_size = 0 THEN Ended(1) ELSE Ended(2)
<1> DEFINE none == << >>
<1>1. BufferOf(BITBUFSIZE, none) = Buf(BITBUFSIZE, none)
  BY NothingReads
<1>2. /\ CountOf(elias, Buf(BITBUFSIZE, none)) = 0
      /\ Decode(elias, Buf(BITBUFSIZE, none), 0).n = 0
  BY NothingReads
<1> HIDE DEF none
<1>3. exit = -1 /\ rest /\ rest' = FALSE /\ TurnOf(elias, Buf(BITBUFSIZE, none))
  <2>1. CASE elias = "gamma"
    <3>1. QD!GammaMain!ReadRest
      BY <2>1 DEF DecoderReadsRest, QD!main_reads_rest
    <3>2. QD!GammaMain!Turn(none)
      BY <3>1 DEF QD!GammaMain!ReadRest, none
    <3>3. TurnOf("gamma", Buf(BITBUFSIZE, none))
      BY <1>1, <3>2, GammaTurn
    <3> QED
      BY <2>1, <3>1, <3>3 DEF QD!GammaMain!ReadRest
  <2>2. CASE elias = "delta"
    <3>1. QD!DeltaMain!ReadRest
      BY <2>2 DEF DecoderReadsRest, QD!delta_main_reads_rest
    <3>2. QD!DeltaMain!Turn(none)
      BY <3>1 DEF QD!DeltaMain!ReadRest, none
    <3>3. TurnOf("delta", Buf(BITBUFSIZE, none))
      BY <1>1, <3>2, DeltaTurn
    <3> QED
      BY <2>2, <3>1, <3>3 DEF QD!DeltaMain!ReadRest
  <2> QED
    BY <2>1, <2>2
<1>4. Known(elias, Buf(BITBUFSIZE, none)) <=> block_size # 0
  BY <1>2 DEF Known
<1> QED
  BY <1>2, <1>3, <1>4 DEF TurnOf

\* The turn at the end of the input.
LEMMA EndTurns ==
  ASSUME DecoderEnds, elias \in {"gamma", "delta"}
  PROVE  exit = -1 /\ ~rest /\ rest' = rest /\ Ended(0)
<1>1. CASE elias = "gamma"
  BY <1>1 DEF DecoderEnds, QD!main_ends, QD!GammaMain!EndOfInput, QD!GammaMain!Stop, Ended
<1>2. CASE elias = "delta"
  BY <1>2 DEF DecoderEnds, QD!delta_main_ends, QD!DeltaMain!EndOfInput, QD!DeltaMain!Stop, Ended
<1> QED
  BY <1>1, <1>2

\* An exit changes nothing else.
LEMMA EndedTyped ==
  ASSUME DecoderTyped, NEW code \in {0, 1, 2}, Ended(code), rest' \in BOOLEAN
  PROVE  DecoderTyped'
<1> DEFINE none == << >>
<1>1. none \in [1..0 -> Entry] /\ 0 \in Nat
  OBVIOUS
<1>2. out' = none /\ exit' = code /\ UNCHANGED <<dec, block_size, syncd, initial_sync>>
  BY DEF Ended
<1> HIDE DEF none
<1>3. \E n \in Nat : out' \in [1..n -> Entry]
  BY <1>1, <1>2
<1> QED
  BY <1>2, <1>3 DEF DecoderTyped

\* A turn keeps the types.
LEMMA TurnTyped ==
  ASSUME DecoderTyped, NEW code, NEW x \in Seq(Bit), TurnOf(code, Buf(BITBUFSIZE, x)), rest' \in BOOLEAN
  PROVE  DecoderTyped'
<1> DEFINE buf == Buf(BITBUFSIZE, x)
           size == Size(code, buf)
           b == BlockRead(code, buf, dec, size)
           sync == Decode(code, buf, 0).n = 2
<1>1. ASSUME NEW e \in {1, 2}, Ended(e) PROVE DecoderTyped'
  BY <1>1, EndedTyped
<1>2. ASSUME LineRead(b, size, sync) PROVE DecoderTyped'
  <2>1. size \in Nat
    <3> HIDE DEF buf
    <3>1. buf.bits \in Seq(Bit)
      BY DEF Buf, buf
    <3>2. CountOf(code, buf) \in Nat
      BY <3>1, CountTyped
    <3>3. CountOf(code, buf) \div 6 \in Nat
      BY <3>2
    <3> QED
      BY <3>3 DEF DecoderTyped, Size
  <2>2. dec \in Codec
    BY DEF DecoderTyped
  <2> HIDE DEF size
  <2>3. /\ b.ok \in BOOLEAN /\ b.block \in [1..size -> Entry] /\ b.codec \in Codec
        /\ Decode(code, buf, 0).n = 2 \/ Permuted(dec.mtf) => Permuted(b.codec.mtf)
    BY <2>1, <2>2, ReadTyped
  <2> DEFINE any == << >>
  <2>4. any \in [1..0 -> Entry] /\ 0 \in Nat
    OBVIOUS
  <2> HIDE DEF b, buf, any
  <2>5. /\ block_size' = size /\ initial_sync' = (initial_sync \/ sync) /\ dec' = b.codec
        /\ syncd' = ((syncd \/ sync) /\ b.ok) /\ exit' = exit
        /\ out' = b.block \/ out' = any
    BY <1>2 DEF LineRead, any
  <2>6. \E n \in Nat : out' \in [1..n -> Entry]
    BY <2>1, <2>3, <2>4, <2>5
  <2>7. initial_sync' => Permuted(dec'.mtf)
    BY <2>3, <2>5 DEF DecoderTyped
  <2>8. (syncd' => initial_sync') /\ syncd' \in BOOLEAN /\ initial_sync' \in BOOLEAN
    BY <2>5 DEF DecoderTyped
  <2>9. dec' \in Codec /\ block_size' \in Nat /\ exit' \in {-1, 0, 1, 2}
    BY <2>1, <2>3, <2>5 DEF DecoderTyped
  <2> QED
    BY <2>6, <2>7, <2>8, <2>9 DEF DecoderTyped
<1> QED
  BY <1>1, <1>2 DEF TurnOf

-------------------------------------------------------------------------------
\* The invariant Typed holds at the start.
LEMMA StreamStarts == StreamInit => Typed
<1> SUFFICES ASSUME StreamInit PROVE Typed
  OBVIOUS
<1>1. elias \in {"gamma", "delta"} /\ m_sync = 0 /\ enc = BootedCodec /\ blocks = 0 /\ reboots = 0 /\ air = NoLine
      /\ intact = FALSE
  BY DEF StreamInit, Init
<1>2. QD!GammaMain!CodecZero = CodecZero
  BY DEF QD!GammaMain!CodecZero, CodecZero, QD!GammaMain!MtfZero, MtfZero, QD!GammaMain!Symbol, Symbol
<1> DEFINE none == << >>
<1>3. /\ dec = CodecZero /\ block_size = 0 /\ syncd = FALSE /\ initial_sync = FALSE /\ rest = FALSE
      /\ out = none /\ exit = -1
  BY <1>2 DEF StreamInit, QD!DecoderInit, QD!GammaMain!Init
<1>4. NodeTyped
  <2>1. 0 \in 0..MTFSYNC - 1 /\ 0 \in 0..MaxBlocks /\ 0 \in 0..MaxReboots
    BY StreamConstants, StreamAssumption
  <2> QED
    BY <1>1, <2>1, BootedGood DEF NodeTyped
<1>5. DecoderTyped
  <2>1. none \in [1..0 -> Entry] /\ 0 \in Nat
    OBVIOUS
  <2> HIDE DEF none
  <2>2. \E n \in Nat : out \in [1..n -> Entry]
    BY <1>3, <2>1
  <2> QED
    BY <1>3, <2>2, BootedGood DEF DecoderTyped
<1> QED
  BY <1>1, <1>4, <1>5, NoLineTyped DEF Typed

\* And after CompressTask, whose line is that of a block.
LEMMA CompressesTyped ==
  ASSUME Typed, NEW recs \in Supply, NodeCompresses(recs)
  PROVE  /\ Typed'
         /\ \E block \in Block : \E c :
              /\ c = CompressBlock(block, m_sync = 0) /\ enc' = c.codec /\ air' = LineOf(block, c)
              /\ AllowZero \/ 0 \notin ToSet(c.ints)
<1> DEFINE block == BlockOf(recs)
           sync == m_sync = 0
           c == CompressBlock(block, m_sync = 0)
           line == LineOf(block, c)
<1>1. /\ blocks < MaxBlocks /\ air = NoLine /\ (AllowZero \/ 0 \notin ToSet(c.ints))
      /\ m_sync' = (m_sync + 1) % MTFSYNC /\ enc' = c.codec /\ elias' = elias
      /\ air' = line /\ blocks' = blocks + 1
      /\ UNCHANGED <<reboots, decVars, ghostVars>>
  BY DEF NodeCompresses, runTask
<1>2. elias \in {"gamma", "delta"} /\ enc \in GoodCodec
  BY DEF Typed, NodeTyped
<1>3. block \in Block
  BY <1>2, BlockTyped
<1>4. sync \in BOOLEAN /\ c = CompressBlock(block, sync) /\ line.bytes = Bytes(c.buf)
  BY DEF LineOf
<1> HIDE DEF block, c, line
<1>5. c.codec \in GoodCodec /\ LineTyped(line)
  <2> HIDE DEF sync
  <2> QED
    BY <1>2, <1>3, <1>4, LineOfTyped
<1>6. m_sync' \in 0..MTFSYNC - 1
  <2>1. m_sync + 1 \in Nat /\ MTFSYNC \in Nat \ {0}
    BY StreamConstants DEF Typed, NodeTyped
  <2> DEFINE y == m_sync + 1
  <2> HIDE DEF y
  <2>2. y % MTFSYNC \in Nat /\ y % MTFSYNC < MTFSYNC
    BY <2>1, Quotient DEF y
  <2> QED
    BY <1>1, <2>1, <2>2 DEF y
<1>7. blocks' \in 0..MaxBlocks
  <2>1. MaxBlocks \in Nat
    BY StreamAssumption
  <2> QED
    BY <1>1, <2>1 DEF Typed, NodeTyped
<1>8. NodeTyped'
  BY <1>1, <1>2, <1>5, <1>6, <1>7 DEF Typed, NodeTyped
<1>9. DecoderTyped' /\ intact' \in BOOLEAN
  BY <1>1 DEF Typed, DecoderTyped, decVars, ghostVars
<1>10. Typed'
  BY <1>1, <1>5, <1>8, <1>9 DEF Typed
<1> QED
  BY <1>1, <1>3, <1>10 DEF c, line

\* And after every step.
LEMMA StreamStays == Typed /\ [Next]_vars => Typed'
<1> SUFFICES ASSUME Typed, [Next]_vars PROVE Typed'
  OBVIOUS
<1>1. NodeTyped /\ DecoderTyped /\ intact \in BOOLEAN /\ LineTyped(air) /\ elias \in {"gamma", "delta"}
  BY DEF Typed, NodeTyped
<1>2. CASE \E recs \in Supply : NodeCompresses(recs)
  BY <1>2, CompressesTyped
<1>3. CASE NodeReboots
  <2>1. 0 \in 0..MTFSYNC - 1
    BY StreamConstants
  <2>2. reboots' \in 0..MaxReboots
    <3>1. MaxReboots \in Nat
      BY StreamAssumption
    <3> QED
      BY <1>1, <1>3, <3>1 DEF NodeTyped, NodeReboots
  <2>3. NodeTyped'
    BY <1>1, <1>3, <2>1, <2>2, BootedGood DEF NodeTyped, NodeReboots, Reboot
  <2>4. DecoderTyped' /\ intact' \in BOOLEAN /\ air' = air
    BY <1>1, <1>3 DEF NodeReboots, DecoderTyped, decVars, ghostVars
  <2> QED
    BY <1>1, <2>3, <2>4 DEF Typed
<1>4. CASE LineLost
  <2>1. NodeTyped' /\ DecoderTyped' /\ intact' \in BOOLEAN /\ air' = NoLine
    BY <1>1, <1>4 DEF LineLost, NodeTyped, DecoderTyped, decVars, nodeVars
  <2> QED
    BY <2>1, NoLineTyped DEF Typed
<1>5. CASE DecoderReads
  <2>1. PICK x \in Seq(Bit) : BufferOf(BITBUFSIZE, air.bytes) = Buf(BITBUFSIZE, x)
    BY <1>1 DEF LineTyped
  <2>2. TurnOf(elias, Buf(BITBUFSIZE, x))
    BY <1>1, <1>5, <2>1, LineTurns
  <2>3. rest' \in BOOLEAN
    BY <1>1, <1>5, <2>1, LineTurns
  <2>4. DecoderTyped'
    BY <1>1, <2>2, <2>3, TurnTyped
  <2>5. NodeTyped' /\ air' = NoLine /\ intact' \in BOOLEAN
    BY <1>1, <1>5 DEF DecoderReads, NodeTyped, nodeVars
  <2> QED
    BY <2>4, <2>5, NoLineTyped DEF Typed
<1>6. CASE DecoderReadsRest
  <2>1. rest' \in BOOLEAN /\ (Ended(1) \/ Ended(2))
    BY <1>1, <1>6, RestTurns
  <2>2. DecoderTyped'
    BY <1>1, <2>1, EndedTyped
  <2>3. NodeTyped' /\ air' = air /\ intact' = intact
    BY <1>1, <1>6 DEF DecoderReadsRest, NodeTyped, nodeVars
  <2> QED
    BY <1>1, <2>2, <2>3 DEF Typed
<1>7. CASE DecoderEnds
  <2>1. rest' \in BOOLEAN /\ Ended(0)
    BY <1>1, <1>7, EndTurns DEF DecoderTyped
  <2>2. DecoderTyped'
    BY <1>1, <2>1, EndedTyped
  <2>3. NodeTyped' /\ air' = air /\ intact' = intact
    BY <1>1, <1>7 DEF DecoderEnds, NodeTyped, nodeVars, ghostVars
  <2> QED
    BY <1>1, <2>2, <2>3 DEF Typed
<1>8. CASE UNCHANGED vars
  BY <1>1, <1>8 DEF vars, nodeVars, decVars, ghostVars, Typed, NodeTyped, DecoderTyped
<1> QED
  BY <1>2, <1>3, <1>4, <1>5, <1>6, <1>7, <1>8 DEF Next

\* The move-to-front lists of node and decoder hold every symbol once, whatever lines were
\* lost and however often the node rebooted: mtf_encode and mtf_decode never walk along an
\* order that lost a symbol (libquantocode.c:271, 293), so their loops end.
THEOREM ListsPermuted == Spec => []ListsArePermutations
<1>1. Typed => ListsArePermutations
  BY CodecParts, ListIsPermutation DEF Typed, NodeTyped, DecoderTyped, ListsArePermutations
<1> QED
  BY <1>1, StreamStarts, StreamStays, PTL DEF Spec

(* Node and decoder in step.                                               *)
OnTheWay ==
  air # NoLine =>
    /\ air.sync \in BOOLEAN /\ air.whole \in BOOLEAN
    /\ \E c0, c1 : /\ Decodable(elias, air, c0, c1)
                   /\ m_sync # 0 => enc = c1
                   /\ intact /\ ~air.sync /\ block_size = CBLOCKSIZE /\ exit = -1 => Matches(c0, dec)
Arrived ==
  /\ air = NoLine /\ intact /\ m_sync # 0 /\ block_size = CBLOCKSIZE /\ exit = -1 => Matches(enc, dec)
  /\ intact /\ exit = -1 => block_size # 0
  /\ block_size <= CBLOCKSIZE
  /\ rest => Len(read.bytes) = BITBUFSIZE
StreamInv == Typed /\ OnTheWay /\ Arrived /\ PrintedIsRecorded /\ GivesUpForCause

-------------------------------------------------------------------------------
\* What DecoderReads makes of the line of a block.
Turned(c0, c1) ==
  \/ Ended(1) /\ block_size = 0 /\ ~air.whole
  \/ \E n, b : /\ LineRead(b, n, air.sync)
               /\ n \in Nat /\ n <= CBLOCKSIZE
               /\ block_size # 0 => n = block_size
               /\ block_size = 0 /\ air.whole => n = CBLOCKSIZE
               /\ n = CBLOCKSIZE => Comes(b, air.whole, air.sync, air.block, c0, c1, dec)

\* A line has six integers for each entry and the header.
LEMMA SizesAre ==
  ASSUME NEW count \in Nat
  PROVE  /\ count = K + 1 => count % 6 = 1 /\ count \div 6 = CBLOCKSIZE
         /\ count <= K => count \div 6 <= CBLOCKSIZE
         /\ count \div 6 \in Nat
<1>1. CBLOCKSIZE \in Nat /\ K = 6 * CBLOCKSIZE
  BY StreamConstants DEF K
<1> DEFINE q == count \div 6
           r == count % 6
<1>2. q \in Nat /\ r \in 0..5 /\ count = 6 * q + r
  OBVIOUS
<1> HIDE DEF q, r
<1>3. count = K + 1 => r = 1 /\ q = CBLOCKSIZE
  BY <1>1, <1>2
<1>4. count <= K => q <= CBLOCKSIZE
  BY <1>1, <1>2
<1> QED
  BY <1>2, <1>3, <1>4 DEF q, r

\* The line under way is read as Turned says.
LEMMA TurnIs ==
  ASSUME Typed, block_size <= CBLOCKSIZE, NEW c0, NEW c1, Decodable(elias, air, c0, c1),
         air.sync \in BOOLEAN, air.whole \in BOOLEAN, DecoderReads
  PROVE  Turned(c0, c1)
<1>1. PICK x : LineHolds(elias, air, c0, c1, x)
  BY DEF Decodable
<1> DEFINE buf == Buf(BITBUFSIZE, x)
           count == CountOf(elias, buf)
           sync == Decode(elias, buf, 0).n = 2
           n == Size(elias, buf)
           b == BlockRead(elias, buf, dec, n)
<1>2. elias \in {"gamma", "delta"} /\ dec \in Codec /\ block_size \in Nat
  BY DEF Typed, NodeTyped, DecoderTyped
<1>3. /\ x \in Seq(Bit) /\ BufferOf(BITBUFSIZE, air.bytes) = buf
      /\ Decode(elias, buf, 0).n = IF air.sync THEN 2 ELSE 1
      /\ air.whole => count = K + 1
      /\ ~air.whole => count <= K
      /\ Comes(BlockRead(elias, buf, dec, CBLOCKSIZE), air.whole, air.sync, air.block, c0, c1, dec)
  BY <1>1, <1>2 DEF LineHolds
<1>4. TurnOf(elias, buf)
  BY <1>2, <1>3, LineTurns
<1>5. count \in Nat
  <2>1. buf.bits \in Seq(Bit)
    BY <1>3 DEF Buf
  <2> HIDE DEF buf
  <2> QED
    BY <2>1, CountTyped
<1>6. CBLOCKSIZE \in Nat \ {0} /\ K \in Nat
  BY StreamConstants
<1> HIDE DEF buf
<1>7. sync = air.sync /\ Decode(elias, buf, 0).n \in {1, 2}
  BY <1>3
<1>8. \/ ~Known(elias, buf) /\ Ended(1)
      \/ Known(elias, buf) /\ LineRead(b, n, sync)
  BY <1>4, <1>7 DEF TurnOf
<1>9. CASE ~Known(elias, buf) /\ Ended(1)
  <2>1. block_size = 0 /\ count % 6 # 1
    BY <1>9 DEF Known
  <2>2. ~air.whole
    BY <1>3, <1>5, <2>1, SizesAre
  <2> QED
    BY <1>9, <2>1, <2>2 DEF Turned
<1>10. CASE Known(elias, buf) /\ LineRead(b, n, sync)
  <2>1. n = IF block_size = 0 THEN count \div 6 ELSE block_size
    BY DEF Size
  <2>2. n \in Nat /\ n <= CBLOCKSIZE /\ (block_size = 0 /\ air.whole => n = CBLOCKSIZE) /\ (block_size # 0 => n = block_size)
    <3>1. /\ count = K + 1 => count \div 6 = CBLOCKSIZE
          /\ count <= K => count \div 6 <= CBLOCKSIZE
          /\ count \div 6 \in Nat
      BY <1>5, SizesAre
    <3> DEFINE q == count \div 6
    <3> HIDE DEF n, q
    <3>2. n = IF block_size = 0 THEN q ELSE block_size
      BY <2>1 DEF q
    <3>3. q \in Nat /\ q <= CBLOCKSIZE /\ (air.whole => q = CBLOCKSIZE)
      BY <1>3, <1>6, <3>1 DEF q
    <3> QED
      BY <1>2, <3>2, <3>3
  <2>3. n = CBLOCKSIZE => Comes(b, air.whole, air.sync, air.block, c0, c1, dec)
    <3> HIDE DEF n
    <3> QED
      BY <1>3
  <2>4. LineRead(b, n, air.sync)
    <3> HIDE DEF b, n, sync
    <3> QED
      BY <1>7, <1>10
  <2> HIDE DEF b, n
  <2> QED
    BY <2>2, <2>3, <2>4 DEF Turned
<1> QED
  BY <1>8, <1>9, <1>10

\* What holds of the decoder after a whole line, and after one that was cut.
LEMMA ReadsInStep ==
  ASSUME StreamInv, DecoderReads
  PROVE  /\ OnTheWay' /\ Arrived' /\ PrintedIsRecorded' /\ GivesUpForCause'
         /\ block_size = CBLOCKSIZE /\ air.sync /\ intact' => out' = air.block
<1>1. /\ air # NoLine /\ air' = NoLine /\ read' = air /\ intact' = ((intact \/ air.sync) /\ air.whole)
      /\ elias' = elias /\ m_sync' = m_sync /\ enc' = enc
  BY DEF DecoderReads, nodeVars
<1>2. Typed /\ Arrived /\ LineTyped(air) /\ elias \in {"gamma", "delta"} /\ block_size \in Nat
  BY DEF StreamInv, Typed, NodeTyped, DecoderTyped
<1>3. air.sync \in BOOLEAN /\ air.whole \in BOOLEAN
  BY <1>1 DEF StreamInv, OnTheWay
<1>4. PICK c0, c1 : /\ Decodable(elias, air, c0, c1)
                    /\ m_sync # 0 => enc = c1
                    /\ intact /\ ~air.sync /\ block_size = CBLOCKSIZE /\ exit = -1 => Matches(c0, dec)
  BY <1>1 DEF StreamInv, OnTheWay
<1>5. Turned(c0, c1)
  BY <1>2, <1>3, <1>4, TurnIs DEF Arrived
<1>6. exit = -1 /\ (rest' => Len(read'.bytes) = BITBUFSIZE)
  <2>1. PICK x \in Seq(Bit) : BufferOf(BITBUFSIZE, air.bytes) = Buf(BITBUFSIZE, x)
    BY <1>2 DEF LineTyped
  <2>2. exit = -1 /\ (rest' <=> Len(air.bytes) * 3 + 1 > BITBUFSIZE * 3 - 1)
    BY <1>2, <2>1, LineTurns
  <2> DEFINE l == Len(air.bytes)
  <2>3. l \in Nat /\ l <= BITBUFSIZE /\ BITBUFSIZE \in Nat
    BY <1>2, StreamConstants DEF LineTyped
  <2> HIDE DEF l
  <2>4. l * 3 + 1 > BITBUFSIZE * 3 - 1 => l = BITBUFSIZE
    BY <2>3
  <2> QED
    BY <1>1, <2>2, <2>4 DEF l
<1>7. OnTheWay'
  BY <1>1 DEF OnTheWay
<1>8. CBLOCKSIZE \in Nat \ {0}
  BY StreamConstants
<1>9. CASE Ended(1) /\ block_size = 0 /\ ~air.whole
  <2>1. exit' = 1 /\ out' = << >> /\ block_size' = 0 /\ dec' = dec /\ intact' = FALSE
    BY <1>1, <1>3, <1>9 DEF Ended
  <2>2. Arrived'
    BY <1>6, <1>8, <2>1 DEF Arrived
  <2>3. PrintedIsRecorded' /\ GivesUpForCause'
    BY <1>1, <1>9, <2>1 DEF PrintedIsRecorded, GivesUpForCause
  <2> QED
    BY <1>7, <1>8, <1>9, <2>2, <2>3
<1>10. CASE \E n, b : /\ LineRead(b, n, air.sync)
                      /\ n \in Nat /\ n <= CBLOCKSIZE
                      /\ block_size # 0 => n = block_size
                      /\ block_size = 0 /\ air.whole => n = CBLOCKSIZE
                      /\ n = CBLOCKSIZE => Comes(b, air.whole, air.sync, air.block, c0, c1, dec)
  <2>1. PICK n, b : /\ LineRead(b, n, air.sync)
                    /\ n \in Nat /\ n <= CBLOCKSIZE
                    /\ block_size # 0 => n = block_size
                    /\ block_size = 0 /\ air.whole => n = CBLOCKSIZE
                    /\ n = CBLOCKSIZE => Comes(b, air.whole, air.sync, air.block, c0, c1, dec)
    BY <1>10
  <2>2. /\ block_size' = n /\ exit' = -1 /\ dec' = b.codec
        /\ out' = IF (syncd \/ air.sync) /\ b.ok THEN b.block ELSE << >>
    BY <1>6, <2>1 DEF LineRead
  <2>3. ASSUME intact', n = CBLOCKSIZE
        PROVE  b.ok = TRUE /\ b.block = air.block /\ Matches(c1, b.codec)
    <3>1. air.whole /\ (intact \/ air.sync)
      BY <1>1, <2>3
    <3>2. air.sync \/ Matches(c0, dec)
      <4>1. CASE air.sync
        BY <4>1
      <4>2. CASE ~air.sync
        <5>1. intact /\ block_size # 0
          BY <1>2, <1>6, <3>1, <4>2 DEF Arrived
        <5> QED
          BY <1>4, <1>6, <2>1, <2>3, <4>2, <5>1
      <4> QED
        BY <4>1, <4>2
    <3> QED
      BY <2>1, <2>3, <3>1, <3>2 DEF Comes
  <2>4. intact' => n # 0
    <3>1. intact' => air.whole
      BY <1>1
    <3> QED
      BY <1>8, <2>1, <3>1
  <2>5. Arrived'
    <3>1. intact' /\ m_sync' # 0 /\ n = CBLOCKSIZE => Matches(enc', dec')
      BY <1>1, <1>4, <2>2, <2>3
    <3> QED
      BY <1>6, <2>1, <2>2, <2>4, <3>1 DEF Arrived
  <2>6. PrintedIsRecorded'
    <3> SUFFICES ASSUME block_size' = CBLOCKSIZE, out' # << >>
                 PROVE  read'.whole /\ (intact' => out' = read'.block)
      BY DEF PrintedIsRecorded
    <3>1. n = CBLOCKSIZE /\ b.ok /\ out' = b.block
      BY <2>2
    <3>2. air.whole
      BY <2>1, <3>1 DEF Comes
    <3> QED
      BY <1>1, <2>3, <3>1, <3>2
  <2>7. GivesUpForCause'
    BY <2>2 DEF GivesUpForCause
  <2>8. block_size = CBLOCKSIZE /\ air.sync /\ intact' => out' = air.block
    <3> SUFFICES ASSUME block_size = CBLOCKSIZE, air.sync, intact' PROVE out' = air.block
      OBVIOUS
    <3>1. n = CBLOCKSIZE
      BY <1>8, <2>1
    <3> QED
      BY <2>2, <2>3, <3>1
  <2> QED
    BY <1>7, <2>5, <2>6, <2>7, <2>8
<1> QED
  BY <1>5, <1>9, <1>10 DEF Turned

\* CompressTask leaves decoder and node in step: the line takes one to the state of the other.
LEMMA CompressesInStep ==
  ASSUME AllowZero = FALSE, StreamInv, NEW recs \in Supply, NodeCompresses(recs)
  PROVE  OnTheWay' /\ Arrived'
<1>0. PICK block \in Block :
        \E c : /\ c = CompressBlock(block, m_sync = 0) /\ enc' = c.codec /\ air' = LineOf(block, c)
               /\ 0 \notin ToSet(c.ints)
  BY CompressesTyped DEF StreamInv
<1>1. PICK c :
        /\ c = CompressBlock(block, m_sync = 0) /\ enc' = c.codec /\ air' = LineOf(block, c)
        /\ 0 \notin ToSet(c.ints)
  BY <1>0
<1>2. /\ air = NoLine /\ elias' = elias
      /\ UNCHANGED <<reboots, decVars, ghostVars>>
  BY DEF NodeCompresses, runTask
<1>3. elias \in {"gamma", "delta"} /\ enc \in GoodCodec
  BY DEF StreamInv, Typed, NodeTyped
<1> DEFINE sync == m_sync = 0
           line == LineOf(block, c)
<1>4. /\ sync \in BOOLEAN /\ c = CompressBlock(block, sync)
      /\ line.bytes = Bytes(c.buf) /\ line.sync = sync /\ line.block = block /\ line.whole = c.whole
  BY <1>1 DEF LineOf
<1>5. line # NoLine
  <2>1. "sync" \in DOMAIN line /\ "sync" \notin DOMAIN NoLine
    BY DEF LineOf, NoLine
  <2> QED
    BY <2>1
<1> HIDE DEF line
<1>6. Decodable(elias, line, enc, c.codec) /\ c.whole \in BOOLEAN
  <2> HIDE DEF sync
  <2>1. Decodable(elias, line, enc, c.codec)
    BY <1>1, <1>3, <1>4, LineIs
  <2>2. c.whole \in BOOLEAN
    BY <1>3, <1>4, LineOfTyped
  <2> QED
    BY <2>1, <2>2
<1>7. intact' = intact /\ block_size' = block_size /\ exit' = exit /\ dec' = dec /\ rest' = rest /\ read' = read
  BY <1>2 DEF decVars, ghostVars
<1>8. air' = line
  BY <1>1 DEF line
<1>9. OnTheWay'
  <2>1. intact' /\ ~air'.sync /\ block_size' = CBLOCKSIZE /\ exit' = -1 => Matches(enc, dec')
    BY <1>2, <1>4, <1>7, <1>8 DEF StreamInv, Arrived
  <2>2. Decodable(elias', air', enc, c.codec) /\ enc' = c.codec
    BY <1>1, <1>2, <1>6, <1>8
  <2>3. air'.sync \in BOOLEAN /\ air'.whole \in BOOLEAN
    BY <1>4, <1>6, <1>8
  <2> QED
    BY <2>1, <2>2, <2>3 DEF OnTheWay
<1>10. Arrived'
  BY <1>5, <1>7, <1>8 DEF StreamInv, Arrived
<1> QED
  BY <1>9, <1>10

\* The invariant StreamInv holds at the start.
LEMMA InStepStarts == StreamInit => StreamInv
<1> SUFFICES ASSUME StreamInit PROVE StreamInv
  OBVIOUS
<1>1. /\ air = NoLine /\ intact = FALSE /\ block_size = 0 /\ rest = FALSE /\ out = << >> /\ exit = -1
  BY DEF StreamInit, QD!DecoderInit, QD!GammaMain!Init
<1>2. OnTheWay /\ Arrived /\ PrintedIsRecorded /\ GivesUpForCause
  BY <1>1, StreamConstants DEF OnTheWay, Arrived, PrintedIsRecorded, GivesUpForCause
<1> QED
  BY <1>2, StreamStarts DEF StreamInv

\* And after every step, the reboots and the lost lines included.
LEMMA InStepStays ==
  ASSUME AllowZero = FALSE, StreamInv, [Next]_vars
  PROVE  StreamInv'
<1>1. Typed'
  BY StreamStays DEF StreamInv
<1>2. Typed /\ OnTheWay /\ Arrived /\ PrintedIsRecorded /\ GivesUpForCause /\ elias \in {"gamma", "delta"}
      /\ CBLOCKSIZE \in Nat \ {0}
  BY StreamConstants DEF StreamInv, Typed, NodeTyped
<1>3. CASE \E recs \in Supply : NodeCompresses(recs)
  <2>1. PICK recs \in Supply : NodeCompresses(recs)
    BY <1>3
  <2>2. OnTheWay' /\ Arrived'
    BY <2>1, CompressesInStep
  <2>3. PrintedIsRecorded' /\ GivesUpForCause'
    BY <1>2, <2>1 DEF NodeCompresses, decVars, ghostVars, PrintedIsRecorded, GivesUpForCause
  <2> QED
    BY <1>1, <2>2, <2>3 DEF StreamInv
<1>4. CASE NodeReboots
  <2>1. /\ m_sync' = 0 /\ elias' = elias /\ air' = air
        /\ UNCHANGED <<decVars, ghostVars>>
    BY <1>4 DEF NodeReboots, Reboot
  <2>2. /\ intact' = intact /\ block_size' = block_size /\ exit' = exit /\ dec' = dec /\ rest' = rest
        /\ read' = read /\ out' = out
    BY <2>1 DEF decVars, ghostVars
  <2>3. OnTheWay'
    BY <1>2, <2>1, <2>2 DEF OnTheWay
  <2>4. Arrived' /\ PrintedIsRecorded' /\ GivesUpForCause'
    BY <1>2, <2>1, <2>2 DEF Arrived, PrintedIsRecorded, GivesUpForCause
  <2> QED
    BY <1>1, <2>3, <2>4 DEF StreamInv
<1>5. CASE LineLost
  <2>1. /\ air' = NoLine /\ intact' = FALSE /\ block_size' = block_size /\ exit' = exit /\ rest' = rest
        /\ read' = read /\ out' = out
    BY <1>5 DEF LineLost, decVars
  <2>2. OnTheWay' /\ Arrived' /\ PrintedIsRecorded' /\ GivesUpForCause'
    BY <1>2, <2>1 DEF OnTheWay, Arrived, PrintedIsRecorded, GivesUpForCause
  <2> QED
    BY <1>1, <2>2 DEF StreamInv
<1>6. CASE DecoderReads
  BY <1>1, <1>6, ReadsInStep DEF StreamInv
<1>7. CASE DecoderReadsRest
  <2>1. exit = -1 /\ rest /\ rest' = FALSE /\ IF block_size = 0 THEN Ended(1) ELSE Ended(2)
    BY <1>2, <1>7, RestTurns
  <2>2. /\ out' = << >> /\ block_size' = block_size /\ dec' = dec
        /\ IF block_size = 0 THEN exit' = 1 ELSE exit' = 2
    BY <2>1 DEF Ended
  <2>3. /\ m_sync' = m_sync /\ enc' = enc /\ elias' = elias /\ air' = air /\ intact' = intact /\ read' = read
    BY <1>7 DEF DecoderReadsRest, nodeVars
  <2>4. Len(read.bytes) = BITBUFSIZE
    BY <1>2, <2>1 DEF Arrived
  <2>5. OnTheWay'
    BY <1>2, <2>2, <2>3 DEF OnTheWay
  <2>6. Arrived' /\ PrintedIsRecorded' /\ GivesUpForCause'
    BY <1>2, <2>1, <2>2, <2>3, <2>4 DEF Arrived, PrintedIsRecorded, GivesUpForCause
  <2> QED
    BY <1>1, <2>5, <2>6 DEF StreamInv
<1>8. CASE DecoderEnds
  <2>1. rest' = rest /\ Ended(0)
    BY <1>2, <1>8, EndTurns
  <2>2. /\ out' = << >> /\ block_size' = block_size /\ dec' = dec /\ exit' = 0
    BY <2>1 DEF Ended
  <2>3. /\ m_sync' = m_sync /\ enc' = enc /\ elias' = elias /\ air' = air /\ intact' = intact /\ read' = read
    BY <1>8 DEF DecoderEnds, nodeVars, ghostVars
  <2>4. OnTheWay'
    BY <1>2, <2>2, <2>3 DEF OnTheWay
  <2>5. Arrived' /\ PrintedIsRecorded' /\ GivesUpForCause'
    BY <1>2, <2>1, <2>2, <2>3 DEF Arrived, PrintedIsRecorded, GivesUpForCause
  <2> QED
    BY <1>1, <2>4, <2>5 DEF StreamInv
<1>9. CASE UNCHANGED vars
  <2>1. /\ m_sync' = m_sync /\ enc' = enc /\ elias' = elias /\ air' = air /\ intact' = intact /\ read' = read
        /\ block_size' = block_size /\ exit' = exit /\ dec' = dec /\ rest' = rest /\ out' = out
    BY <1>9 DEF vars, nodeVars, decVars, ghostVars
  <2>2. OnTheWay'
    BY <1>2, <2>1 DEF OnTheWay
  <2>3. Arrived' /\ PrintedIsRecorded' /\ GivesUpForCause'
    BY <1>2, <2>1 DEF Arrived, PrintedIsRecorded, GivesUpForCause
  <2> QED
    BY <1>1, <2>2, <2>3 DEF StreamInv
<1> QED
  BY <1>3, <1>4, <1>5, <1>6, <1>7, <1>8, <1>9 DEF Next

\* The invariant of the stream. That no block needs the integer 0 is assumed: 0 has no Elias
\* code, and a block that needs it is not read back (DecodeEqualTimes shows one).
THEOREM StreamInvariant ==
  ASSUME AllowZero = FALSE
  PROVE  Spec => []StreamInv
<1>1. StreamInv /\ [Next]_vars => StreamInv'
  BY InStepStays
<1> QED
  BY <1>1, InStepStarts, PTL DEF Spec

\* A decoder that knows the block size prints a block only if its line has all integers. What
\* it prints is what the node put into the block, as long as it has had every line from a
\* sync line on and none was cut; after a lost line nothing is said of the values
\* (decode_block of quanto_decode.c).
THEOREM PrintedFaithfully ==
  ASSUME AllowZero = FALSE
  PROVE  Spec => []PrintedIsRecorded
<1>1. StreamInv => PrintedIsRecorded
  BY DEF StreamInv
<1> QED
  BY <1>1, StreamInvariant, PTL

\* The decoder exits with an error only over the end of a line as long as the bit buffer, or
\* when it has to guess the block size from a line that was cut or has no room for its end
\* (quanto_decode.c:255-259, 275-279).
THEOREM GivenUpForCause ==
  ASSUME AllowZero = FALSE
  PROVE  Spec => []GivesUpForCause
<1>1. StreamInv => GivesUpForCause
  BY DEF StreamInv
<1> QED
  BY <1>1, StreamInvariant, PTL

\* A decoder that knows the block size prints a whole sync line as it was recorded, whatever
\* was lost before it: if it fell behind, it is in step again (CompressTask's MTFSYNC).
THEOREM SyncLinesPrinted ==
  ASSUME AllowZero = FALSE
  PROVE  Spec => SyncLinePrinted
<1> DEFINE A == exit = -1 /\ block_size = CBLOCKSIZE /\ air # NoLine /\ air' = NoLine /\ air.sync
                /\ read' = air /\ intact' => out' = air.block
<1>1. StreamInv /\ [Next]_vars => [A]_vars
  <2> SUFFICES ASSUME StreamInv, Next, block_size = CBLOCKSIZE, air # NoLine, air' = NoLine, air.sync, intact'
               PROVE  out' = air.block
    OBVIOUS
  <2>1. CASE \E recs \in Supply : NodeCompresses(recs)
    BY <2>1 DEF NodeCompresses
  <2>2. CASE NodeReboots
    BY <2>2 DEF NodeReboots
  <2>3. CASE LineLost
    BY <2>3 DEF LineLost
  <2>4. CASE DecoderReads
    BY <2>4, ReadsInStep
  <2>5. CASE DecoderReadsRest
    BY <2>5 DEF DecoderReadsRest
  <2>6. CASE DecoderEnds
    BY <2>6 DEF DecoderEnds
  <2> QED
    BY <2>1, <2>2, <2>3, <2>4, <2>5, <2>6 DEF Next
<1> QED
  BY <1>1, StreamInvariant, PTL DEF Spec, SyncLinePrinted

\* Every variable of node and decoder has its type; no line is longer than the buffer.
THEOREM StreamTyped ==
  ASSUME AllowZero = FALSE
  PROVE  Spec => []StreamTypeOK
<1>1. StreamInv => StreamTypeOK
  <2> SUFFICES ASSUME StreamInv PROVE StreamTypeOK
    OBVIOUS
  <2>1. enc \in Codec
    BY DEF StreamInv, Typed, NodeTyped, GoodCodec
  <2>2. block_size \in 0..CBLOCKSIZE
    BY StreamConstants DEF StreamInv, Typed, DecoderTyped, Arrived
  <2>3. \A i \in DOMAIN out : out[i] \in Entry
    BY DEF StreamInv, Typed, DecoderTyped
  <2>4. Len(air.bytes) <= BITBUFSIZE /\ \A b \in ToSet(air.bytes) : b \in [1..ByteBits -> Bit]
    BY DEF StreamInv, Typed, LineTyped
  <2> QED
    BY <2>1, <2>2, <2>3, <2>4 DEF StreamInv, Typed, NodeTyped, DecoderTyped, StreamTypeOK
<1> QED
  BY <1>1, StreamInvariant, PTL
=============================================================================
