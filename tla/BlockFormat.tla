----------------------------- MODULE BlockFormat -----------------------------
(***************************************************************************)
(* What CompressTask writes and decode_block reads: a header, then the     *)
(* entries transposed, one field of all of them after the other, some as   *)
(* their move-to-front codes, and every integer in Elias gamma or delta    *)
(* code, on the node (EliasGammaC, EliasDeltaP) and in the decoders'       *)
(* library.  The node writes integers into a bit buffer bit by bit and     *)
(* refuses one that does not fit; the library clips it. The decoder fills  *)
(* one byte by byte and reads it bit by bit. bits is buf[] up to pos (so   *)
(* pos is Len(bits)), the first bit written first; bits past pos are 0 in  *)
(* the code and are not kept.                                              *)
(***************************************************************************)
EXTENDS Integers, Sequences, SequencesExt

CONSTANTS
  MaxLog,     \* integers are below 2^(MaxLog + 1)
  N,          \* symbols: 256 in the code
  WordBits    \* bits of time and icount: 32 in the code

\* 2^n, for the integers that are encoded.
Power[n \in 0..MaxLog + 1] == IF n = 0 THEN 1 ELSE 2 * Power[n - 1]

\* The codes of the symbols, from 1 on, and the words are among those integers.
ASSUME FormatAssumption ==
  /\ MaxLog \in Nat /\ N \in Nat /\ N >= 2 /\ WordBits \in Nat \ {0}
  /\ WordBits <= MaxLog + 1 /\ N < Power[MaxLog + 1]

ByteBits == 8
Bit == {0, 1}

Zeros(n) == [i \in 1..n |-> 0]

BitBuf(size) == [size : {size}, bits : UNION {[1..n -> Bit] : n \in 0..ByteBits * size},
                 rpos : 0..ByteBits * size]

bitBuf_clear(size) == [size |-> size, bits |-> << >>, rpos |-> 0]

FreeBits(buf) == ByteBits * buf.size - Len(buf.bits)

\* A full buffer swallows the bit: putBit returns FALSE, which no caller reads.
bitBuf_putBit(buf, bit) ==
  IF FreeBits(buf) = 0 THEN buf ELSE [buf EXCEPT !.bits = Append(@, bit)]

\* putBit for each bit of a sequence in turn.
PutBits(buf, s) ==
  LET put[k \in 0..Len(s)] == IF k = 0 THEN buf ELSE bitBuf_putBit(put[k - 1], s[k])
  IN  put[Len(s)]

\* Zero bits up to the next byte boundary.
bitBuf_pad(buf) ==
  LET used == Len(buf.bits) % ByteBits
  IN  IF FreeBits(buf) = 0 \/ used = 0 THEN buf
      ELSE [buf EXCEPT !.bits = @ \o Zeros(ByteBits - used)]

\* The length in bytes, a byte begun counts.
bitBuf_length(buf) == (Len(buf.bits) + ByteBits - 1) \div ByteBits

\* byte is its eight bits, the lowest first.
bitBuf_putByte(buf, byte) ==
  IF bitBuf_length(buf) = buf.size THEN buf
  ELSE [bitBuf_pad(buf) EXCEPT !.bits = @ \o byte]

\* The bit at rpos, or -1 at the end; reading it moves rpos to NextRpos.
bitBuf_getNextBit(buf, rpos) ==
  IF rpos = Len(buf.bits) THEN -1 ELSE buf.bits[rpos + 1]

\* The clamp to pos that the code computes first is overwritten by its last line.
bitBuf_setReadPos(buf, pos) == [buf EXCEPT !.rpos = pos]

bitBuf_resetReadPos(buf) == bitBuf_setReadPos(buf, 0)

\* The bytes that leave the node: getNBytes of them, the last one padded with 0.
Bytes(buf) ==
  LET padded == bitBuf_pad(buf).bits
  IN  [i \in 1..bitBuf_length(buf) |-> SubSeq(padded, ByteBits * (i - 1) + 1, ByteBits * i)]

------------------------------------------------------------------------------

\* floor(log2(b)), and 0 for 0, as the shifting loop leaves it.
FloorLog2(b) == CHOOSE l \in 0..MaxLog : b < Power[l + 1] /\ (l = 0 \/ Power[l] <= b)

\* The low n bits of b, the most significant first.
LowBits(b, n) == [i \in 1..n |-> (b \div Power[n - i]) % 2]

\* floor(log2(b)) zeros, then b from its first 1. Zero becomes the single bit 0.
Gamma(b) == Zeros(FloorLog2(b)) \o LowBits(b, FloorLog2(b) + 1)

\* The length of b in gamma code, then b without its first 1.
Delta(b) == Gamma(FloorLog2(b) + 1) \o LowBits(b, FloorLog2(b))

Code(codec, b) == IF codec = "gamma" THEN Gamma(b) ELSE Delta(b)

\* The library's encoders put bit after bit, whatever the room.
elias_gamma_encode(b, buf) == PutBits(buf, Gamma(b))
elias_delta_encode(b, buf) == PutBits(buf, Delta(b))

\* The node's encoders look for room first; every caller ignores the 0 they return.
encodeGamma(buf, b) == IF Len(Gamma(b)) > FreeBits(buf) THEN buf ELSE PutBits(buf, Gamma(b))
encodeDelta(buf, b) == IF Len(Delta(b)) > FreeBits(buf) THEN buf ELSE PutBits(buf, Delta(b))

Ends(buf) == [n |-> 0, rpos |-> Len(buf.bits)]

\* 1 followed by the n bits after rpos, read as a binary number.
OneThen(buf, rpos, n) ==
  LET value[i \in 0..n] ==
        IF i = 0 THEN 1 ELSE 2 * value[i - 1] + bitBuf_getNextBit(buf, rpos + i - 1)
  IN  value[n]

\* The integer at rpos and the position after it; 0 when the buffer ends in the zeros or
\* in the bits that follow them.
elias_gamma_decode(buf, rpos) ==
  LET ones  == {i \in rpos..Len(buf.bits) - 1 : bitBuf_getNextBit(buf, i) = 1}
      first == Min(ones)
      l     == first - rpos
  IN  IF ones = {} \/ first + 1 + l > Len(buf.bits) THEN Ends(buf)
      ELSE [n |-> OneThen(buf, first + 1, l), rpos |-> first + 1 + l]

elias_delta_decode(buf, rpos) ==
  LET len == elias_gamma_decode(buf, rpos)
      l   == len.n - 1
  IN  IF len.n = 0 \/ len.rpos + l > Len(buf.bits) THEN Ends(buf)
      ELSE [n |-> OneThen(buf, len.rpos, l), rpos |-> len.rpos + l]

\* What a decoder must do with what an encoder wrote: read the same integers back and
\* then find the end, with up to a byte of padding after them.
RoundTrip(codec, ints, size) ==
  LET put(b, buf) == IF codec = "gamma" THEN elias_gamma_encode(b, buf) ELSE elias_delta_encode(b, buf)
      buf   == bitBuf_pad(put(ints[2], put(ints[1], bitBuf_clear(size))))
      get(rpos) == IF codec = "gamma" THEN elias_gamma_decode(buf, rpos) ELSE elias_delta_decode(buf, rpos)
      one   == get(0)
      two   == get(one.rpos)
  IN  one.n = ints[1] /\ two.n = ints[2] /\ get(two.rpos).n = 0

-----------------------------------------------------------------------------
(* The move-to-front code on the symbols 0..N-1: a linked list in an array *)
(* and its head h. The last element should point to itself, but init       *)
(* leaves order[N - 1] as it was, so after an init the list may end in a   *)
(* pointer back into itself.                                               *)

Symbol == 0..N - 1
MtfEncoder == [order : [Symbol -> Symbol], h : Symbol]

\* static data: all zero before the first init
MtfZero == [order |-> [i \in Symbol |-> 0], h |-> 0]

\* Mutant of mtf_init: the loop ends one element early.
mtf_init_Short(mtf) ==
  [order |-> [i \in Symbol |-> IF i < N - 2 THEN i + 1 ELSE mtf.order[i]], h |-> 0]

mtf_init(mtf) ==
  [order |-> [i \in Symbol |-> IF i < N - 1 THEN i + 1 ELSE mtf.order[i]], h |-> 0]

\* The element i steps from the head.
Nth(mtf, i) ==
  LET walk[k \in 0..N - 1] == IF k = 0 THEN mtf.h ELSE mtf.order[walk[k - 1]]
  IN  walk[i]

\* Element v, the successor of p, becomes the head.
MoveUp(mtf, p, v) ==
  LET next == IF mtf.order[v] = v THEN p ELSE mtf.order[v]
  IN  [order |-> [mtf.order EXCEPT ![p] = next, ![v] = mtf.h], h |-> v]

\* The steps to symbol b, and the list with b in front.
mtf_encode(mtf, b) ==
  LET i == CHOOSE i \in Symbol : Nth(mtf, i) = b /\ \A j \in 0..i - 1 : Nth(mtf, j) # b
  IN  [code |-> i, mtf |-> IF i = 0 THEN mtf ELSE MoveUp(mtf, Nth(mtf, i - 1), b)]

\* The symbol b steps from the head, and the list with it in front.
mtf_decode(mtf, b) ==
  [symbol |-> Nth(mtf, b),
   mtf |-> IF b = 0 THEN mtf ELSE MoveUp(mtf, Nth(mtf, b - 1), Nth(mtf, b))]

\* The list the structure stands for, whatever its last pointer is.
ListOf(mtf) == [i \in Symbol |-> Nth(mtf, i)]

-----------------------------------------------------------------------------
Word == 0..Power[WordBits] - 1
Wrap(n) == n % Power[WordBits]

Entry == [type : Symbol, res : Symbol, time : Word, ic : Word, msb : Symbol, lsb : Symbol]

Fields == <<"type", "res", "time", "ic", "msb", "lsb">>
MtfField == {"type", "res", "msb", "lsb"}

\* The field and the entry of the k-th integer after the header of a block of n entries.
FieldOf(k, n) == Fields[(k - 1) \div n + 1]
EntryOf(k, n) == ((k - 1) % n) + 1

\* What both sides keep from one block to the next.
Codec == [mtf : MtfEncoder, time : Word, ic : Word]
CodecZero == [mtf |-> MtfZero, time |-> 0, ic |-> 0]
==============================================================================
