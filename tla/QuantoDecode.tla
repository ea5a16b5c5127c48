---------------------------- MODULE QuantoDecode -----------------------------
(*****************************************************************************)
(* The two decoders: quanto_decode of blocks in Elias gamma code, and        *)
(* quanto_decode_delta of blocks in Elias delta code.  decode_block is what  *)
(* CompressTask does, reversed; it is given the integer at each position of  *)
(* the buffer (read).                                                        *)
(*****************************************************************************)
EXTENDS BlockFormat

CONSTANT BITBUFSIZE

VARIABLES dec, block_size, syncd, initial_sync, rest, out, exit

\* Mutant of ValueOf: the time of an entry is not kept for the next one.
ValueOf_ForgetsTime(codec, field, d, absolute) ==
  CASE field \in MtfField -> LET m == mtf_decode(codec.mtf, (d - 1) % N)
                             IN  [v |-> m.symbol, codec |-> [codec EXCEPT !.mtf = m.mtf]]
    [] field = "time" -> [v |-> IF absolute THEN Wrap(d - 1) ELSE Wrap(d + codec.time), codec |-> codec]
    [] field = "ic"   -> LET c == IF absolute THEN Wrap(d - 1) ELSE Wrap(d + codec.ic - 1)
                         IN  [v |-> c, codec |-> [codec EXCEPT !.ic = c]]

\* The value that integer d stands for in a field, and the codec after it.
ValueOf(codec, field, d, absolute) ==
  CASE field \in MtfField -> LET m == mtf_decode(codec.mtf, (d - 1) % N)
                             IN  [v |-> m.symbol, codec |-> [codec EXCEPT !.mtf = m.mtf]]
    [] field = "time" -> LET t == IF absolute THEN Wrap(d - 1) ELSE Wrap(d + codec.time)
                         IN  [v |-> t, codec |-> [codec EXCEPT !.time = t]]
    [] field = "ic"   -> LET c == IF absolute THEN Wrap(d - 1) ELSE Wrap(d + codec.ic - 1)
                         IN  [v |-> c, codec |-> [codec EXCEPT !.ic = c]]

\* An entry of the block that main allocates: decode_block fills all of its fields, or main does
\* not print the block.
Unset == [type |-> 0, res |-> 0, time |-> 0, ic |-> 0, msb |-> 0, lsb |-> 0]

\* The k-th integer after the header; once one is missing (0) the function returns 0, the
\* codec as far as it got.
DecodeStep(read, n, sync, st, k) ==
  LET d == read[st.rpos]
      x == ValueOf(st.codec, FieldOf(k, n), d.n, sync /\ EntryOf(k, n) = 1)
  IN  IF ~st.ok \/ d.n = 0 THEN [st EXCEPT !.ok = FALSE]
      ELSE [st EXCEPT !.rpos = d.rpos, !.codec = x.codec,
                      !.block[EntryOf(k, n)][FieldOf(k, n)] = x.v]

DecodeBlock(read, codec, rpos, n, sync) ==
  LET after[k \in 0..6 * n] ==
        IF k = 0 THEN [ok |-> TRUE, rpos |-> rpos, block |-> [i \in 1..n |-> Unset],
                       codec |-> IF sync THEN [codec EXCEPT !.mtf = mtf_init(@)] ELSE codec]
        ELSE DecodeStep(read, n, sync, after[k - 1], k)
  IN  after[6 * n]

------------------------------------------------------------------------------
gamma_block(codec, buf, rpos, n, sync) ==
  DecodeBlock([p \in 0 .. Len(buf.bits) |-> elias_gamma_decode(buf, p)], codec, rpos, n, sync)

delta_block(codec, buf, rpos, n, sync) ==
  DecodeBlock([p \in 0 .. Len(buf.bits) |-> elias_delta_decode(buf, p)], codec, rpos, n, sync)

GammaMain == INSTANCE DecoderMain WITH EliasDecode <- elias_gamma_decode, decode_block <- gamma_block
DeltaMain == INSTANCE DecoderMain WITH EliasDecode <- elias_delta_decode, decode_block <- delta_block

\* Both begin alike.
DecoderInit == GammaMain!Init

\* One turn of the loop of main: a line of bytes, or what is left of one that was cut.
main_reads(bytes) == GammaMain!ReadLine(bytes)
main_reads_rest == GammaMain!ReadRest
main_ends == GammaMain!EndOfInput

delta_main_reads(bytes) == DeltaMain!ReadLine(bytes)
delta_main_reads_rest == DeltaMain!ReadRest
delta_main_ends == DeltaMain!EndOfInput
==============================================================================
