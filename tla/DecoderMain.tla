---------------------------- MODULE DecoderMain ------------------------------
(***************************************************************************)
(* main() of the two decoders: it reads lines of bytes, guesses the block  *)
(* size from the first, waits for a sync line and prints the blocks it can *)
(* decode. The decoders differ in the code of the integers only.           *)
(***************************************************************************)
EXTENDS BlockFormat

CONSTANTS
  BITBUFSIZE,                    \* bytes of the bit buffer, and a third of the line buffer
  EliasDecode(_, _),             \* the integer at a read position of a buffer
  decode_block(_, _, _, _, _)    \* the decoder's function of that name

VARIABLES
  dec,            \* the statics of decode_block: mtf, last_time, last_icount
  block_size,     \* 0 until it is guessed
  syncd, initial_sync,
  rest,           \* the end of a line that did not fit line_buf is still to be read
  out,            \* what the last line made the decoder print, or << >>
  exit            \* -1 while running, else the exit code

mainVars == <<dec, block_size, syncd, initial_sync, rest, out, exit>>

Init ==
  /\ dec = CodecZero /\ block_size = 0
  /\ syncd = FALSE /\ initial_sync = FALSE /\ rest = FALSE
  /\ out = << >> /\ exit = -1

FillBuffer(bytes) ==
  LET filled[k \in 0..Len(bytes)] ==
        IF k = 0 THEN bitBuf_clear(BITBUFSIZE) ELSE bitBuf_putByte(filled[k - 1], bytes[k])
  IN  filled[Len(bytes)]

\* How many integers the buffer holds from its start.
Count(buf) ==
  LET upto[k \in 0..Len(buf.bits)] ==   \* every integer takes a bit or more
        IF k = 0 THEN [count |-> 0, rpos |-> bitBuf_resetReadPos(buf).rpos]
        ELSE LET before == upto[k - 1]
                 d      == EliasDecode(buf, before.rpos)
             IN  [count |-> before.count + (IF d.n = 0 THEN 0 ELSE 1), rpos |-> d.rpos]
  IN  upto[Len(buf.bits)].count

\* Mutant of Guess: the header is not counted.
Guess_NoHeader(buf) ==
  LET count == Count(buf)
  IN  IF count % 6 # 0 THEN [ok |-> FALSE, size |-> 0] ELSE [ok |-> TRUE, size |-> count \div 6]

Guess(buf) ==
  LET count == Count(buf)
  IN  IF count % 6 # 1 THEN [ok |-> FALSE, size |-> 0] ELSE [ok |-> TRUE, size |-> count \div 6]

Stop(code) ==
  /\ exit' = code /\ out' = << >>
  /\ UNCHANGED <<dec, block_size, syncd, initial_sync>>

\* Mutant of DecodeLine: a sync line counts from the next line on.
DecodeLine_SyncLate(buf, size, header) ==
  LET sync == header.n = 2
      d    == decode_block(dec, buf, header.rpos, size, sync)
  IN  /\ block_size' = size /\ initial_sync' = (initial_sync \/ sync)
      /\ dec' = d.codec
      /\ syncd' = ((syncd \/ sync) /\ d.ok)
      /\ out' = IF syncd /\ d.ok THEN d.block ELSE << >>
      /\ UNCHANGED exit

\* A line whose header is in place, with the block size known. (The counters of lines and
\* errors that the last lines of main print are left out.)
DecodeLine(buf, size, header) ==
  LET sync    == header.n = 2
      d       == decode_block(dec, buf, header.rpos, size, sync)
      isSyncd == syncd \/ sync
  IN  /\ block_size' = size /\ initial_sync' = (initial_sync \/ sync)
      /\ dec' = d.codec
      /\ syncd' = (isSyncd /\ d.ok)
      /\ out' = IF isSyncd /\ d.ok THEN d.block ELSE << >>
      /\ UNCHANGED exit

\* One turn of the main loop, on the bytes that sscanf finds in line_buf.
Turn(bytes) ==
  LET buf    == FillBuffer(bytes)
      guess  == IF block_size = 0 THEN Guess(buf) ELSE [ok |-> TRUE, size |-> block_size]
      header == EliasDecode(buf, 0)
  IN  \/ ~guess.ok /\ Stop(1)
      \/ guess.ok /\ header.n \notin {1, 2} /\ Stop(2)
      \/ guess.ok /\ header.n \in {1, 2} /\ DecodeLine(buf, guess.size, header)

\* fgets takes the text of a line, three characters for a byte and a newline, up to the
\* 3 * BITBUFSIZE - 1 characters that line_buf holds; the next turn gets what is left.
ReadLine(bytes) ==
  /\ exit = -1 /\ ~rest
  /\ rest' = (Len(bytes) * 3 + 1 > BITBUFSIZE * 3 - 1)
  /\ Turn(bytes)

\* No byte is left of a line that was cut, only its newline.
ReadRest ==
  /\ exit = -1 /\ rest
  /\ rest' = FALSE
  /\ Turn(<< >>)

EndOfInput == exit = -1 /\ ~rest /\ Stop(0) /\ UNCHANGED rest
==============================================================================
