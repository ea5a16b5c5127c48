-------------------------- MODULE CompressedStream ---------------------------
(***************************************************************************)
(* From the node to the decoder's output: the node compresses one block    *)
(* after the other, a block travels as a line that may be lost, the node   *)
(* may reboot, and the decoder of the same code reads the lines it gets.   *)
(***************************************************************************)
EXTENDS BlockFormat

CONSTANTS
  CBLOCKSIZE,   \* entries of a block
  BITBUFSIZE,   \* bytes of the bit buffer
  MTFSYNC,      \* every MTFSYNC-th block is a sync block
  MaxBlocks,    \* bound: blocks the node compresses
  MaxReboots,   \* bound: times the node reboots
  Supply,       \* inputs: blocks, each entry with the time and the count since the last one
  AllowZero     \* whether a block may need the integer 0, which has no Elias code
ASSUME StreamAssumption ==
  /\ {CBLOCKSIZE, BITBUFSIZE, MTFSYNC} \subseteq Nat \ {0}
  /\ {MaxBlocks, MaxReboots} \subseteq Nat /\ AllowZero \in BOOLEAN
ASSUME SupplyAssumption ==
  \A recs \in Supply :
    recs \in [1..CBLOCKSIZE -> [type : Symbol, res : Symbol, dt : Nat, dic : Nat, msb : Symbol, lsb : Symbol]]

VARIABLES
  elias,    \* the code that Elias is wired to, "gamma" or "delta"
  m_sync,   \* blocks since the last sync block
  enc,      \* the encoder's move-to-front list, last_time and last_ic
  blocks, reboots,   \* counters for the bounds
  air,               \* the line under way, or NoLine
  dec, block_size, syncd, initial_sync, rest, out, exit,   \* the decoder
  intact,    \* the decoder has got all lines from the last sync line on, and they were whole
  read       \* the line that the decoder read last, or NoLine

nodeVars == <<elias, m_sync, enc>>
decVars == <<dec, block_size, syncd, initial_sync, rest, out, exit>>
ghostVars == <<intact, read>>
vars == <<nodeVars, blocks, reboots, air, decVars, ghostVars>>

QD == INSTANCE QuantoDecode

-----------------------------------------------------------------------------
(* CompressTask: a block of entries becomes one line of bytes. The blocks  *)
(* are those that leave the ring buffer of CompressedLog.                  *)

encodeInt(buf, b) == IF elias = "gamma" THEN encodeGamma(buf, b) ELSE encodeDelta(buf, b)

\* The integer that stands for value v of a field, and the codec after it.
IntOf(codec, field, v, absolute) ==
  CASE field \in MtfField -> LET e == mtf_encode(codec.mtf, v)
                             IN  [n |-> e.code + 1, codec |-> [codec EXCEPT !.mtf = e.mtf]]
    [] field = "time" -> [n |-> IF absolute THEN Wrap(v + 1) ELSE Wrap(v - codec.time),
                          codec |-> [codec EXCEPT !.time = v]]
    [] field = "ic"   -> [n |-> IF absolute THEN Wrap(v + 1) ELSE Wrap(v - codec.ic + 1),
                          codec |-> [codec EXCEPT !.ic = v]]

\* Integer n is encoded; ints keeps what was to be encoded, whole whether all found room.
Encoded(st, codec, n) ==
  [buf |-> encodeInt(st.buf, n), codec |-> codec, ints |-> Append(st.ints, n),
   whole |-> st.whole /\ Len(Code(elias, n)) <= FreeBits(st.buf)]

\* One integer of the block.
EncodeStep(block, sync, st, k) ==
  LET e == IntOf(st.codec, FieldOf(k, CBLOCKSIZE),
                 block[EntryOf(k, CBLOCKSIZE)][FieldOf(k, CBLOCKSIZE)],
                 sync /\ EntryOf(k, CBLOCKSIZE) = 1)
  IN  Encoded(st, e.codec, e.n)

CompressBlock(block, sync) ==
  LET empty == [buf |-> bitBuf_clear(BITBUFSIZE), ints |-> << >>, whole |-> TRUE]
      after[k \in 0..6 * CBLOCKSIZE] ==
        IF k = 0 THEN Encoded(empty, IF sync THEN [enc EXCEPT !.mtf = mtf_init(@)] ELSE enc,
                              IF sync THEN 2 ELSE 1)
        ELSE EncodeStep(block, sync, after[k - 1], k)
  IN  after[6 * CBLOCKSIZE]

BootedCodec == [CodecZero EXCEPT !.mtf = mtf_init(@)]

\* Boot.booted; the last pointer of the list has its initial value.
Init == elias \in {"gamma", "delta"} /\ m_sync = 0 /\ enc = BootedCodec

Reboot == m_sync' = 0 /\ enc' = BootedCodec /\ UNCHANGED elias

\* Mutant of runTask: the count of blocks goes on without the modulo.
runTask_NoModulo(c) == m_sync' = m_sync + 1 /\ enc' = c.codec /\ UNCHANGED elias

\* The task with its block compressed as c.
runTask(c) ==
  /\ m_sync' = (m_sync + 1) % MTFSYNC
  /\ enc' = c.codec
  /\ UNCHANGED elias

-----------------------------------------------------------------------------

NoLine == [bytes |-> << >>]

\* The entries of a block that starts after time and count of the last one.
BlockOf(recs) ==
  LET time[i \in 0..CBLOCKSIZE] == IF i = 0 THEN enc.time ELSE Wrap(time[i - 1] + recs[i].dt)
      ic[i \in 0..CBLOCKSIZE]   == IF i = 0 THEN enc.ic ELSE Wrap(ic[i - 1] + recs[i].dic)
  IN  [i \in 1..CBLOCKSIZE |-> [type |-> recs[i].type, res |-> recs[i].res, time |-> time[i],
                                ic |-> ic[i], msb |-> recs[i].msb, lsb |-> recs[i].lsb]]

\* The line of a block that c compressed. sync, block and whole are not on the line.
LineOf(block, c) ==
  [bytes |-> Bytes(c.buf), sync |-> m_sync = 0, block |-> block, whole |-> c.whole]

StreamInit ==
  /\ Init /\ blocks = 0 /\ reboots = 0 /\ air = NoLine
  /\ QD!DecoderInit
  /\ intact = FALSE /\ read = NoLine

\* The task runs and its port writes the line.
NodeCompresses(recs) ==
  LET block == BlockOf(recs)
      c     == CompressBlock(block, m_sync = 0)
  IN  /\ blocks < MaxBlocks /\ air = NoLine
      /\ AllowZero \/ 0 \notin ToSet(c.ints)
      /\ runTask(c)
      /\ air' = LineOf(block, c) /\ blocks' = blocks + 1
      /\ UNCHANGED <<reboots, decVars, ghostVars>>

\* The node loses its memory; a line under way still arrives.
NodeReboots ==
  /\ reboots < MaxReboots
  /\ reboots' = reboots + 1 /\ Reboot
  /\ UNCHANGED <<blocks, air, decVars, ghostVars>>

LineLost ==
  /\ air # NoLine /\ air' = NoLine /\ intact' = FALSE
  /\ UNCHANGED <<nodeVars, blocks, reboots, decVars, read>>

DecoderReads ==
  /\ air # NoLine /\ air' = NoLine
  /\ IF elias = "gamma" THEN QD!main_reads(air.bytes) ELSE QD!delta_main_reads(air.bytes)
  /\ intact' = ((intact \/ air.sync) /\ air.whole)
  /\ read' = air
  /\ UNCHANGED <<nodeVars, blocks, reboots>>

DecoderReadsRest ==
  /\ IF elias = "gamma" THEN QD!main_reads_rest ELSE QD!delta_main_reads_rest
  /\ UNCHANGED <<nodeVars, blocks, reboots, air, intact, read>>

DecoderEnds ==
  /\ blocks = MaxBlocks /\ air = NoLine
  /\ IF elias = "gamma" THEN QD!main_ends ELSE QD!delta_main_ends
  /\ UNCHANGED <<nodeVars, blocks, reboots, air, ghostVars>>

Next ==
  \/ \E recs \in Supply : NodeCompresses(recs)
  \/ NodeReboots \/ LineLost \/ DecoderReads \/ DecoderReadsRest \/ DecoderEnds

Spec == StreamInit /\ [][Next]_vars
-----------------------------------------------------------------------------
StreamTypeOK ==
  /\ elias \in {"gamma", "delta"} /\ m_sync \in 0..MTFSYNC - 1 /\ enc \in Codec
  /\ blocks \in 0..MaxBlocks /\ reboots \in 0..MaxReboots
  /\ dec \in Codec /\ block_size \in 0..CBLOCKSIZE /\ exit \in {-1, 0, 1, 2}
  /\ {syncd, initial_sync, rest, intact} \subseteq BOOLEAN
  /\ syncd => initial_sync
  /\ \A i \in DOMAIN out : out[i] \in Entry
  /\ Len(air.bytes) <= BITBUFSIZE /\ \A b \in ToSet(air.bytes) : b \in [1..ByteBits -> Bit]

\* Whatever lines were lost, cut or decoded out of step before, both move-to-front lists are
\* lists of all symbols: no index on a line leads the decoder past an end, and the pointer
\* that mtf_init leaves as it was is never followed to a symbol twice.
ListsArePermutations ==
  \A mtf \in {enc.mtf} \cup (IF initial_sync THEN {dec.mtf} ELSE {}) : ToSet(ListOf(mtf)) = Symbol /\ IsInjective(ListOf(mtf))

\* A decoder that knows the block size prints no block of which an integer found no room in
\* the bit buffer, not even with the integers behind the gap moved up; and with no line
\* missing or cut since the last sync line it prints the very entries of the node, those
\* with clocks that wrap or go back included. After a missing line the values that it
\* prints may be wrong, until the next sync line.
PrintedIsRecorded ==
  block_size = CBLOCKSIZE /\ out # << >> => read.whole /\ (intact => out = read.block)

\* The decoder gives up only over the end of a line as long as the bit buffer, or when the
\* first line it gets was cut.
GivesUpForCause ==
  /\ exit = 2 => Len(read.bytes) = BITBUFSIZE
  /\ exit = 1 => block_size = 0 /\ (~read.whole \/ Len(read.bytes) = BITBUFSIZE)

\* After any losses, reboots and errors, a whole sync line is printed as recorded by a
\* decoder that knows the block size.
SyncLinePrinted ==
  [][exit = -1 /\ block_size = CBLOCKSIZE /\ air # NoLine /\ air' = NoLine /\ air.sync
     /\ read' = air /\ intact'
       => out' = air.block]_vars
==============================================================================
