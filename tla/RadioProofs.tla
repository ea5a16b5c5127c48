------------------------------ MODULE RadioProofs ------------------------------
(***************************************************************************)
(* That a received frame is in one hand and that the receiver's counts     *)
(* keep their range, whatever arrives, whatever its bytes are, and for any *)
(* sizes of the FIFO and of frames.                                        *)
(*                                                                         *)
(* Then that the transmitter gives back the bus, and that it and medium    *)
(* access above it keep the safe half of the promise of RadioSend: for any *)
(* messages, whatever the chip, the channel and other users of the bus do. *)
(*                                                                         *)
(* Last, what this says of the two halves of the radio.                    *)
(***************************************************************************)
EXTENDS Radio, SequenceTheorems, TLAPS

HandTypes ==
  /\ reading \in Nat
  /\ request \in {"none", "asked", "granted", "owner"}
  /\ donePosted \in BOOLEAN /\ waits \in BOOLEAN /\ others \in BOOLEAN

(* What FrameInOneHand rests on: the bus is waited for only before a       *)
(* length byte, so that a grant does not read in the middle of a frame;    *)
(* and a header is read only of a frame that is longer, so that the rest   *)
(* of it is read as well.                                                  *)
GrantsReadLengths == request \in {"asked", "granted"} => m_state \in {"RX_LENGTH", "STOPPED"}
HeadersHaveRest ==
  m_state = "RX_FCF" /\ reading > 0 => rxFrameLength \in Nat /\ rxFrameLength > SACK_HEADER_LENGTH

HandInv == HandTypes /\ GrantsReadLengths /\ HeadersHaveRest /\ FrameInOneHand

------------------------------------------------------------------------------
(* What begins to receive has nothing in hand, and has the bus already, or *)
(* gets it or asks for it.                                                 *)
LEMMA BeginKeeps ==
  ASSUME HandInv, NEW missed, beginReceive(missed), reading = 0,
         request \in {"none", "owner"},
         ~donePosted', ~waits', donePosted' \in BOOLEAN, waits' \in BOOLEAN
  PROVE  HandInv'
<1>1. CASE isOwner \/ (request = "none" /\ ~others)
  <2>1. reading' = 1 /\ request' = "owner" /\ others' = others /\ m_state' = "RX_LENGTH"
    BY <1>1 DEF beginReceive, receive
  <2>2. ~others
    BY <1>1 DEF HandInv, FrameInOneHand, isOwner
  <2> QED
    BY <2>1, <2>2 DEF HandInv, HandTypes, GrantsReadLengths, HeadersHaveRest, FrameInOneHand
<1>2. CASE ~(isOwner \/ (request = "none" /\ ~others))
  <2>1. request' \in {"asked", "granted"} /\ reading' = reading /\ others' = others
        /\ m_state' = "RX_LENGTH"
    BY <1>2 DEF beginReceive
  <2> QED
    BY <2>1 DEF HandInv, HandTypes, GrantsReadLengths, HeadersHaveRest, FrameInOneHand
<1> QED BY <1>1, <1>2

(* A read that has ended leaves the frame with one other at most, who may  *)
(* keep the bus.                                                           *)
LEMMA EndKeeps ==
  ASSUME HandInv, reading > 0, reading' = 0, release \/ (UNCHANGED busVars /\ (donePosted' \/ waits')),
         m_state' # "STARTED", donePosted' \in BOOLEAN, waits' \in BOOLEAN, ~(donePosted' /\ waits')
  PROVE  HandInv'
<1>1. request = "owner"
  BY DEF HandInv, FrameInOneHand
<1>2. CASE release
  <2>1. request' = "none" /\ others' \in BOOLEAN
    BY <1>1, <1>2 DEF release, isOwner
  <2> QED
    BY <2>1 DEF HandInv, HandTypes, GrantsReadLengths, HeadersHaveRest, FrameInOneHand
<1>3. CASE UNCHANGED busVars /\ (donePosted' \/ waits')
  BY <1>1, <1>3 DEF busVars, HandInv, HandTypes, GrantsReadLengths, HeadersHaveRest, FrameInOneHand
<1> QED BY <1>2, <1>3

LEMMA InitHand == ASSUME Init PROVE HandInv
<1>1. m_state = "STOPPED" /\ reading = 0 /\ request = "none"
      /\ donePosted = FALSE /\ waits = FALSE /\ others = FALSE
  BY DEF Init
<1>2. HandTypes
  BY <1>1 DEF HandTypes
<1>3. GrantsReadLengths /\ HeadersHaveRest
  BY <1>1 DEF GrantsReadLengths, HeadersHaveRest
<1>4. FrameInOneHand
  BY <1>1 DEF FrameInOneHand
<1> QED
  BY <1>2, <1>3, <1>4 DEF HandInv

LEMMA LengthKeeps == ASSUME ReceiveAssumption, HandInv, reading > 0, ~waits, LengthDone PROVE HandInv'
<1>1. request = "owner" /\ donePosted = FALSE /\ ~others /\ donePosted' = donePosted
  BY DEF HandInv, HandTypes, FrameInOneHand, LengthDone
<1> DEFINE n == rxFrameLength'
<1>2. CASE m_state' = "RX_FCF" /\ Flush
  <2>1. release /\ reading' = 0 /\ waits' = TRUE
    BY <1>2 DEF Flush
  <2> QED
    BY <1>1, <1>2, <2>1, EndKeeps
<1>3. CASE m_state' = "RX_FCF" /\ release /\ reading' = 0 /\ waits' = TRUE
  BY <1>1, <1>3, EndKeeps
<1>4. CASE /\ n \in 1..MAC_PACKET_SIZE
           /\ IF n > SACK_HEADER_LENGTH
              THEN m_state' = "RX_FCF" /\ reading' = SACK_HEADER_LENGTH
              ELSE m_state' = "RX_PAYLOAD" /\ reading' = n
           /\ UNCHANGED <<receivingPacket, waits, busVars>>
  <2>1. SACK_HEADER_LENGTH \in Nat /\ SACK_HEADER_LENGTH > 0 /\ MAC_PACKET_SIZE \in Nat
    BY DEF ReceiveAssumption
  <2>2. reading' \in Nat /\ reading' > 0 /\ m_state' # "STARTED"
    BY <1>4, <2>1
  <2>3. HeadersHaveRest'
    BY <1>4, <2>1 DEF HeadersHaveRest
  <2>4. request' = "owner" /\ others' = others /\ waits' = waits
    BY <1>1, <1>4 DEF busVars
  <2> QED
    BY <1>1, <2>2, <2>3, <2>4 DEF HandInv, HandTypes, GrantsReadLengths, FrameInOneHand
<1> QED BY <1>2, <1>3, <1>4 DEF LengthDone

LEMMA ReadKeeps == ASSUME ReceiveAssumption, HandInv, RXFIFOReadDone PROVE HandInv'
<1>1. reading > 0 /\ waits = FALSE /\ request = "owner" /\ donePosted = FALSE /\ ~others
  BY DEF RXFIFOReadDone, HandInv, HandTypes, FrameInOneHand
<1>2. CASE LengthDone
  BY <1>1, <1>2, LengthKeeps
<1>3. CASE HeaderDone
  <2>1. SACK_HEADER_LENGTH \in Nat
    BY DEF ReceiveAssumption
  <2>2. rxFrameLength \in Nat /\ rxFrameLength > SACK_HEADER_LENGTH
    BY <1>1, <1>3 DEF HeaderDone, HandInv, HeadersHaveRest
  <2>3. reading' \in Nat /\ reading' > 0 /\ m_state' = "RX_PAYLOAD"
    BY <1>3, <2>1, <2>2 DEF HeaderDone
  <2>4. UNCHANGED <<donePosted, waits, request, others>>
    BY <1>3 DEF HeaderDone, busVars
  <2> QED
    BY <1>1, <2>3, <2>4 DEF HandInv, HandTypes, GrantsReadLengths, HeadersHaveRest, FrameInOneHand
<1>4. CASE PayloadDone
  <2>1. m_state' = "RX_PAYLOAD" /\ reading' = 0
    BY <1>4 DEF PayloadDone, receiver
  <2>2. (donePosted' = TRUE /\ waits' = waits) \/ (waits' = TRUE /\ donePosted' = donePosted)
    BY <1>4 DEF PayloadDone, PassOn
  <2>3. release \/ UNCHANGED busVars
    BY <1>4 DEF PayloadDone, MayReleaseBus
  <2> QED
    BY <1>1, <2>1, <2>2, <2>3, EndKeeps
<1>5. CASE UnexpectedDone
  <2>1. m_state' = m_state /\ m_state # "STARTED" /\ reading' = 0 /\ release
        /\ UNCHANGED <<donePosted, waits>>
    BY <1>1, <1>5 DEF UnexpectedDone, HandInv, FrameInOneHand
  <2> QED
    BY <1>1, <2>1, EndKeeps
<1> QED BY <1>2, <1>3, <1>4, <1>5 DEF RXFIFOReadDone

LEMMA WaitKeeps == ASSUME HandInv, waitForNextPacket PROVE HandInv'
<1>1. waits /\ waits' = FALSE /\ donePosted = FALSE /\ donePosted' = donePosted
      /\ request \in {"none", "owner"} /\ reading = 0
  BY DEF waitForNextPacket, HandInv, HandTypes, FrameInOneHand
<1>2. ASSUME release, m_state' \in {"STOPPED", "STARTED"}, reading' = reading,
             m_state' = "STARTED" => receivingPacket' = FALSE
      PROVE  HandInv'
  <2>1. request' = "none" /\ others' \in BOOLEAN
    BY <1>1, <1>2 DEF release, isOwner, busVars, HandInv, HandTypes
  <2> QED
    BY <1>1, <1>2, <2>1 DEF HandInv, HandTypes, GrantsReadLengths, HeadersHaveRest, FrameInOneHand
<1>3. CASE m_state = "STOPPED" /\ release /\ UNCHANGED <<receiver, reading>>
  BY <1>2, <1>3 DEF receiver
<1>4. CASE beginReceive(IF m_missed_packets > 0 THEN m_missed_packets - 1 ELSE 0)
  BY <1>1, <1>4, BeginKeeps
<1>5. CASE m_state' = "STARTED" /\ receivingPacket' = FALSE /\ release /\ UNCHANGED reading
  BY <1>2, <1>5
<1> QED BY <1>3, <1>4, <1>5 DEF waitForNextPacket

LEMMA StepKeeps == ASSUME ReceiveAssumption, HandInv, [Next]_vars PROVE HandInv'
<1> USE DEF HandInv, HandTypes, GrantsReadLengths, HeadersHaveRest, FrameInOneHand
<1>1. CASE Start
  BY <1>1 DEF Start, reset_state, busVars
<1>2. CASE Stop
  BY <1>2 DEF Stop, reset_state, busVars
<1>3. ASSUME NEW n \in 0..MAC_PACKET_SIZE, FrameArrives(n) PROVE HandInv'
  BY <1>3 DEF FrameArrives, receiver, busVars
<1>4. CASE InterruptFIFOPFired
  <2>1. CASE m_state = "STARTED" /\ beginReceive(m_missed_packets)
    <3>1. ~waits /\ UNCHANGED <<donePosted, waits>>
      BY <1>4 DEF InterruptFIFOPFired
    <3>2. request = "none" /\ ~donePosted /\ reading = 0
      BY <2>1
    <3> QED
      BY <2>1, <3>1, <3>2, BeginKeeps
  <2>2. CASE m_state # "STARTED"
    BY <1>4, <2>2 DEF InterruptFIFOPFired, busVars
  <2> QED BY <1>4, <2>1, <2>2 DEF InterruptFIFOPFired
<1>5. CASE SpiResourceGranted
  BY <1>5 DEF SpiResourceGranted, receive, receiver
<1>6. CASE RXFIFOReadDone
  BY <1>6, ReadKeeps
<1>7. CASE receiveDone_task
  BY <1>7 DEF receiveDone_task, busVars
<1>8. CASE waitForNextPacket
  BY <1>8, WaitKeeps
<1>9. CASE OthersTakeBus
  BY <1>9 DEF OthersTakeBus, receiver
<1>10. CASE OthersReleaseBus
  BY <1>10 DEF OthersReleaseBus, receiver
<1>11. CASE UNCHANGED vars
  BY <1>11 DEF vars, receiver, busVars
<1> QED
  BY <1>1, <1>2, <1>3, <1>4, <1>5, <1>6, <1>7, <1>8, <1>9, <1>10, <1>11 DEF Next

(* A frame that is received is in exactly one of the hands that take turns *)
(* with it, and the bus is asked for and kept accordingly, for every size  *)
(* of the FIFO and whatever bytes are read (CC2420ReceiveP.nc:188-464).    *)
THEOREM FrameIsInOneHand == ReceiveAssumption => (Spec => []FrameInOneHand)
<1> SUFFICES ASSUME ReceiveAssumption PROVE Spec => []FrameInOneHand
  OBVIOUS
<1>1. Init => HandInv
  BY InitHand
<1>2. HandInv /\ [Next]_vars => HandInv'
  BY StepKeeps
<1>3. HandInv => FrameInOneHand
  BY DEF HandInv
<1> QED
  BY <1>1, <1>2, <1>3, PTL DEF Spec

------------------------------------------------------------------------------
(* Types: of the FIFO, of the counts and of the rest.                      *)
Bytes == (0..MAC_PACKET_SIZE) \cup {NoLength}
FifoTypes == fifo \in Seq(Bytes) /\ Len(fifo) <= RXFIFO_SIZE
CountTypes ==
  /\ m_missed_packets \in 0..Byte - 1 /\ rxFrameLength \in 0..RXFIFO_SIZE
  /\ m_bytes_left \in 0..RXFIFO_SIZE /\ reading \in 0..RXFIFO_SIZE
FlagTypes ==
  /\ m_state \in {"STOPPED", "STARTED", "RX_LENGTH", "RX_FCF", "RX_PAYLOAD"}
  /\ request \in {"none", "asked", "granted", "owner"}
  /\ {receivingPacket, donePosted, waits, others, overflow, fifop} \subseteq BOOLEAN

LEMMA TypesSplit == ReceiveTypeOK <=> FifoTypes /\ CountTypes /\ FlagTypes
  BY DEF ReceiveTypeOK, Bytes, FifoTypes, CountTypes, FlagTypes

(* A part of a FIFO's contents fits in it as well.                         *)
LEMMA PartOfFifo ==
  ASSUME ReceiveAssumption, NEW s \in Seq(Bytes), NEW k \in 1..Len(s) + RXFIFO_SIZE + 1,
         NEW l \in 0..Len(s), l - k < RXFIFO_SIZE
  PROVE  SubSeq(s, k, l) \in Seq(Bytes) /\ Len(SubSeq(s, k, l)) <= RXFIFO_SIZE
<1>1. RXFIFO_SIZE \in Nat /\ k \in Int /\ l \in Int /\ Len(s) \in Nat
  BY DEF ReceiveAssumption
<1>2. \A i \in k..l : s[i] \in Bytes
  <2> TAKE i \in k..l
  <2> i \in 1..Len(s)
    BY <1>1
  <2> QED
    BY ElementOfSeq
<1>3. SubSeq(s, k, l) \in Seq(Bytes) /\ Len(SubSeq(s, k, l)) = IF k <= l THEN l - k + 1 ELSE 0
  BY <1>1, <1>2, SubSeqProperties
<1> QED
  BY <1>1, <1>3

LEMMA TakenFromFifo ==
  ASSUME ReceiveAssumption, FifoTypes, NEW n \in 0..RXFIFO_SIZE, BytesTaken(n)
  PROVE  FifoTypes'
<1>1. RXFIFO_SIZE \in Nat /\ Len(fifo) \in Nat
  BY DEF ReceiveAssumption, FifoTypes
<1>2. /\ n + 1 \in 1..Len(fifo) + RXFIFO_SIZE + 1 /\ Len(fifo) \in 0..Len(fifo)
      /\ Len(fifo) - (n + 1) < RXFIFO_SIZE
  BY <1>1 DEF FifoTypes
<1> QED
  BY <1>2, PartOfFifo DEF BytesTaken, FifoTypes

LEMMA ArrivesInFifo ==
  ASSUME ReceiveAssumption, FifoTypes, NEW n \in 0..MAC_PACKET_SIZE, FrameArrives(n)
  PROVE  FifoTypes' /\ overflow' \in BOOLEAN
<1>1. RXFIFO_SIZE \in Nat /\ MAC_PACKET_SIZE \in Nat
  BY DEF ReceiveAssumption
<1>2. <<n>> \in Seq(Bytes) /\ [i \in 1..n |-> NoLength] \in Seq(Bytes)
  BY <1>1 DEF Bytes
<1>3. Frame(n) \in Seq(Bytes)
  BY <1>2, ConcatProperties DEF Frame
<1>4. Stored(n) \in Seq(Bytes)
  BY <1>3, ConcatProperties DEF Stored, FifoTypes
<1>5. overflow' = (Len(Stored(n)) > RXFIFO_SIZE)
      /\ fifo' = IF overflow' THEN SubSeq(Stored(n), 1, RXFIFO_SIZE) ELSE Stored(n)
  BY DEF FrameArrives
<1>6. CASE Len(Stored(n)) > RXFIFO_SIZE
  <2>1. 1 \in 1..Len(Stored(n)) + RXFIFO_SIZE + 1 /\ RXFIFO_SIZE \in 0..Len(Stored(n))
        /\ RXFIFO_SIZE - 1 < RXFIFO_SIZE
    BY <1>1, <1>4, <1>6
  <2>2. fifo' = SubSeq(Stored(n), 1, RXFIFO_SIZE)
    BY <1>5, <1>6
  <2> QED
    BY <1>4, <1>5, <2>1, <2>2, PartOfFifo DEF FifoTypes
<1>7. CASE ~(Len(Stored(n)) > RXFIFO_SIZE)
  <2> DEFINE over == Len(Stored(n)) > RXFIFO_SIZE
  <2>1. overflow' \in BOOLEAN /\ ~overflow'
    <3>1. overflow' = over /\ ~over /\ over \in BOOLEAN
      BY <1>5, <1>7
    <3> HIDE DEF over
    <3> QED
      BY <3>1
  <2>4. fifo' = Stored(n)
    BY <1>5, <2>1
  <2>2. Len(Stored(n)) \in Nat
    BY <1>4
  <2>3. Len(Stored(n)) <= RXFIFO_SIZE
    BY <1>1, <1>7, <2>2
  <2> QED
    BY <1>4, <2>1, <2>3, <2>4 DEF FifoTypes
<1> QED BY <1>6, <1>7

LEMMA LengthsAreShort ==
  ASSUME ReceiveAssumption, FifoTypes
  PROVE  LengthsRead \subseteq 0..RXFIFO_SIZE
<1>1. RXFIFO_SIZE \in Nat /\ MAC_PACKET_SIZE \in Nat /\ MAC_PACKET_SIZE < RXFIFO_SIZE
  BY DEF ReceiveAssumption
<1>2. fifo # << >> => Head(fifo) \in Bytes
  BY HeadTailProperties DEF FifoTypes
<1> QED
  BY <1>1, <1>2 DEF LengthsRead, Bytes

LEMMA BeginKeepsTypes ==
  ASSUME ReceiveAssumption, CountTypes, FlagTypes,
         NEW missed \in 0..Byte - 1, beginReceive(missed), RXFIFO_SIZE > 0
  PROVE  /\ CountTypes'
         /\ m_state' = "RX_LENGTH" /\ receivingPacket' = TRUE
         /\ request' \in {"asked", "granted", "owner"} /\ others' = others
<1>1. RXFIFO_SIZE \in Nat
  BY DEF ReceiveAssumption
<1>2. reading' = 1 \/ reading' = reading
  BY DEF beginReceive, receive
<1>3. rxFrameLength' = rxFrameLength /\ m_bytes_left' = m_bytes_left /\ m_missed_packets' = missed
  BY DEF beginReceive
<1>4. CountTypes'
  BY <1>1, <1>2, <1>3 DEF CountTypes
<1>5. request' \in {"asked", "granted", "owner"}
  BY DEF beginReceive, receive
<1> QED
  BY <1>4, <1>5 DEF beginReceive

LEMMA ReleaseKeepsTypes ==
  ASSUME FlagTypes, release \/ UNCHANGED busVars
  PROVE  request' \in {"none", "asked", "granted", "owner"} /\ others' \in BOOLEAN
<1>1. CASE UNCHANGED busVars
  BY <1>1 DEF busVars, FlagTypes
<1>2. CASE ~(UNCHANGED busVars)
  BY <1>2 DEF release
<1> QED BY <1>1, <1>2

LEMMA LengthKeepsTypes ==
  ASSUME ReceiveAssumption, FifoTypes, CountTypes, FlagTypes, LengthDone
  PROVE  FifoTypes' /\ CountTypes' /\ FlagTypes'
<1>1. /\ RXFIFO_SIZE \in Nat /\ MAC_PACKET_SIZE \in Nat /\ Byte \in Nat
      /\ SACK_HEADER_LENGTH \in Nat /\ 0 < Byte /\ MAC_PACKET_SIZE < RXFIFO_SIZE
  BY DEF ReceiveAssumption
<1>2. rxFrameLength' \in 0..RXFIFO_SIZE
  BY LengthsAreShort DEF LengthDone
<1>3. donePosted' = donePosted
  BY DEF LengthDone
<1>4. CASE Flush /\ m_state' = "RX_FCF"
  <2>1. /\ fifo' = << >> /\ overflow' = FALSE /\ fifop' = fifop
        /\ m_missed_packets' = 0 /\ m_bytes_left' = RXFIFO_SIZE /\ receivingPacket' = FALSE
        /\ reading' = 0 /\ waits' = TRUE
    BY <1>4 DEF Flush, reset_state
  <2>2. FifoTypes'
    BY <1>1, <2>1, EmptySeq DEF FifoTypes
  <2>3. CountTypes'
    BY <1>1, <1>2, <2>1 DEF CountTypes
  <2>4. request' \in {"none", "asked", "granted", "owner"} /\ others' \in BOOLEAN
    BY <1>4, ReleaseKeepsTypes DEF Flush
  <2> QED
    BY <1>3, <1>4, <2>1, <2>2, <2>3, <2>4 DEF FlagTypes
<1>5. CASE /\ Fits(rxFrameLength')
           /\ \/ /\ m_state' = "RX_FCF" /\ receivingPacket' = FALSE
                 /\ release /\ reading' = 0 /\ waits' = TRUE
              \/ /\ rxFrameLength' \in 1..MAC_PACKET_SIZE
                 /\ IF rxFrameLength' > SACK_HEADER_LENGTH
                    THEN m_state' = "RX_FCF" /\ reading' = SACK_HEADER_LENGTH
                    ELSE m_state' = "RX_PAYLOAD" /\ reading' = rxFrameLength'
                 /\ UNCHANGED <<receivingPacket, waits, busVars>>
  <2>1. /\ BytesTaken(1) /\ m_missed_packets' = m_missed_packets
        /\ overflow' = overflow /\ fifop' = fifop
    BY <1>5 DEF Fits, BytesTaken
  <2>2. FifoTypes'
    BY <1>1, <2>1, TakenFromFifo
  <2>3. m_bytes_left' \in 0..RXFIFO_SIZE
    <3>1. /\ rxFrameLength' + 1 <= m_bytes_left
          /\ \/ m_bytes_left' = m_bytes_left
             \/ m_bytes_left' = m_bytes_left - (rxFrameLength' + 1)
      <4> DEFINE empty == ~FIFO' /\ ~FIFOP'
      <4>1. /\ rxFrameLength' + 1 <= m_bytes_left
            /\ m_bytes_left' = IF empty THEN m_bytes_left - (rxFrameLength' + 1) ELSE m_bytes_left
        BY <1>5 DEF Fits
      <4> HIDE DEF empty
      <4> QED
        BY <4>1
    <3>2. m_bytes_left \in 0..RXFIFO_SIZE
      BY DEF CountTypes
    <3>3. CASE m_bytes_left' = m_bytes_left
      BY <3>2, <3>3
    <3>4. CASE m_bytes_left' = m_bytes_left - (rxFrameLength' + 1)
      <4> DEFINE k == rxFrameLength'
      <4>1. k \in Nat /\ k + 1 <= m_bytes_left
        BY <1>1, <1>2, <3>1
      <4>2. RXFIFO_SIZE \in Nat /\ m_bytes_left' = m_bytes_left - (k + 1)
        BY <1>1, <3>4
      <4> HIDE DEF k
      <4> QED
        BY <3>2, <4>1, <4>2
    <3> QED
      BY <3>1, <3>3, <3>4
  <2>4. CASE /\ m_state' = "RX_FCF" /\ receivingPacket' = FALSE
             /\ release /\ reading' = 0 /\ waits' = TRUE
    <3>1. request' \in {"none", "asked", "granted", "owner"} /\ others' \in BOOLEAN
      BY <2>4, ReleaseKeepsTypes
    <3>2. CountTypes'
      BY <1>1, <1>2, <2>1, <2>3, <2>4 DEF CountTypes
    <3> QED
      BY <1>3, <2>1, <2>2, <2>4, <3>1, <3>2 DEF FlagTypes
  <2>5. CASE /\ rxFrameLength' \in 1..MAC_PACKET_SIZE
             /\ IF rxFrameLength' > SACK_HEADER_LENGTH
                THEN m_state' = "RX_FCF" /\ reading' = SACK_HEADER_LENGTH
                ELSE m_state' = "RX_PAYLOAD" /\ reading' = rxFrameLength'
             /\ UNCHANGED <<receivingPacket, waits, busVars>>
    <3>1. reading' \in 0..RXFIFO_SIZE /\ m_state' \in {"RX_FCF", "RX_PAYLOAD"}
      BY <1>1, <2>5
    <3>2. CountTypes'
      BY <1>2, <2>1, <2>3, <3>1 DEF CountTypes
    <3> QED
      BY <1>3, <2>1, <2>2, <2>5, <3>1, <3>2 DEF FlagTypes, busVars
  <2> QED
    BY <1>5, <2>4, <2>5
<1> QED BY <1>4, <1>5 DEF LengthDone

LEMMA ReadKeepsTypes ==
  ASSUME ReceiveAssumption, FifoTypes, CountTypes, FlagTypes, HandInv, RXFIFOReadDone
  PROVE  FifoTypes' /\ CountTypes' /\ FlagTypes'
<1>1. RXFIFO_SIZE \in Nat /\ SACK_HEADER_LENGTH \in Nat /\ reading \in 0..RXFIFO_SIZE
  BY DEF ReceiveAssumption, CountTypes
<1>2. CASE LengthDone
  BY <1>2, LengthKeepsTypes
<1>3. CASE HeaderDone
  <2>1. FifoTypes'
    BY <1>1, <1>3, TakenFromFifo DEF HeaderDone
  <2>2. reading' = rxFrameLength - SACK_HEADER_LENGTH /\ rxFrameLength > SACK_HEADER_LENGTH
    BY <1>3 DEF HeaderDone, RXFIFOReadDone, HandInv, HeadersHaveRest
  <2>3. CountTypes'
    BY <1>1, <1>3, <2>2 DEF HeaderDone, CountTypes
  <2> QED
    BY <1>3, <2>1, <2>3 DEF HeaderDone, BytesTaken, busVars, FlagTypes
<1>4. CASE PayloadDone
  <2>1. FifoTypes'
    BY <1>1, <1>4, TakenFromFifo DEF PayloadDone
  <2>2. CountTypes'
    BY <1>1, <1>4 DEF PayloadDone, receiver, CountTypes
  <2>3. request' \in {"none", "asked", "granted", "owner"} /\ others' \in BOOLEAN
    BY <1>4, ReleaseKeepsTypes DEF PayloadDone, MayReleaseBus
  <2>4. donePosted' \in BOOLEAN /\ waits' \in BOOLEAN
    BY <1>4 DEF PayloadDone, PassOn, FlagTypes
  <2> QED
    BY <1>4, <2>1, <2>2, <2>3, <2>4 DEF PayloadDone, BytesTaken, receiver, FlagTypes
<1>5. CASE UnexpectedDone
  <2>1. FifoTypes'
    BY <1>1, <1>5, TakenFromFifo DEF UnexpectedDone
  <2>2. CountTypes'
    BY <1>1, <1>5 DEF UnexpectedDone, CountTypes
  <2>3. request' \in {"none", "asked", "granted", "owner"} /\ others' \in BOOLEAN
    BY <1>5, ReleaseKeepsTypes DEF UnexpectedDone
  <2> QED
    BY <1>5, <2>1, <2>2, <2>3 DEF UnexpectedDone, BytesTaken, FlagTypes
<1> QED BY <1>2, <1>3, <1>4, <1>5 DEF RXFIFOReadDone

LEMMA WaitKeepsTypes ==
  ASSUME ReceiveAssumption, FifoTypes, CountTypes, FlagTypes, waitForNextPacket
  PROVE  FifoTypes' /\ CountTypes' /\ FlagTypes'
<1>1. RXFIFO_SIZE \in Nat /\ RXFIFO_SIZE > 0 /\ Byte \in Nat /\ 0 < Byte
  BY DEF ReceiveAssumption
<1>2. FifoTypes' /\ waits' = FALSE /\ UNCHANGED <<donePosted, overflow, fifop>>
  BY DEF waitForNextPacket, chipVars, FifoTypes
<1>3. CASE m_state = "STOPPED" /\ release /\ UNCHANGED <<receiver, reading>>
  BY <1>2, <1>3, ReleaseKeepsTypes DEF receiver, CountTypes, FlagTypes
<1>4. CASE beginReceive(IF m_missed_packets > 0 THEN m_missed_packets - 1 ELSE 0)
  <2> DEFINE missed == IF m_missed_packets > 0 THEN m_missed_packets - 1 ELSE 0
  <2>1. missed \in 0..Byte - 1
    BY <1>1 DEF CountTypes
  <2>2. beginReceive(missed)
    BY <1>4
  <2> HIDE DEF missed
  <2> QED
    BY <1>1, <1>2, <2>1, <2>2, BeginKeepsTypes DEF FlagTypes
<1>5. CASE /\ m_state' = "STARTED" /\ m_missed_packets' = 0 /\ receivingPacket' = FALSE
           /\ release /\ UNCHANGED <<rxFrameLength, m_bytes_left, reading>>
  <2>1. CountTypes'
    BY <1>1, <1>5 DEF CountTypes
  <2>2. request' \in {"none", "asked", "granted", "owner"} /\ others' \in BOOLEAN
    BY <1>5, ReleaseKeepsTypes
  <2>3. FlagTypes'
    BY <1>2, <1>5, <2>2 DEF FlagTypes
  <2> QED
    BY <1>2, <2>1, <2>3
<1> QED BY <1>3, <1>4, <1>5 DEF waitForNextPacket

LEMMA StepKeepsTypes ==
  ASSUME ReceiveAssumption, FifoTypes, CountTypes, FlagTypes, HandInv, [Next]_vars
  PROVE  FifoTypes' /\ CountTypes' /\ FlagTypes'
<1>1. RXFIFO_SIZE \in Nat /\ RXFIFO_SIZE > 0 /\ Byte \in Nat /\ 0 < Byte
  BY DEF ReceiveAssumption
<1>2. CASE Start
  <2>1. FifoTypes'
    BY <1>2 DEF Start, FifoTypes
  <2>2. m_bytes_left' = RXFIFO_SIZE /\ m_missed_packets' = 0 /\ UNCHANGED <<rxFrameLength, reading>>
    BY <1>2 DEF Start, reset_state
  <2>3. CountTypes'
    BY <1>1, <2>2 DEF CountTypes
  <2>4. FlagTypes'
    BY <1>2 DEF Start, reset_state, busVars, FlagTypes
  <2> QED
    BY <2>1, <2>3, <2>4
<1>3. CASE Stop
  <2>1. FifoTypes'
    BY <1>1, <1>3, EmptySeq DEF Stop, FifoTypes
  <2>2. m_bytes_left' = RXFIFO_SIZE /\ m_missed_packets' = 0 /\ UNCHANGED <<rxFrameLength, reading>>
    BY <1>3 DEF Stop, reset_state
  <2>3. CountTypes'
    BY <1>1, <2>2 DEF CountTypes
  <2>4. FlagTypes'
    BY <1>3 DEF Stop, reset_state, busVars, FlagTypes
  <2> QED
    BY <2>1, <2>3, <2>4
<1>4. ASSUME NEW n \in 0..MAC_PACKET_SIZE, FrameArrives(n) PROVE FifoTypes' /\ CountTypes' /\ FlagTypes'
  <2>1. FifoTypes' /\ overflow' \in BOOLEAN
    BY <1>4, ArrivesInFifo
  <2>2. CountTypes'
    BY <1>4 DEF FrameArrives, receiver, CountTypes
  <2>3. fifop' \in BOOLEAN
    BY <1>4 DEF FrameArrives, FlagTypes
  <2> QED
    BY <1>4, <2>1, <2>2, <2>3 DEF FrameArrives, receiver, busVars, FlagTypes
<1>5. CASE InterruptFIFOPFired
  <2>1. FifoTypes' /\ fifop' = FALSE /\ UNCHANGED <<donePosted, waits, overflow>>
    BY <1>5 DEF InterruptFIFOPFired, FifoTypes
  <2>2. CASE beginReceive(m_missed_packets)
    <3>1. m_missed_packets \in 0..Byte - 1
      BY DEF CountTypes
    <3> QED
      BY <1>1, <2>1, <2>2, <3>1, BeginKeepsTypes DEF FlagTypes
  <2>3. CASE /\ m_missed_packets' = (m_missed_packets + 1) % Byte
             /\ UNCHANGED <<m_state, receivingPacket, rxFrameLength, m_bytes_left, reading, busVars>>
    <3>1. m_missed_packets' \in 0..Byte - 1
      BY <1>1, <2>3 DEF CountTypes
    <3> QED
      BY <2>1, <2>3, <3>1 DEF CountTypes, FlagTypes, busVars
  <2> QED BY <1>5, <2>2, <2>3 DEF InterruptFIFOPFired
<1>6. CASE SpiResourceGranted
  BY <1>1, <1>6 DEF SpiResourceGranted, receive, receiver, chipVars, FifoTypes, CountTypes, FlagTypes
<1>7. CASE RXFIFOReadDone
  BY <1>7, ReadKeepsTypes
<1>8. CASE receiveDone_task
  BY <1>8 DEF receiveDone_task, busVars, chipVars, FifoTypes, CountTypes, FlagTypes
<1>9. CASE waitForNextPacket
  BY <1>9, WaitKeepsTypes
<1>10. CASE OthersTakeBus
  BY <1>10 DEF OthersTakeBus, receiver, chipVars, FifoTypes, CountTypes, FlagTypes
<1>11. CASE OthersReleaseBus
  BY <1>11 DEF OthersReleaseBus, receiver, chipVars, FifoTypes, CountTypes, FlagTypes
<1>12. CASE UNCHANGED vars
  BY <1>12 DEF vars, receiver, busVars, chipVars, FifoTypes, CountTypes, FlagTypes
<1> QED
  BY <1>2, <1>3, <1>4, <1>5, <1>6, <1>7, <1>8, <1>9, <1>10, <1>11, <1>12 DEF Next

(* The counts keep their range, although lengths are whatever is read:     *)
(* m_bytes_left, which is counted down for a frame only if it is that      *)
(* large, never wraps (CC2420ReceiveP.nc:220-227), nor do the lengths of   *)
(* reads, and the FIFO holds no more than its size.                        *)
THEOREM TypesHold == ReceiveAssumption => (Spec => []ReceiveTypeOK)
<1> SUFFICES ASSUME ReceiveAssumption PROVE Spec => []ReceiveTypeOK
  OBVIOUS
<1> DEFINE TypeInv == HandInv /\ FifoTypes /\ CountTypes /\ FlagTypes
<1>1. Init => TypeInv
  <2> SUFFICES ASSUME Init PROVE TypeInv
    OBVIOUS
  <2>1. RXFIFO_SIZE \in Nat /\ Byte \in Nat /\ 0 < Byte
    BY DEF ReceiveAssumption
  <2>2. FifoTypes
    BY <2>1, EmptySeq DEF Init, FifoTypes
  <2>3. CountTypes
    BY <2>1 DEF Init, CountTypes
  <2>4. FlagTypes
    BY DEF Init, FlagTypes
  <2> QED
    BY <2>2, <2>3, <2>4, InitHand
<1>2. TypeInv /\ [Next]_vars => TypeInv'
  BY StepKeeps, StepKeepsTypes
<1>3. TypeInv => ReceiveTypeOK
  BY TypesSplit
<1> QED
  BY <1>1, <1>2, <1>3, PTL DEF Spec

------------------------------------------------------------------------------
(* The sending half.                                                       *)

TaskName == {"granted", "startDone", "sendDone", "stopDone"}

In(s, t) == \E i \in DOMAIN s : s[i] = t
Ahead(s, t, u) == \E i, j \in DOMAIN s : i < j /\ s[i] = t /\ s[j] = u
Queue(s) == s \in Seq(TaskName) /\ \A i, j \in DOMAIN s : s[i] = s[j] => i = j

Types == Csma!TypeOK /\ Queue(tasks)

(* A message is under way in the transmitter, in any of its busy states,   *)
(* until its answer is on the way; a cancel that was accepted is what it   *)
(* is answered with.                                                       *)
Phases ==
  /\ accepted = None => sendErr = None /\ ~cancelled
  /\ txState \notin {"STOPPED", "STARTED"} <=> accepted # None /\ sendErr = None
  /\ In(tasks, "sendDone") <=> sendErr # None
  /\ sendErr # None => (cancelled <=> sendErr = "ECANCEL")
  /\ accepted # None /\ sendErr = None => (cancelled <=> txState = "CANCEL")

(* Medium access and transmitter agree; a start waits for one thing at a   *)
(* time, and holds the bus from the oscillator on.                         *)
Switches ==
  /\ accepted # None => splitControl \in {"TRANSMITTING", "STOPPING"}
  /\ splitControl = "TRANSMITTING" => accepted # None
  /\ splitControl \in {"STOPPED", "STARTING"} => txState = "STOPPED"
  /\ splitControl = "STARTED" \/ sendErr # None => txState = "STARTED"
  /\ splitControl = "STOPPING" /\ accepted = None => txState = "STOPPED" /\ In(tasks, "stopDone")
  /\ In(tasks, "stopDone") => splitControl = "STOPPING" /\ accepted = None
  /\ splitControl = "STARTING" <=> startup # "none" \/ In(tasks, "startDone")
  /\ ~(startup # "none" /\ In(tasks, "startDone"))
  /\ bus = "csma" <=> startup = "osc" \/ In(tasks, "startDone")

Handling ==
  /\ isr = "EFD" => txState = "EFD"
  /\ isr = "default" => txState \in {"ACK_WAIT", "STARTED"}
  /\ abortSpiRelease => txState \in {"EFD", "ACK_WAIT"}

(* The bus of the transmitter is in one hand: the FIFO is written, or the  *)
(* frame is strobed, or a busy channel was found, or a grant is posted. A  *)
(* grant may lose the bus to a stop, but then runs before stopDone_task.   *)
InHand == writing \/ main = "congested" \/ txState = "SFD"
Hands ==
  /\ writing => txState \in {"LOAD", "CANCEL"}
  /\ main = "congested" => txState \in {"SAMPLE_CCA", "BEGIN_TRANSMIT"}
  /\ InHand => bus = "transmit" /\ ~In(tasks, "granted")
  /\ bus = "transmit" => InHand \/ In(tasks, "granted")
  /\ In(tasks, "granted") => bus = "transmit" \/ Ahead(tasks, "granted", "stopDone")
  /\ wish > 0 => bus # "none"

SendInv == Types /\ Phases /\ Switches /\ Handling /\ Hands

------------------------------------------------------------------------------
(* The queue of posted tasks.                                              *)

LEMMA PostFacts ==
  ASSUME NEW s, Queue(s), NEW t \in TaskName
  PROVE  /\ Queue(Csma!Post(s, t))
         /\ \A u : In(Csma!Post(s, t), u) <=> In(s, u) \/ u = t
         /\ \A u, v : Ahead(s, u, v) => Ahead(Csma!Post(s, t), u, v)
         /\ \A u : In(s, u) /\ ~In(s, t) => Ahead(Csma!Post(s, t), u, t)
<1>1. CASE In(s, t)
  <2>1. Csma!Post(s, t) = s
    BY <1>1 DEF Csma!Post, In
  <2> QED
    BY <1>1, <2>1
<1>2. CASE ~In(s, t)
  <2> DEFINE n == Len(s) + 1
  <2>1. Csma!Post(s, t) = Append(s, t) /\ s \in Seq(TaskName) /\ n \in Nat /\ n > 0
    BY <1>2 DEF Csma!Post, In, Queue
  <2>2. /\ Append(s, t) \in Seq(TaskName) /\ DOMAIN Append(s, t) = 1..n /\ DOMAIN s = 1..n - 1
        /\ \A i \in 1..n - 1 : Append(s, t)[i] = s[i]
        /\ Append(s, t)[n] = t
    BY <2>1
  <2> HIDE DEF n
  <2>3. \A i \in DOMAIN s : s[i] # t
    BY <1>2 DEF In
  <2>4. Queue(Append(s, t))
    BY <2>1, <2>2, <2>3 DEF Queue
  <2>5. \A u : In(Append(s, t), u) <=> In(s, u) \/ u = t
    BY <2>1, <2>2 DEF In
  <2>6. \A u, v : Ahead(s, u, v) => Ahead(Append(s, t), u, v)
    BY <2>1, <2>2 DEF Ahead
  <2>7. \A u : In(s, u) => Ahead(Append(s, t), u, t)
    BY <2>1, <2>2 DEF Ahead, In
  <2> QED
    BY <2>1, <2>4, <2>5, <2>6, <2>7
<1> QED BY <1>1, <1>2

LEMMA TailFacts ==
  ASSUME NEW s, Queue(s), s # << >>
  PROVE  /\ Queue(Tail(s)) /\ In(s, Head(s))
         /\ \A u : In(Tail(s), u) <=> In(s, u) /\ u # Head(s)
         /\ \A u, v : Ahead(s, u, v) /\ u # Head(s) => Ahead(Tail(s), u, v)
         /\ \A u : ~Ahead(s, u, Head(s))
<1> DEFINE n == Len(s)
<1>1. s \in Seq(TaskName) /\ n \in Nat /\ n > 0 /\ DOMAIN s = 1..n
  BY DEF Queue
<1>2. /\ Tail(s) \in Seq(TaskName) /\ DOMAIN Tail(s) = 1..n - 1 /\ Head(s) = s[1]
      /\ \A i \in 1..n - 1 : Tail(s)[i] = s[i + 1]
  BY <1>1
<1> HIDE DEF n
<1>3. Queue(Tail(s))
  BY <1>1, <1>2 DEF Queue
<1>4. \A i \in 1..n : i # 1 => i - 1 \in 1..n - 1 /\ Tail(s)[i - 1] = s[i] /\ s[i] # s[1]
  BY <1>1, <1>2 DEF Queue
<1>5. \A u : In(Tail(s), u) <=> In(s, u) /\ u # Head(s)
  <2>1. \A u : In(Tail(s), u) => In(s, u) /\ u # Head(s)
    BY <1>1, <1>2, <1>4 DEF In
  <2>2. \A u : In(s, u) /\ u # Head(s) => In(Tail(s), u)
    BY <1>1, <1>2, <1>4 DEF In
  <2> QED BY <2>1, <2>2
<1>6. \A u, v : Ahead(s, u, v) /\ u # Head(s) => Ahead(Tail(s), u, v)
  <2> SUFFICES ASSUME NEW u, NEW v, Ahead(s, u, v), u # Head(s)
               PROVE  Ahead(Tail(s), u, v)
    OBVIOUS
  <2>1. PICK i \in 1..n, j \in 1..n : i < j /\ s[i] = u /\ s[j] = v
    BY <1>1 DEF Ahead
  <2>2. i # 1 /\ j # 1
    BY <1>2, <2>1
  <2>3. i - 1 \in 1..n - 1 /\ j - 1 \in 1..n - 1 /\ i - 1 < j - 1
    BY <1>1, <2>1, <2>2
  <2>4. Tail(s)[i - 1] = u /\ Tail(s)[j - 1] = v
    BY <1>4, <2>1, <2>2
  <2>5. i - 1 \in DOMAIN Tail(s) /\ j - 1 \in DOMAIN Tail(s)
    BY <1>2, <2>3
  <2> QED
    BY <2>3, <2>4, <2>5 DEF Ahead
<1>7. \A u : ~Ahead(s, u, Head(s))
  BY <1>1, <1>2, <1>4 DEF Ahead
<1>8. In(s, Head(s))
  BY <1>1, <1>2 DEF In
<1> QED BY <1>3, <1>5, <1>6, <1>7, <1>8

LEMMA InitSend == ASSUME Csma!TransmitAssumption, Csma!Init PROVE SendInv
<1>1. /\ tasks = << >> /\ sendErr = None /\ accepted = None /\ cancelled = FALSE
      /\ txState = "STOPPED" /\ splitControl = "STOPPED" /\ startup = "none"
      /\ bus = "none" /\ wish = 0 /\ isr = "none" /\ main = "none"
      /\ abortSpiRelease = FALSE /\ writing = FALSE
  BY DEF Csma!Init, Csma!TransmitInit
<1>2. Queue(tasks) /\ \A t : ~In(tasks, t)
  BY <1>1 DEF Queue, In
<1>3. Csma!TypeOK
  <2>1. DOMAIN tasks = {}
    BY <1>1
  <2>3. {m_cca, m_receiving, sfdHigh, abortSpiRelease, backoff, writing, sfd, capture} \subseteq BOOLEAN
    BY <1>1 DEF Csma!Init, Csma!TransmitInit
  <2>2. Csma!TransmitTypeOK
    BY <1>1, <2>1, <2>3 DEF Csma!Init, Csma!TransmitInit, Csma!TransmitTypeOK
  <2> QED
    BY <1>1, <2>2 DEF Csma!TypeOK
<1>4. Phases /\ Switches
  BY <1>1, <1>2 DEF Phases, Switches
<1>5. Handling /\ Hands
  BY <1>1, <1>2 DEF Handling, Hands, InHand
<1> QED BY <1>2, <1>3, <1>4, <1>5 DEF SendInv, Types

LEMMA StartKeeps == ASSUME SendInv, Csma!SplitControlStart PROVE SendInv'
<1>1. Types'
  BY DEF SendInv, Types, Csma!TypeOK, Csma!TransmitTypeOK, Queue, Csma!SplitControlStart, Csma!transmitVars, Csma!message, Csma!reception, Csma!spi, Csma!chip
<1>2. Phases'
  BY DEF SendInv, Phases, Csma!SplitControlStart, Csma!transmitVars, Csma!message, Csma!reception, Csma!spi, Csma!chip
<1>3. Switches'
  BY DEF SendInv, Phases, Switches, Csma!SplitControlStart, Csma!transmitVars, Csma!message, Csma!reception, Csma!spi, Csma!chip
<1>4. Handling' /\ Hands'
  BY DEF SendInv, Handling, Hands, InHand, Csma!SplitControlStart, Csma!transmitVars, Csma!message, Csma!reception, Csma!spi, Csma!chip
<1> QED BY <1>1, <1>2, <1>3, <1>4 DEF SendInv

LEMMA SendKeeps ==
  ASSUME Csma!TransmitAssumption, SendInv, NEW x \in Message, NEW cca \in BOOLEAN, Csma!SendSend(x, cca)
  PROVE  SendInv'
<1>1. txState = "STARTED" /\ txState' = "LOAD" /\ accepted = None /\ x # None /\ sendErr = None
  BY DEF SendInv, Phases, Switches, Csma!SendSend, Csma!send, Csma!TransmitAssumption
<1>2. /\ m_msg' = x /\ m_cca' = cca
      /\ \/ bus = "none" /\ bus' = "transmit" /\ writing' = TRUE /\ wish' = wish
         \/ bus # "none" /\ bus' = bus /\ writing' = writing /\ wish' \in {wish, 1, 2}
      /\ UNCHANGED <<Csma!reception, abortSpiRelease, backoff, sendErr, isr, main, tasks, Csma!chip>>
  BY <1>1 DEF Csma!SendSend, Csma!send, Csma!Requests
<1>6. Types'
  <2>3. {m_cca, m_receiving, sfdHigh, abortSpiRelease, backoff, writing, sfd, capture}' \subseteq BOOLEAN
    BY <1>2 DEF SendInv, Types, Csma!TypeOK, Csma!TransmitTypeOK, Csma!reception, Csma!chip
  <2>1. Csma!TransmitTypeOK'
    BY <1>1, <1>2, <2>3 DEF SendInv, Types, Csma!TypeOK, Csma!TransmitTypeOK, Csma!reception, Csma!chip
  <2> QED
    BY <1>2, <2>1 DEF SendInv, Types, Csma!TypeOK, Queue, Csma!SendSend
<1>3. Phases'
  BY <1>1 DEF SendInv, Phases, Csma!SendSend, Csma!send, Csma!message
<1>4. Switches'
  BY <1>1 DEF SendInv, Switches, Csma!SendSend, Csma!send, Csma!Requests
<1>5. Handling' /\ Hands'
  <2>1. isr' = "none" /\ main' = "none" /\ ~writing /\ ~In(tasks, "stopDone") /\ bus # "csma"
    BY <1>1, <1>2 DEF SendInv, Switches, Hands, Csma!SendSend, Csma!InTask
  <2>2. In(tasks, "granted") => bus = "transmit"
    BY <2>1 DEF SendInv, Hands, Ahead, In
  <2>3. Handling'
    BY <1>1, <1>2, <2>1 DEF SendInv, Handling
  <2> QED
    BY <1>1, <1>2, <2>1, <2>2, <2>3 DEF SendInv, Hands, InHand
<1> QED BY <1>6, <1>3, <1>4, <1>5 DEF SendInv

LEMMA CancelKeeps == ASSUME SendInv, Csma!SendCancel PROVE SendInv'
<1>1. Types'
  BY DEF SendInv, Types, Csma!TypeOK, Csma!TransmitTypeOK, Queue, Csma!SendCancel, Csma!cancel, Csma!message, Csma!reception, Csma!spi, Csma!chip
<1>2. Phases'
  BY DEF SendInv, Phases, Csma!SendCancel, Csma!cancel, Csma!Cancellable, Csma!spi
<1>3. Switches'
  BY DEF SendInv, Switches, Phases, Csma!SendCancel, Csma!cancel, Csma!Cancellable, Csma!spi
<1>4. Handling' /\ Hands'
  BY DEF SendInv, Handling, Hands, InHand, Csma!SendCancel, Csma!cancel, Csma!Cancellable, Csma!InTask, Csma!spi
<1> QED BY <1>1, <1>2, <1>3, <1>4 DEF SendInv

LEMMA VRegKeeps == ASSUME SendInv, Csma!startVRegDone PROVE SendInv'
<1>1. Types'
  BY DEF SendInv, Types, Csma!TypeOK, Csma!TransmitTypeOK, Queue, Csma!startVRegDone, Csma!StartMoves, Csma!transmitVars, Csma!message, Csma!reception, Csma!spi, Csma!chip
<1>2. Phases' /\ Switches'
  BY DEF SendInv, Phases, Switches, Csma!startVRegDone, Csma!StartMoves, Csma!transmitVars, Csma!spi
<1>3. Handling' /\ Hands'
  BY DEF SendInv, Handling, Hands, InHand, Csma!startVRegDone, Csma!StartMoves, Csma!transmitVars, Csma!spi
<1> QED BY <1>1, <1>2, <1>3 DEF SendInv

LEMMA ResourceKeeps == ASSUME SendInv, Csma!ResourceGranted PROVE SendInv'
<1>1. Types'
  BY DEF SendInv, Types, Csma!TypeOK, Csma!TransmitTypeOK, Queue, Csma!ResourceGranted, Csma!StartMoves, Csma!BusUntouched, Csma!message, Csma!reception, Csma!chip
<1>2. Phases' /\ Switches'
  BY DEF SendInv, Phases, Switches, Csma!ResourceGranted, Csma!StartMoves, Csma!BusUntouched
<1>3. Handling' /\ Hands'
  BY DEF SendInv, Handling, Hands, InHand, Csma!ResourceGranted, Csma!StartMoves, Csma!BusUntouched
<1> QED BY <1>1, <1>2, <1>3 DEF SendInv

LEMMA OscillatorKeeps == ASSUME SendInv, Csma!startOscillatorDone PROVE SendInv'
<1>1. /\ Queue(tasks') /\ \A u : In(tasks', u) <=> In(tasks, u) \/ u = "startDone"
      /\ \A u, v : Ahead(tasks, u, v) => Ahead(tasks', u, v)
  BY PostFacts DEF SendInv, Types, Csma!startOscillatorDone, TaskName
<1>2. Types'
  BY <1>1 DEF SendInv, Types, Csma!TypeOK, Csma!TransmitTypeOK, Queue, TaskName, Csma!startOscillatorDone, Csma!StartMoves, Csma!BusUntouched, Csma!message, Csma!reception, Csma!chip
<1>3. Phases' /\ Switches'
  BY <1>1 DEF SendInv, Phases, Switches, Csma!startOscillatorDone, Csma!StartMoves, Csma!BusUntouched
<1>4. Handling' /\ Hands'
  BY <1>1 DEF SendInv, Handling, Hands, InHand, Csma!startOscillatorDone, Csma!StartMoves, Csma!BusUntouched
<1> QED BY <1>2, <1>3, <1>4 DEF SendInv

(* release by the transmitter, or without effect; who gives the bus back   *)
(* while a request waits has it again, and a grant posted.                 *)
LEMMA GiveBackFacts ==
  ASSUME SendInv, Csma!GiveBack, NEW q, Queue(q)
  PROVE  /\ Queue(Csma!Released(q))
         /\ \A u : In(Csma!Released(q), u) <=> In(q, u) \/ (u = "granted" /\ bus = "transmit" /\ wish > 0)
         /\ \A u, v : Ahead(q, u, v) => Ahead(Csma!Released(q), u, v)
         /\ bus' \in {"transmit", "csma", "other", "none"} /\ wish' \in 0..2
         /\ bus # "transmit" => bus' = bus /\ wish' = wish
         /\ bus = "transmit" => bus' = IF wish > 0 THEN "transmit" ELSE "none"
         /\ wish' > 0 => bus' # "none"
<1>1. bus \in {"transmit", "csma", "other", "none"} /\ wish \in 0..2 /\ (wish > 0 => bus # "none")
  BY DEF SendInv, Types, Csma!TypeOK, Csma!TransmitTypeOK, Hands
<1>2. CASE bus = "transmit" /\ wish > 0
  <2>1. Csma!Released(q) = Csma!Post(q, "granted") /\ wish' = wish - 1 /\ bus' = bus
    BY <1>2 DEF Csma!Released, Csma!GiveBack
  <2>2. wish - 1 \in 0..2
    BY <1>1, <1>2
  <2> QED
    BY <1>2, <2>1, <2>2, PostFacts DEF TaskName
<1>3. CASE ~(bus = "transmit" /\ wish > 0)
  <2>1. Csma!Released(q) = q /\ wish' = wish /\ bus' = IF bus = "transmit" THEN "none" ELSE bus
    BY <1>3 DEF Csma!Released, Csma!GiveBack
  <2>2. bus = "transmit" => wish = 0
    BY <1>1, <1>3
  <2> QED
    BY <1>1, <1>3, <2>1, <2>2
<1> QED BY <1>2, <1>3

(* A grant that is posted when the radio stops runs before stopDone_task.  *)
LEMMA ShutdownKeeps ==
  ASSUME SendInv, Csma!InTask, txState = "STARTED", startup = "none", bus # "csma",
         NEW q, Queue(q), \A t \in {"startDone", "sendDone", "stopDone"} : ~In(q, t),
         In(q, "granted") <=> In(tasks, "granted"),
         Csma!shutdown(q), splitControl' = "STOPPING", startup' = "none",
         accepted' = None, sendErr' = None, cancelled' = FALSE
  PROVE  SendInv'
<1>1. /\ txState' = "STOPPED" /\ Csma!GiveBack /\ tasks' = Csma!Post(Csma!Released(q), "stopDone")
      /\ UNCHANGED <<Csma!message, Csma!reception, abortSpiRelease, isr, main, writing>>
      /\ backoff' = FALSE /\ air' = "quiet" /\ sfd' = FALSE /\ edge' = "off" /\ capture' = FALSE
  BY DEF Csma!shutdown, Csma!stop
<1>2. /\ Queue(Csma!Released(q))
      /\ \A u : In(Csma!Released(q), u) <=> In(q, u) \/ (u = "granted" /\ bus = "transmit" /\ wish > 0)
      /\ bus' \in {"transmit", "csma", "other", "none"} /\ wish' \in 0..2
      /\ bus # "transmit" => bus' = bus /\ wish' = wish
      /\ bus = "transmit" => bus' = IF wish > 0 THEN "transmit" ELSE "none"
      /\ wish' > 0 => bus' # "none"
  BY <1>1, GiveBackFacts
<1>3. /\ Queue(tasks')
      /\ \A u : In(tasks', u) <=> In(Csma!Released(q), u) \/ u = "stopDone"
      /\ \A u : In(Csma!Released(q), u) /\ ~In(Csma!Released(q), "stopDone") => Ahead(tasks', u, "stopDone")
  BY <1>1, <1>2, PostFacts DEF TaskName
<1>4. ~In(Csma!Released(q), "stopDone")
  BY <1>2
<1>5. Types'
  <2>1. {m_cca, m_receiving, sfdHigh, abortSpiRelease, backoff, writing, sfd, capture}' \subseteq BOOLEAN
    BY <1>1 DEF SendInv, Types, Csma!TypeOK, Csma!TransmitTypeOK, Csma!message, Csma!reception
  <2>2. Csma!TransmitTypeOK'
    BY <1>1, <1>2, <1>3, <2>1 DEF SendInv, Types, Csma!TypeOK, Csma!TransmitTypeOK, Csma!message, Queue, TaskName
  <2> QED
    BY <1>3, <2>2 DEF Types, Csma!TypeOK
<1>6. Phases'
  BY <1>1, <1>2, <1>3 DEF Phases
<1>7. Switches'
  BY <1>1, <1>2, <1>3 DEF Switches
<1>8. Handling'
  <2>1. isr' = "none" /\ abortSpiRelease' = FALSE
    BY <1>1 DEF SendInv, Types, Csma!TypeOK, Csma!TransmitTypeOK, Handling, Csma!InTask
  <2> QED
    BY <2>1 DEF Handling
<1>9. Hands'
  <2>1. ~writing /\ main = "none" /\ (bus = "transmit" => In(tasks, "granted"))
    BY DEF SendInv, Hands, InHand, Csma!InTask
  <2>2. bus' = "transmit" => In(tasks', "granted")
    BY <1>2, <1>3, <2>1
  <2>3. In(tasks', "granted") => Ahead(tasks', "granted", "stopDone")
    BY <1>3, <1>4
  <2> QED
    BY <1>1, <1>2, <2>1, <2>2, <2>3 DEF Hands, InHand
<1> QED BY <1>5, <1>6, <1>7, <1>8, <1>9 DEF SendInv

LEMMA StopKeeps == ASSUME SendInv, Csma!SplitControlStop PROVE SendInv'
<1>1. CASE splitControl = "STARTED"
  <2>1. /\ accepted = None /\ sendErr = None /\ ~cancelled /\ txState = "STARTED"
        /\ startup = "none" /\ bus # "csma"
        /\ \A t \in {"startDone", "sendDone", "stopDone"} : ~In(tasks, t)
    BY <1>1 DEF SendInv, Phases, Switches
  <2>2. Queue(tasks) /\ cancelled = FALSE
    BY <2>1 DEF SendInv, Types, Csma!TypeOK
  <2> QED
    BY <1>1, <2>1, <2>2, ShutdownKeeps DEF Csma!SplitControlStop
<1>2. CASE splitControl = "TRANSMITTING"
  <2>1. /\ splitControl' = "STOPPING" /\ accepted # None /\ UNCHANGED <<startup, accepted, cancelled>>
        /\ UNCHANGED Csma!transmitVars
    BY <1>2 DEF SendInv, Switches, Csma!SplitControlStop
  <2>2. Types'
    BY <2>1 DEF SendInv, Types, Csma!TypeOK, Csma!TransmitTypeOK, Queue, Csma!transmitVars, Csma!message, Csma!reception, Csma!spi, Csma!chip
  <2>3. Phases' /\ Switches'
    BY <1>2, <2>1 DEF SendInv, Phases, Switches, Csma!transmitVars, Csma!spi
  <2>4. Handling' /\ Hands'
    BY <2>1 DEF SendInv, Handling, Hands, InHand, Csma!transmitVars, Csma!spi
  <2> QED BY <2>2, <2>3, <2>4 DEF SendInv
<1> QED BY <1>1, <1>2 DEF Csma!SplitControlStop

LEMMA SendDoneKeeps == ASSUME SendInv, Csma!sendDone_task PROVE SendInv'
<1> DEFINE q == Tail(tasks)
<1>1. Queue(tasks) /\ tasks # << >> /\ Head(tasks) = "sendDone" /\ Csma!InTask
  BY DEF SendInv, Types, Csma!sendDone_task, Csma!Runs
<1>2. /\ Queue(q) /\ In(tasks, "sendDone")
      /\ \A u : In(q, u) <=> In(tasks, u) /\ u # "sendDone"
      /\ \A u, v : Ahead(tasks, u, v) /\ u # "sendDone" => Ahead(q, u, v)
  BY <1>1, TailFacts
<1> HIDE DEF q
<1>3. /\ accepted # None /\ sendErr # None /\ txState = "STARTED"
      /\ ~In(tasks, "startDone") /\ ~In(tasks, "stopDone") /\ startup = "none" /\ bus # "csma"
      /\ splitControl \in {"TRANSMITTING", "STOPPING"}
  BY <1>2 DEF SendInv, Phases, Switches
<1>4. startup' = startup /\ accepted' = None /\ sendErr' = None /\ cancelled' = FALSE
  BY DEF Csma!sendDone_task
<1>5. CASE splitControl = "STOPPING"
  <2>1. Csma!shutdown(q) /\ splitControl' = "STOPPING"
    BY <1>5 DEF Csma!sendDone_task, Csma!StopsAfterSend, q
  <2>2. \A t \in {"startDone", "sendDone", "stopDone"} : ~In(q, t)
    BY <1>2, <1>3
  <2> QED
    BY <1>1, <1>2, <1>3, <1>4, <2>1, <2>2, ShutdownKeeps
<1>6. CASE splitControl # "STOPPING"
  <2>1. /\ splitControl' = "STARTED" /\ tasks' = q
        /\ UNCHANGED <<txState, Csma!message, Csma!reception, abortSpiRelease, backoff,
                       isr, main, bus, wish, writing, Csma!chip>>
    BY <1>6 DEF Csma!sendDone_task, Csma!StopsAfterSend, q
  <2>2. Types'
    <3>1. Csma!TransmitTypeOK'
      BY <1>2, <1>4, <2>1
      DEF SendInv, Types, Csma!TypeOK, Csma!TransmitTypeOK, Queue, TaskName, Csma!message, Csma!reception, Csma!chip
    <3> QED
      BY <1>2, <1>4, <2>1, <3>1 DEF SendInv, Types, Csma!TypeOK
  <2>3. Phases' /\ Switches'
    BY <1>2, <1>3, <1>4, <2>1 DEF SendInv, Phases, Switches
  <2>4. Handling' /\ Hands'
    BY <1>2, <2>1 DEF SendInv, Handling, Hands, InHand
  <2> QED BY <2>2, <2>3, <2>4 DEF SendInv
<1> QED BY <1>5, <1>6

LEMMA StopDoneKeeps == ASSUME SendInv, Csma!stopDone_task PROVE SendInv'
<1>1. Queue(tasks) /\ tasks # << >> /\ Head(tasks) = "stopDone" /\ Csma!InTask
  BY DEF SendInv, Types, Csma!stopDone_task, Csma!Runs
<1>2. /\ tasks' = Tail(tasks) /\ splitControl' = "STOPPED"
      /\ Csma!BusUntouched /\ UNCHANGED <<bus, wish, startup, accepted, cancelled>>
  BY DEF Csma!stopDone_task
<1>3. /\ Queue(tasks') /\ In(tasks, "stopDone")
      /\ \A u : In(tasks', u) <=> In(tasks, u) /\ u # "stopDone"
      /\ \A u : ~Ahead(tasks, u, "stopDone")
  <2> DEFINE q == Tail(tasks)
  <2>1. /\ Queue(q) /\ In(tasks, "stopDone")
        /\ \A u : In(q, u) <=> In(tasks, u) /\ u # "stopDone"
    BY <1>1, TailFacts
  <2>3. \A u : ~Ahead(tasks, u, Head(tasks))
    BY <1>1, TailFacts
  <2> HIDE DEF q
  <2>2. tasks' = q
    BY <1>2 DEF q
  <2> QED
    BY <1>1, <2>1, <2>2, <2>3
<1>4. accepted = None /\ sendErr = None /\ splitControl = "STOPPING" /\ txState = "STOPPED"
  BY <1>3 DEF SendInv, Phases, Switches
<1>5. Types'
  <2>1. Csma!TransmitTypeOK'
    BY <1>2, <1>3 DEF SendInv, Types, Csma!TypeOK, Csma!TransmitTypeOK, Queue, TaskName, Csma!BusUntouched, Csma!message, Csma!reception, Csma!chip
  <2> QED
    BY <1>2, <1>3, <2>1 DEF SendInv, Types, Csma!TypeOK
<1>6. Phases' /\ Switches'
  BY <1>2, <1>3, <1>4 DEF SendInv, Phases, Switches, Csma!BusUntouched
<1>7. Handling' /\ Hands'
  BY <1>2, <1>3 DEF SendInv, Handling, Hands, InHand, Csma!BusUntouched
<1> QED BY <1>5, <1>6, <1>7 DEF SendInv

LEMMA FreeFacts ==
  ASSUME SendInv, NEW q, Queue(q), Csma!BusComesFree(q)
  PROVE  /\ Queue(tasks')
         /\ \A u : In(tasks', u) <=> In(q, u) \/ (u = "granted" /\ wish > 0)
         /\ \A u, v : Ahead(q, u, v) => Ahead(tasks', u, v)
         /\ bus' = (IF wish > 0 THEN "transmit" ELSE "none") /\ wish' \in 0..2
         /\ wish' > 0 => bus' # "none"
<1>1. wish \in 0..2
  BY DEF SendInv, Types, Csma!TypeOK, Csma!TransmitTypeOK
<1>2. CASE wish > 0
  <2>1. tasks' = Csma!Post(q, "granted") /\ wish' = wish - 1 /\ bus' = "transmit" /\ wish - 1 \in 0..2
    BY <1>1, <1>2 DEF Csma!BusComesFree
  <2> QED
    BY <1>2, <2>1, PostFacts DEF TaskName
<1>3. CASE ~(wish > 0)
  BY <1>3 DEF Csma!BusComesFree
<1> QED BY <1>2, <1>3

LEMMA StartDoneKeeps == ASSUME SendInv, Csma!startDone_task PROVE SendInv'
<1> DEFINE q == Tail(tasks)
<1>1. Queue(tasks) /\ tasks # << >> /\ Head(tasks) = "startDone" /\ Csma!InTask
  BY DEF SendInv, Types, Csma!startDone_task, Csma!Runs
<1>2. /\ Queue(q) /\ In(tasks, "startDone")
      /\ \A u : In(q, u) <=> In(tasks, u) /\ u # "startDone"
      /\ \A u, v : Ahead(tasks, u, v) /\ u # "startDone" => Ahead(q, u, v)
  BY <1>1, TailFacts
<1>3. Csma!BusComesFree(q) /\ Csma!start /\ splitControl' = "STARTED" /\ UNCHANGED <<startup, accepted, cancelled>>
  BY DEF Csma!startDone_task
<1> HIDE DEF q
<1>4. /\ Queue(tasks')
      /\ \A u : In(tasks', u) <=> In(q, u) \/ (u = "granted" /\ wish > 0)
      /\ bus' = (IF wish > 0 THEN "transmit" ELSE "none") /\ wish' \in 0..2
      /\ wish' > 0 => bus' # "none"
  BY <1>2, <1>3, FreeFacts
<1>5. /\ splitControl = "STARTING" /\ startup = "none" /\ bus = "csma" /\ txState = "STOPPED"
      /\ ~In(tasks, "stopDone") /\ ~In(tasks, "granted") /\ accepted = None /\ sendErr = None
  BY <1>2 DEF SendInv, Phases, Switches, Hands, Ahead, In
<1>6. Types'
  <2>1. {m_cca, m_receiving, sfdHigh, abortSpiRelease, backoff, writing, sfd, capture}' \subseteq BOOLEAN
    BY <1>3 DEF SendInv, Types, Csma!TypeOK, Csma!TransmitTypeOK, Csma!start, Csma!Capture, Csma!message
  <2>2. Csma!TransmitTypeOK'
    BY <1>3, <1>4, <2>1 DEF SendInv, Types, Csma!TypeOK, Csma!TransmitTypeOK, Csma!start, Csma!Capture, Csma!message, Queue, TaskName
  <2> QED
    BY <1>3, <1>4, <2>2 DEF SendInv, Types, Csma!TypeOK
<1>7. Phases' /\ Switches'
  BY <1>2, <1>3, <1>4, <1>5 DEF SendInv, Phases, Switches, Csma!start
<1>8. Handling'
  BY <1>1, <1>3 DEF Handling, Csma!start, Csma!InTask
<1>9. Hands'
  <2>1. ~InHand
    BY <1>5 DEF SendInv, Hands
  <2> QED
    BY <1>2, <1>3, <1>4, <1>5, <2>1 DEF Hands, InHand, Csma!start
<1> QED BY <1>6, <1>7, <1>8, <1>9 DEF SendInv

------------------------------------------------------------------------------
(* The transmitter's tasks and handlers, while a message is under way.     *)

LEMMA GrantHasBus ==
  ASSUME SendInv, txState # "STOPPED"
  PROVE  In(tasks, "granted") => bus = "transmit"
<1>1. ~In(tasks, "stopDone")
  BY DEF SendInv, Phases, Switches
<1> QED
  BY <1>1 DEF SendInv, Hands, Ahead, In

(* What medium access sees of a step: nothing, or the answer.              *)
LEMMA BusyKeeps ==
  ASSUME SendInv, UNCHANGED Csma!csmaVars, txState \notin {"STOPPED", "STARTED"},
         txState' \notin {"STOPPED", "STARTED"}, txState' = "CANCEL" <=> txState = "CANCEL",
         sendErr' = sendErr, bus' = "csma" <=> bus = "csma",
         \A t \in {"startDone", "sendDone", "stopDone"} : In(tasks', t) <=> In(tasks, t)
  PROVE  Phases' /\ Switches'
<1>1. UNCHANGED <<splitControl, startup, accepted, cancelled>>
  BY DEF Csma!csmaVars
<1>2. accepted # None /\ sendErr = None /\ ~In(tasks, "sendDone")
  BY DEF SendInv, Phases
<1> QED
  BY <1>1, <1>2 DEF SendInv, Phases, Switches

LEMMA AnswerKeeps ==
  ASSUME Csma!TransmitAssumption, SendInv, UNCHANGED Csma!csmaVars, txState \notin {"STOPPED", "STARTED"},
         txState' = "STARTED", sendErr' # None, sendErr' = "ECANCEL" <=> txState = "CANCEL",
         bus' = "csma" <=> bus = "csma", In(tasks', "sendDone"),
         \A t \in {"startDone", "stopDone"} : In(tasks', t) <=> In(tasks, t)
  PROVE  Phases' /\ Switches'
<1>1. UNCHANGED <<splitControl, startup, accepted, cancelled>>
  BY DEF Csma!csmaVars
<1>2. accepted # None /\ sendErr = None
  BY DEF SendInv, Phases
<1>3. ~In(tasks, "stopDone") /\ splitControl \notin {"STOPPED", "STARTING"}
  BY <1>2 DEF SendInv, Switches
<1> QED
  BY <1>1, <1>2, <1>3 DEF SendInv, Phases, Switches

(* After a release the transmitter has the bus only for a request that     *)
(* waited, and only with a grant posted.                                   *)
LEMMA ReturnKeeps ==
  ASSUME SendInv, Csma!GiveBack, NEW q, Queue(q), ~In(q, "granted"),
         In(tasks', "granted") <=> In(Csma!Released(q), "granted"),
         writing' = FALSE, main' # "congested", txState' # "SFD"
  PROVE  Hands'
<1>1. /\ In(Csma!Released(q), "granted") <=> bus = "transmit" /\ wish > 0
      /\ bus # "transmit" => bus' = bus /\ wish' = wish
      /\ bus = "transmit" => bus' = IF wish > 0 THEN "transmit" ELSE "none"
      /\ wish' > 0 => bus' # "none"
  BY GiveBackFacts
<1> QED
  BY <1>1 DEF Hands, InHand

LEMMA FlushKeeps ==
  ASSUME Csma!TransmitAssumption, SendInv, UNCHANGED Csma!csmaVars, txState = "CANCEL",
         UNCHANGED <<Csma!message, Csma!reception, abortSpiRelease, isr, main>>, isr = "none",
         writing' = FALSE, main # "congested", backoff' \in BOOLEAN, UNCHANGED Csma!chip,
         Csma!GiveBack, NEW q, Queue(q), ~In(q, "granted"), Csma!Over("ECANCEL", Csma!Released(q)),
         \A t \in {"startDone", "stopDone"} : In(q, t) <=> In(tasks, t)
  PROVE  SendInv'
<1>1. txState' = "STARTED" /\ sendErr' = "ECANCEL" /\ tasks' = Csma!Post(Csma!Released(q), "sendDone")
  BY DEF Csma!Over
<1>2. /\ Queue(Csma!Released(q))
      /\ \A u : In(Csma!Released(q), u) <=> In(q, u) \/ (u = "granted" /\ bus = "transmit" /\ wish > 0)
      /\ bus' \in {"transmit", "csma", "other", "none"} /\ wish' \in 0..2
      /\ bus' = "csma" <=> bus = "csma"
  BY GiveBackFacts
<1>3. Queue(tasks') /\ \A u : In(tasks', u) <=> In(Csma!Released(q), u) \/ u = "sendDone"
  BY <1>1, <1>2, PostFacts DEF TaskName
<1>4. "ECANCEL" # None
  BY <1>1 DEF Csma!TransmitAssumption
<1>5. Types'
  <2>1. {m_cca, m_receiving, sfdHigh, abortSpiRelease, backoff, writing, sfd, capture}' \subseteq BOOLEAN
    BY DEF SendInv, Types, Csma!TypeOK, Csma!TransmitTypeOK, Csma!message, Csma!reception, Csma!chip
  <2>2. Csma!TransmitTypeOK'
    BY <1>1, <1>2, <1>3, <2>1
    DEF SendInv, Types, Csma!TypeOK, Csma!TransmitTypeOK, Csma!message, Csma!chip, Queue, TaskName
  <2> QED
    BY <1>3, <2>2 DEF SendInv, Types, Csma!TypeOK, Csma!csmaVars
<1>6. Phases' /\ Switches'
  BY <1>1, <1>2, <1>3, <1>4, AnswerKeeps
<1>7. Handling'
  BY DEF SendInv, Handling
<1>8. Hands'
  BY <1>1, <1>3, ReturnKeeps
<1> QED BY <1>5, <1>6, <1>7, <1>8 DEF SendInv

(* Strobe, which leaves bus and answers alone.                             *)
LEMMA StrobeTypes ==
  ASSUME SendInv, Csma!Strobe
  PROVE  /\ air' \in {"quiet", "rx", "tuned", "tx"} /\ edge' \in {"rising", "falling", "off"}
         /\ {sfd', capture'} \subseteq BOOLEAN
<1>1. capture \in BOOLEAN /\ edge \in {"rising", "falling", "off"}
  BY DEF SendInv, Types, Csma!TypeOK, Csma!TransmitTypeOK
<1> QED
  BY <1>1 DEF Csma!Strobe

LEMMA SucceedsKeeps ==
  ASSUME SendInv, UNCHANGED Csma!csmaVars, txState \in {"LOAD", "BEGIN_TRANSMIT"},
         UNCHANGED <<Csma!message, Csma!reception, abortSpiRelease, isr, main>>, isr = "none",
         writing' = FALSE, main # "congested", bus \in {"transmit", "none"},
         ~In(tasks, "granted"), Csma!Succeeds
  PROVE  SendInv'
<1>1. /\ txState' = "SFD" /\ Csma!Strobe /\ backoff' = TRUE /\ bus' = "transmit"
      /\ UNCHANGED <<wish, tasks, sendErr>>
  BY DEF Csma!Succeeds
<1>2. Types'
  <2>1. {m_cca, m_receiving, sfdHigh, abortSpiRelease, backoff, writing, sfd, capture}' \subseteq BOOLEAN
    BY <1>1, StrobeTypes DEF SendInv, Types, Csma!TypeOK, Csma!TransmitTypeOK, Csma!message, Csma!reception
  <2>2. Csma!TransmitTypeOK'
    BY <1>1, <2>1, StrobeTypes DEF SendInv, Types, Csma!TypeOK, Csma!TransmitTypeOK, Csma!message
  <2> QED
    BY <1>1, <2>2 DEF SendInv, Types, Csma!TypeOK, Csma!csmaVars
<1>3. Phases' /\ Switches'
  BY <1>1, BusyKeeps
<1>4. Handling' /\ Hands'
  BY <1>1 DEF SendInv, Handling, Hands, InHand
<1> QED BY <1>2, <1>3, <1>4 DEF SendInv

(* A busy channel, found before the frame is strobed.                      *)
LEMMA CongestedKeeps ==
  ASSUME SendInv, UNCHANGED Csma!csmaVars, txState \in {"LOAD", "BEGIN_TRANSMIT"},
         UNCHANGED <<Csma!message, Csma!reception, abortSpiRelease, isr, main>>, isr = "none",
         writing' = FALSE, main # "congested", ~In(tasks, "granted"), Csma!Congested
  PROVE  SendInv'
<1>1. /\ txState' = "SAMPLE_CCA" /\ Csma!GiveBack /\ tasks' = Csma!Released(tasks) /\ backoff' = TRUE
      /\ UNCHANGED <<sendErr, Csma!chip>> /\ Queue(tasks)
  BY DEF Csma!Congested, Csma!releaseSpiResource, SendInv, Types
<1>2. /\ Queue(tasks')
      /\ \A u : In(tasks', u) <=> In(tasks, u) \/ (u = "granted" /\ bus = "transmit" /\ wish > 0)
      /\ bus' \in {"transmit", "csma", "other", "none"} /\ wish' \in 0..2
      /\ bus' = "csma" <=> bus = "csma"
  BY <1>1, GiveBackFacts
<1>3. Types'
  <2>1. {m_cca, m_receiving, sfdHigh, abortSpiRelease, backoff, writing, sfd, capture}' \subseteq BOOLEAN
    BY <1>1 DEF SendInv, Types, Csma!TypeOK, Csma!TransmitTypeOK, Csma!message, Csma!reception, Csma!chip
  <2>2. Csma!TransmitTypeOK'
    BY <1>1, <1>2, <2>1 DEF SendInv, Types, Csma!TypeOK, Csma!TransmitTypeOK, Csma!message, Csma!chip, Queue, TaskName
  <2> QED
    BY <1>2, <2>2 DEF SendInv, Types, Csma!TypeOK, Csma!csmaVars
<1>4. Phases' /\ Switches'
  BY <1>1, <1>2, BusyKeeps
<1>5. Handling'
  BY <1>1 DEF SendInv, Handling
<1>6. Hands'
  BY <1>1, ReturnKeeps
<1> QED BY <1>3, <1>4, <1>5, <1>6 DEF SendInv

LEMMA WriteDoneKeeps ==
  ASSUME Csma!TransmitAssumption, SendInv, Csma!TXFIFOWriteDone, UNCHANGED Csma!csmaVars PROVE SendInv'
<1>1. /\ isr = "none" /\ writing' = FALSE /\ UNCHANGED <<Csma!message, Csma!reception, abortSpiRelease, isr, main>>
      /\ bus = "transmit" /\ ~In(tasks, "granted") /\ txState \in {"LOAD", "CANCEL"}
      /\ main # "congested" /\ Queue(tasks)
  BY DEF Csma!TXFIFOWriteDone, SendInv, Types, Hands, InHand
<1>2. CASE txState = "CANCEL" /\ Csma!Flush /\ backoff' = FALSE
  BY <1>1, <1>2, FlushKeeps DEF Csma!Flush
<1>3. CASE txState # "CANCEL" /\ Csma!Succeeds
  BY <1>1, <1>3, SucceedsKeeps
<1>4. CASE txState # "CANCEL" /\ Csma!Congested
  BY <1>1, <1>4, CongestedKeeps
<1> QED
  BY <1>1, <1>2, <1>3, <1>4 DEF Csma!TXFIFOWriteDone, Csma!attemptSend, Csma!Congested

(* signalDone, with the bus in other hands or given back.                  *)
LEMMA DoneFacts ==
  ASSUME Csma!TransmitAssumption, SendInv, UNCHANGED Csma!csmaVars, UNCHANGED Csma!message,
         txState \notin {"STOPPED", "STARTED", "CANCEL"},
         NEW err \in {"SUCCESS", "ERETRY"}, NEW q, Queue(q), Csma!signalDone(err, q),
         \A t \in {"startDone", "stopDone"} : In(q, t) <=> In(tasks, t),
         {m_receiving', sfdHigh', backoff', writing', sfd', capture'} \subseteq BOOLEAN,
         isr' \in {"none", "default"}, main' \in {"none", "strobed", "congested"},
         bus' \in {"transmit", "csma", "other", "none"}, wish' \in 0..2, bus' = "csma" <=> bus = "csma",
         air' \in {"quiet", "rx", "tuned", "tx"}, edge' \in {"rising", "falling", "off"}
  PROVE  /\ Types' /\ Phases' /\ Switches' /\ Handling' /\ txState' = "STARTED"
         /\ In(tasks', "granted") <=> In(q, "granted")
<1>1. txState' = "STARTED" /\ sendErr' = err /\ tasks' = Csma!Post(q, "sendDone") /\ abortSpiRelease' = FALSE
  BY DEF Csma!signalDone, Csma!Over
<1>2. Queue(tasks') /\ \A u : In(tasks', u) <=> In(q, u) \/ u = "sendDone"
  BY <1>1, PostFacts DEF TaskName
<1>3. err # None /\ err # "ECANCEL"
  BY DEF Csma!TransmitAssumption
<1>4. Types'
  <2>1. {m_cca, m_receiving, sfdHigh, abortSpiRelease, backoff, writing, sfd, capture}' \subseteq BOOLEAN
    BY <1>1 DEF SendInv, Types, Csma!TypeOK, Csma!TransmitTypeOK, Csma!message
  <2>2. Csma!TransmitTypeOK'
    BY <1>1, <1>2, <2>1 DEF SendInv, Types, Csma!TypeOK, Csma!TransmitTypeOK, Csma!message, Queue, TaskName
  <2> QED
    BY <1>2, <2>2 DEF SendInv, Types, Csma!TypeOK, Csma!csmaVars
<1>5. Phases' /\ Switches'
  BY <1>1, <1>2, <1>3, AnswerKeeps
<1>6. Handling'
  BY <1>1 DEF Handling
<1> QED BY <1>1, <1>2, <1>4, <1>5, <1>6

LEMMA DoneKeeps ==
  ASSUME Csma!TransmitAssumption, SendInv, UNCHANGED Csma!csmaVars, txState = "ACK_WAIT",
         Csma!signalDone("SUCCESS", tasks), UNCHANGED <<Csma!message, Csma!reception, isr, main, bus, wish, writing, Csma!chip>>,
         isr = "none", backoff' = FALSE
  PROVE  SendInv'
<1>1. Queue(tasks)
  BY DEF SendInv, Types
<1>2. {m_receiving', sfdHigh', backoff', writing', sfd', capture'} \subseteq BOOLEAN
  BY DEF SendInv, Types, Csma!TypeOK, Csma!TransmitTypeOK, Csma!reception, Csma!chip
<1>3. /\ isr' \in {"none", "default"} /\ main' \in {"none", "strobed", "congested"}
      /\ bus' \in {"transmit", "csma", "other", "none"} /\ wish' \in 0..2
      /\ air' \in {"quiet", "rx", "tuned", "tx"} /\ edge' \in {"rising", "falling", "off"}
  BY DEF SendInv, Types, Csma!TypeOK, Csma!TransmitTypeOK, Csma!chip
<1>4. /\ Types' /\ Phases' /\ Switches' /\ Handling' /\ txState' = "STARTED"
      /\ In(tasks', "granted") <=> In(tasks, "granted")
  BY <1>1, <1>2, <1>3, DoneFacts
<1>5. Hands'
  <2>1. In(tasks, "granted") => bus = "transmit"
    BY GrantHasBus
  <2> QED
    BY <1>4, <2>1 DEF SendInv, Hands, InHand
<1> QED BY <1>4, <1>5 DEF SendInv

LEMMA DoneReturns ==
  ASSUME Csma!TransmitAssumption, SendInv, UNCHANGED Csma!csmaVars, txState = "SFD",
         Csma!GiveBack, Csma!signalDone("ERETRY", Csma!Released(tasks)), Csma!Capture("rising"),
         UNCHANGED <<Csma!message, Csma!reception, isr, main, writing>>, isr = "none", backoff' = FALSE
  PROVE  SendInv'
<1>1. /\ Queue(tasks) /\ ~In(tasks, "granted") /\ writing = FALSE /\ main # "congested"
  BY DEF SendInv, Types, Hands, InHand, Csma!TypeOK, Csma!TransmitTypeOK
<1>2. /\ Queue(Csma!Released(tasks))
      /\ \A u : In(Csma!Released(tasks), u) <=> In(tasks, u) \/ (u = "granted" /\ bus = "transmit" /\ wish > 0)
      /\ bus' \in {"transmit", "csma", "other", "none"} /\ wish' \in 0..2
      /\ bus' = "csma" <=> bus = "csma"
  BY <1>1, GiveBackFacts
<1>3. {m_receiving', sfdHigh', backoff', writing', sfd', capture'} \subseteq BOOLEAN
  BY DEF SendInv, Types, Csma!TypeOK, Csma!TransmitTypeOK, Csma!reception, Csma!Capture
<1>4. /\ isr' \in {"none", "default"} /\ main' \in {"none", "strobed", "congested"}
      /\ air' \in {"quiet", "rx", "tuned", "tx"} /\ edge' \in {"rising", "falling", "off"}
  BY DEF SendInv, Types, Csma!TypeOK, Csma!TransmitTypeOK, Csma!Capture
<1>5. /\ Types' /\ Phases' /\ Switches' /\ Handling' /\ txState' = "STARTED"
      /\ In(tasks', "granted") <=> In(Csma!Released(tasks), "granted")
  BY <1>2, <1>3, <1>4, DoneFacts
<1>6. Hands'
  BY <1>1, <1>5, ReturnKeeps
<1> QED BY <1>5, <1>6 DEF SendInv

LEMMA FiredKeeps ==
  ASSUME Csma!TransmitAssumption, SendInv, Csma!BackoffTimerFired, UNCHANGED Csma!csmaVars PROVE SendInv'
<1>1. isr = "none" /\ UNCHANGED <<Csma!message, Csma!reception, isr, main, writing>> /\ Queue(tasks)
  BY DEF Csma!BackoffTimerFired, SendInv, Types
<1>2. CASE Csma!FiredSamples
  <2>1. /\ txState = "SAMPLE_CCA" /\ txState' \in {"SAMPLE_CCA", "BEGIN_TRANSMIT"} /\ backoff' = TRUE
        /\ UNCHANGED <<abortSpiRelease, sendErr, Csma!spi, Csma!chip>>
    BY <1>2 DEF Csma!FiredSamples
  <2>2. Types'
    <3>1. {m_cca, m_receiving, sfdHigh, abortSpiRelease, backoff, writing, sfd, capture}' \subseteq BOOLEAN
      BY <1>1, <2>1 DEF SendInv, Types, Csma!TypeOK, Csma!TransmitTypeOK, Csma!message, Csma!reception, Csma!chip
    <3> QED
      BY <1>1, <2>1, <3>1 DEF SendInv, Types, Csma!TypeOK, Csma!TransmitTypeOK, Csma!message, Csma!spi, Csma!chip, Csma!csmaVars
  <2>3. Phases' /\ Switches'
    BY <2>1, BusyKeeps DEF Csma!spi
  <2>4. Handling' /\ Hands'
    BY <1>1, <2>1 DEF SendInv, Handling, Hands, InHand, Csma!spi
  <2> QED BY <2>2, <2>3, <2>4 DEF SendInv
<1>3. CASE Csma!FiredAttempts /\ bus = "none" /\ Csma!attemptSend
  <2>1. txState \in {"BEGIN_TRANSMIT", "CANCEL"} /\ UNCHANGED abortSpiRelease
    BY <1>3 DEF Csma!FiredAttempts
  <2>2. ~In(tasks, "granted") /\ writing = FALSE /\ main # "congested"
    BY <1>3, <2>1, GrantHasBus DEF SendInv, Hands, InHand, Types, Csma!TypeOK, Csma!TransmitTypeOK
  <2>3. CASE txState = "CANCEL" /\ Csma!Flush /\ backoff' = FALSE
    BY <1>1, <2>1, <2>2, <2>3, FlushKeeps DEF Csma!Flush
  <2>4. CASE txState # "CANCEL" /\ Csma!Succeeds
    BY <1>1, <1>3, <2>1, <2>2, <2>4, SucceedsKeeps
  <2>5. CASE txState # "CANCEL" /\ Csma!Congested
    BY <1>1, <2>1, <2>2, <2>5, CongestedKeeps
  <2> QED
    BY <1>3, <2>3, <2>4, <2>5 DEF Csma!attemptSend
<1>4. CASE Csma!FiredAttempts /\ bus # "none" /\ Csma!Requests /\ backoff' = FALSE
           /\ UNCHANGED <<txState, sendErr, bus, tasks, Csma!chip>>
  <2>1. txState \in {"BEGIN_TRANSMIT", "CANCEL"} /\ UNCHANGED abortSpiRelease /\ wish' \in 0..2
    BY <1>4 DEF Csma!FiredAttempts, Csma!Requests, SendInv, Types, Csma!TypeOK, Csma!TransmitTypeOK
  <2>2. Types'
    <3>1. {m_cca, m_receiving, sfdHigh, abortSpiRelease, backoff, writing, sfd, capture}' \subseteq BOOLEAN
      BY <1>1, <1>4, <2>1 DEF SendInv, Types, Csma!TypeOK, Csma!TransmitTypeOK, Csma!message, Csma!reception, Csma!chip
    <3> QED
      BY <1>1, <1>4, <2>1, <3>1 DEF SendInv, Types, Csma!TypeOK, Csma!TransmitTypeOK, Csma!message, Csma!chip, Csma!csmaVars
  <2>3. Phases' /\ Switches'
    BY <1>4, <2>1, BusyKeeps
  <2>4. Handling' /\ Hands'
    BY <1>1, <1>4, <2>1 DEF SendInv, Handling, Hands, InHand
  <2> QED BY <2>2, <2>3, <2>4 DEF SendInv
<1>5. CASE Csma!FiredGivesUp /\ txState = "ACK_WAIT"
  <2>1. backoff' = FALSE /\ Csma!signalDone("SUCCESS", tasks) /\ UNCHANGED <<bus, wish, Csma!chip>>
    BY <1>5 DEF Csma!FiredGivesUp
  <2> QED
    BY <1>1, <1>5, <2>1, DoneKeeps
<1>6. CASE Csma!FiredGivesUp /\ txState = "SFD"
  <2>1. /\ backoff' = FALSE /\ Csma!GiveBack /\ Csma!signalDone("ERETRY", Csma!Released(tasks))
        /\ Csma!Capture("rising")
    BY <1>6 DEF Csma!FiredGivesUp
  <2>2. ~In(tasks, "granted") /\ writing = FALSE /\ main # "congested"
    BY <1>6 DEF SendInv, Hands, InHand, Types, Csma!TypeOK, Csma!TransmitTypeOK
  <2> QED
    BY <1>1, <1>6, <2>1, <2>2, DoneReturns
<1>7. CASE Csma!FiredIdles
  <2>1. backoff' = FALSE /\ UNCHANGED <<txState, abortSpiRelease, sendErr, Csma!spi, Csma!chip>>
    BY <1>7 DEF Csma!FiredIdles
  <2>2. Types'
    <3>1. {m_cca, m_receiving, sfdHigh, abortSpiRelease, backoff, writing, sfd, capture}' \subseteq BOOLEAN
      BY <1>1, <2>1 DEF SendInv, Types, Csma!TypeOK, Csma!TransmitTypeOK, Csma!message, Csma!reception, Csma!chip
    <3> QED
      BY <1>1, <2>1, <3>1 DEF SendInv, Types, Csma!TypeOK, Csma!TransmitTypeOK, Csma!message, Csma!spi, Csma!chip, Csma!csmaVars
  <2>3. Phases' /\ Switches'
    BY <2>1 DEF SendInv, Phases, Switches, Csma!spi, Csma!csmaVars
  <2>4. Handling' /\ Hands'
    BY <1>1, <2>1 DEF SendInv, Handling, Hands, InHand, Csma!spi
  <2> QED BY <2>2, <2>3, <2>4 DEF SendInv
<1> QED
  BY <1>2, <1>3, <1>4, <1>5, <1>6, <1>7 DEF Csma!BackoffTimerFired, Csma!FiredAttempts, Csma!FiredGivesUp

LEMMA GrantedKeeps ==
  ASSUME Csma!TransmitAssumption, SendInv, Csma!SpiResourceGranted, UNCHANGED Csma!csmaVars PROVE SendInv'
<1> DEFINE q == Tail(tasks)
<1>1. /\ Queue(tasks) /\ tasks # << >> /\ Head(tasks) = "granted" /\ isr = "none" /\ main = "none"
      /\ UNCHANGED <<Csma!message, Csma!reception, abortSpiRelease, backoff, isr>>
  BY DEF SendInv, Types, Csma!SpiResourceGranted, Csma!Runs, Csma!InTask
<1>2. /\ Queue(q) /\ In(tasks, "granted") /\ ~In(q, "granted")
      /\ \A t \in {"startDone", "sendDone", "stopDone"} : In(q, t) <=> In(tasks, t)
  BY <1>1, TailFacts
<1>3. txState # "STOPPED" => bus = "transmit"
  BY <1>2, GrantHasBus
<1>4. ~writing /\ txState # "SFD"
  BY <1>2 DEF SendInv, Hands, InHand
<1>5. CASE Csma!GrantedLoads
  <2>1. /\ txState = "LOAD" /\ writing' = TRUE /\ tasks' = q
        /\ UNCHANGED <<txState, sendErr, main, bus, wish, Csma!chip>>
    BY <1>5 DEF Csma!GrantedLoads
  <2> HIDE DEF q
  <2>2. Types'
    <3>1. {m_cca, m_receiving, sfdHigh, abortSpiRelease, backoff, writing, sfd, capture}' \subseteq BOOLEAN
      BY <1>1, <2>1 DEF SendInv, Types, Csma!TypeOK, Csma!TransmitTypeOK, Csma!message, Csma!reception, Csma!chip
    <3>2. Csma!TransmitTypeOK'
      BY <1>1, <1>2, <2>1, <3>1 DEF SendInv, Types, Csma!TypeOK, Csma!TransmitTypeOK, Csma!message, Csma!chip, Queue, TaskName
    <3> QED
      BY <1>2, <2>1, <3>2 DEF SendInv, Types, Csma!TypeOK, Csma!csmaVars
  <2>3. Phases' /\ Switches'
    BY <1>2, <2>1, BusyKeeps
  <2>4. Handling' /\ Hands'
    BY <1>1, <1>2, <1>3, <2>1 DEF SendInv, Handling, Hands, InHand
  <2> QED BY <2>2, <2>3, <2>4 DEF SendInv
<1>6. CASE Csma!GrantedStrobes
  <2>1. /\ txState = "BEGIN_TRANSMIT" /\ tasks' = q
        /\ \/ txState' = "SFD" /\ main' = "strobed" /\ Csma!Strobe
           \/ txState' = "SAMPLE_CCA" /\ main' = "congested" /\ UNCHANGED Csma!chip
        /\ UNCHANGED <<sendErr, bus, wish, writing>>
    BY <1>6 DEF Csma!GrantedStrobes
  <2> HIDE DEF q
  <2>2. /\ air' \in {"quiet", "rx", "tuned", "tx"} /\ edge' \in {"rising", "falling", "off"}
        /\ {sfd', capture'} \subseteq BOOLEAN
    BY <2>1, StrobeTypes DEF SendInv, Types, Csma!TypeOK, Csma!TransmitTypeOK, Csma!chip
  <2>3. Types'
    <3>1. {m_cca, m_receiving, sfdHigh, abortSpiRelease, backoff, writing, sfd, capture}' \subseteq BOOLEAN
      BY <1>1, <2>1, <2>2 DEF SendInv, Types, Csma!TypeOK, Csma!TransmitTypeOK, Csma!message, Csma!reception
    <3>2. txState' \in {"SFD", "SAMPLE_CCA"} /\ main' \in {"strobed", "congested"}
      BY <2>1
    <3>3. Csma!TransmitTypeOK'
      BY <1>1, <1>2, <2>1, <2>2, <3>1, <3>2
      DEF SendInv, Types, Csma!TypeOK, Csma!TransmitTypeOK, Csma!message, Queue, TaskName
    <3> QED
      BY <1>2, <2>1, <3>3 DEF SendInv, Types, Csma!TypeOK, Csma!csmaVars
  <2>4. Phases' /\ Switches'
    BY <1>2, <2>1, BusyKeeps
  <2>5. Handling' /\ Hands'
    BY <1>1, <1>2, <1>3, <1>4, <2>1 DEF SendInv, Handling, Hands, InHand
  <2> QED BY <2>3, <2>4, <2>5 DEF SendInv
<1>7. CASE Csma!GrantedReturns /\ txState = "CANCEL"
  <2>1. Csma!GiveBack /\ Csma!Over("ECANCEL", Csma!Released(q)) /\ UNCHANGED <<main, writing, Csma!chip>>
    BY <1>7 DEF Csma!GrantedReturns
  <2> HIDE DEF q
  <2>2. writing' = FALSE /\ backoff' \in BOOLEAN /\ main # "congested"
    BY <1>1, <1>4, <2>1 DEF SendInv, Types, Csma!TypeOK, Csma!TransmitTypeOK
  <2> QED
    BY <1>1, <1>2, <1>7, <2>1, <2>2, FlushKeeps
<1>8. CASE Csma!GrantedReturns /\ txState # "CANCEL"
  <2>1. Csma!GiveBack /\ tasks' = Csma!Released(q) /\ UNCHANGED <<txState, sendErr, main, writing, Csma!chip>>
    BY <1>8 DEF Csma!GrantedReturns
  <2> HIDE DEF q
  <2>2. /\ Queue(tasks')
        /\ \A u : In(tasks', u) <=> In(q, u) \/ (u = "granted" /\ bus = "transmit" /\ wish > 0)
        /\ bus' \in {"transmit", "csma", "other", "none"} /\ wish' \in 0..2
        /\ bus' = "csma" <=> bus = "csma"
    BY <1>2, <2>1, GiveBackFacts
  <2>3. Types'
    <3>1. {m_cca, m_receiving, sfdHigh, abortSpiRelease, backoff, writing, sfd, capture}' \subseteq BOOLEAN
      BY <1>1, <2>1 DEF SendInv, Types, Csma!TypeOK, Csma!TransmitTypeOK, Csma!message, Csma!reception, Csma!chip
    <3>2. Csma!TransmitTypeOK'
      BY <1>1, <2>1, <2>2, <3>1 DEF SendInv, Types, Csma!TypeOK, Csma!TransmitTypeOK, Csma!message, Csma!chip, Queue, TaskName
    <3> QED
      BY <2>2, <3>2 DEF SendInv, Types, Csma!TypeOK, Csma!csmaVars
  <2>4. Phases' /\ Switches'
    BY <1>2, <2>1, <2>2 DEF SendInv, Phases, Switches, Csma!csmaVars
  <2>5. Handling'
    BY <1>1, <2>1 DEF SendInv, Handling
  <2>6. Hands'
    BY <1>1, <1>2, <1>4, <2>1, ReturnKeeps DEF SendInv, Types, Csma!TypeOK, Csma!TransmitTypeOK
  <2> QED BY <2>3, <2>4, <2>5, <2>6 DEF SendInv
<1> QED
  BY <1>5, <1>6, <1>7, <1>8 DEF Csma!SpiResourceGranted

LEMMA AttemptKeeps == ASSUME SendInv, Csma!AttemptEnds, UNCHANGED Csma!csmaVars PROVE SendInv'
<1>1. /\ isr = "none" /\ main' = "none" /\ backoff' = TRUE /\ Queue(tasks)
      /\ UNCHANGED <<txState, Csma!message, Csma!reception, abortSpiRelease, sendErr, isr, writing, Csma!chip>>
  BY DEF Csma!AttemptEnds, SendInv, Types
<1>2. CASE main = "congested"
  <2>1. Csma!GiveBack /\ tasks' = Csma!Released(tasks)
    BY <1>2 DEF Csma!AttemptEnds, Csma!releaseSpiResource
  <2>2. /\ Queue(tasks')
        /\ \A u : In(tasks', u) <=> In(tasks, u) \/ (u = "granted" /\ bus = "transmit" /\ wish > 0)
        /\ bus' \in {"transmit", "csma", "other", "none"} /\ wish' \in 0..2
        /\ bus' = "csma" <=> bus = "csma"
    BY <1>1, <2>1, GiveBackFacts
  <2>3. txState \in {"SAMPLE_CCA", "BEGIN_TRANSMIT"} /\ ~In(tasks, "granted") /\ writing = FALSE
    BY <1>2 DEF SendInv, Hands, InHand, Types, Csma!TypeOK, Csma!TransmitTypeOK
  <2>4. Types'
    <3>1. {m_cca, m_receiving, sfdHigh, abortSpiRelease, backoff, writing, sfd, capture}' \subseteq BOOLEAN
      BY <1>1 DEF SendInv, Types, Csma!TypeOK, Csma!TransmitTypeOK, Csma!message, Csma!reception, Csma!chip
    <3>2. Csma!TransmitTypeOK'
      BY <1>1, <2>2, <3>1 DEF SendInv, Types, Csma!TypeOK, Csma!TransmitTypeOK, Csma!message, Csma!chip, Queue, TaskName
    <3> QED
      BY <2>2, <3>2 DEF SendInv, Types, Csma!TypeOK, Csma!csmaVars
  <2>5. Phases' /\ Switches'
    BY <1>1, <2>2, <2>3, BusyKeeps
  <2>6. Handling'
    BY <1>1 DEF SendInv, Handling
  <2>7. Hands'
    BY <1>1, <2>1, <2>3, ReturnKeeps
  <2> QED BY <2>4, <2>5, <2>6, <2>7 DEF SendInv
<1>3. CASE main # "congested"
  <2>1. UNCHANGED Csma!spi
    BY <1>3 DEF Csma!AttemptEnds
  <2>2. Types'
    <3>1. {m_cca, m_receiving, sfdHigh, abortSpiRelease, backoff, writing, sfd, capture}' \subseteq BOOLEAN
      BY <1>1 DEF SendInv, Types, Csma!TypeOK, Csma!TransmitTypeOK, Csma!message, Csma!reception, Csma!chip
    <3> QED
      BY <1>1, <2>1, <3>1 DEF SendInv, Types, Csma!TypeOK, Csma!TransmitTypeOK, Csma!message, Csma!spi, Csma!chip, Csma!csmaVars
  <2>3. Phases' /\ Switches'
    BY <1>1, <2>1 DEF SendInv, Phases, Switches, Csma!spi, Csma!csmaVars
  <2>4. Handling' /\ Hands'
    BY <1>1, <1>3, <2>1 DEF SendInv, Handling, Hands, InHand, Csma!spi
  <2> QED BY <2>2, <2>3, <2>4 DEF SendInv
<1> QED BY <1>2, <1>3

LEMMA AckKeeps ==
  ASSUME Csma!TransmitAssumption, SendInv, Csma!AckReceived, UNCHANGED Csma!csmaVars PROVE SendInv'
BY DoneKeeps DEF Csma!AckReceived

LEMMA CapturedKeeps ==
  ASSUME Csma!TransmitAssumption, SendInv, Csma!Captured, UNCHANGED Csma!csmaVars PROVE SendInv'
<1>1. CASE Csma!CapturedSFD
  <2>1. /\ txState = "SFD" /\ txState' = "EFD" /\ sfdHigh' = TRUE /\ Csma!Capture("falling")
        /\ abortSpiRelease' = (abortSpiRelease \/ m_msg \in AckMessage)
        /\ Csma!GiveBack /\ tasks' = Csma!Released(tasks) /\ backoff' = FALSE
        /\ isr' \in {"none", "EFD"}
        /\ UNCHANGED <<Csma!message, m_receiving, sendErr, main, writing>>
    BY <1>1 DEF Csma!CapturedSFD, Csma!Begins, Csma!Enters, Csma!releaseSpiResource, SendInv, Types, Csma!TypeOK, Csma!TransmitTypeOK
  <2>2. ~In(tasks, "granted") /\ writing = FALSE /\ main # "congested" /\ Queue(tasks)
    BY <2>1 DEF SendInv, Hands, InHand, Types, Csma!TypeOK, Csma!TransmitTypeOK
  <2>3. /\ Queue(tasks')
        /\ \A u : In(tasks', u) <=> In(tasks, u) \/ (u = "granted" /\ bus = "transmit" /\ wish > 0)
        /\ bus' \in {"transmit", "csma", "other", "none"} /\ wish' \in 0..2
        /\ bus' = "csma" <=> bus = "csma"
    BY <2>1, <2>2, GiveBackFacts
  <2>4. Types'
    <3>1. {m_cca, m_receiving, sfdHigh, abortSpiRelease, backoff, writing, sfd, capture}' \subseteq BOOLEAN
      BY <2>1 DEF SendInv, Types, Csma!TypeOK, Csma!TransmitTypeOK, Csma!message, Csma!Capture
    <3>2. Csma!TransmitTypeOK'
      BY <2>1, <2>3, <3>1
      DEF SendInv, Types, Csma!TypeOK, Csma!TransmitTypeOK, Csma!message, Csma!Capture, Queue, TaskName
    <3> QED
      BY <2>3, <3>2 DEF SendInv, Types, Csma!TypeOK, Csma!csmaVars
  <2>5. Phases' /\ Switches'
    BY <2>1, <2>3, BusyKeeps
  <2>6. Handling'
    BY <2>1 DEF Handling
  <2>7. Hands'
    BY <2>1, <2>2, ReturnKeeps
  <2> QED BY <2>4, <2>5, <2>6, <2>7 DEF SendInv
<1>2. CASE Csma!CapturedEFD
  <2>1. /\ txState = "EFD" /\ sfdHigh' = FALSE /\ Csma!Capture("rising") /\ isr' \in {"none", "default"}
        /\ UNCHANGED <<Csma!message, m_receiving, main, bus, wish, writing>>
    BY <1>2 DEF Csma!CapturedEFD, Csma!Begins, Csma!Enters, SendInv, Handling
  <2>2. In(tasks, "granted") => bus = "transmit"
    BY <2>1, GrantHasBus
  <2>3. CASE txState' = "ACK_WAIT" /\ backoff' = TRUE /\ UNCHANGED <<abortSpiRelease, sendErr, tasks>>
    <3>1. {m_cca, m_receiving, sfdHigh, abortSpiRelease, backoff, writing, sfd, capture}' \subseteq BOOLEAN
      BY <2>1, <2>3 DEF SendInv, Types, Csma!TypeOK, Csma!TransmitTypeOK, Csma!message, Csma!Capture
    <3>2. Types'
      BY <2>1, <2>3, <3>1 DEF SendInv, Types, Csma!TypeOK, Csma!TransmitTypeOK, Csma!message, Csma!Capture, Csma!csmaVars
    <3>3. Phases' /\ Switches'
      BY <2>1, <2>3, BusyKeeps
    <3>4. Handling' /\ Hands'
      BY <2>1, <2>3 DEF SendInv, Handling, Hands, InHand
    <3> QED BY <3>2, <3>3, <3>4 DEF SendInv
  <2>4. CASE Csma!signalDone("SUCCESS", tasks) /\ UNCHANGED backoff
    <3>1. {m_receiving', sfdHigh', backoff', writing', sfd', capture'} \subseteq BOOLEAN
      BY <2>1, <2>4 DEF SendInv, Types, Csma!TypeOK, Csma!TransmitTypeOK, Csma!Capture
    <3>2. /\ main' \in {"none", "strobed", "congested"} /\ Queue(tasks)
          /\ bus' \in {"transmit", "csma", "other", "none"} /\ wish' \in 0..2
          /\ air' \in {"quiet", "rx", "tuned", "tx"} /\ edge' \in {"rising", "falling", "off"}
      BY <2>1 DEF SendInv, Types, Csma!TypeOK, Csma!TransmitTypeOK, Csma!Capture
    <3>3. /\ Types' /\ Phases' /\ Switches' /\ Handling' /\ txState' = "STARTED"
          /\ In(tasks', "granted") <=> In(tasks, "granted")
      BY <2>1, <2>4, <3>1, <3>2, DoneFacts
    <3>4. Hands'
      BY <2>1, <2>2, <3>3 DEF SendInv, Hands, InHand
    <3> QED BY <3>3, <3>4 DEF SendInv
  <2> QED BY <1>2, <2>3, <2>4 DEF Csma!CapturedEFD
<1>3. CASE Csma!CapturedDefault
  <2>1. /\ isr' = "none"
        /\ UNCHANGED <<txState, Csma!message, abortSpiRelease, backoff, sendErr, main, Csma!spi, writing>>
    BY <1>3 DEF Csma!CapturedDefault
  <2>2. /\ {m_receiving', sfdHigh', sfd', capture'} \subseteq BOOLEAN
        /\ air' \in {"quiet", "rx", "tuned", "tx"} /\ edge' \in {"rising", "falling", "off"}
    BY <1>3 DEF Csma!CapturedDefault, Csma!Capture, Csma!reception, SendInv, Types, Csma!TypeOK, Csma!TransmitTypeOK
  <2>3. Types'
    <3>1. {m_cca, m_receiving, sfdHigh, abortSpiRelease, backoff, writing, sfd, capture}' \subseteq BOOLEAN
      BY <2>1, <2>2 DEF SendInv, Types, Csma!TypeOK, Csma!TransmitTypeOK, Csma!message
    <3> QED
      BY <2>1, <2>2, <3>1 DEF SendInv, Types, Csma!TypeOK, Csma!TransmitTypeOK, Csma!message, Csma!spi, Csma!csmaVars
  <2>4. Phases' /\ Switches'
    BY <2>1 DEF SendInv, Phases, Switches, Csma!spi, Csma!csmaVars
  <2>5. Handling' /\ Hands'
    BY <2>1 DEF SendInv, Handling, Hands, InHand, Csma!spi
  <2> QED BY <2>3, <2>4, <2>5 DEF SendInv
<1> QED BY <1>1, <1>2, <1>3 DEF Csma!Captured

(* The chip moves by itself.                                               *)
LEMMA PinKeeps ==
  ASSUME SendInv, NEW level \in BOOLEAN, NEW from, NEW to \in {"quiet", "rx", "tuned", "tx"},
         Csma!Pin(level, from, to), UNCHANGED Csma!csmaVars
  PROVE  SendInv'
<1>1. /\ air' = to /\ sfd' = level
      /\ capture' = (capture \/ (sfd # level /\ edge = IF level THEN "rising" ELSE "falling"))
      /\ UNCHANGED <<txState, Csma!message, Csma!reception, abortSpiRelease, backoff,
                     sendErr, isr, main, Csma!spi, writing, edge>>
  BY DEF Csma!Pin
<1>2. Types'
  <2>1. {m_cca, m_receiving, sfdHigh, abortSpiRelease, backoff, writing, sfd, capture}' \subseteq BOOLEAN
    BY <1>1 DEF SendInv, Types, Csma!TypeOK, Csma!TransmitTypeOK, Csma!message, Csma!reception
  <2> QED
    BY <1>1, <2>1 DEF SendInv, Types, Csma!TypeOK, Csma!TransmitTypeOK, Csma!message, Csma!spi, Csma!csmaVars
<1>3. Phases' /\ Switches'
  BY <1>1 DEF SendInv, Phases, Switches, Csma!spi, Csma!csmaVars
<1>4. Handling' /\ Hands'
  BY <1>1 DEF SendInv, Handling, Hands, InHand, Csma!spi
<1> QED BY <1>2, <1>3, <1>4 DEF SendInv

LEMMA OthersKeep ==
  ASSUME SendInv, Csma!OtherTakesBus \/ Csma!OtherReleasesBus, UNCHANGED Csma!csmaVars PROVE SendInv'
<1>1. Csma!BusUntouched /\ Queue(tasks) /\ UNCHANGED <<splitControl, startup, accepted, cancelled>>
  BY DEF Csma!OtherTakesBus, Csma!OtherReleasesBus, SendInv, Types, Csma!csmaVars
<1>2. /\ bus \in {"none", "other"} /\ bus' \in {"transmit", "other", "none"} /\ wish' \in 0..2
      /\ Queue(tasks')
      /\ \A u : In(tasks', u) <=> In(tasks, u) \/ (u = "granted" /\ bus' = "transmit")
      /\ \A u, v : Ahead(tasks, u, v) => Ahead(tasks', u, v)
      /\ wish' > 0 => bus' # "none"
  <2>1. CASE Csma!OtherTakesBus
    BY <1>1, <2>1 DEF Csma!OtherTakesBus, SendInv, Types, Csma!TypeOK, Csma!TransmitTypeOK
  <2>2. CASE Csma!OtherReleasesBus
    BY <1>1, <2>2, FreeFacts DEF Csma!OtherReleasesBus
  <2> QED BY <2>1, <2>2
<1>3. Types'
  <2>1. Csma!TransmitTypeOK'
    BY <1>1, <1>2 DEF SendInv, Types, Csma!TypeOK, Csma!TransmitTypeOK, Queue, TaskName, Csma!BusUntouched, Csma!message, Csma!reception, Csma!chip
  <2> QED
    BY <1>1, <1>2, <2>1 DEF SendInv, Types, Csma!TypeOK
<1>4. Phases' /\ Switches'
  BY <1>1, <1>2 DEF SendInv, Phases, Switches, Csma!BusUntouched
<1>5. Handling' /\ Hands'
  <2>1. ~InHand
    BY <1>2 DEF SendInv, Hands
  <2> QED
    BY <1>1, <1>2, <2>1 DEF SendInv, Handling, Hands, InHand, Csma!BusUntouched
<1> QED BY <1>3, <1>4, <1>5 DEF SendInv

LEMMA SendInvNext ==
  ASSUME Csma!TransmitAssumption, SendInv, [Csma!Next]_(Csma!radioVars)
  PROVE  SendInv'
<1>1. CASE \E x \in Message, cca \in BOOLEAN : Csma!SendSend(x, cca)
  BY <1>1, SendKeeps
<1>2. CASE /\ Csma!RxBegins \/ Csma!FrameMoves
           /\ UNCHANGED Csma!csmaVars
  BY <1>2, PinKeeps DEF Csma!RxBegins, Csma!FrameMoves
<1>3. CASE UNCHANGED Csma!radioVars
  <2>1. Types'
    BY <1>3 DEF SendInv, Types, Csma!TypeOK, Csma!TransmitTypeOK, Queue, Csma!radioVars, Csma!transmitVars, Csma!csmaVars,
                Csma!message, Csma!reception, Csma!spi, Csma!chip
  <2>2. Phases' /\ Switches' /\ Handling' /\ Hands'
    BY <1>3 DEF SendInv, Phases, Switches, Handling, Hands, InHand, Csma!radioVars, Csma!transmitVars, Csma!csmaVars, Csma!spi
  <2> QED BY <2>1, <2>2 DEF SendInv
<1> QED
  BY <1>1, <1>2, <1>3, StartKeeps, StopKeeps, CancelKeeps, VRegKeeps, ResourceKeeps, OscillatorKeeps,
     StartDoneKeeps, StopDoneKeeps, SendDoneKeeps, WriteDoneKeeps, FiredKeeps, GrantedKeeps,
     AttemptKeeps, AckKeeps, CapturedKeeps, OthersKeep
  DEF Csma!Next, Csma!Handlers, Csma!TransmitTasks

LEMMA SendAlways == Csma!TransmitAssumption => (Csma!Spec => []SendInv)
<1> SUFFICES ASSUME Csma!TransmitAssumption PROVE Csma!Spec => []SendInv
  OBVIOUS
<1>1. Csma!Init => SendInv
  BY InitSend
<1>2. SendInv /\ [Csma!Next]_(Csma!radioVars) => SendInv'
  BY SendInvNext
<1> QED
  BY <1>1, <1>2, PTL DEF Csma!Spec

LEMMA ReturnedFromInv == SendInv => Csma!BusIsReturned
<1> SUFFICES ASSUME SendInv PROVE Csma!BusIsReturned
  OBVIOUS
<1>1. ASSUME accepted = None \/ sendErr # None
      PROVE  ~abortSpiRelease /\ (bus = "transmit" => "granted" \in {tasks[i] : i \in DOMAIN tasks})
  <2>1. txState \in {"STOPPED", "STARTED"}
    BY <1>1 DEF SendInv, Phases
  <2>2. ~abortSpiRelease /\ ~InHand
    BY <2>1 DEF SendInv, Handling, Hands, InHand
  <2>3. bus = "transmit" => In(tasks, "granted")
    BY <2>2 DEF SendInv, Hands
  <2> QED
    BY <2>2, <2>3 DEF In
<1>2. writing \/ (main # "none" /\ txState = "SFD") => bus = "transmit"
  BY DEF SendInv, Hands, InHand
<1> QED
  BY <1>1, <1>2 DEF Csma!BusIsReturned

(* The bus is given back, and the chip's lock on it given up, before a     *)
(* message is answered; and the chip is used only with the bus in hand.    *)
THEOREM GivesBackBus == Csma!TransmitAssumption => (Csma!Spec => []Csma!BusIsReturned)
<1> SUFFICES ASSUME Csma!TransmitAssumption PROVE Csma!Spec => []Csma!BusIsReturned
  OBVIOUS
<1> QED
  BY SendAlways, ReturnedFromInv, PTL

------------------------------------------------------------------------------
(* Refinement: what the user of medium access sees.                        *)

Result == IF accepted = None THEN None ELSE sendErr

LEMMA AnswersOnce ==
  ASSUME SendInv,
         \/ Csma!Handlers \/ Csma!TransmitTasks \/ Csma!AckReceived \/ Csma!Captured
         \/ Csma!RxBegins \/ Csma!FrameMoves \/ Csma!OtherTakesBus \/ Csma!OtherReleasesBus
  PROVE  sendErr' = sendErr \/ sendErr = None
<1> SUFFICES ASSUME sendErr # None PROVE sendErr' = sendErr
  OBVIOUS
<1>1. txState \in {"STOPPED", "STARTED"} /\ ~writing /\ isr # "EFD"
  BY DEF SendInv, Phases, Hands, Handling
<1>2. CASE Csma!TransmitTasks
  BY <1>1, <1>2 DEF Csma!TransmitTasks, Csma!SpiResourceGranted, Csma!GrantedLoads, Csma!GrantedStrobes, Csma!GrantedReturns,
                    Csma!AttemptEnds
<1>3. CASE Csma!Handlers
  BY <1>1, <1>3 DEF Csma!Handlers, Csma!TXFIFOWriteDone, Csma!BackoffTimerFired, Csma!FiredSamples, Csma!FiredAttempts,
                    Csma!FiredGivesUp, Csma!FiredIdles
<1>4. CASE Csma!Captured
  <2>1. isr \in {"none", "default"}
    BY <1>1 DEF SendInv, Types, Csma!TypeOK, Csma!TransmitTypeOK
  <2> QED
    BY <1>1, <1>4, <2>1 DEF Csma!Captured, Csma!CapturedSFD, Csma!CapturedEFD, Csma!CapturedDefault, Csma!Begins, Csma!Enters
<1>5. CASE Csma!AckReceived \/ Csma!RxBegins \/ Csma!FrameMoves \/ Csma!OtherTakesBus \/ Csma!OtherReleasesBus
  BY <1>1, <1>5 DEF Csma!AckReceived, Csma!RxBegins, Csma!FrameMoves, Csma!Pin, Csma!OtherTakesBus, Csma!OtherReleasesBus, Csma!BusUntouched
<1> QED
  BY <1>2, <1>3, <1>4, <1>5

LEMMA HiddenStep ==
  ASSUME SendInv, SendInv', UNCHANGED Csma!csmaVars, sendErr' = sendErr \/ sendErr = None
  PROVE  [Csma!Send!Next]_(Csma!Send!radio)
<1>1. UNCHANGED <<Csma!Power, accepted, cancelled>>
  BY DEF Csma!csmaVars, Csma!Power
<1>2. CASE sendErr' = sendErr \/ accepted = None
  <2>1. Result' = Result
    BY <1>2 DEF Result, Csma!csmaVars
  <2> QED
    BY <1>1, <2>1 DEF Csma!Send!radio, Result
<1>3. CASE sendErr' # sendErr /\ accepted # None /\ sendErr = None
  <2>1. sendErr' \in {"SUCCESS", "ERETRY", "ECANCEL"} /\ (cancelled <=> sendErr' = "ECANCEL")
    BY <1>3 DEF SendInv, Types, Csma!TypeOK, Csma!TransmitTypeOK, Phases, Csma!csmaVars
  <2>2. Csma!Send!Answer
    BY <1>1, <1>3, <2>1 DEF Csma!Send!Answer
  <2> QED
    BY <2>2 DEF Csma!Send!Next
<1> QED BY <1>2, <1>3

LEMMA SendStep ==
  ASSUME Csma!TransmitAssumption, SendInv, SendInv', [Csma!Next]_(Csma!radioVars)
  PROVE  [Csma!Send!Next]_(Csma!Send!radio)
<1>1. /\ Csma!Power = "off" <=> splitControl = "STOPPED"
      /\ Csma!Power = "starting" <=> splitControl = "STARTING"
      /\ Csma!Power = "on" <=> splitControl \in {"STARTED", "TRANSMITTING"}
      /\ Csma!Power = "stopping" <=> splitControl = "STOPPING"
  BY DEF Csma!Power, SendInv, Types, Csma!TypeOK
<1>2. /\ Csma!Power' = "off" <=> splitControl' = "STOPPED"
      /\ Csma!Power' = "starting" <=> splitControl' = "STARTING"
      /\ Csma!Power' = "on" <=> splitControl' \in {"STARTED", "TRANSMITTING"}
      /\ Csma!Power' = "stopping" <=> splitControl' = "STOPPING"
  BY DEF Csma!Power, SendInv, Types, Csma!TypeOK
<1>3. accepted = None => sendErr = None /\ cancelled = FALSE
  BY DEF SendInv, Phases, Types, Csma!TypeOK
<1>4. CASE Csma!SplitControlStart
  <2>1. UNCHANGED <<accepted, cancelled, sendErr>>
    BY <1>4 DEF Csma!SplitControlStart, Csma!transmitVars
  <2>2. Csma!Send!Switch("off", "starting")
    BY <1>1, <1>2, <1>4, <2>1 DEF Csma!SplitControlStart, Csma!Send!Switch
  <2> QED BY <2>2 DEF Csma!Send!Next
<1>5. CASE Csma!SplitControlStop
  <2>1. UNCHANGED <<accepted, cancelled, sendErr>>
    BY <1>5 DEF Csma!SplitControlStop, Csma!transmitVars
  <2>2. Csma!Send!Switch("on", "stopping")
    BY <1>1, <1>2, <1>5, <2>1 DEF Csma!SplitControlStop, Csma!Send!Switch
  <2> QED BY <2>2 DEF Csma!Send!Next
<1>6. CASE \E x \in Message, cca \in BOOLEAN : Csma!SendSend(x, cca)
  <2>1. PICK x \in Message, cca \in BOOLEAN : Csma!SendSend(x, cca)
    BY <1>6
  <2>2. accepted = None /\ x # None
    BY <2>1 DEF Csma!SendSend, SendInv, Switches, Csma!TransmitAssumption
  <2>3. accepted' = x /\ cancelled' = FALSE /\ sendErr' = sendErr /\ Csma!Power = "on" /\ Csma!Power' = Csma!Power
    BY <1>1, <1>2, <2>1 DEF Csma!SendSend, Csma!send
  <2>4. Csma!Send!Send(x)
    BY <1>3, <2>2, <2>3 DEF Csma!Send!Send
  <2> QED BY <2>4 DEF Csma!Send!Next
<1>7. CASE Csma!SendCancel
  <2>1. accepted # None /\ sendErr = None
    BY <1>7 DEF Csma!SendCancel, Csma!cancel, Csma!Cancellable, SendInv, Phases
  <2>2. cancelled' = TRUE /\ UNCHANGED <<splitControl, accepted, sendErr>>
    BY <1>7 DEF Csma!SendCancel, Csma!cancel
  <2>3. Csma!Power' = Csma!Power
    BY <2>2 DEF Csma!Power
  <2>4. Csma!Send!Cancel
    BY <2>1, <2>2, <2>3 DEF Csma!Send!Cancel
  <2> QED BY <2>4 DEF Csma!Send!Next
<1>8. CASE Csma!startVRegDone \/ Csma!ResourceGranted \/ Csma!startOscillatorDone
  <2>1. UNCHANGED <<splitControl, accepted, cancelled, sendErr>>
    BY <1>8 DEF Csma!startVRegDone, Csma!ResourceGranted, Csma!startOscillatorDone, Csma!StartMoves, Csma!BusUntouched, Csma!transmitVars
  <2> QED
    BY <2>1 DEF Csma!Send!radio, Csma!Power
<1>9. CASE Csma!startDone_task
  <2>1. Queue(tasks) /\ tasks # << >> /\ Head(tasks) = "startDone"
    BY <1>9 DEF Csma!startDone_task, Csma!Runs, SendInv, Types
  <2>2. In(tasks, "startDone")
    BY <2>1, TailFacts
  <2>3. splitControl = "STARTING" /\ splitControl' = "STARTED" /\ UNCHANGED <<accepted, cancelled, sendErr>>
    BY <1>9, <2>2 DEF Csma!startDone_task, Csma!start, SendInv, Switches
  <2>4. Csma!Send!Switch("starting", "on")
    BY <1>1, <1>2, <2>3 DEF Csma!Send!Switch
  <2> QED BY <2>4 DEF Csma!Send!Next
<1>10. CASE Csma!stopDone_task
  <2>1. Queue(tasks) /\ tasks # << >> /\ Head(tasks) = "stopDone"
    BY <1>10 DEF Csma!stopDone_task, Csma!Runs, SendInv, Types
  <2>2. In(tasks, "stopDone")
    BY <2>1, TailFacts
  <2>3. /\ splitControl = "STOPPING" /\ accepted = None /\ splitControl' = "STOPPED"
        /\ UNCHANGED <<accepted, cancelled, sendErr>>
    BY <1>10, <2>2 DEF Csma!stopDone_task, Csma!BusUntouched, SendInv, Switches
  <2>4. Csma!Send!StopDone
    BY <1>1, <1>2, <2>3 DEF Csma!Send!StopDone, Csma!Send!Switch
  <2> QED BY <2>4 DEF Csma!Send!Next
<1>11. CASE Csma!sendDone_task
  <2>1. Queue(tasks) /\ tasks # << >> /\ Head(tasks) = "sendDone"
    BY <1>11 DEF Csma!sendDone_task, Csma!Runs, SendInv, Types
  <2>2. In(tasks, "sendDone")
    BY <2>1, TailFacts
  <2>3. sendErr # None /\ accepted # None /\ splitControl \in {"TRANSMITTING", "STOPPING"}
    BY <2>2 DEF SendInv, Phases, Switches
  <2>4. accepted' = None /\ cancelled' = FALSE /\ sendErr' = None
    BY <1>11 DEF Csma!sendDone_task
  <2>5. Csma!Power' = Csma!Power
    BY <1>11, <2>3 DEF Csma!sendDone_task, Csma!StopsAfterSend, Csma!Power
  <2>6. Csma!Send!SendDone
    BY <2>3, <2>4, <2>5 DEF Csma!Send!SendDone
  <2> QED BY <2>6 DEF Csma!Send!Next
<1>12. CASE /\ Csma!Handlers \/ Csma!TransmitTasks \/ Csma!AckReceived \/ Csma!Captured
               \/ Csma!RxBegins \/ Csma!FrameMoves \/ Csma!OtherTakesBus \/ Csma!OtherReleasesBus
            /\ UNCHANGED Csma!csmaVars
  BY <1>12, AnswersOnce, HiddenStep
<1>13. CASE UNCHANGED Csma!radioVars
  BY <1>13 DEF Csma!radioVars, Csma!transmitVars, Csma!csmaVars, Csma!Send!radio, Csma!Power
<1> QED
  BY <1>4, <1>5, <1>6, <1>7, <1>8, <1>9, <1>10, <1>11, <1>12, <1>13 DEF Csma!Next

(* Starts, stops and sends are answered once and truly, in turn: every     *)
(* step of medium access and transmitter is one of RadioSend, or none.     *)
THEOREM AnswersSends ==
  Csma!TransmitAssumption => (Csma!Spec => Csma!Send!Init /\ [][Csma!Send!Next]_(Csma!Send!radio))
<1> SUFFICES ASSUME Csma!TransmitAssumption
             PROVE  Csma!Spec => Csma!Send!Init /\ [][Csma!Send!Next]_(Csma!Send!radio)
  OBVIOUS
<1>1. Csma!Init => Csma!Send!Init
  BY DEF Csma!Init, Csma!Send!Init, Csma!Power
<1>2. SendInv /\ SendInv' /\ [Csma!Next]_(Csma!radioVars) => [Csma!Send!Next]_(Csma!Send!radio)
  BY SendStep
<1> QED
  BY <1>1, <1>2, SendAlways, PTL DEF Csma!Spec

------------------------------------------------------------------------------
(* The two halves.                                                         *)

(* A behaviour of the radio is one of each half, which stands still while  *)
(* the other one runs.                                                     *)
LEMMA HalvesStep ==
  FairRadio => Spec /\ Csma!Spec
<1>1. InitRadio => Init /\ Csma!Init
  BY DEF InitRadio
<1>2. [NextRadio]_halves => [Next]_vars /\ [Csma!Next]_(Csma!radioVars)
  <2>1. UNCHANGED sendVars => UNCHANGED Csma!radioVars
    BY DEF sendVars, Csma!radioVars, Csma!transmitVars, Csma!csmaVars, Csma!message, Csma!reception,
       Csma!spi, Csma!chip
  <2> QED
    BY <2>1 DEF NextRadio, halves
<1> QED
  BY <1>1, <1>2, PTL DEF FairRadio, Spec, Csma!Spec

(* The transmitter gives back the bus and the chip's lock on it, and uses  *)
(* the bus only while it has it, for any messages.                         *)
THEOREM BusGivenBack == FairRadio => []BusIsReturned
<1>1. Csma!Spec => []BusIsReturned
  BY RadioAssumption, GivesBackBus DEF BusIsReturned
<1> QED
  BY <1>1, HalvesStep, PTL

(* Every step of the sending half is one of RadioSend, or none.            *)
THEOREM SendsAnswered == FairRadio => Csma!Send!Init /\ [][Csma!Send!Next]_(Csma!Send!radio)
<1>1. Csma!TransmitAssumption
  BY RadioAssumption
<1> QED
  BY <1>1, HalvesStep, AnswersSends, PTL

(* A received frame is in one hand in the radio, too.                      *)
THEOREM FrameStaysInHand == FairRadio => []FrameInOneHand
<1>1. ReceiveAssumption
  BY RadioAssumption
<1> QED
  BY <1>1, HalvesStep, FrameIsInOneHand, PTL
==============================================================================
