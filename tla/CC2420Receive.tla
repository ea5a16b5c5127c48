----------------------------- MODULE CC2420Receive -----------------------------
(***************************************************************************)
(* The radio's receiver (CC2420ReceiveP.nc) with the FIFO and the pins of  *)
(* the chip and with the bus, which other drivers take as well.            *)
(*                                                                         *)
(* Reads end and the FIFOP interrupt comes in handlers, and a handler is   *)
(* one step, except that frames may arrive before its waitForNextPacket,   *)
(* which is a step of its own for the task, too.  The bytes of a read      *)
(* leave the FIFO when it ends.  A byte is the length of a frame or is     *)
(* none, and read as a length then is any: so are bytes read from an empty *)
(* FIFO.  Contents, contexts, power states and time stamps are left out.   *)
(***************************************************************************)
EXTENDS Integers, Sequences

CONSTANTS
  RXFIFO_SIZE, MAC_PACKET_SIZE, SACK_HEADER_LENGTH,   \* 128, 127 at most, 7
  Byte,                                               \* values of m_missed_packets: 256
  NoLength                                            \* a byte that is no length

ReceiveAssumption ==
  /\ {RXFIFO_SIZE, MAC_PACKET_SIZE, SACK_HEADER_LENGTH, Byte} \subseteq Nat
  /\ 0 < SACK_HEADER_LENGTH /\ 0 < Byte /\ MAC_PACKET_SIZE < RXFIFO_SIZE
  /\ NoLength \notin Nat

VARIABLES
  m_state, m_missed_packets, receivingPacket, rxFrameLength, m_bytes_left,
  reading,     \* bytes that RXFIFO.readDone will bring, 0 if no read is under way
  donePosted,  \* receiveDone_task is posted
  waits,       \* the code that runs ends with waitForNextPacket
  request,     \* of the bus: "none", "asked", "granted" (the task is posted) or "owner"
  others,      \* another driver has the bus
  \* the chip
  fifo, overflow,
  fifop        \* the interrupt is pending

receiver == <<m_state, m_missed_packets, receivingPacket, rxFrameLength, m_bytes_left>>
busVars == <<request, others>>
chipVars == <<fifo, overflow, fifop>>
vars == <<receiver, reading, donePosted, waits, busVars, chipVars>>

Init ==
  /\ m_state = "STOPPED" /\ m_missed_packets = 0 /\ receivingPacket = FALSE
  /\ rxFrameLength = 0 /\ m_bytes_left = 0
  /\ reading = 0 /\ donePosted = FALSE /\ waits = FALSE
  /\ request = "none" /\ others = FALSE
  /\ fifo = << >> /\ overflow = FALSE /\ fifop = FALSE

------------------------------------------------------------------------------
(* The chip: see the comment at 440-448.                                   *)

(* FIFOP.get() and FIFO.get(). *)
FIFOP == fifo = << >> /\ ~overflow
FIFO == fifo # << >> /\ ~overflow

(* A frame of length n follows; what finds no room is lost, and after it   *)
(* everything until a flush.                                               *)
Frame(n) == <<n>> \o [i \in 1..n |-> NoLength]
Stored(n) == fifo \o Frame(n)

FrameArrives(n) ==
  /\ m_state # "STOPPED" /\ ~overflow
  /\ overflow' = (Len(Stored(n)) > RXFIFO_SIZE)
  /\ fifo' = IF overflow' THEN SubSeq(Stored(n), 1, RXFIFO_SIZE) ELSE Stored(n)
  /\ fifop' = (fifop \/ FIFOP)
  /\ UNCHANGED <<receiver, reading, donePosted, waits, busVars>>

BytesTaken(n) == fifo' = SubSeq(fifo, n + 1, Len(fifo)) /\ UNCHANGED <<overflow, fifop>>

LengthsRead ==
  IF fifo # << >> /\ Head(fifo) # NoLength THEN {Head(fifo)} ELSE 0..RXFIFO_SIZE

------------------------------------------------------------------------------
(* The bus: see CC2420Spi.  Who releases it makes way for a driver that    *)
(* waits.  A request makes the receiver m_holder if only the bus below is  *)
(* in use, and isOwner is true from then on.                               *)
isOwner == request \in {"granted", "owner"}

release ==
  IF isOwner THEN request' = "none" /\ others' \in BOOLEAN ELSE UNCHANGED busVars

receive == reading' = 1 /\ request' = "owner"

(* beginReceive, and what becomes of m_missed_packets before it. *)
beginReceive(missed) ==
  /\ m_state' = "RX_LENGTH" /\ receivingPacket' = TRUE /\ m_missed_packets' = missed
  /\ IF isOwner \/ (request = "none" /\ ~others)
     THEN receive
     ELSE request' \in {"asked", "granted"} /\ UNCHANGED reading
  /\ UNCHANGED <<rxFrameLength, m_bytes_left, others>>

reset_state ==
  /\ m_bytes_left' = RXFIFO_SIZE /\ receivingPacket' = FALSE /\ m_missed_packets' = 0

------------------------------------------------------------------------------
(* Commands, called by CC2420CsmaP in tasks.  A start has asked for the    *)
(* bus last of all, and its task was posted last: no request or task of    *)
(* the receiver's is left from before.                                     *)

Start ==
  /\ m_state = "STOPPED" /\ ~waits /\ ~donePosted /\ request = "none"
  /\ reset_state /\ m_state' = "STARTED"
  /\ fifop' = FALSE
  /\ UNCHANGED <<rxFrameLength, reading, donePosted, waits, busVars, fifo, overflow>>

(* After a stop the chip is turned off. *)
Stop ==
  /\ m_state # "STOPPED" /\ ~waits
  /\ m_state' = "STOPPED" /\ reset_state
  /\ fifo' = << >> /\ overflow' = FALSE /\ fifop' = FALSE
  /\ UNCHANGED <<rxFrameLength, reading, donePosted, waits, busVars>>

------------------------------------------------------------------------------
(* Handlers and tasks.                                                     *)

InterruptFIFOPFired ==
  /\ fifop /\ ~waits /\ fifop' = FALSE
  /\ \/ m_state = "STARTED" /\ beginReceive(m_missed_packets)
     \/ /\ m_state # "STARTED" /\ m_missed_packets' = (m_missed_packets + 1) % Byte
        /\ UNCHANGED <<m_state, receivingPacket, rxFrameLength, m_bytes_left, reading, busVars>>
  /\ UNCHANGED <<donePosted, waits, fifo, overflow>>

SpiResourceGranted ==
  /\ request = "granted" /\ ~others /\ ~waits
  /\ receive
  /\ UNCHANGED <<receiver, donePosted, waits, others, chipVars>>

(* readDone, by state: first the length byte of a frame. *)
Flush ==
  /\ reset_state /\ release /\ reading' = 0 /\ waits' = TRUE
  /\ fifo' = << >> /\ overflow' = FALSE /\ UNCHANGED fifop

Fits(n) ==
  /\ n + 1 <= m_bytes_left
  /\ BytesTaken(1)
  /\ m_bytes_left' = IF ~FIFO' /\ ~FIFOP' THEN m_bytes_left - (n + 1) ELSE m_bytes_left
  /\ UNCHANGED m_missed_packets

LengthDone ==
  /\ m_state = "RX_LENGTH"
  /\ rxFrameLength' \in LengthsRead
  /\ LET n == rxFrameLength' IN
       \/ /\ n + 1 > m_bytes_left \/ n > MAC_PACKET_SIZE
          /\ m_state' = "RX_FCF" /\ Flush
       \/ /\ Fits(n) /\ n = 0
          /\ m_state' = "RX_FCF" /\ receivingPacket' = FALSE
          /\ release /\ reading' = 0 /\ waits' = TRUE
       \/ /\ Fits(n) /\ n \in 1..MAC_PACKET_SIZE
          /\ IF n > SACK_HEADER_LENGTH
             THEN m_state' = "RX_FCF" /\ reading' = SACK_HEADER_LENGTH
             ELSE m_state' = "RX_PAYLOAD" /\ reading' = n
          /\ UNCHANGED <<receivingPacket, waits, busVars>>
  /\ UNCHANGED donePosted

(* Whether an acknowledgement is strobed changes nothing here. *)
HeaderDone ==
  /\ m_state = "RX_FCF" /\ m_state' = "RX_PAYLOAD"
  /\ BytesTaken(reading) /\ reading' = rxFrameLength - SACK_HEADER_LENGTH
  /\ UNCHANGED <<m_missed_packets, receivingPacket, rxFrameLength, m_bytes_left,
                 donePosted, waits, busVars>>

(* The bus is kept for the next frame if one was missed. *)
MayReleaseBus == IF m_missed_packets = 0 THEN release ELSE UNCHANGED busVars

(* Mutant: a data frame's return is missing. *)
PassOn_NoReturn == donePosted' \in BOOLEAN /\ waits' = TRUE

(* A data frame that passes its CRC goes to the task, which waits for the  *)
(* next one; of others the transmitter is told at most.                    *)
PassOn ==
  \/ donePosted' = TRUE /\ UNCHANGED waits
  \/ waits' = TRUE /\ UNCHANGED donePosted

PayloadDone ==
  /\ m_state = "RX_PAYLOAD"
  /\ BytesTaken(reading) /\ reading' = 0
  /\ MayReleaseBus /\ PassOn
  /\ UNCHANGED receiver

UnexpectedDone ==
  /\ m_state \in {"STOPPED", "STARTED"}
  /\ receivingPacket' = FALSE /\ release
  /\ BytesTaken(reading) /\ reading' = 0
  /\ UNCHANGED <<m_state, m_missed_packets, rxFrameLength, m_bytes_left, donePosted, waits>>

RXFIFOReadDone ==
  /\ reading > 0 /\ ~waits
  /\ LengthDone \/ HeaderDone \/ PayloadDone \/ UnexpectedDone

receiveDone_task ==
  /\ donePosted /\ ~waits
  /\ donePosted' = FALSE /\ waits' = TRUE /\ receivingPacket' = FALSE
  /\ UNCHANGED <<m_state, m_missed_packets, rxFrameLength, m_bytes_left, reading,
                 busVars, chipVars>>

(* Mutant: only interrupts count.                                          *)
MoreFrames_Missed == m_missed_packets > 0 /\ FIFO

MoreFrames == (m_missed_packets > 0 /\ FIFO) \/ ~FIFOP

waitForNextPacket ==
  /\ waits /\ waits' = FALSE
  /\ \/ /\ m_state = "STOPPED"
        /\ release /\ UNCHANGED <<receiver, reading>>
     \/ /\ m_state # "STOPPED" /\ MoreFrames
        /\ beginReceive(IF m_missed_packets > 0 THEN m_missed_packets - 1 ELSE 0)
     \/ /\ m_state # "STOPPED" /\ ~MoreFrames
        /\ m_state' = "STARTED" /\ m_missed_packets' = 0 /\ receivingPacket' = FALSE
        /\ release /\ UNCHANGED <<rxFrameLength, m_bytes_left, reading>>
  /\ UNCHANGED <<donePosted, chipVars>>

------------------------------------------------------------------------------
(* The other drivers. *)
OthersTakeBus ==
  /\ ~others /\ request = "none" /\ ~waits
  /\ others' = TRUE
  /\ UNCHANGED <<receiver, reading, donePosted, waits, request, chipVars>>

OthersReleaseBus ==
  /\ others /\ ~waits
  /\ others' = FALSE
  /\ request' = IF request = "asked" THEN "granted" ELSE request
  /\ UNCHANGED <<receiver, reading, donePosted, waits, chipVars>>

Next ==
  \/ Start \/ Stop
  \/ \E n \in 0..MAC_PACKET_SIZE : FrameArrives(n)
  \/ InterruptFIFOPFired \/ SpiResourceGranted \/ RXFIFOReadDone
  \/ receiveDone_task \/ waitForNextPacket
  \/ OthersTakeBus \/ OthersReleaseBus

Spec == Init /\ [][Next]_vars

(* Handlers and tasks run and reads end, whatever else comes in between,   *)
(* and the other drivers give the bus back.                                *)
Fairness ==
  /\ WF_vars(waitForNextPacket)
  /\ SF_vars(InterruptFIFOPFired) /\ SF_vars(RXFIFOReadDone)
  /\ SF_vars(SpiResourceGranted) /\ SF_vars(receiveDone_task)
  /\ SF_vars(OthersReleaseBus)

FairSpec == Spec /\ Fairness

------------------------------------------------------------------------------
ReceiveTypeOK ==
  /\ m_state \in {"STOPPED", "STARTED", "RX_LENGTH", "RX_FCF", "RX_PAYLOAD"}
  /\ m_missed_packets \in 0..Byte - 1 /\ rxFrameLength \in 0..RXFIFO_SIZE
  /\ m_bytes_left \in 0..RXFIFO_SIZE /\ reading \in 0..RXFIFO_SIZE
  /\ request \in {"none", "asked", "granted", "owner"}
  /\ {receivingPacket, donePosted, waits, others, overflow, fifop} \subseteq BOOLEAN
  /\ fifo \in Seq((0..MAC_PACKET_SIZE) \cup {NoLength}) /\ Len(fifo) <= RXFIFO_SIZE

(* A frame is in one hand: a read that is under way, a task that is        *)
(* posted, or code that is about to look for the next one.  Reads are made *)
(* with the bus, which is asked for only when none of the others has the   *)
(* frame, and kept only while one of them does.                            *)
FrameInOneHand ==
  /\ reading > 0 => request = "owner" /\ ~donePosted /\ ~waits
  /\ ~(donePosted /\ waits)
  /\ request \in {"asked", "granted"} => ~donePosted /\ ~waits
  /\ request = "owner" => reading > 0 \/ donePosted \/ waits
  /\ request = "owner" => ~others
  /\ m_state = "STARTED" => request = "none" /\ ~donePosted /\ ~receivingPacket

(* What is in the FIFO is read on and on, and an overflow is flushed, with *)
(* the interrupt come or missed, whatever is read instead of a length, and *)
(* however others use the bus.                                             *)
AllTaken == m_state = "STOPPED" \/ (fifo = << >> /\ ~overflow)
BytesRead == Len(fifo') < Len(fifo)
FramesAreTaken == []<>AllTaken \/ []<><<BytesRead>>_vars
==============================================================================
