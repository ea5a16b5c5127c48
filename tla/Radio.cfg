\* Messages: one that asks for an acknowledgement and one that does not.
\* Receiver: frames of no byte, of a header and longer ones; a FIFO that two
\* of them overflow; a counter of missed frames of two bits.
CONSTANTS
  Message = {plain, acked}
  AckMessage = {acked}
  None = none
  RXFIFO_SIZE = 5
  MAC_PACKET_SIZE = 3
  SACK_HEADER_LENGTH = 1
  Byte = 4
  NoLength = nolength
SPECIFICATION FairRadio
INVARIANTS BusIsReturned FrameInOneHand
PROPERTIES ImplementsRadioSend FramesAreTaken
