\* Arbiter: three clients, so that two of them wait in the queue, and two
\* activities, so that a grant can be under a wrong one.  Radio: the two
\* drivers of the repository and another user of the bus.  Writer: three
\* clients; counters of two bits, so that one buffer has their range.
CONSTANTS
  Client = {c1, c2, c3}
  Act = {red, blue}
  Idle = idle
  DefaultOwner = owner
  None = none
  Ids = {0, 1}
  Transmitter = 0
  Radio = radio
  Other = other
  NUM_CLIENTS = 3
  BufLen <- Lengths
  Byte = 4
  SERIAL_MTU = 3
SPECIFICATION FairHardware
INVARIANTS HardwareTypeOK HolderOwnsResource DriverOwnsBus FrameIsBuffer WriteInOneHand
PROPERTIES ImplementsFcfsGrants RequestsAreGranted DriversAreServed ImplementsSharedWriter
