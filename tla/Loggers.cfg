\* Streams: two blocks of two slots (one sent, one being filled), or four
\* single slots; two entries tell an entry from another one.  In memory: logs
\* of two messages or of three entries; counters of two bits over a buffer of
\* two pass its end and wrap.  Times: two intervals of one tick, counters of
\* one bit.
CONSTANTS
  BUFFERSIZE = 4
  CBLOCKSIZE = 2
  LOGSIZE = 4
  N = 2
  Byte = 3
  Word = 2
  MaxOver = 2
  DUMPSIZE = 2
  Counter = 4
  Res = {0, 1}
  Activity = {unknown, red}
  UNKNOWN = unknown
  REPORT_INTERVAL = 0
  Half = 2
  Clock = 8
  MaxTime = 2
  Record = {a, b}
  None = None
SPECIFICATION FairLogs
INVARIANTS LogsTypeOK BlockInOneHand FlushTellsLog DumpsKeepGoing ReportAddsUp
PROPERTIES ImplementsBlockLog BlocksAreSent FlushIsComplete FlushesEnd
