SPECIFICATION HostSpec
CONSTANTS
  Tools = {"decoder"}
  MaxLog = 8
  N = 4
  WordBits = 8
  CBLOCKSIZE = 2
  BITBUFSIZE = 6
  MTFSYNC = 1
  MaxBlocks = 2
  MaxReboots = 0
  Supply <- MCEqualTimes
  AllowZero = TRUE
  Pairs = 2
  MaxSessions = 2
  MaxSamples = 5
  MaxStale = 1
  Calls <- MCCalls
  Parts <- MCParts
  MaxRequests = 4
  TempChannels = {133, 141}
PROPERTY SyncLinePrinted
CHECK_DEADLOCK FALSE
