SPECIFICATION HostSpec
CONSTANTS
  Tools = {"decoder", "QuantoLogger", "ue9"}
  MaxLog = 8
  N = 4
  WordBits = 8
  CBLOCKSIZE = 2
  BITBUFSIZE = 6
  MTFSYNC = 3
  MaxBlocks = 4
  MaxReboots = 1
  Supply <- MCSupply
  AllowZero = FALSE
  Pairs = 2
  MaxSessions = 2
  MaxSamples = 5
  MaxStale = 1
  Calls <- MCCalls
  Parts <- MCParts
  MaxRequests = 4
  TempChannels = {133, 141}
INVARIANTS HostTypeOK ListsArePermutations PrintedIsRecorded GivesUpForCause PrintsOwnSamples AnswersMatch CalibrationIsRead
PROPERTY SyncLinePrinted
CHECK_DEADLOCK FALSE
