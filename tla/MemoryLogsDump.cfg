\* The claim of QuantoLogStagedMyUARTP.nc:2.
CONSTANTS
  LOGSIZE = 4
  N = 2
  Byte = 256
  Word = 2
  MaxOver = 2
  Record = {a}
  None = None
  BUFFERSIZE = 2
  Counter = 4
SPECIFICATION SpecStaged
INVARIANT DumpsWhatItLogged
