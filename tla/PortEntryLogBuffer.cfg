\* The claim of QuantoLog/README.txt.
CONSTANTS
  BUFFERSIZE = 3
  Record = {a, b}
  None = None
SPECIFICATION Spec
PROPERTY ProducerConsumer
