\* One message that asks for no acknowledgement is enough.
CONSTANTS
  Message = {plain}
  AckMessage = {}
  None = none
SPECIFICATION FairSpec
PROPERTY ReceptionsEnd
