SPECIFICATION ReadingSpec
CONSTANTS
  FUs = {1}
  DataIds = {0, 1}
  MaxSize = 12
  BufferSize = 256
  Ids <- MCIds
  ForeignIds <- MCForeignIds
  Types = {0, 1}
  Values = {0, 1}
  TypeOfId <- MCTypeOfId
  Timeout <- MCTimeout
  ClockMod = 2
  AgeCap = 2
INVARIANTS
  MessagesTypeOK
  NonzeroWasSent
PROPERTIES
  RegistrationEnds
