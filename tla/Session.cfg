SPECIFICATION CallingSpec
CONSTANTS
  Addresses = {a1, a2, a3}
  Sockets = {1, 2, 3}
  None = None
INVARIANTS
  SessionTypeOK
  NoDangling
  WatchesOpenSockets
PROPERTIES
  ImplementsLine
  ReceivingEnds
  DisconnectedAreFreed
  ReadableAreServed
