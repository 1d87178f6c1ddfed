SPECIFICATION SessionSpec
CONSTANTS
  Addresses = {a1, a2, a3}
  Sockets = {1, 2, 3}
  None = None
SYMMETRY AnyAddress
INVARIANTS
  HeadersAreThePeers
