SPECIFICATION FairSpec
CONSTANTS
  Lens <- MCLens
  MAXPACKET = 2
  MaxCalls = 3
INVARIANTS
  TypeOK
  TxBacked
  ReadOnce
PROPERTIES
  TxReleased
  Implements
