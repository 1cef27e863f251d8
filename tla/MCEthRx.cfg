SPECIFICATION FairSpec
CONSTANTS
  ETH_RX_DESC_CNT = 2
  RxBuffers = {b1, b2, b3, b4}
  NoBuffer = NoBuffer
  MaxFrames = 6
  Scenarios <- MCScenarios
INVARIANTS
  TypeOK
  BuffersConserved
  NoFault
  WholeFrames
PROPERTIES
  RingRefilled
  ReadUntilRestart
