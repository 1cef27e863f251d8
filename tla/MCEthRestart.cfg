SPECIFICATION FairSpec
CONSTANTS
  ETH_RX_DESC_CNT = 3
  RxBuffers = {b1, b2, b3, b4, b5}
  NoBuffer = NoBuffer
  MaxFrames = 4
  Scenarios <- MCRestart
PROPERTIES
  ReceivedIsRead
