CONSTANTS
  FLASH_BASE = 0
  SECTOR_SIZE = 2
  FLASH_SECTOR_TOTAL = 4
  RESERVED_SECTORS = 2
  UINT32 = 64
  IAP_RX_BUFFER_SIZE = 2
  small = small
  large = large
  Images = {small, large}
  NoImage = NoImage
  Size <- MCSize
  Bootable = {small}
  EraseFaults = TRUE
  WriteFaults = TRUE
  SilentFaults = FALSE
  SendFaults = FALSE
  SEND_QUEUE = 2
  Boot0Levels = {TRUE, FALSE}
  MaxPacket = 2
  PromptHost = FALSE
  LinkFaults = TRUE
  PowerFaults = TRUE
  Links = {"IAP_CDC", "IAP_ETHERNET"}
SPECIFICATION Spec
INVARIANTS TypeOK StreamIntegrity BufferBound ExactlyOneAnswer IInv
PROPERTIES ProgrammedOnce UpdateSpec
