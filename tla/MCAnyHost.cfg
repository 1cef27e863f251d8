CONSTANTS
  FLASH_BASE = 0
  SECTOR_SIZE = 4
  FLASH_SECTOR_TOTAL = 3
  RESERVED_SECTORS = 2
  UINT32 = 64
  IAP_RX_BUFFER_SIZE = 2
  app = app
  empty = empty
  Images = {app, empty}
  NoImage = NoImage
  Size <- MCSize
  Bootable = {app}
  EraseFaults = TRUE
  WriteFaults = TRUE
  SilentFaults = TRUE
  SendFaults = TRUE
  SEND_QUEUE = 1
  Boot0Levels = {TRUE, FALSE}
  MaxPacket = 1
  CommandKinds = {"run", "flashbad"}
SPECIFICATION Spec
INVARIANTS WritesAppend NoLostWakeup
PROPERTIES OnlyEraseDestroys UploadStartsAtBase
VIEW WithoutReplies
